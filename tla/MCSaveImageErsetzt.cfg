CONSTANTS
  Faelle <- MCFaelle
  MaxSaves = 2
  OeffnenScheitert = TRUE
SPECIFICATION Spec
INVARIANT ImmerErsetzt
CHECK_DEADLOCK FALSE
