CONSTANTS
  Faelle <- MCFaelle
  MaxSaves = 2
  OeffnenScheitert = TRUE
SPECIFICATION Spec
INVARIANTS ExifKommtMit NichtDoppeltGedreht KeineReste BildBleibt
PROPERTY OriginalBleibt
CHECK_DEADLOCK FALSE
