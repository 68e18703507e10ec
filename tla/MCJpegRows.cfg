SPECIFICATION Spec
CONSTANTS
  Groessen <- MCGroessen
  MaxFlaeche = 40
  Modul = 256
INVARIANT Aufgerichtet
CHECK_DEADLOCK FALSE
