CONSTANTS
  Fotos <- MCFotos
  MaxBytes = 2
  MaxNummer = 3
  MaxLaden = 2
  MaxSichern = 2
SPECIFICATION Spec
INVARIANTS ProfilBleibt AngabenTreu PlatzReicht
CHECK_DEADLOCK FALSE
