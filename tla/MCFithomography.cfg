SPECIFICATION FitSpec
CONSTANTS
  l1 = l1  l2 = l2  l3 = l3  l4 = l4  l5 = l5
  Linien <- MCLinien
  Laeufe = 3
  Mindest = 1
  Anteil = 50
  Stufen = 3
INVARIANT FitInv
PROPERTY ErfuelltLineFit
CHECK_DEADLOCK FALSE
