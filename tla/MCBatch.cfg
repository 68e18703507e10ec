CONSTANTS
  Punkt = 1
  Tmp <- MCTmp
  Endung <- MCEndung
  Fotos <- MCFotos
  Suffixe <- MCSuffixe
  Formate <- MCFormate
  MaxWahl = 3
  MaxStapel = 1
SPECIFICATION FairSpec
INVARIANTS GeordneteListe JederFuerSich
PROPERTY StapelEndet
CHECK_DEADLOCK FALSE
