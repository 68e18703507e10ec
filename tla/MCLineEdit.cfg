SPECIFICATION EditSpec
CONSTANTS
  l1 = l1  l2 = l2  l3 = l3
  Linien <- MCLinien
  Laeufe = 2
  Mindest = 1
  Anteil = 50
  MaxBilder = 2
INVARIANTS KorrekturZuLinien AusschnittPasst
SYMMETRY Gleich
CHECK_DEADLOCK FALSE
