CONSTANTS
  MaxBilder = 3
  Aufloesungen <- MCAufloesungen
  MaxStapel = 2
SPECIFICATION Spec
INVARIANTS MalSicher AnzeigeWiederDa AllesVomBild VorschauStimmt KorrekturPasst
CHECK_DEADLOCK FALSE
