CONSTANTS
  X = 4
  Y = 4
  Faelle <- MCFaelle
SPECIFICATION FairSpec
INVARIANTS GanzeRegion BeideGleich AusdehnungStimmt
PROPERTY FuellenEndet
CHECK_DEADLOCK TRUE
