SPECIFICATION PartsSpec
CONSTANTS
  Types = {}
  MaxBytes = 0
  Layouts <- MCLayouts
  PageSize = 4
  Base = 2
  MaxSteps = 3
CHECK_DEADLOCK FALSE
INVARIANTS AllocInv IntegerLaws DecoderLaws 
PROPERTIES RegionsIndependent
