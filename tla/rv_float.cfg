CONSTANTS
  DevicesLength = 4
  MemBytes = 12
  PAGE_OFFSET_WIDTH = 4
  VPN_WIDTH = 1
  PPN_WIDTH = 6
  Levels <- MCLevels
  XRegs <- MCFXRegs
  Starts <- MCFStarts
  Examined <- MCPairs
  Instrs <- MCNoInstrs
  FRegs <- MCFRegs
  FrmStates <- MCFcsrs
  Results <- MCResults
  FInstrs <- MCFInstrs
  MaxSteps = 2

SPECIFICATION FSpec
CHECK_DEADLOCK FALSE
INVARIANTS FloatLaws
PROPERTIES FloatSteps
