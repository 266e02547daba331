CONSTANTS
  DevicesLength = 16
  MemBytes = 64
  PAGE_OFFSET_WIDTH = 4
  VPN_WIDTH = 1
  PPN_WIDTH = 6
  Levels <- MCLevels
  XRegs <- MCXRegs
  Starts <- MCStarts
  Instrs <- MCInstrs
  MaxSteps = 2

SPECIFICATION Spec
CHECK_DEADLOCK FALSE
INVARIANTS MemoryLaws
PROPERTIES StoresThroughDirtyLeaves
