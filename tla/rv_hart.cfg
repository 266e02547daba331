CONSTANTS
  Csrs <- MCCsrs
  XRegs <- MCXRegs
  Programs <- MCPrograms
  InitialPc = {}
  MaxPcBit = 6

SPECIFICATION Spec
CHECK_DEADLOCK FALSE
INVARIANTS HartLaws
PROPERTIES SupervisorConfined
