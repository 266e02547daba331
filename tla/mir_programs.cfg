SPECIFICATION Spec
CONSTANTS
  MAX_EP_LEN = 3
  MaxMumav = 3
  FrOrder = 5
  known_contracts <- MCContracts
  ctx <- MCContext
  entrypoints <- MCEntrypoints
  big_maps <- NoMaps
  TcGas = 100000000
  Suites <- MCSuites
CHECK_DEADLOCK FALSE
INVARIANTS  InstructionLaws
PROPERTIES TicketsOnlyMinted
