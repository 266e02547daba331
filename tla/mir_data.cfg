SPECIFICATION DataSpec
CONSTANTS
  MAX_EP_LEN = 3
  MaxMumav = 3
  FrOrder = 5
  known_contracts <- MCContracts
  ctx <- MCContext
  Scripts <- MCScripts
  Parameters <- MCParameters
  Limits = {100000000, 20000, 60}
  TcGas = 100000000
  MaxCalls = 4
CHECK_DEADLOCK FALSE
INVARIANTS  WireSound
PROPERTIES MapsAreValues
