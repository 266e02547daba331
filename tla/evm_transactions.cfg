SPECIFICATION Spec
CONSTANTS
  User <- MCUser
  GasPrice = 2
  DaFeePerByte = 3
  CallValueCost = 3
  CallStipend = 2
  BaseCost = 1
  DepositCost = 1
  RetainedShare = 4
  StackLimit = 2
  TicksPerGas = 1
  PrecompileTicks = 3
  PrecompileCost = 1
  PairingTicks = 6
  WeiPerMumav = 1
  NewAddress <- MCNewAddress
  Scenarios <- MCScenarios
CHECK_DEADLOCK FALSE
INVARIANTS CommittedEffects FundsAndGasSound 
