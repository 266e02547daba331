SPECIFICATION EtherlinkSpec
CONSTANTS
  Ids = {o1, o2}
  Values = {v1, v2}
  NoObject = none
  MaxLayers = 4
  Hash = {h1, h2, h3, h4}
CHECK_DEADLOCK FALSE
INVARIANTS RebootTransparent ChainSound  
PROPERTIES Terminates  Implements
