SPECIFICATION DeployedSpec
CONSTANTS
  NoPayload = NoPayload  NoBlock = NoBlock  NoOps = NoOps
  Baker = b
  Peer = h
  Faulty = z
  Operations = {o1}
CHECK_DEADLOCK FALSE
INVARIANTS RecordedAgreement RecordedBlocksJustified SignsOnce
PROPERTIES UnlockingFollowsRules
