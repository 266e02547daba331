SPECIFICATION Spec
CONSTANTS
  NoPayload = NoPayload  NoBlock = NoBlock  NoOps = NoOps
  Bakers = {b, h, z}
  Byzantine = {z}
  Detailed = {b}
  Quorums <- PeerQuorums
  CommitteeSize = 3
  SlotOwner <- SlotsRound1
  Ops = {o1}
  MaxRound = 1
  MaxLevel = 2
  MaxPending = 3
  ParentRounds = {0}
  Proposals <- OtherProposals
  StateRecorder = "Filesystem"
  Adversity = {"Crash", "SignerFails"}
CHECK_DEADLOCK FALSE
INVARIANTS AttestedIsRecorded
PROPERTIES ConsensusSpec
