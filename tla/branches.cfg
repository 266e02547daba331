SPECIFICATION Spec
CONSTANTS
  NoPayload = NoPayload  NoBlock = NoBlock  NoOps = NoOps
  Bakers = {b, z}
  Byzantine = {z}
  Detailed = {b}
  Quorums <- PivotQuorums
  CommitteeSize = 3
  SlotOwner <- SlotsRound1
  Ops = {o1}
  MaxRound = 1
  MaxLevel = 2
  MaxPending = 3
  ParentRounds = {0, 1}
  Proposals <- OtherProposals
  StateRecorder = "Filesystem"
  Adversity = {"SignerFails", "LateSigner"}
CHECK_DEADLOCK FALSE
INVARIANT NoDoubleVote
INVARIANT AssertionsHold
 
INVARIANT NoDoubleBake
INVARIANT SigningInv
