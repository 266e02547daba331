------------------------------- MODULE MCBaker ------------------------------
(***************************************************************************)
(* A baker under three deployments: without it there is no quorum, its     *)
(* state is recorded in a file and a crash cuts no step; the same with the *)
(* state in memory only and every assumption on timing and crashes         *)
(* dropped; and among peers that reach a prequorum without it, so that it  *)
(* has to give up its lock.                                                *)
(***************************************************************************)
EXTENDS Integers

CONSTANTS
  NoPayload, NoBlock, NoOps,
  Baker,         \* the baker, in detail
  Peer,          \* another honest one
  Faulty,        \* a Byzantine one
  Operations     \* contents of a block

VARIABLES
  st, disk, hwm, requests, tasks, watched, qc, votes, blocks, peer_round, peer_lock,
  deployment

baker_vars == <<st, disk, hwm, requests, tasks, watched, qc, votes, blocks, peer_round, peer_lock>>

\* The baker owns round r of the level.
Slots(r) == [level \in 1 .. 2 |-> [i \in 0 .. 2 |-> IF i = r THEN Baker ELSE Faulty]]

Parent == [level |-> 1, round |-> 0, prequorum |-> -1,
           payload |-> [pred |-> NoBlock, round |-> 0, ops |-> NoOps]]

Block(r, pqc, payload_round) ==
  [level |-> 2, round |-> r, prequorum |-> pqc,
   payload |-> [pred |-> Parent, round |-> payload_round, ops |-> CHOOSE o \in Operations : TRUE]]

\* A fresh payload at every round, and the re-proposal of the first one.
RivalProposals == {Block(0, -1, 0), Block(2, -1, 2), Block(2, 0, 0)}

\* A lock at round 0, another prequorum at round 1, its re-proposal at round 2.
UnlockProposals == {Block(0, -1, 0), Block(1, -1, 1), Block(2, 1, 1)}

Recorded == INSTANCE Tenderbake
  WITH Bakers <- {Baker, Faulty}, Byzantine <- {Faulty}, Detailed <- {Baker},
       Quorums <- {{Baker, Faulty}}, CommitteeSize <- 3, SlotOwner <- Slots(1),
       Ops <- Operations, MaxRound <- 2, MaxLevel <- 2, MaxPending <- 3, ParentRounds <- {0},
       Proposals <- RivalProposals, StateRecorder <- "Filesystem",
       Adversity <- {"Crash"}

Careless == INSTANCE Tenderbake
  WITH Bakers <- {Baker, Faulty}, Byzantine <- {Faulty}, Detailed <- {Baker},
       Quorums <- {{Baker, Faulty}}, CommitteeSize <- 3, SlotOwner <- Slots(1),
       Ops <- Operations, MaxRound <- 1, MaxLevel <- 2, MaxPending <- 3, ParentRounds <- {0},
       Proposals <- {Block(0, -1, 0)}, StateRecorder <- "Memory",
       Adversity <- {"Crash", "LateSigner", "CrashInStep", "RestartBehind", "SignerFails"}

Unlocking == INSTANCE Tenderbake
  WITH Bakers <- {Baker, Peer, Faulty}, Byzantine <- {Faulty}, Detailed <- {Baker},
       Quorums <- {{Baker, Peer}, {Peer, Faulty}}, CommitteeSize <- 3, SlotOwner <- Slots(3),
       Ops <- Operations, MaxRound <- 2, MaxLevel <- 2, MaxPending <- 2, ParentRounds <- {0},
       Proposals <- UnlockProposals, StateRecorder <- "Filesystem", Adversity <- {}

DeployedInit == \/ deployment = "recorded" /\ Recorded!Init
                \/ deployment = "careless" /\ Careless!Init
                \/ deployment = "unlocking" /\ Unlocking!Init

RecordedNext == deployment = "recorded" /\ Recorded!Next /\ UNCHANGED deployment
CarelessNext == deployment = "careless" /\ Careless!Next /\ UNCHANGED deployment
UnlockingNext == deployment = "unlocking" /\ Unlocking!Next /\ UNCHANGED deployment

DeployedSpec ==
  DeployedInit /\ [][RecordedNext \/ CarelessNext \/ UnlockingNext]_<<baker_vars, deployment>>

-----------------------------------------------------------------------------
(* Properties.                                                             *)

(* Highwatermarks alone exclude two votes of one kind, and two blocks, for *)
(* one round.                                                              *)
SignsOnce == Recorded!NoDoubleVote /\ Recorded!NoDoubleBake

(* A baker that records its state never helps to elect two payloads        *)
(* (locked_payload, attestable_payload).                                   *)
RecordedAgreement == deployment = "recorded" => Recorded!Agreement

(* A baker that records its state proposes what its votes allow            *)
(* (propose_block_action).                                                 *)
RecordedBlocksJustified == deployment = "recorded" => Recorded!OwnBlocksJustified

(* A locked baker that sees a later prequorum for another payload follows  *)
(* the voting rules (may_vote_under_lock in prepare_consensus_votes).      *)
UnlockingFollowsRules ==
  [][deployment = "unlocking" =>
       UNCHANGED Unlocking!C!vars \/ Unlocking!C!Next]_<<baker_vars, deployment>>
=============================================================================
