----------------------------- MODULE Tenderbake -----------------------------
(***************************************************************************)
(* The bakers of one level, the one above the protocol-transition block.   *)
(* Forks of the transition block give the level several branches.          *)
(*                                                                         *)
(*  - Detailed bakers run module Baker.                                    *)
(*  - Peers are honest bakers reduced to what module Consensus promises of *)
(*    them; that detailed bakers keep this promise is the refinement       *)
(*    checked here, so any of them can stand for a detailed one.           *)
(*  - Byzantine bakers vote for everything (HasQuorum).                    *)
(*                                                                         *)
(* A baker that leaves for the next level sends nothing more at this one,  *)
(* which is one of the behaviours of a baker that stops receiving events.  *)
(***************************************************************************)
EXTENDS Baker

CONSTANTS
  NoOps,         \* contents of a transition block
  ParentRounds,  \* rounds at which there is a transition block
  Proposals      \* blocks that bakers other than the detailed ones may propose

Peers == Honest \ Detailed

Level == FirstLevel + 1

Parents ==
  { [level |-> FirstLevel, round |-> r, prequorum |-> NoRound,
     payload |-> [pred |-> NoBlock, round |-> r, ops |-> NoOps]] :
      r \in ParentRounds }

Payloads == [pred : Parents, round : 0 .. MaxRound, ops : Ops]

(* Every block of the level whose header the protocol can accept           *)
AllProposals ==
  { blk \in [level : {Level}, round : 0 .. MaxRound,
             prequorum : NoRound .. MaxRound, payload : Payloads] :
      /\ blk.payload.round <= blk.round
      /\ blk.prequorum = NoRound
         \/ blk.prequorum \in blk.payload.round .. (blk.round - 1) }

(* Less than a third of the power is Byzantine: two quorums share a baker  *)
(* that runs the code.                                                     *)
ASSUME QuorumAssumption ==
  /\ Quorums \subseteq SUBSET Bakers
  /\ \A Q1, Q2 \in Quorums : Q1 \cap Q2 \cap Honest # {}

ASSUME BoundAssumption ==
  /\ Detailed \subseteq Honest
  /\ MaxRound \in Nat /\ CommitteeSize \in Nat \ {0}
  /\ MaxLevel = FirstLevel + 1
  /\ ParentRounds \subseteq 0 .. MaxRound /\ ParentRounds # {}
  /\ Proposals \subseteq AllProposals

VARIABLES
  peer_round,
  peer_lock

allvars == <<vars, peer_round, peer_lock>>
peervars == <<peer_round, peer_lock>>

-----------------------------------------------------------------------------
(* The abstract specification, and what its variables are here             *)

round == [b \in Honest |->
            IF b \in Peers THEN peer_round[b]
            ELSE IF st[b].current_level = Level THEN st[b].current_round
            ELSE NoRound]

lock == [b \in Honest |->
           IF b \in Peers THEN peer_lock[b]
           ELSE IF st[b].current_level = Level THEN st[b].locked_round
           ELSE NoLock]

C == INSTANCE Consensus
       WITH Rounds <- 0 .. MaxRound,
            preatts <- votes["preattestation"],
            atts <- votes["attestation"]

-----------------------------------------------------------------------------
(* Steps of peers                                                          *)

PeerEnterRound(b, r) ==
  /\ peer_round[b] < r
  /\ peer_round' = [peer_round EXCEPT ![b] = r]
  /\ UNCHANGED <<vars, peer_lock>>

PeerPreattest(b, p) ==
  /\ \E blk \in Proposals \cup blocks :
       /\ blk.level = Level /\ blk.round = peer_round[b] /\ blk.payload = p
       /\ Proposed(blk)
  /\ \A q \in Payloads : <<b, peer_round[b], q>> \notin votes["preattestation"]
  /\ C!MayPreattest(b, p)
  /\ votes' = [votes EXCEPT !["preattestation"] =
                 @ \cup {<<b, peer_round[b], p>>}]
  /\ UNCHANGED <<memory, hwm, disk, blocks, peervars>>

(* The lock is taken with the attestation.  A peer that locks and does not *)
(* attest votes as one that skips the lock: MayPreattest accepts as much.  *)
PeerAttest(b, p) ==
  /\ peer_round[b] # NoRound
  /\ HasQuorum("preattestation", peer_round[b], p)
  /\ peer_lock' = [peer_lock EXCEPT ![b] =
                     [round |-> peer_round[b], payload |-> p]]
  /\ votes' = [votes EXCEPT !["attestation"] = @ \cup {<<b, peer_round[b], p>>}]
  /\ UNCHANGED <<memory, hwm, disk, blocks, peer_round>>

-----------------------------------------------------------------------------
Init ==
  /\ blocks = Parents
  /\ \E head \in Parents :
       st = [b \in Detailed |-> create_initial_state(head, head.round, NoData)]
  /\ disk = [b \in Detailed |-> NoData]
  /\ hwm = [b \in Detailed |->
              [k \in {"block", "preattestation", "attestation"} |-> NoMark]]
  /\ requests = [b \in Detailed |-> << >>]
  /\ tasks = [b \in Detailed |-> << >>]
  /\ watched = [b \in Detailed |-> {}]
  /\ qc = [b \in Detailed |-> {}]
  /\ votes = [kind \in {"preattestation", "attestation"} |-> {}]
  /\ peer_round = [b \in Peers |-> NoRound]
  /\ peer_lock = [b \in Peers |-> NoLock]

BakerStep(b) ==
  \/ \E blk \in Proposals \cup blocks :
       New_valid_proposal(b, blk) \/ New_head_proposal(b, blk)
  \/ \E ops \in Ops : End_of_round(b, ops)
  \/ \E at_round \in 0 .. MaxRound, ops \in Ops :
       Time_to_prepare_next_level_block(b, at_round, ops)
  \/ \E e \in qc[b] : Prequorum_reached(b, e) \/ Quorum_reached(b, e)
  \/ New_forge_event(b)
  \/ handle_forge_block(b)

WorkerStep(b) ==
  \/ process_request(b)
  \/ task_fails(b)
  \/ update_monitoring(b)

CrashStep(b) ==
  \/ /\ "Crash" \in Adversity
     /\ \E head \in Proposals \cup blocks : Restart(b, head)
  \/ /\ "CrashInStep" \in Adversity
     /\ \E e \in qc[b], head \in Proposals \cup blocks : CrashInStep(b, e, head)

DetailedStep(b) ==
  (BakerStep(b) \/ WorkerStep(b) \/ CrashStep(b)) /\ UNCHANGED peervars

PeerStep(b) ==
  \/ \E r \in 0 .. MaxRound : PeerEnterRound(b, r)
  \/ \E p \in Payloads : PeerPreattest(b, p) \/ PeerAttest(b, p)

Next ==
  \/ \E b \in Detailed : DetailedStep(b)
  \/ \E b \in Peers : PeerStep(b)

Spec == Init /\ [][Next]_allvars

-----------------------------------------------------------------------------
(* Types.  Headers are those that a baker can forge or be handed.          *)
Headers == [level : {Level}, round : 0 .. MaxRound,
            prequorum : NoRound .. MaxRound, payload : Payloads]

Chain == Parents \cup Headers

VoteTasks == [kind : {"preattestation", "attestation"}, level : {Level},
              round : 0 .. MaxRound, payload : Payloads]

(* Blocks are forged for own slots only.                                   *)
TasksOf(b) ==
  VoteTasks \cup
    [kind : {"block"}, block : { h \in Headers : slot_owner(Level, h.round) = b }]

LockSound(lk, a) ==
  /\ lk = NoLock \/ lk \in [round : 0 .. MaxRound, payload : Payloads]
  /\ a = NoAttestable \/ a \in [proposal : Headers, round : 0 .. MaxRound]
  /\ lk.round <= a.round

(* At the level of the transition block nothing is voted on.               *)
StateSound(s) ==
  /\ DOMAIN s = {"current_level", "latest_proposal", "is_latest_proposal_applied",
                 "locked_round", "attestable_payload", "elected_block",
                 "next_level_proposed_round", "current_round", "current_phase",
                 "delayed_quorum", "early_attestations", "awaiting_unlocking_pqc"}
  /\ s.latest_proposal \in Chain
  /\ s.current_level = s.latest_proposal.level
  /\ s.current_round \in 0 .. MaxRound
  /\ s.elected_block \in Chain \cup {NoBlock}
  /\ s.early_attestations \subseteq { v \in VoteTasks : v.kind = "attestation" }
  /\ LockSound(s.locked_round, s.attestable_payload)
  /\ s.current_phase = "Awaiting_application" /\ s.elected_block = NoBlock
       => s.delayed_quorum
  /\ s.current_level = FirstLevel =>
       /\ s.current_phase = "Idle"
       /\ s.locked_round = NoLock /\ s.attestable_payload = NoAttestable
       /\ s.elected_block \in Parents \cup {NoBlock}

FileSound(d) ==
  /\ LockSound(d.locked_round, d.attestable_payload)
  /\ d.level = FirstLevel =>
       d.locked_round = NoLock /\ d.attestable_payload = NoAttestable

TypeOK ==
  /\ DOMAIN st = Detailed /\ DOMAIN disk = Detailed
  /\ \A b \in Detailed :
       /\ StateSound(st[b]) /\ FileSound(disk[b])
       /\ requests[b] \in Seq(TasksOf(b)) /\ tasks[b] \in Seq(TasksOf(b))
  /\ DOMAIN requests = Detailed /\ DOMAIN tasks = Detailed
  /\ hwm \in [Detailed -> [{"block", "preattestation", "attestation"} ->
                             [level : {0, Level}, round : NoRound .. MaxRound]]]
  /\ DOMAIN votes = {"preattestation", "attestation"}
  /\ \A kind \in DOMAIN votes :
       votes[kind] \subseteq Honest \X (0 .. MaxRound) \X Payloads
  /\ blocks \subseteq Chain
  /\ peer_round \in [Peers -> NoRound .. MaxRound]

(* Refinement: every step of a detailed baker is a step that the voting    *)
(* rules of Consensus allow, or changes neither round, lock nor votes.     *)
ConsensusSpec == C!Spec

(* At most one payload of the level gathers an attestation quorum.         *)
Agreement == C!Agreement

(* Highwatermarks: whatever crashes, late signatures and repeated events   *)
(* do, a baker never sends two votes of one kind for one round.            *)
NoDoubleVote ==
  \A kind \in DOMAIN votes : \A v, w \in votes[kind] :
    v[1] = w[1] /\ v[2] = w[2] => v = w

(* Highwatermarks: a baker never injects two blocks for one round.         *)
NoDoubleBake ==
  \A x, y \in blocks \ Parents : x.round = y.round => x = y

(* Recording: what a baker attested is covered by the lock in its file,    *)
(* so that a restart at any point finds it (may_record_new_state).         *)
AttestedIsRecorded ==
  \A v \in votes["attestation"] : v[1] \in Detailed =>
    LET d == disk[v[1]]
    IN  /\ d.level = Level
        /\ \/ d.locked_round = [round |-> v[2], payload |-> v[3]]
           \/ d.locked_round.round > v[2]

(* The assertions of propose_block_action ("there is no locked round if    *)
(* there is no attestable payload") and handle_expected_applied_proposal   *)
(* never fail, also after a restart from the file.                         *)
AssertionsHold ==
  \A b \in Detailed :
    /\ \A s \in {st[b], disk[b]} :
         s.locked_round.round <= s.attestable_payload.round
    /\ st[b].current_phase = "Awaiting_application" /\ st[b].elected_block = NoBlock
         => st[b].delayed_quorum

(* The fields attestable_payload and elected_block mean what level_state   *)
(* says: a prequorum, respectively a quorum, was reached for them.         *)
CertificatesReached ==
  \A b \in Detailed :
    LET a == st[b].attestable_payload
        e == st[b].elected_block
    IN  /\ a # NoAttestable => HasQuorum("preattestation", a.round, a.proposal.payload)
        /\ e \notin Parents \cup {NoBlock} => Quorum(e)

(* Blocks of a detailed baker pass validation, and re-propose what it      *)
(* attested at an earlier round, or a payload with a later prequorum.      *)
OwnBlocksJustified ==
  \A blk \in blocks \ Parents :
    /\ ValidBlock(blk)
    /\ \A v \in votes["attestation"] :
         v[1] = slot_owner(Level, blk.round) /\ v[2] < blk.round
           => v[3] = blk.payload \/ v[2] < blk.prequorum

-----------------------------------------------------------------------------
(* A vote that was authorised: sent, waiting for its prequorum, or waiting *)
(* for its signature.                                                      *)
Authorised(b, v) ==
  \/ <<b, v.round, v.payload>> \in votes[v.kind]
  \/ v \in st[b].early_attestations
  \/ \E i \in 1 .. Len(tasks[b]) : tasks[b][i] = v

MarkCovers(mark, r) == mark.level = Level /\ r <= mark.round

(* One vote per kind and round gets through authorized_consensus_votes,    *)
(* and the mark of the highwatermarks file covers it whatever became of it.*)
VotesMarked ==
  \A b \in Detailed : \A v \in VoteTasks : Authorised(b, v) =>
    /\ MarkCovers(hwm[b][v.kind], v.round)
    /\ \A w \in VoteTasks :
         Authorised(b, w) /\ w.kind = v.kind /\ w.round = v.round => w = v

BlocksMarked ==
  \A blk \in blocks \ Parents :
    LET owner == slot_owner(Level, blk.round)
    IN  owner \in Detailed /\ MarkCovers(hwm[owner]["block"], blk.round)

(* A peer attests what reached a prequorum.                                *)
PeersJustified ==
  \A b \in Peers : \A r \in 0 .. MaxRound : \A p \in Payloads :
    <<b, r, p>> \in votes["attestation"] => HasQuorum("preattestation", r, p)

(* The inductive invariant behind NoDoubleVote, NoDoubleBake and           *)
(* AssertionsHold: the highwatermarks cover everything that was signed, or *)
(* will be, in memory, in the signing queue and in the network.            *)
SigningInv ==
  /\ TypeOK
  /\ VotesMarked /\ BlocksMarked /\ PeersJustified
  /\ NoDoubleVote /\ NoDoubleBake

-----------------------------------------------------------------------------
(* Instances for TLC                                                       *)

(* A detailed baker, a peer, and a Byzantine baker with a little less than *)
(* a third of the power: the peer is heavy enough to complete a quorum     *)
(* with either of the others.                                              *)
PeerQuorums == {Honest, Peers \cup Byzantine}

(* No quorum without the detailed baker: what it must never contradict.    *)
PivotQuorums == {Detailed \cup Byzantine}

(* The baker owns the second of the first three rounds of the level.       *)
SlotsRound1 ==
  [level \in 1 .. 2 |->
     [i \in 0 .. 2 |-> CHOOSE x \in IF i = 1 THEN Detailed ELSE Byzantine : TRUE]]

(* Everything that can be proposed for the rounds the baker does not own.   *)
OtherProposals ==
  { blk \in AllProposals : slot_owner(blk.level, blk.round) \notin Detailed }
=============================================================================
