-------------------------- MODULE BakerTransitions --------------------------
(***************************************************************************)
(* What a baker's transition function makes of a sound state, for every    *)
(* number of bakers, rounds, branches and operations: one lemma per        *)
(* operator of StateTransitions shows that its result is Handled, which is *)
(* all that automaton_loop needs of it.  InitSound has the initial states. *)
(***************************************************************************)
EXTENDS Tenderbake, TLAPS

(* A block of the chain is a transition block or a header of the level.    *)
LEMMA ChainFacts ==
  /\ Level = 2 /\ FirstLevel = 1 /\ NoRound = -1 /\ MaxRound \in Nat
  /\ \A blk \in Chain :
       /\ blk.round \in 0 .. MaxRound /\ blk.prequorum \in NoRound .. MaxRound
       /\ blk.level = FirstLevel \/ blk.level = Level
       /\ blk.level = FirstLevel <=> blk \in Parents
       /\ blk.level = Level <=> blk \in Headers
       /\ blk \in Parents => blk.prequorum = NoRound
       /\ blk \in Headers => Predecessor(blk) \in Parents /\ blk.payload \in Payloads
<1>1. Level = 2 /\ FirstLevel = 1 /\ NoRound = -1 /\ MaxRound \in Nat
  BY BoundAssumption DEF Level, FirstLevel, NoRound
<1>2. ASSUME NEW blk \in Parents
      PROVE  /\ blk.round \in 0 .. MaxRound /\ blk.level = FirstLevel
             /\ blk.prequorum = NoRound
  <2>1. PICK r \in ParentRounds :
          blk = [level |-> FirstLevel, round |-> r, prequorum |-> NoRound,
                 payload |-> [pred |-> NoBlock, round |-> r, ops |-> NoOps]]
    BY DEF Parents
  <2>2. r \in 0 .. MaxRound
    BY BoundAssumption
  <2> QED
    BY <2>1, <2>2
<1>3. ASSUME NEW blk \in Headers
      PROVE  /\ blk.round \in 0 .. MaxRound /\ blk.level = Level
             /\ blk.prequorum \in NoRound .. MaxRound
             /\ Predecessor(blk) \in Parents /\ blk.payload \in Payloads
  BY DEF Headers, Payloads, Predecessor
<1> QED
  BY <1>1, <1>2, <1>3 DEF Chain

-----------------------------------------------------------------------------
(* What the operators of StateTransitions make of a sound state            *)

(* A new round (new_round_state): the level's lock and attestable payload  *)
(* stay.                                                                   *)
LEMMA FreshRound ==
  ASSUME NEW s, StateSound(s), NEW r \in 0 .. MaxRound
  PROVE  StateSound(fresh_round_state(s, r))
BY DEF StateSound, fresh_round_state

(* A new level starts unlocked (Update_to_level, run).                     *)
LEMMA FreshState ==
  ASSUME NEW blk \in Chain, NEW applied, NEW elected \in Parents \cup {NoBlock},
         NEW r \in 0 .. MaxRound
  PROVE  StateSound(fresh_state(blk, applied, elected, r))
BY ChainFacts DEF StateSound, fresh_state, LockSound, NoLock, NoAttestable, Chain

(* A block of the current level may replace the latest proposal.           *)
LEMMA UpdateProposal ==
  ASSUME NEW s, StateSound(s), NEW blk \in Chain, blk.level = s.current_level, NEW applied
  PROVE  /\ StateSound(update_proposal(applied, s, blk))
         /\ StateSound(may_update_proposal(applied, s, blk))
<1>1. StateSound(update_proposal(applied, s, blk))
  BY DEF StateSound, update_proposal
<1> QED BY <1>1 DEF may_update_proposal

(* A prequorum that a block carries only raises the attestable round, so   *)
(* the lock stays below it.                                                *)
LEMMA InternalPqc ==
  ASSUME NEW s, StateSound(s), NEW blk \in Chain, blk.level = s.current_level
  PROVE  StateSound(may_update_attestable_payload_with_internal_pqc(s, blk))
BY ChainFacts DEF StateSound, LockSound, NoLock, NoAttestable,
     may_update_attestable_payload_with_internal_pqc

(* A step of baker b from state s: the states are sound, requests are for  *)
(* the level and for own slots, and the votes that are sent or kept come   *)
(* from the state or from more.                                            *)
Handled(b, s, res, more) ==
  /\ DOMAIN res = {"state", "returned", "action"}
  /\ StateSound(res.state) /\ StateSound(res.returned)
  /\ res.action.request \in Seq(TasksOf(b))
  /\ res.action.inject \subseteq s.early_attestations \cup more
  /\ res.state.early_attestations \subseteq s.early_attestations \cup more
  /\ res.returned.early_attestations \subseteq s.early_attestations \cup more

(* What the actions of type action ask for.                                *)
LEMMA Actions ==
  ASSUME NEW b
  PROVE  /\ \A a \in {Do_nothing, Watch_prequorum, Watch_quorum} :
              a.request \in Seq(TasksOf(b)) /\ a.inject = {}
         /\ \A v : /\ Inject_preattestation(v).request \in Seq(TasksOf(b))
                   /\ Inject_preattestation(v).inject = {v}
         /\ \A vs : /\ Inject_attestations(vs).request \in Seq(TasksOf(b))
                    /\ Inject_attestations(vs).inject = vs
<1>1. Do_nothing.request \in Seq(TasksOf(b)) /\ Do_nothing.inject = {}
  BY DEF Do_nothing
<1>2. /\ Watch_prequorum.request = Do_nothing.request /\ Watch_prequorum.inject = {}
      /\ Watch_quorum.request = Do_nothing.request /\ Watch_quorum.inject = {}
  BY DEF Watch_prequorum, Watch_quorum, Do_nothing
<1>3. ASSUME NEW v
      PROVE  /\ Inject_preattestation(v).request = Do_nothing.request
             /\ Inject_preattestation(v).inject = {v}
  BY DEF Inject_preattestation, Do_nothing
<1>4. ASSUME NEW vs
      PROVE  /\ Inject_attestations(vs).request = Do_nothing.request
             /\ Inject_attestations(vs).inject = vs
  BY DEF Inject_attestations, Watch_quorum, Do_nothing
<1> QED BY <1>1, <1>2, <1>3, <1>4

(* A result is a state and an action.                                      *)
LEMMA HandledBy ==
  ASSUME NEW b, NEW s, NEW t, NEW more, NEW action, StateSound(t),
         t.early_attestations \subseteq s.early_attestations \cup more,
         action.request \in Seq(TasksOf(b)),
         action.inject \subseteq s.early_attestations \cup more
  PROVE  Handled(b, s, Result(t, action), more)
BY DEF Handled, Result

(* Doing nothing sends nothing.                                            *)
LEMMA DoNothing ==
  ASSUME NEW b, NEW s, NEW t, StateSound(t), NEW more,
         t.early_attestations \subseteq s.early_attestations \cup more
  PROVE  Handled(b, s, do_nothing(t), more)
BY Actions, HandledBy DEF do_nothing

(* Votes are requested for blocks of the level, never for the transition   *)
(* block (prepare_consensus_votes).                                        *)
LEMMA VotesRequested ==
  ASSUME NEW b, NEW s, StateSound(s), NEW blk \in Chain, blk.level = s.current_level
  PROVE  Handled(b, s, prepare_consensus_votes(s, blk), {})
<1>1. CASE is_first_block_in_protocol(blk)
  <2> DEFINE t == [s EXCEPT !.current_phase = "Idle"]
  <2>1. StateSound(t) /\ t.early_attestations = s.early_attestations
    BY DEF StateSound
  <2> QED BY Zenon, <1>1, <2>1, DoNothing DEF prepare_consensus_votes
<1>2. CASE ~is_first_block_in_protocol(blk)
  <2> DEFINE t == [s EXCEPT !.current_phase = "Awaiting_preattestations"]
             action == prepare_consensus_votes_action(s, blk)
  <2>1. s.current_level = Level /\ blk \in Headers /\ s.current_level # FirstLevel
    BY <1>2, ChainFacts DEF is_first_block_in_protocol
  <2>2. StateSound(t) /\ t.early_attestations = s.early_attestations
    BY Zenon, <2>1 DEF StateSound
  <2>3. Vote("preattestation", s.current_level, blk) \in TasksOf(b)
        /\ Vote("attestation", s.current_level, blk) \in TasksOf(b)
    BY <2>1, ChainFacts DEF Vote, TasksOf, VoteTasks, Chain
  <2>4. action.request = << Vote("preattestation", s.current_level, blk),
                            Vote("attestation", s.current_level, blk) >>
        /\ action.inject = {}
    BY DEF prepare_consensus_votes_action, Watch_prequorum, Do_nothing
  <2>5. action.request \in Seq(TasksOf(b))
    <3> HIDE DEF action
    <3> QED BY <2>3, <2>4
  <2> HIDE DEF t, action
  <2>6. Handled(b, s, Result(t, action), {})
    BY Zenon, <2>2, <2>4, <2>5, HandledBy
  <2> QED BY <1>2, <2>6 DEF prepare_consensus_votes, t, action
<1> QED BY <1>1, <1>2

(* The same, with the cancellation of pending signatures (may_vote).       *)
LEMMA MayVote ==
  ASSUME NEW b, NEW s, StateSound(s), NEW blk \in Chain, blk.level = s.current_level
  PROVE  Handled(b, s, may_vote(s, blk), {})
<1> DEFINE r == prepare_consensus_votes(s, blk)
<1>1. Handled(b, s, r, {})
  BY VotesRequested
<1>2. Handled(b, s, do_nothing(s), {})
  BY DoNothing
<1>3. Handled(b, s, [r EXCEPT !.action.cancel = TRUE], {})
  <2> DEFINE q == [r EXCEPT !.action.cancel = TRUE]
  <2>1. /\ DOMAIN q = DOMAIN r /\ q.state = r.state /\ q.returned = r.returned
        /\ q.action.request = r.action.request /\ q.action.inject = r.action.inject
    BY Zenon DEF prepare_consensus_votes, do_nothing, Result, prepare_consensus_votes_action,
           Watch_prequorum, Do_nothing
  <2> HIDE DEF q, r
  <2>2. Handled(b, s, q, {})
    BY <1>1, <2>1 DEF Handled
  <2> QED BY <2>2 DEF q
<1> QED BY <1>2, <1>3 DEF may_vote

(* Votes dropped before a handler starts are not sent by it.               *)
LEMMA HandledFrom ==
  ASSUME NEW b, NEW s, NEW t, NEW res, Handled(b, t, res, {}), NEW more,
         t.early_attestations \subseteq s.early_attestations \cup more
  PROVE  Handled(b, s, res, more)
BY DEF Handled

(* The updates of a proposal leave level, round, phase and lock alone.     *)
LEMMA ProposalUpdates ==
  ASSUME NEW s, StateSound(s), NEW blk \in Chain, blk.level = s.current_level, NEW applied
  PROVE  LET t == may_update_proposal(applied,
                    may_update_attestable_payload_with_internal_pqc(s, blk), blk)
         IN  /\ StateSound(t)
             /\ t.current_level = s.current_level
             /\ t.early_attestations = s.early_attestations
<1> DEFINE u == may_update_attestable_payload_with_internal_pqc(s, blk)
           t == may_update_proposal(applied, u, blk)
<1>1. StateSound(u) /\ u.current_level = s.current_level
        /\ u.early_attestations = s.early_attestations
  BY InternalPqc DEF may_update_attestable_payload_with_internal_pqc, StateSound
<1> HIDE DEF u
<1>2. StateSound(t)
  BY <1>1, UpdateProposal
<1>3. t.current_level = u.current_level /\ t.early_attestations = u.early_attestations
  BY <1>1 DEF may_update_proposal, update_proposal, StateSound
<1> QED BY <1>1, <1>2, <1>3 DEF u

(* A proposal of the current round, voted for or only watched.             *)
LEMMA ValidProposal ==
  ASSUME NEW b, NEW s, StateSound(s), NEW blk \in Chain, blk.level = s.current_level,
         NEW applied
  PROVE  Handled(b, s, handle_valid_proposal(applied, s, blk), {})
<1> DEFINE t == may_update_proposal(applied,
                  may_update_attestable_payload_with_internal_pqc(s, blk), blk)
           u == [t EXCEPT !.early_attestations = {}]
           w == [mark_awaiting_pqc(u) EXCEPT !.current_phase = "Awaiting_preattestations"]
<1>1. StateSound(t) /\ t.current_level = s.current_level
  BY ProposalUpdates
<1>2. handle_valid_proposal(applied, s, blk) =
        IF may_vote_under_lock(u, blk) THEN may_vote(u, blk)
        ELSE Result(w, Watch_prequorum)
  BY DEF handle_valid_proposal
<1> HIDE DEF t
<1>3. StateSound(u) /\ u.current_level = s.current_level /\ u.early_attestations = {}
  BY Zenon, <1>1 DEF StateSound
<1> HIDE DEF u
<1>4. Handled(b, s, may_vote(u, blk), {})
  BY <1>3, MayVote, HandledFrom
<1>5. ASSUME ~may_vote_under_lock(u, blk)
      PROVE  StateSound(w) /\ w.early_attestations = {}
  <2>1. u.current_level # FirstLevel
    BY <1>3, <1>5 DEF StateSound, may_vote_under_lock
  <2> QED BY Zenon, <1>3, <2>1 DEF StateSound, mark_awaiting_pqc
<1> HIDE DEF w
<1>6. ASSUME ~may_vote_under_lock(u, blk)
      PROVE  Handled(b, s, Result(w, Watch_prequorum), {})
  BY <1>5, <1>6, Actions, HandledBy
<1> QED BY <1>2, <1>4, <1>6

(* A proposal on the current branch, early, late or in time.               *)
LEMMA OnBranch ==
  ASSUME NEW b, NEW s, StateSound(s), NEW blk \in Chain, blk.level = s.current_level,
         NEW applied
  PROVE  Handled(b, s, handle_proposal_on_branch(applied, s, blk), {})
<1>1. Handled(b, s, do_nothing(s), {})
  BY DoNothing
<1>2. Handled(b, s, handle_outdated_proposal(applied, s, blk), {})
  BY ProposalUpdates, DoNothing DEF handle_outdated_proposal
<1>3. Handled(b, s, handle_valid_proposal(applied, s, blk), {})
  BY ValidProposal
<1> DEFINE verdict == is_acceptable_proposal_for_current_level(s, blk)
<1>4. verdict \in {"Invalid", "Outdated_proposal", "Valid_proposal"}
  BY DEF is_acceptable_proposal_for_current_level
<1> HIDE DEF verdict
<1>5. handle_proposal_on_branch(applied, s, blk) \in
        {do_nothing(s), handle_outdated_proposal(applied, s, blk),
         handle_valid_proposal(applied, s, blk)}
  BY <1>4 DEF handle_proposal_on_branch, verdict
<1> QED BY <1>1, <1>2, <1>3, <1>5

(* A proposal that was just made the latest one.                           *)
LEMMA Adopted ==
  ASSUME NEW b, NEW s, StateSound(s), NEW blk \in Chain, blk.level = s.current_level,
         NEW applied
  PROVE  Handled(b, s, handle_adopted_proposal(applied, s, blk), {})
<1> DEFINE t == [s EXCEPT !.is_latest_proposal_applied = TRUE]
<1>1. StateSound(t) /\ t.early_attestations = s.early_attestations
  BY DEF StateSound
<1>2. Handled(b, s, do_nothing(t), {})
  BY Zenon, <1>1, DoNothing
<1> QED BY <1>2, OnBranch DEF handle_adopted_proposal

(* A proposal of the next level (Update_to_level).                         *)
LEMMA LevelReached ==
  ASSUME NEW b, NEW s, StateSound(s), NEW blk \in Chain, NEW applied,
         NEW now \in 0 .. MaxRound
  PROVE  Handled(b, s, update_to_level(applied, s, blk, now), {})
<1> DEFINE t == fresh_state(blk, applied, NoBlock, now)
           res == handle_adopted_proposal(applied, t, blk)
<1>1. StateSound(t) /\ t.early_attestations = {} /\ t.current_level = blk.level
  BY FreshState DEF fresh_state
<1> HIDE DEF t
<1>2. Handled(b, t, res, {})
  BY <1>1, Adopted
<1> HIDE DEF res
<1>3. Handled(b, s, [res EXCEPT !.returned = s], {})
  BY <1>1, <1>2 DEF Handled
<1> QED BY <1>3 DEF update_to_level, res, t

(* A proposal on another branch (Synchronize_round).                       *)
LEMMA BranchSwitched ==
  ASSUME NEW b, NEW s, StateSound(s), NEW blk \in Chain, blk.level = s.current_level,
         NEW applied, NEW now \in 0 .. MaxRound
  PROVE  Handled(b, s, may_switch_branch(applied, s, blk, now), {})
<1> DEFINE u == update_proposal(applied, s, blk)
           t == fresh_round_state(u, now)
           res == handle_adopted_proposal(applied, t, blk)
<1>1. /\ StateSound(u) /\ u.early_attestations = s.early_attestations
      /\ u.current_level = blk.level
  BY UpdateProposal DEF update_proposal, StateSound
<1> HIDE DEF u
<1>2. StateSound(t) /\ t.early_attestations = {} /\ t.current_level = blk.level
  <2>1. StateSound(t)
    BY <1>1, FreshRound
  <2> QED BY <1>1, <2>1 DEF fresh_round_state, StateSound
<1> HIDE DEF t
<1>3. Handled(b, t, res, {})
  BY <1>2, Adopted
<1> HIDE DEF res
<1>4. Handled(b, s, [res EXCEPT !.returned = u], {})
  BY <1>1, <1>2, <1>3 DEF Handled
<1>5. Handled(b, s, switch_branch(applied, s, blk, now), {})
  BY <1>4 DEF switch_branch, res, t, u
<1> QED BY <1>5, DoNothing DEF may_switch_branch

(* Every proposal (handle_proposal).                                       *)
LEMMA ProposalHandled ==
  ASSUME NEW b, NEW s, StateSound(s), NEW blk \in Chain, NEW applied,
         NEW now \in 0 .. MaxRound
  PROVE  Handled(b, s, handle_proposal(applied, s, blk, now), {})
<1> DEFINE t == [s EXCEPT !.is_latest_proposal_applied = TRUE]
<1>1. StateSound(t) /\ t.early_attestations = s.early_attestations
  BY DEF StateSound
<1>2. Handled(b, s, do_nothing(t), {}) /\ Handled(b, s, do_nothing(s), {})
  BY Zenon, <1>1, DoNothing
<1>3. Handled(b, s, update_to_level(applied, s, blk, now), {})
  BY LevelReached
<1>4. ASSUME ~(s.current_level > blk.level), ~(s.current_level < blk.level)
      PROVE  /\ Handled(b, s, may_switch_branch(applied, s, blk, now), {})
             /\ Handled(b, s, handle_proposal_on_branch(applied, s, blk), {})
  <2>1. s.current_level = blk.level
    BY <1>4, ChainFacts DEF StateSound
  <2> QED BY <2>1, BranchSwitched, OnBranch
<1> QED BY <1>2, <1>3, <1>4 DEF handle_proposal

(* A block, applied or only validated                                      *)
LEMMA StepProposal ==
  ASSUME NEW b, NEW s, StateSound(s), NEW blk \in Chain, NEW now \in 0 .. MaxRound
  PROVE  /\ Handled(b, s, step_New_valid_proposal(s, blk, now), {})
         /\ Handled(b, s, step_New_head_proposal(s, blk, now), {})
<1>1. /\ Handled(b, s, handle_proposal(TRUE, s, blk, now), {})
      /\ Handled(b, s, handle_proposal(FALSE, s, blk, now), {})
  BY Zenon, ProposalHandled
<1>2. Handled(b, s, do_nothing(s), {})
  BY DoNothing
<1>3. ASSUME s.current_phase = "Awaiting_application"
      PROVE  Handled(b, s, handle_expected_applied_proposal(s), {})
  <2> DEFINE u == IF s.elected_block = NoBlock
                  THEN [s EXCEPT !.elected_block = s.latest_proposal]
                  ELSE [s EXCEPT !.is_latest_proposal_applied = TRUE]
             t == [u EXCEPT !.current_phase = "Idle"]
  <2>1. /\ DOMAIN u = DOMAIN s /\ u.elected_block \in Chain \cup {NoBlock}
        /\ u.latest_proposal = s.latest_proposal /\ u.current_level = s.current_level
        /\ u.current_round = s.current_round
        /\ u.early_attestations = s.early_attestations
        /\ u.locked_round = s.locked_round
        /\ u.attestable_payload = s.attestable_payload
    BY DEF StateSound
  <2>2. s.current_level # FirstLevel
    BY <1>3 DEF StateSound
  <2> HIDE DEF u
  <2>3. StateSound(t) /\ t.early_attestations = s.early_attestations
    BY <2>1, <2>2 DEF StateSound
  <2>4. Handled(b, s, do_nothing(t), {})
    BY Zenon, <2>3, DoNothing
  <2> QED BY <2>4 DEF handle_expected_applied_proposal, u
<1> QED
  BY Zenon, <1>1, <1>2, <1>3 DEF step_New_valid_proposal, step_New_head_proposal

(* A block prepared for an own slot of the level.                          *)
LEMMA BlockRequested ==
  ASSUME NEW b, NEW blk \in Headers, slot_owner(Level, blk.round) = b
  PROVE  /\ Prepare_block(blk).request \in Seq(TasksOf(b))
         /\ Prepare_block(blk).inject = {}
<1> DEFINE task == [kind |-> "block", block |-> blk]
<1>1. task \in TasksOf(b)
  BY DEF TasksOf
<1>2. Prepare_block(blk).request = << task >> /\ Prepare_block(blk).inject = {}
  BY DEF Prepare_block, Do_nothing
<1> HIDE DEF task
<1> QED BY <1>1, <1>2

(* A fresh block on a transition block is a header of the level.           *)
LEMMA FreshBlock ==
  ASSUME NEW pred \in Parents, NEW r \in 0 .. MaxRound, NEW ops \in Ops
  PROVE  fresh_block(pred, r, ops) \in Headers /\ fresh_block(pred, r, ops).round = r
<1>1. pred.level + 1 = Level
  BY ChainFacts DEF Chain, Level
<1>2. NoRound \in NoRound .. MaxRound
  BY ChainFacts
<1> QED BY <1>1, <1>2 DEF fresh_block, Headers, Payloads

(* The end of a round, with the block for the next one if it is an own     *)
(* round.                                                                  *)
LEMMA StepEndOfRound ==
  ASSUME NEW b, NEW s, StateSound(s), NEW r \in 0 .. MaxRound, NEW ops \in Ops, NEW own,
         own => round_proposer(b, s.current_level, r), NEW ending, r = ending + 1
  PROVE  Handled(b, s, end_of_round(s, ending, own, ops), {})
<1> DEFINE t == fresh_round_state(s, r)
<1>1. StateSound(t) /\ t.early_attestations = {}
      /\ t.latest_proposal = s.latest_proposal
      /\ t.attestable_payload = s.attestable_payload
  BY FreshRound DEF fresh_round_state, StateSound
<1> HIDE DEF t
<1>2. Handled(b, s, do_nothing(t), {})
  BY <1>1, DoNothing
<1>3. ASSUME own, ~is_first_block_in_protocol(s.latest_proposal)
      PROVE  Handled(b, s, Result(t, propose_block_action(t, r, ops)), {})
  <2> DEFINE blk == IF t.attestable_payload = NoAttestable
                    THEN fresh_block(Predecessor(t.latest_proposal), r, ops)
                    ELSE reproposal(t.attestable_payload, r)
  <2>1. s.current_level = Level /\ Predecessor(t.latest_proposal) \in Parents
    BY <1>1, <1>3, ChainFacts DEF StateSound, is_first_block_in_protocol
  <2>2. slot_owner(Level, r) = b
    BY <1>3, <2>1 DEF round_proposer
  <2>3. blk \in Headers /\ blk.round = r
    <3>1. CASE t.attestable_payload = NoAttestable
      BY <2>1, <3>1, FreshBlock
    <3>2. CASE t.attestable_payload # NoAttestable
      <4>1. t.attestable_payload \in [proposal : Headers, round : 0 .. MaxRound]
        BY <1>1, <3>2 DEF StateSound, LockSound
      <4>2. t.attestable_payload.round \in NoRound .. MaxRound
        BY <4>1, ChainFacts
      <4> QED BY Zenon, <3>2, <4>1, <4>2 DEF reproposal, Headers
    <3> QED BY <3>1, <3>2
  <2>4. propose_block_action(t, r, ops) = Prepare_block(blk)
    BY DEF propose_block_action
  <2> HIDE DEF blk
  <2> QED BY <1>1, <2>2, <2>3, <2>4, BlockRequested, HandledBy
<1> QED BY <1>2, <1>3 DEF end_of_round, t

(* The block for an own round of the next level.                           *)
LEMMA StepNextLevelBlock ==
  ASSUME NEW b, NEW s, StateSound(s), s.current_level < MaxLevel,
         s.elected_block # NoBlock, NEW r \in 0 .. MaxRound, NEW ops \in Ops,
         round_proposer(b, s.current_level + 1, r)
  PROVE  Handled(b, s, time_to_prepare_next_level_block(s, r, ops), {})
<1> DEFINE t == [s EXCEPT !.next_level_proposed_round = r]
           blk == fresh_block(s.elected_block, r, ops)
<1>1. s.current_level = FirstLevel
  BY ChainFacts, BoundAssumption DEF StateSound
<1>2. s.elected_block \in Parents
  BY <1>1 DEF StateSound
<1>3. blk \in Headers /\ blk.round = r
  BY <1>2, FreshBlock
<1>4. slot_owner(Level, r) = b
  BY <1>1 DEF round_proposer, Level
<1>5. StateSound(t) /\ t.early_attestations = s.early_attestations
  BY DEF StateSound
<1> HIDE DEF t, blk
<1>6. Handled(b, s, Result(t, Prepare_block(blk)), {})
  BY <1>3, <1>4, <1>5, BlockRequested, HandledBy
<1> QED BY <1>6 DEF time_to_prepare_next_level_block, t, blk

(* A prequorum locks at most at the attestable round, and releases the     *)
(* early attestations.                                                     *)
LEMMA StepPrequorum ==
  ASSUME NEW b, NEW s, StateSound(s), NEW candidate
  PROVE  Handled(b, s, step_Prequorum_reached(s, candidate), {})
<1>1. Handled(b, s, do_nothing(s), {})
  BY DoNothing
<1>2. ASSUME s.current_phase = "Awaiting_preattestations"
      PROVE  Handled(b, s, prequorum_reached_when_awaiting_preattestations(s, candidate), {})
  <2> DEFINE blk == s.latest_proposal
             u == IF s.attestable_payload.round < blk.round
                  THEN [s EXCEPT !.attestable_payload =
                                    [proposal |-> blk, round |-> blk.round]]
                  ELSE s
             t == [update_locked_round(u, blk.round, blk.payload)
                     EXCEPT !.current_phase = "Awaiting_attestations"]
             w == [t EXCEPT !.early_attestations = {}]
             attest == prepare_attest_action(t, blk)
  <2>1. s.current_level = Level /\ blk \in Headers /\ s.current_level # FirstLevel
    BY <1>2, ChainFacts DEF StateSound
  <2>2. StateSound(u) /\ u.attestable_payload.round >= blk.round
    BY <2>1, ChainFacts DEF StateSound, LockSound, NoAttestable, NoLock
  <2>3. /\ u.early_attestations = s.early_attestations
        /\ u.current_level = s.current_level
    BY DEF StateSound
  <2> HIDE DEF u
  <2>4. StateSound(t)
    BY Zenon, <2>1, <2>2, <2>3, ChainFacts DEF StateSound, LockSound, update_locked_round, Chain
  <2>5. t.early_attestations = s.early_attestations /\ t.current_level = Level
    BY <2>1, <2>2, <2>3 DEF update_locked_round, StateSound
  <2> HIDE DEF t
  <2>6. StateSound(w) /\ w.early_attestations = {}
    BY <2>4 DEF StateSound
  <2>7. Handled(b, s, Result(t, attest), {})
    <3>1. Vote("attestation", t.current_level, blk) \in TasksOf(b)
      BY <2>1, <2>5, ChainFacts DEF Vote, TasksOf, VoteTasks, Chain
    <3>2. attest.request = << Vote("attestation", t.current_level, blk) >>
          /\ attest.inject = {}
      BY DEF prepare_attest_action, Watch_quorum, Do_nothing
    <3> HIDE DEF attest
    <3>3. attest.request \in Seq(TasksOf(b))
      BY <3>1, <3>2
    <3> QED BY Zenon, <2>4, <2>5, <3>2, <3>3, HandledBy
  <2>8. Handled(b, s, inject_early_arrived_attestations(t), {})
    <3>1. Handled(b, s, Result(t, Watch_quorum), {})
      BY <2>4, <2>5, Actions, HandledBy
    <3>2. Handled(b, s, Result(w, Inject_attestations(t.early_attestations)), {})
      BY Zenon, <2>5, <2>6, Actions, HandledBy
    <3> QED BY <3>1, <3>2 DEF inject_early_arrived_attestations
  <2> QED
    BY <1>1, <2>7, <2>8 DEF prequorum_reached_when_awaiting_preattestations, t, u
<1> QED BY <1>1, <1>2 DEF step_Prequorum_reached

(* A quorum elects the latest proposal, or waits for its application.      *)
LEMMA StepQuorum ==
  ASSUME NEW b, NEW s, StateSound(s), NEW candidate
  PROVE  Handled(b, s, step_Quorum_reached(s, candidate), {})
<1> DEFINE t == [s EXCEPT !.elected_block = s.latest_proposal, !.current_phase = "Idle"]
           u == [s EXCEPT !.current_phase = "Awaiting_application", !.delayed_quorum = TRUE]
<1>1. Handled(b, s, do_nothing(s), {})
  BY DoNothing
<1>2. ASSUME s.current_phase = "Awaiting_attestations"
      PROVE  Handled(b, s, do_nothing(t), {}) /\ Handled(b, s, do_nothing(u), {})
  <2>1. s.current_level # FirstLevel
    BY <1>2 DEF StateSound
  <2>2. StateSound(t) /\ t.early_attestations = s.early_attestations
    BY <2>1 DEF StateSound
  <2>3. StateSound(u) /\ u.early_attestations = s.early_attestations
    BY <2>1 DEF StateSound
  <2> QED BY Zenon, <2>2, <2>3, DoNothing
<1> QED
  BY <1>1, <1>2 DEF step_Quorum_reached, quorum_reached_when_waiting_attestations

(* A signed vote is sent, kept or dropped.                                 *)
LEMMA StepForgeEvent ==
  ASSUME NEW b, NEW s, StateSound(s), NEW v \in VoteTasks
  PROVE  Handled(b, s, handle_forge_event(s, v), {v})
<1>1. Handled(b, s, Result(s, Inject_preattestation(v)), {v})
  BY Actions, HandledBy
<1>2. Handled(b, s, do_nothing(s), {v})
  BY DoNothing
<1>3. Handled(b, s, Result(s, Inject_attestations({v})), {v})
  BY Actions, HandledBy
<1>4. ASSUME v.kind = "attestation"
      PROVE  Handled(b, s, do_nothing([s EXCEPT !.early_attestations = @ \cup {v}]), {v})
  <2> DEFINE t == [s EXCEPT !.early_attestations = @ \cup {v}]
  <2>1. StateSound(t) /\ t.early_attestations = s.early_attestations \cup {v}
    BY <1>4 DEF StateSound
  <2> QED BY Zenon, <2>1, DoNothing
<1>5. v.kind \in {"preattestation", "attestation"}
  BY DEF VoteTasks
<1> QED
  BY <1>1, <1>2, <1>3, <1>4, <1>5 DEF handle_forge_event, handle_arriving_attestation

-----------------------------------------------------------------------------
(* Starting from the file                                                  *)

(* The state that a process starts from, whatever the file says.           *)
LEMMA InitialState ==
  ASSUME NEW head \in Chain, NEW now \in 0 .. MaxRound, NEW d, FileSound(d)
  PROVE  LET s == create_initial_state(head, now, d)
         IN  StateSound(s) /\ s.early_attestations = {}
<1> DEFINE elected == IF is_first_block_in_protocol(head) THEN head ELSE NoBlock
           u == fresh_state(head, TRUE, elected, now)
           t == may_load_attestable_data(u, d)
           s == may_initialise_with_latest_proposal_pqc(t)
<1>1. elected \in Parents \cup {NoBlock}
  BY ChainFacts DEF is_first_block_in_protocol
<1> HIDE DEF elected
<1>2. StateSound(u) /\ u.early_attestations = {} /\ u.latest_proposal = head
  BY <1>1, FreshState DEF fresh_state
<1> HIDE DEF u
<1>3. StateSound(t) /\ t.early_attestations = {} /\ t.latest_proposal = head
  BY <1>2 DEF StateSound, FileSound, may_load_attestable_data
<1> HIDE DEF t
<1>4. StateSound(s) /\ s.early_attestations = {}
  BY <1>3, ChainFacts DEF StateSound, LockSound, NoLock, NoAttestable,
       may_initialise_with_latest_proposal_pqc
<1> QED BY Zenon, <1>4 DEF create_initial_state, t, u, elected

(* The first event of a process.                                           *)
LEMMA BootstrapEvent ==
  ASSUME NEW b, NEW s, StateSound(s), NEW ops \in Ops
  PROVE  Handled(b, s, compute_bootstrap_event(b, s, ops), {})
<1>1. s.current_round \in 0 .. MaxRound /\ s.latest_proposal \in Chain
  BY DEF StateSound
<1>2. s.current_round = (s.current_round - 1) + 1
  BY <1>1, ChainFacts
<1>3. Handled(b, s, step_New_head_proposal(s, s.latest_proposal, s.current_round), {})
  BY <1>1, StepProposal
<1>4. Handled(b, s, end_of_round(s, s.current_round - 1,
                 round_proposer(b, s.current_level, s.current_round), ops), {})
  BY <1>1, <1>2, StepEndOfRound
<1> QED BY <1>3, <1>4 DEF compute_bootstrap_event

(* What may_record_new_state leaves in the file.                           *)
LEMMA FileRecorded ==
  ASSUME NEW prev, NEW new, StateSound(new), NEW d, FileSound(d),
         NEW d1 \in may_record_new_state(prev, new, d)
  PROVE  FileSound(d1)
<1>1. FileSound(state_data(new))
  BY DEF StateSound, FileSound, state_data
<1> QED BY <1>1 DEF may_record_new_state

-----------------------------------------------------------------------------
(* The initial states.                                                     *)
LEMMA InitSound == Init => SigningInv
<1> SUFFICES ASSUME Init PROVE SigningInv
  OBVIOUS
<1>1. FileSound(NoData)
  BY ChainFacts DEF FileSound, LockSound, NoData, NoLock, NoAttestable
<1>2. PICK head \in Parents :
        st = [b \in Detailed |-> create_initial_state(head, head.round, NoData)]
  BY DEF Init
<1> DEFINE s == create_initial_state(head, head.round, NoData)
<1>3. StateSound(s) /\ s.early_attestations = {}
  <2>1. head \in Chain
    BY DEF Chain
  <2>2. head.round \in 0 .. MaxRound
    BY <2>1, ChainFacts
  <2> QED BY <1>1, <2>1, <2>2, InitialState
<1> HIDE DEF s
<1>4. DOMAIN st = Detailed /\ \A b \in Detailed : st[b] = s
  BY <1>2 DEF s
<1>5. TypeOK
  <2>1. NoMark \in [level : {0, Level}, round : NoRound .. MaxRound]
    BY ChainFacts DEF NoMark
  <2>2. NoRound \in NoRound .. MaxRound
    BY ChainFacts
  <2>3. hwm \in [Detailed -> [{"block", "preattestation", "attestation"} ->
                             [level : {0, Level}, round : NoRound .. MaxRound]]]
    BY <2>1 DEF Init
  <2>4. \A b \in Detailed : disk[b] = NoData /\ requests[b] = << >> /\ tasks[b] = << >>
    BY DEF Init
  <2>5. \A b : << >> \in Seq(TasksOf(b))
    OBVIOUS
  <2>6. /\ DOMAIN disk = Detailed /\ DOMAIN requests = Detailed /\ DOMAIN tasks = Detailed
        /\ DOMAIN votes = {"preattestation", "attestation"}
        /\ \A kind \in DOMAIN votes : votes[kind] = {}
        /\ blocks \subseteq Chain /\ peer_round \in [Peers -> NoRound .. MaxRound]
    BY <2>2 DEF Init, Chain
  <2>7. \A b \in Detailed : /\ StateSound(st[b]) /\ FileSound(disk[b])
                            /\ requests[b] \in Seq(TasksOf(b)) /\ tasks[b] \in Seq(TasksOf(b))
    BY Zenon, <1>1, <1>3, <1>4, <2>4, <2>5
  <2>8. \A kind \in DOMAIN votes : votes[kind] \subseteq Honest \X (0 .. MaxRound) \X Payloads
    BY <2>6
  <2> QED BY <1>4, <2>3, <2>6, <2>7, <2>8, Zenon DEF TypeOK
<1>6. votes["preattestation"] = {} /\ votes["attestation"] = {} /\ blocks = Parents
      /\ DOMAIN votes = {"preattestation", "attestation"}
  BY DEF Init
<1>7. VotesMarked
  <2>1. ASSUME NEW b \in Detailed, NEW v \in VoteTasks
        PROVE  ~Authorised(b, v)
    <3>1. votes[v.kind] = {}
      BY <1>6 DEF VoteTasks
    <3>2. tasks[b] = << >> /\ Len(tasks[b]) = 0
      BY DEF Init
    <3> QED BY <1>3, <1>4, <3>1, <3>2 DEF Authorised
  <2> QED BY <2>1 DEF VotesMarked
<1>8. BlocksMarked /\ NoDoubleBake
  BY <1>6 DEF BlocksMarked, NoDoubleBake
<1>9. PeersJustified
  BY <1>6 DEF PeersJustified
<1>10. NoDoubleVote
  BY <1>6 DEF NoDoubleVote
<1> QED BY <1>5, <1>7, <1>8, <1>9, <1>10 DEF SigningInv
=============================================================================
