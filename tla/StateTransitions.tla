-------------------------- MODULE StateTransitions --------------------------
(***************************************************************************)
(* The transition function of the baker's automaton, as pure operators:    *)
(* src/proto_alpha/lib_delegate/state_transitions.ml, together with the    *)
(* parts of baking_actions.ml that compute a state (update_to_level,       *)
(* synchronize_round).  Every handler returns a state and an action like   *)
(* the OCaml function it models.                                           *)
(*                                                                         *)
(* DATA.  A payload stands for its hash, which commits to the predecessor, *)
(* the payload round and the operations.  A block stands for its hash, so  *)
(* two blocks are the same block exactly when their records are equal.  An *)
(* OCaml option over rounds is an integer, with NoRound for None.          *)
(*                                                                         *)
(* STATE.  level_state and round_state of Baking_state.t are merged into   *)
(* one record that keeps the field names of the source.  The delegate      *)
(* slots are constant functions of the level and live in module Baker.     *)
(***************************************************************************)
EXTENDS Integers, Sequences

CONSTANTS
  NoPayload,   \* payload of a lock that does not exist
  NoBlock      \* None, where a block is expected

NoRound == -1

(* The protocol-transition block is at level 1; voting starts at level 2.  *)
FirstLevel == 1

\* None of locked_round, of attestable_payload
NoLock == [round |-> NoRound, payload |-> NoPayload]
NoAttestable == [proposal |-> NoBlock, round |-> NoRound]

Predecessor(blk) == blk.payload.pred

is_first_block_in_protocol(blk) == blk.level = FirstLevel

Vote(kind, level, blk) ==
  [kind |-> kind, level |-> level, round |-> blk.round, payload |-> blk.payload]

-----------------------------------------------------------------------------
(* What a step asks the rest of the baker to do (type action of            *)
(* baking_actions.ml, flattened): requests pushed to the forge worker, in  *)
(* order, signed votes sent to the node, the watch armed on                *)
(* latest_proposal, and whether pending forge tasks are cancelled.         *)
Do_nothing ==
  [request |-> << >>, inject |-> {}, watch |-> "none", cancel |-> FALSE]

Watch_prequorum == [Do_nothing EXCEPT !.watch = "prequorum"]
Watch_quorum == [Do_nothing EXCEPT !.watch = "quorum"]

Prepare_block(blk) ==
  [Do_nothing EXCEPT !.request = << [kind |-> "block", block |-> blk] >>]

prepare_consensus_votes_action(s, blk) ==
  [Watch_prequorum EXCEPT
     !.request = << Vote("preattestation", s.current_level, blk),
                    Vote("attestation", s.current_level, blk) >>]

prepare_attest_action(s, blk) ==
  [Watch_quorum EXCEPT
     !.request = << Vote("attestation", s.current_level, blk) >>]

Inject_preattestation(v) == [Do_nothing EXCEPT !.inject = {v}]
Inject_attestations(vs) == [Watch_quorum EXCEPT !.inject = vs]

(* state is what perform_action makes of it, returned what step returned:  *)
(* they differ when the action goes on computing (Update_to_level,         *)
(* Synchronize_round).                                                     *)
Result(s, action) == [state |-> s, returned |-> s, action |-> action]

do_nothing(s) == Result(s, Do_nothing)

-----------------------------------------------------------------------------
(* Mutant: a new round forgets the lock.                                   *)
fresh_round_state_unlocked(s, r) ==
  [s EXCEPT !.current_round = r,
            !.current_phase = "Idle",
            !.delayed_quorum = FALSE,
            !.early_attestations = {},
            !.awaiting_unlocking_pqc = FALSE,
            !.locked_round = NoLock]

fresh_round_state(s, r) ==
  [s EXCEPT !.current_round = r,
            !.current_phase = "Idle",
            !.delayed_quorum = FALSE,
            !.early_attestations = {},
            !.awaiting_unlocking_pqc = FALSE]

fresh_state(blk, applied, elected, r) ==
  [current_level |-> blk.level,
   latest_proposal |-> blk,
   is_latest_proposal_applied |-> applied,
   locked_round |-> NoLock,
   attestable_payload |-> NoAttestable,
   elected_block |-> elected,
   next_level_proposed_round |-> NoRound,
   current_round |-> r,
   current_phase |-> "Idle",
   delayed_quorum |-> FALSE,
   early_attestations |-> {},
   awaiting_unlocking_pqc |-> FALSE]

-----------------------------------------------------------------------------
(* Proposals                                                               *)

is_acceptable_proposal_for_current_level(s, blk) ==
  IF s.current_round < blk.round THEN "Invalid"
  ELSE IF s.current_round > blk.round THEN "Outdated_proposal"
  ELSE IF /\ blk.round = s.latest_proposal.round
          /\ blk # s.latest_proposal
          /\ Predecessor(blk) = Predecessor(s.latest_proposal)
       THEN "Invalid"
       ELSE "Valid_proposal"

update_proposal(applied, s, blk) ==
  [s EXCEPT
     !.is_latest_proposal_applied =
        applied \/ (s.latest_proposal = blk /\ s.is_latest_proposal_applied),
     !.latest_proposal = blk]

may_update_proposal(applied, s, blk) ==
  IF s.latest_proposal.round < blk.round
  THEN update_proposal(applied, s, blk)
  ELSE s

may_update_attestable_payload_with_internal_pqc(s, blk) ==
  IF \/ blk.prequorum = NoRound
     \/ blk.prequorum < s.attestable_payload.round
  THEN s
  ELSE [s EXCEPT !.attestable_payload =
                    [proposal |-> blk, round |-> blk.prequorum]]

has_already_been_handled(s, blk) ==
  s.latest_proposal = blk /\ s.is_latest_proposal_applied

mark_awaiting_pqc(s) == [s EXCEPT !.awaiting_unlocking_pqc = TRUE]

prepare_consensus_votes(s, blk) ==
  IF is_first_block_in_protocol(blk)
  THEN do_nothing([s EXCEPT !.current_phase = "Idle"])
  ELSE Result([s EXCEPT !.current_phase = "Awaiting_preattestations"],
              prepare_consensus_votes_action(s, blk))

(* The two votes of a proposal are requested only from the Idle phase; the *)
(* cancellation of pending signatures happens even if nothing is requested.*)
may_vote(s, blk) ==
  IF s.current_phase = "Idle"
  THEN LET r == prepare_consensus_votes(s, blk)
       IN  [r EXCEPT !.action.cancel = TRUE]
  ELSE do_nothing(s)

(* Mutant: a later proposal unlocks, with or without a prequorum.          *)
may_vote_for_later_block(s, blk) ==
  \/ s.locked_round = NoLock
  \/ s.locked_round.payload = blk.payload
  \/ s.locked_round.round < blk.round

(* A locked baker votes for its own payload, or for one whose block shows  *)
(* a prequorum from a later round than the lock.                           *)
may_vote_under_lock(s, blk) ==
  \/ s.locked_round = NoLock
  \/ s.locked_round.payload = blk.payload
  \/ s.locked_round.round < blk.prequorum

handle_valid_proposal(applied, s, blk) ==
  LET s1 == may_update_attestable_payload_with_internal_pqc(s, blk)
      s2 == [may_update_proposal(applied, s1, blk)
               EXCEPT !.early_attestations = {}]
  IN  IF may_vote_under_lock(s2, blk)
      THEN may_vote(s2, blk)
      ELSE Result([mark_awaiting_pqc(s2)
                     EXCEPT !.current_phase = "Awaiting_preattestations"],
                  Watch_prequorum)

handle_outdated_proposal(applied, s, blk) ==
  LET s1 == may_update_attestable_payload_with_internal_pqc(s, blk)
  IN  do_nothing(may_update_proposal(applied, s1, blk))

handle_proposal_on_branch(applied, s, blk) ==
  CASE is_acceptable_proposal_for_current_level(s, blk) = "Invalid" ->
         do_nothing(s)
    [] is_acceptable_proposal_for_current_level(s, blk) = "Outdated_proposal" ->
         handle_outdated_proposal(applied, s, blk)
    [] is_acceptable_proposal_for_current_level(s, blk) = "Valid_proposal" ->
         handle_valid_proposal(applied, s, blk)

(* The recursive call of handle_proposal, once blk is the latest proposal: *)
(* its first test succeeds exactly for an applied block.                   *)
handle_adopted_proposal(applied, s, blk) ==
  IF applied
  THEN do_nothing([s EXCEPT !.is_latest_proposal_applied = TRUE])
  ELSE handle_proposal_on_branch(applied, s, blk)

(* Update_to_level: the level state is rebuilt, the round is the clock's.  *)
update_to_level(applied, s, blk, now) ==
  [handle_adopted_proposal(applied, fresh_state(blk, applied, NoBlock, now), blk)
     EXCEPT !.returned = s]

(* Synchronize_round after update_proposal: lock and attestable payload of *)
(* the level are kept.                                                     *)
switch_branch(applied, s, blk, now) ==
  LET s1 == update_proposal(applied, s, blk)
  IN  [handle_adopted_proposal(applied, fresh_round_state(s1, now), blk)
         EXCEPT !.returned = s1]

may_switch_branch(applied, s, blk, now) ==
  IF \/ s.attestable_payload = NoAttestable
     \/ s.attestable_payload.round < blk.prequorum
  THEN switch_branch(applied, s, blk, now)
  ELSE do_nothing(s)

handle_proposal(applied, s, blk, now) ==
  IF applied /\ s.latest_proposal = blk
  THEN do_nothing([s EXCEPT !.is_latest_proposal_applied = TRUE])
  ELSE IF s.current_level > blk.level
  THEN do_nothing(s)
  ELSE IF s.current_level < blk.level
  THEN update_to_level(applied, s, blk, now)
  ELSE IF Predecessor(s.latest_proposal) # Predecessor(blk)
  THEN may_switch_branch(applied, s, blk, now)
  ELSE handle_proposal_on_branch(applied, s, blk)

-----------------------------------------------------------------------------
(* Timeouts                                                                *)

fresh_block(pred, r, ops) ==
  [level |-> pred.level + 1, round |-> r, prequorum |-> NoRound,
   payload |-> [pred |-> pred, round |-> r, ops |-> ops]]

reproposal(attestable, r) ==
  [attestable.proposal EXCEPT !.round = r, !.prequorum = attestable.round]

(* Mutant: never re-proposes.                                              *)
propose_fresh_block_always(s, r, ops) ==
  Prepare_block(fresh_block(Predecessor(s.latest_proposal), r, ops))

propose_block_action(s, r, ops) ==
  Prepare_block(
    IF s.attestable_payload = NoAttestable
    THEN fresh_block(Predecessor(s.latest_proposal), r, ops)
    ELSE reproposal(s.attestable_payload, r))

(* own: round_proposer finds one of the baker's delegates for the round.   *)
end_of_round(s, ending_round, own, ops) ==
  LET r == ending_round + 1
      s1 == fresh_round_state(s, r)
  IN  IF own /\ ~is_first_block_in_protocol(s.latest_proposal)
      THEN Result(s1, propose_block_action(s1, r, ops))
      ELSE do_nothing(s1)

time_to_prepare_next_level_block(s, at_round, ops) ==
  Result([s EXCEPT !.next_level_proposed_round = at_round],
         Prepare_block(fresh_block(s.elected_block, at_round, ops)))

-----------------------------------------------------------------------------
(* Quorum events and the application of the elected block                  *)

update_locked_round(s, round, payload) ==
  [s EXCEPT !.locked_round = [round |-> round, payload |-> payload]]

inject_early_arrived_attestations(s) ==
  IF s.early_attestations = {}
  THEN Result(s, Watch_quorum)
  ELSE Result([s EXCEPT !.early_attestations = {}],
              Inject_attestations(s.early_attestations))

(* Mutant: an attestable payload, once set, is not replaced.               *)
prequorum_reached_keeping_attestable(s, candidate) ==
  LET blk == s.latest_proposal
      s1 == IF s.attestable_payload = NoAttestable
            THEN [s EXCEPT !.attestable_payload =
                              [proposal |-> blk, round |-> blk.round]]
            ELSE s
      s2 == [update_locked_round(s1, blk.round, blk.payload)
               EXCEPT !.current_phase = "Awaiting_attestations"]
  IN  IF candidate # blk THEN do_nothing(s)
      ELSE IF s.awaiting_unlocking_pqc
      THEN Result(s2, prepare_attest_action(s2, blk))
      ELSE inject_early_arrived_attestations(s2)

prequorum_reached_when_awaiting_preattestations(s, candidate) ==
  LET blk == s.latest_proposal
      s1 == IF s.attestable_payload.round < blk.round
            THEN [s EXCEPT !.attestable_payload =
                              [proposal |-> blk, round |-> blk.round]]
            ELSE s
      s2 == [update_locked_round(s1, blk.round, blk.payload)
               EXCEPT !.current_phase = "Awaiting_attestations"]
  IN  IF candidate # blk THEN do_nothing(s)
      ELSE IF s.awaiting_unlocking_pqc
      THEN Result(s2, prepare_attest_action(s2, blk))
      ELSE inject_early_arrived_attestations(s2)

(* Mutant: the candidate of the event is not compared.                     *)
quorum_reached_for_any_candidate(s, candidate) ==
  IF s.elected_block # NoBlock
  THEN do_nothing(s)
  ELSE IF s.is_latest_proposal_applied
  THEN do_nothing([s EXCEPT !.elected_block = s.latest_proposal,
                            !.current_phase = "Idle"])
  ELSE do_nothing([s EXCEPT !.current_phase = "Awaiting_application",
                            !.delayed_quorum = TRUE])

quorum_reached_when_waiting_attestations(s, candidate) ==
  IF candidate # s.latest_proposal \/ s.elected_block # NoBlock
  THEN do_nothing(s)
  ELSE IF s.is_latest_proposal_applied
  THEN do_nothing([s EXCEPT !.elected_block = s.latest_proposal,
                            !.current_phase = "Idle"])
  ELSE do_nothing([s EXCEPT !.current_phase = "Awaiting_application",
                            !.delayed_quorum = TRUE])

(* When the block is elected here, the code updates the state it had       *)
(* before setting is_latest_proposal_applied, so that flag is left as is.  *)
handle_expected_applied_proposal(s) ==
  LET s1 == IF s.elected_block = NoBlock
            THEN [s EXCEPT !.elected_block = s.latest_proposal]
            ELSE [s EXCEPT !.is_latest_proposal_applied = TRUE]
  IN  do_nothing([s1 EXCEPT !.current_phase = "Idle"])

-----------------------------------------------------------------------------
(* Signed votes and blocks coming back from the forge worker               *)

attestation_matches_proposal(s, v) ==
  /\ v.payload = s.latest_proposal.payload
  /\ v.round = s.latest_proposal.round
  /\ v.level = s.latest_proposal.level

handle_arriving_attestation(s, v) ==
  IF ~attestation_matches_proposal(s, v) THEN do_nothing(s)
  ELSE IF s.current_phase = "Awaiting_preattestations"
  THEN do_nothing([s EXCEPT !.early_attestations = @ \cup {v}])
  ELSE Result(s, Inject_attestations({v}))

handle_forge_event(s, v) ==
  IF v.kind = "preattestation"
  THEN Result(s, Inject_preattestation(v))
  ELSE handle_arriving_attestation(s, v)

-----------------------------------------------------------------------------
(* step, one operator per event.  Timeouts, forge events and new heads are *)
(* handled in every phase.                                                 *)

step_New_head_proposal(s, blk, now) ==
  IF s.current_phase = "Awaiting_application" /\ s.latest_proposal = blk
  THEN handle_expected_applied_proposal(s)
  ELSE handle_proposal(TRUE, s, blk, now)

step_New_valid_proposal(s, blk, now) ==
  IF s.current_phase # "Idle" /\ has_already_been_handled(s, blk)
  THEN do_nothing(s)
  ELSE handle_proposal(FALSE, s, blk, now)

step_Prequorum_reached(s, candidate) ==
  IF s.current_phase = "Awaiting_preattestations"
  THEN prequorum_reached_when_awaiting_preattestations(s, candidate)
  ELSE do_nothing(s)

step_Quorum_reached(s, candidate) ==
  IF s.current_phase = "Awaiting_attestations"
  THEN quorum_reached_when_waiting_attestations(s, candidate)
  ELSE do_nothing(s)
=============================================================================
