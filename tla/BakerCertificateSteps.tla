----------------------- MODULE BakerCertificateSteps ------------------------
(***************************************************************************)
(* What the fields of level_state stand for, step by step: Certified says  *)
(* that the prequorum of the attestable payload and the quorum of the      *)
(* elected block were reached, and one lemma per operator of               *)
(* StateTransitions shows that its result is Certified again.              *)
(* BakerCertificates builds the theorem on it.                             *)
(*                                                                         *)
(* One behaviour of the code is kept out by NoBranchRefused: when the      *)
(* record of a switch to another branch is refused, the loop goes on with  *)
(* the proposal of the new branch in the round and phase of the old one.   *)
(* It needs the state recorder and forks of the predecessor.               *)
(***************************************************************************)
EXTENDS BakerTransitions

OneBranch == \A x, y \in Parents : x = y

NoBranchRefused == StateRecorder # "Filesystem" \/ OneBranch

-----------------------------------------------------------------------------
(* The invariant.  V stands for votes, now or after a step.                *)

Reached(V, kind, r, p) ==
  \E Q \in Quorums : \A b \in Q \cap Honest : <<b, r, p>> \in V[kind]

AttestableReached(V, a) ==
  a # NoAttestable => Reached(V, "preattestation", a.round, a.proposal.payload)

QuorumReached(V, blk) == Reached(V, "attestation", blk.round, blk.payload)

CarriedReached(V, blk) ==
  blk.prequorum # NoRound =>
    Reached(V, "preattestation", blk.prequorum, blk.payload)

EventReached(V, e) ==
  Reached(V, IF e.kind = "prequorum" THEN "preattestation" ELSE "attestation",
          e.candidate.round, e.candidate.payload)

BlocksReached(V, queue) ==
  \A i \in 1 .. Len(queue) :
    queue[i].kind = "block" => CarriedReached(V, queue[i].block)

Certified(V, s) ==
  /\ AttestableReached(V, s.attestable_payload)
  /\ s.elected_block \notin Parents \cup {NoBlock} => QuorumReached(V, s.elected_block)
  /\ s.latest_proposal.round <= s.current_round
  /\ s.current_phase # "Idle" => s.latest_proposal.round = s.current_round
  /\ s.current_phase = "Awaiting_application" => QuorumReached(V, s.latest_proposal)

CertInv ==
  /\ DOMAIN qc = Detailed
  /\ \A b \in Detailed :
       /\ Certified(votes, st[b])
       /\ AttestableReached(votes, disk[b].attestable_payload)
       /\ BlocksReached(votes, requests[b]) /\ BlocksReached(votes, tasks[b])
       /\ \A e \in qc[b] : EventReached(votes, e)
  /\ \A blk \in blocks : CarriedReached(votes, blk)

(* Votes are never taken back, so what was reached stays reached.          *)
LEMMA ReachedStays ==
  ASSUME NEW V, NEW W,
         \A kind \in {"preattestation", "attestation"} : V[kind] \subseteq W[kind]
  PROVE  /\ \A a : AttestableReached(V, a) => AttestableReached(W, a)
         /\ \A blk : CarriedReached(V, blk) => CarriedReached(W, blk)
         /\ \A e : EventReached(V, e) => EventReached(W, e)
         /\ \A q : BlocksReached(V, q) => BlocksReached(W, q)
         /\ \A s : Certified(V, s) => Certified(W, s)
<1>1. \A kind \in {"preattestation", "attestation"} : \A r, p :
        Reached(V, kind, r, p) => Reached(W, kind, r, p)
  BY DEF Reached
<1>2. \A a : AttestableReached(V, a) => AttestableReached(W, a)
  BY <1>1 DEF AttestableReached
<1>3. \A blk : CarriedReached(V, blk) => CarriedReached(W, blk)
  BY <1>1 DEF CarriedReached
<1>4. \A e : EventReached(V, e) => EventReached(W, e)
  BY <1>1 DEF EventReached
<1>5. \A blk : QuorumReached(V, blk) => QuorumReached(W, blk)
  BY <1>1 DEF QuorumReached
<1>6. \A q : BlocksReached(V, q) => BlocksReached(W, q)
  BY <1>3 DEF BlocksReached
<1>7. \A s : Certified(V, s) => Certified(W, s)
  BY <1>2, <1>5 DEF Certified
<1> QED BY <1>2, <1>3, <1>4, <1>6, <1>7

-----------------------------------------------------------------------------
(* What the operators of StateTransitions make of a certified state        *)

(* A result: the state that perform_action makes, the one that step        *)
(* returned, and the blocks that are requested.                            *)
ResultCertified(V, res) ==
  /\ Certified(V, res.state)
  /\ OneBranch => Certified(V, res.returned)
  /\ BlocksReached(V, res.action.request)

(* Actions without blocks.                                                 *)
LEMMA NoBlocks ==
  ASSUME NEW V
  PROVE  /\ BlocksReached(V, << >>)
         /\ \A a \in {Do_nothing, Watch_prequorum, Watch_quorum} : BlocksReached(V, a.request)
         /\ \A v : BlocksReached(V, Inject_preattestation(v).request)
         /\ \A vs : BlocksReached(V, Inject_attestations(vs).request)
         /\ \A s, blk : /\ BlocksReached(V, prepare_consensus_votes_action(s, blk).request)
                        /\ BlocksReached(V, prepare_attest_action(s, blk).request)
<1>0. BlocksReached(V, << >>)
  BY DEF BlocksReached
<1>1. Do_nothing.request = << >>
  BY DEF Do_nothing
<1>2. /\ Watch_prequorum.request = Do_nothing.request
      /\ Watch_quorum.request = Do_nothing.request
  BY DEF Watch_prequorum, Watch_quorum, Do_nothing
<1>3. \A v : Inject_preattestation(v).request = Do_nothing.request
  BY DEF Inject_preattestation, Do_nothing
<1>4. \A vs : Inject_attestations(vs).request = Do_nothing.request
  BY DEF Inject_attestations, Watch_quorum, Do_nothing
<1>5. ASSUME NEW s, NEW blk
      PROVE  /\ BlocksReached(V, prepare_consensus_votes_action(s, blk).request)
             /\ BlocksReached(V, prepare_attest_action(s, blk).request)
  <2> DEFINE v == Vote("preattestation", s.current_level, blk)
             w == Vote("attestation", s.current_level, blk)
  <2>1. v.kind # "block" /\ w.kind # "block"
    BY DEF Vote
  <2>2. prepare_consensus_votes_action(s, blk).request = <<v, w>>
    BY DEF prepare_consensus_votes_action, Watch_prequorum, Do_nothing
  <2>3. prepare_attest_action(s, blk).request = <<w>>
    BY DEF prepare_attest_action, Watch_quorum, Do_nothing
  <2> HIDE DEF v, w
  <2>4. BlocksReached(V, <<v, w>>) /\ BlocksReached(V, <<w>>)
    BY <2>1 DEF BlocksReached
  <2> QED BY <2>2, <2>3, <2>4
<1> QED BY <1>0, <1>1, <1>2, <1>3, <1>4, <1>5

(* A result whose two states are the same.                                 *)
LEMMA CertifiedBy ==
  ASSUME NEW V, NEW t, NEW action, Certified(V, t), BlocksReached(V, action.request)
  PROVE  ResultCertified(V, Result(t, action))
BY DEF ResultCertified, Result

(* Doing nothing keeps a state certified.                                  *)
LEMMA CertifiedNothing ==
  ASSUME NEW V, NEW t, Certified(V, t)
  PROVE  ResultCertified(V, do_nothing(t))
BY CertifiedBy, NoBlocks DEF do_nothing

(* A new round at or after the one of the latest proposal.                 *)
LEMMA CertFreshRound ==
  ASSUME NEW V, NEW s, StateSound(s), AttestableReached(V, s.attestable_payload),
         s.elected_block \notin Parents \cup {NoBlock} => QuorumReached(V, s.elected_block),
         NEW r, s.latest_proposal.round <= r
  PROVE  Certified(V, fresh_round_state(s, r))
BY DEF StateSound, Certified, fresh_round_state

(* A new level.                                                            *)
LEMMA CertFreshState ==
  ASSUME NEW V, NEW blk, NEW applied, NEW elected \in Parents \cup {NoBlock},
         NEW r, blk.round <= r
  PROVE  Certified(V, fresh_state(blk, applied, elected, r))
BY DEF Certified, fresh_state, AttestableReached

(* A proposal of the current round or an earlier one: the prequorum that   *)
(* it carries was reached, and it replaces the latest proposal only in the *)
(* Idle phase.                                                             *)
LEMMA CertProposal ==
  ASSUME NEW V, NEW s, StateSound(s), Certified(V, s), NEW blk \in Chain,
         CarriedReached(V, blk), blk.round <= s.current_round, NEW applied
  PROVE  LET t == may_update_proposal(applied,
                    may_update_attestable_payload_with_internal_pqc(s, blk), blk)
         IN  /\ Certified(V, t)
             /\ t.current_round = s.current_round
             /\ t.latest_proposal.round >= blk.round
<1> DEFINE u == may_update_attestable_payload_with_internal_pqc(s, blk)
           t == may_update_proposal(applied, u, blk)
<1>1. /\ Certified(V, u) /\ DOMAIN u = DOMAIN s
      /\ u.current_round = s.current_round /\ u.latest_proposal = s.latest_proposal
  <2> DEFINE a == [proposal |-> blk, round |-> blk.prequorum]
  <2>1. blk.prequorum # NoRound => AttestableReached(V, a)
    BY DEF CarriedReached, AttestableReached
  <2> HIDE DEF a
  <2>2. u = s \/ (blk.prequorum # NoRound /\ u = [s EXCEPT !.attestable_payload = a])
    BY DEF may_update_attestable_payload_with_internal_pqc, a
  <2> HIDE DEF u
  <2> QED BY <2>1, <2>2 DEF Certified, StateSound
<1>2. /\ s.latest_proposal.round \in 0 .. MaxRound /\ s.current_round \in 0 .. MaxRound
      /\ blk.round \in 0 .. MaxRound
  BY ChainFacts DEF StateSound
<1> HIDE DEF u
<1>3. /\ Certified(V, t) /\ t.current_round = s.current_round
      /\ t.latest_proposal.round >= blk.round
  <2>1. CASE u.latest_proposal.round < blk.round
    <3>1. u.current_phase = "Idle"
      BY <1>1, <1>2, <2>1 DEF Certified
    <3> QED
      BY <1>1, <1>2, <2>1, <3>1 DEF may_update_proposal, update_proposal, Certified, StateSound
  <2>2. CASE ~(u.latest_proposal.round < blk.round)
    BY <1>1, <1>2, <2>2 DEF may_update_proposal
  <2> QED BY <2>1, <2>2
<1> QED BY <1>3 DEF u

(* A proposal of the current round.                                        *)
LEMMA CertValidProposal ==
  ASSUME NEW V, NEW s, StateSound(s), Certified(V, s), NEW blk \in Chain,
         blk.level = s.current_level, CarriedReached(V, blk),
         blk.round = s.current_round, NEW applied
  PROVE  ResultCertified(V, handle_valid_proposal(applied, s, blk))
<1> DEFINE t == may_update_proposal(applied,
                  may_update_attestable_payload_with_internal_pqc(s, blk), blk)
           u == [t EXCEPT !.early_attestations = {}]
           w == [mark_awaiting_pqc(u) EXCEPT !.current_phase = "Awaiting_preattestations"]
           x == [u EXCEPT !.current_phase = "Idle"]
           y == [u EXCEPT !.current_phase = "Awaiting_preattestations"]
<1>0. blk.round \in 0 .. MaxRound
  BY ChainFacts
<1>1. /\ StateSound(t) /\ Certified(V, t) /\ t.current_round = s.current_round
      /\ t.latest_proposal.round >= blk.round
  <2>1. blk.round <= s.current_round
    BY <1>0, ChainFacts
  <2> QED BY <2>1, ProposalUpdates, CertProposal
<1>2. handle_valid_proposal(applied, s, blk) =
        IF may_vote_under_lock(u, blk) THEN may_vote(u, blk)
        ELSE Result(w, Watch_prequorum)
  BY DEF handle_valid_proposal
<1> HIDE DEF t
<1>3. /\ Certified(V, u) /\ StateSound(u) /\ u.latest_proposal.round = u.current_round
  <2>1. t.latest_proposal.round \in 0 .. MaxRound
    BY <1>1, ChainFacts DEF StateSound
  <2>2. t.latest_proposal.round = t.current_round
    BY <1>0, <1>1, <2>1, ChainFacts DEF Certified
  <2> QED BY <1>1, <2>2 DEF Certified, StateSound
<1> HIDE DEF u
<1>4. Certified(V, w) /\ Certified(V, x) /\ Certified(V, y)
  BY <1>3 DEF Certified, StateSound, mark_awaiting_pqc
<1> HIDE DEF w, x, y
<1>5. ResultCertified(V, Result(w, Watch_prequorum))
  BY <1>4, NoBlocks, CertifiedBy
<1>6. ResultCertified(V, may_vote(u, blk))
  <2> DEFINE r == prepare_consensus_votes(u, blk)
             q == [r EXCEPT !.action.cancel = TRUE]
  <2>1. ResultCertified(V, r)
    <3>1. ResultCertified(V, do_nothing(x))
      BY <1>4, CertifiedNothing
    <3>2. ResultCertified(V, Result(y, prepare_consensus_votes_action(u, blk)))
      BY <1>4, NoBlocks, CertifiedBy
    <3> QED BY <3>1, <3>2 DEF prepare_consensus_votes, x, y
  <2>2. /\ q.state = r.state /\ q.returned = r.returned
        /\ q.action.request = r.action.request
    BY Zenon DEF prepare_consensus_votes, do_nothing, Result, prepare_consensus_votes_action,
           Watch_prequorum, Do_nothing
  <2> HIDE DEF q, r
  <2>3. ResultCertified(V, q)
    BY <2>1, <2>2 DEF ResultCertified
  <2> QED BY <1>3, <2>3, CertifiedNothing DEF may_vote, q, r
<1> QED BY <1>2, <1>5, <1>6

(* A proposal on the current branch.                                       *)
LEMMA CertOnBranch ==
  ASSUME NEW V, NEW s, StateSound(s), Certified(V, s), NEW blk \in Chain,
         blk.level = s.current_level, CarriedReached(V, blk), NEW applied
  PROVE  ResultCertified(V, handle_proposal_on_branch(applied, s, blk))
<1> DEFINE verdict == is_acceptable_proposal_for_current_level(s, blk)
<1>0. s.current_round \in 0 .. MaxRound /\ blk.round \in 0 .. MaxRound
  BY ChainFacts DEF StateSound
<1>1. /\ verdict \in {"Invalid", "Outdated_proposal", "Valid_proposal"}
      /\ verdict = "Outdated_proposal" => blk.round <= s.current_round
      /\ verdict = "Valid_proposal" => blk.round = s.current_round
  BY <1>0, ChainFacts DEF is_acceptable_proposal_for_current_level
<1> HIDE DEF verdict
<1>2. ResultCertified(V, do_nothing(s))
  BY CertifiedNothing
<1>3. verdict = "Outdated_proposal" =>
        ResultCertified(V, handle_outdated_proposal(applied, s, blk))
  BY <1>1, CertProposal, CertifiedNothing DEF handle_outdated_proposal
<1>4. verdict = "Valid_proposal" =>
        ResultCertified(V, handle_valid_proposal(applied, s, blk))
  BY <1>1, CertValidProposal
<1>5. CASE verdict = "Invalid"
  BY <1>2, <1>5 DEF handle_proposal_on_branch, verdict
<1>6. CASE verdict = "Outdated_proposal"
  BY <1>3, <1>6 DEF handle_proposal_on_branch, verdict
<1>7. CASE verdict = "Valid_proposal"
  BY <1>4, <1>7 DEF handle_proposal_on_branch, verdict
<1> QED BY <1>1, <1>5, <1>6, <1>7

(* A proposal that was just made the latest one.                           *)
LEMMA CertAdopted ==
  ASSUME NEW V, NEW s, StateSound(s), Certified(V, s), NEW blk \in Chain,
         blk.level = s.current_level, CarriedReached(V, blk), NEW applied
  PROVE  ResultCertified(V, handle_adopted_proposal(applied, s, blk))
<1> DEFINE t == [s EXCEPT !.is_latest_proposal_applied = TRUE]
<1>1. Certified(V, t)
  BY DEF StateSound, Certified
<1> HIDE DEF t
<1>2. ResultCertified(V, do_nothing(t))
  BY <1>1, CertifiedNothing
<1> QED BY <1>2, CertOnBranch DEF handle_adopted_proposal, t

(* The first proposal of the next level, when the clock shows its round or *)
(* a later one.                                                            *)
LEMMA CertLevelReached ==
  ASSUME NEW V, NEW s, StateSound(s), Certified(V, s), NEW blk \in Chain,
         CarriedReached(V, blk), NEW applied, NEW now \in 0 .. MaxRound, blk.round <= now
  PROVE  ResultCertified(V, update_to_level(applied, s, blk, now))
<1> DEFINE t == fresh_state(blk, applied, NoBlock, now)
           res == handle_adopted_proposal(applied, t, blk)
<1>1. StateSound(t) /\ Certified(V, t) /\ t.current_level = blk.level
  BY FreshState, CertFreshState DEF fresh_state
<1> HIDE DEF t
<1>2. ResultCertified(V, res)
  BY <1>1, CertAdopted
<1>3. DOMAIN res = {"state", "returned", "action"}
  BY Zenon, <1>1, Adopted DEF Handled
<1> HIDE DEF res
<1>4. ResultCertified(V, [res EXCEPT !.returned = s])
  BY <1>2, <1>3 DEF ResultCertified
<1> QED BY <1>4 DEF update_to_level, res, t

(* A switch to another branch.  With one branch there is none to switch    *)
(* to, so the state that step returned is never used.                      *)
LEMMA CertBranchSwitched ==
  ASSUME NEW V, NEW s, StateSound(s), Certified(V, s), NEW blk \in Chain,
         blk.level = s.current_level, Predecessor(s.latest_proposal) # Predecessor(blk),
         CarriedReached(V, blk), NEW applied, NEW now \in 0 .. MaxRound, blk.round <= now
  PROVE  ResultCertified(V, may_switch_branch(applied, s, blk, now))
<1> DEFINE u == update_proposal(applied, s, blk)
           t == fresh_round_state(u, now)
           res == handle_adopted_proposal(applied, t, blk)
<1>0. ~OneBranch
  <2>1. CASE blk.level = FirstLevel
    <3>1. blk \in Parents /\ s.latest_proposal \in Parents
      BY Zenon, <2>1, ChainFacts DEF StateSound
    <3>2. \A x \in Parents : Predecessor(x) = NoBlock
      <4> TAKE x \in Parents
      <4>1. PICK r \in ParentRounds :
              x = [level |-> FirstLevel, round |-> r, prequorum |-> NoRound,
                   payload |-> [pred |-> NoBlock, round |-> r, ops |-> NoOps]]
        BY DEF Parents
      <4> QED BY <4>1 DEF Predecessor
    <3> QED BY <3>1, <3>2
  <2>2. CASE blk.level # FirstLevel
    <3>1. Predecessor(blk) \in Parents /\ Predecessor(s.latest_proposal) \in Parents
      BY <2>2, ChainFacts DEF StateSound
    <3> QED BY <3>1 DEF OneBranch
  <2> QED BY <2>1, <2>2
<1>1. /\ StateSound(u) /\ u.latest_proposal = blk /\ u.current_level = blk.level
      /\ u.attestable_payload = s.attestable_payload /\ u.elected_block = s.elected_block
  BY UpdateProposal DEF update_proposal, StateSound
<1> HIDE DEF u
<1>2. StateSound(t) /\ t.current_level = blk.level
  BY <1>1, FreshRound DEF fresh_round_state, StateSound
<1>3. Certified(V, t)
  <2>1. /\ AttestableReached(V, u.attestable_payload)
        /\ u.elected_block \notin Parents \cup {NoBlock} => QuorumReached(V, u.elected_block)
        /\ u.latest_proposal.round <= now
    BY <1>1 DEF Certified
  <2> QED BY <1>1, <2>1, CertFreshRound
<1> HIDE DEF t
<1>4. ResultCertified(V, res)
  BY <1>2, <1>3, CertAdopted
<1>5. DOMAIN res = {"state", "returned", "action"}
  BY Zenon, <1>2, Adopted DEF Handled
<1> HIDE DEF res
<1>6. ResultCertified(V, [res EXCEPT !.returned = u])
  BY <1>0, <1>4, <1>5 DEF ResultCertified
<1>7. ResultCertified(V, switch_branch(applied, s, blk, now))
  BY <1>6 DEF switch_branch, res, t, u
<1> QED BY <1>7, CertifiedNothing DEF may_switch_branch

(* Every proposal, applied or only validated                               *)
LEMMA CertStepProposal ==
  ASSUME NEW V, NEW s, StateSound(s), Certified(V, s), NEW blk \in Chain,
         CarriedReached(V, blk), NEW now \in 0 .. MaxRound, blk.round <= now
  PROVE  /\ ResultCertified(V, step_New_valid_proposal(s, blk, now))
         /\ ResultCertified(V, step_New_head_proposal(s, blk, now))
<1> DEFINE t == [s EXCEPT !.is_latest_proposal_applied = TRUE]
<1>1. Certified(V, t)
  BY DEF StateSound, Certified
<1> HIDE DEF t
<1>2. ResultCertified(V, do_nothing(t)) /\ ResultCertified(V, do_nothing(s))
  BY <1>1, CertifiedNothing
<1>3. ASSUME NEW applied
      PROVE  ResultCertified(V, handle_proposal(applied, s, blk, now))
  <2>1. ResultCertified(V, update_to_level(applied, s, blk, now))
    BY CertLevelReached
  <2>2. ASSUME ~(s.current_level > blk.level), ~(s.current_level < blk.level)
        PROVE  /\ Predecessor(s.latest_proposal) # Predecessor(blk) =>
                    ResultCertified(V, may_switch_branch(applied, s, blk, now))
               /\ ResultCertified(V, handle_proposal_on_branch(applied, s, blk))
    <3>1. s.current_level = blk.level
      BY <2>2, ChainFacts DEF StateSound
    <3> QED BY <3>1, CertBranchSwitched, CertOnBranch
  <2> QED BY <1>2, <2>1, <2>2 DEF handle_proposal, t
<1>4. ASSUME s.current_phase = "Awaiting_application"
      PROVE  ResultCertified(V, handle_expected_applied_proposal(s))
  <2> DEFINE x == [[s EXCEPT !.elected_block = s.latest_proposal]
                      EXCEPT !.current_phase = "Idle"]
             y == [[s EXCEPT !.is_latest_proposal_applied = TRUE]
                      EXCEPT !.current_phase = "Idle"]
  <2>1. Certified(V, x) /\ Certified(V, y)
    BY <1>4 DEF StateSound, Certified
  <2>2. handle_expected_applied_proposal(s) \in {do_nothing(x), do_nothing(y)}
    BY Zenon DEF handle_expected_applied_proposal
  <2> HIDE DEF x, y
  <2> QED BY <2>1, <2>2, CertifiedNothing
<1> QED
  BY Zenon, <1>2, <1>3, <1>4 DEF step_New_valid_proposal, step_New_head_proposal

(* A requested block whose prequorum, if it carries one, was reached.      *)
LEMMA CertBlock ==
  ASSUME NEW V, NEW blk, CarriedReached(V, blk)
  PROVE  BlocksReached(V, Prepare_block(blk).request)
<1> DEFINE task == [kind |-> "block", block |-> blk]
<1>1. task.block = blk
  OBVIOUS
<1>2. Prepare_block(blk).request = << task >>
  BY DEF Prepare_block, Do_nothing
<1> HIDE DEF task
<1> QED BY <1>1, <1>2 DEF BlocksReached

(* The end of a round: a re-proposal carries the attestable prequorum.     *)
LEMMA CertEndOfRound ==
  ASSUME NEW V, NEW s, StateSound(s), Certified(V, s), NEW r \in 0 .. MaxRound,
         s.latest_proposal.round <= r, NEW ops, NEW own, NEW ending, r = ending + 1
  PROVE  ResultCertified(V, end_of_round(s, ending, own, ops))
<1> DEFINE t == fresh_round_state(s, r)
           fresh == fresh_block(Predecessor(t.latest_proposal), r, ops)
           again == reproposal(t.attestable_payload, r)
<1>1. Certified(V, t) /\ t.attestable_payload = s.attestable_payload
  BY CertFreshRound DEF fresh_round_state, StateSound, Certified
<1> HIDE DEF t
<1>2. CarriedReached(V, fresh)
  BY DEF CarriedReached, fresh_block
<1>3. t.attestable_payload # NoAttestable => CarriedReached(V, again)
  <2>1. ASSUME t.attestable_payload # NoAttestable
        PROVE  /\ again.prequorum = t.attestable_payload.round
               /\ again.payload = t.attestable_payload.proposal.payload
    <3>1. t.attestable_payload \in [proposal : Headers, round : 0 .. MaxRound]
      BY Zenon, <1>1, <2>1 DEF StateSound, LockSound
    <3> QED BY <3>1 DEF reproposal, Headers
  <2> HIDE DEF again
  <2> QED BY <1>1, <2>1 DEF CarriedReached, Certified, AttestableReached
<1> HIDE DEF fresh, again
<1>4. BlocksReached(V, propose_block_action(t, r, ops).request)
  BY <1>2, <1>3, CertBlock DEF propose_block_action, fresh, again
<1>5. ResultCertified(V, Result(t, propose_block_action(t, r, ops)))
  BY <1>1, <1>4, CertifiedBy
<1>6. ResultCertified(V, do_nothing(t))
  BY <1>1, CertifiedNothing
<1> QED BY <1>5, <1>6 DEF end_of_round, t

(* A block for the next level carries no prequorum.                        *)
LEMMA CertNextLevelBlock ==
  ASSUME NEW V, NEW s, StateSound(s), Certified(V, s), NEW r, NEW ops
  PROVE  ResultCertified(V, time_to_prepare_next_level_block(s, r, ops))
<1> DEFINE t == [s EXCEPT !.next_level_proposed_round = r]
           blk == fresh_block(s.elected_block, r, ops)
<1>1. Certified(V, t)
  BY DEF StateSound, Certified
<1>2. CarriedReached(V, blk)
  BY DEF CarriedReached, fresh_block
<1> HIDE DEF t, blk
<1>3. ResultCertified(V, Result(t, Prepare_block(blk)))
  BY <1>1, <1>2, CertBlock, CertifiedBy
<1> QED BY <1>3 DEF time_to_prepare_next_level_block, t, blk

(* A prequorum event: the latest proposal becomes the attestable payload.  *)
LEMMA CertPrequorum ==
  ASSUME NEW V, NEW s, StateSound(s), Certified(V, s), NEW candidate,
         Reached(V, "preattestation", candidate.round, candidate.payload)
  PROVE  ResultCertified(V, step_Prequorum_reached(s, candidate))
<1>1. ResultCertified(V, do_nothing(s))
  BY CertifiedNothing
<1>2. ASSUME s.current_phase = "Awaiting_preattestations", candidate = s.latest_proposal
      PROVE  ResultCertified(V, prequorum_reached_when_awaiting_preattestations(s, candidate))
  <2> DEFINE blk == s.latest_proposal
             a == [proposal |-> blk, round |-> blk.round]
             u == IF s.attestable_payload.round < blk.round
                  THEN [s EXCEPT !.attestable_payload = a]
                  ELSE s
             t == [update_locked_round(u, blk.round, blk.payload)
                     EXCEPT !.current_phase = "Awaiting_attestations"]
             w == [t EXCEPT !.early_attestations = {}]
  <2>1. AttestableReached(V, a)
    BY <1>2 DEF AttestableReached
  <2>2. DOMAIN u = DOMAIN s /\ Certified(V, u) /\ u.current_phase # "Idle"
    <3> HIDE DEF a
    <3> QED BY <1>2, <2>1 DEF Certified, StateSound
  <2>3. prequorum_reached_when_awaiting_preattestations(s, candidate) =
          IF s.awaiting_unlocking_pqc THEN Result(t, prepare_attest_action(t, blk))
          ELSE inject_early_arrived_attestations(t)
    BY <1>2 DEF prequorum_reached_when_awaiting_preattestations
  <2> HIDE DEF u
  <2>4. Certified(V, t) /\ Certified(V, w)
    BY <2>2 DEF Certified, StateSound, update_locked_round
  <2> HIDE DEF t, w
  <2>5. ResultCertified(V, Result(t, prepare_attest_action(t, blk)))
    BY <2>4, NoBlocks, CertifiedBy
  <2>6. ResultCertified(V, inject_early_arrived_attestations(t))
    <3>1. ResultCertified(V, Result(t, Watch_quorum))
      BY <2>4, NoBlocks, CertifiedBy
    <3>2. ResultCertified(V, Result(w, Inject_attestations(t.early_attestations)))
      BY <2>4, NoBlocks, CertifiedBy
    <3> QED BY Zenon, <3>1, <3>2 DEF inject_early_arrived_attestations, w
  <2> QED BY <2>3, <2>5, <2>6
<1>3. candidate # s.latest_proposal =>
        prequorum_reached_when_awaiting_preattestations(s, candidate) = do_nothing(s)
  BY DEF prequorum_reached_when_awaiting_preattestations
<1> QED BY <1>1, <1>2, <1>3 DEF step_Prequorum_reached

(* A quorum event: the latest proposal is elected, now or once applied.    *)
LEMMA CertQuorum ==
  ASSUME NEW V, NEW s, StateSound(s), Certified(V, s), NEW candidate,
         QuorumReached(V, candidate)
  PROVE  ResultCertified(V, step_Quorum_reached(s, candidate))
<1> DEFINE t == [s EXCEPT !.elected_block = s.latest_proposal, !.current_phase = "Idle"]
           u == [s EXCEPT !.current_phase = "Awaiting_application", !.delayed_quorum = TRUE]
<1>1. ResultCertified(V, do_nothing(s))
  BY CertifiedNothing
<1>2. ASSUME s.current_phase = "Awaiting_attestations", candidate = s.latest_proposal
      PROVE  ResultCertified(V, do_nothing(t)) /\ ResultCertified(V, do_nothing(u))
  <2>1. Certified(V, t) /\ Certified(V, u)
    BY <1>2 DEF StateSound, Certified
  <2> HIDE DEF t, u
  <2> QED BY <2>1, CertifiedNothing
<1> HIDE DEF t, u
<1> QED
  BY <1>1, <1>2 DEF step_Quorum_reached, quorum_reached_when_waiting_attestations, t, u

(* Signed votes carry no blocks and certify nothing.                       *)
LEMMA CertForgeEvent ==
  ASSUME NEW V, NEW s, StateSound(s), Certified(V, s), NEW v
  PROVE  ResultCertified(V, handle_forge_event(s, v))
<1> DEFINE t == [s EXCEPT !.early_attestations = @ \cup {v}]
<1>1. Certified(V, t)
  BY Zenon DEF StateSound, Certified
<1> HIDE DEF t
<1>2. /\ ResultCertified(V, do_nothing(t)) /\ ResultCertified(V, do_nothing(s))
      /\ ResultCertified(V, Result(s, Inject_preattestation(v)))
      /\ ResultCertified(V, Result(s, Inject_attestations({v})))
  BY Zenon, <1>1, CertifiedNothing, CertifiedBy, NoBlocks
<1> QED BY <1>2 DEF handle_forge_event, handle_arriving_attestation, t

(* A process starts from the file and the head of its node.                *)
LEMMA CertInitial ==
  ASSUME NEW V, NEW head \in Chain, CarriedReached(V, head), NEW now \in 0 .. MaxRound,
         head.round <= now, NEW d, AttestableReached(V, d.attestable_payload)
  PROVE  /\ Certified(V, create_initial_state(head, now, d))
         /\ create_initial_state(head, now, d).latest_proposal = head
         /\ create_initial_state(head, now, d).current_round = now
<1> DEFINE elected == IF is_first_block_in_protocol(head) THEN head ELSE NoBlock
           u == fresh_state(head, TRUE, elected, now)
           t == may_load_attestable_data(u, d)
           s == may_initialise_with_latest_proposal_pqc(t)
           a == [proposal |-> head, round |-> head.prequorum]
<1>1. elected \in Parents \cup {NoBlock}
  BY ChainFacts DEF is_first_block_in_protocol
<1> HIDE DEF elected
<1>2. /\ Certified(V, u) /\ StateSound(u) /\ u.latest_proposal = head
      /\ u.current_round = now
  BY <1>1, CertFreshState, FreshState DEF fresh_state
<1> HIDE DEF u
<1>3. /\ Certified(V, t) /\ DOMAIN t = DOMAIN u /\ t.latest_proposal = head
      /\ t.current_round = now
  BY <1>2 DEF Certified, StateSound, may_load_attestable_data
<1>4. s = t \/ (head.prequorum # NoRound /\ s = [t EXCEPT !.attestable_payload = a])
  BY Zenon, <1>3 DEF may_initialise_with_latest_proposal_pqc
<1>5. head.prequorum # NoRound => AttestableReached(V, a)
  BY DEF CarriedReached, AttestableReached
<1> HIDE DEF t, s, a
<1>6. Certified(V, s) /\ s.latest_proposal = head /\ s.current_round = now
  BY <1>2, <1>3, <1>4, <1>5 DEF Certified, StateSound
<1> QED BY Zenon, <1>6 DEF create_initial_state, s, t, u, elected

(* The first event of a process.                                           *)
LEMMA CertBootstrap ==
  ASSUME NEW V, NEW b, NEW s, StateSound(s), Certified(V, s), NEW ops,
         CarriedReached(V, s.latest_proposal)
  PROVE  ResultCertified(V, compute_bootstrap_event(b, s, ops))
<1>1. /\ s.current_round \in 0 .. MaxRound /\ s.latest_proposal \in Chain
      /\ s.latest_proposal.round <= s.current_round
  BY DEF StateSound, Certified
<1>2. s.current_round = (s.current_round - 1) + 1
  BY <1>1, ChainFacts
<1>3. ResultCertified(V, step_New_head_proposal(s, s.latest_proposal, s.current_round))
  BY <1>1, CertStepProposal
<1>4. ResultCertified(V, end_of_round(s, s.current_round - 1,
                 round_proposer(b, s.current_level, s.current_round), ops))
  BY <1>1, <1>2, CertEndOfRound
<1> QED BY Zenon, <1>3, <1>4 DEF compute_bootstrap_event
=============================================================================
