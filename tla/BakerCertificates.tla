------------------------- MODULE BakerCertificates --------------------------
(***************************************************************************)
(* Whenever a baker holds an attestable payload its prequorum was reached, *)
(* and whenever it holds an elected block the quorum was.  CertInv is the  *)
(* inductive invariant: the same holds of the recorded file, of the blocks *)
(* that are queued or injected and of the events of the operation worker,  *)
(* and outside the Idle phase the latest proposal is the one of the        *)
(* current round.                                                          *)
(***************************************************************************)
EXTENDS BakerProofs, BakerCertificateSteps

-----------------------------------------------------------------------------
(* The steps of the system                                                 *)

(* Queues of tasks, extended, shortened or cancelled.                      *)
LEMMA QueuesReached ==
  ASSUME NEW V, NEW S, NEW q \in Seq(S), BlocksReached(V, q)
  PROVE  /\ \A more \in Seq(S) : BlocksReached(V, more) => BlocksReached(V, q \o more)
         /\ \A kept \in cancel_all_pending_tasks(q) : BlocksReached(V, kept)
         /\ q # << >> => BlocksReached(V, Tail(q))
<1>1. ASSUME NEW more \in Seq(S), BlocksReached(V, more)
      PROVE  BlocksReached(V, q \o more)
  <2> SUFFICES ASSUME NEW i \in 1 .. Len(q \o more), (q \o more)[i].kind = "block"
               PROVE  CarriedReached(V, (q \o more)[i].block)
    BY DEF BlocksReached
  <2>1. CASE i \in 1 .. Len(q)
    <3>1. (q \o more)[i] = q[i]
      BY <2>1
    <3> QED BY <2>1, <3>1 DEF BlocksReached
  <2>2. CASE i \notin 1 .. Len(q)
    <3>1. (q \o more)[i] = more[i - Len(q)] /\ i - Len(q) \in 1 .. Len(more)
      BY <2>2
    <3> QED BY <1>1, <3>1 DEF BlocksReached
  <2> QED BY <2>1, <2>2
<1>2. ASSUME NEW kept \in cancel_all_pending_tasks(q)
      PROVE  BlocksReached(V, kept)
  <2>1. \A i \in 1 .. Len(kept) : i \in 1 .. Len(q) /\ kept[i] = q[i]
    BY Cancelled
  <2> QED BY <2>1 DEF BlocksReached
<1>3. ASSUME q # << >>
      PROVE  BlocksReached(V, Tail(q))
  <2>1. \A i \in 1 .. Len(Tail(q)) : i + 1 \in 1 .. Len(q) /\ Tail(q)[i] = q[i + 1]
    BY <1>3
  <2> QED BY <2>1 DEF BlocksReached
<1> QED BY <1>1, <1>2, <1>3

(* A step in which votes are only added, one baker's memory and file       *)
(* change to certified ones, and nothing else that the invariant mentions. *)
LEMMA CertKept ==
  ASSUME SigningInv, CertInv, NEW b \in Detailed,
         \A kind \in {"preattestation", "attestation"} : votes[kind] \subseteq votes'[kind],
         NEW new, Certified(votes, new), st' = [st EXCEPT ![b] = new],
         NEW d, AttestableReached(votes, d.attestable_payload),
         disk' = [disk EXCEPT ![b] = d],
         NEW q, BlocksReached(votes, q), requests' = [requests EXCEPT ![b] = q],
         NEW kept, BlocksReached(votes, kept), tasks' = [tasks EXCEPT ![b] = kept],
         DOMAIN qc' = Detailed, \A c \in Detailed : qc'[c] \subseteq qc[c],
         UNCHANGED blocks
  PROVE  CertInv'
<1>1. /\ DOMAIN st = Detailed /\ DOMAIN disk = Detailed
      /\ DOMAIN requests = Detailed /\ DOMAIN tasks = Detailed
  BY DEF SigningInv, TypeOK
<1>2. /\ \A a : AttestableReached(votes, a) => AttestableReached(votes', a)
      /\ \A blk : CarriedReached(votes, blk) => CarriedReached(votes', blk)
      /\ \A e : EventReached(votes, e) => EventReached(votes', e)
      /\ \A x : BlocksReached(votes, x) => BlocksReached(votes', x)
      /\ \A s : Certified(votes, s) => Certified(votes', s)
  BY Zenon, ReachedStays
<1>3. ASSUME NEW c \in Detailed
      PROVE  /\ Certified(votes, st'[c])
             /\ AttestableReached(votes, disk'[c].attestable_payload)
             /\ BlocksReached(votes, requests'[c]) /\ BlocksReached(votes, tasks'[c])
             /\ \A e \in qc'[c] : EventReached(votes, e)
  <2>1. CASE c = b
    <3>1. st'[c] = new /\ disk'[c] = d /\ requests'[c] = q /\ tasks'[c] = kept
      BY <1>1, <2>1
    <3> QED BY <3>1 DEF CertInv
  <2>2. CASE c # b
    <3>1. /\ st'[c] = st[c] /\ disk'[c] = disk[c] /\ requests'[c] = requests[c]
          /\ tasks'[c] = tasks[c]
      BY <1>1, <2>2
    <3> QED BY <3>1 DEF CertInv
  <2> QED BY <2>1, <2>2
<1> QED BY Zenon, <1>2, <1>3 DEF CertInv

(* Steps that leave the automata and their files alone.                    *)
LEMMA CertWorkers ==
  ASSUME SigningInv, CertInv, UNCHANGED <<st, disk>>,
         \A kind \in {"preattestation", "attestation"} : votes[kind] \subseteq votes'[kind],
         \A c \in Detailed : /\ BlocksReached(votes, requests'[c])
                             /\ BlocksReached(votes, tasks'[c])
                             /\ \A e \in qc'[c] : EventReached(votes, e),
         DOMAIN qc' = Detailed, \A blk \in blocks' : CarriedReached(votes, blk)
  PROVE  CertInv'
<1>1. /\ \A a : AttestableReached(votes, a) => AttestableReached(votes', a)
      /\ \A blk : CarriedReached(votes, blk) => CarriedReached(votes', blk)
      /\ \A e : EventReached(votes, e) => EventReached(votes', e)
      /\ \A x : BlocksReached(votes, x) => BlocksReached(votes', x)
      /\ \A s : Certified(votes, s) => Certified(votes', s)
  BY ReachedStays
<1> QED BY <1>1 DEF CertInv

(* Sending votes only adds to votes.                                       *)
LEMMA VotesGrow ==
  ASSUME TypeOK, NEW b, NEW vs, votes' = inject_consensus_votes(b, vs)
  PROVE  \A kind \in {"preattestation", "attestation"} : votes[kind] \subseteq votes'[kind]
<1>1. DOMAIN votes = {"preattestation", "attestation"}
  BY DEF TypeOK
<1> QED BY <1>1 DEF inject_consensus_votes

(* What the file holds after a step.                                       *)
LEMMA FileReached ==
  ASSUME NEW V, NEW prev, NEW new, Certified(V, new), NEW d,
         AttestableReached(V, d.attestable_payload),
         NEW d1 \in may_record_new_state(prev, new, d)
  PROVE  AttestableReached(V, d1.attestable_payload)
<1>1. state_data(new).attestable_payload = new.attestable_payload
  BY DEF state_data
<1>2. d1 = d \/ d1 = state_data(new)
  BY DEF may_record_new_state
<1> QED BY <1>1, <1>2 DEF Certified

(* One iteration of automaton_loop                                         *)
LEMMA LoopCertifies ==
  ASSUME SigningInv, CertInv, NoBranchRefused, NEW b \in Detailed, NEW res,
         NEW more, Handled(b, st[b], res, more), ResultCertified(votes, res),
         NEW queue \in Seq(TasksOf(b)), BlocksReached(votes, queue),
         automaton_loop(b, res, queue), UNCHANGED blocks,
         DOMAIN qc' = Detailed, \A c \in Detailed : qc'[c] \subseteq qc[c]
  PROVE  CertInv'
<1>1. PICK new :
        /\ new = res.state \/ (StateRecorder = "Filesystem" /\ new = res.returned)
        /\ st' = [st EXCEPT ![b] = new]
        /\ \E d \in may_record_new_state(st[b], new, disk[b]) :
             disk' = [disk EXCEPT ![b] = d]
  BY Zenon DEF automaton_loop
<1>2. Certified(votes, new)
  BY <1>1 DEF NoBranchRefused, ResultCertified
<1>3. PICK d \in may_record_new_state(st[b], new, disk[b]) :
        disk' = [disk EXCEPT ![b] = d]
  BY Zenon, <1>1
<1>4. AttestableReached(votes, d.attestable_payload)
  BY <1>2, <1>3, FileReached DEF CertInv
<1>5. PICK kept : /\ tasks' = [tasks EXCEPT ![b] = kept]
                  /\ kept = queue \/ kept \in cancel_all_pending_tasks(queue)
  BY Zenon DEF automaton_loop, perform_action
<1>6. BlocksReached(votes, kept)
  BY Zenon, <1>5, QueuesReached
<1> DEFINE q == requests[b] \o res.action.request
<1>7. requests' = [requests EXCEPT ![b] = q] /\ votes' = inject_consensus_votes(b, res.action.inject)
  BY DEF automaton_loop, perform_action
<1>8. BlocksReached(votes, q)
  <2>1. /\ requests[b] \in Seq(TasksOf(b)) /\ BlocksReached(votes, requests[b])
        /\ res.action.request \in Seq(TasksOf(b)) /\ BlocksReached(votes, res.action.request)
    BY DEF SigningInv, TypeOK, CertInv, Handled, ResultCertified
  <2> QED BY ZenonT(30), <2>1, QueuesReached
<1>9. \A kind \in {"preattestation", "attestation"} : votes[kind] \subseteq votes'[kind]
  BY <1>7, VotesGrow DEF SigningInv
<1> HIDE DEF q
<1> QED BY ZenonT(30), <1>1, <1>2, <1>3, <1>4, <1>5, <1>6, <1>7, <1>8, <1>9, CertKept

(* Blocks that a baker is handed carry prequorums that were reached.       *)
LEMMA ProposedReached ==
  ASSUME CertInv, NEW blk, Proposed(blk)
  PROVE  CarriedReached(votes, blk)
BY DEF CertInv, Proposed, ValidBlock, HasQuorum, CarriedReached, Reached

(* The clock shows the round of the block or a later one.                  *)
LEMMA ClockNotBehind ==
  ASSUME TypeOK, NEW b, NEW blk \in Chain
  PROVE  /\ \A now \in round_of_clock(b, blk) : blk.round <= now
         /\ \A now \in wait_next_event(b, blk) : blk.round <= now
<1>1. blk.round \in 0 .. MaxRound
  BY Zenon, ChainFacts
<1> QED BY <1>1, ChainFacts DEF round_of_clock, wait_next_event

(* New_valid_proposal and New_head_proposal.                               *)
LEMMA ProposalCertifies ==
  ASSUME SigningInv, CertInv, NoBranchRefused, NEW b \in Detailed,
         NEW blk \in Proposals \cup blocks,
         New_valid_proposal(b, blk) \/ New_head_proposal(b, blk)
  PROVE  CertInv'
<1>1. /\ blk \in Chain /\ wait_next_event(b, blk) \subseteq 0 .. MaxRound
      /\ \A now \in wait_next_event(b, blk) : blk.round <= now
      /\ StateSound(st[b]) /\ tasks[b] \in Seq(TasksOf(b))
  BY ZenonT(30), InChain, ClockRounds, ClockNotBehind DEF SigningInv, TypeOK
<1>2. PICK now \in 0 .. MaxRound :
        /\ blk.round <= now
        /\ \/ automaton_loop(b, step_New_valid_proposal(st[b], blk, now), tasks[b])
           \/ automaton_loop(b, step_New_head_proposal(st[b], blk, now), tasks[b])
  BY <1>1 DEF New_valid_proposal, New_head_proposal
<1>3. UNCHANGED <<qc, blocks>> /\ CarriedReached(votes, blk)
  BY ProposedReached DEF New_valid_proposal, New_head_proposal
<1>4. Certified(votes, st[b]) /\ BlocksReached(votes, tasks[b])
      /\ DOMAIN qc' = Detailed /\ \A c \in Detailed : qc'[c] \subseteq qc[c]
  BY Zenon, <1>3 DEF CertInv
<1>5. /\ Handled(b, st[b], step_New_valid_proposal(st[b], blk, now), {})
      /\ Handled(b, st[b], step_New_head_proposal(st[b], blk, now), {})
  BY Zenon, <1>1, StepProposal
<1>6. /\ ResultCertified(votes, step_New_valid_proposal(st[b], blk, now))
      /\ ResultCertified(votes, step_New_head_proposal(st[b], blk, now))
  BY Zenon, <1>1, <1>2, <1>3, <1>4, CertStepProposal
<1> QED BY ZenonT(30), <1>1, <1>2, <1>3, <1>4, <1>5, <1>6, LoopCertifies

(* End_of_round.                                                           *)
LEMMA EndOfRoundCertifies ==
  ASSUME SigningInv, CertInv, NoBranchRefused, NEW b \in Detailed, NEW ops \in Ops,
         End_of_round(b, ops)
  PROVE  CertInv'
<1> DEFINE ending == st[b].current_round
           own == round_proposer(b, st[b].current_level, ending + 1)
           res == end_of_round(st[b], ending, own, ops)
<1>1. /\ StateSound(st[b]) /\ tasks[b] \in Seq(TasksOf(b))
      /\ Certified(votes, st[b]) /\ BlocksReached(votes, tasks[b])
  BY Zenon DEF SigningInv, TypeOK, CertInv
<1> HIDE DEF own, res
<1>2. ending + 1 \in 0 .. MaxRound
  <2>1. st[b].current_round < MaxRound
    BY DEF End_of_round
  <2> QED BY <1>1, <2>1, ChainFacts DEF StateSound
<1>3. st[b].latest_proposal.round <= ending + 1
  BY <1>1, ChainFacts DEF Certified, StateSound
<1>4. Handled(b, st[b], res, {})
  BY Zenon, <1>1, <1>2, StepEndOfRound DEF res, own
<1>5. ResultCertified(votes, res)
  BY Zenon, <1>1, <1>2, <1>3, CertEndOfRound DEF res, own
<1>6. automaton_loop(b, res, tasks[b]) /\ UNCHANGED <<qc, blocks>>
  BY Zenon DEF End_of_round, res, own
<1>7. DOMAIN qc' = Detailed /\ \A c \in Detailed : qc'[c] \subseteq qc[c]
  BY Zenon, <1>6 DEF CertInv
<1> QED BY ZenonT(30), <1>1, <1>4, <1>5, <1>6, <1>7, LoopCertifies

(* Time_to_prepare_next_level_block.                                       *)
LEMMA NextLevelBlockCertifies ==
  ASSUME SigningInv, CertInv, NoBranchRefused, NEW b \in Detailed,
         NEW r \in 0 .. MaxRound, NEW ops \in Ops,
         Time_to_prepare_next_level_block(b, r, ops)
  PROVE  CertInv'
<1> DEFINE res == time_to_prepare_next_level_block(st[b], r, ops)
<1>1. /\ StateSound(st[b]) /\ tasks[b] \in Seq(TasksOf(b))
      /\ Certified(votes, st[b]) /\ BlocksReached(votes, tasks[b])
  BY DEF SigningInv, TypeOK, CertInv
<1>2. Handled(b, st[b], res, {})
  BY <1>1, StepNextLevelBlock DEF Time_to_prepare_next_level_block,
       compute_next_potential_baking_time_at_next_level
<1>3. ResultCertified(votes, res)
  BY <1>1, CertNextLevelBlock
<1>4. automaton_loop(b, res, tasks[b]) /\ UNCHANGED <<qc, blocks>>
  BY DEF Time_to_prepare_next_level_block
<1>5. DOMAIN qc' = Detailed /\ \A c \in Detailed : qc'[c] \subseteq qc[c]
  BY <1>4 DEF CertInv
<1> HIDE DEF res
<1> QED BY ZenonT(30), <1>1, <1>2, <1>3, <1>4, <1>5, LoopCertifies

(* Prequorum_reached and Quorum_reached.                                   *)
LEMMA QuorumEventCertifies ==
  ASSUME SigningInv, CertInv, NoBranchRefused, NEW b \in Detailed, NEW e \in qc[b],
         Prequorum_reached(b, e) \/ Quorum_reached(b, e)
  PROVE  CertInv'
<1>1. /\ StateSound(st[b]) /\ tasks[b] \in Seq(TasksOf(b))
      /\ Certified(votes, st[b]) /\ BlocksReached(votes, tasks[b])
      /\ EventReached(votes, e)
  BY Zenon DEF SigningInv, TypeOK, CertInv
<1>2. /\ UNCHANGED blocks /\ qc' = [qc EXCEPT ![b] = @ \ {e}]
      /\ DOMAIN qc' = Detailed /\ \A c \in Detailed : qc'[c] \subseteq qc[c]
  BY Zenon DEF Prequorum_reached, Quorum_reached, CertInv
<1>3. CASE Prequorum_reached(b, e)
  <2> DEFINE res == step_Prequorum_reached(st[b], e.candidate)
  <2>1. Reached(votes, "preattestation", e.candidate.round, e.candidate.payload)
    BY <1>1, <1>3 DEF Prequorum_reached, EventReached
  <2>2. Handled(b, st[b], res, {}) /\ ResultCertified(votes, res)
    BY Zenon, <1>1, <2>1, StepPrequorum, CertPrequorum
  <2>3. automaton_loop(b, res, tasks[b])
    BY Zenon, <1>3 DEF Prequorum_reached
  <2> HIDE DEF res
  <2> QED BY ZenonT(30), <1>1, <1>2, <2>2, <2>3, LoopCertifies
<1>4. CASE Quorum_reached(b, e)
  <2> DEFINE res == step_Quorum_reached(st[b], e.candidate)
  <2>1. QuorumReached(votes, e.candidate)
    BY <1>1, <1>4 DEF Quorum_reached, EventReached, QuorumReached
  <2>2. Handled(b, st[b], res, {}) /\ ResultCertified(votes, res)
    BY Zenon, <1>1, <2>1, StepQuorum, CertQuorum
  <2>3. automaton_loop(b, res, tasks[b])
    BY Zenon, <1>4 DEF Quorum_reached
  <2> HIDE DEF res
  <2> QED BY ZenonT(30), <1>1, <1>2, <2>2, <2>3, LoopCertifies
<1> QED BY Zenon, <1>3, <1>4

(* New_forge_event.                                                        *)
LEMMA ForgeEventCertifies ==
  ASSUME SigningInv, CertInv, NoBranchRefused, NEW b \in Detailed, New_forge_event(b)
  PROVE  CertInv'
<1> DEFINE v == Head(tasks[b])
           queue == Tail(tasks[b])
           res == handle_forge_event(st[b], v)
           more == {v}
<1>1. /\ StateSound(st[b]) /\ tasks[b] \in Seq(TasksOf(b)) /\ tasks[b] # << >>
      /\ Certified(votes, st[b]) /\ BlocksReached(votes, tasks[b])
  BY DEF SigningInv, TypeOK, New_forge_event, CertInv
<1>2. v \in TasksOf(b) /\ v.kind # "block"
  BY <1>1 DEF New_forge_event
<1>3. v \in VoteTasks
  BY Zenon, <1>2 DEF TasksOf
<1>4. Handled(b, st[b], res, more) /\ ResultCertified(votes, res)
  BY ZenonT(30), <1>1, <1>3, StepForgeEvent, CertForgeEvent
<1>5. queue \in Seq(TasksOf(b)) /\ BlocksReached(votes, queue)
  <2>1. queue \in Seq(TasksOf(b))
    BY <1>1
  <2> QED BY <1>1, <2>1, QueuesReached
<1>6. automaton_loop(b, res, queue) /\ UNCHANGED <<qc, blocks>>
  BY Zenon DEF New_forge_event
<1>7. DOMAIN qc' = Detailed /\ \A c \in Detailed : qc'[c] \subseteq qc[c]
  BY Zenon, <1>6 DEF CertInv
<1> HIDE DEF res, queue, v, more
<1> QED BY ZenonT(30), <1>4, <1>5, <1>6, <1>7, LoopCertifies

(* handle_forge_block and task_fails take the head of the queue; a block   *)
(* that is injected was certified while it was waiting.                    *)
LEMMA TaskTakenCertifies ==
  ASSUME SigningInv, CertInv, NEW b \in Detailed, handle_forge_block(b) \/ task_fails(b)
  PROVE  CertInv'
<1>1. /\ UNCHANGED <<st, disk, requests, qc, votes>>
      /\ tasks' = [tasks EXCEPT ![b] = Tail(@)] /\ tasks[b] # << >>
      /\ tasks[b] \in Seq(TasksOf(b)) /\ DOMAIN tasks = Detailed
  BY Zenon DEF handle_forge_block, task_fails, SigningInv, TypeOK
<1>2. \A c \in Detailed : BlocksReached(votes, tasks'[c])
  <2>1. BlocksReached(votes, Tail(tasks[b]))
    BY <1>1, QueuesReached DEF CertInv
  <2> QED BY Zenon, <1>1, <2>1 DEF CertInv
<1>3. \A blk \in blocks' : CarriedReached(votes, blk)
  <2>1. CASE task_fails(b)
    BY Zenon, <2>1 DEF task_fails, CertInv
  <2>2. CASE handle_forge_block(b)
    <3>1. blocks' \subseteq blocks \cup {Head(tasks[b]).block} /\ Head(tasks[b]).kind = "block"
      BY <2>2 DEF handle_forge_block
    <3>2. Head(tasks[b]) = tasks[b][1] /\ 1 \in 1 .. Len(tasks[b])
      BY <1>1
    <3>3. CarriedReached(votes, Head(tasks[b]).block)
      BY <3>1, <3>2 DEF CertInv, BlocksReached
    <3> QED BY ZenonT(30), <3>1, <3>3 DEF CertInv
  <2> QED BY Zenon, <2>1, <2>2
<1>4. \A kind \in {"preattestation", "attestation"} : votes[kind] \subseteq votes'[kind]
  BY Zenon, <1>1
<1>5. /\ DOMAIN qc' = Detailed
      /\ \A c \in Detailed : /\ BlocksReached(votes, requests'[c])
                             /\ BlocksReached(votes, tasks'[c])
                             /\ \A e \in qc'[c] : EventReached(votes, e)
  BY Zenon, <1>1, <1>2 DEF CertInv
<1> QED BY Zenon, <1>1, <1>3, <1>4, <1>5, CertWorkers

(* process_request moves a task from one queue to the other, or drops it.  *)
LEMMA RequestCertifies ==
  ASSUME SigningInv, CertInv, NEW b \in Detailed, process_request(b)
  PROVE  CertInv'
<1> DEFINE task == Head(requests[b])
<1>1. /\ UNCHANGED <<st, disk, qc, votes, blocks>>
      /\ requests' = [requests EXCEPT ![b] = Tail(@)] /\ requests[b] # << >>
      /\ tasks' = tasks \/ tasks' = [tasks EXCEPT ![b] = Append(@, task)]
      /\ requests[b] \in Seq(TasksOf(b)) /\ tasks[b] \in Seq(TasksOf(b))
      /\ DOMAIN tasks = Detailed /\ DOMAIN requests = Detailed
  BY Zenon DEF process_request, authorized_consensus_votes, SigningInv, TypeOK
<1>2. BlocksReached(votes, Tail(requests[b]))
  BY Zenon, <1>1, QueuesReached DEF CertInv
<1>3. BlocksReached(votes, Append(tasks[b], task))
  <2>1. /\ task = requests[b][1] /\ 1 \in 1 .. Len(requests[b])
        /\ BlocksReached(votes, requests[b]) /\ BlocksReached(votes, tasks[b])
    BY <1>1 DEF CertInv
  <2>2. task.kind = "block" => CarriedReached(votes, task.block)
    BY <2>1 DEF BlocksReached
  <2> HIDE DEF task
  <2>3. /\ Len(Append(tasks[b], task)) = Len(tasks[b]) + 1
        /\ Append(tasks[b], task)[Len(tasks[b]) + 1] = task
        /\ \A i \in 1 .. Len(tasks[b]) : Append(tasks[b], task)[i] = tasks[b][i]
    BY <1>1
  <2>4. \A i \in 1 .. Len(tasks[b]) + 1 : i \in 1 .. Len(tasks[b]) \/ i = Len(tasks[b]) + 1
    BY <1>1
  <2> QED BY Zenon, <2>1, <2>2, <2>3, <2>4 DEF BlocksReached
<1> HIDE DEF task
<1>4. /\ DOMAIN qc' = Detailed
      /\ \A c \in Detailed : /\ BlocksReached(votes, requests'[c])
                             /\ BlocksReached(votes, tasks'[c])
                             /\ \A e \in qc'[c] : EventReached(votes, e)
  BY Zenon, <1>1, <1>2, <1>3 DEF CertInv
<1>5. /\ \A kind \in {"preattestation", "attestation"} : votes[kind] \subseteq votes'[kind]
      /\ \A blk \in blocks' : CarriedReached(votes, blk)
  BY <1>1 DEF CertInv
<1> QED BY Zenon, <1>1, <1>4, <1>5, CertWorkers

(* update_monitoring: the operation worker has counted the votes.          *)
LEMMA MonitoringCertifies ==
  ASSUME SigningInv, CertInv, NEW b \in Detailed, update_monitoring(b)
  PROVE  CertInv'
<1>1. PICK w \in watched[b] :
        /\ IF w.kind = "prequorum" THEN Prequorum(w.candidate) ELSE Quorum(w.candidate)
        /\ qc' = [qc EXCEPT ![b] = @ \cup {w}]
  BY Zenon DEF update_monitoring
<1>2. UNCHANGED <<st, disk, requests, tasks, votes, blocks>>
  BY DEF update_monitoring
<1>3. EventReached(votes, w)
  BY <1>1 DEF EventReached, Reached, Prequorum, Quorum, HasQuorum
<1>4. /\ DOMAIN qc' = Detailed
      /\ \A c \in Detailed : /\ BlocksReached(votes, requests'[c])
                             /\ BlocksReached(votes, tasks'[c])
                             /\ \A e \in qc'[c] : EventReached(votes, e)
  BY <1>1, <1>2, <1>3 DEF CertInv
<1>5. /\ \A kind \in {"preattestation", "attestation"} : votes[kind] \subseteq votes'[kind]
      /\ \A blk \in blocks' : CarriedReached(votes, blk)
  BY <1>2 DEF CertInv
<1> QED BY <1>2, <1>4, <1>5, CertWorkers

(* A crash and a new process, which may have sent votes in its last step.  *)
LEMMA RunCertifies ==
  ASSUME SigningInv, CertInv, NEW b \in Detailed, NEW head \in Proposals \cup blocks,
         run(b, head, disk[b]), UNCHANGED blocks,
         \A kind \in {"preattestation", "attestation"} : votes[kind] \subseteq votes'[kind]
  PROVE  CertInv'
<1>1. head \in Chain /\ CarriedReached(votes, head)
  BY InChain, ProposedReached DEF SigningInv, run
<1>2. PICK now \in round_of_clock(b, head), ops \in Ops :
        LET init == create_initial_state(head, now, disk[b])
            res == compute_bootstrap_event(b, init, ops)
        IN  /\ st' = [st EXCEPT ![b] = res.state]
            /\ requests' = [requests EXCEPT ![b] = res.action.request]
            /\ \E d1 \in may_record_new_state(init, res.state, disk[b]) :
                 disk' = [disk EXCEPT ![b] = d1]
  BY Zenon DEF run
<1> DEFINE init == create_initial_state(head, now, disk[b])
           res == compute_bootstrap_event(b, init, ops)
<1>3. now \in 0 .. MaxRound /\ head.round <= now
  BY <1>1, ClockRounds, ClockNotBehind DEF SigningInv
<1>4. /\ StateSound(init) /\ Certified(votes, init) /\ init.latest_proposal = head
  <2>1. FileSound(disk[b]) /\ AttestableReached(votes, disk[b].attestable_payload)
    BY Zenon DEF SigningInv, TypeOK, CertInv
  <2>2. StateSound(init)
    BY Zenon, <1>1, <1>3, <2>1, InitialState
  <2>3. Certified(votes, init) /\ init.latest_proposal = head
    BY <1>1, <1>3, <2>1, CertInitial
  <2> QED BY Zenon, <2>2, <2>3
<1> HIDE DEF init
<1>5. ResultCertified(votes, res)
  BY Zenon, <1>1, <1>4, CertBootstrap
<1>6. /\ st' = [st EXCEPT ![b] = res.state]
      /\ requests' = [requests EXCEPT ![b] = res.action.request]
      /\ \E d1 \in may_record_new_state(init, res.state, disk[b]) :
           disk' = [disk EXCEPT ![b] = d1]
  BY ZenonT(30), <1>2 DEF init
<1> HIDE DEF res
<1>7. Certified(votes, res.state) /\ BlocksReached(votes, res.action.request)
  BY Zenon, <1>5 DEF ResultCertified
<1>8. PICK d1 \in may_record_new_state(init, res.state, disk[b]) :
        disk' = [disk EXCEPT ![b] = d1]
  BY ZenonT(30), <1>6
<1>9. AttestableReached(votes, d1.attestable_payload)
  BY Zenon, <1>7, <1>8, FileReached DEF CertInv
<1>10. tasks' = [tasks EXCEPT ![b] = << >>] /\ BlocksReached(votes, << >>)
  BY ZenonT(30), NoBlocks DEF run
<1>11. DOMAIN qc' = Detailed /\ \A c \in Detailed : qc'[c] \subseteq qc[c]
  BY ZenonT(30) DEF run, CertInv
<1> DEFINE new == res.state
           q == res.action.request
           kept == << >>
<1>12. /\ Certified(votes, new) /\ st' = [st EXCEPT ![b] = new]
       /\ BlocksReached(votes, q) /\ requests' = [requests EXCEPT ![b] = q]
       /\ BlocksReached(votes, kept) /\ tasks' = [tasks EXCEPT ![b] = kept]
  BY Zenon, <1>6, <1>7, <1>10
<1> HIDE DEF new, q, kept
<1> QED BY ZenonT(30), <1>8, <1>9, <1>11, <1>12, CertKept

(* The initial states.                                                     *)
LEMMA CertInit == Init => CertInv
<1> SUFFICES ASSUME Init PROVE CertInv
  OBVIOUS
<1>1. PICK head \in Parents :
        st = [b \in Detailed |-> create_initial_state(head, head.round, NoData)]
  BY DEF Init
<1>2. head \in Chain /\ head.round \in 0 .. MaxRound /\ head.prequorum = NoRound
  BY Zenon, ChainFacts DEF Chain
<1>3. CarriedReached(votes, head) /\ AttestableReached(votes, NoData.attestable_payload)
  BY Zenon, <1>2 DEF CarriedReached, AttestableReached, NoData
<1>4. Certified(votes, create_initial_state(head, head.round, NoData))
  <2>1. head.round <= head.round
    BY <1>2, ChainFacts
  <2> QED BY ZenonT(30), <1>2, <1>3, <2>1, CertInitial
<1>5. \A b \in Detailed : Certified(votes, st[b])
  BY Zenon, <1>1, <1>4
<1>6. \A blk \in blocks : CarriedReached(votes, blk)
  BY Zenon, ChainFacts DEF Init, CarriedReached, Chain
<1>7. \A b \in Detailed : BlocksReached(votes, requests[b]) /\ BlocksReached(votes, tasks[b])
  BY Zenon, NoBlocks DEF Init
<1>8. \A b \in Detailed : AttestableReached(votes, disk[b].attestable_payload)
  BY <1>3 DEF Init
<1>9. DOMAIN qc = Detailed /\ \A b \in Detailed : qc[b] = {}
  BY DEF Init
<1> QED BY Zenon, <1>5, <1>6, <1>7, <1>8, <1>9 DEF CertInv

(* The steps of detailed bakers, and of peers, which only add votes.       *)
LEMMA CertNext ==
  ASSUME SigningInv, CertInv, NoBranchRefused, [Next]_allvars
  PROVE  CertInv'
<1>1. ASSUME NEW b \in Detailed, BakerStep(b)
      PROVE  CertInv'
  BY Zenon, <1>1, ProposalCertifies, EndOfRoundCertifies, NextLevelBlockCertifies,
     QuorumEventCertifies, ForgeEventCertifies, TaskTakenCertifies DEF BakerStep
<1>2. ASSUME NEW b \in Detailed, WorkerStep(b)
      PROVE  CertInv'
  BY Zenon, <1>2, RequestCertifies, TaskTakenCertifies, MonitoringCertifies DEF WorkerStep
<1>3. ASSUME NEW b \in Detailed, CrashStep(b)
      PROVE  CertInv'
  <2>1. ASSUME NEW head \in Proposals \cup blocks, Restart(b, head)
        PROVE  CertInv'
    <3>1. /\ run(b, head, disk[b]) /\ UNCHANGED blocks
          /\ \A kind \in {"preattestation", "attestation"} : votes[kind] \subseteq votes'[kind]
      BY Zenon, <2>1 DEF Restart
    <3> QED BY Zenon, <3>1, RunCertifies
  <2>2. ASSUME NEW e \in qc[b], NEW head \in Proposals \cup blocks, CrashInStep(b, e, head)
        PROVE  CertInv'
    <3>1. /\ run(b, head, disk[b]) /\ UNCHANGED blocks
          /\ \A kind \in {"preattestation", "attestation"} : votes[kind] \subseteq votes'[kind]
      BY Zenon, <2>2, VotesGrow DEF CrashInStep, SigningInv
    <3> QED BY Zenon, <3>1, RunCertifies
  <2> QED BY Zenon, <1>3, <2>1, <2>2 DEF CrashStep
<1>4. ASSUME NEW b \in Peers, PeerStep(b)
      PROVE  CertInv'
  <2>1. /\ UNCHANGED <<st, disk, requests, tasks, qc, blocks>>
        /\ \A kind \in {"preattestation", "attestation"} : votes[kind] \subseteq votes'[kind]
    BY ZenonT(30), <1>4 DEF PeerStep, PeerEnterRound, PeerPreattest, PeerAttest, memory, vars,
         SigningInv, TypeOK
  <2>2. \A c \in Detailed : /\ BlocksReached(votes, requests'[c])
                            /\ BlocksReached(votes, tasks'[c])
                            /\ \A e \in qc'[c] : EventReached(votes, e)
    BY Zenon, <2>1 DEF CertInv
  <2>3. DOMAIN qc' = Detailed /\ \A blk \in blocks' : CarriedReached(votes, blk)
    BY <2>1 DEF CertInv
  <2> QED BY Zenon, <2>1, <2>2, <2>3, CertWorkers
<1>5. ASSUME UNCHANGED allvars
      PROVE  CertInv'
  BY <1>5 DEF allvars, vars, memory, CertInv
<1> QED BY Zenon, <1>1, <1>2, <1>3, <1>4, <1>5 DEF Next, DetailedStep

(* What a baker holds as attestable reached its prequorum, and what it     *)
(* holds as elected its quorum: for every number of bakers and rounds,     *)
(* every quorum system and every adversity of module Baker, with forks of  *)
(* the predecessor when nothing is recorded, and with records on one       *)
(* branch.                                                                 *)
THEOREM Certificates ==
  ASSUME NoBranchRefused
  PROVE  Spec => []CertificatesReached
<1>1. SigningInv /\ CertInv /\ [Next]_allvars => CertInv'
  BY Zenon, CertNext
<1>2. CertInv => CertificatesReached
  <2> SUFFICES ASSUME CertInv, NEW b \in Detailed
               PROVE  /\ st[b].attestable_payload # NoAttestable =>
                           HasQuorum("preattestation", st[b].attestable_payload.round,
                                     st[b].attestable_payload.proposal.payload)
                      /\ st[b].elected_block \notin Parents \cup {NoBlock} =>
                           Quorum(st[b].elected_block)
    BY DEF CertificatesReached
  <2>1. Certified(votes, st[b])
    BY DEF CertInv
  <2> QED BY <2>1 DEF Certified, AttestableReached, QuorumReached, Reached, Quorum, HasQuorum
<1> QED BY <1>1, <1>2, CertInit, Signing, PTL DEF Spec
=============================================================================
