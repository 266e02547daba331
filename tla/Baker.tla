------------------------------- MODULE Baker --------------------------------
(***************************************************************************)
(* One baker process per honest baker: the automaton loop of               *)
(* baking_scheduling.ml around the transition function of StateTransitions *)
(* with the workers it talks to (forge worker, operation worker), the      *)
(* files it keeps (highwatermarks, recorded state) and its node.           *)
(*                                                                         *)
(* The node and the network are external and over-approximated: a block or *)
(* a vote, once injected, can reach any baker at any later time, any       *)
(* number of times, in any order, or never.  Each action is parameterised  *)
(* by the baker that takes it; modules that EXTEND this one close the      *)
(* system with an environment.                                             *)
(***************************************************************************)
EXTENDS StateTransitions, FiniteSets

CONSTANTS
  Bakers,          \* one delegate each, with rights at every level
  Byzantine,       \* bakers that do not run this code
  Detailed,        \* honest bakers whose code is modelled step by step
  Quorums,         \* sets of bakers whose power reaches consensus_threshold
  CommitteeSize,   \* consensus_committee_size
  SlotOwner,       \* SlotOwner[level][slot]: the owner of a slot
  Ops,             \* contents a fresh block may have
  MaxRound,        \* bound on rounds
  MaxLevel,        \* bound on levels
  MaxPending,      \* bound on the request stream of the forge worker
  StateRecorder,   \* "Filesystem" or "Memory" (config.state_recorder)
  Adversity        \* which timing and crash assumptions are dropped

ASSUME RecorderAssumption == StateRecorder \in {"Filesystem", "Memory"}

(* "Crash": the process may die between two steps and start again.         *)
(* "LateSigner": signatures may come back after the round they are for.    *)
(* "CrashInStep": the process may die after a step's messages have left    *)
(*    and before its state is recorded.                                    *)
(* "RestartBehind": the node may come back with a head below the level the *)
(*    baker had reached (it validated a block but had not applied it).     *)
(* "SignerFails": forging or signing may fail.                             *)
ASSUME AdversityAssumption ==
  Adversity \subseteq {"Crash", "LateSigner", "CrashInStep", "RestartBehind",
                       "SignerFails"}

Honest == Bakers \ Byzantine

VARIABLES
  st,        \* Baking_state.t of each honest baker
  requests,  \* request stream of the forge worker
  tasks,     \* signing queue of its delegate, after the results it has ready
  hwm,       \* highwatermarks file
  disk,      \* recorded state file
  watched,   \* proposal_watched of the operation worker
  qc,        \* qc_event_stream of the operation worker
  votes,     \* votes[kind]: <<b, round, payload>> injected by honest bakers
  blocks     \* transition blocks, and blocks injected by detailed bakers

memory == <<st, requests, tasks, watched, qc>>
vars == <<memory, hwm, disk, votes, blocks>>

-----------------------------------------------------------------------------
(* Slots and quorums                                                       *)

slot_owner(level, round) == SlotOwner[level][round % CommitteeSize]

round_proposer(b, level, round) == slot_owner(level, round) = b

(* Votes of Byzantine bakers are available from the start.  As in          *)
(* is_valid_consensus_content a vote is matched by round and payload; the  *)
(* payload, which commits to the predecessor, fixes the level.             *)
HasQuorum(kind, round, payload) ==
  \E Q \in Quorums : \A b \in Q \cap Honest : <<b, round, payload>> \in votes[kind]

Prequorum(blk) == HasQuorum("preattestation", blk.round, blk.payload)
Quorum(blk) == HasQuorum("attestation", blk.round, blk.payload)

inject_consensus_votes(b, vs) ==
  [kind \in DOMAIN votes |->
     votes[kind] \cup
       { <<b, v.round, v.payload>> : v \in { w \in vs : w.kind = kind } }]

(* What the protocol demands of a block besides its slot: a payload round  *)
(* not above the round, and preattestations only for its own payload, from *)
(* an earlier round, with enough power.                                    *)
ValidBlock(blk) ==
  /\ blk.payload.round <= blk.round
  /\ \/ blk.prequorum = NoRound
     \/ /\ blk.prequorum < blk.round
        /\ HasQuorum("preattestation", blk.prequorum, blk.payload)

(* Blocks a node may hand to its baker.  The owner of a slot that is not a *)
(* detailed baker may propose any valid block, and several of them.        *)
Proposed(blk) ==
  \/ blk \in blocks
  \/ slot_owner(blk.level, blk.round) \notin Detailed /\ ValidBlock(blk)

-----------------------------------------------------------------------------
(* Highwatermarks: per kind, the last level and round signed for.          *)

NoMark == [level |-> 0, round |-> NoRound]

(* Mutant: the last round signed for may be signed again.                  *)
may_sign_again(mark, level, round) ==
  \/ mark.level < level
  \/ mark.level = level /\ mark.round <= round

may_sign(mark, level, round) ==
  \/ mark.level < level
  \/ mark.level = level /\ mark.round < round

record(mark, level, round) ==
  IF may_sign(mark, level, round)
  THEN [level |-> level, round |-> round]
  ELSE mark

-----------------------------------------------------------------------------
(* The recorded state                                                      *)

NoData == [level |-> 0, locked_round |-> NoLock,
           attestable_payload |-> NoAttestable]

state_data(s) == [level |-> s.current_level,
                  locked_round |-> s.locked_round,
                  attestable_payload |-> s.attestable_payload]

is_new_state_consistent(prev, new) ==
  \/ new.current_level > prev.current_level
  \/ /\ new.current_level = prev.current_level
     /\ new.locked_round.round >= prev.locked_round.round
     /\ \/ prev.attestable_payload = NoAttestable
        \/ /\ new.attestable_payload # NoAttestable
           /\ new.attestable_payload.proposal.round
                >= prev.attestable_payload.proposal.round

(* Mutant: records the state before the step.                              *)
may_record_previous_state(prev, new, d) ==
  IF StateRecorder = "Memory" \/ ~is_new_state_consistent(prev, new)
  THEN {d}
  ELSE {state_data(prev)}

(* The files a step may leave.  An inconsistent state is not written.  The *)
(* code skips the write when the fields are physically equal; equal values *)
(* may or may not be shared, so both outcomes are possible for them.       *)
may_record_new_state(prev, new, d) ==
  IF StateRecorder = "Memory" \/ ~is_new_state_consistent(prev, new)
  THEN {d}
  ELSE IF state_data(prev) = state_data(new)
  THEN {d, state_data(new)}
  ELSE {state_data(new)}

may_load_attestable_data(s, d) ==
  IF s.current_level = d.level
  THEN [s EXCEPT !.locked_round = d.locked_round,
                 !.attestable_payload = d.attestable_payload]
  ELSE s

may_initialise_with_latest_proposal_pqc(s) ==
  LET blk == s.latest_proposal
  IN  IF blk.prequorum # NoRound /\ s.attestable_payload.round < blk.prequorum
      THEN [s EXCEPT !.attestable_payload =
                        [proposal |-> blk, round |-> blk.prequorum]]
      ELSE s

(* Mutant: starts without the recorded state.                              *)
create_initial_state_unloaded(head, now, d) ==
  LET elected == IF is_first_block_in_protocol(head) THEN head ELSE NoBlock
  IN  may_initialise_with_latest_proposal_pqc(fresh_state(head, TRUE, elected, now))

create_initial_state(head, now, d) ==
  LET elected == IF is_first_block_in_protocol(head) THEN head ELSE NoBlock
  IN  may_initialise_with_latest_proposal_pqc(
        may_load_attestable_data(fresh_state(head, TRUE, elected, now), d))

-----------------------------------------------------------------------------
(* One iteration of automaton_loop: the new state, the effects of the      *)
(* action, then the record.  queue is what is left of tasks[b] once the    *)
(* event being handled is taken out.  Cancelling drops the tasks that have *)
(* not started: the finished ones and the active one survive, a prefix of  *)
(* the queue whose length is up to the scheduler.                          *)

cancel_all_pending_tasks(queue) ==
  { SubSeq(queue, 1, n) : n \in 0 .. Len(queue) }

perform_action(b, res, queue) ==
  /\ requests' = [requests EXCEPT ![b] = @ \o res.action.request]
  /\ Len(requests'[b]) <= MaxPending
  /\ votes' = inject_consensus_votes(b, res.action.inject)
  /\ watched' = IF res.action.watch = "none" THEN watched
                ELSE [watched EXCEPT ![b] =
                        {[kind |-> res.action.watch,
                          candidate |-> res.state.latest_proposal]}]
  /\ \E kept \in IF res.action.cancel
                 THEN cancel_all_pending_tasks(queue) ELSE {queue} :
       tasks' = [tasks EXCEPT ![b] = kept]

(* When the record is refused the loop goes on with the state that step    *)
(* returned, and tries to record that one.                                 *)
automaton_loop(b, res, queue) ==
  LET refused == /\ StateRecorder = "Filesystem"
                 /\ ~is_new_state_consistent(st[b], res.state)
      new == IF refused THEN res.returned ELSE res.state
  IN  /\ perform_action(b, res, queue)
      /\ st' = [st EXCEPT ![b] = new]
      /\ \E d \in may_record_new_state(st[b], new, disk[b]) :
           disk' = [disk EXCEPT ![b] = d]

-----------------------------------------------------------------------------
(* Events of the automaton                                                 *)

(* Rounds that the clock of a branch has reached: the one the baker last   *)
(* prepared a next-level block for, and those of its injected blocks,      *)
(* which inject_block holds back until their timestamp.                    *)
rounds_reached(b, blk) ==
  { x.round : x \in { y \in blocks : /\ y.level = blk.level
                                    /\ Predecessor(y) = Predecessor(blk)
                                    /\ round_proposer(b, y.level, y.round) } }
  \cup IF /\ blk.level = st[b].current_level + 1
          /\ Predecessor(blk) = st[b].elected_block
       THEN {st[b].next_level_proposed_round}
       ELSE {}

(* Time since the transition block of round 0, when round r of a branch    *)
(* starts, counted in rounds.                                              *)
elapsed(pred, r) == IF pred = NoBlock THEN r ELSE pred.round + 1 + r

(* What the clock of a block's branch may show when the baker reads it: at *)
(* least the block's round, and the clock does not go back.                *)
round_of_clock(b, blk) ==
  { now \in blk.round .. MaxRound :
      /\ \A r \in rounds_reached(b, blk) : now >= r
      /\ elapsed(Predecessor(blk), now)
           >= elapsed(Predecessor(st[b].latest_proposal), st[b].current_round) }

(* A block is handled once its timestamp is reached.  The clock is read    *)
(* only when the baker changes level or branch.                            *)
wait_next_event(b, blk) ==
  IF /\ st[b].current_level = blk.level
     /\ Predecessor(st[b].latest_proposal) = Predecessor(blk)
  THEN {blk.round}
  ELSE round_of_clock(b, blk)

New_valid_proposal(b, blk) ==
  /\ Proposed(blk)
  /\ \E now \in wait_next_event(b, blk) :
       automaton_loop(b, step_New_valid_proposal(st[b], blk, now), tasks[b])
  /\ UNCHANGED <<hwm, qc, blocks>>

New_head_proposal(b, blk) ==
  /\ Proposed(blk)
  /\ \E now \in wait_next_event(b, blk) :
       automaton_loop(b, step_New_head_proposal(st[b], blk, now), tasks[b])
  /\ UNCHANGED <<hwm, qc, blocks>>

(* The timer for the end of the round exists only under these conditions.  *)
compute_next_round_time(s) ==
  /\ s.next_level_proposed_round = NoRound
  /\ ~is_first_block_in_protocol(
        IF s.attestable_payload = NoAttestable
        THEN s.latest_proposal
        ELSE s.attestable_payload.proposal)

SignerKeepsUp(b) ==
  \/ "LateSigner" \in Adversity
  \/ \A q \in {requests[b], tasks[b]} : \A i \in DOMAIN q : q[i].kind = "block"

End_of_round(b, ops) ==
  /\ compute_next_round_time(st[b])
  /\ st[b].current_round < MaxRound
  /\ SignerKeepsUp(b)
  /\ LET ending == st[b].current_round
         own == round_proposer(b, st[b].current_level, ending + 1)
     IN  automaton_loop(b, end_of_round(st[b], ending, own, ops), tasks[b])
  /\ UNCHANGED <<hwm, qc, blocks>>

(* The next own round at the next level, at or after the clock's round and *)
(* after the round already proposed for.                                   *)
compute_next_potential_baking_time_at_next_level(b, at_round) ==
  /\ st[b].elected_block # NoBlock
  /\ st[b].next_level_proposed_round < at_round
  /\ round_proposer(b, st[b].current_level + 1, at_round)

Time_to_prepare_next_level_block(b, at_round, ops) ==
  /\ st[b].current_level < MaxLevel
  /\ compute_next_potential_baking_time_at_next_level(b, at_round)
  /\ automaton_loop(b, time_to_prepare_next_level_block(st[b], at_round, ops),
                    tasks[b])
  /\ UNCHANGED <<hwm, qc, blocks>>

Prequorum_reached(b, e) ==
  /\ e \in qc[b] /\ e.kind = "prequorum"
  /\ automaton_loop(b, step_Prequorum_reached(st[b], e.candidate), tasks[b])
  /\ qc' = [qc EXCEPT ![b] = @ \ {e}]
  /\ UNCHANGED <<hwm, blocks>>

Quorum_reached(b, e) ==
  /\ e \in qc[b] /\ e.kind = "quorum"
  /\ automaton_loop(b, step_Quorum_reached(st[b], e.candidate), tasks[b])
  /\ qc' = [qc EXCEPT ![b] = @ \ {e}]
  /\ UNCHANGED <<hwm, blocks>>

(* The signer answers and the automaton handles Preattestation_ready or    *)
(* Attestation_ready.                                                      *)
New_forge_event(b) ==
  /\ tasks[b] # << >> /\ Head(tasks[b]).kind # "block"
  /\ automaton_loop(b, handle_forge_event(st[b], Head(tasks[b])), Tail(tasks[b]))
  /\ UNCHANGED <<hwm, qc, blocks>>

(* Mutant: signs a block without looking at the highwatermark.             *)
handle_forge_block_unchecked(b) ==
  /\ tasks[b] # << >> /\ Head(tasks[b]).kind = "block"
  /\ LET blk == Head(tasks[b]).block
     IN  /\ hwm' = [hwm EXCEPT ![b]["block"] = record(@, blk.level, blk.round)]
         /\ blocks' = blocks \cup {blk}
  /\ tasks' = [tasks EXCEPT ![b] = Tail(@)]
  /\ UNCHANGED <<st, requests, watched, qc, disk, votes>>

(* prepare_block and sign_block_header, then Block_ready and inject_block: *)
(* the automaton's state does not change.  A block whose round was already *)
(* signed for is an error, which drops the task.                           *)
handle_forge_block(b) ==
  /\ tasks[b] # << >> /\ Head(tasks[b]).kind = "block"
  /\ LET blk == Head(tasks[b]).block
     IN  /\ hwm' = [hwm EXCEPT ![b]["block"] = record(@, blk.level, blk.round)]
         /\ blocks' = IF may_sign(hwm[b]["block"], blk.level, blk.round)
                      THEN blocks \cup {blk}
                      ELSE blocks
  /\ tasks' = [tasks EXCEPT ![b] = Tail(@)]
  /\ UNCHANGED <<st, requests, watched, qc, disk, votes>>

-----------------------------------------------------------------------------
(* The forge worker                                                        *)

(* Mutant: records the vote and does not look at the highwatermark.        *)
authorized_consensus_votes_unchecked(b, v) ==
  /\ hwm' = [hwm EXCEPT ![b][v.kind] = record(@, v.level, v.round)]
  /\ tasks' = [tasks EXCEPT ![b] = Append(@, v)]

(* The next request of the stream.  A vote is checked against the          *)
(* highwatermarks, and recorded there, before it is queued for signature;  *)
(* a refused vote is dropped.  A block is queued as it is.                 *)
authorized_consensus_votes(b, v) ==
  /\ hwm' = [hwm EXCEPT ![b][v.kind] = record(@, v.level, v.round)]
  /\ tasks' = IF may_sign(hwm[b][v.kind], v.level, v.round)
              THEN [tasks EXCEPT ![b] = Append(@, v)]
              ELSE tasks

process_request(b) ==
  /\ requests[b] # << >>
  /\ LET task == Head(requests[b])
     IN  IF task.kind = "block"
         THEN /\ tasks' = [tasks EXCEPT ![b] = Append(@, task)]
              /\ UNCHANGED hwm
         ELSE authorized_consensus_votes(b, task)
  /\ requests' = [requests EXCEPT ![b] = Tail(@)]
  /\ UNCHANGED <<st, watched, qc, disk, votes, blocks>>

(* Forging or signing fails: the task is dropped.                          *)
task_fails(b) ==
  /\ "SignerFails" \in Adversity
  /\ tasks[b] # << >>
  /\ tasks' = [tasks EXCEPT ![b] = Tail(@)]
  /\ UNCHANGED <<st, requests, watched, qc, hwm, disk, votes, blocks>>

(* The operation worker has counted a quorum for the watched candidate: it *)
(* pushes the event and stops watching.                                    *)
update_monitoring(b) ==
  /\ \E w \in watched[b] :
       /\ IF w.kind = "prequorum" THEN Prequorum(w.candidate)
                                  ELSE Quorum(w.candidate)
       /\ qc' = [qc EXCEPT ![b] = @ \cup {w}]
  /\ watched' = [watched EXCEPT ![b] = {}]
  /\ UNCHANGED <<st, requests, tasks, hwm, disk, votes, blocks>>

-----------------------------------------------------------------------------
(* Crash and restart                                                       *)

compute_bootstrap_event(b, s, ops) ==
  IF s.latest_proposal.round = s.current_round
  THEN step_New_head_proposal(s, s.latest_proposal, s.current_round)
  ELSE end_of_round(s, s.current_round - 1,
                    round_proposer(b, s.current_level, s.current_round), ops)

(* run: a new process with the node's current head and the file d, whose   *)
(* first iteration handles the bootstrap event.                            *)
run(b, head, d) ==
  /\ Proposed(head)
  /\ "RestartBehind" \in Adversity \/ head.level >= st[b].current_level
  /\ \E now \in round_of_clock(b, head), ops \in Ops :
       LET init == create_initial_state(head, now, d)
           res == compute_bootstrap_event(b, init, ops)
       IN  /\ st' = [st EXCEPT ![b] = res.state]
           /\ requests' = [requests EXCEPT ![b] = res.action.request]
           /\ \E d1 \in may_record_new_state(init, res.state, d) :
                disk' = [disk EXCEPT ![b] = d1]
  /\ tasks' = [tasks EXCEPT ![b] = << >>]
  /\ watched' = [watched EXCEPT ![b] = {}]
  /\ qc' = [qc EXCEPT ![b] = {}]

Restart(b, head) ==
  /\ run(b, head, disk[b])
  /\ UNCHANGED <<hwm, votes, blocks>>

(* The step that handles a prequorum sends the attestations that were      *)
(* waiting for it, and only then records the lock.                         *)
CrashInStep(b, e, head) ==
  /\ e \in qc[b] /\ e.kind = "prequorum"
  /\ LET res == step_Prequorum_reached(st[b], e.candidate)
     IN  votes' = inject_consensus_votes(b, res.action.inject)
  /\ run(b, head, disk[b])
  /\ UNCHANGED <<hwm, blocks>>
=============================================================================
