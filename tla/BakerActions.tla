---------------------------- MODULE BakerActions ----------------------------
(***************************************************************************)
(* The actions of a baker's event loop and of the peers preserve           *)
(* SigningInv: LoopKeeps turns what BakerTransitions shows of a handler    *)
(* into the preservation of the invariant by the iteration of              *)
(* automaton_loop that calls it.                                           *)
(***************************************************************************)
EXTENDS BakerTransitions

-----------------------------------------------------------------------------
(* Votes and queues                                                        *)

(* What inject_consensus_votes adds to the votes of a baker.               *)
LEMMA VotesInjected ==
  ASSUME TypeOK, NEW b \in Detailed, NEW vs \in SUBSET VoteTasks,
         votes' = inject_consensus_votes(b, vs)
  PROVE  /\ DOMAIN votes' = DOMAIN votes
         /\ \A kind \in DOMAIN votes :
              /\ votes'[kind] \subseteq Honest \X (0 .. MaxRound) \X Payloads
              /\ votes[kind] \subseteq votes'[kind]
              /\ \A w \in votes'[kind] : w[1] # b => w \in votes[kind]
         /\ \A w \in VoteTasks : <<b, w.round, w.payload>> \in votes'[w.kind] =>
              <<b, w.round, w.payload>> \in votes[w.kind] \/ w \in vs
<1>0. b \in Honest
  BY BoundAssumption
<1>1. DOMAIN votes' = DOMAIN votes
  BY DEF inject_consensus_votes
<1>2. \A kind \in DOMAIN votes : votes'[kind] = votes[kind] \cup
        { <<b, v.round, v.payload>> : v \in { w \in vs : w.kind = kind } }
  BY DEF inject_consensus_votes
<1>3. ASSUME NEW kind \in DOMAIN votes
      PROVE  /\ votes'[kind] \subseteq Honest \X (0 .. MaxRound) \X Payloads
             /\ votes[kind] \subseteq votes'[kind]
             /\ \A w \in votes'[kind] : w[1] # b => w \in votes[kind]
  <2>1. votes[kind] \subseteq Honest \X (0 .. MaxRound) \X Payloads
    BY DEF TypeOK
  <2>2. \A v \in vs : <<b, v.round, v.payload>> \in Honest \X (0 .. MaxRound) \X Payloads
    BY <1>0 DEF VoteTasks
  <2> QED BY <1>2, <2>1, <2>2
<1>4. ASSUME NEW w \in VoteTasks, <<b, w.round, w.payload>> \in votes'[w.kind],
             <<b, w.round, w.payload>> \notin votes[w.kind]
      PROVE  w \in vs
  <2>1. w.kind \in DOMAIN votes
    BY DEF TypeOK, VoteTasks
  <2>2. PICK v \in vs : v.kind = w.kind /\
          <<b, w.round, w.payload>> = <<b, v.round, v.payload>>
    BY <1>2, <1>4, <2>1
  <2>3. v = w
    BY <2>2 DEF VoteTasks
  <2> QED BY <2>3
<1> QED BY <1>1, <1>3, <1>4

(* What is left to prove of a step in which the peers do not vote.         *)
LEMMA Preserved ==
  ASSUME SigningInv, TypeOK', VotesMarked', BlocksMarked', NoDoubleBake',
         \A kind \in {"preattestation", "attestation"} :
           /\ votes[kind] \subseteq votes'[kind]
           /\ \A w \in votes'[kind] : w[1] \in Peers => w \in votes[kind]
  PROVE  SigningInv'
<1>1. PeersJustified'
  <2>1. \A r, p : HasQuorum("preattestation", r, p) => HasQuorum("preattestation", r, p)'
    BY DEF HasQuorum
  <2>2. ASSUME NEW b \in Peers, NEW r, NEW p, <<b, r, p>> \in votes'["attestation"]
        PROVE  <<b, r, p>> \in votes["attestation"]
    BY <2>2
  <2> QED BY <2>1, <2>2 DEF PeersJustified, SigningInv
<1>2. NoDoubleVote'
  <2> SUFFICES ASSUME NEW kind \in DOMAIN votes', NEW v \in votes'[kind],
                      NEW w \in votes'[kind], v[1] = w[1], v[2] = w[2]
               PROVE  v = w
    BY DEF NoDoubleVote
  <2>1. kind \in {"preattestation", "attestation"} /\ kind \in DOMAIN votes
    BY DEF TypeOK, SigningInv
  <2>2. /\ v \in Honest \X (0 .. MaxRound) \X Payloads
        /\ w \in Honest \X (0 .. MaxRound) \X Payloads
    BY DEF TypeOK
  <2>3. CASE v[1] \in Peers
    BY <2>1, <2>3 DEF SigningInv, NoDoubleVote
  <2>4. CASE v[1] \in Detailed
    <3> DEFINE x == [kind |-> kind, level |-> Level, round |-> v[2], payload |-> v[3]]
               y == [kind |-> kind, level |-> Level, round |-> w[2], payload |-> w[3]]
    <3>1. x \in VoteTasks /\ y \in VoteTasks
      BY <2>1, <2>2 DEF VoteTasks
    <3>2. v = <<v[1], v[2], v[3]>> /\ w = <<v[1], w[2], w[3]>>
      BY <2>2
    <3>3. Authorised(v[1], x)' /\ Authorised(v[1], y)'
      BY <3>2 DEF Authorised
    <3>4. x.kind = y.kind /\ x.round = y.round
      OBVIOUS
    <3>5. x = y
      <4> HIDE DEF x, y
      <4> QED BY <2>4, <3>1, <3>3, <3>4 DEF VotesMarked
    <3>6. v[3] = w[3]
      BY <3>5
    <3> QED BY <3>2, <3>6
  <2> QED BY <2>2, <2>3, <2>4 DEF Peers
<1> QED BY <1>1, <1>2 DEF SigningInv

(* Without new authorisations the marks for votes go on covering.          *)
LEMMA SameVotesMarked ==
  ASSUME VotesMarked,
         \A b \in Detailed : \A kind \in {"preattestation", "attestation"} :
           hwm'[b][kind] = hwm[b][kind],
         \A b \in Detailed : \A v \in VoteTasks : Authorised(b, v)' => Authorised(b, v)
  PROVE  VotesMarked'
<1> SUFFICES ASSUME NEW b \in Detailed, NEW v \in VoteTasks, Authorised(b, v)'
             PROVE  /\ MarkCovers(hwm[b][v.kind], v.round)'
                    /\ \A w \in VoteTasks :
                         Authorised(b, w)' /\ w.kind = v.kind /\ w.round = v.round => w = v
  BY DEF VotesMarked
<1>1. hwm'[b][v.kind] = hwm[b][v.kind]
  BY DEF VoteTasks
<1>2. Authorised(b, v)
  OBVIOUS
<1> QED BY <1>1, <1>2 DEF VotesMarked, MarkCovers

(* Without new blocks the mark for blocks goes on covering.                *)
LEMMA SameBlocksMarked ==
  ASSUME BlocksMarked, NoDoubleBake, UNCHANGED <<hwm, blocks>>
  PROVE  BlocksMarked' /\ NoDoubleBake'
BY DEF BlocksMarked, NoDoubleBake, MarkCovers

(* Cancelling keeps a prefix of the queue.                                 *)
LEMMA Cancelled ==
  ASSUME NEW S, NEW queue \in Seq(S), NEW kept \in cancel_all_pending_tasks(queue)
  PROVE  kept \in Seq(S) /\ \A i \in 1 .. Len(kept) : i \in 1 .. Len(queue) /\ kept[i] = queue[i]
<1>1. PICK n \in 0 .. Len(queue) : kept = SubSeq(queue, 1, n)
  BY DEF cancel_all_pending_tasks
<1> QED BY <1>1

(* One iteration of automaton_loop that handles an event                   *)
LEMMA LoopKeeps ==
  ASSUME SigningInv, NEW b \in Detailed, NEW res, NEW more \in SUBSET VoteTasks,
         Handled(b, st[b], res, more),
         \A v \in more : \E j \in 1 .. Len(tasks[b]) : tasks[b][j] = v,
         NEW queue \in Seq(TasksOf(b)),
         \A i \in 1 .. Len(queue) : \E j \in 1 .. Len(tasks[b]) : tasks[b][j] = queue[i],
         automaton_loop(b, res, queue), UNCHANGED <<hwm, blocks, peervars>>
  PROVE  SigningInv'
<1> DEFINE vs == res.action.inject
<1>1. PICK new \in {res.state, res.returned} :
        /\ st' = [st EXCEPT ![b] = new]
        /\ \E d \in may_record_new_state(st[b], new, disk[b]) :
             disk' = [disk EXCEPT ![b] = d]
  BY Zenon DEF automaton_loop
<1>2. PICK kept : /\ tasks' = [tasks EXCEPT ![b] = kept]
                  /\ kept = queue \/ kept \in cancel_all_pending_tasks(queue)
  BY Zenon DEF automaton_loop, perform_action
<1>3. /\ requests' = [requests EXCEPT ![b] = @ \o res.action.request]
      /\ votes' = inject_consensus_votes(b, vs)
  BY Zenon DEF automaton_loop, perform_action
<1>4. TypeOK /\ StateSound(st[b]) /\ FileSound(disk[b])
  BY Zenon DEF SigningInv, TypeOK
<1>5. vs \subseteq st[b].early_attestations \cup more /\ vs \in SUBSET VoteTasks
  BY <1>4 DEF Handled, StateSound
<1>6. StateSound(new) /\ new.early_attestations \subseteq st[b].early_attestations \cup more
  BY <1>1 DEF Handled
<1>7. /\ kept \in Seq(TasksOf(b))
      /\ \A i \in 1 .. Len(kept) : \E j \in 1 .. Len(tasks[b]) : tasks[b][j] = kept[i]
  BY <1>2, Cancelled
<1> HIDE DEF vs
<1>8. TypeOK'
  <2>1. DOMAIN st' = Detailed /\ \A c \in Detailed : StateSound(st'[c])
    BY <1>1, <1>4, <1>6 DEF TypeOK
  <2>2. DOMAIN disk' = Detailed /\ \A c \in Detailed : FileSound(disk'[c])
    <3>1. PICK d \in may_record_new_state(st[b], new, disk[b]) :
            disk' = [disk EXCEPT ![b] = d]
      BY Zenon, <1>1
    <3>2. FileSound(d)
      BY Zenon, <1>4, <1>6, FileRecorded
    <3> QED BY Zenon, <1>4, <3>1, <3>2 DEF TypeOK
  <2>3. /\ DOMAIN requests' = Detailed
        /\ \A c \in Detailed : requests'[c] \in Seq(TasksOf(c))
    <3>1. requests[b] \o res.action.request \in Seq(TasksOf(b))
      BY <1>4 DEF TypeOK, Handled
    <3> QED BY Zenon, <1>3, <1>4, <3>1 DEF TypeOK
  <2>4. DOMAIN tasks' = Detailed /\ \A c \in Detailed : tasks'[c] \in Seq(TasksOf(c))
    BY <1>2, <1>4, <1>7 DEF TypeOK
  <2>5. /\ DOMAIN votes' = {"preattestation", "attestation"}
        /\ \A kind \in DOMAIN votes' :
             votes'[kind] \subseteq Honest \X (0 .. MaxRound) \X Payloads
    BY Zenon, <1>3, <1>4, <1>5, VotesInjected DEF TypeOK
  <2> QED
    BY Zenon, <1>4, <2>1, <2>2, <2>3, <2>4, <2>5 DEF TypeOK, peervars
<1>9. ASSUME NEW c \in Detailed, NEW v \in VoteTasks, Authorised(c, v)'
      PROVE  Authorised(c, v)
  <2>0. v.kind \in DOMAIN votes /\ DOMAIN votes' = DOMAIN votes
    BY Zenon, <1>3, <1>4, <1>5, VotesInjected DEF TypeOK, VoteTasks
  <2>1. CASE c # b
    <3>1. st'[c] = st[c] /\ tasks'[c] = tasks[c]
      BY <1>1, <1>2, <1>4, <2>1 DEF TypeOK
    <3>2. <<c, v.round, v.payload>> \in votes'[v.kind]
            => <<c, v.round, v.payload>> \in votes[v.kind]
      BY Zenon, <1>3, <1>4, <1>5, <2>0, <2>1, VotesInjected
    <3> QED BY Zenon, <1>9, <3>1, <3>2 DEF Authorised
  <2>2. CASE c = b
    <3>1. st'[b] = new /\ tasks'[b] = kept
      BY <1>1, <1>2, <1>4 DEF TypeOK
    <3>2. CASE <<b, v.round, v.payload>> \in votes'[v.kind]
      <4>1. <<b, v.round, v.payload>> \in votes[v.kind] \/ v \in vs
        BY Zenon, <1>3, <1>4, <1>5, <3>2, VotesInjected
      <4> QED BY Zenon, <1>5, <2>2, <4>1 DEF Authorised
    <3>3. CASE v \in st'[b].early_attestations
      BY <1>6, <2>2, <3>1, <3>3 DEF Authorised
    <3>4. CASE \E i \in 1 .. Len(tasks'[b]) : tasks'[b][i] = v
      BY <1>7, <2>2, <3>1, <3>4 DEF Authorised
    <3> QED BY Zenon, <1>9, <2>2, <3>2, <3>3, <3>4 DEF Authorised
  <2> QED BY Zenon, <2>1, <2>2
<1>10. VotesMarked'
  BY Zenon, <1>9, SameVotesMarked DEF SigningInv
<1>11. BlocksMarked' /\ NoDoubleBake'
  BY SameBlocksMarked DEF SigningInv
<1>12. \A kind \in {"preattestation", "attestation"} :
         /\ votes[kind] \subseteq votes'[kind]
         /\ \A w \in votes'[kind] : w[1] \in Peers => w \in votes[kind]
  BY Zenon, Zenon, <1>3, <1>4, <1>5, VotesInjected DEF TypeOK, Peers
<1> QED BY <1>8, <1>10, <1>11, <1>12, Preserved

-----------------------------------------------------------------------------
(* The actions of a baker                                                  *)

(* Every block a baker is handed is one of the chain.                      *)
LEMMA InChain ==
  ASSUME TypeOK, NEW blk \in Proposals \cup blocks
  PROVE  blk \in Chain
BY BoundAssumption DEF TypeOK, AllProposals, Chain, Headers

(* The rounds that the clock shows are within the bound.                   *)
LEMMA ClockRounds ==
  ASSUME TypeOK, NEW b, NEW blk \in Chain
  PROVE  /\ round_of_clock(b, blk) \subseteq 0 .. MaxRound
         /\ wait_next_event(b, blk) \subseteq 0 .. MaxRound
<1>1. blk.round \in 0 .. MaxRound
  BY ChainFacts
<1> QED BY <1>1, ChainFacts DEF round_of_clock, wait_next_event

(* An event that is not in the queue leaves the queue to automaton_loop.   *)
LEMMA EventKeeps ==
  ASSUME SigningInv, NEW b \in Detailed, NEW res, Handled(b, st[b], res, {}),
         automaton_loop(b, res, tasks[b]), UNCHANGED <<hwm, blocks, peervars>>
  PROVE  SigningInv'
<1>1. tasks[b] \in Seq(TasksOf(b))
  BY DEF SigningInv, TypeOK
<1>2. \A i \in 1 .. Len(tasks[b]) : \E j \in 1 .. Len(tasks[b]) : tasks[b][j] = tasks[b][i]
  OBVIOUS
<1>3. {} \in SUBSET VoteTasks /\ \A v \in {} : \E j \in 1 .. Len(tasks[b]) : tasks[b][j] = v
  OBVIOUS
<1> QED BY Zenon, <1>1, <1>2, <1>3, LoopKeeps

(* New_valid_proposal and New_head_proposal.                               *)
LEMMA ProposalKeeps ==
  ASSUME SigningInv, NEW b \in Detailed, NEW blk \in Proposals \cup blocks,
         New_valid_proposal(b, blk) \/ New_head_proposal(b, blk), UNCHANGED peervars
  PROVE  SigningInv'
<1>1. blk \in Chain /\ wait_next_event(b, blk) \subseteq 0 .. MaxRound /\ StateSound(st[b])
  BY Zenon, InChain, ClockRounds DEF SigningInv, TypeOK
<1>2. PICK now \in 0 .. MaxRound :
        \/ automaton_loop(b, step_New_valid_proposal(st[b], blk, now), tasks[b])
        \/ automaton_loop(b, step_New_head_proposal(st[b], blk, now), tasks[b])
  BY <1>1 DEF New_valid_proposal, New_head_proposal
<1>3. UNCHANGED <<hwm, blocks, peervars>>
  BY DEF New_valid_proposal, New_head_proposal
<1>4. /\ Handled(b, st[b], step_New_valid_proposal(st[b], blk, now), {})
      /\ Handled(b, st[b], step_New_head_proposal(st[b], blk, now), {})
  BY Zenon, <1>1, StepProposal
<1> QED BY Zenon, <1>2, <1>3, <1>4, EventKeeps

(* End_of_round.                                                           *)
LEMMA EndOfRoundKeeps ==
  ASSUME SigningInv, NEW b \in Detailed, NEW ops \in Ops, End_of_round(b, ops),
         UNCHANGED peervars
  PROVE  SigningInv'
<1> DEFINE ending == st[b].current_round
           own == round_proposer(b, st[b].current_level, ending + 1)
           res == end_of_round(st[b], ending, own, ops)
<1>1. StateSound(st[b])
  BY Zenon DEF SigningInv, TypeOK
<1> HIDE DEF own, res
<1>2. st[b].current_round < MaxRound
  BY Zenon DEF End_of_round
<1>3. ending + 1 \in 0 .. MaxRound
  BY <1>1, <1>2, ChainFacts DEF StateSound
<1>4. Handled(b, st[b], res, {})
  BY Zenon, <1>1, <1>3, StepEndOfRound DEF own, res
<1>5. automaton_loop(b, res, tasks[b]) /\ UNCHANGED <<hwm, blocks, peervars>>
  BY Zenon DEF End_of_round, own, res
<1> QED BY Zenon, <1>4, <1>5, EventKeeps

(* Time_to_prepare_next_level_block.                                       *)
LEMMA NextLevelBlockKeeps ==
  ASSUME SigningInv, NEW b \in Detailed, NEW r \in 0 .. MaxRound, NEW ops \in Ops,
         Time_to_prepare_next_level_block(b, r, ops), UNCHANGED peervars
  PROVE  SigningInv'
<1> DEFINE res == time_to_prepare_next_level_block(st[b], r, ops)
<1>1. StateSound(st[b])
  BY Zenon DEF SigningInv, TypeOK
<1>2. Handled(b, st[b], res, {})
  BY Zenon, <1>1, StepNextLevelBlock DEF Time_to_prepare_next_level_block,
       compute_next_potential_baking_time_at_next_level
<1>3. automaton_loop(b, res, tasks[b]) /\ UNCHANGED <<hwm, blocks, peervars>>
  BY Zenon DEF Time_to_prepare_next_level_block
<1> QED BY <1>2, <1>3, EventKeeps

(* Prequorum_reached and Quorum_reached.                                   *)
LEMMA QuorumEventKeeps ==
  ASSUME SigningInv, NEW b \in Detailed, NEW e \in qc[b],
         Prequorum_reached(b, e) \/ Quorum_reached(b, e), UNCHANGED peervars
  PROVE  SigningInv'
<1>1. StateSound(st[b])
  BY Zenon DEF SigningInv, TypeOK
<1>2. /\ Handled(b, st[b], step_Prequorum_reached(st[b], e.candidate), {})
      /\ Handled(b, st[b], step_Quorum_reached(st[b], e.candidate), {})
  BY <1>1, StepPrequorum, StepQuorum
<1>3. /\ \/ automaton_loop(b, step_Prequorum_reached(st[b], e.candidate), tasks[b])
         \/ automaton_loop(b, step_Quorum_reached(st[b], e.candidate), tasks[b])
      /\ UNCHANGED <<hwm, blocks, peervars>>
  BY DEF Prequorum_reached, Quorum_reached
<1> QED BY <1>2, <1>3, EventKeeps

(* New_forge_event: the vote was authorised when it was queued.            *)
LEMMA ForgeEventKeeps ==
  ASSUME SigningInv, NEW b \in Detailed, New_forge_event(b), UNCHANGED peervars
  PROVE  SigningInv'
<1> DEFINE v == Head(tasks[b])
           queue == Tail(tasks[b])
<1>1. StateSound(st[b]) /\ tasks[b] \in Seq(TasksOf(b)) /\ tasks[b] # << >>
  BY DEF SigningInv, TypeOK, New_forge_event
<1>2. v \in TasksOf(b) /\ v.kind # "block"
  BY <1>1 DEF New_forge_event
<1>3. v \in VoteTasks
  BY <1>2 DEF TasksOf
<1>4. Handled(b, st[b], handle_forge_event(st[b], v), {v})
  BY <1>1, <1>3, StepForgeEvent
<1>5. 1 \in 1 .. Len(tasks[b]) /\ tasks[b][1] = v
  BY <1>1
<1>6. /\ queue \in Seq(TasksOf(b))
      /\ \A i \in 1 .. Len(queue) :
           i + 1 \in 1 .. Len(tasks[b]) /\ tasks[b][i + 1] = queue[i]
  BY <1>1
<1>7. /\ automaton_loop(b, handle_forge_event(st[b], v), queue)
      /\ UNCHANGED <<hwm, blocks, peervars>>
  BY DEF New_forge_event
<1> DEFINE res == handle_forge_event(st[b], v)
           more == {v}
<1>8. more \in SUBSET VoteTasks /\ Handled(b, st[b], res, more)
  BY <1>3, <1>4
<1>9. automaton_loop(b, res, queue)
  BY <1>7
<1> HIDE DEF queue, res
<1>10. \A i \in 1 .. Len(queue) : \E j \in 1 .. Len(tasks[b]) : tasks[b][j] = queue[i]
  BY <1>6
<1>11. \A x \in more : \E j \in 1 .. Len(tasks[b]) : tasks[b][j] = x
  BY <1>5
<1> HIDE DEF v, more
<1> QED BY Zenon, Zenon, <1>6, <1>7, <1>8, <1>9, <1>10, <1>11, LoopKeeps

(* The head of the queue of tasks is taken out.                            *)
LEMMA TaskTaken ==
  ASSUME TypeOK, NEW b \in Detailed, tasks[b] # << >>,
         tasks' = [tasks EXCEPT ![b] = Tail(@)], UNCHANGED <<st, votes>>
  PROVE  /\ DOMAIN tasks' = Detailed
         /\ \A c \in Detailed : tasks'[c] \in Seq(TasksOf(c))
         /\ \A c \in Detailed : \A v \in VoteTasks : Authorised(c, v)' => Authorised(c, v)
<1>1. DOMAIN tasks = Detailed /\ tasks[b] \in Seq(TasksOf(b))
  BY DEF TypeOK
<1>2. /\ Tail(tasks[b]) \in Seq(TasksOf(b))
      /\ \A i \in 1 .. Len(Tail(tasks[b])) :
           i + 1 \in 1 .. Len(tasks[b]) /\ tasks[b][i + 1] = Tail(tasks[b])[i]
  BY <1>1
<1>3. /\ DOMAIN tasks' = Detailed /\ tasks'[b] = Tail(tasks[b])
      /\ \A c \in Detailed : c # b => tasks'[c] = tasks[c]
  BY <1>1
<1>4. \A c \in Detailed : tasks'[c] \in Seq(TasksOf(c))
  BY <1>2, <1>3 DEF TypeOK
<1>5. \A c \in Detailed : \A i \in 1 .. Len(tasks'[c]) :
        \E j \in 1 .. Len(tasks[c]) : tasks[c][j] = tasks'[c][i]
  BY <1>2, <1>3
<1>6. ASSUME NEW c \in Detailed, NEW v \in VoteTasks, Authorised(c, v)'
      PROVE  Authorised(c, v)
  BY <1>5, <1>6 DEF Authorised
<1> QED BY Zenon, <1>3, <1>4, <1>6

(* A step that sends no vote.                                              *)
LEMMA SameVotes ==
  ASSUME UNCHANGED votes
  PROVE  \A kind \in {"preattestation", "attestation"} :
           /\ votes[kind] \subseteq votes'[kind]
           /\ \A w \in votes'[kind] : w[1] \in Peers => w \in votes[kind]
BY Zenon

(* task_fails.                                                             *)
LEMMA TaskFailsKeeps ==
  ASSUME SigningInv, NEW b \in Detailed, task_fails(b), UNCHANGED peervars
  PROVE  SigningInv'
<1>1. /\ DOMAIN tasks' = Detailed
      /\ \A c \in Detailed : tasks'[c] \in Seq(TasksOf(c))
      /\ \A c \in Detailed : \A v \in VoteTasks : Authorised(c, v)' => Authorised(c, v)
  BY Zenon, TaskTaken DEF task_fails, SigningInv
<1>2. UNCHANGED <<st, requests, hwm, disk, votes, blocks, peer_round>>
  BY Zenon DEF task_fails, peervars
<1>3. TypeOK'
  BY Zenon, <1>1, <1>2 DEF TypeOK, SigningInv
<1>4. VotesMarked' /\ BlocksMarked' /\ NoDoubleBake'
  BY <1>1, <1>2, SameVotesMarked, SameBlocksMarked DEF SigningInv
<1> QED BY <1>2, <1>3, <1>4, SameVotes, Preserved

(* update_monitoring.                                                      *)
LEMMA MonitoringKeeps ==
  ASSUME SigningInv, NEW b \in Detailed, update_monitoring(b), UNCHANGED peervars
  PROVE  SigningInv'
<1>1. UNCHANGED <<st, requests, tasks, hwm, disk, votes, blocks, peer_round>>
  BY Zenon DEF update_monitoring, peervars
<1>2. TypeOK'
  BY Zenon, <1>1 DEF TypeOK, SigningInv
<1>3. \A c \in Detailed : \A v \in VoteTasks : Authorised(c, v)' => Authorised(c, v)
  BY <1>1 DEF Authorised
<1>4. VotesMarked' /\ BlocksMarked' /\ NoDoubleBake'
  BY <1>1, <1>3, SameVotesMarked, SameBlocksMarked DEF SigningInv
<1> QED BY <1>1, <1>2, <1>4, SameVotes, Preserved

(* Recording a round raises the mark, and may_sign demands a round above   *)
(* all those that the mark covers.                                         *)
LEMMA Recorded ==
  ASSUME NEW mark \in [level : {0, Level}, round : NoRound .. MaxRound],
         NEW r \in 0 .. MaxRound
  PROVE  LET mark1 == record(mark, Level, r)
         IN  /\ mark1 \in [level : {0, Level}, round : NoRound .. MaxRound]
             /\ may_sign(mark, Level, r) => mark1.level = Level /\ mark1.round = r
             /\ \A q \in 0 .. MaxRound : MarkCovers(mark, q) =>
                  MarkCovers(mark1, q) /\ (may_sign(mark, Level, r) => q < r)
BY ChainFacts DEF record, may_sign, MarkCovers

-----------------------------------------------------------------------------
(* The peers                                                               *)

(* A vote of a peer, the only one of its kind and round                    *)
LEMMA PeerVoteKeeps ==
  ASSUME SigningInv, NEW b \in Peers, NEW kind \in {"preattestation", "attestation"},
         NEW r \in 0 .. MaxRound, NEW p \in Payloads,
         votes' = [votes EXCEPT ![kind] = @ \cup {<<b, r, p>>}],
         \A q \in Payloads : <<b, r, q>> \in votes[kind] => q = p,
         kind = "attestation" => HasQuorum("preattestation", r, p),
         UNCHANGED <<st, requests, tasks, hwm, disk, blocks, peer_round>>
  PROVE  SigningInv'
<1>1. TypeOK /\ b \in Honest /\ b \notin Detailed
  BY DEF SigningInv, Peers
<1>2. /\ DOMAIN votes' = {"preattestation", "attestation"}
      /\ \A k \in {"preattestation", "attestation"} :
           votes'[k] = IF k = kind THEN votes[k] \cup {<<b, r, p>>} ELSE votes[k]
  BY Zenon, Zenon, <1>1 DEF TypeOK
<1>3. TypeOK'
  <2>1. \A k \in {"preattestation", "attestation"} :
          votes'[k] \subseteq Honest \X (0 .. MaxRound) \X Payloads
    BY <1>1, <1>2 DEF TypeOK
  <2> QED BY Zenon, <1>1, <1>2, <2>1 DEF TypeOK
<1>4. VotesMarked'
  <2>1. ASSUME NEW c \in Detailed, NEW v \in VoteTasks, Authorised(c, v)'
        PROVE  Authorised(c, v)
    <3>1. v.kind \in {"preattestation", "attestation"} /\ c # b
      BY <1>1 DEF VoteTasks
    <3>2. <<c, v.round, v.payload>> \in votes'[v.kind]
            => <<c, v.round, v.payload>> \in votes[v.kind]
      BY <1>2, <3>1
    <3> QED BY <2>1, <3>2 DEF Authorised
  <2> QED BY Zenon, <2>1, SameVotesMarked DEF SigningInv
<1>5. BlocksMarked' /\ NoDoubleBake'
  BY SameBlocksMarked DEF SigningInv
<1>6. PeersJustified'
  <2>1. \A x, y : HasQuorum("preattestation", x, y) => HasQuorum("preattestation", x, y)'
    BY <1>2 DEF HasQuorum
  <2> SUFFICES ASSUME NEW c \in Peers, NEW x \in 0 .. MaxRound, NEW y \in Payloads,
                      <<c, x, y>> \in votes'["attestation"]
               PROVE  HasQuorum("preattestation", x, y)'
    BY DEF PeersJustified
  <2>2. \/ <<c, x, y>> \in votes["attestation"]
        \/ kind = "attestation" /\ x = r /\ y = p
    BY <1>2
  <2> QED BY <2>1, <2>2 DEF SigningInv, PeersJustified
<1>7. NoDoubleVote'
  <2> SUFFICES ASSUME NEW k \in {"preattestation", "attestation"}, NEW v \in votes'[k],
                      NEW w \in votes'[k], v[1] = w[1], v[2] = w[2]
               PROVE  v = w
    BY <1>2 DEF NoDoubleVote
  <2>1. v \in votes[k] /\ w \in votes[k] => v = w
    BY Zenon, <1>1 DEF SigningInv, NoDoubleVote, TypeOK
  <2>2. ASSUME NEW x \in votes[k], k = kind, x[1] = b, x[2] = r
        PROVE  x = <<b, r, p>>
    <3>1. x \in Honest \X (0 .. MaxRound) \X Payloads
      BY <1>1 DEF TypeOK
    <3>2. x = <<b, r, x[3]>> /\ x[3] \in Payloads
      BY <2>2, <3>1
    <3> QED BY Zenon, <2>2, <3>2
  <2>3. CASE v \notin votes[k]
    <3>1. v = <<b, r, p>> /\ k = kind
      BY <1>2, <2>3
    <3> QED BY Zenon, <1>2, <2>2, <3>1
  <2>4. CASE w \notin votes[k]
    <3>1. w = <<b, r, p>> /\ k = kind
      BY <1>2, <2>4
    <3> QED BY Zenon, <1>2, <2>2, <3>1
  <2> QED BY Zenon, <2>1, <2>3, <2>4
<1> QED BY <1>3, <1>4, <1>5, <1>6, <1>7 DEF SigningInv

(* Two prequorums of a round share a baker that runs the code, and it      *)
(* preattests once.                                                        *)
LEMMA OnePrequorum ==
  ASSUME SigningInv, NEW r, NEW p, NEW q,
         HasQuorum("preattestation", r, p), HasQuorum("preattestation", r, q)
  PROVE  p = q
<1>1. PICK P \in Quorums : \A b \in P \cap Honest : <<b, r, p>> \in votes["preattestation"]
  BY DEF HasQuorum
<1>2. PICK Q \in Quorums : \A b \in Q \cap Honest : <<b, r, q>> \in votes["preattestation"]
  BY DEF HasQuorum
<1>3. PICK b \in Honest : b \in P /\ b \in Q
  BY QuorumAssumption
<1>4. <<b, r, p>> \in votes["preattestation"] /\ <<b, r, q>> \in votes["preattestation"]
  BY Zenon, <1>1, <1>2, <1>3
<1>5. <<b, r, p>> = <<b, r, q>>
  BY <1>4 DEF SigningInv, NoDoubleVote, TypeOK
<1> QED BY <1>5

(* The steps of a peer.                                                    *)
LEMMA PeerKeeps ==
  ASSUME SigningInv, NEW b \in Peers, PeerStep(b)
  PROVE  SigningInv'
<1>1. TypeOK /\ peer_round[b] \in NoRound .. MaxRound
  BY Zenon DEF SigningInv, TypeOK
<1>2. ASSUME NEW r \in 0 .. MaxRound, PeerEnterRound(b, r)
      PROVE  SigningInv'
  <2>1. UNCHANGED <<st, requests, tasks, hwm, disk, votes, blocks>>
    BY Zenon, <1>2 DEF PeerEnterRound, vars, memory
  <2>2. peer_round' \in [Peers -> NoRound .. MaxRound]
    BY <1>1, <1>2, ChainFacts DEF PeerEnterRound, TypeOK
  <2>3. TypeOK'
    BY Zenon, <1>1, <2>1, <2>2 DEF TypeOK
  <2>4. \A c \in Detailed : \A v \in VoteTasks : Authorised(c, v)' => Authorised(c, v)
    BY Zenon, <2>1 DEF Authorised
  <2>5. VotesMarked' /\ BlocksMarked' /\ NoDoubleBake'
    BY <2>1, <2>4, SameVotesMarked, SameBlocksMarked DEF SigningInv
  <2> QED BY <2>1, <2>3, <2>5, SameVotes, Preserved
<1>3. ASSUME NEW p \in Payloads, PeerPreattest(b, p)
      PROVE  SigningInv'
  <2>1. peer_round[b] \in 0 .. MaxRound
    <3>1. PICK blk \in Proposals \cup blocks : blk.round = peer_round[b]
      BY Zenon, <1>3 DEF PeerPreattest
    <3> QED BY Zenon, <1>1, <3>1, InChain, ChainFacts
  <2>2. /\ votes' = [votes EXCEPT !["preattestation"] = @ \cup {<<b, peer_round[b], p>>}]
        /\ \A q \in Payloads : <<b, peer_round[b], q>> \notin votes["preattestation"]
        /\ UNCHANGED <<st, requests, tasks, hwm, disk, blocks, peer_round>>
    BY <1>3 DEF PeerPreattest, memory, peervars
  <2> QED BY Zenon, Zenon, <2>1, <2>2, PeerVoteKeeps
<1>4. ASSUME NEW p \in Payloads, PeerAttest(b, p)
      PROVE  SigningInv'
  <2> DEFINE r == peer_round[b]
  <2>1. r \in 0 .. MaxRound
    BY <1>1, <1>4, ChainFacts DEF PeerAttest
  <2>2. /\ votes' = [votes EXCEPT !["attestation"] = @ \cup {<<b, r, p>>}]
        /\ HasQuorum("preattestation", r, p)
        /\ UNCHANGED <<st, requests, tasks, hwm, disk, blocks, peer_round>>
    BY <1>4 DEF PeerAttest, memory
  <2>3. ASSUME NEW q \in Payloads, <<b, r, q>> \in votes["attestation"]
        PROVE  q = p
    <3>1. HasQuorum("preattestation", r, q)
      BY <2>1, <2>3 DEF SigningInv, PeersJustified
    <3> QED BY <2>2, <3>1, OnePrequorum
  <2> QED BY Zenon, Zenon, <2>1, <2>2, <2>3, PeerVoteKeeps
<1> QED BY Zenon, <1>2, <1>3, <1>4 DEF PeerStep
=============================================================================
