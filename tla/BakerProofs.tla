---------------------------- MODULE BakerProofs -----------------------------
(***************************************************************************)
(* What the highwatermarks guarantee, for every number of bakers, rounds,  *)
(* branches and operations, every quorum system and every adversity of     *)
(* module Baker: SigningInv is inductive, hence a baker never votes nor    *)
(* bakes twice for a round, and its assertions hold.                       *)
(*                                                                         *)
(* BakerTransitions and BakerActions have the lemmas on the transition     *)
(* function, the event loop and the peers; here are the injection of       *)
(* blocks, the signing of votes, crashes and restarts, and the theorems.   *)
(***************************************************************************)
EXTENDS BakerActions

(* A block is injected for a round above the mark, hence above the rounds  *)
(* of all earlier blocks of its owner.                                     *)
LEMMA ForgeBlockKeeps ==
  ASSUME SigningInv, NEW b \in Detailed, handle_forge_block(b), UNCHANGED peervars
  PROVE  SigningInv'
<1> DEFINE blk == Head(tasks[b]).block
           mark == hwm[b]["block"]
<1>1. /\ DOMAIN tasks' = Detailed
      /\ \A c \in Detailed : tasks'[c] \in Seq(TasksOf(c))
      /\ \A c \in Detailed : \A v \in VoteTasks : Authorised(c, v)' => Authorised(c, v)
  BY Zenon, TaskTaken DEF handle_forge_block, SigningInv
<1>2. /\ UNCHANGED <<st, requests, disk, votes, peer_round>>
      /\ hwm' = [hwm EXCEPT ![b]["block"] = record(@, blk.level, blk.round)]
      /\ blocks' = IF may_sign(mark, blk.level, blk.round)
                   THEN blocks \cup {blk} ELSE blocks
  BY DEF handle_forge_block, peervars
<1>3. blk \in Headers /\ slot_owner(Level, blk.round) = b
  <2>1. Head(tasks[b]) \in TasksOf(b) /\ Head(tasks[b]).kind = "block"
    BY DEF handle_forge_block, SigningInv, TypeOK
  <2> QED BY <2>1 DEF TasksOf, VoteTasks
<1>4. blk.level = Level /\ blk.round \in 0 .. MaxRound /\ blk \in Chain
  BY <1>3, ChainFacts DEF Chain
<1>5. mark \in [level : {0, Level}, round : NoRound .. MaxRound]
  BY DEF SigningInv, TypeOK
<1> DEFINE mark1 == record(mark, Level, blk.round)
<1>6. /\ mark1 \in [level : {0, Level}, round : NoRound .. MaxRound]
      /\ may_sign(mark, Level, blk.round) => mark1.level = Level /\ mark1.round = blk.round
      /\ \A r \in 0 .. MaxRound : MarkCovers(mark, r) => MarkCovers(mark1, r)
      /\ \A r \in 0 .. MaxRound :
           MarkCovers(mark, r) /\ may_sign(mark, Level, blk.round) => r < blk.round
  BY <1>4, <1>5, Recorded
<1>7. hwm' = [hwm EXCEPT ![b]["block"] = mark1]
  BY Zenon, Zenon, <1>2, <1>4
<1>8. blocks' \subseteq blocks \cup {blk}
      /\ (blocks' # blocks => may_sign(mark, Level, blk.round) /\ blocks' = blocks \cup {blk})
  BY <1>2, <1>4
<1> HIDE DEF blk, mark, mark1
<1>9. /\ hwm' \in [Detailed -> [{"block", "preattestation", "attestation"} ->
                              [level : {0, Level}, round : NoRound .. MaxRound]]]
      /\ hwm'[b]["block"] = mark1
      /\ \A c \in Detailed : \A k \in {"preattestation", "attestation"} :
           hwm'[c][k] = hwm[c][k]
      /\ \A c \in Detailed : c # b => hwm'[c]["block"] = hwm[c]["block"]
  BY ZenonT(30), <1>6, <1>7 DEF SigningInv, TypeOK
<1>10. TypeOK'
  BY Zenon, <1>1, <1>2, <1>4, <1>8, <1>9 DEF TypeOK, SigningInv
<1>11. VotesMarked'
  BY <1>1, <1>9, SameVotesMarked DEF SigningInv
<1>12. BlocksMarked'
  <2> SUFFICES ASSUME NEW x \in blocks' \ Parents
               PROVE  /\ slot_owner(Level, x.round) \in Detailed
                      /\ MarkCovers(hwm'[slot_owner(Level, x.round)]["block"], x.round)
    BY DEF BlocksMarked, MarkCovers
  <2>0. x.round \in 0 .. MaxRound
    BY <1>10, ChainFacts DEF TypeOK
  <2>1. CASE x \in blocks
    <3> DEFINE owner == slot_owner(Level, x.round)
    <3>1. owner \in Detailed /\ MarkCovers(hwm[owner]["block"], x.round)
      BY <2>1 DEF SigningInv, BlocksMarked
    <3> HIDE DEF owner
    <3>2. CASE owner = b
      <4>1. MarkCovers(mark1, x.round)
        BY <1>6, <2>0, <3>1, <3>2 DEF mark
      <4> QED BY <1>9, <3>1, <3>2, <4>1 DEF owner
    <3>3. CASE owner # b
      BY <1>9, <3>1, <3>3 DEF owner
    <3> QED BY <3>2, <3>3
  <2>2. CASE x \notin blocks
    <3>1. x = blk /\ may_sign(mark, Level, blk.round)
      BY <1>8, <2>2
    <3>2. mark1.level = Level /\ mark1.round = blk.round
      BY <1>6, <3>1
    <3> QED BY <1>3, <1>4, <1>9, <3>1, <3>2 DEF MarkCovers
  <2> QED BY <2>1, <2>2
<1>13. NoDoubleBake'
  <2>1. ASSUME NEW x \in blocks \ Parents, x.round = blk.round,
               may_sign(mark, Level, blk.round)
        PROVE  FALSE
    <3>1. MarkCovers(mark, blk.round)
      BY <1>3, <2>1 DEF SigningInv, BlocksMarked, mark
    <3> QED BY <1>4, <1>6, <2>1, <3>1
  <2> QED BY <1>8, <2>1 DEF NoDoubleBake, SigningInv
<1> QED BY <1>2, <1>10, <1>11, <1>12, <1>13, SameVotes, Preserved

(* A vote is authorised for a round above the mark, hence above the rounds *)
(* of all votes of its kind that were authorised before.                   *)
LEMMA RequestKeeps ==
  ASSUME SigningInv, NEW b \in Detailed, process_request(b), UNCHANGED peervars
  PROVE  SigningInv'
<1> DEFINE task == Head(requests[b])
<1>1. TypeOK /\ tasks[b] \in Seq(TasksOf(b)) /\ requests[b] \in Seq(TasksOf(b))
      /\ requests[b] # << >>
  BY Zenon DEF SigningInv, TypeOK, process_request
<1>2. /\ UNCHANGED <<st, disk, votes, blocks, peer_round>>
      /\ requests' = [requests EXCEPT ![b] = Tail(@)]
  BY DEF process_request, peervars
<1>3. task \in TasksOf(b) /\ Tail(requests[b]) \in Seq(TasksOf(b))
  BY <1>1
<1>4. DOMAIN requests' = Detailed /\ \A c \in Detailed : requests'[c] \in Seq(TasksOf(c))
  BY <1>1, <1>2, <1>3 DEF TypeOK
<1>5. ASSUME task.kind = "block" \/ ~may_sign(hwm[b][task.kind], task.level, task.round)
      PROVE  SigningInv'
  <2>1. UNCHANGED hwm
    <3>1. CASE task.kind = "block"
      BY <3>1 DEF process_request
    <3>2. CASE task.kind # "block"
      <4>1. record(hwm[b][task.kind], task.level, task.round) = hwm[b][task.kind]
        BY Zenon, <1>5, <3>2 DEF record
      <4>2. hwm' = [hwm EXCEPT ![b][task.kind] = record(@, task.level, task.round)]
        BY <3>2 DEF process_request, authorized_consensus_votes
      <4>3. hwm' = [hwm EXCEPT ![b][task.kind] = hwm[b][task.kind]]
        BY Zenon, Zenon, <4>1, <4>2
      <4> QED BY Zenon, <1>1, <4>3 DEF TypeOK
    <3> QED BY <3>1, <3>2
  <2>2. \/ tasks' = tasks
        \/ task.kind = "block" /\ tasks' = [tasks EXCEPT ![b] = Append(@, task)]
    BY <1>5 DEF process_request, authorized_consensus_votes
  <2>3. DOMAIN tasks' = Detailed /\ \A c \in Detailed : tasks'[c] \in Seq(TasksOf(c))
    <3>1. Append(tasks[b], task) \in Seq(TasksOf(b))
      BY <1>1, <1>3
    <3> QED BY Zenon, <1>1, <2>2, <3>1 DEF TypeOK
  <2>4. ASSUME NEW c \in Detailed, NEW v \in VoteTasks, Authorised(c, v)'
        PROVE  Authorised(c, v)
    <3>1. CASE tasks'[c] = tasks[c]
      BY Zenon, <1>2, <2>4, <3>1 DEF Authorised
    <3>2. CASE tasks'[c] # tasks[c]
      <4>1. c = b /\ task.kind = "block" /\ tasks'[b] = Append(tasks[b], task)
        BY Zenon, <1>1, <2>2, <3>2 DEF TypeOK
      <4>2. v # task
        BY <4>1 DEF VoteTasks
      <4>3. ASSUME NEW i \in 1 .. Len(tasks'[b]), tasks'[b][i] = v
            PROVE  i \in 1 .. Len(tasks[b]) /\ tasks[b][i] = v
        BY <1>1, <4>1, <4>2, <4>3
      <4> QED BY Zenon, <1>2, <2>4, <4>1, <4>3 DEF Authorised
    <3> QED BY <3>1, <3>2
  <2>5. TypeOK'
    BY Zenon, <1>1, <1>2, <1>4, <2>1, <2>3 DEF TypeOK
  <2>6. VotesMarked' /\ BlocksMarked' /\ NoDoubleBake'
    BY Zenon, <1>2, <2>1, <2>4, SameVotesMarked, SameBlocksMarked DEF SigningInv
  <2> QED BY <1>2, <2>5, <2>6, SameVotes, Preserved
<1>6. ASSUME task.kind # "block", may_sign(hwm[b][task.kind], task.level, task.round)
      PROVE  SigningInv'
  <2> DEFINE kind == task.kind
             mark == hwm[b][kind]
             mark1 == record(mark, task.level, task.round)
  <2>1. task \in VoteTasks
    BY <1>3, <1>6 DEF TasksOf
  <2>2. /\ kind \in {"preattestation", "attestation"} /\ task.level = Level
        /\ task.round \in 0 .. MaxRound
    BY ZenonT(30), <2>1 DEF VoteTasks
  <2>3. /\ hwm' = [hwm EXCEPT ![b][kind] = mark1]
        /\ tasks' = [tasks EXCEPT ![b] = Append(@, task)]
    BY <1>6 DEF process_request, authorized_consensus_votes
  <2>4. mark \in [level : {0, Level}, round : NoRound .. MaxRound]
    BY <1>1, <2>2 DEF TypeOK
  <2>5. /\ mark1 \in [level : {0, Level}, round : NoRound .. MaxRound]
        /\ MarkCovers(mark1, task.round)
        /\ \A r \in 0 .. MaxRound : MarkCovers(mark, r) =>
             MarkCovers(mark1, r) /\ r < task.round
    <3> HIDE DEF mark
    <3>1. may_sign(mark, Level, task.round) /\ mark1 = record(mark, Level, task.round)
      BY Zenon, <1>6, <2>2 DEF mark
    <3>2. MarkCovers(mark1, task.round)
      BY <2>2, <2>4, <3>1, Recorded DEF MarkCovers
    <3> QED BY Zenon, <2>2, <2>4, <3>1, <3>2, Recorded
  <2>6. /\ Append(tasks[b], task) \in Seq(TasksOf(b))
        /\ \A i \in 1 .. Len(Append(tasks[b], task)) :
             \/ Append(tasks[b], task)[i] = task
             \/ i \in 1 .. Len(tasks[b]) /\ tasks[b][i] = Append(tasks[b], task)[i]
    BY <1>1, <1>3
  <2> HIDE DEF task, mark, mark1
  <2>7. DOMAIN tasks' = Detailed /\ \A c \in Detailed : tasks'[c] \in Seq(TasksOf(c))
    BY Zenon, <1>1, <2>3, <2>6 DEF TypeOK
  <2>8. /\ hwm' \in [Detailed -> [{"block", "preattestation", "attestation"} ->
                                [level : {0, Level}, round : NoRound .. MaxRound]]]
        /\ hwm'[b][kind] = mark1
        /\ \A c \in Detailed : \A k \in {"block", "preattestation", "attestation"} :
             c # b \/ k # kind => hwm'[c][k] = hwm[c][k]
    BY ZenonT(30), <1>1, <2>2, <2>3, <2>5 DEF TypeOK
  <2>9. TypeOK'
    BY Zenon, <1>1, <1>2, <1>4, <2>7, <2>8 DEF TypeOK
  <2>10. ASSUME NEW c \in Detailed, NEW v \in VoteTasks, Authorised(c, v)'
         PROVE  Authorised(c, v) \/ (c = b /\ v = task)
    <3>1. CASE c # b
      <4>1. tasks'[c] = tasks[c]
        BY <1>1, <2>3, <3>1 DEF TypeOK
      <4> QED BY Zenon, <1>2, <2>10, <4>1 DEF Authorised
    <3>2. CASE c = b
      <4> DEFINE queue == Append(tasks[b], task)
      <4>1. tasks'[b] = queue
        BY <1>1, <2>3 DEF TypeOK
      <4>2. \A i \in 1 .. Len(queue) :
              queue[i] = task \/ (i \in 1 .. Len(tasks[b]) /\ tasks[b][i] = queue[i])
        BY <2>6
      <4> HIDE DEF queue
      <4> QED BY Zenon, <1>2, <2>10, <3>2, <4>1, <4>2 DEF Authorised
    <3> QED BY Zenon, <3>1, <3>2
  <2>11. \A v \in VoteTasks : Authorised(b, v) /\ v.kind = kind =>
           MarkCovers(mark, v.round) /\ v.round \in 0 .. MaxRound
    BY DEF SigningInv, VotesMarked, VoteTasks, mark
  <2>12. VotesMarked'
    <3> SUFFICES ASSUME NEW c \in Detailed, NEW v \in VoteTasks, Authorised(c, v)'
                 PROVE  /\ MarkCovers(hwm'[c][v.kind], v.round)
                        /\ \A w \in VoteTasks :
                             Authorised(c, w)' /\ w.kind = v.kind /\ w.round = v.round => w = v
      BY DEF VotesMarked, MarkCovers
    <3>1. v.kind \in {"preattestation", "attestation"}
      BY DEF VoteTasks
    <3>2. CASE c # b \/ v.kind # kind
      <4>1. hwm'[c][v.kind] = hwm[c][v.kind]
        BY <2>8, <3>1, <3>2
      <4>2. \A w \in VoteTasks : Authorised(c, w)' /\ w.kind = v.kind => Authorised(c, w)
        BY Zenon, <2>10, <3>2
      <4> QED BY Zenon, <4>1, <4>2 DEF SigningInv, VotesMarked
    <3>3. CASE c = b /\ v.kind = kind
      <4>1. MarkCovers(mark1, v.round)
        BY <2>5, <2>10, <2>11, <3>3
      <4>2. ASSUME NEW w \in VoteTasks, Authorised(b, w)', w.kind = kind, w.round = v.round
            PROVE  w = v
        <5>1. Authorised(b, v) \/ v = task
          BY <2>10, <3>3
        <5>2. Authorised(b, w) \/ w = task
          BY Zenon, <2>10, <4>2
        <5>3. CASE Authorised(b, v) /\ Authorised(b, w)
          BY <3>3, <4>2, <5>3 DEF SigningInv, VotesMarked
        <5>4. CASE Authorised(b, v) /\ w = task
          BY <2>2, <2>5, <2>11, <3>3, <4>2, <5>4
        <5>5. CASE v = task /\ Authorised(b, w)
          BY <2>2, <2>5, <2>11, <3>3, <4>2, <5>5
        <5> QED BY Zenon, <5>1, <5>2, <5>3, <5>4, <5>5
      <4> QED BY <2>8, <3>3, <4>1, <4>2
    <3> QED BY <3>2, <3>3
  <2>13. BlocksMarked' /\ NoDoubleBake'
    <3>1. \A c \in Detailed : hwm'[c]["block"] = hwm[c]["block"]
      BY Zenon, <2>2, <2>8
    <3> QED BY <1>2, <3>1 DEF SigningInv, BlocksMarked, NoDoubleBake, MarkCovers
  <2> QED BY ZenonT(30), <1>2, <2>9, <2>12, <2>13, SameVotes, Preserved
<1> QED BY <1>5, <1>6

(* A new process: the queues are gone, the votes that were waiting in      *)
(* memory were sent or are lost, and the files are as they were.           *)
LEMMA RunKeeps ==
  ASSUME SigningInv, NEW b \in Detailed, NEW head \in Proposals \cup blocks,
         run(b, head, disk[b]), UNCHANGED <<hwm, blocks, peervars>>,
         DOMAIN votes' = DOMAIN votes,
         \A kind \in DOMAIN votes :
           /\ votes'[kind] \subseteq Honest \X (0 .. MaxRound) \X Payloads
           /\ votes[kind] \subseteq votes'[kind]
           /\ \A w \in votes'[kind] : w[1] # b => w \in votes[kind],
         \A w \in VoteTasks : <<b, w.round, w.payload>> \in votes'[w.kind] =>
           <<b, w.round, w.payload>> \in votes[w.kind] \/ w \in st[b].early_attestations
  PROVE  SigningInv'
<1>1. TypeOK /\ FileSound(disk[b]) /\ head \in Chain
  BY Zenon, InChain DEF SigningInv, TypeOK
<1>2. round_of_clock(b, head) \subseteq 0 .. MaxRound
  BY <1>1, ClockRounds
<1>3. PICK now \in 0 .. MaxRound, ops \in Ops :
        LET init == create_initial_state(head, now, disk[b])
            res == compute_bootstrap_event(b, init, ops)
        IN  /\ st' = [st EXCEPT ![b] = res.state]
            /\ requests' = [requests EXCEPT ![b] = res.action.request]
            /\ \E d1 \in may_record_new_state(init, res.state, disk[b]) :
                 disk' = [disk EXCEPT ![b] = d1]
  BY Zenon, Zenon, <1>2 DEF run
<1> DEFINE init == create_initial_state(head, now, disk[b])
           res == compute_bootstrap_event(b, init, ops)
<1>4. StateSound(init) /\ init.early_attestations = {}
  BY Zenon, <1>1, InitialState
<1> HIDE DEF init
<1>5. Handled(b, init, res, {})
  BY Zenon, <1>4, BootstrapEvent
<1> HIDE DEF res
<1>6. /\ StateSound(res.state) /\ res.state.early_attestations = {}
      /\ res.action.request \in Seq(TasksOf(b))
  BY Zenon, <1>4, <1>5 DEF Handled
<1>7. st' = [st EXCEPT ![b] = res.state]
      /\ requests' = [requests EXCEPT ![b] = res.action.request]
  BY <1>3 DEF res, init
<1>8. PICK d1 \in may_record_new_state(init, res.state, disk[b]) :
        disk' = [disk EXCEPT ![b] = d1]
  BY Zenon, Zenon, <1>3 DEF res, init
<1>9. FileSound(d1)
  BY Zenon, <1>1, <1>6, FileRecorded
<1>10. tasks' = [tasks EXCEPT ![b] = << >>]
  BY ZenonT(30) DEF run
<1>11. DOMAIN tasks' = Detailed /\ \A c \in Detailed : tasks'[c] \in Seq(TasksOf(c))
  BY <1>1, <1>10 DEF TypeOK
<1>12. TypeOK'
  <2>1. /\ DOMAIN st' = Detailed /\ DOMAIN requests' = Detailed /\ DOMAIN disk' = Detailed
        /\ \A c \in Detailed : /\ StateSound(st'[c]) /\ FileSound(disk'[c])
                               /\ requests'[c] \in Seq(TasksOf(c))
    BY Zenon, <1>1, <1>6, <1>7, <1>8, <1>9 DEF TypeOK
  <2> QED BY Zenon, <1>1, <1>11, <2>1 DEF TypeOK, peervars
<1>13. ASSUME NEW c \in Detailed, NEW v \in VoteTasks, Authorised(c, v)'
       PROVE  Authorised(c, v)
  <2>0. v.kind \in DOMAIN votes
    BY Zenon, <1>1 DEF TypeOK, VoteTasks
  <2>1. CASE c # b
    <3>1. st'[c] = st[c] /\ tasks'[c] = tasks[c]
      BY Zenon, <1>1, <1>7, <1>10, <2>1 DEF TypeOK
    <3>2. <<c, v.round, v.payload>> \in votes'[v.kind]
            => <<c, v.round, v.payload>> \in votes[v.kind]
      BY Zenon, <2>0, <2>1
    <3> QED BY Zenon, <1>13, <3>1, <3>2 DEF Authorised
  <2>2. CASE c = b
    <3>1. st'[b].early_attestations = {}
      BY Zenon, <1>1, <1>6, <1>7 DEF TypeOK
    <3>2. tasks'[b] = << >> /\ ~ \E i \in 1 .. Len(tasks'[b]) : tasks'[b][i] = v
      BY <1>1, <1>10 DEF TypeOK
    <3>3. <<b, v.round, v.payload>> \in votes'[v.kind]
      BY Zenon, <1>13, <2>2, <3>1, <3>2 DEF Authorised
    <3> QED BY Zenon, <2>2, <3>3 DEF Authorised
  <2> QED BY Zenon, <2>1, <2>2
<1>14. VotesMarked' /\ BlocksMarked' /\ NoDoubleBake'
  BY Zenon, <1>13, SameVotesMarked, SameBlocksMarked DEF SigningInv
<1>15. \A kind \in {"preattestation", "attestation"} :
         /\ votes[kind] \subseteq votes'[kind]
         /\ \A w \in votes'[kind] : w[1] \in Peers => w \in votes[kind]
  BY Zenon, <1>1 DEF TypeOK, Peers
<1> QED BY Zenon, <1>12, <1>14, <1>15, Preserved

(* Restart.                                                                *)
LEMMA RestartKeeps ==
  ASSUME SigningInv, NEW b \in Detailed, NEW head \in Proposals \cup blocks,
         Restart(b, head), UNCHANGED peervars
  PROVE  SigningInv'
<1>1. run(b, head, disk[b]) /\ UNCHANGED <<hwm, blocks, peervars>> /\ votes' = votes
  BY DEF Restart
<1>2. \A kind \in DOMAIN votes :
        votes[kind] \subseteq Honest \X (0 .. MaxRound) \X Payloads
  BY Zenon DEF SigningInv, TypeOK
<1> QED BY <1>1, <1>2, RunKeeps

(* CrashInStep.                                                            *)
LEMMA CrashInStepKeeps ==
  ASSUME SigningInv, NEW b \in Detailed, NEW e, NEW head \in Proposals \cup blocks,
         CrashInStep(b, e, head), UNCHANGED peervars
  PROVE  SigningInv'
<1> DEFINE vs == step_Prequorum_reached(st[b], e.candidate).action.inject
<1>1. run(b, head, disk[b]) /\ UNCHANGED <<hwm, blocks, peervars>>
      /\ votes' = inject_consensus_votes(b, vs)
  BY Zenon DEF CrashInStep
<1>2. TypeOK /\ StateSound(st[b])
  BY DEF SigningInv, TypeOK
<1>3. vs \subseteq st[b].early_attestations
  BY Zenon, <1>2, StepPrequorum DEF Handled
<1> HIDE DEF vs
<1>4. vs \in SUBSET VoteTasks
  BY Zenon, <1>2, <1>3 DEF StateSound
<1>5. /\ DOMAIN votes' = DOMAIN votes
      /\ \A kind \in DOMAIN votes :
           /\ votes'[kind] \subseteq Honest \X (0 .. MaxRound) \X Payloads
           /\ votes[kind] \subseteq votes'[kind]
           /\ \A w \in votes'[kind] : w[1] # b => w \in votes[kind]
      /\ \A w \in VoteTasks : <<b, w.round, w.payload>> \in votes'[w.kind] =>
           <<b, w.round, w.payload>> \in votes[w.kind] \/ w \in vs
  BY Zenon, <1>1, <1>2, <1>4, VotesInjected
<1>6. \A w \in VoteTasks : <<b, w.round, w.payload>> \in votes'[w.kind] =>
        <<b, w.round, w.payload>> \in votes[w.kind] \/ w \in st[b].early_attestations
  BY <1>3, <1>5
<1> QED BY Zenon, <1>1, <1>5, <1>6, RunKeeps

-----------------------------------------------------------------------------
(* The theorems                                                            *)

(* The steps of a detailed baker.                                          *)
LEMMA DetailedKeeps ==
  ASSUME SigningInv, NEW b \in Detailed, DetailedStep(b)
  PROVE  SigningInv'
<1>1. CASE BakerStep(b)
  BY <1>1, ProposalKeeps, EndOfRoundKeeps, NextLevelBlockKeeps, QuorumEventKeeps,
     ForgeEventKeeps, ForgeBlockKeeps DEF DetailedStep, BakerStep
<1>2. CASE WorkerStep(b)
  BY Zenon, <1>2, RequestKeeps, TaskFailsKeeps, MonitoringKeeps DEF DetailedStep, WorkerStep
<1>3. CASE CrashStep(b)
  BY <1>3, RestartKeeps, CrashInStepKeeps DEF DetailedStep, CrashStep
<1> QED BY Zenon, <1>1, <1>2, <1>3 DEF DetailedStep

(* Steps that change nothing.                                              *)
LEMMA StutterKeeps ==
  ASSUME SigningInv, UNCHANGED allvars
  PROVE  SigningInv'
<1>1. UNCHANGED <<st, requests, tasks, hwm, disk, votes, blocks, peer_round>>
  BY DEF allvars, vars, memory
<1>2. TypeOK'
  BY <1>1 DEF SigningInv, TypeOK
<1>3. \A c \in Detailed : \A v \in VoteTasks : Authorised(c, v)' => Authorised(c, v)
  BY <1>1 DEF Authorised
<1>4. VotesMarked' /\ BlocksMarked' /\ NoDoubleBake'
  BY <1>1, <1>3, SameVotesMarked, SameBlocksMarked DEF SigningInv
<1> QED BY <1>1, <1>2, <1>4, SameVotes, Preserved

(* The marks cover everything a baker signs, for every number of bakers,   *)
(* rounds and branches, every quorum system, and every adversity that      *)
(* module Baker lists: crashes, late or failing signatures, and restarts   *)
(* behind the level reached.                                               *)
THEOREM Signing == Spec => []SigningInv
<1>1. SigningInv /\ [Next]_allvars => SigningInv'
  BY DetailedKeeps, PeerKeeps, StutterKeeps DEF Next
<1> QED BY <1>1, InitSound, PTL DEF Spec

(* A baker never sends two votes of one kind for one round.                *)
THEOREM VotesOnce == Spec => []NoDoubleVote
<1>1. SigningInv => NoDoubleVote
  BY DEF SigningInv
<1> QED BY <1>1, Signing, PTL

(* A baker never injects two blocks for one round.                         *)
THEOREM BakesOnce == Spec => []NoDoubleBake
<1>1. SigningInv => NoDoubleBake
  BY DEF SigningInv
<1> QED BY <1>1, Signing, PTL

(* The assertions of propose_block_action and                              *)
(* handle_expected_applied_proposal never fail.                            *)
THEOREM Assertions == Spec => []AssertionsHold
<1>1. SigningInv => AssertionsHold
  BY DEF SigningInv, TypeOK, AssertionsHold, StateSound, FileSound, LockSound
<1> QED BY <1>1, Signing, PTL
=============================================================================
