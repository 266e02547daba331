-------------------------- MODULE ConsensusProofs ---------------------------
(***************************************************************************)
(* Proof that Consensus reaches agreement, for any number of bakers, any   *)
(* quorum system that satisfies QuorumAssumption and any set of rounds.    *)
(***************************************************************************)
EXTENDS Consensus, TLAPS

(* Rounds and the absent round are integers, the absent one the least.     *)
LEMMA RoundsInt ==
  /\ Rounds \cup {NoRound} \subseteq Int
  /\ \A r \in Rounds : NoRound < r
BY RoundAssumption DEF NoRound

-----------------------------------------------------------------------------
(* Facts about quorums                                                     *)

(* A quorum keeps what it gathered when votes are added.                   *)
LEMMA ReachedMonotone ==
  ASSUME NEW U, NEW V, NEW r, NEW p, U \subseteq V, Reached(U, r, p)
  PROVE  Reached(V, r, p)
BY DEF Reached

(* Two prequorums of one round are for the same payload: they share an     *)
(* honest baker, which preattested only once at the round.                 *)
LEMMA PrequorumUnique ==
  ASSUME OnePreattestation, NEW r \in Rounds,
         NEW p \in Payloads, NEW q \in Payloads,
         Prequorum(r, p), Prequorum(r, q)
  PROVE  p = q
<1>1. PICK Q1 \in Quorums : \A b \in Q1 \cap Honest : <<b, r, p>> \in preatts
  BY DEF Prequorum, Reached
<1>2. PICK Q2 \in Quorums : \A b \in Q2 \cap Honest : <<b, r, q>> \in preatts
  BY DEF Prequorum, Reached
<1>3. PICK b \in Q1 \cap Q2 \cap Honest : TRUE
  BY QuorumAssumption
<1> QED
  BY <1>1, <1>2, <1>3 DEF OnePreattestation

(* A closed round has no quorum.                                           *)
LEMMA BlockedExcludesQuorum ==
  ASSUME NEW r, NEW p, Blocked(r, p)
  PROVE  ~Quorum(r, p)
<1>1. PICK Q1 \in Quorums : \A b \in Q1 \cap Honest : <<b, r, p>> \notin atts
  BY DEF Blocked
<1>2. SUFFICES ASSUME Quorum(r, p) PROVE FALSE
  OBVIOUS
<1>3. PICK Q2 \in Quorums : \A b \in Q2 \cap Honest : <<b, r, p>> \in atts
  BY <1>2 DEF Quorum, Reached
<1>4. PICK b \in Q1 \cap Q2 \cap Honest : TRUE
  BY QuorumAssumption
<1> QED
  BY <1>1, <1>3, <1>4

(* The invariant implies agreement.                                        *)
LEMMA InvAgreement ==
  ASSUME Inv
  PROVE  Agreement
<1> USE DEF Inv
<1>1. ASSUME NEW r \in Rounds, NEW p \in Payloads, Quorum(r, p)
      PROVE  Prequorum(r, p)
  <2>1. PICK Q \in Quorums : \A b \in Q \cap Honest : <<b, r, p>> \in atts
    BY <1>1 DEF Quorum, Reached
  <2>2. PICK b \in Q \cap Q \cap Honest : TRUE
    BY QuorumAssumption
  <2> QED
    BY <2>1, <2>2 DEF AttestedLocked
<1>2. ASSUME NEW r1 \in Rounds, NEW r2 \in Rounds,
             NEW p1 \in Payloads, NEW p2 \in Payloads,
             Quorum(r1, p1), Quorum(r2, p2), r1 < r2
      PROVE  p1 = p2
  BY <1>1, <1>2, BlockedExcludesQuorum DEF PrequorumBlocks
<1>3. SUFFICES ASSUME NEW r1 \in Rounds, NEW r2 \in Rounds,
                      NEW p1 \in Payloads, NEW p2 \in Payloads,
                      Quorum(r1, p1), Quorum(r2, p2)
               PROVE  p1 = p2
  BY DEF Agreement, Decided
<1>4. r1 < r2 \/ r2 < r1 \/ r1 = r2
  BY RoundsInt
<1>5. CASE r1 = r2
  BY <1>1, <1>3, <1>5, PrequorumUnique
<1> QED
  BY <1>2, <1>3, <1>4, <1>5

-----------------------------------------------------------------------------
(* The invariant is inductive                                              *)

(* It holds in the initial state, in which nobody voted.                   *)
LEMMA InitInv ==
  ASSUME Init
  PROVE  Inv
<1> USE DEF Init
<1>1. TypeOK
  BY DEF TypeOK, NoLock, Locks
<1>2. OnePreattestation /\ VotesNotAhead /\ AttestedLocked /\ UnlockBlocks
  BY DEF OnePreattestation, VotesNotAhead, AttestedLocked, UnlockBlocks
<1>3. LockReached
  BY DEF LockReached, NoLock
<1>4. PrequorumBlocks
  <2>1. ASSUME NEW r \in Rounds, NEW q \in Payloads, Prequorum(r, q)
        PROVE  FALSE
    <3>1. PICK Q \in Quorums : \A b \in Q \cap Honest : <<b, r, q>> \in preatts
      BY <2>1 DEF Prequorum, Reached
    <3>2. PICK b \in Q \cap Q \cap Honest : TRUE
      BY QuorumAssumption
    <3> QED
      BY <3>1, <3>2
  <2> QED
    BY <2>1 DEF PrequorumBlocks
<1> QED
  BY <1>1, <1>2, <1>3, <1>4 DEF Inv

(* Every step preserves the types.                                         *)
LEMMA NextTypeOK ==
  ASSUME TypeOK, [Next]_vars
  PROVE  TypeOK'
<1> USE DEF TypeOK
<1>1. ASSUME NEW b \in Honest, NEW r \in Rounds, EnterRound(b, r)
      PROVE  TypeOK'
  BY <1>1 DEF EnterRound
<1>2. ASSUME NEW b \in Honest, NEW p \in Payloads, Preattest(b, p)
      PROVE  TypeOK'
  BY <1>2 DEF Preattest, Ballots
<1>3. ASSUME NEW b \in Honest, NEW p \in Payloads, Lock(b, p)
      PROVE  lock' \in [Honest -> Locks]
  BY <1>3 DEF Lock, Locks
<1>4. ASSUME NEW b \in Honest, NEW p \in Payloads, LockOnly(b, p)
      PROVE  TypeOK'
  BY <1>3, <1>4 DEF LockOnly
<1>5. ASSUME NEW b \in Honest, NEW p \in Payloads, Attest(b, p)
      PROVE  TypeOK'
  <2>1. lock' \in [Honest -> Locks]
    BY <1>3, <1>5 DEF Attest
  <2>2. round[b] \in Rounds
    BY <1>5 DEF Attest, Lock
  <2> QED
    BY <1>5, <2>1, <2>2 DEF Attest, Ballots
<1>6. CASE UNCHANGED vars
  BY <1>6 DEF vars
<1> QED
  BY <1>1, <1>2, <1>4, <1>5, <1>6 DEF Next

(* Votes are never withdrawn and rounds never decrease.                    *)
LEMMA StepMonotone ==
  ASSUME TypeOK, [Next]_vars
  PROVE  /\ preatts \subseteq preatts'
         /\ atts \subseteq atts'
         /\ \A b \in Honest : round[b] <= round'[b]
<1>1. ASSUME NEW b \in Honest, NEW r \in Rounds, EnterRound(b, r),
             NEW c \in Honest
      PROVE  round[c] <= round'[c]
  <2>1. round[c] \in Int /\ r \in Int
    BY RoundsInt DEF TypeOK
  <2>2. round'[c] = IF c = b THEN r ELSE round[c]
    BY <1>1 DEF EnterRound, TypeOK
  <2> QED
    BY <1>1, <2>1, <2>2 DEF EnterRound
<1>2. ASSUME round' = round, NEW c \in Honest
      PROVE  round[c] <= round'[c]
  BY <1>2, RoundsInt DEF TypeOK
<1> QED
  BY <1>1, <1>2 DEF Next, EnterRound, Preattest, LockOnly, Attest, vars

(* A prequorum stays reached.                                              *)
LEMMA PrequorumStable ==
  ASSUME TypeOK, [Next]_vars, NEW r, NEW p, Prequorum(r, p)
  PROVE  Prequorum(r, p)'
BY StepMonotone DEF Prequorum, Reached

(* A closed round stays closed: its bakers attest at later rounds only.    *)
LEMMA BlockedStable ==
  ASSUME TypeOK, [Next]_vars, NEW r \in Rounds, NEW p \in Payloads, Blocked(r, p)
  PROVE  Blocked(r, p)'
<1>1. PICK Q \in Quorums : \A b \in Q \cap Honest :
              r < round[b] /\ <<b, r, p>> \notin atts
  BY DEF Blocked
<1>2. SUFFICES ASSUME NEW b \in Q \cap Honest
               PROVE  r < round'[b] /\ <<b, r, p>> \notin atts'
  BY DEF Blocked
<1>3. r < round[b] /\ <<b, r, p>> \notin atts
  BY <1>1
<1>4. r < round'[b]
  <2>1. round[b] <= round'[b]
    BY StepMonotone
  <2>2. TypeOK'
    BY NextTypeOK
  <2>3. round[b] \in Int /\ round'[b] \in Int /\ r \in Int
    BY <2>2, RoundsInt DEF TypeOK
  <2> QED
    BY <1>3, <2>1, <2>3
<1>5. ASSUME <<b, r, p>> \in atts' PROVE FALSE
  <2>1. PICK c \in Honest, q \in Payloads : Attest(c, q)
    BY <1>3, <1>5 DEF Next, EnterRound, Preattest, LockOnly, vars
  <2>2. b = c /\ r = round[c]
    BY <1>3, <1>5, <2>1 DEF Attest
  <2>3. round[b] \in Int
    BY RoundsInt DEF TypeOK
  <2> QED
    BY <1>3, <2>2, <2>3
<1> QED
  BY <1>4, <1>5

(* A step that leaves the preattestations alone keeps earlier rounds       *)
(* closed, if new attestations are for the voter's current round.          *)
LEMMA BlocksStable ==
  ASSUME Inv, [Next]_vars, UNCHANGED preatts,
         \A b \in Honest : \A r \in Rounds : \A p \in Payloads :
           <<b, r, p>> \in atts' \ atts => r = round[b]
  PROVE  PrequorumBlocks' /\ UnlockBlocks'
<1> USE DEF Inv
<1>1. PrequorumBlocks'
  BY BlockedStable DEF PrequorumBlocks, Prequorum
<1>2. UnlockBlocks'
  <2>1. SUFFICES ASSUME NEW b \in Honest, NEW r1 \in Rounds, NEW r2 \in Rounds,
                        NEW p \in Payloads, NEW q \in Payloads,
                        r1 < r2, p # q,
                        <<b, r1, p>> \in atts', <<b, r2, q>> \in preatts'
                 PROVE  Blocked(r1, p)'
    BY DEF UnlockBlocks
  <2>2. <<b, r2, q>> \in preatts /\ r2 <= round[b]
    BY <2>1 DEF VotesNotAhead
  <2>3. r1 # round[b]
    BY <2>1, <2>2, RoundsInt DEF TypeOK
  <2>4. <<b, r1, p>> \in atts
    BY <2>1, <2>3
  <2> QED
    BY <2>1, <2>2, <2>4, BlockedStable DEF UnlockBlocks
<1> QED
  BY <1>1, <1>2

(* Entering a round preserves the invariant.                               *)
LEMMA EnterRoundInv ==
  ASSUME Inv, NEW b \in Honest, NEW r \in Rounds, EnterRound(b, r)
  PROVE  Inv'
<1> USE DEF Inv
<1>1. [Next]_vars
  BY DEF Next
<1>2. TypeOK'
  BY <1>1, NextTypeOK
<1>3. UNCHANGED <<lock, preatts, atts>>
  BY DEF EnterRound
<1>4. OnePreattestation' /\ AttestedLocked'
  BY <1>3 DEF OnePreattestation, AttestedLocked, Prequorum
<1>5. \A c \in Honest : /\ round[c] <= round'[c]
                        /\ round[c] \in Int /\ round'[c] \in Int
  BY <1>1, <1>2, StepMonotone, RoundsInt DEF TypeOK
<1>6. VotesNotAhead'
  BY <1>3, <1>5, RoundsInt DEF VotesNotAhead
<1>7. LockReached'
  <2>1. \A c \in Honest : lock[c].round \in Int
    BY RoundsInt DEF TypeOK, Locks
  <2> QED
    BY <1>3, <1>5, <2>1 DEF LockReached, Prequorum
<1>8. PrequorumBlocks' /\ UnlockBlocks'
  BY <1>1, <1>3, BlocksStable
<1> QED
  BY <1>2, <1>4, <1>6, <1>7, <1>8

(* A preattestation preserves the invariant: the lock lets the baker leave *)
(* a payload it attested only when the round of that vote is closed.       *)
LEMMA PreattestInv ==
  ASSUME Inv, NEW b \in Honest, NEW q \in Payloads, Preattest(b, q)
  PROVE  Inv'
<1> USE DEF Inv
<1>1. [Next]_vars
  BY DEF Next
<1>2. TypeOK'
  BY <1>1, NextTypeOK
<1>3. /\ UNCHANGED <<round, lock, atts>>
      /\ preatts' = preatts \cup {<<b, round[b], q>>}
  BY DEF Preattest
<1>4. round[b] \in Rounds
  BY DEF Preattest, TypeOK
<1>5. \A r, p : Prequorum(r, p) => Prequorum(r, p)'
  BY <1>1, PrequorumStable
<1>6. OnePreattestation'
  BY <1>3, <1>4 DEF OnePreattestation, Preattest
<1>7. VotesNotAhead'
  BY <1>3, <1>4, RoundsInt DEF VotesNotAhead
<1>8. LockReached' /\ AttestedLocked'
  BY <1>3, <1>5 DEF LockReached, AttestedLocked
<1>9. ASSUME NEW r1 \in Rounds, NEW p \in Payloads, r1 < round[b], p # q,
             <<b, r1, p>> \in atts
      PROVE  Blocked(r1, p)
  <2>1. /\ lock[b].round \in Rounds
        /\ r1 <= lock[b].round
        /\ r1 = lock[b].round => p = lock[b].payload
    BY <1>9, RoundsInt DEF AttestedLocked, TypeOK, Locks
  <2>2. PICK r \in Rounds : r1 < r /\ Prequorum(r, q)
    <3>1. CASE lock[b].payload = q
      BY <1>9, <2>1, <3>1, RoundsInt DEF LockReached
    <3>2. CASE \E r \in Rounds : lock[b].round < r /\ Prequorum(r, q)
      BY <2>1, <3>2, RoundsInt
    <3> QED
      BY <2>1, <3>1, <3>2, RoundsInt DEF Preattest, MayPreattest
  <2> QED
    BY <1>9, <2>2 DEF PrequorumBlocks
<1>10. UnlockBlocks'
  <2>1. SUFFICES ASSUME NEW c \in Honest, NEW r1 \in Rounds, NEW r2 \in Rounds,
                        NEW p1 \in Payloads, NEW p2 \in Payloads,
                        r1 < r2, p1 # p2,
                        <<c, r1, p1>> \in atts', <<c, r2, p2>> \in preatts'
                 PROVE  Blocked(r1, p1)'
    BY DEF UnlockBlocks
  <2>2. CASE <<c, r2, p2>> \in preatts
    BY <1>1, <1>3, <2>1, <2>2, BlockedStable DEF UnlockBlocks
  <2>3. CASE <<c, r2, p2>> = <<b, round[b], q>>
    <3>1. c = b /\ r2 = round[b] /\ p2 = q
      BY <2>3
    <3>2. Blocked(r1, p1)
      BY <1>3, <1>9, <2>1, <3>1
    <3> QED
      BY <1>1, <3>2, BlockedStable
  <2> QED
    BY <1>3, <2>1, <2>2, <2>3
<1>11. PrequorumBlocks'
  <2>1. SUFFICES ASSUME NEW r1 \in Rounds, NEW r2 \in Rounds,
                        NEW p1 \in Payloads, NEW p2 \in Payloads,
                        r1 < r2, p1 # p2, Prequorum(r2, p2)'
                 PROVE  Blocked(r1, p1)'
    BY DEF PrequorumBlocks
  <2>2. PICK Q \in Quorums : \A c \in Q \cap Honest : <<c, r2, p2>> \in preatts'
    BY <2>1 DEF Prequorum, Reached
  <2>3. CASE \E c \in Q \cap Honest : <<c, r1, p1>> \in atts'
    BY <1>10, <2>1, <2>2, <2>3 DEF UnlockBlocks
  <2>4. CASE \A c \in Q \cap Honest : <<c, r1, p1>> \notin atts'
    <3>1. ASSUME NEW c \in Q \cap Honest PROVE r1 < round'[c]
      <4>1. r2 <= round'[c]
        BY <1>7, <2>2 DEF VotesNotAhead
      <4>2. round'[c] \in Int /\ r1 \in Int /\ r2 \in Int
        BY <1>2, RoundsInt DEF TypeOK
      <4> QED
        BY <2>1, <4>1, <4>2
    <3> QED
      BY <2>4, <3>1 DEF Blocked
  <2> QED
    BY <2>3, <2>4
<1> QED
  BY <1>2, <1>6, <1>7, <1>8, <1>10, <1>11

(* Locking on the prequorum of the current round preserves what the        *)
(* invariant says of locks; if votes at this round go out, they are for    *)
(* the locked payload.                                                     *)
LEMMA LockInv ==
  ASSUME Inv, [Next]_vars, NEW b \in Honest, NEW p \in Payloads, Lock(b, p),
         UNCHANGED <<round, preatts>>,
         atts' \subseteq atts \cup {<<b, round[b], p>>}
  PROVE  Inv'
<1> USE DEF Inv
<1>1. TypeOK'
  BY NextTypeOK
<1>2. round[b] \in Rounds /\ Prequorum(round[b], p)
  BY DEF Lock, TypeOK
<1>3. \A c \in Honest :
        lock'[c] = IF c = b THEN [round |-> round[b], payload |-> p] ELSE lock[c]
  BY DEF Lock, TypeOK
<1>4. \A r, s : Prequorum(r, s)' <=> Prequorum(r, s)
  BY DEF Prequorum
<1>5. OnePreattestation'
  BY DEF OnePreattestation
<1>6. VotesNotAhead'
  BY <1>2, RoundsInt DEF VotesNotAhead
<1>7. LockReached'
  BY <1>2, <1>3, <1>4, RoundsInt DEF LockReached
<1>8. AttestedLocked'
  <2>1. SUFFICES ASSUME NEW c \in Honest, NEW r \in Rounds, NEW s \in Payloads,
                        <<c, r, s>> \in atts'
                 PROVE  /\ Prequorum(r, s)
                        /\ r <= lock'[c].round
                        /\ r = lock'[c].round => s = lock'[c].payload
    BY <1>4 DEF AttestedLocked
  <2>2. CASE c # b
    <3>1. <<c, r, s>> \in atts
      BY <2>1, <2>2
    <3> QED
      BY <1>3, <2>2, <3>1 DEF AttestedLocked
  <2>3. CASE c = b /\ <<c, r, s>> = <<b, round[b], p>>
    <3>1. r = round[b] /\ s = p
      BY <2>3
    <3> QED
      BY <1>2, <1>3, <2>3, <3>1, RoundsInt
  <2>4. CASE c = b /\ <<c, r, s>> \in atts
    <3>1. Prequorum(r, s)
      BY <2>4 DEF AttestedLocked
    <3>2. r <= round[b]
      BY <2>4 DEF VotesNotAhead
    <3>3. r = round[b] => s = p
      BY <1>2, <3>1, PrequorumUnique
    <3> QED
      BY <1>3, <2>4, <3>1, <3>2, <3>3
  <2> QED
    BY <2>1, <2>2, <2>3, <2>4
<1>9. PrequorumBlocks' /\ UnlockBlocks'
  <2>1. ASSUME NEW c \in Honest, NEW r \in Rounds, NEW s \in Payloads,
               <<c, r, s>> \in atts' \ atts
        PROVE  r = round[c]
    <3>1. <<c, r, s>> = <<b, round[b], p>>
      BY <2>1
    <3> QED
      BY <3>1
  <2> QED
    BY <2>1, BlocksStable
<1> QED
  BY <1>1, <1>5, <1>6, <1>7, <1>8, <1>9

(* Every step preserves the invariant.                                     *)
LEMMA NextInv ==
  ASSUME Inv, [Next]_vars
  PROVE  Inv'
<1>1. ASSUME NEW b \in Honest, NEW p \in Payloads, LockOnly(b, p)
      PROVE  Inv'
  BY <1>1, LockInv DEF LockOnly
<1>2. ASSUME NEW b \in Honest, NEW p \in Payloads, Attest(b, p)
      PROVE  Inv'
  BY <1>2, LockInv DEF Attest
<1>3. CASE UNCHANGED vars
  <2>1. TypeOK' /\ OnePreattestation' /\ VotesNotAhead'
    BY <1>3 DEF vars, Inv, TypeOK, OnePreattestation, VotesNotAhead
  <2>2. LockReached' /\ AttestedLocked'
    BY <1>3 DEF vars, Inv, LockReached, AttestedLocked, Prequorum
  <2>3. PrequorumBlocks' /\ UnlockBlocks'
    BY <1>3, BlocksStable DEF vars
  <2> QED
    BY <2>1, <2>2, <2>3 DEF Inv
<1> QED
  BY <1>1, <1>2, <1>3, EnterRoundInv, PreattestInv DEF Next

-----------------------------------------------------------------------------
(* Type correctness: rounds, locks and votes of honest bakers stay in      *)
(* their types in every behaviour.                                         *)
THEOREM TypeCorrect == Spec => []TypeOK
<1>1. Init => TypeOK
  BY InitInv DEF Inv
<1>2. TypeOK /\ [Next]_vars => TypeOK'
  BY NextTypeOK
<1> QED
  BY <1>1, <1>2, PTL DEF Spec

(* The invariant holds in every behaviour.                                 *)
THEOREM Invariant == Spec => []Inv
<1>1. Init => Inv
  BY InitInv
<1>2. Inv /\ [Next]_vars => Inv'
  BY NextInv
<1> QED
  BY <1>1, <1>2, PTL DEF Spec

(* Agreement: with the voting rules of state_transitions.ml, at most one   *)
(* payload of a level ever gathers an attestation quorum.                  *)
THEOREM Safety == Spec => []Agreement
<1>1. Inv => Agreement
  BY InvAgreement
<1> QED
  BY Invariant, <1>1, PTL
=============================================================================
