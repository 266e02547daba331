----------------------------- MODULE Consensus ------------------------------
(***************************************************************************)
(* What the bakers together promise at one level: single-shot consensus on *)
(* a payload by rounds of preattestations and attestations, with locks.    *)
(* This is the abstract specification that module Tenderbake implements.   *)
(*                                                                         *)
(* It keeps the voting rules of state_transitions.ml and forgets           *)
(* everything else: phases, workers, files, proposals and restarts.        *)
(***************************************************************************)
EXTENDS Integers, TLC

CONSTANTS
  Bakers,
  Byzantine,   \* their votes are available from the start
  Quorums,     \* sets of bakers whose power reaches consensus_threshold
  Payloads,
  NoPayload,   \* payload of a lock that does not exist
  Rounds

Honest == Bakers \ Byzantine

NoRound == -1

NoLock == [round |-> NoRound, payload |-> NoPayload]

ASSUME RoundAssumption == Rounds \subseteq Nat

(* Less than a third of the power is Byzantine: two quorums share a baker  *)
(* that runs the code.                                                     *)
ASSUME QuorumAssumption ==
  /\ Quorums \subseteq SUBSET Bakers
  /\ \A Q1, Q2 \in Quorums : Q1 \cap Q2 \cap Honest # {}

VARIABLES
  round,   \* current_round of each honest baker, NoRound before the level
  lock,    \* locked_round of each honest baker
  preatts, \* <<b, r, p>>: b preattested payload p at round r
  atts     \* <<b, r, p>>: b attested payload p at round r

vars == <<round, lock, preatts, atts>>

Locks == [round : Rounds \cup {NoRound}, payload : Payloads \cup {NoPayload}]

Ballots == Honest \X Rounds \X Payloads

Reached(ballots, r, p) ==
  \E Q \in Quorums : \A b \in Q \cap Honest : <<b, r, p>> \in ballots

Prequorum(r, p) == Reached(preatts, r, p)

Quorum(r, p) == Reached(atts, r, p)

-----------------------------------------------------------------------------
Init ==
  /\ round = [b \in Honest |-> NoRound]
  /\ lock = [b \in Honest |-> NoLock]
  /\ preatts = {}
  /\ atts = {}

(* End of a round, or a jump to the round that the clock shows.            *)
EnterRound(b, r) ==
  /\ round[b] < r
  /\ round' = [round EXCEPT ![b] = r]
  /\ UNCHANGED <<lock, preatts, atts>>

(* Mutant: the unlocking prequorum may be older than the lock.             *)
MayPreattestAnyPrequorum(b, p) ==
  \/ lock[b].round = NoRound
  \/ lock[b].payload = p
  \/ \E r \in Rounds : r < round[b] /\ Prequorum(r, p)

(* A locked baker preattests its own payload, or one that reached a        *)
(* prequorum after the lock.                                               *)
MayPreattest(b, p) ==
  \/ lock[b].round = NoRound
  \/ lock[b].payload = p
  \/ \E r \in Rounds :
       lock[b].round < r /\ r < round[b] /\ Prequorum(r, p)

Preattest(b, p) ==
  /\ round[b] # NoRound
  /\ \A q \in Payloads : <<b, round[b], q>> \notin preatts
  /\ MayPreattest(b, p)
  /\ preatts' = preatts \cup {<<b, round[b], p>>}
  /\ UNCHANGED <<round, lock, atts>>

Lock(b, p) ==
  /\ round[b] # NoRound
  /\ Prequorum(round[b], p)
  /\ lock' = [lock EXCEPT ![b] = [round |-> round[b], payload |-> p]]

(* A prequorum at the current round locks the baker; its attestation goes  *)
(* out with the lock or later, while the baker is still in the round.      *)
LockOnly(b, p) == Lock(b, p) /\ UNCHANGED <<round, preatts, atts>>

(* Mutant: attests without taking the lock.                                *)
AttestWithoutLock(b, p) ==
  /\ round[b] # NoRound
  /\ Prequorum(round[b], p)
  /\ atts' = atts \cup {<<b, round[b], p>>}
  /\ UNCHANGED <<round, lock, preatts>>

Attest(b, p) ==
  /\ Lock(b, p)
  /\ atts' = atts \cup {<<b, round[b], p>>}
  /\ UNCHANGED <<round, preatts>>

Next ==
  \E b \in Honest :
    \/ \E r \in Rounds : EnterRound(b, r)
    \/ \E p \in Payloads : Preattest(b, p) \/ LockOnly(b, p) \/ Attest(b, p)

Spec == Init /\ [][Next]_vars

-----------------------------------------------------------------------------
(* Rounds, locks and ballots have the expected types.                      *)
TypeOK ==
  /\ round \in [Honest -> Rounds \cup {NoRound}]
  /\ lock \in [Honest -> Locks]
  /\ preatts \subseteq Ballots
  /\ atts \subseteq Ballots

(* At most one payload of the level gathers an attestation quorum, over    *)
(* all rounds.                                                             *)
Decided == { p \in Payloads : \E r \in Rounds : Quorum(r, p) }

Agreement == \A p1, p2 \in Decided : p1 = p2

-----------------------------------------------------------------------------
(* The inductive invariant behind Agreement                                *)

OnePreattestation ==
  \A b \in Honest : \A r \in Rounds : \A p, q \in Payloads :
    <<b, r, p>> \in preatts /\ <<b, r, q>> \in preatts => p = q

VotesNotAhead ==
  \A b \in Honest : \A r \in Rounds : \A p \in Payloads :
    <<b, r, p>> \in preatts \/ <<b, r, p>> \in atts => r <= round[b]

LockReached ==
  \A b \in Honest : lock[b].round # NoRound =>
    /\ lock[b].round <= round[b]
    /\ lock[b].payload \in Payloads
    /\ Prequorum(lock[b].round, lock[b].payload)

AttestedLocked ==
  \A b \in Honest : \A r \in Rounds : \A p \in Payloads :
    <<b, r, p>> \in atts =>
      /\ Prequorum(r, p)
      /\ r <= lock[b].round
      /\ r = lock[b].round => p = lock[b].payload

(* No quorum can be reached any more for payload p at round r.             *)
Blocked(r, p) ==
  \E Q \in Quorums : \A b \in Q \cap Honest :
    r < round[b] /\ <<b, r, p>> \notin atts

PrequorumBlocks ==
  \A r2 \in Rounds : \A q \in Payloads : Prequorum(r2, q) =>
    \A r1 \in Rounds : \A p \in Payloads :
      r1 < r2 /\ p # q => Blocked(r1, p)

UnlockBlocks ==
  \A b \in Honest : \A r1, r2 \in Rounds : \A p, q \in Payloads :
    /\ r1 < r2 /\ p # q
    /\ <<b, r1, p>> \in atts /\ <<b, r2, q>> \in preatts
    => Blocked(r1, p)

(* A prequorum for one payload closes all earlier rounds to the others,    *)
(* and a baker that attested one payload preattests another only when its  *)
(* earlier round is closed (locked_round and the unlocking rule).          *)
Inv ==
  /\ TypeOK
  /\ OnePreattestation
  /\ VotesNotAhead
  /\ LockReached
  /\ AttestedLocked
  /\ PrequorumBlocks
  /\ UnlockBlocks

-----------------------------------------------------------------------------
(* Bakers of equal power are interchangeable, and so are payloads.         *)
Symmetry == Permutations(Honest) \cup Permutations(Payloads)
=============================================================================
