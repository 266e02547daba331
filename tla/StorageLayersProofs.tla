-------------------------- MODULE StorageLayersProofs --------------------------
(***************************************************************************)
(* The layers of durable storage implement a stack of states, for any      *)
(* objects, values and depth.  The inductive invariant is the type of the  *)
(* state with NoLeftover: the copy of an empty layer copies nothing, so it *)
(* is empty only if nothing was left behind.                               *)
(***************************************************************************)
EXTENDS StorageLayers, TLAPS

Inv == TypeOK /\ NoLeftover

\* The layers of any reachable storage are typed, and nothing lies above them.
LEMMA InitInv == Init => Inv
<1> SUFFICES ASSUME Init PROVE Inv
  OBVIOUS
<1>1. Empty \in Tree
  BY DEF Empty, Tree
<1>2. PICK tree \in Tree :
        durable = [i \in 1..MaxLayers |-> IF i = 1 THEN tree ELSE Empty]
  BY DEF Init
<1> QED
  BY <1>1, <1>2, LayersAssumption DEF Init, Inv, TypeOK, NoLeftover

\* Every operation of the storage keeps the invariant.
LEMMA NextInv == Inv /\ [Next]_vars => Inv'
<1> SUFFICES ASSUME Inv, [Next]_vars PROVE Inv'
  OBVIOUS
<1> USE LayersAssumption DEF Inv, TypeOK, NoLeftover
<1>e. Empty \in Tree
  BY DEF Empty, Tree
<1>1. CASE begin_transaction
  BY <1>1, <1>e DEF begin_transaction, store_has
<1>2. CASE commit_transaction
  BY <1>2, <1>e DEF commit_transaction, consume, store_has
<1>3. CASE rollback_transaction
  BY <1>3, <1>e DEF rollback_transaction, discard, store_has
<1>4. CASE NoCurrentTransaction
  BY <1>4 DEF NoCurrentTransaction
<1>5. ASSUME NEW id \in Ids, delete(id) PROVE Inv'
  <2>1. [durable[layers] EXCEPT ![id] = NoObject] \in Tree
    BY DEF Tree
  <2> QED
    BY <1>5, <2>1 DEF delete
<1>6. ASSUME NEW id \in Ids, NEW value \in Values, write(id, value) PROVE Inv'
  <2>1. [durable[layers] EXCEPT ![id] = value] \in Tree
    BY DEF Tree
  <2> QED
    BY <1>6, <2>1 DEF write
<1>7. CASE UNCHANGED vars
  BY <1>7 DEF vars
<1> QED
  BY <1>1, <1>2, <1>3, <1>4, <1>5, <1>6, <1>7 DEF Next

\* Nothing is ever left behind under the path of a layer that is no more.
THEOREM Clean == Spec => []NoLeftover
<1>1. Inv => NoLeftover
  BY DEF Inv
<1> QED
  BY <1>1, InitInv, NextInv, PTL DEF Spec

\* The storage begins as a stack of one state.
LEMMA InitRefines == Init => TS!Init
  <1> SUFFICES ASSUME Init PROVE TS!Init
    OBVIOUS
  <1>1. PICK tree \in Tree :
          durable = [i \in 1..MaxLayers |-> IF i = 1 THEN tree ELSE Empty]
    BY DEF Init
  <1>2. stack = <<tree>>
    BY <1>1, LayersAssumption DEF Init, stack
  <1> QED
    BY <1>2 DEF Init, TS!Init, TS!Tree, Tree

\* Every operation of the storage is one of the stack, or changes nothing of it.
LEMMA NextRefines == Inv /\ [Next]_vars => [TS!Next]_(TS!vars)
<1> SUFFICES ASSUME Inv, [Next]_vars PROVE [TS!Next]_(TS!vars)
  OBVIOUS
<1>t. /\ durable \in [1..MaxLayers -> Tree]
      /\ layers \in 1..MaxLayers
      /\ \A i \in (layers + 1)..MaxLayers : durable[i] = Empty
  BY DEF Inv, TypeOK, NoLeftover
<1> USE <1>t, LayersAssumption
<1>l. Len(stack) = layers /\ stack \in Seq(Tree)
  BY DEF stack
<1>n. layers \in Nat /\ layers' \in Nat
  BY NextInv DEF Inv, TypeOK
<1>1. CASE begin_transaction
  <2>1. durable'[layers + 1] = durable[layers]
    BY <1>1 DEF begin_transaction, store_has
  <2>2. \A i \in 1..layers : durable'[i] = durable[i]
    BY <1>1 DEF begin_transaction, store_has
  <2>3. stack' = [i \in 1..(layers + 1) |-> IF i = layers + 1 THEN durable[layers] ELSE durable[i]]
    BY <1>1, <2>1, <2>2 DEF begin_transaction, stack
  <2>4. stack' = Append(stack, stack[Len(stack)])
    BY <1>l, <1>n, <2>3 DEF stack
  <2> QED
    BY <1>1, <1>l, <2>4 DEF begin_transaction, TS!Next, TS!begin_transaction
<1>2. CASE commit_transaction
  <2>1. \A i \in 1..(layers - 1) :
          durable'[i] = IF i = layers - 1 THEN durable[layers] ELSE durable[i]
    BY <1>2 DEF commit_transaction, consume, store_has
  <2>2. stack' = [i \in 1..(layers - 1) |-> IF i = layers - 1 THEN stack[layers] ELSE stack[i]]
    BY <1>2, <2>1 DEF commit_transaction, stack
  <2> QED
    BY <1>2, <1>l, <2>2 DEF commit_transaction, consume, TS!Next, TS!commit_transaction
<1>3. CASE rollback_transaction
  <2>1. \A i \in 1..(layers - 1) : durable'[i] = durable[i]
    BY <1>3 DEF rollback_transaction, discard, store_has
  <2>2. stack' = [i \in 1..(layers - 1) |-> stack[i]]
    BY <1>3, <2>1, SMTT(30) DEF rollback_transaction, stack
  <2> QED
    BY <1>3, <1>l, <2>2 DEF rollback_transaction, discard, TS!Next, TS!rollback_transaction
<1>w. ASSUME NEW id \in Ids, NEW value,
             durable' = [durable EXCEPT ![layers][id] = value], layers' = layers
      PROVE  stack' = [stack EXCEPT ![Len(stack)][id] = value]
  <2>1. \A i \in 1..layers :
          durable'[i] = IF i = layers
                        THEN [durable[layers] EXCEPT ![id] = value] ELSE durable[i]
    BY <1>w, SMTT(30)
  <2>2. stack' = [i \in 1..layers |-> IF i = layers
                        THEN [stack[layers] EXCEPT ![id] = value] ELSE stack[i]]
    BY <1>w, <2>1 DEF stack
  <2>3. [stack EXCEPT ![layers][id] = value]
          = [i \in 1..layers |-> IF i = layers
                        THEN [stack[layers] EXCEPT ![id] = value] ELSE stack[i]]
    BY DEF stack
  <2> QED
    BY <1>l, <2>2, <2>3
<1>4. CASE NoCurrentTransaction
  BY <1>4, <1>l DEF NoCurrentTransaction, stack, TS!Next, TS!NoCurrentTransaction
<1>5. ASSUME NEW id \in Ids, delete(id) PROVE TS!Next
  <2>1. TS!write(id, NoObject)
    BY <1>5, <1>w DEF delete, TS!write
  <2> QED
    BY <2>1 DEF TS!Next
<1>6. ASSUME NEW id \in Ids, NEW value \in Values, write(id, value) PROVE TS!Next
  <2>1. TS!write(id, value)
    BY <1>6, <1>w DEF write, TS!write
  <2> QED
    BY <2>1 DEF TS!Next
<1>7. CASE UNCHANGED vars
  BY <1>7 DEF vars, stack, TS!vars
<1> QED
  BY <1>1, <1>2, <1>3, <1>4, <1>5, <1>6, <1>7 DEF Next

\* The layers of durable storage implement the stack of states: a rollback
\* restores what its transaction found, a commit keeps what it wrote.
THEOREM Refinement == Spec => Implements
<1>1. Init /\ [][Next]_vars => []Inv
  BY InitInv, NextInv, PTL
<1> QED
  BY <1>1, InitRefines, NextRefines, PTL DEF Spec, Implements, TS!Spec
===============================================================================
