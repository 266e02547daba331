--------------------------- MODULE TransactionStack ---------------------------
(***************************************************************************)
(* What the transactional storage of a kernel promises                     *)
(* (kernel_sdk/storage/src/storage.rs): a stack of states of the stored    *)
(* objects, the first of them the original one.  Objects are read and      *)
(* written in the last state; a transaction is begun by copying that state,*)
(* committed by replacing the one below it, and rolled back by forgetting  *)
(* it.                                                                     *)
(***************************************************************************)
EXTENDS Naturals, Sequences

CONSTANTS Ids,       \* the identifiers of the stored objects
          Values,    \* what an object may hold
          NoObject,  \* nothing is stored for the object
          MaxLayers  \* bound: layers

VARIABLES stack, result

vars == <<stack, result>>

Tree == [Ids -> Values \cup {NoObject}]

\* Nothing is stored.
Empty == [id \in Ids |-> NoObject]

Init == result = "written" /\ \E tree \in Tree : stack = <<tree>>

begin_transaction ==
    /\ Len(stack) < MaxLayers
    /\ stack' = Append(stack, stack[Len(stack)])
    /\ result' = "begun"

commit_transaction ==
    /\ Len(stack) > 1
    /\ stack' = [i \in 1..(Len(stack) - 1) |->
                    IF i = Len(stack) - 1 THEN stack[Len(stack)] ELSE stack[i]]
    /\ result' = "committed"

rollback_transaction ==
    /\ Len(stack) > 1
    /\ stack' = [i \in 1..(Len(stack) - 1) |-> stack[i]]
    /\ result' = "rolledback"

\* The deletion of an object that is not there changes nothing and fails.
write(id, value) ==
    /\ stack' = [stack EXCEPT ![Len(stack)][id] = value]
    /\ result' \in {"written", "Err"}

\* A commit or rollback without a transaction.
NoCurrentTransaction == Len(stack) = 1 /\ stack' = stack /\ result' = "Err"

Next ==
    \/ begin_transaction \/ commit_transaction \/ rollback_transaction
    \/ NoCurrentTransaction
    \/ \E id \in Ids, value \in Values \cup {NoObject} : write(id, value)

Spec == Init /\ [][Next]_vars
===============================================================================
