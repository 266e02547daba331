----------------------------- MODULE StorageLayers -----------------------------
(***************************************************************************)
(* The transactional storage of a kernel as it lies in durable storage     *)
(* (kernel_sdk/storage/src/storage.rs, layer.rs): layer 1 under the prefix *)
(* of the storage, layer i under prefix.i.  A layer is copied, moved and   *)
(* deleted as a subtree of durable storage, where a subtree without values *)
(* does not exist: the copy of an empty layer copies nothing, and a moved  *)
(* or deleted path must be there.                                          *)
(***************************************************************************)
EXTENDS Naturals, Sequences

CONSTANTS Ids,       \* the identifiers of the stored objects
          Values,    \* what an object may hold
          NoObject,  \* nothing is stored for the object
          MaxLayers  \* bound: layers

ASSUME LayersAssumption == MaxLayers \in Nat \ {0}

VARIABLES durable,  \* what lies under the path of each layer
          layers,   \* the number of layers of the storage in memory
          result    \* of the last operation

vars == <<durable, layers, result>>

Tree == [Ids -> Values \cup {NoObject}]

Empty == [id \in Ids |-> NoObject]

Init ==
    /\ \E tree \in Tree :
          durable = [i \in 1..MaxLayers |-> IF i = 1 THEN tree ELSE Empty]
    /\ layers = 1 /\ result = "written"

\* store_has on the path of a layer.
store_has(i) == durable[i] # Empty

\* force_make_copy: store_copy replaces what lies at the new path; a missing
\* source is no error and changes nothing.
begin_transaction ==
    /\ layers < MaxLayers
    /\ layers' = layers + 1
    /\ durable' = IF store_has(layers)
                  THEN [durable EXCEPT ![layers + 1] = durable[layers]]
                  ELSE durable
    /\ result' = "begun"

consume_only_contents ==
    /\ durable' = IF store_has(layers)
                  THEN [durable EXCEPT ![layers - 1] = durable[layers],
                                       ![layers] = Empty]
                  ELSE durable
    /\ result' = "committed"

\* Layer::consume: the layer is moved over the one below; an empty one deletes it.
consume ==
    /\ durable' =
         IF store_has(layers)
         THEN [durable EXCEPT ![layers - 1] = durable[layers], ![layers] = Empty]
         ELSE IF store_has(layers - 1)
              THEN [durable EXCEPT ![layers - 1] = Empty]
              ELSE durable
    /\ result' = "committed"

commit_transaction ==
    /\ layers > 1
    /\ layers' = layers - 1
    /\ consume

\* Layer::discard.
discard ==
    /\ durable' = IF store_has(layers)
                  THEN [durable EXCEPT ![layers] = Empty] ELSE durable
    /\ result' = "rolledback"

rollback_transaction ==
    /\ layers > 1
    /\ layers' = layers - 1
    /\ discard

\* An object obtained with get_or_create writes its values.
write(id, value) ==
    /\ durable' = [durable EXCEPT ![layers][id] = value]
    /\ layers' = layers /\ result' = "written"

\* Storage::delete: the deletion of a path that is not there fails.
delete(id) ==
    /\ durable' = [durable EXCEPT ![layers][id] = NoObject]
    /\ layers' = layers /\ result' = IF durable[layers][id] = NoObject THEN "Err" ELSE "written"

\* A commit or rollback without a transaction: NoCurrentTransaction.
NoCurrentTransaction ==
    /\ layers = 1 /\ result' = "Err"
    /\ UNCHANGED <<durable, layers>>

Next ==
    \/ begin_transaction \/ commit_transaction \/ rollback_transaction
    \/ NoCurrentTransaction
    \/ \E id \in Ids : delete(id) \/ \E value \in Values : write(id, value)

Spec == Init /\ [][Next]_vars

-------------------------------------------------------------------------------

TypeOK ==
    /\ durable \in [1..MaxLayers -> Tree]
    /\ layers \in 1..MaxLayers
    /\ result \in {"begun", "committed", "rolledback", "written", "Err"}

\* Nothing is left behind under the path of a layer that is no more: a later
\* transaction on an empty layer, which copies nothing, would read it.
NoLeftover == \A i \in (layers + 1)..MaxLayers : durable[i] = Empty

\* The layers are a stack of states: what a transaction writes is seen in it,
\* kept by its commit and undone by its rollback, however transactions nest.
stack == [i \in 1..layers |-> durable[i]]

TS == INSTANCE TransactionStack

Implements == TS!Spec
===============================================================================
