------------------------------ MODULE LinkedList ------------------------------
(***************************************************************************)
(* The doubly linked list of the EVM kernel's durable storage              *)
(* (etherlink/kernel_evm/kernel/src/linked_list.rs), as operators on a     *)
(* record that holds what is stored under the list's path:                 *)
(*   pointers  the metadata (/meta): <<>> for an empty list, or the pair   *)
(*             of the front and the back Pointer, kept by the struct and   *)
(*             saved as a copy beside the pointers of the elements;        *)
(*   ptr       /<id>/pointer, a Pointer for each id that has one;          *)
(*   data      /<id>/data, the element of each id that has one.            *)
(* Every operation saves the struct before it returns, so the value kept   *)
(* in memory and the one LinkedList::new reads back are the same.          *)
(***************************************************************************)
EXTENDS Naturals, Sequences, FiniteSets, Functions, TLC

\* Option<T>
None == <<>>
Some(x) == <<x>>
Get(o) == o[1]

\* struct Pointer: the ids of the element and of its two neighbours.
Pointer(id, previous, next) == [id |-> id, previous |-> previous, next |-> next]

\* struct LinkedListPointer: copies of the front and of the back pointer.
LinkedListPointer(front, back) == [front |-> front, back |-> back]

EmptyList == [pointers |-> None, ptr |-> <<>>, data |-> <<>>]

\* Pointer::read: None when nothing is stored at the id's pointer path.
Pointer_read(l, id) ==
    IF id \in DOMAIN l.ptr THEN Some(l.ptr[id]) ELSE None

\* Pointer::save writes the pointer at the path of its own id.
Pointer_save(l, p) == [l EXCEPT !.ptr = (p.id :> p) @@ @]

\* Pointer::save_data.
save_data(l, id, elt) == [l EXCEPT !.data = (id :> elt) @@ @]

\* Pointer::remove_with_data deletes the directory of the id.
remove_with_data(l, id) ==
    [l EXCEPT !.ptr  = Restrict(@, DOMAIN @ \ {id}),
              !.data = Restrict(@, DOMAIN @ \ {id})]

is_empty(l) == l.pointers = None

front(l) == Get(l.pointers).front
back(l)  == Get(l.pointers).back

with_pointers(l, f, b) ==
    [l EXCEPT !.pointers = Some(LinkedListPointer(f, b))]

\* push: nothing when the id already has a pointer.  The old back is written
\* again from the copy kept in the struct, with its next changed.
push(l, id, elt) ==
    IF Pointer_read(l, id) # None THEN l
    ELSE IF is_empty(l)
    THEN LET only == Pointer(id, None, None)
         IN  with_pointers(save_data(Pointer_save(l, only), id, elt), only, only)
    ELSE LET penultimate == [back(l) EXCEPT !.next = Some(id)]
             new_back    == Pointer(id, Some(penultimate.id), None)
         IN  with_pointers(
                 save_data(Pointer_save(Pointer_save(l, penultimate), new_back),
                           id, elt),
                 front(l), new_back)

\* find: the data of an id that has a pointer.
find(l, id) ==
    IF id \in DOMAIN l.ptr \cap DOMAIN l.data THEN Some(l.data[id]) ELSE None

neighbour(l, id) == IF id = None THEN None ELSE Pointer_read(l, Get(id))

\* Mutant of unlink: removing the head leaves the front as it was.
unlink_keeping_front(l, previous, next) ==
    IF previous = None /\ next = None THEN [l EXCEPT !.pointers = None]
    ELSE IF previous = None
    THEN Pointer_save(l, [Get(next) EXCEPT !.previous = None])
    ELSE l

\* The stores of remove once the pointer and its data are gone: the four
\* cases on the neighbours that were read before the deletion.  The last one
\* leaves the copies of the front and of the back as they are.
unlink(l, previous, next) ==
    CASE previous = None /\ next = None ->
            [l EXCEPT !.pointers = None]
      [] previous = None /\ next # None ->
            LET new_front == [Get(next) EXCEPT !.previous = None]
            IN  with_pointers(Pointer_save(l, new_front), new_front, back(l))
      [] previous # None /\ next = None ->
            LET new_back == [Get(previous) EXCEPT !.next = None]
            IN  with_pointers(Pointer_save(l, new_back), front(l), new_back)
      [] OTHER ->
            Pointer_save(
                Pointer_save(l, [Get(previous) EXCEPT !.next = Some(Get(next).id)]),
                [Get(next) EXCEPT !.previous = Some(Get(previous).id)])

\* remove: the list and the element removed; failed when the pointer has no
\* data (the `?` of get_data).
remove(l, id) ==
    IF is_empty(l) \/ Pointer_read(l, id) = None
    THEN [list |-> l, elt |-> None, failed |-> FALSE]
    ELSE IF id \notin DOMAIN l.data
    THEN [list |-> l, elt |-> None, failed |-> TRUE]
    ELSE LET pointer == l.ptr[id]
         IN  [list |-> unlink(remove_with_data(l, id),
                              neighbour(l, pointer.previous),
                              neighbour(l, pointer.next)),
              elt |-> Some(l.data[id]), failed |-> FALSE]

\* first_with_id takes the id from the copy of the front pointer.
first_with_id(l) ==
    IF is_empty(l)
    THEN [first |-> None, failed |-> FALSE]
    ELSE IF front(l).id \notin DOMAIN l.data
    THEN [first |-> None, failed |-> TRUE]
    ELSE [first |-> Some([id |-> front(l).id, elt |-> l.data[front(l).id]]),
          failed |-> FALSE]

\* pop_first removes the id of the copy of the front pointer.
pop_first(l) ==
    IF is_empty(l) THEN [list |-> l, elt |-> None, failed |-> FALSE]
    ELSE remove(l, front(l).id)

\* delete removes the whole directory.
delete(l) == EmptyList
===============================================================================
