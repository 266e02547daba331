------------------------------ MODULE BigMaps -------------------------------
(***************************************************************************)
(* big_map values and the lazy storage behind them                          *)
(* (contrib/mir/src/ast/big_map.rs).  A value is an id in the storage and   *)
(* an overlay of changes; dump_big_map_updates writes the overlays at the   *)
(* end of a call.  InMemoryLazyStorage is the storage.                      *)
(***************************************************************************)
EXTENDS Integers, Sequences, SequencesExt

CONSTANTS
  Keys, Vals,   \* the keys and the values of the maps
  NoVal,        \* no value under a key
  MaxMaps,      \* bound on the big maps a stack holds
  MaxIds        \* bound on the ids the storage gives out

None == <<>>
Some(x) == <<x>>

VARIABLES
  stack,    \* the values of the running call, top first
  saved,    \* the values the contract kept at the end of the last call
  lazy      \* InMemoryLazyStorage: next_id, big_maps, and whether no access panicked
vars == <<stack, saved, lazy>>

------------------------------------------------------------------------------
(* InMemoryLazyStorage.  An entry of big_maps is the map itself; the types  *)
(* of its keys and values do not change and are left out.                   *)

\* access_big_map panics on an id it does not know.
Accessible(s, id) == id \in DOMAIN s.big_maps

Panicked(s) == [s EXCEPT !.ok = FALSE]

big_map_get(s, id, k) == s.big_maps[id][k]

big_map_mem(s, id, k) == s.big_maps[id][k] # NoVal

big_map_update(s, id, k, v) ==
  IF ~Accessible(s, id) THEN Panicked(s) ELSE [s EXCEPT !.big_maps[id][k] = v]

\* overlay has, at every key, None or the optional value to store.
big_map_bulk_update(s, id, overlay) ==
  FoldSet(LAMBDA k, t : big_map_update(t, id, k, overlay[k][1]), s,
          {k \in Keys : overlay[k] # None})

get_next_id(s) == [s EXCEPT !.next_id = @ + 1]

big_map_new(s) ==
  [get_next_id(s) EXCEPT !.big_maps = (s.next_id :> [k \in Keys |-> NoVal]) @@ @]

big_map_remove(s, id) ==
  [s EXCEPT !.big_maps = [i \in DOMAIN @ \ {id} |-> @[i]]]

big_map_copy(s, id) ==
  IF ~Accessible(s, id) THEN Panicked(get_next_id(s))
  ELSE [get_next_id(s) EXCEPT !.big_maps = (s.next_id :> s.big_maps[id]) @@ @]

------------------------------------------------------------------------------
(* BigMap: its own operations.                                              *)

NoOverlay == [k \in Keys |-> None]

get(s, m, k) ==
  IF m.overlay[k] # None THEN m.overlay[k][1]
  ELSE IF m.id = None THEN NoVal ELSE big_map_get(s, m.id[1], k)

mem(s, m, k) ==
  IF m.overlay[k] # None THEN m.overlay[k][1] # NoVal
  ELSE m.id # None /\ big_map_mem(s, m.id[1], k)

update(m, k, v) == [m EXCEPT !.overlay[k] = Some(v)]

\* TypedValue::collect_big_maps: the big maps inside a value, left to right.
RECURSIVE collect_big_maps(_)
collect_big_maps(v) ==
  IF v[1] = "BigMap" THEN <<v[2]>>
  ELSE collect_big_maps(v[2]) \o collect_big_maps(v[3])

\* view_big_maps_mut gives references: put ms back where they were collected.
RECURSIVE PutBack(_, _)
PutBack(v, ms) ==
  LET n == Len(collect_big_maps(v[2]))
  IN IF v[1] = "BigMap" THEN <<"BigMap", ms[1]>>
     ELSE <<"Pair", PutBack(v[2], SubSeq(ms, 1, n)), PutBack(v[3], SubSeq(ms, n + 1, Len(ms)))>>

view_big_maps(st) == FlattenSeq([i \in DOMAIN st |-> collect_big_maps(st[i])])

view_big_map_ids(st) ==
  LET ms == view_big_maps(st) IN {ms[i].id[1] : i \in {j \in DOMAIN ms : ms[j].id # None}}

------------------------------------------------------------------------------
(* dump_big_map_updates works on d: the storage and the finished maps.      *)

Written(d, i, id, s) ==
  [s |-> big_map_bulk_update(s, id, d.ms[i].overlay),
   ms |-> [d.ms EXCEPT ![i] = [id |-> Some(id), overlay |-> NoOverlay]]]

\* A map that is only in memory becomes a new one in the storage.
Allocate(d, i) ==
  IF d.ms[i].id # None THEN d ELSE Written(d, i, d.s.next_id, big_map_new(d.s))

\* The maps grouped under id: the first is updated in place.  Those after it
\* are copied, each before the stored map changes.
CopyOther(d, i, id) == Written(d, i, d.s.next_id, big_map_copy(d.s, id))

\* The order turned round: the copies see the changes of the first map.
WriteGroup_first(d, id, group) ==
  LET first == Written(d, Head(group), id, d.s)
  IN FoldLeft(LAMBDA e, i : CopyOther(e, i, id), first, Tail(group))

WriteGroup(d, id, group) ==
  LET others == FoldLeft(LAMBDA e, i : CopyOther(e, i, id), d, Tail(group))
  IN Written(others, Head(group), id, others.s)

RemoveGone(s, gone) == FoldSet(LAMBDA id, t : big_map_remove(t, id), s, gone)

dump_big_map_updates(s, started_with, ms) ==
  LET all == [i \in DOMAIN ms |-> i]
      ids == {ms[i].id[1] : i \in {j \in DOMAIN ms : ms[j].id # None}}
      new == FoldLeft(Allocate, [s |-> s, ms |-> ms], all)
      kept == [new EXCEPT !.s = RemoveGone(@, started_with \ ids)]
  IN FoldLeft(LAMBDA d, id : WriteGroup(d, id, SelectSeq(all, LAMBDA i : ms[i].id = Some(id))),
              kept, SetToSortSeq(ids, <))
------------------------------------------------------------------------------
(* A contract called again and again: what it keeps is the next stack.      *)

Init == /\ stack = <<>> /\ saved = <<>>
        /\ lazy = [next_id |-> 0, big_maps |-> <<>>, ok |-> TRUE]

InMemory == <<"BigMap", [id |-> None, overlay |-> NoOverlay]>>

\* EMPTY_BIG_MAP, DUP, DROP, PAIR, UNPAIR and UPDATE, on values only.
Push == /\ Len(view_big_maps(stack)) < MaxMaps
        /\ stack' = <<InMemory>> \o stack
        /\ UNCHANGED <<saved, lazy>>

Dup == /\ stack # <<>>
       /\ Len(view_big_maps(<<Head(stack)>> \o stack)) <= MaxMaps
       /\ stack' = <<Head(stack)>> \o stack
       /\ UNCHANGED <<saved, lazy>>

Drop == stack # <<>> /\ stack' = Tail(stack) /\ UNCHANGED <<saved, lazy>>

Pair == /\ Len(stack) > 1
        /\ stack' = <<<<"Pair", stack[1], stack[2]>>>> \o SubSeq(stack, 3, Len(stack))
        /\ UNCHANGED <<saved, lazy>>

Unpair == /\ stack # <<>> /\ stack[1][1] = "Pair"
          /\ stack' = <<stack[1][2], stack[1][3]>> \o Tail(stack)
          /\ UNCHANGED <<saved, lazy>>

Update(k, v) ==
  /\ stack # <<>> /\ stack[1][1] = "BigMap"
  /\ stack' = <<<<"BigMap", update(stack[1][2], k, v)>>>> \o Tail(stack)
  /\ UNCHANGED <<saved, lazy>>

\* The end of a call: its updates are dumped.
Finish ==
  LET d == dump_big_map_updates(lazy, view_big_map_ids(saved), view_big_maps(stack))
      after == FoldLeft(LAMBDA acc, v :
                 LET n == Len(collect_big_maps(v))
                 IN [st |-> Append(acc.st, PutBack(v, SubSeq(acc.ms, 1, n))),
                     ms |-> SubSeq(acc.ms, n + 1, Len(acc.ms))],
                 [st |-> <<>>, ms |-> d.ms], stack)
  IN /\ d.s.next_id <= MaxIds
     /\ stack' = after.st /\ saved' = after.st /\ lazy' = d.s

\* The end of a call that failed: the storage was never written.
Abort == stack # saved /\ stack' = saved /\ UNCHANGED <<saved, lazy>>

Next == \/ Push \/ Dup \/ Drop \/ Pair \/ Unpair \/ Finish \/ Abort
        \/ \E k \in Keys, v \in Vals \cup {NoVal} : Update(k, v)

Spec == Init /\ [][Next]_vars

------------------------------------------------------------------------------
(* Properties.                                                              *)

\* Every id held by a value is an id of the storage, so no access panics, and
\* MEM answers as GET does (big_map.rs, "The specified big map id must point
\* to a valid map", access_big_map).
IdsValid ==
  /\ lazy.ok
  /\ view_big_map_ids(stack) \cup view_big_map_ids(saved) \subseteq DOMAIN lazy.big_maps
  /\ \A i \in DOMAIN view_big_maps(stack), k \in Keys :
       LET m == view_big_maps(stack)[i] IN mem(lazy, m, k) <=> get(lazy, m, k) # NoVal

\* Between calls no id is held twice, no overlay is left, and the storage has
\* no map that nobody holds (dump_big_map_updates, the invariants its comment
\* lists).
StoredOnce ==
  LET ms == view_big_maps(saved)
  IN /\ \A i, j \in DOMAIN ms : ms[i].id # None /\ (ms[i].id = ms[j].id => i = j)
     /\ \A i \in DOMAIN ms : ms[i].overlay = NoOverlay
     /\ DOMAIN lazy.big_maps = view_big_map_ids(saved)

\* The value behind ids and overlays.
RECURSIVE Contents(_)
Contents(v) ==
  IF v[1] = "BigMap" THEN <<"BigMap", [k \in Keys |-> get(lazy, v[2], k)]>>
  ELSE <<"Pair", Contents(v[2]), Contents(v[3])>>

Seen(values) == [i \in DOMAIN values |-> Contents(values[i])]

\* What Michelson promises of big maps: the step of a contract from the values
\* s and the kept values k to s2 and k2, were its maps plain values.
PureStep(s, k, s2, k2) ==
  \/ /\ k2 = k
     /\ \/ s2 = <<<<"BigMap", [key \in Keys |-> NoVal]>>>> \o s
        \/ s # <<>> /\ s2 = <<Head(s)>> \o s
        \/ s # <<>> /\ s2 = Tail(s)
        \/ Len(s) > 1 /\ s2 = <<<<"Pair", s[1], s[2]>>>> \o SubSeq(s, 3, Len(s))
        \/ s # <<>> /\ s[1][1] = "Pair" /\ s2 = <<s[1][2], s[1][3]>> \o Tail(s)
        \/ /\ s # <<>> /\ s[1][1] = "BigMap"
           /\ \E key \in Keys, v \in Vals \cup {NoVal} :
                s2 = <<<<"BigMap", [s[1][2] EXCEPT ![key] = v]>>>> \o Tail(s)
        \/ s2 = k
        \/ s2 = s
  \/ k2 = s /\ s2 = s

\* Big maps behave as values: no update of one is seen through another, in
\* the same call or a later one, and a failed call changes none
\* (dump_big_map_updates, which copies a map before it updates it in place).
MapsAreValues ==
  [][PureStep(Seen(stack), Seen(saved), Seen(stack)', Seen(saved)')]_vars
==============================================================================
