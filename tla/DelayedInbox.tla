----------------------------- MODULE DelayedInbox -----------------------------
(***************************************************************************)
(* The delayed inbox of the EVM kernel in sequencer mode                   *)
(* (etherlink/kernel_evm/kernel/src/delayed_inbox.rs): transactions and    *)
(* deposits that users post through the L1, kept in a linked list of the   *)
(* durable storage until a blueprint of the sequencer names their hash, or *)
(* until the oldest of them has waited too long and the kernel flushes the *)
(* list into blueprints of its own (stage_one.rs).                         *)
(***************************************************************************)
EXTENDS LinkedList, SequencesExt

CONSTANTS Hash,          \* the hashes of the delayed transactions
          Repost,        \* a transaction may be posted again once it was taken
          Timeout,       \* delayed_inbox_timeout, in seconds
          MinLevels,     \* delayed_inbox_min_levels
          MaxBlueprint,  \* MAX_DELAYED_INBOX_BLUEPRINT_LENGTH
          MaxLevel,      \* bound: L1 levels
          Elapse         \* seconds between two levels, a set

VARIABLES delayed_inbox, \* the list stored at /evm/delayed-inbox
          l1_level,      \* EVM_L1_LEVEL
          l1_timestamp,  \* EVM_INFO_PER_LEVEL_TIMESTAMP
          stats,         \* number and total of the differences between levels
          forced,        \* the blueprints made by the last flush
          saved,         \* the hashes saved and neither taken nor flushed
          posted,        \* the hashes posted so far
          in_order       \* "yes" while blueprints named the first hash each time

vars == <<delayed_inbox, l1_level, l1_timestamp, stats, forced, saved, posted, in_order>>

-------------------------------------------------------------------------------
\* struct DelayedInboxItem
DelayedInboxItem(timestamp, level) == [timestamp |-> timestamp, level |-> level]

\* current_timestamp: the last one told by the L1 plus the average distance.
current_timestamp == l1_timestamp + stats.total \div stats.numbers

\* save_transaction pushes an item stamped with the last info per level.
save_transaction(l, h, timestamp, level) ==
    push(l, h, DelayedInboxItem(timestamp, level))

find_and_remove_transaction(l, h) == remove(l, h)

\* first_if_timed_out: old enough in seconds and in levels.
first_if_timed_out(l, now, level) ==
    LET r == first_with_id(l)
    IN  /\ ~ r.failed
        /\ r.first # None
        /\ now - Get(r.first).elt.timestamp >= Timeout
        /\ level - Get(r.first).elt.level >= MinLevels

first_has_timed_out == first_if_timed_out(delayed_inbox, current_timestamp, l1_level)

\* DelayedInbox::pop_first: the first with its id, then its removal.
pop_first_transaction(l) ==
    LET r == first_with_id(l)
    IN  IF r.failed \/ r.first = None THEN [list |-> l, hash |-> None]
        ELSE [list |-> remove(l, Get(r.first).id).list, hash |-> Some(Get(r.first).id)]

\* next_delayed_inbox_blueprint pops transactions, whether they have timed out
\* or not, until the list is empty or the blueprint is full.
RECURSIVE popped_from(_, _)
popped_from(l, txs) ==
    LET p == pop_first_transaction(l)
    IN  IF Len(txs) >= MaxBlueprint \/ p.hash = None
        THEN [list |-> l, txs |-> txs]
        ELSE popped_from(p.list, Append(txs, Get(p.hash)))

next_delayed_inbox_blueprint(l) == popped_from(l, <<>>)

\* fetch_delayed_transactions: blueprint after blueprint until None.
RECURSIVE fetch_delayed_transactions(_, _)
fetch_delayed_transactions(l, blueprints) ==
    LET b == next_delayed_inbox_blueprint(l)
    IN  IF b.txs = <<>> THEN [list |-> l, blueprints |-> blueprints]
        ELSE fetch_delayed_transactions(b.list, Append(blueprints, b.txs))

-------------------------------------------------------------------------------
\* The hashes met from the front to the back of the stored list.
Content(l) ==
    IF is_empty(l) THEN <<>>
    ELSE LET walk[n \in 1..(Cardinality(Hash) + 1)] ==
                IF n = 1 THEN Some(front(l).id)
                ELSE LET p == neighbour(l, walk[n - 1])
                     IN  IF p = None THEN None ELSE Get(p).next
         IN  [i \in 1..Cardinality({n \in DOMAIN walk : walk[n] # None}) |->
                Get(walk[i])]

\* The kernel after its first info per level, which comes before every delayed
\* input of the first inbox.
Init ==
    /\ delayed_inbox = EmptyList
    /\ l1_level = 0 /\ l1_timestamp = 0
    /\ stats = [numbers |-> 1, total |-> 0]
    /\ forced = <<>>
    /\ saved = {} /\ posted = {} /\ in_order = "yes"

\* store_info_per_level_stats: the difference with the timestamp in storage.
store_info_per_level_stats(stored, new_timestamp) ==
    [numbers |-> stats.numbers + 1,
     total   |-> stats.total + (new_timestamp - stored)]

\* handle_input, Info: store_last_info_per_level_timestamp writes the timestamp
\* before the statistics read it back; then the level.
InfoPerLevel(elapsed) ==
    /\ l1_level < MaxLevel
    /\ l1_level' = l1_level + 1
    /\ l1_timestamp' = l1_timestamp + elapsed
    /\ stats' = store_info_per_level_stats(l1_timestamp + elapsed,
                                           l1_timestamp + elapsed)
    /\ UNCHANGED <<delayed_inbox, forced, saved, posted, in_order>>

\* handle_sequencer_input, DelayedInput, and handle_deposit.
DelayedInput(h) ==
    /\ Repost \/ h \notin posted
    /\ delayed_inbox' = save_transaction(delayed_inbox, h, l1_timestamp, l1_level)
    /\ saved' = saved \union {h}
    /\ posted' = posted \union {h}
    /\ UNCHANGED <<l1_level, l1_timestamp, stats, forced, in_order>>

NamesFirst(h) ==
    LET r == first_with_id(delayed_inbox)
    IN  r.first # None /\ Get(r.first).id = h

\* fetch_delayed_txs of a blueprint that names one more delayed hash.  A
\* sequencer that follows the order of the inbox names the first one.
TakenByBlueprint(h) ==
    /\ h \in saved
    /\ in_order' = IF NamesFirst(h) THEN in_order ELSE "no"
    /\ delayed_inbox' = find_and_remove_transaction(delayed_inbox, h).list
    /\ saved' = IF find_and_remove_transaction(delayed_inbox, h).elt = None
                THEN saved ELSE saved \ {h}
    /\ UNCHANGED <<l1_level, l1_timestamp, stats, forced, posted>>

\* fetch_sequencer_blueprints at the end of a level: flush when the oldest
\* transaction has timed out.
Flush ==
    /\ first_has_timed_out
    /\ LET f == fetch_delayed_transactions(delayed_inbox, <<>>)
       IN  /\ delayed_inbox' = f.list
           /\ forced' = f.blueprints
           /\ saved' = saved \ UNION {Range(f.blueprints[i]) : i \in DOMAIN f.blueprints}
    /\ UNCHANGED <<l1_level, l1_timestamp, stats, posted, in_order>>

Next ==
    \/ \E e \in Elapse : InfoPerLevel(e)
    \/ \E h \in Hash : DelayedInput(h)
    \/ \E h \in Hash : TakenByBlueprint(h)
    \/ Flush

Spec == Init /\ [][Next]_vars

-------------------------------------------------------------------------------
\* find_and_remove_transaction finds every waiting transaction by its hash,
\* with its data, whatever was removed before it.
Findable == \A h \in saved : find(delayed_inbox, h) # None

\* What the inbox promises: a queue of distinct hashes, to whose back a new
\* hash goes, from which a blueprint takes one, and which a flush empties.
QueueStep(q, r) ==
    \/ \E h \in Hash : r = IF h \in Range(q) THEN q ELSE Append(q, h)
    \/ \E h \in Hash : r = SelectSeq(q, LAMBDA x : x # h)
    \/ r = <<>>

\* While blueprints follow the order, the stored list read from its front is
\* that queue (push, remove, pop_first).
QueueSpec ==
    /\ Content(delayed_inbox) = <<>>
    /\ [][in_order' = "yes" => QueueStep(Content(delayed_inbox), Content(delayed_inbox'))]_vars

===============================================================================
