------------------------------- MODULE EvmKernel -------------------------------
(***************************************************************************)
(* The EVM kernel of a smart rollup (etherlink/kernel_evm/kernel/src): one *)
(* kernel_run after another, each of them a migration check (stage zero),  *)
(* the reading of the level's inbox (stage one) or the production of       *)
(* blocks from the stored blueprints (stage two), until a run ends without *)
(* a mark for reboot.  A block is computed on a copy of the world state    *)
(* (safe_storage.rs), may be spread over several runs, and is promoted or  *)
(* reverted as a whole.                                                    *)
(*                                                                         *)
(* The tick model only decides where a run is cut: that is left to chance, *)
(* with the exceptions the code makes for the first transaction of a run.  *)
(* Timestamps are L1 levels.  The queue of the outbox is a sequence.  The  *)
(* durable storage is a record; among its fields are                       *)
(*   chain       the blocks of /evm/world_state/blocks, oldest first;      *)
(*   blueprints  /evm/blueprints/<number>: nb_chunks and the chunks;       *)
(*   delayed     the delayed inbox, oldest first, as DelayedInbox has it.  *)
(* A block hash is the sequence of the transactions of the blocks up to it.*)
(***************************************************************************)
EXTENDS Integers, Sequences, SequencesExt, Functions, TLC

CONSTANTS Scenarios,      \* a sequence of [inboxes, reboot_limit, chunks, min_levels, max_level]
          DepositHash,    \* the hashes of the deposits, by nonce
          Nonced,         \* transactions with a nonce: all but the deposits
          Huge,           \* transactions too large for a whole run
          Failing,        \* transactions whose application returns an error
          Withdrawing,    \* transactions that queue a message for the outbox
          MaxDelayed,     \* MAX_DELAYED_INBOX_BLUEPRINT_LENGTH
          Day,            \* levels in 86400 seconds
          OutboxSize,     \* messages the outbox of a level takes
          MaxSize         \* MAXIMUM_NUMBER_OF_CHUNKS, in messages of maximal size

-------------------------------------------------------------------------------
(* The stored blueprints (blueprint_storage.rs) *)

\* Option<T>
None == <<>>
Some(x) == <<x>>
Get(o) == o[1]

\* enum StoreBlueprint
SequencerChunk(blueprint, index) ==
    [inbox |-> FALSE, blueprint |-> blueprint, index |-> index]
InboxBlueprint(transactions, timestamp) ==
    [inbox |-> TRUE, index |-> 0,
     blueprint |-> [transactions |-> transactions, timestamp |-> timestamp]]

BlockHash(chain) == [i \in DOMAIN chain |-> chain[i].transactions]

\* read_next_blueprint_number: blocks are numbered from zero.
read_next_blueprint_number(host) == Len(host.chain)

\* The writes shared by the three stores: nb_chunks, then one chunk.  The
\* chunks stored before at other indexes stay.
store_chunk(host, number, nb_chunks, index, chunk) ==
    LET stored == IF number \in DOMAIN host.blueprints
                  THEN host.blueprints[number].chunks ELSE <<>>
    IN  [host EXCEPT !.blueprints =
            (number :> [nb_chunks |-> nb_chunks,
                        chunks |-> (index :> chunk) @@ stored]) @@ @]

store_sequencer_blueprint(host, m) ==
    store_chunk(host, m.number, m.nb_chunks, m.chunk_index,
                SequencerChunk(m.blueprint, m.chunk_index))

store_immediate_blueprint(host, transactions, timestamp, number) ==
    store_chunk(host, number, 1, 0, InboxBlueprint(transactions, timestamp))

store_inbox_blueprint(host, transactions, timestamp) ==
    store_chunk(host, read_next_blueprint_number(host), 1, 0,
                InboxBlueprint(transactions, timestamp))

drop_blueprint(host, number) ==
    [host EXCEPT !.blueprints = Restrict(@, DOMAIN @ \ {number})]

clear_all_blueprint(host) == [host EXCEPT !.blueprints = <<>>]

valid_parent_hash(host, blueprint) ==
    blueprint.parent_hash = BlockHash(host.chain)

\* DelayedInbox::find_and_remove_transaction on the queue.
remove_delayed(host, h) ==
    [host EXCEPT !.delayed = SelectSeq(@, LAMBDA d : d.hash # h)]

is_delayed(host, h) == \E i \in DOMAIN host.delayed : host.delayed[i].hash = h

\* fetch_delayed_txs takes the hashes out of the inbox one by one, and stops at
\* the first that is missing or that makes the blueprint too large.
RECURSIVE fetch_delayed_txs(_, _, _, _)
fetch_delayed_txs(host, hashes, txs, size) ==
    IF hashes = <<>> THEN [host |-> host, txs |-> Some(txs)]
    ELSE LET found == is_delayed(host, Head(hashes))
             taken == remove_delayed(host, Head(hashes))
         IN  IF size + 1 > MaxSize \/ ~ found
             THEN [host |-> taken, txs |-> None]
             ELSE fetch_delayed_txs(taken, Tail(hashes),
                                    Append(txs, Head(hashes)), size + 1)

\* The bytes of the chunks, put end to end, decode to a blueprint when they are
\* all of the chunks of that blueprint.
decoded(chunks) ==
    IF /\ chunks # <<>>
       /\ \A i \in DOMAIN chunks : /\ chunks[i].blueprint = chunks[1].blueprint
                                   /\ chunks[i].index = i - 1
       /\ Len(chunks) = chunks[1].blueprint.nb_chunks
    THEN Some(chunks[1].blueprint) ELSE None

\* parse_and_validate_blueprint: the delayed transactions go first.
parse_and_validate_blueprint(host, chunks) ==
    LET b == decoded(chunks)
    IN  IF b = None \/ ~ valid_parent_hash(host, Get(b))
        THEN [host |-> host, blueprint |-> None]
        ELSE LET r == fetch_delayed_txs(host, Get(b).delayed_hashes, <<>>, Len(chunks))
             IN  [host |-> r.host,
                  blueprint |->
                     IF r.txs = None THEN None
                     ELSE Some([transactions |-> Get(r.txs) \o Get(b).transactions,
                                timestamp |-> Get(b).timestamp])]

\* read_all_chunks_and_validate: a missing chunk is an error, the first inbox
\* blueprint met is the answer; an invalid blueprint is deleted.  In proxy mode
\* the chunks of a sequencer are left where they are.
read_all_chunks_and_validate(host, number, sequencer_mode) ==
    LET b      == host.blueprints[number]
        wanted == 0..(b.nb_chunks - 1)
        inbox  == {i \in wanted \cap DOMAIN b.chunks :
                     b.chunks[i].inbox /\ 0..i \subseteq DOMAIN b.chunks}
        chunks == [i \in 1..b.nb_chunks |-> b.chunks[i - 1]]
        v      == parse_and_validate_blueprint(host, chunks)
    IN  CASE b.nb_chunks > MaxSize ->
               [host |-> drop_blueprint(host, number), blueprint |-> None,
                failed |-> FALSE]
          [] b.nb_chunks <= MaxSize /\ inbox # {} ->
               [host |-> host, failed |-> FALSE,
                blueprint |->
                   Some(b.chunks[CHOOSE i \in inbox : \A j \in inbox : i <= j].blueprint)]
          [] b.nb_chunks <= MaxSize /\ inbox = {} /\ ~ wanted \subseteq DOMAIN b.chunks ->
               [host |-> host, blueprint |-> None, failed |-> TRUE]
          [] OTHER ->
               IF ~ sequencer_mode
               THEN [host |-> host, blueprint |-> None, failed |-> FALSE]
               ELSE [host |-> IF v.blueprint = None THEN drop_blueprint(v.host, number)
                              ELSE v.host,
                     blueprint |-> v.blueprint, failed |-> FALSE]

\* read_next_blueprint: only when exactly nb_chunks chunks are stored; with more
\* than that the whole blueprint is deleted.
read_next_blueprint(host, sequencer_mode) ==
    LET number    == read_next_blueprint_number(host)
        available == Cardinality(DOMAIN host.blueprints[number].chunks)
        nb_chunks == host.blueprints[number].nb_chunks
        nothing(h) == [host |-> h, blueprint |-> None, failed |-> FALSE]
    IN  CASE number \notin DOMAIN host.blueprints -> nothing(host)
          [] number \in DOMAIN host.blueprints /\ available = nb_chunks ->
               read_all_chunks_and_validate(host, number, sequencer_mode)
          [] number \in DOMAIN host.blueprints /\ available > nb_chunks ->
               nothing(drop_blueprint(host, number))
          [] OTHER -> nothing(host)

-------------------------------------------------------------------------------
VARIABLES host,    \* the durable storage
          run,     \* the memory of the current kernel_run
          inbox,   \* the messages of the level not yet read
          level,   \* the L1 level
          outbox,  \* the messages written to the outbox, all levels
          forced,  \* the delayed transactions flushed by a timeout so far
          scenario \* which of Scenarios is played

vars == <<host, run, inbox, level, outbox, forced, scenario>>

Inboxes      == Scenarios[scenario].inboxes       \* what a level may carry
RebootLimit  == Scenarios[scenario].reboot_limit  \* its reboots may run out
ChunksPerRun == Scenarios[scenario].chunks        \* inputs a run may parse
MinLevels    == Scenarios[scenario].min_levels    \* levels before the timeout
MaxLevel     == Scenarios[scenario].max_level     \* bound: levels

-------------------------------------------------------------------------------

Idle == [pc |-> "idle"]

\* The storage of an originated kernel in sequencer mode.
Init ==
    /\ host = [chain |-> <<>>, queue |-> <<>>, tmp |-> None,
               blueprints |-> <<>>, delayed |-> <<>>,
               sequencer |-> Some("sequencer"), sequencer_upgrade |-> None,
               kernel_upgrade |-> None, kernel |-> "old", backup |-> "old",
               l1_level |-> 0, deposit_nonce |-> 0, storage_version |-> 1]
    /\ run = Idle
    /\ inbox = <<>> /\ level = 0 /\ outbox = <<>> /\ forced = {}
    /\ scenario \in DOMAIN Scenarios

-------------------------------------------------------------------------------
(* The runs *)

\* STORAGE_VERSION of a kernel.
STORAGE_VERSION(kernel) == IF kernel = "old" THEN 1 ELSE 2

\* The PVM collects the inbox of the next level, which begins with its info.
NewLevel(messages) ==
    /\ run.pc = "idle" /\ level < MaxLevel
    /\ host.deposit_nonce + Len(SelectSeq(messages, LAMBDA m : m.type = "Deposit"))
          <= Len(DepositHash)
    /\ level' = level + 1
    /\ inbox' = <<[type |-> "Info", level |-> level + 1]>> \o messages
    /\ run' = [pc |-> "zero"]
    /\ UNCHANGED <<host, outbox, forced, scenario>>

\* The end of kernel_loop.
end_run(reboot) == [pc |-> IF reboot THEN "reboot" ELSE "idle"]

Reboot ==
    /\ run.pc = "reboot"
    /\ run' = [pc |-> "zero"]
    /\ UNCHANGED <<host, inbox, level, outbox, forced, scenario>>

\* The PVM refuses one reboot too many; what is left of the inbox is lost.
TooManyReboots ==
    /\ RebootLimit /\ run.pc = "reboot"
    /\ run' = Idle /\ inbox' = <<>>
    /\ UNCHANGED <<host, level, outbox, forced, scenario>>

\* main up to stage one: storage_migration, then fetch_configuration.
StageZero ==
    /\ run.pc = "zero"
    /\ IF STORAGE_VERSION(host.kernel) = host.storage_version + 1
       THEN /\ run' = end_run(TRUE)
            /\ \/ host' = [host EXCEPT !.storage_version = STORAGE_VERSION(host.kernel)]
               \/ host' = [host EXCEPT !.kernel = host.backup]   \* fallback_backup_kernel
       ELSE /\ run' = [pc |-> "one", sequencer |-> host.sequencer,
                       inbox_is_empty |-> TRUE, chunks |-> ChunksPerRun,
                       transactions |-> <<>>]
            /\ host' = host
    /\ UNCHANGED <<inbox, level, outbox, forced, scenario>>

-------------------------------------------------------------------------------
(* Stage one *)

\* upgrade::upgrade: the backup, the new kernel, and a mark for reboot.
upgrade(h) ==
    [h EXCEPT !.backup = h.kernel, !.kernel = Get(h.kernel_upgrade).kernel,
              !.kernel_upgrade = None]

force_kernel_upgrade_due(h) ==
    /\ h.kernel_upgrade # None
    /\ h.l1_level >= Get(h.kernel_upgrade).activation + Day

save_transaction(h, hash) ==
    IF is_delayed(h, hash) THEN h
    ELSE [h EXCEPT !.delayed = Append(@, [hash |-> hash, level |-> h.l1_level])]

\* handle_deposit: the hash of a deposit depends on its nonce.
deposit_hash(h) == DepositHash[h.deposit_nonce + 1]
get_and_increment_deposit_nonce(h) == [h EXCEPT !.deposit_nonce = @ + 1]

\* parse_sequencer_blueprint_input: signed by the sequencer the run started with.
parses(r, m) ==
    r.sequencer # None /\ m.blueprint.signer = Get(r.sequencer) /\ m.nb_chunks <= MaxSize

\* handle_input on the durable storage.  In proxy mode the messages of a
\* sequencer do not parse, and in sequencer mode those of users do not.
handle_input(h, r, m) ==
    CASE m.type = "Info" -> [h EXCEPT !.l1_level = m.level]
      [] m.type = "Upgrade" ->
            [h EXCEPT !.kernel_upgrade =
                Some([kernel |-> m.kernel, activation |-> m.activation])]
      [] m.type = "SequencerUpgrade" ->
            [h EXCEPT !.sequencer_upgrade =
                Some([sequencer |-> m.sequencer, activation |-> m.activation])]
      [] m.type = "RemoveSequencer" -> [h EXCEPT !.sequencer = None]
      [] m.type = "ForceKernelUpgrade" /\ force_kernel_upgrade_due(h) -> upgrade(h)
      [] m.type = "Chunk" /\ parses(r, m) -> store_sequencer_blueprint(h, m)
      [] m.type = "Delayed" /\ r.sequencer # None -> save_transaction(h, m.hash)
      [] m.type = "Deposit" ->
            LET next == get_and_increment_deposit_nonce(h)
            IN  IF r.sequencer # None THEN save_transaction(next, deposit_hash(h)) ELSE next
      [] OTHER -> h

\* read_and_dispatch_input: the transactions kept in memory in proxy mode, the
\* ticks of what is parsed in sequencer mode.
ReadInput ==
    /\ run.pc = "one" /\ inbox # <<>> /\ run.chunks > 0
    /\ LET m == Head(inbox)
       IN  /\ host' = handle_input(host, run, m)
           /\ run' = [run EXCEPT
                 !.inbox_is_empty = FALSE,
                 !.chunks = IF /\ m.type \in {"Chunk", "Delayed", "Deposit"}
                               /\ run.sequencer # None THEN @ - 1 ELSE @,
                 !.transactions =
                    IF run.sequencer # None THEN @
                    ELSE IF m.type = "Transaction" THEN Append(@, m.hash)
                    ELSE IF m.type = "Deposit" THEN Append(@, deposit_hash(host))
                    ELSE @]
    /\ inbox' = Tail(inbox)
    /\ UNCHANGED <<level, outbox, forced, scenario>>

\* read_sequencer_inbox: not enough ticks left for another chunk.
OutOfChunks ==
    /\ run.pc = "one" /\ run.chunks = 0
    /\ run' = end_run(TRUE)
    /\ UNCHANGED <<host, inbox, level, outbox, forced, scenario>>

timed_out(h) ==
    h.delayed # <<>> /\ h.l1_level - h.delayed[1].level >= MinLevels

\* Mutant of fetch_delayed_transactions: every blueprint at the same number.
RECURSIVE fetch_at_base(_, _)
fetch_at_base(h, number) ==
    IF h.delayed = <<>> THEN h
    ELSE LET n   == IF Len(h.delayed) < MaxDelayed THEN Len(h.delayed) ELSE MaxDelayed
             txs == [i \in 1..n |-> h.delayed[i].hash]
         IN  fetch_at_base(
                 store_immediate_blueprint(
                     [h EXCEPT !.delayed = SubSeq(@, n + 1, Len(@))],
                     txs, h.l1_level, number),
                 number)

\* fetch_delayed_transactions: the whole inbox, in blueprints from the next
\* number on.
RECURSIVE fetch_delayed_transactions(_, _)
fetch_delayed_transactions(h, number) ==
    IF h.delayed = <<>> THEN h
    ELSE LET n   == IF Len(h.delayed) < MaxDelayed THEN Len(h.delayed) ELSE MaxDelayed
             txs == [i \in 1..n |-> h.delayed[i].hash]
         IN  fetch_delayed_transactions(
                 store_immediate_blueprint(
                     [h EXCEPT !.delayed = SubSeq(@, n + 1, Len(@))],
                     txs, h.l1_level, number),
                 number + 1)

\* fetch_sequencer_blueprints once the inbox is read: Done, or Skipped when
\* nothing was read in this run.
FinishSequencerInbox ==
    /\ run.pc = "one" /\ inbox = <<>> /\ run.sequencer # None /\ run.chunks > 0
    /\ IF run.inbox_is_empty
       THEN /\ run' = [run EXCEPT !.pc = "two"]
            /\ UNCHANGED <<host, forced>>
       ELSE /\ run' = end_run(TRUE)
            /\ IF timed_out(host)
               THEN /\ host' = fetch_delayed_transactions(host,
                                   read_next_blueprint_number(host))
                    /\ forced' = forced \cup {d.hash : d \in Range(host.delayed)}
               ELSE UNCHANGED <<host, forced>>
    /\ UNCHANGED <<inbox, level, outbox, scenario>>

\* fetch_proxy_blueprints once the inbox is read.
FinishProxyInbox ==
    /\ run.pc = "one" /\ inbox = <<>> /\ run.sequencer = None
    /\ IF run.inbox_is_empty
       THEN run' = [run EXCEPT !.pc = "two"] /\ host' = host
       ELSE /\ run' = end_run(TRUE)
            /\ host' = store_inbox_blueprint(host, run.transactions, host.l1_level)
    /\ UNCHANGED <<inbox, level, outbox, forced, scenario>>

-------------------------------------------------------------------------------
(* Stage two *)

\* possible_sequencer_upgrade: the new sequencer starts from no blueprint.
possible_sequencer_upgrade(h) ==
    IF h.sequencer_upgrade # None /\ h.l1_level >= Get(h.sequencer_upgrade).activation
    THEN clear_all_blueprint(
            [h EXCEPT !.sequencer = Some(Get(h.sequencer_upgrade).sequencer),
                      !.sequencer_upgrade = None])
    ELSE h

\* BlockInProgress::from_blueprint.  `blueprint` remembers the whole queue.
from_blueprint(b, number) ==
    [number |-> number, timestamp |-> b.timestamp, tx_queue |-> b.transactions,
     valid_txs |-> <<>>, blueprint |-> b.transactions]

computing(r, bip, resumed, first_block) ==
    [pc |-> "block", sequencer |-> r.sequencer, bip |-> bip,
     resumed |-> resumed, first_block |-> first_block, first_tx |-> TRUE]

looking(r, first_block) ==
    [pc |-> "next", sequencer |-> r.sequencer, first_block |-> first_block]

\* produce: a block in progress found in the temporary storage is resumed.
Produce ==
    /\ run.pc = "two"
    /\ IF host.tmp # None /\ Get(host.tmp).bip # None
       THEN run' = computing(run, Get(Get(host.tmp).bip), TRUE, TRUE) /\ host' = host
       ELSE run' = looking(run, TRUE) /\ host' = possible_sequencer_upgrade(host)
    /\ UNCHANGED <<inbox, level, outbox, forced, scenario>>

\* SafeStorage: start copies the world state, promote moves the copy back with
\* the new block, revert deletes the copy.
start(h) == [h EXCEPT !.tmp = Some([chain |-> h.chain, queue |-> h.queue, bip |-> None])]

revert(h) == [h EXCEPT !.tmp = None]

promote(h, block) ==
    [h EXCEPT !.chain = Append(Get(h.tmp).chain, block),
              !.queue = Get(h.tmp).queue, !.tmp = None]

\* next_bip_from_blueprints: an error or no blueprint ends the run; a blueprint
\* that is late enough makes room for the new kernel.
next_bip_from_blueprints ==
    /\ run.pc = "next"
    /\ LET r == read_next_blueprint(host, run.sequencer # None)
           b == Get(r.blueprint)
       IN  IF r.failed \/ r.blueprint = None
           THEN host' = r.host /\ run' = end_run(FALSE)
           ELSE IF /\ host.kernel_upgrade # None
                   /\ b.timestamp >= Get(host.kernel_upgrade).activation
           THEN host' = upgrade(r.host) /\ run' = end_run(TRUE)
           ELSE /\ host' = start(r.host)
                /\ run' = computing(run, from_blueprint(b, Len(host.chain)), FALSE,
                                    run.first_block)
    /\ UNCHANGED <<inbox, level, outbox, forced, scenario>>

\* Not enough ticks to read a blueprint after the blocks of this run.
NoTicksForBlueprint ==
    /\ run.pc = "next" /\ ~ run.first_block
    /\ run' = end_run(TRUE)
    /\ UNCHANGED <<host, inbox, level, outbox, forced, scenario>>

tx == Head(run.bip.tx_queue)

popped == [run.bip EXCEPT !.tx_queue = Tail(@)]

\* Mutant of retriable: a transaction alone in its run is tried again.
always_retriable == TRUE

\* The first transaction of the first block of a run has all of its ticks.
retriable == ~ run.first_tx \/ ~ run.first_block

store_block_in_progress(h, bip) ==
    [h EXCEPT !.tmp = Some([Get(@) EXCEPT !.bip = Some(bip)])]

\* Mutant of CutTransaction: the transaction is not put back.
CutAndDrop ==
    /\ run.pc = "block" /\ run.bip.tx_queue # <<>>
    /\ retriable \/ tx \in Huge
    /\ host' = store_block_in_progress(host, popped)
    /\ run' = end_run(TRUE)
    /\ UNCHANGED <<inbox, level, outbox, forced, scenario>>

\* compute: no ticks for the transaction, or all of them spent on it.  It is put
\* back in front, unless it had the whole run: then it is discarded.
CutTransaction ==
    /\ run.pc = "block" /\ run.bip.tx_queue # <<>>
    /\ retriable \/ tx \in Huge
    /\ host' = store_block_in_progress(host, IF retriable THEN run.bip ELSE popped)
    /\ run' = end_run(TRUE)
    /\ UNCHANGED <<inbox, level, outbox, forced, scenario>>

executed_txs == UNION {Range(Get(host.tmp).chain[i].transactions) :
                          i \in DOMAIN Get(host.tmp).chain} \cup Range(run.bip.valid_txs)

\* compute: a valid transaction is registered, one with an old nonce is skipped.
ApplyTransaction ==
    /\ run.pc = "block" /\ run.bip.tx_queue # <<>>
    /\ tx \notin Huge \cup Failing
    /\ LET valid == tx \notin Nonced \/ tx \notin executed_txs
       IN  /\ run' = [run EXCEPT !.first_tx = FALSE,
                        !.bip = IF valid THEN [popped EXCEPT !.valid_txs = Append(@, tx)]
                                ELSE popped]
           /\ host' = IF valid /\ tx \in Withdrawing
                      THEN [host EXCEPT !.tmp = Some([Get(@) EXCEPT !.queue = Append(@, tx)])]
                      ELSE host
    /\ UNCHANGED <<inbox, level, outbox, forced, scenario>>

\* revert_block
RevertBlock ==
    /\ run.pc = "block" /\ run.bip.tx_queue # <<>>
    /\ tx \in Failing
    /\ host' = drop_blueprint(revert(host), run.bip.number)
    /\ run' = end_run(TRUE)
    /\ UNCHANGED <<inbox, level, outbox, forced, scenario>>

\* OutboxQueue::flush_queue writes until the outbox of the level is full.
flushed(h) ==
    LET room == OutboxSize - Len(SelectSeq(outbox, LAMBDA o : o.level = level))
    IN  IF Len(h.queue) < room THEN Len(h.queue) ELSE room

\* Mutant of promote_block: the queue is flushed and kept.
promote_block_keeping_queue(h, block) ==
    LET promoted == drop_blueprint(promote(h, block), run.bip.number)
    IN  /\ host' = promoted
        /\ outbox' = outbox \o [i \in 1..flushed(promoted) |->
                                   [level |-> level, tx |-> promoted.queue[i]]]

promote_block(h, block) ==
    LET promoted == drop_blueprint(promote(h, block), run.bip.number)
        n        == flushed(promoted)
    IN  /\ host' = [promoted EXCEPT !.queue = SubSeq(@, n + 1, Len(@))]
        /\ outbox' = outbox \o [i \in 1..n |-> [level |-> level, tx |-> promoted.queue[i]]]

\* compute_bip and promote_block, once the queue is empty.
FinishBlock ==
    /\ run.pc = "block" /\ run.bip.tx_queue = <<>>
    /\ promote_block(host, [transactions |-> run.bip.valid_txs,
                            timestamp |-> run.bip.timestamp,
                            blueprint |-> run.bip.blueprint, kernel |-> host.kernel])
    /\ run' = IF run.resumed THEN [pc |-> "upgrade", sequencer |-> run.sequencer]
              ELSE looking(run, FALSE)
    /\ UNCHANGED <<inbox, level, forced, scenario>>

\* produce, after a resumed block.
SequencerUpgrade ==
    /\ run.pc = "upgrade"
    /\ host' = possible_sequencer_upgrade(host)
    /\ run' = looking(run, FALSE)
    /\ UNCHANGED <<inbox, level, outbox, forced, scenario>>

KernelStep ==
    \/ Reboot \/ StageZero \/ ReadInput \/ OutOfChunks
    \/ FinishSequencerInbox \/ FinishProxyInbox
    \/ Produce \/ next_bip_from_blueprints \/ NoTicksForBlueprint
    \/ CutTransaction \/ ApplyTransaction \/ RevertBlock \/ FinishBlock
    \/ SequencerUpgrade

Next ==
    \/ \E messages \in Inboxes : NewLevel(messages)
    \/ TooManyReboots
    \/ KernelStep

\* The PVM runs the kernel until it stops asking for reboots.
Spec == Init /\ [][Next]_vars /\ WF_vars(KernelStep)

-------------------------------------------------------------------------------
(* Properties *)

\* What a whole blueprint executed at once after the given transactions gives.
RECURSIVE ExecutedAtOnce(_, _)
ExecutedAtOnce(queue, done) ==
    IF queue = <<>> THEN <<>>
    ELSE LET t == Head(queue)
         IN  IF t \in Huge \/ (t \in Nonced /\ t \in done)
             THEN ExecutedAtOnce(Tail(queue), done)
             ELSE <<t>> \o ExecutedAtOnce(Tail(queue), done \cup {t})

\* A block does not depend on where the ticks ran out: however its computation
\* was spread over kernel runs and levels (store_block_in_progress, repush_tx),
\* it holds what executing its blueprint at once after the blocks before gives.
RebootTransparent ==
    \A n \in DOMAIN host.chain :
        host.chain[n].transactions =
            ExecutedAtOnce(host.chain[n].blueprint,
                UNION {Range(host.chain[i].transactions) : i \in 1..(n - 1)})

\* The outbox gets the withdrawals of the promoted blocks, each once and in
\* order, and nothing of a block that is reverted or still in progress
\* (promote_block, flush_queue).
OutboxOfChain ==
    [i \in DOMAIN outbox |-> outbox[i].tx] \o host.queue =
        SelectSeq(FlattenSeq(BlockHash(host.chain)), LAMBDA t : t \in Withdrawing)

\* When the kernel stops asking for reboots, the next blueprint is not there in
\* full: a stored one was used, or deleted as invalid or inconsistent
\* (read_next_blueprint); unless the reboots of the level ran out.
Drained ==
    LET n == read_next_blueprint_number(host)
    IN  (~ RebootLimit /\ run.pc = "idle" /\ host.sequencer # None /\ n \in DOMAIN host.blueprints) =>
            Cardinality(DOMAIN host.blueprints[n].chunks) < host.blueprints[n].nb_chunks

\* Every level is over at some point: a transaction that gets no ticks when it
\* has a run for itself is discarded (compute), so reboots do not go on forever.
Terminates == (run.pc # "idle") ~> (run.pc = "idle")

\* The transactions of the inbox blueprints stored and of the blocks, finished or
\* in progress.
InBlueprints ==
    UNION {UNION {Range(c.blueprint.transactions) :
                     c \in {c \in Range(host.blueprints[n].chunks) : c.inbox}} :
             n \in DOMAIN host.blueprints}
InBlocks ==
    UNION {Range(host.chain[i].transactions) : i \in DOMAIN host.chain}
    \cup (IF run.pc = "block" THEN Range(run.bip.blueprint) ELSE {})
    \cup (IF host.tmp = None \/ Get(host.tmp).bip = None THEN {}
          ELSE Range(Get(Get(host.tmp).bip).blueprint))

\* No message of the scenario replaces or removes the sequencer.
SequencerStays ==
    \A messages \in Inboxes : \A i \in DOMAIN messages :
        messages[i].type \notin {"SequencerUpgrade", "RemoveSequencer"}

\* A delayed transaction flushed because one has timed out is executed: it is in
\* a stored blueprint until it is in a block (fetch_delayed_transactions), while
\* the sequencer stays.
ForcedKept == SequencerStays => forced \subseteq InBlueprints \cup InBlocks

\* A deposit, which has no nonce, is in the chain at most once, even when two
\* blueprints name it or when it is flushed while a blueprint names it
\* (find_and_remove_transaction).
DepositOnce ==
    LET all == FlattenSeq(BlockHash(host.chain))
    IN  \A i, j \in DOMAIN all : (all[i] = all[j] /\ all[i] \notin Nonced) => i = j

\* At the end of a level nothing overdue is left in the delayed inbox of a
\* kernel in sequencer mode, while the sequencer stays
\* (fetch_sequencer_blueprints).
OverdueFlushed ==
    (SequencerStays /\ run.pc = "idle" /\ host.sequencer # None /\ host.delayed # <<>>) =>
        host.l1_level - host.delayed[1].level < MinLevels

\* The chunks in storage are of the sequencer in charge: those of its
\* predecessor never make a block (possible_sequencer_upgrade).
SignedBySequencer ==
    host.sequencer # None =>
        \A n \in DOMAIN host.blueprints : \A c \in Range(host.blueprints[n].chunks) :
            c.inbox \/ c.blueprint.signer = Get(host.sequencer)
===============================================================================
