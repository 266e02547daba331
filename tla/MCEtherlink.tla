------------------------------ MODULE MCEtherlink -----------------------------
(* The parts of the EVM rollup kernel, instantiated for TLC: the kernel with   *)
(* its blueprints and blocks, the messages of its inbox, its delayed inbox,    *)
(* and the transactional storage under its accounts.  They share no state, so  *)
(* that in each behaviour one part moves and the others rest in an initial     *)
(* state.                                                                      *)
EXTENDS StorageLayers, TLC

VARIABLES
    part,           \* the part that moves
    host, run, inbox, level, outbox, forced, scenario,             \* EvmKernel
    chunked, transactions, delayed, stored, read, mode,            \* KernelInputs
    delayed_inbox, l1_level, l1_timestamp, stats, flushed, saved, posted, in_order

kernel_vars == <<host, run, inbox, level, outbox, forced, scenario>>
inputs_vars == <<chunked, transactions, delayed, stored, read, mode>>
inbox_vars == <<delayed_inbox, l1_level, l1_timestamp, stats, flushed, saved, posted, in_order>>

CONSTANT Hash       \* the hashes of the delayed transactions

-------------------------------------------------------------------------------
(* The kernel: what the inboxes of the levels may hold *)

Blueprint(signer, parent_hash, delayed_hashes, txs, timestamp, nb_chunks) ==
    [signer |-> signer, parent_hash |-> parent_hash, delayed_hashes |-> delayed_hashes,
     transactions |-> txs, timestamp |-> timestamp, nb_chunks |-> nb_chunks]

Chunk(blueprint, number, index) ==
    [type |-> "Chunk", number |-> number, chunk_index |-> index,
     nb_chunks |-> blueprint.nb_chunks, blueprint |-> blueprint]

Deposit == [type |-> "Deposit"]
Delayed(hash) == [type |-> "Delayed", hash |-> hash]
Deposits == <<"d", "f">>
Transaction(hash) == [type |-> "Transaction", hash |-> hash]

\* Two chunks, a transaction that fits in no run, and a repeated nonce; a second
\* version of the first blueprint in one chunk.
first  == Blueprint("sequencer", <<>>, <<>>, <<"a", "huge", "b">>, 1, 2)
second == Blueprint("sequencer", <<<<"a", "b">>>>, <<>>, <<"b", "c">>, 2, 1)
again  == Blueprint("sequencer", <<>>, <<>>, <<"a", "b">>, 1, 1)
orphan == Blueprint("sequencer", <<<<"b">>>>, <<>>, <<"c">>, 1, 1)
fails  == Blueprint("sequencer", <<<<"a", "b">>>>, <<>>, <<"c", "bad">>, 2, 1)

BlockInboxes ==
    {<<Chunk(first, 0, 0), Chunk(first, 0, 1), Chunk(second, 1, 0)>>,
     <<Chunk(second, 1, 0), Chunk(first, 0, 1)>>,
     <<Chunk(first, 0, 0)>>, <<Chunk(again, 0, 0)>>,
     <<Chunk(orphan, 1, 0), Chunk(first, 0, 1)>>, <<Chunk(fails, 1, 0)>>}

\* Blueprints that name deposits, in competition with the timeout.
takes_d == Blueprint("sequencer", <<>>, <<"d">>, <<"a">>, 1, 1)
takes_e == Blueprint("sequencer", <<<<"d", "a">>>>, <<"e">>, <<>>, 2, 1)
twice   == Blueprint("sequencer", <<<<"d", "a">>>>, <<"d">>, <<>>, 2, 1)
after   == Blueprint("sequencer", <<<<"d", "e">>>>, <<"f">>, <<"a">>, 2, 1)

DelayedInboxes ==
    {<<>>, <<Deposit, Delayed("e")>>, <<Chunk(takes_d, 0, 0)>>, <<Deposit>>,
     <<Chunk(takes_e, 1, 0)>>, <<Chunk(twice, 1, 0)>>, <<Chunk(after, 1, 0)>>}

\* Upgrades of the kernel and of the sequencer, and the removal of the latter.
old_a == Blueprint("sequencer", <<>>, <<>>, <<"a">>, 1, 1)
old_b == Blueprint("sequencer", <<<<"a">>>>, <<>>, <<"b">>, 3, 1)
new_b == Blueprint("second", <<<<"a">>>>, <<>>, <<"b">>, 3, 1)

UpgradeInboxes ==
    {<<>>, <<Chunk(old_a, 0, 0), Chunk(old_b, 1, 0)>>, <<Chunk(old_b, 1, 0)>>,
     <<Chunk(new_b, 1, 0)>>,
     <<[type |-> "Upgrade", kernel |-> "new", activation |-> 2]>>,
     <<[type |-> "SequencerUpgrade", sequencer |-> "second", activation |-> 2]>>,
     <<[type |-> "ForceKernelUpgrade"]>>,
     <<[type |-> "RemoveSequencer"], Transaction("c"), Deposit>>}

Scenario(inboxes, reboot_limit, chunks, min_levels, max_level) ==
    [inboxes |-> inboxes, reboot_limit |-> reboot_limit, chunks |-> chunks,
     min_levels |-> min_levels, max_level |-> max_level]

KernelScenarios ==
    <<Scenario(BlockInboxes, FALSE, 2, 1, 4), Scenario(BlockInboxes, TRUE, 4, 1, 4),
      Scenario(DelayedInboxes, FALSE, 6, 2, 6), Scenario(UpgradeInboxes, FALSE, 4, 1, 5)>>

K == INSTANCE EvmKernel
       WITH Scenarios <- KernelScenarios, DepositHash <- Deposits,
            Nonced <- {"a", "b", "c", "e", "huge", "bad"}, Huge <- {"huge"},
            Failing <- {"bad"}, Withdrawing <- {"b", "d"}, MaxDelayed <- 1,
            Day <- 1, OutboxSize <- 1, MaxSize <- 3

-------------------------------------------------------------------------------
(* The inbox messages: the two modes of the kernel *)

contracts == [ticketer |-> "ticketer", admin |-> "admin", delayed_bridge |-> "bridge",
              kernel_governance |-> "kernel", kernel_security_governance |-> "security",
              sequencer_governance |-> "governance"]

undecodable == {<<"bad">>}

External(tag, fields) == [kind |-> "external", address |-> "rollup", tag |-> tag] @@ fields
Transfer(payload, sender, fields) ==
    [kind |-> "transfer", destination |-> "rollup", payload |-> payload,
     sender |-> sender] @@ fields

\* A transaction of two chunks, of which the second is short, and its chunks in
\* their places, swapped, repeated, or lying about their hash.
whole == <<"x", "y">>
ProxyMessages ==
    {External("new_chunked", [tx_hash |-> whole, num_chunks |-> 2, chunk_hashes |-> whole]),
     External("new_chunked", [tx_hash |-> <<"z">>, num_chunks |-> 2, chunk_hashes |-> <<"z">>])}
    \cup {External("chunk", [tx_hash |-> whole, i |-> i, chunk_hash |-> c, data |-> d]) :
            i \in 0..2, c \in {"x", "y"}, d \in {"x", "y"}}
    \cup {External("simple", [tx_hash |-> <<"z">>, data |-> <<d>>]) : d \in {"z", "bad"}}
    \cup {Transfer("deposit", "ticketer",
                   [ticketer |-> t, valid_receiver |-> v, amount |-> "one"]) :
            t \in {"ticketer", "other"}, v \in BOOLEAN}

GovernanceMessages ==
    {Transfer("governance", s, [bytes |-> b]) :
        s \in {"admin", "kernel", "security", "governance", "bridge", "other"},
        b \in {<<>>, <<"new">>}}
    \cup {Transfer("bytes", s, [data |-> d]) : s \in {"bridge", "other"}, d \in {whole, <<"bad">>}}
    \cup {[Transfer("governance", "admin", [bytes |-> <<"else">>]) EXCEPT !.destination = "elsewhere"]}
    \cup {External("blueprint", [signer |-> k, number |-> 0, chunk |-> 0]) : k \in {"edpk", "other"}}
    \cup {External("force_kernel_upgrade", [data |-> <<>>]), [kind |-> "info"]}
    \cup {Transfer("deposit", "ticketer",
                   [ticketer |-> "ticketer", valid_receiver |-> TRUE, amount |-> "one"])}

KernelModes ==
    <<[sequencer |-> <<>>, messages |-> ProxyMessages, max_messages |-> 5],
      [sequencer |-> <<"edpk">>, messages |-> GovernanceMessages, max_messages |-> 3]>>

I == INSTANCE KernelInputs
       WITH Modes <- KernelModes, Short <- {"y"}, Undecodable <- undecodable,
            Rollup <- "rollup", Contracts <- contracts

-------------------------------------------------------------------------------
(* The delayed inbox: every hash is posted once *)

D == INSTANCE DelayedInbox
       WITH Repost <- FALSE, Timeout <- 3, MinLevels <- 2, MaxBlueprint <- 2,
            MaxLevel <- 3, Elapse <- {2}, forced <- flushed

-------------------------------------------------------------------------------
EtherlinkInit ==
    /\ part \in {"layers", "kernel", "inputs", "inbox"}
    /\ Init /\ K!Init /\ I!Init /\ D!Init
    /\ part # "layers" => durable[1] = Empty
    /\ part # "kernel" => scenario = 1
    /\ part # "inputs" => mode = 1

LayersNext == part = "layers" /\ Next /\ UNCHANGED <<part, kernel_vars, inputs_vars, inbox_vars>>
KernelNext == part = "kernel" /\ K!Next /\ UNCHANGED <<part, vars, inputs_vars, inbox_vars>>
InputsNext == part = "inputs" /\ I!Next /\ UNCHANGED <<part, vars, kernel_vars, inbox_vars>>
InboxNext == part = "inbox" /\ D!Next /\ UNCHANGED <<part, vars, kernel_vars, inputs_vars>>

EtherlinkNext == LayersNext \/ KernelNext \/ InputsNext \/ InboxNext

\* The PVM runs the kernel until it stops asking for reboots.
EtherlinkSpec ==
    /\ EtherlinkInit
    /\ [][EtherlinkNext]_<<part, vars, kernel_vars, inputs_vars, inbox_vars>>
    /\ WF_kernel_vars(part = "kernel" /\ K!KernelStep /\ UNCHANGED <<part, vars, inputs_vars, inbox_vars>>)

-------------------------------------------------------------------------------
(* Properties.  That of the layers is Implements.                              *)

\* A block does not depend on where the ticks of a kernel run gave out.
RebootTransparent == K!RebootTransparent

\* The outbox gets the withdrawals of promoted blocks, once and in order, and a
\* deposit is in the chain at most once.
ChainSound == K!OutboxOfChain /\ K!DepositOnce

\* Complete blueprints are used up before the kernel stops asking for reboots,
\* what was flushed from the delayed inbox is kept until it is in a block, nothing
\* overdue is left there at the end of a level, and the chunks in storage are of
\* the sequencer in charge.
BlueprintsSound == K!Drained /\ K!ForcedKept /\ K!OverdueFlushed /\ K!SignedBySequencer

\* The reboots of a level come to an end.
Terminates == K!Terminates

\* A transaction put together from chunks has the bytes its hash stands for and
\* is delivered at most once for each announcement, planned upgrades are those
\* the governance contracts asked for, and every waiting transaction is found by
\* its hash, whatever was removed before.
MessagesSound ==
    I!ChunksMakeTheHash /\ I!OncePerAnnouncement /\ I!UpgradesByGovernance /\ D!Findable

\* The delayed inbox is a queue while blueprints follow its order.
QueueSpec == D!QueueSpec
===============================================================================
