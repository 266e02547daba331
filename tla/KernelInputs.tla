----------------------------- MODULE KernelInputs -----------------------------
(***************************************************************************)
(* How the EVM kernel parses the messages of the rollup inbox and what it  *)
(* does with each of them (etherlink/kernel_evm/kernel/src/parsing.rs,     *)
(* inbox.rs, and the chunked transactions of storage.rs).                  *)
(*                                                                         *)
(* The bytes of a chunk are a model value and its own hash; the bytes of a *)
(* transaction are the sequence of its chunks, and its hash that sequence. *)
(***************************************************************************)
EXTENDS Naturals, Sequences, FiniteSets, FiniteSetsExt, Functions, Bags, TLC

CONSTANTS Modes,          \* a sequence of [sequencer, messages, max_messages]
          Short,          \* chunks below MAX_SIZE_PER_CHUNK
          Undecodable,    \* bytes that are not an Ethereum transaction
          Rollup,         \* the address of this rollup
          Contracts       \* MavrykContracts and the delayed bridge

VARIABLES chunked,        \* /chunked_transactions/<tx_hash>
          transactions,   \* ProxyInboxContent
          delayed,        \* what is saved in the delayed inbox
          stored,         \* the upgrades, the sequencer and blueprint chunks
          read,           \* the bag of the messages read so far
          mode            \* which of Modes the kernel is in

vars == <<chunked, transactions, delayed, stored, read, mode>>

Sequencer   == Modes[mode].sequencer     \* its public key, <<>> in proxy mode
Message     == Modes[mode].messages      \* the messages that may be in an inbox
MaxMessages == Modes[mode].max_messages  \* bound: messages

Unparsable == [input |-> "Unparsable"]

-------------------------------------------------------------------------------
(* parsing.rs *)

parse_simple_transaction(m) ==
    IF m.tx_hash # m.data \/ m.data \in Undecodable THEN Unparsable
    ELSE [input |-> "SimpleTransaction", tx_hash |-> m.tx_hash]

\* The message holds exactly num_chunks hashes.
parse_new_chunked_transaction(m) ==
    IF Len(m.chunk_hashes) # m.num_chunks THEN Unparsable
    ELSE [input |-> "NewChunkedTransaction", tx_hash |-> m.tx_hash,
          num_chunks |-> m.num_chunks, chunk_hashes |-> m.chunk_hashes]

parse_transaction_chunk(m) ==
    IF m.chunk_hash # m.data THEN Unparsable
    ELSE [input |-> "TransactionChunk", tx_hash |-> m.tx_hash, i |-> m.i,
          chunk_hash |-> m.chunk_hash, data |-> m.data]

parse_sequencer_blueprint_input(m) ==
    IF m.signer = Sequencer[1]
    THEN [input |-> "SequencerBlueprint", number |-> m.number, chunk |-> m.chunk]
    ELSE Unparsable

\* Mode::parse_external: users in proxy mode, the sequencer in sequencer mode.
parse_external_of_mode(m) ==
    CASE Sequencer = <<>> /\ m.tag = "simple"    -> parse_simple_transaction(m)
      [] Sequencer = <<>> /\ m.tag = "new_chunked" -> parse_new_chunked_transaction(m)
      [] Sequencer = <<>> /\ m.tag = "chunk"     -> parse_transaction_chunk(m)
      [] Sequencer # <<>> /\ m.tag = "blueprint" -> parse_sequencer_blueprint_input(m)
      [] OTHER -> Unparsable

\* parse_external: framed for this rollup; a forced upgrade is of both modes.
parse_external(m) ==
    IF m.address # Rollup THEN Unparsable
    ELSE IF m.tag = "force_kernel_upgrade" THEN [input |-> "ForceKernelUpgrade"]
    ELSE parse_external_of_mode(m)

\* SequencerInput::parse_internal_bytes; in proxy mode nothing parses.
parse_internal_bytes(m) ==
    IF Sequencer = <<>> \/ m.sender # Contracts.delayed_bridge \/ m.data \in Undecodable
    THEN Unparsable
    ELSE [input |-> "DelayedInput", tx_hash |-> m.data]

\* A ticket of the ticketer, for an address of the right length.
parse_deposit(m) ==
    IF m.ticketer # Contracts.ticketer \/ ~ m.valid_receiver THEN Unparsable
    ELSE [input |-> "Deposit", amount |-> m.amount]

parse_sequencer_update(m) ==
    IF m.bytes = <<>> THEN [input |-> "RemoveSequencer"]
    ELSE [input |-> "SequencerUpgrade", upgrade |-> m.bytes]

\* The sender of a payload decides what its bytes are.
parse_governance(m) ==
    IF m.sender \in {Contracts.admin, Contracts.kernel_governance,
                     Contracts.kernel_security_governance}
    THEN [input |-> "Upgrade", upgrade |-> m.bytes]
    ELSE IF m.sender = Contracts.sequencer_governance THEN parse_sequencer_update(m)
    ELSE Unparsable

parse_internal_transfer(m) ==
    CASE m.destination # Rollup -> Unparsable
      [] m.destination = Rollup /\ m.payload = "deposit" -> parse_deposit(m)
      [] m.destination = Rollup /\ m.payload = "bytes"   -> parse_internal_bytes(m)
      [] OTHER -> parse_governance(m)

parse(m) ==
    CASE m.kind = "external" -> parse_external(m)
      [] m.kind = "transfer" -> parse_internal_transfer(m)
      [] OTHER -> Unparsable

-------------------------------------------------------------------------------
(* Chunked transactions: storage.rs and handle_transaction_chunk *)

create_chunked_transaction(c, p) ==
    IF p.tx_hash \in DOMAIN c THEN c
    ELSE (p.tx_hash :> [num_chunks |-> p.num_chunks,
                        hashes |-> Range(p.chunk_hashes), chunks |-> <<>>]) @@ c

remove_chunked_transaction(c, tx_hash) == Restrict(c, DOMAIN c \ {tx_hash})

\* store_transaction_chunk_data: a chunk already there stays.
store_transaction_chunk_data(c, p) ==
    [c EXCEPT ![p.tx_hash].chunks =
        IF p.i \in DOMAIN @ THEN @ ELSE (p.i :> p.data) @@ @]

is_transaction_complete(c, tx_hash) ==
    Cardinality(DOMAIN c[tx_hash].chunks) >= c[tx_hash].num_chunks

get_full_transaction(c, tx_hash) ==
    [i \in 1..c[tx_hash].num_chunks |-> c[tx_hash].chunks[i - 1]]

ignores(c, p) ==
    \/ p.tx_hash \notin DOMAIN c
    \/ p.i >= c[p.tx_hash].num_chunks
    \/ p.chunk_hash \notin c[p.tx_hash].hashes

\* Mutant of handle_transaction_chunk: the chunks of a complete transaction stay.
handle_chunk_keeping(c, p) ==
    LET s    == store_transaction_chunk_data(c, p)
        data == get_full_transaction(s, p.tx_hash)
    IN  IF ignores(c, p) THEN [chunked |-> c, tx |-> <<>>]
        ELSE [chunked |-> s,
              tx |-> IF is_transaction_complete(s, p.tx_hash) /\ data = p.tx_hash
                     THEN <<[hash |-> p.tx_hash, data |-> data]>> ELSE <<>>]

\* handle_transaction_chunk: a chunk that is too short, unless it is the last,
\* removes the transaction; the last missing chunk gives the whole.
handle_transaction_chunk(c, p) ==
    IF ignores(c, p) THEN [chunked |-> c, tx |-> <<>>]
    ELSE IF p.i # c[p.tx_hash].num_chunks - 1 /\ p.data \in Short
    THEN [chunked |-> remove_chunked_transaction(c, p.tx_hash), tx |-> <<>>]
    ELSE LET s    == store_transaction_chunk_data(c, p)
             data == get_full_transaction(s, p.tx_hash)
         IN  IF ~ is_transaction_complete(s, p.tx_hash) THEN [chunked |-> s, tx |-> <<>>]
             ELSE [chunked |-> remove_chunked_transaction(s, p.tx_hash),
                   tx |-> IF data = p.tx_hash /\ data \notin Undecodable
                          THEN <<[hash |-> p.tx_hash, data |-> data]>> ELSE <<>>]

-------------------------------------------------------------------------------
Init ==
    /\ chunked = <<>> /\ transactions = <<>> /\ delayed = {} /\ read = EmptyBag
    /\ stored = [kernel_upgrade |-> <<>>, sequencer_upgrade |-> <<>>,
                 removed |-> FALSE, blueprints |-> {}]
    /\ mode \in DOMAIN Modes

\* ProxyInput::handle_input and the deposits of the proxy mode.
HandleProxy(p) ==
    LET r == handle_transaction_chunk(chunked, p)
    IN  /\ chunked' = CASE p.input = "NewChunkedTransaction" ->
                                create_chunked_transaction(chunked, p)
                        [] p.input = "TransactionChunk" -> r.chunked
                        [] OTHER -> chunked
        /\ transactions' = transactions \o
              (CASE p.input = "SimpleTransaction" ->
                        <<[hash |-> p.tx_hash, data |-> p.tx_hash]>>
                [] p.input = "TransactionChunk" -> r.tx
                [] p.input = "Deposit" /\ Sequencer = <<>> ->
                        <<[hash |-> <<p.amount>>, data |-> <<p.amount>>]>>
                [] OTHER -> <<>>)

\* SequencerInput::handle_input and the deposits of the sequencer mode.
HandleSequencer(p) ==
    delayed' = CASE p.input = "DelayedInput" -> delayed \cup {p.tx_hash}
                 [] p.input = "Deposit" /\ Sequencer # <<>> -> delayed \cup {<<p.amount>>}
                 [] OTHER -> delayed

\* handle_input: what both modes share.
HandleCommon(p) ==
    stored' = CASE p.input = "Upgrade" -> [stored EXCEPT !.kernel_upgrade = p.upgrade]
                [] p.input = "SequencerUpgrade" ->
                      [stored EXCEPT !.sequencer_upgrade = p.upgrade]
                [] p.input = "RemoveSequencer" -> [stored EXCEPT !.removed = TRUE]
                [] p.input = "SequencerBlueprint" ->
                      [stored EXCEPT !.blueprints = @ \cup {<<p.number, p.chunk>>}]
                [] OTHER -> stored

\* read_input and handle_input of one message.
ReadInput(m) ==
    /\ BagCardinality(read) < MaxMessages
    /\ read' = read (+) SetToBag({m})
    /\ HandleProxy(parse(m)) /\ HandleSequencer(parse(m)) /\ HandleCommon(parse(m))
    /\ UNCHANGED mode

Next == \E m \in Message : ReadInput(m)

Spec == Init /\ [][Next]_vars

-------------------------------------------------------------------------------
\* A transaction put together from chunks, which may come in any order, twice, or
\* at the place of another, has the bytes its announced hash stands for
\* (handle_transaction_chunk).
ChunksMakeTheHash ==
    \A i \in DOMAIN transactions : transactions[i].data = transactions[i].hash

Copies(S) == FoldSet(LAMBDA m, n : n + CopiesIn(m, read), 0, S)

Announces(m, h) ==
    \/ m.kind = "external" /\ m.tag \in {"new_chunked", "simple"} /\ m.tx_hash = h
    \/ m.kind = "transfer" /\ m.payload = "deposit" /\ <<m.amount>> = h

\* A chunked transaction is delivered at most once for each time it is announced,
\* however often its chunks are sent again (store_transaction_chunk).
OncePerAnnouncement ==
    \A h \in {transactions[i].hash : i \in DOMAIN transactions} :
        Cardinality({i \in DOMAIN transactions : transactions[i].hash = h})
            <= Copies({m \in BagToSet(read) : Announces(m, h)})

\* The planned kernel is one that the administrator or a kernel governance
\* contract asked for, through a transfer to this rollup, and the planned
\* sequencer one that the sequencer governance asked for (parse_internal_transfer).
UpgradesByGovernance ==
    LET asked(by) == {m.bytes : m \in {m \in BagToSet(read) :
                                         /\ m.kind = "transfer"
                                         /\ m.payload = "governance"
                                         /\ m.destination = Rollup
                                         /\ m.sender \in by}}
    IN  /\ stored.kernel_upgrade # <<>> =>
              stored.kernel_upgrade \in
                 asked({Contracts.admin, Contracts.kernel_governance,
                        Contracts.kernel_security_governance})
        /\ stored.sequencer_upgrade # <<>> =>
              stored.sequencer_upgrade \in asked({Contracts.sequencer_governance})
===============================================================================
