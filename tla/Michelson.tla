----------------------------- MODULE Michelson -----------------------------
(***************************************************************************)
(* Michelson under MIR.  A program runs one instruction at a time: the      *)
(* typechecker of MichelsonTypechecker takes the instruction on the stack   *)
(* of types, and the typed instruction it returns is interpreted by         *)
(* MichelsonInterpreter on the stack of values.                             *)
(*                                                                          *)
(* A suite is a family of instructions.  The gas left when an instruction   *)
(* starts is one of its limits; once exhausted it stays so.                 *)
(***************************************************************************)
EXTENDS MichelsonInterpreter

CONSTANTS
  Suites,      \* the families of instructions
  TcGas,       \* the milligas for typechecking
  entrypoints, \* the entrypoints of the contract that runs
  big_maps     \* the big maps of the storage

VARIABLES
  suite,       \* the family that runs
  ts,          \* the stack of types, top first
  vs,          \* the stack of values, top first
  exhausted,   \* is the gas exhausted?
  counters,    \* operation_counter and origination_counter of Ctx
  res          \* how the last instruction ended

machine == <<ts, vs, exhausted, counters>>
vars == <<suite, machine, res>>

Suite == Suites[suite]

Machine(st, gas) ==
  [r |-> "ok", gas |-> gas, st |-> st, out |-> <<>>, failed |-> FALSE, eps |-> <<>>,
   lazy |-> big_maps, ops |-> counters.ops, orig |-> counters.orig]

Init == /\ suite \in DOMAIN Suites
        /\ ts = <<>> /\ vs = <<>>
        /\ exhausted = FALSE
        /\ counters = [ops |-> 0, orig |-> 0]
        /\ res = "ok"

Typecheck(i) == typecheck_instruction(Machine(ts, TcGas), i, Some(entrypoints))

Interpret(code, g) == interpret_one(Machine(vs, IF exhausted THEN Exhausted ELSE g), code)

RECURSIVE Small(_)
Small(v) ==
  CASE v[1] \in {"Int", "Nat", "Mumav", "Timestamp"} -> Abs(v[2]) <= Suite.number
    [] v[1] \in {"String", "Bytes"} -> Len(v[2]) <= Suite.length
    [] v[1] \in {"List", "Set", "Map"} -> Len(v[2]) <= Suite.length
    [] v[1] = "Ticket" -> v[4] <= Suite.number /\ Small(v[3])
    [] v[1] = "Pair" -> Small(v[2]) /\ Small(v[3])
    [] v[1] = "Option" -> v[2] = None \/ Small(v[2][1])
    [] v[1] = "Or" -> Small(v[3])
    [] OTHER -> TRUE

RECURSIVE Deep(_)
Deep(t) == 1 + (IF Len(t) = 1 THEN 0 ELSE Max({Deep(t[k]) : k \in 2..Len(t)}))

\* The part of the state space that is explored: the bounds of the suite on the
\* height of the stack, the size of numbers, the length of bytes, strings and
\* collections, the depth of types and the operations created.
Bounded == /\ Len(vs) <= Suite.stack
           /\ \A k \in DOMAIN vs : Small(vs[k])
           /\ \A k \in DOMAIN ts : Deep(ts[k]) <= Suite.depth
           /\ counters.ops <= Suite.ops

\* The typechecker refuses the instruction, or panics: nothing runs.
Refuse(t) ==
  /\ ~Ok(t)
  /\ res' = IF t.r = "panic" THEN "tc_panic" ELSE "refused"
  /\ UNCHANGED <<suite, machine>>

\* The instruction typechecks and runs to its end.
Execute(t, r) ==
  /\ Ok(r)
  /\ ts' = t.st
  /\ vs' = r.st
  /\ exhausted' = (r.gas = Exhausted)
  /\ counters' = [ops |-> r.ops, orig |-> r.orig]
  /\ UNCHANGED <<suite, res>>
  /\ Bounded'

\* The instruction typechecks and stops: FAILWITH, no gas, or a panic.
Halt(r) ==
  /\ ~Ok(r)
  /\ res' = r.r
  /\ UNCHANGED <<suite, machine>>

\* One more instruction of the program, with one of the gas limits.
Next ==
  /\ res = "ok"
  /\ \E i \in Suite.program : \E t \in {Typecheck(i)} :
       \/ Refuse(t)
       \/ Ok(t) /\ \E g \in Suite.limits : \E r \in {Interpret(t.out, g)} :
            \/ Execute(t, r)
            \/ Halt(r)

Spec == Init /\ [][Next]_vars

------------------------------------------------------------------------------
(* Properties.                                                              *)

\* The keys of a tree strictly ascend.
Sorted(tree) == \A k \in 1..(Len(tree) - 1) : Less(tree[k][1], tree[k + 1][1])

\* The code of a closure takes an argument of type in to a result of type out.
RECURSIVE ClosureHasType(_, _, _)
RECURSIVE HasType(_, _)
ClosureHasType(c, in, out) ==
  CASE c[1] \in {"Lambda", "LambdaRec"} ->
         /\ c[1] = "LambdaRec" => c[4] = in /\ c[5] = out
         /\ Ok(typecheck_lambda(Machine(<<>>, TcGas), c[3][2], in, out, c[1] = "LambdaRec"))
    [] c[1] = "Apply" ->
         HasType(c[3], c[2]) /\ ClosureHasType(c[4], pair(c[2], in), out)

Constructor ==
  [int |-> "Int", nat |-> "Nat", bool |-> "Bool", mumav |-> "Mumav", string |-> "String",
   bytes |-> "Bytes", unit |-> "Unit", timestamp |-> "Timestamp", address |-> "Address",
   chain_id |-> "ChainId", key |-> "Key", key_hash |-> "KeyHash", signature |-> "Signature",
   operation |-> "Operation", bls12_381_fr |-> "Bls12381Fr", bls12_381_g1 |-> "Bls12381G1",
   bls12_381_g2 |-> "Bls12381G2", pair |-> "Pair", option |-> "Option", or |-> "Or",
   list |-> "List", set |-> "Set", map |-> "Map", big_map |-> "BigMap", lambda |-> "Lambda",
   contract |-> "Contract", ticket |-> "Ticket"]

\* What a value of each type is: numbers in their range, collections in order
\* and typed throughout, contracts that have the type they claim, tickets that
\* are worth something, big maps whose id is stored under the same types.
HasType(v, t) ==
  /\ v[1] = Constructor[t[1]]
  /\ CASE t[1] = "nat" -> v[2] >= 0
       [] t[1] = "mumav" -> v[2] \in 0..MaxMumav
       [] t[1] \in {"bls12_381_fr", "bls12_381_g1", "bls12_381_g2"} -> v[2] \in 0..(FrOrder - 1)
       [] t[1] = "bytes" -> \A k \in DOMAIN v[2] : v[2][k] \in 0..255
       [] t[1] = "pair" -> HasType(v[2], t[2]) /\ HasType(v[3], t[3])
       [] t[1] = "option" -> v[2] = None \/ HasType(v[2][1], t[2])
       [] t[1] = "or" -> HasType(v[3], IF v[2] = "Left" THEN t[2] ELSE t[3])
       [] t[1] = "list" -> \A k \in DOMAIN v[2] : HasType(v[2][k], t[2])
       [] t[1] = "set" -> Sorted(v[2]) /\ \A k \in DOMAIN v[2] : HasType(v[2][k][1], t[2])
       [] t[1] = "map" ->
            Sorted(v[2]) /\ \A k \in DOMAIN v[2] : HasType(v[2][k][1], t[2]) /\ HasType(v[2][k][2], t[3])
       [] t[1] = "big_map" ->
            /\ v[4] = t[2] /\ v[5] = t[3] /\ Sorted(v[3])
            /\ v[2] # None => big_maps[v[2][1]].kty = t[2] /\ big_maps[v[2][1]].vty = t[3]
            /\ \A k \in DOMAIN v[3] : /\ HasType(v[3][k][1], t[2])
                                      /\ v[3][k][2] # None => HasType(v[3][k][2][1], t[3])
       [] t[1] = "lambda" -> ClosureHasType(v[2], t[2], t[3])
       [] t[1] = "contract" ->
            IF v[2][1] = 0 THEN v[3] = default /\ t[2][1] \in {"unit", "ticket"}
            ELSE IF v[2] = ctx.self_address THEN entrypoints[v[3]] = t[2]
            ELSE known_contracts[v[2]][v[3]] = t[2]
       [] t[1] = "ticket" -> v[4] > 0 /\ HasType(v[3], t[2])
       [] OTHER -> TRUE

\* The values on the stack are of the types the typechecker has for them.
\* interpreter.rs relies on it: a mismatch is an unreachable_state panic.
WellTyped == /\ Len(ts) = Len(vs)
             /\ \A k \in DOMAIN vs : HasType(vs[k], ts[k])

\* An instruction the typechecker accepts never makes the interpreter panic
\* (interpreter.rs, unreachable_state, pop!, irrefutable_match!).
NoPanic == res # "panic"

\* The machine on the stack of this state, with gas to spare.
Here == Machine(vs, TcGas)

\* EDIV: dividend = quotient * divisor + remainder with the remainder in
\* 0..|divisor|-1, whatever the signs; None exactly for a zero divisor
\* (interpreter.rs, EDiv).
EDivLaw ==
  Len(vs) >= 2 => \A ov \in DOMAIN EDivOverloads : \A r \in {i_ediv(Here, ov)} :
    LET x == vs[1][2]
        y == vs[2][2]
        qr == r.st[1][2][1]
    IN Ok(r) =>
         IF y = 0 THEN r.st[1] = OptV(None)
         ELSE /\ x = qr[2][2] * y + qr[3][2]
              /\ qr[3][2] \in 0..(Abs(y) - 1)

\* The shifts of bytes are those of the number the bytes write, and LSL keeps
\* every bit (interpreter.rs, Lsl and Lsr; gas.rs charges for the same lengths).
ShiftLaw ==
  \A k \in DOMAIN vs : vs[k][1] = "Bytes" /\ Len(vs[k][2]) <= 2 =>
    LET b == vs[k][2]
    IN /\ \A n \in 0..(8 * Len(b)) : from_bytes_be(lsr(b, n)) = from_bytes_be(b) \div 2^n
       /\ \A n \in 0..12 : from_bytes_be(lsl(b, n)) = from_bytes_be(b) * 2^n

\* BYTES then INT (or NAT) gives the number back, and no shorter bytes would
\* (interpreter.rs, Int, Nat and Bytes).
BytesRoundTrip ==
  LET read(b) == IF vs[1][1] = "Int" THEN from_signed_bytes_be(b) ELSE from_bytes_be(b)
  IN vs # <<>> /\ vs[1][1] \in {"Int", "Nat"} =>
       \A r \in {i_convert(Here, <<"Bytes", vs[1][1]>>)} :
         /\ read(r.st[1][2]) = vs[1][2]
         /\ r.st[1][2] # <<>> => read(Tail(r.st[1][2])) # vs[1][2]

\* GET_AND_UPDATE is GET and UPDATE at once, and a GET after either finds what
\* was written (interpreter.rs, Get, Update, GetAndUpdate; BigMap::get, update).
GetAndUpdateIsBoth ==
  LET get(m) == i_lookup(Machine(<<vs[1], m>>, TcGas), <<"Get", Kind[ts[3][1]]>>).st[1]
  IN Len(vs) >= 3 /\ ts[2][1] = "option" /\ ts[3][1] \in {"map", "big_map"}
     /\ Tail(ts[3]) = <<ts[1], ts[2][2]>> =>
       \A r \in {i_update(Here, <<"GetAndUpdate", Kind[ts[3][1]]>>)},
          u \in {i_update(Here, <<"Update", Kind[ts[3][1]]>>)} :
         /\ Tail(r.st) = u.st
         /\ r.st[1] = get(vs[3])
         /\ get(u.st[1]) = vs[2]

\* The worth of the tickets inside a value.
RECURSIVE Worth(_)
WorthOf(seq) == FoldLeft(LAMBDA acc, v : acc + Worth(v), 0, seq)
Worth(v) ==
  CASE v[1] = "Ticket" -> v[4]
    [] v[1] = "Pair" -> Worth(v[2]) + Worth(v[3])
    [] v[1] = "Option" -> WorthOf(v[2])
    [] v[1] = "Or" -> Worth(v[3])
    [] v[1] = "List" -> WorthOf(v[2])
    [] v[1] = "Map" -> WorthOf([k \in DOMAIN v[2] |-> v[2][k][2]])
    [] OTHER -> 0

\* Only TICKET creates tickets, and only of the contract that runs: no other
\* step adds to what the tickets on the stack are worth (interpreter.rs,
\* Ticket, SplitTicket, JoinTickets; DUP refuses them, type_props.rs).
TicketsOnlyMinted ==
  [][WorthOf(vs') > WorthOf(vs) =>
       /\ \E k \in 0..Len(vs) : Tail(vs') = SubSeq(vs, k + 1, Len(vs))
       /\ \E c \in {vs'[1][2][1][3]} :
            vs'[1] = SomeV(<<"Ticket", ctx.self_address, c, WorthOf(vs') - WorthOf(vs)>>)
    ]_vars

\* The operations on the stack, and in lists and pairs on it.
RECURSIVE OpsIn(_)
OpsIn(v) ==
  CASE v[1] = "Operation" -> {v}
    [] v[1] = "Pair" -> OpsIn(v[2]) \cup OpsIn(v[3])
    [] v[1] = "List" -> UNION {OpsIn(v[2][k]) : k \in DOMAIN v[2]}
    [] OTHER -> {}

\* Two operations with the same counter are the same operation, and none has
\* a counter that Ctx has yet to give out (context.rs, operation_counter).
CountersUnique ==
  LET all == UNION {OpsIn(vs[k]) : k \in DOMAIN vs}
  IN /\ \A a \in all, b \in all : a[3] = b[3] => a = b
     /\ \A a \in all : a[3] \in 1..counters.ops

Pushable(t) == Ok(ensure_prop(Machine(<<>>, TcGas), t, "Pushable"))

\* What PACK writes of a pushable value, UNPACK reads back, and packing it again
\* gives the same bytes (interpreter.rs, Pack and Unpack; michelson_lambda.rs
\* keeps the Micheline of a lambda for this).
PackRoundTrip ==
  vs # <<>> /\ Pushable(ts[1]) =>
    \A b \in {i_pack(Here)} :
      \E u \in {i_unpack(Machine(b.st, TcGas), ts[1])} :
        /\ Ok(u) /\ u.st[1][2] # None
        /\ HasType(u.st[1][2][1], ts[1])
        /\ into_micheline(u.st[1][2][1]) = into_micheline(vs[1])

\* Programs the typechecker accepts keep the types it computed and never panic
\* (typecheck_instruction, interpret).
TypeSoundness == WellTyped /\ NoPanic

\* The values instructions compute satisfy the laws programs rely on, and no two
\* operations share a counter (interpreter.rs, interpret_one).
InstructionLaws ==
  /\ EDivLaw /\ ShiftLaw /\ BytesRoundTrip /\ GetAndUpdateIsBoth
  /\ PackRoundTrip /\ CountersUnique

------------------------------------------------------------------------------
(* Instances for TLC: programs and the context they run in.                 *)

Plenty == 100000000

Op(p) == <<"app", p, <<>>, <<>>>>

OpA(p, args) == <<"app", p, args, <<>>>>

N(n) == <<"int", n>>

T(p) == <<"app", p, <<>>, <<>>>>

T1(p, a) == <<"app", p, <<a>>, <<>>>>

T2(p, a, b) == <<"app", p, <<a, b>>, <<>>>>

Block(is) == <<"seq", is>>

PushN(t, n) == OpA("PUSH", <<T(t), N(n)>>)

Ops(ps) == {Op(p) : p \in ps}

MCContext ==
  [amount |-> 2, balance |-> 3, chain_id |-> <<7, 7, 7, 7>>, level |-> 2, min_block_time |-> 1,
   self_address |-> <<1, 9>>, sender |-> <<1, 8>>, source |-> <<0, 0, 5>>, now |-> 4,
   voting_powers |-> [kh \in {<<0, 5>>, <<1, 6>>} |-> kh[2]]]

\* The contract that runs has entrypoints default and a; another one is known.
MCEntrypoints == (default :> <<"or", <<"nat">>, <<"string">>>>) @@ (<<97>> :> <<"nat">>)

MCContracts == (<<1, 8>> :> ((default :> <<"nat">>) @@ (<<97>> :> <<"unit">>)))

NoMaps == <<>>

------------------------------------------------------------------------------
\* Numbers of every kind and the arithmetic on them.
Numbers ==
  {PushN("int", -3), PushN("int", 2), PushN("nat", 0), PushN("nat", 3), PushN("mumav", 2),
   PushN("timestamp", 1)}
  \cup Ops({"ADD", "SUB", "MUL", "EDIV", "NEG", "SUB_MUMAV", "ABS", "ISNAT", "INT", "GT", "GE",
            "EQ", "NEQ", "LE", "LT", "COMPARE", "DUP", "NOT", "LSL", "LSR", "AND", "XOR"})

PushB(b) == OpA("PUSH", <<T("bytes"), <<"bytes", b>>>>)

PushS(s) == OpA("PUSH", <<T("string"), <<"string", s>>>>)

\* Bytes and strings.
Bytes ==
  {PushB(<<1>>), PushB(<<130, 3>>), PushN("int", -129), PushN("int", 128)}
  \cup Ops({"AND", "XOR", "CONCAT", "INT", "NAT", "BYTES"})

\* A shift of bytes to the right.
BytesRight == {PushB(<<1>>), PushN("nat", 9), PushN("nat", 17), Op("LSR")}

\* The stack, branches, loops and lambdas.
Control ==
  {PushN("nat", 0), PushN("nat", 2), OpA("PUSH", <<T("bool"), T("True")>>),
   OpA("PUSH", <<T1("list", T("nat")), Block(<<N(1), N(2)>>)>>),
   OpA("PUSH", <<T1("option", T("nat")), OpA("Some", <<N(3)>>)>>),
   OpA("PUSH", <<T2("or", T("nat"), T("bool")), OpA("Left", <<N(1)>>)>>),
   OpA("IF", <<Block(<<PushN("nat", 1)>>), Block(<<PushN("nat", 2)>>)>>),
   OpA("IF_NONE", <<Block(<<PushN("nat", 4)>>), Block(<<>>)>>),
   OpA("IF_CONS", <<Block(<<OpA("DIP", <<Block(<<Op("DROP")>>)>>)>>), Block(<<Op("UNIT"), Op("FAILWITH")>>)>>),
   OpA("IF_LEFT", <<Block(<<Op("INT"), Op("EQ")>>), Block(<<>>)>>),
   OpA("LOOP", <<Block(<<OpA("PUSH", <<T("bool"), T("False")>>)>>)>>),
   OpA("LOOP_LEFT", <<Block(<<Op("DROP"), OpA("PUSH", <<T("bool"), T("True")>>), OpA("RIGHT", <<T("nat")>>)>>)>>),
   OpA("ITER", <<Block(<<Op("ADD")>>)>>),
   OpA("MAP", <<Block(<<Op("INT")>>)>>),
   OpA("DIG", <<N(1)>>), OpA("DUG", <<N(1)>>), OpA("DUP", <<N(2)>>), OpA("DROP", <<N(2)>>),
   OpA("DIP", <<N(1), Block(<<Op("ABS")>>)>>), Op("SWAP"), Op("UNIT"), Op("FAILWITH"),
   Op("SOME"), OpA("NONE", <<T("nat")>>)}

\* Strings and lists of them.
Text ==
  {PushS(<<>>), PushS(<<97>>), PushN("nat", 0), PushN("nat", 1), OpA("NIL", <<T("string")>>),
   Op("CONS"), Op("CONCAT"), Op("SLICE"), Op("SIZE"),
   OpA("IF_NONE", <<Block(<<PushS(<<99>>)>>), Block(<<>>)>>),
   OpA("MAP", <<Block(<<Op("SIZE")>>)>>)}

Lambdas ==
  {PushN("nat", 1), OpA("LAMBDA", <<T("nat"), T("int"), Block(<<>>)>>),
   OpA("LAMBDA", <<T2("pair", T("nat"), T("nat")), T("nat"), Block(<<Op("UNPAIR"), Op("ADD")>>)>>),
   OpA("LAMBDA", <<T("nat"), T("nat"), Block(<<PushN("nat", 1), Op("ADD")>>)>>),
   OpA("LAMBDA_REC", <<T("nat"), T("nat"),
        Block(<<Op("DUP"), Op("INT"), Op("EQ"),
                OpA("IF", <<Block(<<OpA("DIP", <<Block(<<Op("DROP")>>)>>)>>),
                            Block(<<PushN("nat", 1), Op("SWAP"), Op("SUB"), Op("ABS"), Op("EXEC")>>)>>)>>)>>),
   Op("EXEC"), Op("APPLY"), Op("SWAP"), Op("DUP")}

\* Pairs and the combs they make.
Data ==
  {PushN("nat", 1), Op("PAIR"), Op("UNPAIR"), Op("CAR"), Op("CDR"),
   OpA("PAIR", <<N(3)>>), OpA("UNPAIR", <<N(3)>>), OpA("GET", <<N(2)>>), OpA("GET", <<N(3)>>),
   OpA("UPDATE", <<N(1)>>), OpA("UPDATE", <<N(2)>>), Op("COMPARE")}

\* Sets, and maps and big maps in memory.
Sets ==
  {PushN("nat", 1), PushN("nat", 2), OpA("PUSH", <<T("bool"), T("True")>>),
   OpA("PUSH", <<T("bool"), T("False")>>), OpA("EMPTY_SET", <<T("nat")>>), Op("MEM"), Op("UPDATE")}

Maps ==
  {PushN("nat", 1), Op("SOME"), OpA("NONE", <<T("nat")>>), OpA("EMPTY_BIG_MAP", <<T("nat"), T("nat")>>),
   OpA("PUSH", <<T2("map", T("nat"), T("nat")), Block(<<T2("Elt", N(2), N(1))>>)>>),
   Op("MEM"), Op("GET"), Op("UPDATE"), Op("GET_AND_UPDATE")}

\* TICKET on a content of type nat.
Mint(n) == Block(<<PushN("nat", n), PushN("nat", 7), Op("TICKET")>>)

Unwrap == OpA("IF_NONE", <<Block(<<Op("UNIT"), Op("FAILWITH")>>), Block(<<>>)>>)

Tickets ==
  {Mint(1), Mint(2), Unwrap, Op("READ_TICKET"), Op("SPLIT_TICKET"), Op("JOIN_TICKETS"),
   OpA("PUSH", <<T2("pair", T("nat"), T("nat")), T2("Pair", N(1), N(1))>>),
   Op("PAIR"), Op("UNPAIR"), Op("DUP"), OpA("DUP", <<N(2)>>), Op("DROP")}

PushRaw(t, b) == OpA("PUSH", <<T(t), <<"bytes", b>>>>)

\* Contracts, operations and what the context knows.
Script(param, st, code) ==
  Block(<<T1("parameter", param), T1("storage", st), T1("code", Block(code))>>)

Child == Script(T("unit"), T("nat"), <<Op("CDR"), OpA("NIL", <<T("operation")>>), Op("PAIR")>>)

Operations ==
  {Op("AMOUNT"), Op("UNIT"), Op("SENDER"), OpA("CONTRACT", <<T("nat")>>),
   OpA("CONTRACT", <<T("unit")>>),
   PushRaw("key_hash", <<0, 5>>), Op("IMPLICIT_ACCOUNT"), Unwrap, Op("TRANSFER_TOKENS"),
   <<"app", "SELF", <<>>, <<<<37, 97>>>>>>, OpA("NONE", <<T("key_hash")>>), Op("SET_DELEGATE"),
   Op("EMIT"), OpA("CREATE_CONTRACT", <<Child>>), Op("DUP")}

\* Keys, signatures and hashes.
Keys ==
  {PushRaw("key", <<0, 4>>), PushRaw("key", <<3, 4>>), PushRaw("signature", <<4, 9>>),
   PushRaw("signature", <<4, 9, 9>>), PushB(<<9>>), Op("CHECK_SIGNATURE"), Op("HASH_KEY"),
   Op("VOTING_POWER"), Op("TOTAL_VOTING_POWER"),
   Block(<<PushB(<<8>>), Op("BLAKE2B")>>)}

\* Points of the curve and the scalars of its field.
Points ==
  {PushRaw("bls12_381_fr", <<3>>), PushRaw("bls12_381_g1", <<2>>), PushRaw("bls12_381_g2", <<1>>),
   PushN("int", -2), Op("ADD"), Op("MUL"), Op("NEG"), Op("INT"),
   OpA("PUSH", <<T2("pair", T("bls12_381_g1"), T("bls12_381_g2")),
                 T2("Pair", <<"bytes", <<2>>>>, <<"bytes", <<3>>>>)>>),
   OpA("NIL", <<T2("pair", T("bls12_381_g1"), T("bls12_381_g2"))>>), Op("CONS"), Op("PAIRING_CHECK")}

------------------------------------------------------------------------------
\* A suite with the bounds most of them have.
Family(program) ==
  [program |-> program, limits |-> {Plenty}, stack |-> 3, number |-> 3, length |-> 2,
   depth |-> 3, ops |-> 1]

MCValues ==
  <<[Family(Numbers) EXCEPT !.limits = {Plenty, 30}, !.stack = 2, !.depth = 4],
    [Family(Bytes) EXCEPT !.stack = 2, !.number = 129, !.depth = 2],
    [Family(Control) EXCEPT !.limits = {Plenty, 40}, !.stack = 2],
    [Family(Text) EXCEPT !.number = 2],
    Family(Data),
    [Family(Sets) EXCEPT !.number = 2],
    [Family(Maps) EXCEPT !.number = 2]>>

MCEffects ==
  <<[Family(Lambdas) EXCEPT !.depth = 4],
    [Family(Tickets) EXCEPT !.stack = 2, !.number = 7, !.depth = 4],
    [Family(Operations) EXCEPT !.length = 3, !.ops = 2],
    [Family(Keys) EXCEPT !.number = 100],
    [Family(Points) EXCEPT !.stack = 2, !.number = 5, !.length = 1]>>

MCSuites == MCValues \o MCEffects
==============================================================================
