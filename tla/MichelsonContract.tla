------------------------- MODULE MichelsonContract -------------------------
(***************************************************************************)
(* The life of a contract under MIR: a script is typechecked, then called   *)
(* again and again.  Each call reads the parameter and the storage as       *)
(* Micheline, runs the code, and leaves the storage as Micheline.           *)
(***************************************************************************)
EXTENDS MichelsonInterpreter

CONSTANTS
  Scripts,     \* scripts as Micheline, each with an initial storage
  Parameters,  \* the Micheline a call may pass
  Limits,      \* the milligas a call may have
  TcGas,       \* the milligas for typechecking the script
  MaxCalls     \* bound on the calls made

VARIABLES
  script,      \* <<>>, or the typechecked script
  storage,     \* the storage, as Micheline
  calls,       \* calls made so far
  res          \* how the last call ended
vars == <<script, storage, calls, res>>

Fresh(gas) ==
  [r |-> "ok", gas |-> gas, st |-> <<>>, out |-> <<>>, failed |-> FALSE, eps |-> <<>>,
   lazy |-> <<>>, ops |-> 0, orig |-> 0]

Init == script = None /\ storage = <<"seq", <<>>>> /\ calls = 0 /\ res = "ok"

\* Micheline::typecheck_script.
Originate(s) ==
  /\ script = None /\ res = "ok"
  /\ \E t \in {typecheck_script(Fresh(TcGas), s[1])} :
       IF Ok(t) THEN script' = Some(t.out) /\ storage' = s[2] /\ res' = "ok"
       ELSE script' = None /\ res' = "refused" /\ UNCHANGED storage
  /\ UNCHANGED calls

\* ContractScript::interpret; a call that fails leaves the storage as it was.
Call(p, g) ==
  /\ script # None /\ calls < MaxCalls /\ res # "panic"
  /\ \E r \in {interpret_script(Fresh(g), script[1], p, storage)} :
       /\ res' = r.r
       /\ storage' = IF Ok(r) THEN into_micheline(r.out[3]) ELSE storage
  /\ calls' = calls + 1
  /\ UNCHANGED script

Next == \/ \E s \in Scripts : Originate(s)
        \/ \E p \in Parameters, g \in Limits : Call(p, g)

Spec == Init /\ [][Next]_vars

------------------------------------------------------------------------------
(* Properties.                                                              *)

\* What a call leaves as storage is a literal of the storage type: the next
\* call can read it (ast.rs, into_micheline_optimized_legacy, and
\* typecheck_value on the storage in ContractScript::interpret).
StorageReadable ==
  script # None => Ok(typecheck_value(Fresh(TcGas), storage, script[1].storage))

\* A script that typechecks runs without a panic, whatever it is called with
\* (interpreter.rs, "expected `list operation`", unreachable_state).
ScriptNoPanic == res # "panic"
------------------------------------------------------------------------------
(* Instances for TLC: a handful of scripts and parameters.                  *)

T(p) == <<"app", p, <<>>, <<>>>>
T1(p, a) == <<"app", p, <<a>>, <<>>>>
T2(p, a, b) == <<"app", p, <<a, b>>, <<>>>>
N(n) == <<"int", n>>
Block(s) == <<"seq", s>>
Return == <<T1("NIL", T("operation")), T("PAIR")>>
Script(param, st, code) ==
  Block(<<T1("parameter", param), T1("storage", st), T1("code", Block(code))>>)

Counter == Script(T("nat"), T("nat"), <<T("UNPAIR"), T("ADD")>> \o Return)

Ledger ==
  Script(T("nat"), T2("map", T("nat"), T("nat")),
         <<T("UNPAIR"), T("DUP"), T1("DUP", N(3)), T("SWAP"), T("GET"),
           T2("IF_NONE", Block(<<T2("PUSH", T("nat"), N(0))>>), Block(<<>>)),
           T2("PUSH", T("nat"), N(1)), T("ADD"), T("SOME"), T("SWAP"), T("UPDATE")>> \o Return)

LastCall ==
  Script(T("nat"), T1("option", T2("pair", T("nat"), T("address"))),
         <<T("CAR"), T("SENDER"), T("SWAP"), T("PAIR"), T("SOME")>> \o Return)

NonZero ==
  Script(T("nat"), T("int"),
         <<T("UNPAIR"), T("DUP"), T("INT"), T("EQ"),
           T2("IF", Block(<<T("FAILWITH")>>), Block(<<T("SUB")>>))>> \o Return)

Stored ==
  Script(T("nat"), <<"app", "lambda", <<T("nat"), T("nat")>>, <<>>>>,
         <<T("UNPAIR"), T2("DIP", N(1), Block(<<<<"app", "LAMBDA",
              <<T2("pair", T("nat"), T("nat")), T("nat"), Block(<<T("UNPAIR"), T("ADD")>>)>>, <<>>>>>>)),
           T("APPLY"), T("SWAP"), T("DROP")>> \o Return)

NoOperations == Script(T("nat"), T("nat"), <<T("CAR")>>)

MCScripts ==
  {<<Counter, N(0)>>, <<Ledger, Block(<<>>)>>, <<LastCall, T("None")>>, <<NonZero, N(3)>>,
   <<Stored, Block(<<>>)>>, <<NoOperations, N(0)>>}

MCParameters == {N(0), N(1), N(2), N(-1), T("Unit")}

MCContracts == <<>>

MCContext ==
  [amount |-> 2, balance |-> 3, chain_id |-> <<7, 7, 7, 7>>, level |-> 2, min_block_time |-> 1,
   self_address |-> <<1, 9>>, sender |-> <<1, 8>>, source |-> <<0, 0, 5>>, now |-> 4,
   voting_powers |-> <<>>]
==============================================================================
