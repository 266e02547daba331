------------------------ MODULE MichelsonInterpreter ------------------------
(***************************************************************************)
(* The interpreter of MIR (contrib/mir/src/interpreter.rs) on the typed     *)
(* instructions of MichelsonTypechecker.                                    *)
(*                                                                          *)
(* The context m has the stack of values in m.st and, besides the fields    *)
(* the typechecker uses, the two counters of Ctx:                           *)
(*   ops    the number of operations created so far,                        *)
(*   orig   the number of contracts originated so far.                      *)
(* m.r becomes "fail" on a run-time failure (FAILWITH, an amount overflow,  *)
(* a shift out of bounds) and "panic" where the code panics: a value of     *)
(* another constructor than the instruction unwraps, an empty stack, an     *)
(* index out of bounds.                                                     *)
(***************************************************************************)
EXTENDS MichelsonTypechecker
LOCAL INSTANCE Bitwise

CONSTANT ctx   \* the fields of Ctx that no instruction changes

\* pop!, one constructor a value, "_" for any.
Pops(m, kinds) ==
  IF ~Ok(m) THEN m
  ELSE IF Shape(m, kinds) THEN [m EXCEPT !.st = SubSeq(@, Len(kinds) + 1, Len(@))]
  ELSE Panic(m)

Push(m, v) == IF Ok(m) THEN [m EXCEPT !.st = <<v>> \o @] ELSE m

Fail(m) == IF Ok(m) THEN Stop(m, "fail") ELSE m

OptV(o) == <<"Option", o>>

SomeV(v) == <<"Option", Some(v)>>

\* Most instructions: unwrap, pay, push; or pay, unwrap, push.
PopPay(m, kinds, cost, v) == Push(consume(Pops(m, kinds), cost), v)

PayPop(m, cost, kinds, v) == Push(Pops(consume(m, cost), kinds), v)

RECURSIVE interpret(_, _)
RECURSIVE interpret_one(_, _)

------------------------------------------------------------------------------
(* Numbers.                                                                 *)

AddOverloads ==
  [IntInt |-> <<"Int", "Int", "Int">>, NatNat |-> <<"Nat", "Nat", "Nat">>,
   IntNat |-> <<"Int", "Nat", "Int">>, NatInt |-> <<"Nat", "Int", "Int">>,
   IntTimestamp |-> <<"Int", "Timestamp", "Timestamp">>,
   TimestampInt |-> <<"Timestamp", "Int", "Timestamp">>]

i_add(m, ov) ==
  LET o1 == m.st[1][2]
      o2 == m.st[2][2]
      k == AddOverloads[ov]
      point(cost) == PopPay(m, <<ov, ov>>, cost, <<ov, (o1 + o2) % FrOrder>>)
      sum == consume(Pops(m, <<"Mumav", "Mumav">>), interpret_cost.ADD_TEZ)
  IN CASE ov \in DOMAIN AddOverloads ->
            PopPay(m, <<k[1], k[2]>>, add_num(o1, o2), <<k[3], o1 + o2>>)
       [] ov = "MumavMumav" ->
            IF Ok(sum) /\ o1 + o2 > MaxMumav THEN Fail(sum) ELSE Push(sum, <<"Mumav", o1 + o2>>)
       [] ov = "Bls12381Fr" -> point(interpret_cost.ADD_BLS_FR)
       [] ov = "Bls12381G1" -> point(interpret_cost.ADD_BLS_G1)
       [] ov = "Bls12381G2" -> point(interpret_cost.ADD_BLS_G2)

SubOverloads ==
  [IntInt |-> <<"Int", "Int", "Int">>, NatNat |-> <<"Nat", "Nat", "Int">>,
   IntNat |-> <<"Int", "Nat", "Int">>, NatInt |-> <<"Nat", "Int", "Int">>,
   TimestampInt |-> <<"Timestamp", "Int", "Timestamp">>,
   TimestampTimestamp |-> <<"Timestamp", "Timestamp", "Int">>]

i_sub(m, ov) ==
  LET o1 == m.st[1][2]
      o2 == m.st[2][2]
      k == SubOverloads[ov]
  IN PopPay(m, <<k[1], k[2]>>, add_num(o1, o2), <<k[3], o1 - o2>>)

i_sub_mumav(m) ==
  LET v1 == m.st[1][2]
      v2 == m.st[2][2]
  IN PayPop(m, interpret_cost.SUB_MUMAV, <<"Mumav", "Mumav">>,
            IF v1 >= v2 THEN SomeV(<<"Mumav", v1 - v2>>) ELSE OptV(None))

\* A product that is not checked against the amounts an i64 holds.
i_mul_unchecked(m, ov) ==
  LET o1 == m.st[1][2]
      o2 == m.st[2][2]
  IN PayPop(m, interpret_cost.MUL_TEZ_NAT,
            IF ov = "MumavNat" THEN <<"Mumav", "Nat">> ELSE <<"Nat", "Mumav">>,
            <<"Mumav", o1 * o2>>)

MulOverloads ==
  [IntInt |-> <<"Int", "Int", "Int">>, NatNat |-> <<"Nat", "Nat", "Nat">>,
   IntNat |-> <<"Int", "Nat", "Int">>, NatInt |-> <<"Nat", "Int", "Int">>]

\* The operands of a product with a scalar the wrong way round.
FrOverloads_swapped ==
  [NatBls12381Fr |-> <<"Bls12381Fr", "Nat">>, IntBls12381Fr |-> <<"Bls12381Fr", "Int">>,
   Bls12381FrNat |-> <<"Nat", "Bls12381Fr">>, Bls12381FrInt |-> <<"Int", "Bls12381Fr">>]

FrOverloads ==
  [NatBls12381Fr |-> <<"Nat", "Bls12381Fr">>, IntBls12381Fr |-> <<"Int", "Bls12381Fr">>,
   Bls12381FrNat |-> <<"Bls12381Fr", "Nat">>, Bls12381FrInt |-> <<"Bls12381Fr", "Int">>]

i_mul(m, ov) ==
  LET o1 == m.st[1][2]
      o2 == m.st[2][2]
      k == MulOverloads[ov]
      point(cost, kind) ==
        PayPop(m, cost, <<kind, "Bls12381Fr">>, <<kind, (o1 * o2) % FrOrder>>)
      tez == Pops(consume(m, interpret_cost.MUL_TEZ_NAT),
                  IF ov = "MumavNat" THEN <<"Mumav", "Nat">> ELSE <<"Nat", "Mumav">>)
      num == IF ov \in {"NatBls12381Fr", "IntBls12381Fr"} THEN o1 ELSE o2
  IN CASE ov \in DOMAIN MulOverloads ->
            PopPay(m, <<k[1], k[2]>>, mul_int(o1, o2), <<k[3], o1 * o2>>)
       [] ov \in {"MumavNat", "NatMumav"} ->
            IF Ok(tez) /\ (o1 > MaxMumav \/ o2 > MaxMumav \/ o1 * o2 > MaxMumav)
            THEN Fail(tez) ELSE Push(tez, <<"Mumav", o1 * o2>>)
       [] ov = "Bls12381G1Bls12381Fr" -> point(interpret_cost.MUL_BLS_G1, "Bls12381G1")
       [] ov = "Bls12381G2Bls12381Fr" -> point(interpret_cost.MUL_BLS_G2, "Bls12381G2")
       [] ov = "Bls12381FrBls12381Fr" -> point(interpret_cost.MUL_BLS_FR, "Bls12381Fr")
       [] ov \in DOMAIN FrOverloads ->
            PopPay(m, FrOverloads[ov], mul_bls_fr_big_int(num), <<"Bls12381Fr", (o1 * o2) % FrOrder>>)

\* Division that rounds towards zero for every pair of signs.
ediv_truncated(x1, x2) ==
  LET q == Abs(x1) \div Abs(x2)
  IN <<IF (x1 < 0) = (x2 < 0) THEN q ELSE -q, Abs(x1) % Abs(x2)>>

\* Quotient and remainder of the magnitudes, then corrected by the signs.
ediv(x1, x2) ==
  LET q == Abs(x1) \div Abs(x2)
      r == Abs(x1) % Abs(x2)
  IN CASE x1 < 0 /\ x2 < 0 -> IF r > 0 THEN <<q + 1, Abs(x2) - r>> ELSE <<q, r>>
       [] x1 < 0 /\ x2 > 0 -> IF r > 0 THEN <<-q - 1, Abs(x2) - r>> ELSE <<-q, r>>
       [] x1 >= 0 /\ x2 > 0 -> <<q, r>>
       [] x1 >= 0 /\ x2 < 0 -> <<-q, r>>

EDivOverloads ==
  [NatNat |-> <<"Nat", "Nat", "Nat", "Nat">>, NatInt |-> <<"Nat", "Int", "Int", "Nat">>,
   IntNat |-> <<"Int", "Nat", "Int", "Nat">>, IntInt |-> <<"Int", "Int", "Int", "Nat">>,
   MumavNat |-> <<"Mumav", "Nat", "Mumav", "Mumav">>,
   MumavMumav |-> <<"Mumav", "Mumav", "Nat", "Mumav">>]

\* A divisor above every amount leaves the amount as the remainder.
i_ediv(m, ov) ==
  LET o1 == m.st[1][2]
      o2 == m.st[2][2]
      k == EDivOverloads[ov]
      cost == CASE ov = "MumavNat" -> interpret_cost.EDIV_TEZ_NAT
                [] ov = "MumavMumav" -> interpret_cost.EDIV_TEZ_TEZ
                [] OTHER -> ediv_int(o1, o2)
      qr == ediv(o1, o2)
  IN PopPay(m, <<k[1], k[2]>>, cost,
            IF o2 = 0 THEN OptV(None)
            ELSE SomeV(<<"Pair", <<k[3], qr[1]>>, <<k[4], qr[2]>>>>))

i_neg(m, ov) ==
  LET v == m.st[1][2]
      point(cost) == PayPop(m, cost, <<ov>>, <<ov, (-v) % FrOrder>>)
  IN CASE ov \in {"Nat", "Int"} -> PopPay(m, <<ov>>, neg_int(v), <<"Int", -v>>)
       [] ov = "Bls12381G1" -> point(interpret_cost.NEG_G1)
       [] ov = "Bls12381G2" -> point(interpret_cost.NEG_G2)
       [] ov = "Bls12381Fr" -> point(interpret_cost.NEG_FR)

Byte(b, k) == IF k \in DOMAIN b THEN b[k] ELSE 0

lsl(b, n) ==
  LET s == n % 8
  IN [p \in 1..(Len(b) + n \div 8 + (IF s > 0 THEN 1 ELSE 0)) |->
        IF s = 0 THEN Byte(b, p)
        ELSE ((Byte(b, p - 1) * 2^s) % 256) + (Byte(b, p) \div 2^(8 - s))]

lsr(b, n) ==
  LET s == n % 8
  IN [p \in 1..(Len(b) - n \div 8) |->
        (b[p] \div 2^s) + (IF s > 0 THEN (Byte(b, p - 1) * 2^(8 - s)) % 256 ELSE 0)]

\* LSL and LSR; a shift of bytes by more than there are asks for a vector of
\* negative length.
i_shift(m, left, ov) ==
  LET o1 == m.st[1][2]
      o2 == m.st[2][2]
      p == Pops(m, <<ov, "Nat">>)
      cost == IF ov = "Nat" THEN (IF left THEN lsl_nat(o1) ELSE lsr_nat(o1))
              ELSE IF left THEN lsl_bytes(o1, o2) ELSE lsr_bytes(o1, o2)
      c == consume(p, cost)
      res == IF ov = "Nat" THEN (IF left THEN o1 * 2^o2 ELSE o1 \div 2^o2)
             ELSE IF left THEN lsl(o1, o2) ELSE lsr(o1, o2)
  IN IF Ok(p) /\ o2 > (IF ov = "Nat" THEN 256 ELSE 64000) THEN Fail(p)
     ELSE IF Ok(c) /\ ov = "Bytes" /\ ~left /\ o2 \div 8 > Len(o1) THEN Panic(c)
     ELSE Push(c, <<ov, res>>)

BitOp(op, a, b) == CASE op = "And" -> a & b [] op = "Or" -> a | b [] op = "Xor" -> a ^^ b

\* Aligned on the right: the shorter operand's length for And, else the longer's.
BytesOp(op, x, y) ==
  LET n == IF op = "And" THEN Min({Len(x), Len(y)}) ELSE Max({Len(x), Len(y)})
  IN [k \in 1..n |-> BitOp(op, Byte(x, k + Len(x) - n), Byte(y, k + Len(y) - n))]

BoolOp(op, a, b) == CASE op = "And" -> a /\ b [] op = "Or" -> a \/ b [] op = "Xor" -> a # b

\* And, Or and Xor; Xor of bytes is not paid for.
i_logic(m, op, ov) ==
  LET o1 == m.st[1][2]
      o2 == m.st[2][2]
      w == 2^(bits(o2) + 1)
      bool == [And |-> interpret_cost.AND_BOOL, Or |-> interpret_cost.OR_BOOL,
               Xor |-> interpret_cost.XOR_BOOL]
  IN CASE ov = "Bool" -> PopPay(m, <<"Bool", "Bool">>, bool[op], <<"Bool", BoolOp(op, o1, o2)>>)
       [] ov \in {"Nat", "NatNat"} ->
            PopPay(m, <<"Nat", "Nat">>, and_num(o1, o2), <<"Nat", BitOp(op, o1, o2)>>)
       [] ov = "IntNat" ->
            PopPay(m, <<"Int", "Nat">>, and_num(o1, o2), <<"Nat", BitOp(op, o1 % w, o2)>>)
       [] ov = "Bytes" ->
            PopPay(m, <<"Bytes", "Bytes">>, IF op = "Xor" THEN 0 ELSE and_bytes(o1, o2),
                   <<"Bytes", BytesOp(op, o1, o2)>>)

i_not(m, ov) ==
  LET o == m.st[1][2]
  IN CASE ov = "Bool" -> PopPay(m, <<"Bool">>, interpret_cost.NOT_BOOL, <<"Bool", ~o>>)
       [] ov \in {"Int", "Nat"} -> PopPay(m, <<ov>>, not_num(o), <<"Int", -o - 1>>)
       [] ov = "Bytes" ->
            PopPay(m, <<"Bytes">>, not_bytes(o), <<"Bytes", [k \in DOMAIN o |-> 255 - o[k]]>>)

i_sign(m, i) ==
  LET n == m.st[1][2]
      cost == [Gt |-> interpret_cost.GT, Ge |-> interpret_cost.GE, Eq |-> interpret_cost.EQ,
               Neq |-> interpret_cost.NEQ, Le |-> interpret_cost.LE, Lt |-> interpret_cost.LT]
      holds == CASE i = "Gt" -> n > 0 [] i = "Ge" -> ~(n < 0) [] i = "Eq" -> n = 0
                 [] i = "Neq" -> n # 0 [] i = "Le" -> ~(n > 0) [] i = "Lt" -> n < 0
  IN PayPop(m, cost[i], <<"Int">>, <<"Bool", holds>>)

\* Two's complement, most significant byte first, in as few bytes as hold n.
signed_length(n) == CHOOSE k \in 1..4 : /\ n \in -(2^(8 * k - 1))..(2^(8 * k - 1) - 1)
                                        /\ \A j \in 1..(k - 1) : n \notin -(2^(8 * j - 1))..(2^(8 * j - 1) - 1)

from_bytes_be(b) == FoldLeft(LAMBDA acc, x : 256 * acc + x, 0, b)

from_signed_bytes_be(b) ==
  from_bytes_be(b) - (IF b # <<>> /\ b[1] >= 128 THEN 256^Len(b) ELSE 0)

to_bytes_be(n, k) == [j \in 1..k |-> (n \div 256^(k - j)) % 256]

\* Zero is no bytes, any other number as few as hold it and its sign.
int_to_bytes(v) == IF v = 0 THEN <<>> ELSE to_bytes_be(v, signed_length(v))

\* INT, NAT and BYTES.
i_convert(m, i) ==
  LET v == m.st[1][2]
      k == Len(v)
  IN CASE i[1] = "Nat" -> PopPay(m, <<"Bytes">>, int_bytes(k), <<"Nat", from_bytes_be(v)>>)
       [] i = <<"Int", "Nat">> -> PopPay(m, <<"Nat">>, interpret_cost.INT_NAT, <<"Int", v>>)
       [] i = <<"Int", "Bls12381Fr">> ->
            PopPay(m, <<"Bls12381Fr">>, interpret_cost.INT_BLS_FR, <<"Int", v>>)
       [] i = <<"Int", "Bytes">> ->
            PopPay(m, <<"Bytes">>, int_bytes(k), <<"Int", from_signed_bytes_be(v)>>)
       [] i = <<"Bytes", "Nat">> ->
            PopPay(m, <<"Nat">>, bytes_nat(v), <<"Bytes", to_bytes_be(v, byte_size(v))>>)
       [] i = <<"Bytes", "Int">> ->
            PopPay(m, <<"Int">>, bytes_int(v), <<"Bytes", int_to_bytes(v)>>)

------------------------------------------------------------------------------
(* The stack and control.                                                   *)

i_dip(m, opt, code) ==
  LET n == IF opt = None THEN 1 ELSE opt[1]
      back(u) == IF ~Ok(u) THEN u ELSE [u EXCEPT !.st = SubSeq(m.st, 1, n) \o @]
      below(c) ==
        IF ~Ok(c) THEN c
        ELSE IF Len(c.st) < n THEN Panic(c)
        ELSE back(consume(interpret([c EXCEPT !.st = SubSeq(@, n + 1, Len(@))], code), undip_cost(n)))
  IN below(consume(m, dip_cost(opt)))

\* DROP, DUP, DIG, DUG and SWAP: what they cost, how deep they reach.
i_stack(m, i) ==
  LET opt == IF i[1] = "Swap" THEN Some(2) ELSE i[2]
      n == CASE i[1] \in {"Drop", "Dup"} -> IF opt = None THEN 1 ELSE opt[1]
             [] i[1] \in {"Dig", "Dug"} -> opt + 1
             [] i[1] = "Swap" -> 2
      cost == CASE i[1] = "Drop" -> drop_cost(opt) [] i[1] = "Dup" -> dup_cost(opt)
                [] i[1] = "Dig" -> dig_cost(opt) [] i[1] = "Dug" -> dug_cost(opt)
                [] i[1] = "Swap" -> interpret_cost.SWAP
      c == consume(m, cost)
      st == m.st
      res == CASE i[1] = "Drop" -> SubSeq(st, n + 1, Len(st))
               [] i[1] = "Dup" -> <<st[n]>> \o st
               [] i[1] = "Dig" -> Dig(st, opt)
               [] i[1] = "Dug" -> Dug(st, opt)
               [] i[1] = "Swap" -> <<st[2], st[1]>> \o SubSeq(st, 3, Len(st))
  IN IF ~Ok(c) \/ (i[1] \in {"Dig", "Dug"} /\ opt = 0) THEN c
     ELSE IF Len(st) < n THEN Panic(c)
     ELSE [c EXCEPT !.st = res]

\* IF_LEFT that takes its branches the other way round.
first_branch_swapped(o, v) ==
  CASE o = "If" -> v[2]
    [] o = "IfNone" -> v[2] = None
    [] o = "IfCons" -> v[2] # <<>>
    [] o = "IfLeft" -> v[2] = "Right"

\* Whether a value takes the first branch.
first_branch(o, v) ==
  CASE o = "If" -> v[2]
    [] o = "IfNone" -> v[2] = None
    [] o = "IfCons" -> v[2] # <<>>
    [] o = "IfLeft" -> v[2] = "Left"

i_if(m, i) ==
  LET kind == [If |-> "Bool", IfNone |-> "Option", IfCons |-> "List", IfLeft |-> "Or"]
      cost == [If |-> interpret_cost.IF_, IfNone |-> interpret_cost.IF_NONE,
               IfCons |-> interpret_cost.IF_CONS, IfLeft |-> interpret_cost.IF_LEFT]
      v == m.st[1]
      first == first_branch(i[1], v)
      parts == CASE i[1] = "If" -> <<>>
                 [] i[1] = "IfNone" -> v[2]
                 [] i[1] = "IfCons" -> IF first THEN <<v[2][1], <<"List", Tail(v[2])>>>> ELSE <<>>
                 [] i[1] = "IfLeft" -> <<v[3]>>
      branch(p) == IF ~Ok(p) THEN p
                   ELSE interpret([p EXCEPT !.st = parts \o @], IF first THEN i[2] ELSE i[3])
  IN branch(Pops(consume(m, cost[i[1]]), <<kind[i[1]]>>))

\* LOOP and LOOP_LEFT, from the head of the loop.
RECURSIVE i_loop(_, _, _)
i_loop(m, kind, code) ==
  LET v == m.st[1]
      p == Pops(consume(m, interpret_cost.LOOP), <<kind>>)
      go == IF kind = "Bool" THEN v[2] ELSE v[2] = "Left"
      next == IF kind = "Bool" THEN p ELSE Push(p, v[3])
  IN IF ~Ok(p) THEN p
     ELSE IF go THEN i_loop(interpret(next, code), kind, code)
     ELSE consume(next, interpret_cost.LOOP_EXIT)

\* The elements of a collection as ITER and MAP push them.
elements(v) ==
  CASE v[1] \in {"List", "Option"} -> v[2]
    [] v[1] = "Set" -> [k \in DOMAIN v[2] |-> v[2][k][1]]
    [] v[1] = "Map" -> [k \in DOMAIN v[2] |-> <<"Pair", v[2][k][1], v[2][k][2]>>]

i_iter(m, kind, code) ==
  LET p == Pops(consume(m, interpret_cost.ITER), <<kind>>)
      step(c, e) == interpret(Push(consume(c, interpret_cost.PUSH), e), code)
  IN IF ~Ok(p) THEN p ELSE FoldLeft(step, p, elements(m.st[1]))

\* The results are collected in out, in the order of the elements.
i_map(m, kind, code) ==
  LET v == m.st[1]
      cost == [List |-> interpret_cost.MAP_LIST, Option |-> interpret_cost.MAP_OPTION,
               Map |-> interpret_cost.MAP_MAP]
      take(r, out) == IF Ok(Pops(r, <<"_">>))
                      THEN [Pops(r, <<"_">>) EXCEPT !.out = Append(out, r.st[1])]
                      ELSE Pops(r, <<"_">>)
      step(c, e) == take(interpret(Push(consume(c, interpret_cost.PUSH), e), code), c.out)
      done(d) == Push(d, <<kind, IF kind = "Map" THEN [k \in DOMAIN v[2] |-> <<v[2][k][1], d.out[k]>>]
                                 ELSE d.out>>)
      all(p) == IF Ok(p) THEN done(FoldLeft(step, [p EXCEPT !.out = <<>>], elements(v))) ELSE p
  IN all(Pops(consume(m, cost[kind]), <<kind>>))

\* The argument of a partial application is paired with what EXEC is given.
RECURSIVE i_exec(_, _, _)
i_exec(m, arg, closure) ==
  LET st == IF closure[1] = "LambdaRec" THEN <<arg, <<"Lambda", closure>>>> ELSE <<arg>>
      result(r) == IF ~Ok(r) THEN r
                   ELSE IF r.st = <<>> THEN Panic(r)
                   ELSE [r EXCEPT !.st = <<r.st[1]>> \o m.st]
  IN IF ~Ok(m) THEN m
     ELSE IF closure[1] = "Apply"
     THEN i_exec(consume(m, interpret_cost.PAIR), <<"Pair", closure[3], arg>>, closure[4])
     ELSE result(interpret([m EXCEPT !.st = st], closure[2]))

i_lambda(m, i) ==
  LET p == Pops(consume(m, interpret_cost.EXEC), <<"_", "Lambda">>)
  IN CASE i[1] = "Lambda" -> Push(consume(m, interpret_cost.LAMBDA_), <<"Lambda", i[2]>>)
       [] i[1] = "Exec" -> IF Ok(p) THEN i_exec(p, m.st[1], m.st[2][2]) ELSE p
       [] i[1] = "Apply" ->
            PopPay(m, <<"_", "Lambda">>, interpret_cost.APPLY,
                   <<"Lambda", <<"Apply", i[2], m.st[1], m.st[2][2]>>>>)

------------------------------------------------------------------------------
(* Data.                                                                    *)

RECURSIVE comb_value(_)
comb_value(vs) == IF Len(vs) = 1 THEN vs[1] ELSE <<"Pair", vs[1], comb_value(Tail(vs))>>

\* fill: the leaves of a right comb, None where a pair is missing.
RECURSIVE fill(_, _)
fill(n, v) ==
  IF n = 0 THEN Some(<<v>>)
  ELSE IF v[1] # "Pair" THEN None
  ELSE LET r == fill(n - 1, v[3]) IN IF r = None THEN None ELSE Some(<<v[2]>> \o r[1])

RECURSIVE get_nth_field_ref(_, _)
get_nth_field_ref(n, v) ==
  CASE n = 0 -> Some(v)
    [] n # 0 /\ v[1] # "Pair" -> None
    [] n = 1 /\ v[1] = "Pair" -> Some(v[2])
    [] OTHER -> get_nth_field_ref(n - 2, v[3])

RECURSIVE put_nth_field(_, _, _)
put_nth_field(n, v, x) ==
  CASE n = 0 -> x
    [] n = 1 -> <<"Pair", x, v[3]>>
    [] OTHER -> <<"Pair", v[2], put_nth_field(n - 2, v[3], x)>>

\* PAIR, UNPAIR, CAR, CDR, GET n and UPDATE n.
i_pair(m, i) ==
  LET st == m.st
      v == st[1]
      n == i[2]
      put(c, k, vs) == IF ~Ok(c) THEN c ELSE [c EXCEPT !.st = vs \o SubSeq(st, k + 1, Len(st))]
      pop(cost, kinds) == Pops(consume(m, cost), kinds)
      any(k) == [j \in 1..k |-> "_"]
      un == pop(unpair_n_cost(n), <<"_">>)
      get == pop(get_n_cost(n), <<"_">>)
      upd == pop(update_n_cost(n), <<"_", "_">>)
      checked(c, o, k, vs) == IF Ok(c) /\ o = None THEN Panic(c) ELSE put(c, k, vs)
  IN CASE i[1] = "Car" -> put(pop(interpret_cost.CAR, <<"Pair">>), 1, <<v[2]>>)
       [] i[1] = "Cdr" -> put(pop(interpret_cost.CDR, <<"Pair">>), 1, <<v[3]>>)
       [] i[1] = "Pair" -> put(pop(interpret_cost.PAIR, any(2)), 2, <<<<"Pair", v, st[2]>>>>)
       [] i[1] = "Unpair" -> put(pop(interpret_cost.UNPAIR, <<"Pair">>), 1, <<v[2], v[3]>>)
       [] i[1] = "PairN" ->
            put(pop(pair_n_cost(n), any(n)), n, <<comb_value(SubSeq(st, 1, n))>>)
       [] i[1] = "UnpairN" -> checked(un, fill(n - 1, v), 1, fill(n - 1, v)[1])
       [] i[1] = "GetN" ->
            checked(get, get_nth_field_ref(n, v), 1, get_nth_field_ref(n, v))
       [] i[1] = "UpdateN" ->
            checked(upd, get_nth_field_ref(n, st[2]), 2, <<put_nth_field(n, st[2], v)>>)

i_compare(m) ==
  LET l == m.st[1]
      r == m.st[2]
      p == Pops(m, <<"_", "_">>)
  IN IF ~Ok(p) THEN p
     ELSE IF ~can_compare(l, r) THEN Panic(p)
     ELSE Push(consume(p, compare_cost(l, r)), <<"Int", partial_cmp(l, r)[1]>>)

\* PUSH, UNIT, SOME, NONE, NIL, CONS, LEFT, RIGHT and the empty collections.
i_construct(m, i) ==
  LET v == m.st[1]
      one(cost, x) == PayPop(m, cost, <<"_">>, x)
      new(cost, x) == Push(consume(m, cost), x)
  IN CASE i[1] = "Push" -> new(interpret_cost.PUSH, i[2])
       [] i[1] = "Unit" -> new(interpret_cost.UNIT, <<"Unit">>)
       [] i[1] = "ISome" -> one(interpret_cost.SOME, SomeV(v))
       [] i[1] = "None" -> new(interpret_cost.NONE, OptV(None))
       [] i[1] = "Nil" -> new(interpret_cost.NIL, <<"List", <<>>>>)
       [] i[1] = "Cons" -> PayPop(m, interpret_cost.CONS, <<"_", "List">>,
                                  <<"List", <<v>> \o m.st[2][2]>>)
       [] i[1] = "Left" -> one(interpret_cost.LEFT, <<"Or", "Left", v>>)
       [] i[1] = "Right" -> one(interpret_cost.RIGHT, <<"Or", "Right", v>>)
       [] i[1] = "EmptySet" -> new(interpret_cost.EMPTY_SET, <<"Set", <<>>>>)
       [] i[1] = "EmptyBigMap" ->
            new(interpret_cost.EMPTY_BIG_MAP, <<"BigMap", None, <<>>, i[2], i[3]>>)

\* Bounds stricter than the slice of Rust: an offset at the end is refused.
slice(b, offset, length) ==
  IF offset >= Len(b) \/ offset + length > Len(b) THEN None
  ELSE Some(SubSeq(b, offset + 1, offset + length))

i_concat(m, kind, two) ==
  LET a == m.st[1][2]
      b == m.st[2][2]
      p == consume(Pops(m, <<"List">>), concat_list_precheck(Len(a)))
      all == FoldLeft(LAMBDA acc, v : acc \o v[2], <<>>, a)
  IN IF two THEN PopPay(m, <<kind, kind>>, concat_pair(Len(a), Len(b)), <<kind, a \o b>>)
     ELSE IF ~Ok(p) THEN p
     ELSE IF \E k \in DOMAIN a : a[k][1] # kind THEN Panic(p)
     ELSE Push(consume(p, concat_list(Len(all))), <<kind, all>>)

i_slice(m, kind) ==
  LET b == m.st[3][2]
      s == slice(b, m.st[1][2], m.st[2][2])
  IN PopPay(m, <<"Nat", "Nat", kind>>, slice_cost(Len(b)),
            OptV(IF s = None THEN None ELSE Some(<<kind, s[1]>>)))

------------------------------------------------------------------------------
(* Collections.                                                             *)

\* LazyStorage::big_map_get.
big_map_get(m, id, k) ==
  LET f == tree_find(m.lazy[id].map, k) IN IF f = <<>> THEN None ELSE Some(f[1][2])

\* BigMap::get and mem: the overlay hides what is stored under the id.
overlaid_get(m, bm, k) ==
  LET f == tree_find(bm[3], k)
  IN CASE f # <<>> -> f[1][2]
       [] f = <<>> /\ bm[2] # None -> big_map_get(m, bm[2][1], k)
       [] OTHER -> None

size_of(v) == IF v[1] = "BigMap" THEN Len(v[3]) ELSE Len(v[2])

\* A key the overlay misses is looked up in a big map the storage must have.
found(m, v, k, x) ==
  IF /\ v[1] = "BigMap" /\ v[2] # None
     /\ v[2][1] \notin DOMAIN m.lazy /\ tree_find(v[3], k) = <<>>
  THEN Panic(m) ELSE x

lookup(m, v, k) ==
  LET f == tree_find(v[2], k)
  IN IF v[1] = "BigMap" THEN overlaid_get(m, v, k)
     ELSE IF f = <<>> THEN None ELSE Some(f[1][2])

\* BTreeMap insert or remove; BigMap::update notes the removal in the overlay.
updated(v, k, new) ==
  CASE v[1] = "BigMap" -> [v EXCEPT ![3] = tree_insert(@, <<k, new>>)]
    [] v[1] # "BigMap" /\ new = None -> [v EXCEPT ![2] = tree_remove(@, k)]
    [] OTHER -> [v EXCEPT ![2] = tree_insert(@, <<k, new[1]>>)]

\* MEM and GET.
i_lookup(m, i) ==
  LET k == m.st[1]
      v == m.st[2]
      mem == IF i[2] = "Set" THEN tree_find(v[2], k) # <<>> ELSE lookup(m, v, k) # None
      cost == IF i[2] = "Set" THEN set_mem(k, size_of(v)) ELSE map_get(k, size_of(v))
  IN found(m, v, k, PopPay(m, <<"_", i[2]>>, cost,
                           IF i[1] = "Mem" THEN <<"Bool", mem>> ELSE OptV(lookup(m, v, k))))

\* UPDATE and GET_AND_UPDATE.
i_update(m, i) ==
  LET k == m.st[1]
      v == m.st[2]
      w == m.st[3]
      set == IF v[2] THEN tree_insert(w[2], <<k>>) ELSE tree_remove(w[2], k)
      both == PopPay(m, <<"_", "Option", i[2]>>, map_get_and_update(k, size_of(w)),
                     updated(w, k, v[2]))
  IN CASE i[1] = "Update" /\ i[2] = "Set" ->
            PopPay(m, <<"_", "Bool", "Set">>, set_update(k, size_of(w)), <<"Set", set>>)
       [] i[1] = "Update" /\ i[2] # "Set" ->
            PopPay(m, <<"_", "Option", i[2]>>, map_update(k, size_of(w)), updated(w, k, v[2]))
       [] i[1] = "GetAndUpdate" -> found(m, w, k, Push(both, OptV(lookup(m, w, k))))

i_size(m, kind) ==
  LET size == [String |-> interpret_cost.SIZE_STRING, Bytes |-> interpret_cost.SIZE_BYTES,
               List |-> interpret_cost.SIZE_LIST, Set |-> interpret_cost.SIZE_SET,
               Map |-> interpret_cost.SIZE_MAP]
  IN PopPay(m, <<kind>>, size[kind], <<"Nat", Len(m.st[1][2])>>)

------------------------------------------------------------------------------
(* Bytes, keys and pairings.                                                *)

\* A result whose error is dropped: the gas it took stays taken.
swallow(m, c) == IF c.r \in {"oog", "err"} THEN [c EXCEPT !.r = "ok", !.st = m.st] ELSE c

i_pack(m) ==
  LET mich == into_micheline(m.st[1])
      p == Pops(consume(m, interpret_cost.PACK), <<"_">>)
  IN IF ~Ok(p) THEN p
     ELSE Push(consume(p, micheline_encoding(mich)), <<"Bytes", encode_for_pack(mich)>>)

i_unpack(m, ty) ==
  LET q == consume(Pops(m, <<"Bytes">>), unpack_cost(Len(m.st[1][2])))
      read(v) == Push([swallow(q, v) EXCEPT !.st = q.st], OptV(IF Ok(v) THEN Some(v.out) ELSE None))
      unpack(d) == IF d = None THEN Push(q, OptV(None)) ELSE read(typecheck_value(q, d[1], ty))
  IN IF ~Ok(q) THEN q ELSE unpack(decode_packed(m.st[1][2]))

HashSeed == [BLAKE2B |-> 1, KECCAK |-> 2, SHA256 |-> 3, SHA3 |-> 4, SHA512 |-> 5]

Curve == <<"Ed25519", "Secp256k1", "P256", "Bls">>

\* Key::hash keeps the curve.
key_hash(key) == <<key[1], Digest(6, <<key[2]>>)>>

pairing_check(vs) == FoldLeft(LAMBDA acc, v : acc + v[2][2] * v[3][2], 0, vs) % FrOrder = 0

i_check_signature(m) ==
  LET msg == m.st[3][2]
  IN PopPay(m, <<"Key", "Signature", "Bytes">>,
            check_signature_cost(Curve[m.st[1][2][1] + 1], Len(msg)),
            <<"Bool", sig_check(m.st[2][2], m.st[1][2], msg)>>)

i_hash(m, h) ==
  PopPay(m, <<"Bytes">>, hash_cost(h, Len(m.st[1][2])),
         <<"Bytes", <<Digest(HashSeed[h], m.st[1][2])>>>>)

i_hash_key(m) ==
  PayPop(m, interpret_cost.HASH_KEY, <<"Key">>, <<"KeyHash", key_hash(m.st[1][2])>>)

i_pairing_check(m) ==
  LET vs == m.st[1][2]
      p == consume(Pops(m, <<"List">>), pairing_check_cost(Len(vs)))
      is_point(e) == e[1] = "Pair" /\ e[2][1] = "Bls12381G1" /\ e[3][1] = "Bls12381G2"
  IN IF ~Ok(p) THEN p
     ELSE IF \E k \in DOMAIN vs : ~is_point(vs[k]) THEN Panic(p)
     ELSE Push(p, <<"Bool", pairing_check(vs)>>)

------------------------------------------------------------------------------
(* Tickets.                                                                 *)

\* SPLIT_TICKET that forgets to compare the sum with the amount.
i_split_unchecked(m) ==
  LET t == m.st[1]
      l == m.st[2][2][2]
      r == m.st[2][3][2]
      part(a) == [t EXCEPT ![4] = a]
  IN PopPay(m, <<"Ticket", "Pair">>, split_ticket_cost,
            IF l > 0 /\ r > 0 THEN SomeV(<<"Pair", part(l), part(r)>>) ELSE OptV(None))

i_split_ticket(m) ==
  LET t == m.st[1]
      l == m.st[2][2][2]
      r == m.st[2][3][2]
      part(a) == [t EXCEPT ![4] = a]
  IN PopPay(m, <<"Ticket", "Pair">>, split_ticket_cost,
            IF l + r = t[4] /\ l > 0 /\ r > 0
            THEN SomeV(<<"Pair", part(l), part(r)>>) ELSE OptV(None))

\* The price of JOIN_TICKETS compares the contents, which must be comparable.
i_join_tickets(m) ==
  LET t1 == m.st[1][2]
      t2 == m.st[1][3]
      p == Pops(m, <<"Pair">>)
  IN IF ~Ok(p) THEN p
     ELSE IF t1[1] # "Ticket" \/ t2[1] # "Ticket" THEN Panic(p)
     ELSE IF ~can_compare(t1[3], t2[3]) THEN Panic(p)
     ELSE Push(consume(p, join_tickets_cost(t1, t2)),
               IF t1[3] = t2[3] /\ t1[2] = t2[2]
               THEN SomeV([t1 EXCEPT ![4] = @ + t2[4]]) ELSE OptV(None))

i_ticket(m, i) ==
  LET content == m.st[1]
      amount == m.st[2][2]
      r == consume(m, interpret_cost.READ_TICKET)
  IN CASE i[1] = "Ticket" ->
            PopPay(m, <<"_", "Nat">>, interpret_cost.TICKET,
                   IF amount = 0 THEN OptV(None)
                   ELSE SomeV(<<"Ticket", ctx.self_address, content, amount>>))
       [] i[1] = "ReadTicket" ->
            IF Ok(r) /\ ~Shape(m, <<"Ticket">>) THEN Panic(r) ELSE Push(r, unwrap_ticket(content))
       [] i[1] = "SplitTicket" -> i_split_ticket(m)
       [] i[1] = "JoinTickets" -> i_join_tickets(m)

------------------------------------------------------------------------------
(* Operations and the context.                                              *)

\* Ctx::operation_counter and origination_counter: the next of each.
operation_counter(m) == IF Ok(m) THEN [m EXCEPT !.ops = @ + 1] ELSE m

origination_counter(m) == IF Ok(m) THEN [m EXCEPT !.orig = @ + 1] ELSE m

compute_contract_address(o_index) == <<"Address", <<1, 100 + o_index>>, default>>

is_key_hash(o) == o = None \/ o[1][1] = "KeyHash"

\* TRANSFER_TOKENS and SET_DELEGATE.
i_operation(m, i) ==
  LET v == m.st[1]
      t == operation_counter(Pops(m, <<"_", "Mumav", "Contract">>))
      d == operation_counter(Pops(m, <<"Option">>))
      op(c, cost, x) == Push(consume(c, cost), <<"Operation", x, c.ops>>)
  IN CASE i[1] = "TransferTokens" ->
            op(t, interpret_cost.TRANSFER_TOKENS, <<"TransferTokens", v, m.st[2][2], m.st[3]>>)
       [] i[1] = "SetDelegate" ->
            IF Ok(d) /\ ~is_key_hash(v[2]) THEN Panic(d)
            ELSE op(d, interpret_cost.SET_DELEGATE, <<"SetDelegate", v[2]>>)

i_emit(m, i) ==
  LET e == Pops(operation_counter(m), <<"_">>)
  IN Push(consume(e, interpret_cost.EMIT), <<"Operation", <<"Emit", i[2], m.st[1], i[3]>>, e.ops>>)

i_create_contract(m, code) ==
  LET v == m.st[1]
      o == Pops(operation_counter(consume(m, interpret_cost.CREATE_CONTRACT)),
                <<"Option", "Mumav", "_">>)
      n == origination_counter(o)
  IN IF Ok(o) /\ ~is_key_hash(v[2]) THEN Panic(o)
     ELSE Push(Push(n, compute_contract_address(n.orig)),
               <<"Operation", <<"CreateContract", v[2], m.st[2][2], m.st[3], code>>, n.ops>>)

\* Ctx::set_voting_powers: 0 where unspecified, the sum as the total.
voting_power(kh) == IF kh \in DOMAIN ctx.voting_powers THEN ctx.voting_powers[kh] ELSE 0

total_voting_power == FoldFunction(+, 0, ctx.voting_powers)

\* CONTRACT: an address whose contract has another type is None.
i_contract(m, i) ==
  LET c == Pops(consume(m, interpret_cost.CONTRACT), <<"Address">>)
      a == typecheck_contract_address(c, m.st[1], i[3], i[2])
  IN CASE i[1] = "Contract" ->
            IF ~Ok(c) THEN c
            ELSE Push(swallow(c, a),
                      OptV(IF Ok(a) THEN Some(<<"Contract", a.out[2], a.out[3]>>) ELSE None))
       [] i[1] = "Address" ->
            PayPop(m, interpret_cost.ADDRESS, <<"Contract">>, <<"Address", m.st[1][2], m.st[1][3]>>)
       [] i[1] = "ImplicitAccount" ->
            PayPop(m, interpret_cost.IMPLICIT_ACCOUNT, <<"KeyHash">>,
                   <<"Contract", <<0, m.st[1][2][1], m.st[1][2][2]>>, default>>)
       [] i[1] = "ISelf" ->
            Push(consume(m, interpret_cost.SELF), <<"Contract", ctx.self_address, i[2]>>)
       [] i[1] = "VotingPower" ->
            PayPop(m, interpret_cost.VOTING_POWER, <<"KeyHash">>, <<"Nat", voting_power(m.st[1][2])>>)

\* What the instructions without an operand push, and what they cost.
context_value ==
  [Amount |-> <<interpret_cost.AMOUNT, <<"Mumav", ctx.amount>>>>,
   Balance |-> <<interpret_cost.BALANCE, <<"Mumav", ctx.balance>>>>,
   ChainId |-> <<interpret_cost.CHAIN_ID, <<"ChainId", ctx.chain_id>>>>,
   Level |-> <<interpret_cost.LEVEL, <<"Nat", ctx.level>>>>,
   MinBlockTime |-> <<interpret_cost.MIN_BLOCK_TIME, <<"Nat", ctx.min_block_time>>>>,
   SelfAddress |-> <<interpret_cost.SELF_ADDRESS, <<"Address", ctx.self_address, default>>>>,
   Sender |-> <<interpret_cost.SENDER, <<"Address", ctx.sender, default>>>>,
   Source |-> <<interpret_cost.SOURCE, <<"Address", ctx.source, default>>>>,
   Now |-> <<interpret_cost.NOW, <<"Timestamp", ctx.now>>>>,
   TotalVotingPower |-> <<interpret_cost.TOTAL_VOTING_POWER, <<"Nat", total_voting_power>>>>]

i_context(m, i) == Push(consume(m, context_value[i[1]][1]), context_value[i[1]][2])

------------------------------------------------------------------------------
(* Dispatch.                                                                *)

interpret_one(m, i) ==
  LET o == i[1]
      v == m.st[1][2]
  IN CASE ~Ok(m) -> m
       [] OTHER ->
            CASE o = "Add" -> i_add(m, i[2])
              [] o = "Sub" -> i_sub(m, i[2])
              [] o = "SubMumav" -> i_sub_mumav(m)
              [] o = "Mul" -> i_mul(m, i[2])
              [] o = "EDiv" -> i_ediv(m, i[2])
              [] o = "Neg" -> i_neg(m, i[2])
              [] o \in {"Lsl", "Lsr"} -> i_shift(m, o = "Lsl", i[2])
              [] o \in {"And", "Or", "Xor"} -> i_logic(m, o, i[2])
              [] o = "Not" -> i_not(m, i[2])
              [] o \in {"Gt", "Ge", "Eq", "Neq", "Le", "Lt"} -> i_sign(m, o)
              [] o = "Abs" -> PopPay(m, <<"Int">>, abs_cost(v), <<"Nat", Abs(v)>>)
              [] o = "IsNat" -> PopPay(m, <<"Int">>, interpret_cost.ISNAT,
                                       OptV(IF v < 0 THEN None ELSE Some(<<"Nat", v>>)))
              [] o \in {"Int", "Nat", "Bytes"} -> i_convert(m, i)
              [] o = "Dip" -> i_dip(m, i[2], i[3])
              [] o \in {"Drop", "Dup", "Dig", "Dug", "Swap"} -> i_stack(m, i)
              [] o \in {"If", "IfNone", "IfCons", "IfLeft"} -> i_if(m, i)
              [] o = "Loop" -> i_loop(consume(m, interpret_cost.LOOP_ENTER), "Bool", i[2])
              [] o = "LoopLeft" -> i_loop(consume(m, interpret_cost.LOOP_LEFT_ENTER), "Or", i[2])
              [] o = "Iter" -> i_iter(m, i[2], i[3])
              [] o = "Map" -> i_map(m, i[2], i[3])
              [] o = "Failwith" -> Fail(Pops(m, <<"_">>))
              [] o = "Never" -> Panic(m)
              [] o \in {"Car", "Cdr", "Pair", "PairN", "Unpair", "UnpairN", "GetN", "UpdateN"} ->
                   i_pair(m, i)
              [] o = "Compare" -> i_compare(m)
              [] o \in {"Push", "Unit", "ISome", "None", "Nil", "Cons", "Left", "Right",
                        "EmptySet", "EmptyBigMap"} -> i_construct(m, i)
              [] o = "Concat" -> i_concat(m, IF i[2] \in {"TwoStrings", "ListOfStrings"}
                                             THEN "String" ELSE "Bytes",
                                          i[2] \in {"TwoStrings", "TwoBytes"})
              [] o = "Slice" -> i_slice(m, i[2])
              [] o \in {"Mem", "Get"} -> i_lookup(m, i)
              [] o \in {"Update", "GetAndUpdate"} -> i_update(m, i)
              [] o = "Size" -> i_size(m, i[2])
              [] o \in {"Lambda", "Exec", "Apply"} -> i_lambda(m, i)
              [] o = "Pack" -> i_pack(m)
              [] o = "Unpack" -> i_unpack(m, i[2])
              [] o = "Hash" -> i_hash(m, i[2])
              [] o = "CheckSignature" -> i_check_signature(m)
              [] o = "HashKey" -> i_hash_key(m)
              [] o = "PairingCheck" -> i_pairing_check(m)
              [] o \in {"Ticket", "ReadTicket", "SplitTicket", "JoinTickets"} -> i_ticket(m, i)
              [] o \in {"TransferTokens", "SetDelegate"} -> i_operation(m, i)
              [] o = "Emit" -> i_emit(m, i)
              [] o = "CreateContract" -> i_create_contract(m, i[3])
              [] o \in {"Contract", "Address", "ImplicitAccount", "ISelf", "VotingPower"} ->
                   i_contract(m, i)
              [] o \in DOMAIN context_value -> i_context(m, i)
              [] o = "Seq" -> interpret(m, i[2])

interpret(m, ast) == consume(FoldLeft(interpret_one, m, ast), interpret_cost.INTERPRET_RET)

\* The code of a contract leaves a pair of a list of operations and a storage.
script_result(r) ==
  LET ops == r.st[1][2]
  IN IF ~Ok(r) THEN r
     ELSE IF ~Shape(r, <<"Pair">>) THEN Panic(r)
     ELSE IF ops[1] # "List" THEN Panic(r)
     ELSE IF \E k \in DOMAIN ops[2] : ops[2][k][1] # "Operation" THEN Panic(r)
     ELSE Ret(r, r.st[1])

script_run(p, s, code) ==
  IF Ok(s) THEN script_result(interpret_one([s EXCEPT !.st = <<<<"Pair", p.out, s.out>>>>], code))
  ELSE s

script_input(p, script, storage) ==
  script_run(p, typecheck_value(p, storage, script.storage), script.code)

\* ContractScript::interpret: parameter and storage are literals, the result
\* is the operations and the new storage.
interpret_script(m, script, parameter, storage) ==
  script_input(typecheck_value(m, parameter, script.parameter), script, storage)
==============================================================================
