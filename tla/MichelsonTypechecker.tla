------------------------ MODULE MichelsonTypechecker ------------------------
(***************************************************************************)
(* The typechecker of MIR (contrib/mir/src/typechecker.rs).                 *)
(*                                                                          *)
(* It turns untyped Micheline into types, typed values and typed            *)
(* instructions while it threads the context m of MichelsonTypes, here with *)
(* the stack of types in m.st and three more fields:                        *)
(*   failed  FailingTypeStack::Failed: the code so far never returns;       *)
(*   eps     the entrypoints collected from a parameter type;               *)
(*   lazy    the big maps of the storage, by id: [kty, vty, map].           *)
(* m.out is what the code returns.  All the errors of TcError are "err": no *)
(* caller tells them apart but for running out of gas.                      *)
(***************************************************************************)
EXTENDS MichelsonTypes

CONSTANT known_contracts   \* Ctx::lookup_contract: hash -> (entrypoint -> type)

Ret(m, x) == IF Ok(m) THEN [m EXCEPT !.out = x] ELSE m

\* Replace the top n entries of the stack by xs and return x.
With(m, n, xs, x) ==
  IF Ok(m) THEN [m EXCEPT !.st = xs \o SubSeq(@, n + 1, Len(@)), !.out = x] ELSE m

\* A slice pattern on the top of the stack, top first.
Shape(m, kinds) == /\ Len(m.st) >= Len(kinds)
                   /\ \A k \in DOMAIN kinds : kinds[k] \in {"_", m.st[k][1]}

IsSeq(x) == x[1] = "seq"

IsInt(x) == x[1] = "int"

\* validate_u10.
IsU10(x) == IsInt(x) /\ x[2] \in 0..1023

RECURSIVE parse_ty_with_entrypoints(_, _, _)
RECURSIVE make_pair(_, _)
RECURSIVE typecheck_value(_, _, _)
RECURSIVE typecheck_instruction(_, _, _)
RECURSIVE typecheck(_, _, _)
RECURSIVE tc_elts(_, _, _, _)

------------------------------------------------------------------------------
(* Types.                                                                   *)

parse_ty(m, ty) == parse_ty_with_entrypoints(m, ty, FALSE)

make_pair(m, args) ==
  LET both(l, r) == Ret(r, pair(l.out, r.out))
      right(l) == both(l, IF Len(args) = 2 THEN parse_ty(l, args[2]) ELSE make_pair(l, Tail(args)))
  IN right(parse_ty(m, args[1]))

\* The property the first argument of a type must have, if any.
arg_prop(p) == CASE p \in {"ticket", "set", "map", "big_map"} -> "Comparable"
                 [] p = "contract" -> "Passable"
                 [] OTHER -> "-"

ensure_arg(a, p) == IF arg_prop(p) = "-" THEN a ELSE ensure_prop(a, a.out, arg_prop(p))

\* a is the first argument of p, parsed; b the second one.
unary_ty(p, a) == Ret(ensure_arg(a, p), <<p, a.out>>)

binary_ty(p, a, b) ==
  Ret(IF p = "big_map" THEN ensure_prop(b, b.out, "BigMapValue") ELSE b, <<p, a.out, b.out>>)

second_arg(p, a, arg, collect) ==
  binary_ty(p, a, parse_ty_with_entrypoints(ensure_arg(a, p), arg, collect))

\* The match of parse_ty_with_entrypoints on the primitive.
parse_ty_app(m, p, args, collect) ==
  LET first == parse_ty_with_entrypoints(m, args[1], collect /\ p = "or")
  IN CASE p \in Atoms /\ args = <<>> -> Ret(m, <<p>>)
       [] p = "pair" /\ Len(args) >= 2 -> make_pair(m, args)
       [] p \in Unary /\ Len(args) = 1 -> unary_ty(p, first)
       [] p \in Binary \ {"pair"} /\ Len(args) = 2 ->
            second_arg(p, first, args[2], collect /\ p = "or")
       [] OTHER -> Err(m)

\* An annotated type of the parameter is an entrypoint.
add_entrypoint(t, anns) ==
  LET ann == single_field_ann(anns)
  IN CASE Len(field_anns(anns)) > 1 -> Err(t)
       [] ann = None -> t
       [] Len(field_anns(anns)) = 1 ->
            IF Len(ann[1]) > MAX_EP_LEN THEN t
            ELSE IF ann[1] \in DOMAIN t.eps THEN Err(t)
            ELSE [t EXCEPT !.eps = (ann[1] :> t.out) @@ @]

parse_ty_with_entrypoints(m, ty, collect) ==
  LET paid(c) == IF ~Ok(c) THEN c
                 ELSE IF ty[1] = "app" THEN parse_ty_app(c, ty[2], ty[3], collect) ELSE Err(c)
      named(t) == IF collect /\ Ok(t) THEN add_entrypoint(t, ty[4]) ELSE t
  IN named(paid(consume(m, tc_cost.PARSE_TYPE_STEP)))

parse_parameter_ty_with_entrypoints(m, ty) ==
  LET whole(t) == IF Ok(t) THEN [t EXCEPT !.eps = @ @@ (default :> t.out)] ELSE t
  IN whole(parse_ty_with_entrypoints([m EXCEPT !.eps = <<>>], ty, TRUE))

------------------------------------------------------------------------------
(* Stacks.                                                                  *)

ensure_stacks_eq(m, st) ==
  IF Len(m.st) # Len(st) THEN Err(m)
  ELSE FoldLeft(LAMBDA acc, k : ensure_ty_eq(acc, m.st[k], st[k]), m,
                [k \in DOMAIN st |-> k])

\* dest is the stack of m, aux the stack of a.
unify_stacks(m, a) ==
  IF ~Ok(m) \/ a.failed THEN m
  ELSE IF m.failed THEN [m EXCEPT !.st = a.st, !.failed = FALSE]
  ELSE ensure_stacks_eq(m, a.st)

On(m, st) == [m EXCEPT !.st = st, !.failed = FALSE]

Prepend(h, t) == Ret(t, <<h.out>> \o t.out)

typecheck_rest(h, ast, eps) == Prepend(h, typecheck(h, ast, eps))

typecheck(m, ast, eps) ==
  IF ast = <<>> THEN Ret(m, <<>>)
  ELSE typecheck_rest(typecheck_instruction(m, Head(ast), eps), Tail(ast), eps)

------------------------------------------------------------------------------
(* Values.                                                                  *)

\* The literals that need no other function.
tc_literal(m, v, t) ==
  LET p == IF v[1] = "app" /\ v[3] = <<>> THEN v[2] ELSE "-"
  IN CASE t = NAT /\ IsInt(v) /\ v[2] >= 0 -> Ret(m, <<"Nat", v[2]>>)
       [] t = INT /\ IsInt(v) -> Ret(m, <<"Int", v[2]>>)
       [] t = TIMESTAMP /\ IsInt(v) -> Ret(m, <<"Timestamp", v[2]>>)
       [] t = MUMAV /\ IsInt(v) /\ v[2] \in 0..MaxMumav -> Ret(m, <<"Mumav", v[2]>>)
       [] t = BOOL /\ p \in {"True", "False"} -> Ret(m, <<"Bool", p = "True">>)
       [] t = UNIT /\ p = "Unit" -> Ret(m, <<"Unit">>)
       [] t = STRING_ /\ v[1] = "string" -> Ret(m, <<"String", v[2]>>)
       [] t = BYTES /\ v[1] = "bytes" -> Ret(m, <<"Bytes", v[2]>>)
       [] t = <<"bls12_381_fr">> /\ IsInt(v) ->
            Ret(consume(m, tc_cost.BLS_FR), <<"Bls12381Fr", v[2] % FrOrder>>)
       [] OTHER -> Err(m)

chain_id_from(s) == IF Len(s) = 1 THEN Some(s) ELSE None

\* A point or a scalar is one byte here.
bls_from_bytes(b) == IF Len(b) = 1 /\ b[1] < FrOrder THEN Some(b[1]) ELSE None

\* A date is its number of seconds, one code.
parse_from_rfc3339(s) == IF Len(s) = 1 THEN Some(s[1]) ELSE None

\* Hashes, keys and signatures, readable (a string) or optimized (bytes).
tc_repr(m, v, t) ==
  LET text == v[1] = "string"
      s == v[2]
      read(readable, optimized, from_b58check, from_bytes, con) ==
        LET c == consume(m, IF text THEN readable ELSE optimized)
            o == IF text THEN from_b58check ELSE from_bytes
        IN IF o = None THEN Err(c) ELSE Ret(c, <<con, o[1]>>)
  IN CASE t = <<"address">> ->
            LET c == consume(m, IF text THEN tc_cost.KEY_HASH_READABLE
                                ELSE tc_cost.KEY_HASH_OPTIMIZED)
                a == IF text THEN address_from_b58(s) ELSE address_from_bytes(s)
            IN IF a = None THEN Err(c) ELSE Ret(c, a[1])
       [] t = <<"chain_id">> ->
            read(tc_cost.CHAIN_ID_READABLE, tc_cost.CHAIN_ID_OPTIMIZED,
                 IF s = <<>> \/ s[1] # B58.net THEN None ELSE chain_id_from(Tail(s)),
                 chain_id_from(s), "ChainId")
       [] t = <<"key">> ->
            read(tc_cost.KEY_READABLE, tc_cost.KEY_OPTIMIZED, from_b58(s, B58.key),
                 key_from_bytes(s), "Key")
       [] t = <<"signature">> ->
            read(tc_cost.KEY_READABLE, tc_cost.KEY_OPTIMIZED, sig_from_b58(s),
                 sig_from_bytes(s), "Signature")
       [] t = <<"key_hash">> ->
            read(tc_cost.KEY_HASH_READABLE, tc_cost.KEY_HASH_OPTIMIZED,
                 from_b58(s, B58.key_hash), key_hash_from_bytes(s), "KeyHash")
       [] text /\ t = TIMESTAMP ->
            LET c == consume(m, timestamp_decoding(Len(s)))
                n == parse_from_rfc3339(s)
            IN IF n = None THEN Err(c) ELSE Ret(c, <<"Timestamp", n[1]>>)
       [] v[1] = "bytes" /\ t = <<"bls12_381_fr">> ->
            read(0, tc_cost.BLS_FR, None, bls_from_bytes(s), "Bls12381Fr")
       [] v[1] = "bytes" /\ t = <<"bls12_381_g1">> ->
            read(0, tc_cost.BLS_G1, None, bls_from_bytes(s), "Bls12381G1")
       [] v[1] = "bytes" /\ t = <<"bls12_381_g2">> ->
            read(0, tc_cost.BLS_G2, None, bls_from_bytes(s), "Bls12381G2")
       [] OTHER -> Err(m)

\* A contract taken at its word for the type of its entrypoint.
typecheck_contract_address_known(m, a, ep, typ) ==
  LET entrypoint == IF ep = default THEN a[3] ELSE ep
  IN IF a[2] \in DOMAIN known_contracts /\ entrypoint \in DOMAIN known_contracts[a[2]]
     THEN Ret(m, <<"Address", a[2], entrypoint>>) ELSE Err(m)

typecheck_contract_address(m, a, ep, typ) ==
  LET entrypoint == IF ep = default THEN a[3] ELSE ep
      eps == known_contracts[a[2]]
      addr == <<"Address", a[2], entrypoint>>
  IN CASE a[3] # default /\ ep # default -> Err(m)
       [] (a[3] = default \/ ep = default) /\ a[2][1] = 0 ->
            IF entrypoint = default /\ typ[1] \in {"unit", "ticket"} THEN Ret(m, addr)
            ELSE Err(m)
       [] OTHER ->
            IF a[2] \notin DOMAIN known_contracts THEN Err(m)
            ELSE IF entrypoint \notin DOMAIN eps THEN Err(m)
            ELSE Ret(ensure_ty_eq(m, typ, eps[entrypoint]), addr)

\* OrderValidatingIterator: each key is compared with the one before it.
ascending(m, a, b) ==
  LET c == consume(m, compare_cost(a, b))
  IN IF Less(a, b) THEN c ELSE Err(c)

\* A key and, for a map, its value join the elements before them.
add_elt(es, k, v, vt) ==
  Ret(IF Ok(v) /\ es # <<>> THEN ascending(v, Last(es)[1], k.out) ELSE v,
      Append(es, IF vt = None THEN <<k.out>> ELSE <<k.out, v.out>>))

tc_elt(es, k, e, vt) ==
  add_elt(es, k, IF vt = None THEN k ELSE typecheck_value(k, e[3][2], vt[1]), vt)

\* typecheck_set (vt = None) and typecheck_map over what is left of the
\* literal; m.out is the tree so far.
tc_elts(m, ms, kt, vt) ==
  LET e == ms[1]
      is_elt == e[1] = "app" /\ e[2] = "Elt" /\ Len(e[3]) = 2
  IN CASE ms = <<>> \/ ~Ok(m) -> m
       [] OTHER -> IF vt # None /\ ~is_elt THEN Err(m)
                   ELSE tc_elts(tc_elt(m.out, typecheck_value(m, IF vt = None THEN e ELSE e[3][1], kt),
                                       e, vt), Tail(ms), kt, vt)

typecheck_set(m, ty, vs) ==
  tc_elts(Ret(consume(m, tc_construct_set(size_for_gas(ty), Len(vs))), <<>>), vs, ty, None)

typecheck_map(m, tk, tv, vs) ==
  tc_elts(Ret(consume(m, tc_construct_map(size_for_gas(tk), Len(vs))), <<>>), vs, tk, Some(tv))

\* A big map literal: an id, an overlay, or both.
tc_big_map(m, v, tk, tv) ==
  LET both == v[1] = "app" /\ v[2] = "Pair" /\ Len(v[3]) = 2
              /\ IsInt(v[3][1]) /\ IsSeq(v[3][2])
      id == IF IsInt(v) THEN Some(v[2]) ELSE IF both THEN Some(v[3][1][2]) ELSE None
      vs == IF IsSeq(v) THEN Some(v[2]) ELSE IF both THEN Some(v[3][2][2]) ELSE None
      c == CASE id = None -> m
             [] id # None /\ id[1] \notin DOMAIN m.lazy -> Err(m)
             [] OTHER -> ensure_ty_eq(ensure_ty_eq(m, m.lazy[id[1]].kty, tk),
                                      m.lazy[id[1]].vty, tv)
      overlay(o) == Ret(o, <<"BigMap", id,
                             [k \in DOMAIN o.out |-> <<o.out[k][1], Some(o.out[k][2])>>], tk, tv>>)
  IN IF id = None /\ vs = None THEN Err(m)
     ELSE overlay(IF vs = None THEN Ret(c, <<>>) ELSE typecheck_map(c, tk, tv, vs[1]))

typecheck_lambda(m, instrs, in, out, rec) ==
  LET lam(code) == IF rec THEN <<"LambdaRec", code, <<"seq", instrs>>, in, out>>
                   ELSE <<"Lambda", code, <<"seq", instrs>>>>
      checked(c, u) ==
        IF Ok(u) THEN [u EXCEPT !.st = m.st, !.failed = FALSE, !.out = lam(c.out)] ELSE u
      body(c) == checked(c, unify_stacks(c, On(m, <<out>>)))
  IN body(typecheck(On(m, IF rec THEN <<in, <<"lambda", in, out>>>> ELSE <<in>>), instrs, None))

RECURSIVE tc_list(_, _, _)
tc_list_rest(h, vs, ty) == Prepend(h, tc_list(h, vs, ty))

tc_list(m, vs, ty) ==
  IF vs = <<>> THEN Ret(m, <<>>)
  ELSE tc_list_rest(typecheck_value(m, Head(vs), ty), Tail(vs), ty)

\* A ticket literal is read as the pair it unwraps to; whatever goes wrong,
\* running out of gas included, is the same error.
tc_ticket(m, v, ty) ==
  LET wrap(p) == IF p.r \in {"oog", "err"} THEN [p EXCEPT !.r = "err"]
                 ELSE Ret(p, <<"Ticket", p.out[2][2], p.out[3][2], p.out[3][3][2]>>)
  IN wrap(typecheck_value(m, v, pair(ADDRESS, pair(ty, NAT))))

\* The value x, in the constructor con.
Wrap(x, con) == Ret(x, Append(con, x.out))

tc_or(c, p, arg, t) ==
  Wrap(typecheck_value(c, arg, IF p = "Left" THEN t[2] ELSE t[3]), <<"Or", p>>)

tc_option(x) == Ret(x, <<"Option", Some(x.out)>>)

\* A pair in any of its notations: args are its components, two or more.
both_values(l, r) == Ret(r, <<"Pair", l.out, r.out>>)

tc_right(l, args, t) ==
  both_values(l, typecheck_value(l, IF Len(args) = 2 THEN args[2] ELSE prim("Pair", Tail(args)), t[3]))

tc_pair_value(c, args, t) == tc_right(typecheck_value(c, args[1], t[2]), args, t)

tc_collection_value(c, vs, t) ==
  CASE t[1] = "list" -> Wrap(tc_list(c, vs, t[2]), <<"List">>)
    [] t[1] = "set" -> Wrap(typecheck_set(c, t[2], vs), <<"Set">>)
    [] t[1] = "map" -> Wrap(typecheck_map(c, t[2], t[3], vs), <<"Map">>)

as_contract(k) == Ret(k, <<"Contract", k.out[2], k.out[3]>>)

tc_contract_value(a, t) ==
  IF Ok(a) THEN as_contract(typecheck_contract_address(a, a.out, default, t[2])) ELSE a

\* The match of typecheck_value; p is the primitive of v and args what it holds.
tc_match(c, v, p, args, t) ==
  LET rec == p = "Lambda_rec" /\ Len(args) = 1 /\ IsSeq(args[1])
  IN CASE t[1] = "pair" ->
            IF (p = "Pair" \/ IsSeq(v)) /\ Len(args) >= 2 THEN tc_pair_value(c, args, t) ELSE Err(c)
       [] t[1] = "or" ->
            IF p \in {"Left", "Right"} /\ Len(args) = 1 THEN tc_or(c, p, args[1], t) ELSE Err(c)
       [] t[1] = "option" ->
            IF p = "Some" /\ Len(args) = 1 THEN tc_option(typecheck_value(c, args[1], t[2]))
            ELSE IF p = "None" /\ args = <<>> THEN Ret(c, <<"Option", None>>)
            ELSE Err(c)
       [] t[1] \in {"list", "set", "map"} ->
            IF IsSeq(v) THEN tc_collection_value(c, args, t) ELSE Err(c)
       [] t[1] = "big_map" -> tc_big_map(c, v, t[2], t[3])
       [] t[1] = "contract" -> tc_contract_value(typecheck_value(c, v, ADDRESS), t)
       [] t[1] = "lambda" ->
            IF rec \/ IsSeq(v)
            THEN Wrap(typecheck_lambda(c, IF rec THEN args[1][2] ELSE args, t[2], t[3], rec), <<"Lambda">>)
            ELSE Err(c)
       [] t[1] = "ticket" -> tc_ticket(c, v, t[2])
       [] t[1] \in Atoms ->
            IF v[1] \in {"string", "bytes"} /\ t \notin {STRING_, BYTES}
            THEN tc_repr(c, v, t) ELSE tc_literal(c, v, t)

typecheck_value(m, v, t) ==
  LET p == IF v[1] = "app" THEN v[2] ELSE "-"
      args == IF IsSeq(v) THEN v[2] ELSE IF v[1] = "app" THEN v[3] ELSE <<>>
      paid(c) == IF Ok(c) THEN tc_match(c, v, p, args, t) ELSE c
  IN paid(consume(m, tc_cost.VALUE_STEP))

------------------------------------------------------------------------------
(* Instructions whose types are fixed: <<instruction, the types it takes,   *)
(* top first, the types it leaves, the typed instruction>>.                 *)

FR == <<"bls12_381_fr">>
G1 == <<"bls12_381_g1">>
G2 == <<"bls12_381_g2">>

AddRows ==
  {<<"ADD", <<NAT, NAT>>, <<NAT>>, <<"Add", "NatNat">>>>,
   <<"ADD", <<INT, INT>>, <<INT>>, <<"Add", "IntInt">>>>,
   <<"ADD", <<INT, NAT>>, <<INT>>, <<"Add", "IntNat">>>>,
   <<"ADD", <<NAT, INT>>, <<INT>>, <<"Add", "NatInt">>>>,
   <<"ADD", <<MUMAV, MUMAV>>, <<MUMAV>>, <<"Add", "MumavMumav">>>>,
   <<"ADD", <<FR, FR>>, <<FR>>, <<"Add", "Bls12381Fr">>>>,
   <<"ADD", <<G1, G1>>, <<G1>>, <<"Add", "Bls12381G1">>>>,
   <<"ADD", <<G2, G2>>, <<G2>>, <<"Add", "Bls12381G2">>>>,
   <<"ADD", <<INT, TIMESTAMP>>, <<TIMESTAMP>>, <<"Add", "IntTimestamp">>>>,
   <<"ADD", <<TIMESTAMP, INT>>, <<TIMESTAMP>>, <<"Add", "TimestampInt">>>>}

MulRows ==
  {<<"MUL", <<NAT, NAT>>, <<NAT>>, <<"Mul", "NatNat">>>>,
   <<"MUL", <<NAT, INT>>, <<INT>>, <<"Mul", "NatInt">>>>,
   <<"MUL", <<INT, NAT>>, <<INT>>, <<"Mul", "IntNat">>>>,
   <<"MUL", <<INT, INT>>, <<INT>>, <<"Mul", "IntInt">>>>,
   <<"MUL", <<NAT, MUMAV>>, <<MUMAV>>, <<"Mul", "NatMumav">>>>,
   <<"MUL", <<MUMAV, NAT>>, <<MUMAV>>, <<"Mul", "MumavNat">>>>,
   <<"MUL", <<G1, FR>>, <<G1>>, <<"Mul", "Bls12381G1Bls12381Fr">>>>,
   <<"MUL", <<G2, FR>>, <<G2>>, <<"Mul", "Bls12381G2Bls12381Fr">>>>,
   <<"MUL", <<FR, FR>>, <<FR>>, <<"Mul", "Bls12381FrBls12381Fr">>>>,
   <<"MUL", <<NAT, FR>>, <<FR>>, <<"Mul", "NatBls12381Fr">>>>,
   <<"MUL", <<INT, FR>>, <<FR>>, <<"Mul", "IntBls12381Fr">>>>,
   <<"MUL", <<FR, NAT>>, <<FR>>, <<"Mul", "Bls12381FrNat">>>>,
   <<"MUL", <<FR, INT>>, <<FR>>, <<"Mul", "Bls12381FrInt">>>>}

EDivRows ==
  {<<"EDIV", <<a, b>>, <<option(pair(IF {a, b} = {NAT} THEN NAT ELSE INT, NAT))>>,
     <<"EDiv", IF a = NAT THEN (IF b = NAT THEN "NatNat" ELSE "NatInt")
               ELSE (IF b = NAT THEN "IntNat" ELSE "IntInt")>>>>
     : a \in {NAT, INT}, b \in {NAT, INT}}
  \cup {<<"EDIV", <<MUMAV, NAT>>, <<option(pair(MUMAV, MUMAV))>>, <<"EDiv", "MumavNat">>>>,
        <<"EDIV", <<MUMAV, MUMAV>>, <<option(pair(NAT, MUMAV))>>, <<"EDiv", "MumavMumav">>>>}

NegSubRows ==
  {<<"NEG", <<NAT>>, <<INT>>, <<"Neg", "Nat">>>>,
   <<"NEG", <<INT>>, <<INT>>, <<"Neg", "Int">>>>,
   <<"NEG", <<G1>>, <<G1>>, <<"Neg", "Bls12381G1">>>>,
   <<"NEG", <<G2>>, <<G2>>, <<"Neg", "Bls12381G2">>>>,
   <<"NEG", <<FR>>, <<FR>>, <<"Neg", "Bls12381Fr">>>>,
   <<"SUB", <<NAT, NAT>>, <<INT>>, <<"Sub", "NatNat">>>>,
   <<"SUB", <<NAT, INT>>, <<INT>>, <<"Sub", "NatInt">>>>,
   <<"SUB", <<INT, NAT>>, <<INT>>, <<"Sub", "IntNat">>>>,
   <<"SUB", <<INT, INT>>, <<INT>>, <<"Sub", "IntInt">>>>,
   <<"SUB", <<TIMESTAMP, INT>>, <<TIMESTAMP>>, <<"Sub", "TimestampInt">>>>,
   <<"SUB", <<TIMESTAMP, TIMESTAMP>>, <<INT>>, <<"Sub", "TimestampTimestamp">>>>,
   <<"SUB_MUMAV", <<MUMAV, MUMAV>>, <<option(MUMAV)>>, <<"SubMumav">>>>}

LogicRows ==
  {<<"AND", <<INT, NAT>>, <<NAT>>, <<"And", "IntNat">>>>,
   <<"LSL", <<NAT, NAT>>, <<NAT>>, <<"Lsl", "Nat">>>>,
   <<"LSL", <<BYTES, NAT>>, <<BYTES>>, <<"Lsl", "Bytes">>>>,
   <<"LSR", <<NAT, NAT>>, <<NAT>>, <<"Lsr", "Nat">>>>,
   <<"LSR", <<BYTES, NAT>>, <<BYTES>>, <<"Lsr", "Bytes">>>>,
   <<"NOT", <<BOOL>>, <<BOOL>>, <<"Not", "Bool">>>>,
   <<"NOT", <<INT>>, <<INT>>, <<"Not", "Int">>>>,
   <<"NOT", <<NAT>>, <<INT>>, <<"Not", "Nat">>>>,
   <<"NOT", <<BYTES>>, <<BYTES>>, <<"Not", "Bytes">>>>}
  \cup UNION {{<<p[1], <<NAT, NAT>>, <<NAT>>, <<p[2], IF p[2] = "And" THEN "NatNat" ELSE "Nat">>>>,
               <<p[1], <<BOOL, BOOL>>, <<BOOL>>, <<p[2], "Bool">>>>,
               <<p[1], <<BYTES, BYTES>>, <<BYTES>>, <<p[2], "Bytes">>>>}
              : p \in {<<"AND", "And">>, <<"OR", "Or">>, <<"XOR", "Xor">>}}

CompareRows ==
  {<<p[1], <<INT>>, <<BOOL>>, <<p[2]>>>>
   : p \in {<<"GT", "Gt">>, <<"GE", "Ge">>, <<"EQ", "Eq">>, <<"NEQ", "Neq">>,
            <<"LE", "Le">>, <<"LT", "Lt">>}}

ConvertRows ==
  {<<"INT", <<NAT>>, <<INT>>, <<"Int", "Nat">>>>,
   <<"INT", <<FR>>, <<INT>>, <<"Int", "Bls12381Fr">>>>,
   <<"INT", <<BYTES>>, <<INT>>, <<"Int", "Bytes">>>>,
   <<"NAT", <<BYTES>>, <<NAT>>, <<"Nat">>>>,
   <<"BYTES", <<INT>>, <<BYTES>>, <<"Bytes", "Int">>>>,
   <<"BYTES", <<NAT>>, <<BYTES>>, <<"Bytes", "Nat">>>>,
   <<"ABS", <<INT>>, <<NAT>>, <<"Abs">>>>,
   <<"ISNAT", <<INT>>, <<option(NAT)>>, <<"IsNat">>>>}

\* CONCAT of a list of strings that is run as one of bytes.
ConcatRows_bytes ==
  {<<"CONCAT", <<STRING_, STRING_>>, <<STRING_>>, <<"Concat", "TwoStrings">>>>,
   <<"CONCAT", <<<<"list", STRING_>>>>, <<STRING_>>, <<"Concat", "ListOfBytes">>>>}

ConcatRows ==
  {<<"CONCAT", <<STRING_, STRING_>>, <<STRING_>>, <<"Concat", "TwoStrings">>>>,
   <<"CONCAT", <<BYTES, BYTES>>, <<BYTES>>, <<"Concat", "TwoBytes">>>>,
   <<"CONCAT", <<<<"list", STRING_>>>>, <<STRING_>>, <<"Concat", "ListOfStrings">>>>,
   <<"CONCAT", <<<<"list", BYTES>>>>, <<BYTES>>, <<"Concat", "ListOfBytes">>>>}

SliceRows ==
  {<<"SLICE", <<NAT, NAT, STRING_>>, <<option(STRING_)>>, <<"Slice", "String">>>>,
   <<"SLICE", <<NAT, NAT, BYTES>>, <<option(BYTES)>>, <<"Slice", "Bytes">>>>}

SizeRows ==
  {<<"SIZE", <<STRING_>>, <<NAT>>, <<"Size", "String">>>>,
   <<"SIZE", <<BYTES>>, <<NAT>>, <<"Size", "Bytes">>>>}

\* CHECK_SIGNATURE that expects the signature above the key.
SignatureRows_swapped ==
  {<<"CHECK_SIGNATURE", <<<<"signature">>, <<"key">>, BYTES>>, <<BOOL>>, <<"CheckSignature">>>>}

SignatureRows ==
  {<<"CHECK_SIGNATURE", <<<<"key">>, <<"signature">>, BYTES>>, <<BOOL>>, <<"CheckSignature">>>>}

HashKeyRows == {<<"HASH_KEY", <<<<"key">>>>, <<KEY_HASH>>, <<"HashKey">>>>}

HashRows == {<<h, <<BYTES>>, <<BYTES>>, <<"Hash", h>>>>
             : h \in {"BLAKE2B", "KECCAK", "SHA256", "SHA3", "SHA512"}}

PairingRows ==
  {<<"PAIRING_CHECK", <<<<"list", pair(G1, G2)>>>>, <<BOOL>>, <<"PairingCheck">>>>}

DelegateRows == {<<"SET_DELEGATE", <<option(KEY_HASH)>>, <<OPERATION>>, <<"SetDelegate">>>>}

\* The block's part of the context.
ContextRows ==
  {<<"UNIT", <<>>, <<UNIT>>, <<"Unit">>>>,
   <<"AMOUNT", <<>>, <<MUMAV>>, <<"Amount">>>>,
   <<"BALANCE", <<>>, <<MUMAV>>, <<"Balance">>>>,
   <<"CHAIN_ID", <<>>, <<<<"chain_id">>>>, <<"ChainId">>>>,
   <<"LEVEL", <<>>, <<NAT>>, <<"Level">>>>,
   <<"MIN_BLOCK_TIME", <<>>, <<NAT>>, <<"MinBlockTime">>>>,
   <<"SELF_ADDRESS", <<>>, <<ADDRESS>>, <<"SelfAddress">>>>,
   <<"SENDER", <<>>, <<ADDRESS>>, <<"Sender">>>>,
   <<"SOURCE", <<>>, <<ADDRESS>>, <<"Source">>>>,
   <<"NOW", <<>>, <<TIMESTAMP>>, <<"Now">>>>,
   <<"TOTAL_VOTING_POWER", <<>>, <<NAT>>, <<"TotalVotingPower">>>>,
   <<"VOTING_POWER", <<KEY_HASH>>, <<NAT>>, <<"VotingPower">>>>,
   <<"IMPLICIT_ACCOUNT", <<KEY_HASH>>, <<<<"contract", UNIT>>>>, <<"ImplicitAccount">>>>}

Rows == AddRows \cup MulRows \cup EDivRows \cup NegSubRows \cup LogicRows \cup CompareRows
        \cup ConvertRows \cup ConcatRows \cup SliceRows \cup SizeRows \cup SignatureRows
        \cup HashKeyRows \cup HashRows \cup PairingRows \cup DelegateRows \cup ContextRows

FixedPrims == {row[1] : row \in Rows}

\* The arm of typecheck_instruction whose pattern the stack matches.
tc_fixed(m, p, args) ==
  LET fits == {row \in Rows : /\ row[1] = p
                              /\ Len(row[2]) <= Len(m.st)
                              /\ SubSeq(m.st, 1, Len(row[2])) = row[2]}
      row == CHOOSE r \in fits : TRUE
  IN IF args # <<>> \/ fits = {} THEN Err(m) ELSE With(m, Len(row[2]), row[3], row[4])

------------------------------------------------------------------------------
(* The stack.                                                               *)

\* DIP, DROP, DUP, DIG and DUG: an optional depth.
depth(args) == IF args # <<>> /\ IsInt(args[1]) THEN Some(args[1][2]) ELSE None

tc_dip(m, args, eps) ==
  LET n == IF depth(args) = None THEN 1 ELSE depth(args)[1]
      c == IF depth(args) = None THEN m ELSE consume(m, tc_variadic(n))
      back(inner) ==
        IF Ok(inner) /\ inner.failed THEN Err(inner)
        ELSE With(inner, 0, SubSeq(m.st, 1, n), <<"Dip", depth(args), inner.out>>)
  IN CASE ~(Len(args) \in {1, 2} /\ IsSeq(Last(args)) /\ (Len(args) = 2 => IsU10(args[1])))
            -> Err(m)
       [] OTHER -> IF ~Ok(c) THEN c
                   ELSE IF Len(m.st) < n THEN Err(c)
                   ELSE back(typecheck(On(c, SubSeq(m.st, n + 1, Len(m.st))), Last(args)[2], eps))

tc_drop(m, args) ==
  LET n == IF args = <<>> THEN 1 ELSE args[1][2]
      c == IF args = <<>> THEN m ELSE consume(m, tc_variadic(n))
  IN CASE ~(args = <<>> \/ (Len(args) = 1 /\ IsU10(args[1]))) -> Err(m)
       [] OTHER -> IF Len(m.st) < n THEN Err(c) ELSE With(c, n, <<>>, <<"Drop", depth(args)>>)

tc_dup(m, args) ==
  LET n == IF args = <<>> THEN 1 ELSE args[1][2]
      c == ensure_prop(m, m.st[n], "Duplicable")
  IN CASE ~(args = <<>> \/ (Len(args) = 1 /\ IsU10(args[1]) /\ n # 0)) -> Err(m)
       [] OTHER -> IF Len(m.st) < n THEN Err(m)
                   ELSE With(c, 0, <<m.st[n]>>, <<"Dup", depth(args)>>)

\* Stack::remove and Stack::insert count from the top.
Dig(st, n) == <<st[n + 1]>> \o SubSeq(st, 1, n) \o SubSeq(st, n + 2, Len(st))

Dug(st, n) == SubSeq(st, 2, n + 1) \o <<st[1]>> \o SubSeq(st, n + 2, Len(st))

\* The element at depth n is the (n+1)th, but the length is compared with n:
\* when they are equal remove and insert go out of bounds.
tc_dig(m, args) ==
  LET n == args[1][2]
      c == consume(m, tc_variadic(n))
  IN CASE ~(Len(args) = 1 /\ IsU10(args[1])) -> Err(m)
       [] OTHER -> IF Len(m.st) < n THEN Err(m)
                   ELSE IF n > 0 /\ Len(m.st) < n + 1 THEN Panic(c)
                   ELSE With(c, Len(m.st), IF n = 0 THEN m.st ELSE Dig(m.st, n), <<"Dig", n>>)

tc_dug(m, args) ==
  LET n == args[1][2]
      c == consume(m, tc_variadic(n))
  IN CASE ~(Len(args) = 1 /\ IsU10(args[1])) -> Err(m)
       [] OTHER -> IF n > 0 /\ Len(m.st) < n THEN Err(c)
                   ELSE IF n > 0 /\ Len(m.st) < n + 1 THEN Panic(c)
                   ELSE With(c, Len(m.st), IF n = 0 THEN m.st ELSE Dug(m.st, n), <<"Dug", n>>)

------------------------------------------------------------------------------
(* Control.                                                                 *)

\* Both branches are checked, one after the other, and their stacks unified.
unified(a, b, con) == Ret(unify_stacks(b, a), <<con, a.out, b.out>>)

second_branch(a, con, st, code, eps) ==
  IF ~Ok(a) THEN a ELSE unified(a, typecheck(On(a, st), code[2], eps), con)

branches(m, con, st1, code1, st2, code2, eps) ==
  second_branch(typecheck(On(m, st1), code1[2], eps), con, st2, code2, eps)

tc_if(m, p, args, eps) ==
  LET t == m.st[1]
      rest == Tail(m.st)
      arm == CASE p = "IF" /\ t = BOOL -> <<"If", rest, rest>>
               [] p = "IF_NONE" /\ t[1] = "option" -> <<"IfNone", rest, <<t[2]>> \o rest>>
               [] p = "IF_CONS" /\ t[1] = "list" -> <<"IfCons", <<t[2]>> \o m.st, rest>>
               [] p = "IF_LEFT" /\ t[1] = "or" -> <<"IfLeft", <<t[2]>> \o rest, <<t[3]>> \o rest>>
               [] OTHER -> <<>>
  IN IF Len(args) # 2 \/ m.st = <<>> THEN Err(m)
     ELSE IF ~IsSeq(args[1]) \/ ~IsSeq(args[2]) THEN Err(m)
     ELSE IF arm = <<>> THEN Err(m)
     ELSE branches(m, arm[1], arm[2], args[1], arm[3], args[2], eps)

Kind == [set |-> "Set", map |-> "Map", big_map |-> "BigMap", list |-> "List",
         option |-> "Option"]

\* The body of a loop gives the stack back as it found it: m is the state
\* before the loop and b the one after its body.
after_body(m, b, p) ==
  LET t == m.st[1]
  IN CASE p = "LOOP" -> With(unify_stacks(b, m), 1, <<>>, <<"Loop", b.out>>)
       [] p = "LOOP_LEFT" -> With(unify_stacks(b, m), 1, <<t[3]>>, <<"LoopLeft", b.out>>)
       [] p = "ITER" ->
            Ret(IF Ok(b) THEN unify_stacks([b EXCEPT !.st = Tail(m.st), !.failed = FALSE], b) ELSE b,
                <<"Iter", Kind[t[1]], b.out>>)

element(t) == IF t[1] = "map" THEN pair(t[2], t[3]) ELSE t[2]

tc_loop(m, p, args, eps) ==
  LET t == m.st[1]
      first == CASE p = "LOOP" /\ t = BOOL -> Some(<<>>)
                 [] p = "LOOP_LEFT" /\ t[1] = "or" -> Some(<<t[2]>>)
                 [] p = "ITER" /\ t[1] \in {"list", "set", "map"} -> Some(<<element(t)>>)
                 [] OTHER -> None
  IN IF Len(args) # 1 \/ m.st = <<>> THEN Err(m)
     ELSE IF ~IsSeq(args[1]) \/ first = None THEN Err(m)
     ELSE after_body(m, typecheck(On(m, first[1] \o Tail(m.st)), args[1][2], eps), p)

\* typecheck_map_block and MAP.
after_map(m, b) ==
  LET t == m.st[1]
      res == IF t[1] = "map" THEN <<"map", t[2], b.st[1]>> ELSE <<t[1], b.st[1]>>
  IN IF ~Ok(b) THEN b
     ELSE IF b.failed \/ b.st = <<>> THEN Err(b)
     ELSE With(ensure_stacks_eq([b EXCEPT !.st = Tail(m.st)], Tail(b.st)), 0, <<res>>,
               <<"Map", Kind[t[1]], b.out>>)

tc_map(m, args, eps) ==
  IF Len(args) # 1 \/ m.st = <<>> THEN Err(m)
  ELSE IF ~IsSeq(args[1]) \/ m.st[1][1] \notin {"list", "option", "map"} THEN Err(m)
  ELSE after_map(m, typecheck(On(m, <<element(m.st[1])>> \o Tail(m.st)), args[1][2], eps))

tc_fail(m, p) ==
  LET dead(c, x) == IF Ok(c) THEN [c EXCEPT !.st = <<>>, !.failed = TRUE, !.out = x] ELSE c
  IN CASE m.st = <<>> -> Err(m)
       [] p = "FAILWITH" /\ m.st # <<>> ->
            dead(ensure_prop(m, m.st[1], "Pushable"), <<"Failwith", m.st[1]>>)
       [] p = "NEVER" /\ m.st # <<>> ->
            IF m.st[1] = <<"never">> THEN dead(m, <<"Never">>) ELSE Err(m)

------------------------------------------------------------------------------
(* Data.                                                                    *)

RECURSIVE comb(_)
comb(ts) == IF Len(ts) = 1 THEN ts[1] ELSE pair(ts[1], comb(Tail(ts)))

\* One pair fewer than UNPAIR n takes apart.
RECURSIVE uncomb_short(_, _)
uncomb_short(t, n) ==
  IF n <= 2 THEN Some(<<t>>)
  ELSE IF t[1] # "pair" THEN None
  ELSE LET r == uncomb_short(t[3], n - 1) IN IF r = None THEN None ELSE Some(<<t[2]>> \o r[1])

\* UNPAIR n: the n leaves of a right comb, None when it is shorter.
RECURSIVE uncomb(_, _)
uncomb(t, n) ==
  IF n = 1 THEN Some(<<t>>)
  ELSE IF t[1] # "pair" THEN None
  ELSE LET r == uncomb(t[3], n - 1) IN IF r = None THEN None ELSE Some(<<t[2]>> \o r[1])

\* The path get_nth_field_ref takes: 0 the type itself, 1 the left, then right.
RECURSIVE get_nth_field(_, _)
get_nth_field(n, t) ==
  CASE n = 0 -> Some(t)
    [] n # 0 /\ t[1] # "pair" -> None
    [] n = 1 /\ t[1] = "pair" -> Some(t[2])
    [] OTHER -> get_nth_field(n - 2, t[3])

RECURSIVE set_nth_field(_, _, _)
set_nth_field(n, t, x) ==
  CASE n = 0 -> x
    [] n = 1 -> pair(x, t[3])
    [] OTHER -> pair(t[2], set_nth_field(n - 2, t[3], x))

tc_pair(m, p, args) ==
  LET n == args[1][2]
      ok == Len(args) = 1 /\ IsU10(args[1]) /\ n >= 2
      t == m.st[1]
      c == consume(m, tc_variadic(n))
      leaves == uncomb(t, n)
  IN CASE p \in {"CAR", "CDR"} ->
            IF args = <<>> /\ Shape(m, <<"pair">>)
            THEN With(m, 1, <<IF p = "CAR" THEN t[2] ELSE t[3]>>,
                      <<IF p = "CAR" THEN "Car" ELSE "Cdr">>)
            ELSE Err(m)
       [] p = "PAIR" ->
            IF args = <<>>
            THEN IF Len(m.st) < 2 THEN Err(m) ELSE With(m, 2, <<pair(t, m.st[2])>>, <<"Pair">>)
            ELSE IF ~ok THEN Err(m)
            ELSE IF Len(m.st) < n THEN Err(m)
            ELSE With(c, n, <<comb(SubSeq(m.st, 1, n))>>, <<"PairN", n>>)
       [] p = "UNPAIR" ->
            IF args = <<>>
            THEN IF Shape(m, <<"pair">>) THEN With(m, 1, <<t[2], t[3]>>, <<"Unpair">>) ELSE Err(m)
            ELSE IF ~ok \/ m.st = <<>> THEN Err(m)
            ELSE IF leaves = None THEN Err(c)
            ELSE With(c, 1, leaves[1], <<"UnpairN", n>>)

\* GET n and UPDATE n; only the first is paid for.
tc_field(m, p, args) ==
  LET n == args[1][2]
      c == consume(m, tc_variadic(n))
      f(k) == get_nth_field(n, m.st[k])
  IN CASE p = "GET" -> IF Len(args) # 1 \/ ~IsU10(args[1]) \/ m.st = <<>> THEN Err(m)
                       ELSE IF f(1) = None THEN Err(c)
                       ELSE With(c, 1, f(1), <<"GetN", n>>)
       [] p = "UPDATE" -> IF Len(args) # 1 \/ ~IsU10(args[1]) \/ Len(m.st) < 2 THEN Err(m)
                          ELSE IF f(2) = None THEN Err(m)
                          ELSE With(m, 2, <<set_nth_field(n, m.st[2], m.st[1])>>, <<"UpdateN", n>>)

\* PUSH, NONE, NIL, LEFT, RIGHT, EMPTY_SET and EMPTY_BIG_MAP: types in the
\* code; a is the first, parsed.
pushed(a, v) == With(v, 0, <<a.out>>, <<"Push", v.out>>)

empty_big_map(a, b) ==
  With(ensure_prop(b, b.out, "BigMapValue"), 0, <<<<"big_map", a.out, b.out>>>>,
       <<"EmptyBigMap", a.out, b.out>>)

tc_typed(a, p, args) ==
  CASE p = "PUSH" -> pushed(a, typecheck_value(ensure_prop(a, a.out, "Pushable"), args[2], a.out))
    [] p = "NONE" -> With(a, 0, <<option(a.out)>>, <<"None">>)
    [] p = "NIL" -> With(a, 0, <<<<"list", a.out>>>>, <<"Nil">>)
    [] p = "LEFT" -> With(a, 1, <<<<"or", a.st[1], a.out>>>>, <<"Left">>)
    [] p = "RIGHT" -> With(a, 1, <<<<"or", a.out, a.st[1]>>>>, <<"Right">>)
    [] p = "EMPTY_SET" ->
         With(ensure_prop(a, a.out, "Comparable"), 0, <<<<"set", a.out>>>>, <<"EmptySet">>)
    [] p = "EMPTY_BIG_MAP" ->
         empty_big_map(a, parse_ty(ensure_prop(a, a.out, "Comparable"), args[2]))

tc_construct(m, p, args) ==
  IF Len(args) # (IF p \in {"PUSH", "EMPTY_BIG_MAP"} THEN 2 ELSE 1) THEN Err(m)
  ELSE IF p \in {"LEFT", "RIGHT"} /\ m.st = <<>> THEN Err(m)
  ELSE tc_typed(parse_ty(m, args[1]), p, args)

\* SOME, SWAP and CONS.
tc_data(m, p, args) ==
  LET t == m.st[1]
  IN CASE args # <<>> \/ Len(m.st) < (IF p = "SOME" THEN 1 ELSE 2) -> Err(m)
       [] OTHER ->
            CASE p = "SOME" -> With(m, 1, <<option(t)>>, <<"ISome">>)
              [] p = "SWAP" -> With(m, 2, <<m.st[2], t>>, <<"Swap">>)
              [] p = "CONS" -> IF m.st[2][1] # "list" THEN Err(m)
                               ELSE With(ensure_ty_eq(m, m.st[2][2], t), 1, <<>>, <<"Cons">>)

tc_compare(m, args) ==
  IF args # <<>> \/ Len(m.st) < 2 THEN Err(m)
  ELSE With(ensure_prop(ensure_ty_eq(m, m.st[1], m.st[2]), m.st[1], "Comparable"), 2, <<INT>>,
            <<"Compare">>)

\* The k-th type is a collection of one of the kinds.
at(m, k, kinds) == Len(m.st) >= k /\ m.st[k][1] \in kinds

\* The key on top has the type the k-th, a collection, is keyed by.
keyed(m, k) == ensure_ty_eq(m, m.st[k][2], m.st[1])

tc_mem(m) ==
  IF ~at(m, 2, {"set", "map", "big_map"}) THEN Err(m)
  ELSE With(keyed(m, 2), 2, <<BOOL>>, <<"Mem", Kind[m.st[2][1]]>>)

tc_get(m) ==
  IF ~at(m, 2, {"map", "big_map"}) THEN Err(m)
  ELSE With(keyed(m, 2), 2, <<option(m.st[2][3])>>, <<"Get", Kind[m.st[2][1]]>>)

valued(m) == ensure_ty_eq(keyed(m, 3), m.st[3][3], m.st[2][2])

tc_update(m) ==
  IF at(m, 3, {"set"}) /\ m.st[2] = BOOL THEN With(keyed(m, 3), 2, <<>>, <<"Update", "Set">>)
  ELSE IF ~(at(m, 3, {"map", "big_map"}) /\ at(m, 2, {"option"})) THEN Err(m)
  ELSE With(valued(m), 2, <<>>, <<"Update", Kind[m.st[3][1]]>>)

tc_get_and_update(m) ==
  IF ~(at(m, 3, {"map", "big_map"}) /\ at(m, 2, {"option"})) THEN Err(m)
  ELSE With(valued(m), 1, <<>>, <<"GetAndUpdate", Kind[m.st[3][1]]>>)

\* SIZE of a string or of bytes is in the table.
tc_size(m) ==
  IF at(m, 1, {"list", "set", "map"}) THEN With(m, 1, <<NAT>>, <<"Size", Kind[m.st[1][1]]>>)
  ELSE tc_fixed(m, "SIZE", <<>>)

tc_collection(m, p, args) ==
  CASE args # <<>> -> Err(m)
    [] args = <<>> /\ p = "MEM" -> tc_mem(m)
    [] args = <<>> /\ p = "GET" -> tc_get(m)
    [] args = <<>> /\ p = "UPDATE" -> tc_update(m)
    [] args = <<>> /\ p = "GET_AND_UPDATE" -> tc_get_and_update(m)
    [] args = <<>> /\ p = "SIZE" -> tc_size(m)

------------------------------------------------------------------------------
(* Lambdas, tickets, packing, contracts and operations.                     *)

tc_lambda(m, p, args) ==
  LET made(in, out, lam) ==
        With(lam, 0, <<<<"lambda", in.out, out.out>>>>, <<"Lambda", lam.out>>)
      result(in, out) ==
        IF ~Ok(out) THEN out
        ELSE made(in, out, typecheck_lambda(out, args[3][2], in.out, out.out, p = "LAMBDA_REC"))
      argument(in) == result(in, parse_ty(in, args[2]))
  IN IF Len(args) # 3 THEN Err(m)
     ELSE IF ~IsSeq(args[3]) THEN Err(m)
     ELSE argument(parse_ty(m, args[1]))

tc_exec(m, args) ==
  IF args # <<>> \/ ~Shape(m, <<"_", "lambda">>) THEN Err(m)
  ELSE With(ensure_ty_eq(m, m.st[2][2], m.st[1]), 2, <<m.st[2][3]>>, <<"Exec">>)

tc_apply(m, args) ==
  LET arg == m.st[1]
      ty == m.st[2]
  IN IF args # <<>> \/ ~Shape(m, <<"_", "lambda">>) THEN Err(m)
     ELSE IF ty[2][1] # "pair" THEN Err(m)
     ELSE With(ensure_ty_eq(m, ty[2][2], arg), 2, <<<<"lambda", ty[2][3], ty[3]>>>>,
               <<"Apply", arg>>)

tc_read_ticket(m, t) ==
  IF t[1] # "ticket" THEN Err(m)
  ELSE With(m, 0, <<pair(ADDRESS, pair(t[2], NAT))>>, <<"ReadTicket">>)

tc_split_ticket(m, t) ==
  IF ~Shape(m, <<"ticket", "pair">>) THEN Err(m)
  ELSE IF m.st[2] # pair(NAT, NAT) THEN Err(m)
  ELSE With(m, 2, <<option(pair(t, t))>>, <<"SplitTicket">>)

tc_tickets(m, p, args) ==
  LET t == m.st[1]
  IN CASE args # <<>> \/ m.st = <<>> -> Err(m)
       [] OTHER ->
            CASE p = "TICKET" ->
                   IF ~Shape(m, <<"_", "nat">>) THEN Err(m)
                   ELSE With(m, 2, <<option(<<"ticket", t>>)>>, <<"Ticket">>)
              [] p = "READ_TICKET" -> tc_read_ticket(m, t)
              [] p = "SPLIT_TICKET" -> tc_split_ticket(m, t)
              [] p = "JOIN_TICKETS" ->
                   IF t[1] # "pair" THEN Err(m)
                   ELSE IF t[2][1] # "ticket" \/ t[3][1] # "ticket" THEN Err(m)
                   ELSE With(ensure_ty_eq(m, t[2][2], t[3][2]), 1, <<option(t[2])>>,
                             <<"JoinTickets">>)

tc_pack(m, p, args) ==
  LET of(a) == With(ensure_prop(a, a.out, "Pushable"), 1, <<option(a.out)>>, <<"Unpack", a.out>>)
  IN CASE m.st = <<>> -> Err(m)
       [] m.st # <<>> /\ p = "PACK" ->
            IF args # <<>> THEN Err(m)
            ELSE With(ensure_prop(m, m.st[1], "Packable"), 1, <<BYTES>>, <<"Pack">>)
       [] m.st # <<>> /\ p = "UNPACK" ->
            IF Len(args) # 1 \/ m.st[1] # BYTES THEN Err(m)
            ELSE of(parse_ty(m, args[1]))

\* The entrypoint an annotation names; two, or one too long, are refused.
bad_ann(anns) ==
  \/ Len(field_anns(anns)) > 1
  \/ single_field_ann(anns) # None /\ Len(single_field_ann(anns)[1]) > MAX_EP_LEN

entrypoint(anns) ==
  IF single_field_ann(anns) = None THEN default ELSE single_field_ann(anns)[1]

tc_self(m, args, anns, eps) ==
  LET ep == entrypoint(anns)
  IN IF args # <<>> \/ bad_ann(anns) \/ eps = None THEN Err(m)
     ELSE IF ep \notin DOMAIN eps[1] THEN Err(m)
     ELSE With(m, 0, <<<<"contract", eps[1][ep]>>>>, <<"ISelf", ep>>)

\* CONTRACT may not spell out the default entrypoint.
tc_contract(m, args, anns) ==
  LET of(a) == With(a, 1, <<option(<<"contract", a.out>>)>>, <<"Contract", a.out, entrypoint(anns)>>)
  IN IF \/ Len(args) # 1 \/ ~Shape(m, <<"address">>)
        \/ bad_ann(anns) \/ single_field_ann(anns) = Some(default)
     THEN Err(m) ELSE of(parse_ty(m, args[1]))

tc_address(m, args) ==
  IF args # <<>> \/ ~Shape(m, <<"contract">>) THEN Err(m)
  ELSE With(m, 1, <<ADDRESS>>, <<"Address">>)

tc_transfer_tokens(m, args) ==
  IF args # <<>> \/ ~Shape(m, <<"_", "mumav", "contract">>) THEN Err(m)
  ELSE With(ensure_ty_eq(m, m.st[3][2], m.st[1]), 3, <<OPERATION>>, <<"TransferTokens">>)

tc_emit(m, args, anns) ==
  LET t == m.st[1]
      tag == single_field_ann(anns)
      same(a) == ensure_ty_eq(a, a.out, t)
      emit(c) ==
        IF bad_ann(anns) THEN Err(c)
        ELSE With(c, 1, <<OPERATION>>,
                  <<"Emit", tag, IF args = <<>> THEN ty_micheline(t) ELSE args[1]>>)
  IN IF Len(args) > 1 \/ m.st = <<>> THEN Err(m)
     ELSE emit(ensure_prop(IF args = <<>> THEN m ELSE same(parse_ty(m, args[1])), t, "Pushable"))

\* Micheline::typecheck_script: each field once, then parameter, storage, code;
\* p, s and i are what they parse to.
script_checked(m, p, s, i, u) ==
  IF ~Ok(u) THEN u
  ELSE [u EXCEPT !.st = m.st, !.failed = FALSE, !.eps = m.eps,
                 !.out = [code |-> i.out, parameter |-> p.out, storage |-> s.out]]

script_code(m, p, s, i) ==
  script_checked(m, p, s, i, unify_stacks(i, On(m, <<pair(<<"list", OPERATION>>, s.out)>>)))

script_types(m, p, s, c, code) ==
  IF code = <<>> THEN Err(c)
  ELSE IF ~Ok(c) THEN c
  ELSE script_code(m, p, s, typecheck_instruction(On(c, <<pair(p.out, s.out)>>), code[1][3][1],
                                                  Some(p.eps)))

script_storage(m, p, s, code) ==
  script_types(m, p, s, ensure_prop(ensure_prop(s, p.out, "Passable"), s.out, "Storable"), code)

script_parameter(m, p, storage, code) ==
  IF storage = <<>> THEN Err(p)
  ELSE script_storage(m, p, parse_ty(p, storage[1][3][1]), code)

typecheck_script(m, script) ==
  LET seq == IF IsSeq(script) /\ Len(script[2]) = 1 /\ IsSeq(script[2][1])
             THEN script[2][1][2] ELSE script[2]
      fields == {"code", "parameter", "storage"}
      field(f) == SelectSeq(seq, LAMBDA e : e[2] = f)
      known == \A k \in DOMAIN seq : /\ seq[k][1] = "app"
                                     /\ seq[k][2] \in fields
                                     /\ Len(seq[k][3]) = 1 /\ seq[k][4] = <<>>
  IN IF ~IsSeq(script) THEN Err(m)
     ELSE IF ~known THEN Err(m)
     ELSE IF (\E f \in fields : Len(field(f)) > 1) \/ field("parameter") = <<>> THEN Err(m)
     ELSE script_parameter(m, parse_parameter_ty_with_entrypoints(m, field("parameter")[1][3][1]),
                           field("storage"), field("code"))

tc_create_contract(m, args) ==
  LET made(s) == IF ~Ok(s) THEN s
                 ELSE With(ensure_ty_eq(s, s.out.storage, m.st[3]), 3, <<OPERATION, ADDRESS>>,
                           <<"CreateContract", s.out, args[1]>>)
  IN IF Len(args) # 1 \/ ~Shape(m, <<"option", "mumav", "_">>) THEN Err(m)
     ELSE IF m.st[1] # option(KEY_HASH) THEN Err(m)
     ELSE made(typecheck_script(m, args[1]))

\* The match of typecheck_instruction.
tc_app(m, p, args, anns, eps) ==
  CASE p = "DIP" -> tc_dip(m, args, eps)
    [] p = "DROP" -> tc_drop(m, args)
    [] p = "DUP" -> tc_dup(m, args)
    [] p = "DIG" -> tc_dig(m, args)
    [] p = "DUG" -> tc_dug(m, args)
    [] p \in {"IF", "IF_NONE", "IF_CONS", "IF_LEFT"} -> tc_if(m, p, args, eps)
    [] p \in {"LOOP", "LOOP_LEFT", "ITER"} -> tc_loop(m, p, args, eps)
    [] p = "MAP" -> tc_map(m, args, eps)
    [] p \in {"FAILWITH", "NEVER"} /\ args = <<>> -> tc_fail(m, p)
    [] p \in {"CAR", "CDR", "PAIR", "UNPAIR"} -> tc_pair(m, p, args)
    [] p \in {"GET", "UPDATE"} /\ args # <<>> -> tc_field(m, p, args)
    [] p \in {"PUSH", "NONE", "NIL", "LEFT", "RIGHT", "EMPTY_SET", "EMPTY_BIG_MAP"} ->
         tc_construct(m, p, args)
    [] p \in {"SOME", "SWAP", "CONS"} -> tc_data(m, p, args)
    [] p = "COMPARE" -> tc_compare(m, args)
    [] p \in {"MEM", "GET_AND_UPDATE", "SIZE"} \/ (p \in {"GET", "UPDATE"} /\ args = <<>>) ->
         tc_collection(m, p, args)
    [] p \in {"LAMBDA", "LAMBDA_REC"} -> tc_lambda(m, p, args)
    [] p = "EXEC" -> tc_exec(m, args)
    [] p = "APPLY" -> tc_apply(m, args)
    [] p \in {"TICKET", "READ_TICKET", "SPLIT_TICKET", "JOIN_TICKETS"} -> tc_tickets(m, p, args)
    [] p \in {"PACK", "UNPACK"} -> tc_pack(m, p, args)
    [] p = "SELF" -> tc_self(m, args, anns, eps)
    [] p = "ADDRESS" -> tc_address(m, args)
    [] p = "CONTRACT" -> tc_contract(m, args, anns)
    [] p = "TRANSFER_TOKENS" -> tc_transfer_tokens(m, args)
    [] p = "EMIT" -> tc_emit(m, args, anns)
    [] p = "CREATE_CONTRACT" -> tc_create_contract(m, args)
    [] p \in FixedPrims \ {"SIZE"} -> tc_fixed(m, p, args)
    [] OTHER -> Err(m)

typecheck_instruction(m, i, eps) ==
  LET paid(c) == IF ~Ok(c) THEN c
                 ELSE IF IsSeq(i) THEN Wrap(typecheck(c, i[2], eps), <<"Seq">>)
                 ELSE IF i[1] = "app" THEN tc_app(c, i[2], i[3], i[4], eps)
                 ELSE Err(c)
  IN IF ~Ok(m) THEN m
     ELSE IF m.failed THEN Err(m)
     ELSE paid(consume(m, tc_cost.INSTR_STEP))
==============================================================================
