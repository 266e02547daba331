--------------------------- MODULE MichelsonTypes ---------------------------
(***************************************************************************)
(* The gas counter and the cost model of the Michelson interpreter MIR      *)
(* (contrib/mir/src/gas.rs); types, values and their conversions (ast.rs    *)
(* and ast/, typechecker/type_props.rs).                                    *)
(*                                                                          *)
(* Typechecking and interpreting a script thread one mutable context.  Here *)
(* the context, together with the stack being worked on, is a record m:     *)
(*   r     "ok" while running; "oog", "err" (typechecking), "fail" (a       *)
(*         run-time failure), or "panic" once stopped;                      *)
(*   gas   milligas left, Exhausted for the code's None;                    *)
(*   st    the stack, top first;                                            *)
(*   out   the value the last helper returned;                              *)
(* and further fields that MichelsonInterpreter names.  Every operator on m *)
(* leaves a stopped m alone: it is the `?' of the code.                     *)
(*                                                                          *)
(* A type is a tuple headed by its primitive: <<"nat">>, <<"pair", a, b>>.   *)
(* A value is a tuple headed by its constructor; the sets and maps, ordered  *)
(* trees in the code, are the sequences their iterators yield.              *)
(*   hashes  an address hash is <<0, curve, id>> (implicit), <<1, id>> (KT1) *)
(*           or <<2, id>> (sr1); a key and a key hash are <<curve, id>>; a   *)
(*           signature is <<kind, payload>>, kind 4 for a generic one.       *)
(*   base58  the text of a hash is its prefix, a code above the printable    *)
(*           characters, and the payload; base58 itself is outside.          *)
(***************************************************************************)
EXTENDS MichelineCodec, FiniteSetsExt

\* A typed value is a tuple headed by the constructor of TypedValue; the
\* payload of an option is <<>> or <<v>>, an `or' is <<"Or", "Left", v>>.
Exhausted == -1

Ok(m) == m.r = "ok"

Stop(m, r) == IF Ok(m) THEN [m EXCEPT !.r = r] ELSE m

Panic(m) == Stop(m, "panic")

Err(m) == Stop(m, "err")

\* Gas::milligas: reading the counter after exhaustion is a panic.
milligas_ok(m) == m.gas # Exhausted

\* Gas::consume.
consume(m, cost) ==
  CASE ~Ok(m) -> m
    [] Ok(m) /\ ~milligas_ok(m) -> Panic(m)
    [] Ok(m) /\ milligas_ok(m) /\ m.gas < cost ->
         [m EXCEPT !.r = "oog", !.gas = Exhausted]
    [] OTHER -> [m EXCEPT !.gas = @ - cost]

------------------------------------------------------------------------------
(* Sizes.                                                                   *)

Shr(n, k) == n \div 2^k

\* Log2i::log2i: the exponent of the next power of two.
log2i(n) == CHOOSE k \in 0..31 : 2^k >= n /\ (k = 0 \/ 2^(k - 1) < n)

Abs(n) == IF n < 0 THEN -n ELSE n

\* BigInt::bits and BigIntByteSize::byte_size; the value is far below 2^31.
bits(n) == IF n = 0 THEN 0 ELSE log2i(Abs(n) + 1)

byte_size(n) == (bits(n) + 7) \div 8

------------------------------------------------------------------------------
(* tc_cost: typechecking.                                                   *)

tc_cost == [INSTR_STEP |-> 440, VALUE_STEP |-> 100, PARSE_TYPE_STEP |-> 60,
            TYPE_PROP_STEP |-> 60, KEY_HASH_READABLE |-> 3200,
            KEY_HASH_OPTIMIZED |-> 80, BLS_FR |-> 120, BLS_G1 |-> 54600,
            BLS_G2 |-> 69000, KEY_READABLE |-> 3600, KEY_OPTIMIZED |-> 60,
            CHAIN_ID_READABLE |-> 1600, CHAIN_ID_OPTIMIZED |-> 50]

\* variadic, dig_n, dug_n, drop_n, dip_n, pair_n, unpair_n and get_n.
tc_variadic(depth) == depth * 50

tc_ty_eq(sz1, sz2) == Min({sz1, sz2}) * 60

timestamp_decoding(l) ==
  LET v0 == (CHOOSE k \in 0..l : k * k <= l /\ (k + 1) * (k + 1) > l) * l
  IN 105 + Shr(v0, 5) + Shr(v0, 6)

tc_construct_map(key_size, n) == 80 * n + key_size * n * log2i(n + 1)

tc_construct_set(val_size, n) == 130 * n + val_size * n * log2i(n + 1)

------------------------------------------------------------------------------
(* interpret_cost: the instructions.                                        *)

interpret_cost ==
  [DIP |-> 10, DROP |-> 10, DUP |-> 10, GT |-> 10, GE |-> 10, EQ |-> 10,
   NEQ |-> 10, LE |-> 10, LT |-> 10, IF_ |-> 10, IF_NONE |-> 10, IF_CONS |-> 10,
   IF_LEFT |-> 10, LOOP |-> 10, ITER |-> 20, SWAP |-> 10, INT_NAT |-> 10,
   ISNAT |-> 10, INT_BLS_FR |-> 115, PUSH |-> 10, ADD_TEZ |-> 20,
   ADD_BLS_FR |-> 30, ADD_BLS_G1 |-> 900, ADD_BLS_G2 |-> 2470,
   MUL_BLS_G1 |-> 103000, MUL_BLS_G2 |-> 220000, MUL_BLS_FR |-> 45,
   MUL_TEZ_NAT |-> 50, EDIV_TEZ_TEZ |-> 80, EDIV_TEZ_NAT |-> 70, NEG_FR |-> 30,
   NEG_G1 |-> 50, NEG_G2 |-> 70, SUB_MUMAV |-> 15, UNIT |-> 10,
   AND_BOOL |-> 10, OR_BOOL |-> 10, XOR_BOOL |-> 15, NOT_BOOL |-> 10,
   CAR |-> 10, CDR |-> 10, PAIR |-> 10, UNPAIR |-> 10, SOME |-> 10,
   NONE |-> 10, AMOUNT |-> 10, NIL |-> 10, CONS |-> 15, EMPTY_SET |-> 300,
   SIZE_STRING |-> 15, SIZE_BYTES |-> 10, SIZE_LIST |-> 10, SIZE_SET |-> 10,
   SIZE_MAP |-> 10, EMPTY_BIG_MAP |-> 300, CHAIN_ID |-> 15, PACK |-> 0,
   SELF |-> 10, ADDRESS |-> 10, LEFT |-> 10, RIGHT |-> 10, MAP_OPTION |-> 10,
   MAP_LIST |-> 10, MAP_MAP |-> 20, TRANSFER_TOKENS |-> 60,
   SET_DELEGATE |-> 60, LAMBDA_ |-> 10, EXEC |-> 10, HASH_KEY |-> 605,
   APPLY |-> 140, TICKET |-> 10, READ_TICKET |-> 10, BALANCE |-> 10,
   CONTRACT |-> 30, LEVEL |-> 10, MIN_BLOCK_TIME |-> 20, SELF_ADDRESS |-> 10,
   SENDER |-> 10, SOURCE |-> 10, NOW |-> 10, IMPLICIT_ACCOUNT |-> 10,
   VOTING_POWER |-> 640, TOTAL_VOTING_POWER |-> 450, EMIT |-> 30,
   INTERPRET_RET |-> 15, LOOP_ENTER |-> 10, LOOP_LEFT_ENTER |-> 10,
   LOOP_EXIT |-> 10, CREATE_CONTRACT |-> 60]

\* drop, dip, dup: without an argument a constant, with one linear in it.
drop_cost(mb_n) == IF mb_n = <<>> THEN interpret_cost.DROP
                   ELSE LET n == mb_n[1] IN 30 + n * 2 + Shr(n, 1) + Shr(n, 3)

dip_cost(mb_n) == IF mb_n = <<>> THEN interpret_cost.DIP ELSE 15 + mb_n[1] * 4

undip_cost(n) == (n + 1) * 10

dup_cost(mb_n) == IF mb_n = <<>> THEN interpret_cost.DUP
                  ELSE 20 + mb_n[1] + Shr(mb_n[1], 2)

dig_cost(n) == 30 + 6 * n + Shr(n, 1) + Shr(n, 2)

dug_cost(n) == 35 + 6 * n + Shr(n, 1) + Shr(n, 2)

\* add_num and sub_num.
add_num(i1, i2) == 35 + Shr(Max({byte_size(i1), byte_size(i2)}), 1)

\* and_num, or_num and xor_nat.
and_num(i1, i2) == 35 + Shr(Min({byte_size(i1), byte_size(i2)}), 1)

\* and_bytes and or_bytes.
and_bytes(b1, b2) == 35 + Shr(Min({Len(b1), Len(b2)}), 1)

not_num(n) == 25 + Shr(byte_size(n), 1)

not_bytes(b) == 30 + Shr(Len(b), 1)

lsl_nat(i) == Shr(byte_size(i), 1) + 130

lsl_bytes(b, n) ==
  (IF n > 0 THEN Shr(n - 1, 4) + Shr(Len(b), 1) ELSE Shr(Len(b), 1))
    + Shr(Len(b), 2) + 65

lsr_nat(i) == Shr(byte_size(i), 1) + 45

lsr_bytes(b, n) ==
  LET w1 == IF Len(b) >= Shr(n, 3) THEN Len(b) - Shr(n, 3) ELSE 0
  IN Shr(w1, 1) + Shr(w1, 2) + 55

mul_int(i1, i2) ==
  LET a == byte_size(i1) + byte_size(i2)
      v0 == IF a = 0 THEN 0 ELSE a * log2i(a)
  IN 55 + Shr(v0, 1) + Shr(v0, 2) + Shr(v0, 4)

\* ediv_int and ediv_nat.
ediv_int(i1, i2) ==
  LET size_1 == byte_size(i1)
      size_2 == byte_size(i2)
      w1 == IF size_1 >= size_2 THEN size_1 - size_2 ELSE 0
  IN (w1 * 12) + (Shr(w1, 10) + Shr(w1, 13)) * size_2
       + Shr(size_1, 2) + size_1 + 150

\* split_ticket measures the two handles (24 bytes each), not the numbers.
split_ticket_cost == 40 + Shr(24, 1)

RECURSIVE compare_cost(_, _)
compare_cost(v1, v2) ==
  LET cmp_bytes(s1, s2) == LET v == Min({s1, s2}) IN 35 + Shr(v, 6) + Shr(v, 7)
  IN CASE v1[1] \in {"Nat", "Int", "Timestamp"} ->
            cmp_bytes(byte_size(v1[2]), byte_size(v2[2]))
       [] v1[1] = "Bool" -> cmp_bytes(1, 1)
       [] v1[1] = "Mumav" -> cmp_bytes(8, 8)
       [] v1[1] \in {"String", "Bytes"} -> cmp_bytes(Len(v1[2]), Len(v2[2]))
       [] v1[1] = "Unit" -> 10
       [] v1[1] = "Pair" ->
            10 + compare_cost(v1[2], v2[2]) + compare_cost(v1[3], v2[3])
       [] v1[1] = "Option" ->
            IF v1[2] # <<>> /\ v2[2] # <<>>
            THEN 10 + compare_cost(v1[2][1], v2[2][1]) ELSE 10
       [] v1[1] = "Address" -> cmp_bytes(51, 51)
       [] v1[1] = "ChainId" -> 30
       [] v1[1] \in {"Key", "Signature"} -> 92
       [] v1[1] = "KeyHash" -> cmp_bytes(21, 21)
       [] v1[1] = "Or" ->
            IF v1[2] = v2[2] THEN 10 + compare_cost(v1[3], v2[3]) ELSE 10

\* join_tickets computes the price of comparing the contents and drops it.
join_tickets_cost(t1, t2) == add_num(t1[4], t2[4])

concat_list_precheck(n) == 10 * n

concat_list(total_len) == total_len \div 2 + 100

concat_pair(len1, len2) == (len1 + len2) \div 2 + 45

lookup_cost(k, size) == compare_cost(k, k) * log2i(size + 1)

\* map_get and map_mem.
map_get(k, size) == 80 + lookup_cost(k, size)

set_mem(k, size) == 115 + lookup_cost(k, size)

map_update(k, size) == 80 + 2 * lookup_cost(k, size)

set_update(k, size) == 130 + 2 * lookup_cost(k, size)

map_get_and_update(k, size) == 80 + 3 * lookup_cost(k, size)

\* check_signature, by the curve of the key.
check_signature_cost(curve, len) ==
  CASE curve = "Ed25519" -> 65800 + Shr(len, 3) + len
    [] curve = "Secp256k1" -> 51600 + Shr(len, 3) + len
    [] curve = "P256" -> 341000 + Shr(len, 3) + len
    [] curve = "Bls" -> 1570000 + len * 3

slice_cost(length) == Shr(length, 1) + 25

\* blake2b, keccak, sha256, sha3, sha512.
hash_cost(h, n) ==
  CASE h = "BLAKE2B" -> 430 + Shr(n, 3) + n
    [] h \in {"KECCAK", "SHA3"} -> 1350 + Shr(n, 2) + n * 8
    [] h = "SHA256" -> 600 + Shr(n, 2) + Shr(n, 1) + n * 4
    [] h = "SHA512" -> 680 + n * 3

pairing_check_cost(n) == 450000 + 342500 * n

mul_bls_fr_big_int(i) == 265 + Shr(byte_size(i), 4) + byte_size(i)

neg_int(i) == 25 + Shr(byte_size(i), 1)

abs_cost(i) == 20 + Shr(byte_size(i), 1)

int_bytes(n) == 20 + Shr(n, 1) + n * 2

bytes_int(i) == 90 + byte_size(i) * 3

bytes_nat(i) == 75 + byte_size(i) * 3

unpack_cost(n) == 260 + Shr(n, 1)

pair_n_cost(n) == 40 + Shr(n - 2, 2) + (n - 2) * 3

unpair_n_cost(n) == 30 + (n - 2) * 4

get_n_cost(n) == 20 + Shr(n, 1) + Shr(n, 4)

update_n_cost(n) == 30 + Shr(n, 5) + Shr(n, 2) + n

------------------------------------------------------------------------------
(* Types and values.                                                        *)

NAT == <<"nat">>
INT == <<"int">>
BOOL == <<"bool">>
MUMAV == <<"mumav">>
STRING_ == <<"string">>
BYTES == <<"bytes">>
UNIT == <<"unit">>
ADDRESS == <<"address">>
TIMESTAMP == <<"timestamp">>
KEY_HASH == <<"key_hash">>
OPERATION == <<"operation">>

option(t) == <<"option", t>>

pair(a, b) == <<"pair", a, b>>

\* Micheline::prim0, prim1, prim2 and an application with annotations.
prim(p, args) == <<"app", p, args, <<>>>>

Atoms == {"nat", "int", "bool", "mumav", "string", "unit", "never", "operation",
          "address", "chain_id", "bytes", "key", "signature", "key_hash",
          "timestamp", "bls12_381_fr", "bls12_381_g1", "bls12_381_g2"}

Unary == {"option", "list", "set", "contract", "ticket"}

Binary == {"pair", "or", "map", "big_map", "lambda"}

RECURSIVE size_for_gas(_)
size_for_gas(t) ==
  CASE t[1] \in Atoms -> 1
    [] t[1] \in Unary -> 1 + size_for_gas(t[2])
    [] t[1] \in Binary -> 1 + size_for_gas(t[2]) + size_for_gas(t[3])

ensure_ty_eq(m, ty1, ty2) ==
  LET c == consume(m, tc_ty_eq(size_for_gas(ty1), size_for_gas(ty2)))
  IN IF ty1 # ty2 THEN Err(c) ELSE c

\* The properties a constructor refuses whatever is inside.
Refused == [ticket |-> {"Comparable", "Pushable", "Duplicable", "Packable"},
            fr |-> {"Comparable"},
            operation |-> {"Comparable", "Passable", "Storable", "Pushable",
                           "Packable", "BigMapValue"},
            list |-> {"Comparable"},
            big_map |-> {"Comparable", "BigMapValue", "Packable", "Pushable"},
            contract |-> {"Comparable", "Storable", "Pushable", "BigMapValue"},
            lambda |-> {"Comparable"}]

RefusedBy(con) ==
  CASE con \in {"bls12_381_fr", "bls12_381_g1", "bls12_381_g2"} -> Refused.fr
    [] con \in {"list", "set", "map"} -> Refused.list
    [] con \in {"ticket", "operation", "big_map", "contract", "lambda"} -> Refused[con]
    [] OTHER -> {}

\* Type::ensure_prop.
RECURSIVE ensure_prop(_, _, _)
ensure_prop(m, t, prop) ==
  LET c == consume(m, tc_cost.TYPE_PROP_STEP)
  IN CASE ~Ok(c) -> c
       [] Ok(c) /\ prop \in RefusedBy(t[1]) -> Err(c)
       [] OTHER ->
            CASE t[1] \in {"pair", "or"} ->
                   ensure_prop(ensure_prop(c, t[2], prop), t[3], prop)
              [] t[1] \in {"option", "list", "set"} -> ensure_prop(c, t[2], prop)
              [] t[1] \in {"map", "big_map"} -> ensure_prop(c, t[3], prop)
              [] OTHER -> c

RECURSIVE ty_micheline(_)
RECURSIVE LinearizePair(_)

\* into_micheline_optimized_legacy for a type: a right comb becomes one pair.
LinearizePair(t) ==
  IF t[1] = "pair" THEN <<ty_micheline(t[2])>> \o LinearizePair(t[3]) ELSE <<ty_micheline(t)>>

ty_micheline(t) ==
  CASE t[1] \in Atoms -> prim(t[1], <<>>)
    [] t[1] \in Unary -> prim(t[1], <<ty_micheline(t[2])>>)
    [] t[1] = "pair" -> prim("pair", LinearizePair(t))
    [] OTHER -> prim(t[1], <<ty_micheline(t[2]), ty_micheline(t[3])>>)

------------------------------------------------------------------------------
(* Names and hashes.                                                        *)

CONSTANTS MAX_EP_LEN,   \* longest entrypoint name: 31 in the code
          MaxMumav,     \* i64::MAX
          FrOrder       \* the order of the BLS12-381 scalar field

ASSUME MichelsonBounds == /\ MAX_EP_LEN \in Nat \ {0}
                          /\ MaxMumav \in Nat \ {0}
                          /\ FrOrder \in Nat /\ FrOrder > 1

\* The name `default'.
default == <<100>>

check_ep_name(ep) ==
  /\ Len(ep) <= MAX_EP_LEN
  /\ \A k \in DOMAIN ep : alpha_num(ep[k]) \/ (k > 1 /\ ep[k] \in {46, 37, 64})

ep_from_str(s) == IF s = <<>> THEN Some(default)
                  ELSE IF check_ep_name(s) THEN Some(s) ELSE None

\* In binary form the default entrypoint is never spelled out.
ep_from_bytes(s) == IF s = <<>> THEN Some(default)
                    ELSE IF check_ep_name(s) /\ s # default THEN Some(s) ELSE None

\* get_single_field_ann: None, Some(name), or an error for a second one.
field_anns(anns) == SelectSeq(anns, LAMBDA a : a[1] = 37 /\ a # <<37, 64>>)

single_field_ann(anns) ==
  LET f == field_anns(anns)
  IN IF f = <<>> THEN None ELSE Some(SubSeq(f[1], 2, Len(f[1])))

B58 == [key_hash |-> 128, KT1 |-> 132, sr1 |-> 133, key |-> 134, sig |-> 138, net |-> 143]

key_hash_from_bytes(b) == IF Len(b) = 2 /\ b[1] \in 0..3 THEN Some(b) ELSE None

\* KeyHash and Key: the prefix, or the tag, names the curve.
from_b58(s, base) ==
  IF Len(s) # 2 THEN None
  ELSE IF s[1] - base \in 0..3 THEN Some(<<s[1] - base, s[2]>>) ELSE None

hash_from_b58(s) ==
  IF Len(s) # 2 THEN None
  ELSE CASE s[1] = B58.KT1 -> Some(<<1, s[2]>>)
         [] s[1] = B58.sr1 -> Some(<<2, s[2]>>)
         [] OTHER -> LET k == from_b58(s, B58.key_hash)
                     IN IF k = None THEN None ELSE Some(<<0>> \o k[1])

hash_to_bytes(h) ==
  CASE h[1] = 0 -> h
    [] h[1] = 1 -> <<1, h[2], 0>>
    [] h[1] = 2 -> <<3, h[2], 0>>

hash_from_bytes(b) ==
  CASE Len(b) # 3 -> None
    [] Len(b) = 3 /\ b[1] = 0 /\ key_hash_from_bytes(Tail(b)) # None -> Some(b)
    [] Len(b) = 3 /\ b[1] = 1 /\ b[3] = 0 -> Some(<<1, b[2]>>)
    [] Len(b) = 3 /\ b[1] = 3 /\ b[3] = 0 -> Some(<<2, b[2]>>)
    [] OTHER -> None

\* Address::from_base58_check splits at the first '%'.
address_from_b58(s) ==
  LET at == {k \in DOMAIN s : s[k] = 37}
      cut == IF at = {} THEN Len(s) + 1 ELSE Min(at)
      h == hash_from_b58(SubSeq(s, 1, cut - 1))
      ep == ep_from_str(SubSeq(s, cut + 1, Len(s)))
  IN IF h = None \/ ep = None THEN None ELSE Some(<<"Address", h[1], ep[1]>>)

address_from_bytes(b) ==
  LET h == hash_from_bytes(SubSeq(b, 1, 3))
      ep == ep_from_bytes(SubSeq(b, 4, Len(b)))
  IN IF Len(b) < 3 THEN None
     ELSE IF h = None \/ ep = None THEN None ELSE Some(<<"Address", h[1], ep[1]>>)

address_to_bytes(h, ep) == hash_to_bytes(h) \o (IF ep = default THEN <<>> ELSE ep)

key_from_bytes(b) == IF Len(b) = 2 /\ b[1] \in 0..3 THEN Some(b) ELSE None

\* Signature: 64 and 96 bytes in the code, 2 and 3 here.
GENERIC_BYTE_LENGTH == 2

BLS_BYTE_LENGTH == 3

\* kinds 0 to 4: ed25519, secp256k1, p256, bls, generic.  The length of a bls
\* signature is not checked here.
sig_from_b58(s) ==
  IF s = <<>> THEN None
  ELSE LET k == s[1] - B58.sig
       IN IF k \in 0..4 /\ (k = 3 \/ Len(s) - 1 = GENERIC_BYTE_LENGTH)
          THEN Some(<<k, Tail(s)>>) ELSE None

sig_from_bytes(b) ==
  CASE Len(b) = GENERIC_BYTE_LENGTH -> Some(<<4, b>>)
    [] Len(b) = BLS_BYTE_LENGTH -> Some(<<3, b>>)
    [] OTHER -> None

\* A digest; signing key id with key <<curve, id>> yields <<id, digest>>.
Digest(seed, b) == FoldLeft(LAMBDA acc, c : acc + c, seed, b) % 100

signed(sig, key, msg) ==
  Len(sig[2]) >= 2 /\ sig[2][1] = key[2] /\ sig[2][2] = Digest(0, msg)

\* Signature::check: the kind must be the key's own, or generic but for bls.
sig_check(sig, key, msg) ==
  /\ sig[1] = key[1] \/ (sig[1] = 4 /\ key[1] # 3)
  /\ signed(sig, key, msg)

------------------------------------------------------------------------------
(* Values.                                                                  *)

RECURSIVE LexCmp(_, _)
LexCmp(a, b) ==
  CASE a = <<>> /\ b = <<>> -> 0
    [] a = <<>> /\ b # <<>> -> -1
    [] a # <<>> /\ b = <<>> -> 1
    [] OTHER -> IF a[1] < b[1] THEN -1 ELSE IF a[1] > b[1] THEN 1
                ELSE LexCmp(Tail(a), Tail(b))

NumCmp(a, b) == IF a < b THEN -1 ELSE IF a > b THEN 1 ELSE 0

Incomparable == {"List", "Set", "Map", "BigMap", "Contract", "Operation", "Ticket",
                 "Lambda", "Bls12381Fr", "Bls12381G1", "Bls12381G2"}

\* The pairs of values that gas::compare has an arm for.
RECURSIVE can_compare(_, _)
can_compare(a, b) ==
  /\ a[1] = b[1] /\ a[1] \notin Incomparable
  /\ a[1] = "Pair" => can_compare(a[2], b[2]) /\ can_compare(a[3], b[3])
  /\ a[1] = "Option" => \/ a[2] = None \/ b[2] = None
                        \/ can_compare(a[2][1], b[2][1])
  /\ a[1] = "Or" => a[2] # b[2] \/ can_compare(a[3], b[3])

\* TypedValue::partial_cmp, Some(-1), Some(0) or Some(1).
RECURSIVE partial_cmp(_, _)
partial_cmp(a, b) ==
  LET then(c, d) == IF c # Some(0) THEN c ELSE d
      rank(x) == IF x[2] = "Left" THEN 0 ELSE 1
  IN CASE a[1] # b[1] \/ a[1] \in Incomparable -> None
       [] a[1] = b[1] /\ a[1] \in {"Int", "Nat", "Mumav", "Timestamp"} ->
            Some(NumCmp(a[2], b[2]))
       [] a[1] = b[1] /\ a[1] = "Bool" ->
            Some(NumCmp(IF a[2] THEN 1 ELSE 0, IF b[2] THEN 1 ELSE 0))
       [] a[1] = b[1] /\ a[1] \in {"String", "Bytes", "ChainId", "Key", "KeyHash"} ->
            Some(LexCmp(a[2], b[2]))
       [] a[1] = b[1] /\ a[1] = "Signature" ->
            then(Some(NumCmp(a[2][1], b[2][1])), Some(LexCmp(a[2][2], b[2][2])))
       [] a[1] = b[1] /\ a[1] = "Address" ->
            then(Some(LexCmp(a[2], b[2])), Some(LexCmp(a[3], b[3])))
       [] a[1] = b[1] /\ a[1] = "Unit" -> Some(0)
       [] a[1] = b[1] /\ a[1] = "Pair" ->
            then(partial_cmp(a[2], b[2]), partial_cmp(a[3], b[3]))
       [] a[1] = b[1] /\ a[1] = "Option" ->
            IF a[2] # None /\ b[2] # None THEN partial_cmp(a[2][1], b[2][1])
            ELSE Some(NumCmp(Len(a[2]), Len(b[2])))
       [] a[1] = b[1] /\ a[1] = "Or" ->
            IF a[2] = b[2] THEN partial_cmp(a[3], b[3])
            ELSE Some(NumCmp(rank(a), rank(b)))

Less(a, b) == partial_cmp(a, b) = Some(-1)

\* An ordered tree: find, insert and remove by key.  A set holds <<key>>.
tree_find(tree, k) == SelectSeq(tree, LAMBDA e : partial_cmp(e[1], k) = Some(0))

tree_remove(tree, k) == SelectSeq(tree, LAMBDA e : partial_cmp(e[1], k) # Some(0))

\* A key that is new goes last, whatever its place.
tree_insert_appended(tree, e) == Append(tree_remove(tree, e[1]), e)

tree_insert(tree, e) ==
  SelectSeq(tree, LAMBDA x : Less(x[1], e[1])) \o <<e>>
    \o SelectSeq(tree, LAMBDA x : Less(e[1], x[1]))

unwrap_ticket(t) ==
  <<"Pair", <<"Address", t[2], default>>, <<"Pair", t[3], <<"Nat", t[4]>>>>>>

RECURSIVE into_micheline(_)
RECURSIVE closure_micheline(_)

opt_micheline(x) == IF x = None THEN prim("None", <<>>)
                    ELSE prim("Some", <<into_micheline(x[1])>>)

\* The code of a partial application without the argument it holds.
closure_micheline_bare(c) ==
  CASE c[1] = "Lambda" -> c[3]
    [] c[1] = "LambdaRec" -> prim("Lambda_rec", <<c[3]>>)
    [] c[1] = "Apply" -> closure_micheline(c[4])

\* Closure::into_micheline_optimized_legacy.
closure_micheline(c) ==
  LET captured == <<prim("PUSH", <<ty_micheline(c[2]), into_micheline(c[3])>>),
                    prim("PAIR", <<>>)>>
  IN CASE c[1] = "Lambda" -> c[3]
       [] c[1] = "LambdaRec" -> prim("Lambda_rec", <<c[3]>>)
       [] c[1] = "Apply" ->
            IF c[4][1] = "LambdaRec"
            THEN <<"seq", captured \o
                   <<prim("LAMBDA_REC", <<ty_micheline(c[4][4]), ty_micheline(c[4][5]), c[4][3]>>),
                     prim("SWAP", <<>>), prim("EXEC", <<>>)>>>>
            ELSE <<"seq", captured \o <<closure_micheline(c[4])>>>>

\* TypedValue::into_micheline_optimized_legacy; an operation has no use here.
into_micheline(v) ==
  LET elts(tree, f(_)) == <<"seq", [k \in DOMAIN tree |-> f(tree[k])]>>
      big_map == elts(v[3], LAMBDA e : prim("Elt", <<into_micheline(e[1]), opt_micheline(e[2])>>))
  IN CASE v[1] \in {"Int", "Nat", "Mumav", "Timestamp"} -> <<"int", v[2]>>
       [] v[1] = "Bool" -> prim(IF v[2] THEN "True" ELSE "False", <<>>)
       [] v[1] = "String" -> <<"string", v[2]>>
       [] v[1] = "Unit" -> prim("Unit", <<>>)
       [] v[1] = "Pair" -> prim("Pair", <<into_micheline(v[2]), into_micheline(v[3])>>)
       [] v[1] = "List" -> elts(v[2], into_micheline)
       [] v[1] = "Set" -> elts(v[2], LAMBDA e : into_micheline(e[1]))
       [] v[1] = "Map" ->
            elts(v[2], LAMBDA e : prim("Elt", <<into_micheline(e[1]), into_micheline(e[2])>>))
       [] v[1] = "BigMap" ->
            CASE v[2] = None -> big_map
              [] v[2] # None /\ v[3] = <<>> -> <<"int", v[2][1]>>
              [] OTHER -> prim("Pair", <<<<"int", v[2][1]>>, big_map>>)
       [] v[1] = "Option" -> opt_micheline(v[2])
       [] v[1] = "Or" -> prim(v[2], <<into_micheline(v[3])>>)
       [] v[1] \in {"Address", "Contract"} -> <<"bytes", address_to_bytes(v[2], v[3])>>
       [] v[1] \in {"ChainId", "Bytes", "Key", "KeyHash"} -> <<"bytes", v[2]>>
       [] v[1] = "Signature" -> <<"bytes", v[2][2]>>
       [] v[1] = "Lambda" -> closure_micheline(v[2])
       [] v[1] \in {"Bls12381Fr", "Bls12381G1", "Bls12381G2"} -> <<"bytes", <<v[2]>>>>
       [] v[1] = "Ticket" -> into_micheline(unwrap_ticket(v))

\* collect_micheline_size and micheline_encoding: 100 a node, 25 a byte of a
\* number, 10 a byte of text.
RECURSIVE micheline_encoding(_)
micheline_encoding(mich) ==
  LET all(ns) == FoldLeft(LAMBDA acc, n : acc + micheline_encoding(n), 0, ns)
      text(anns) == FoldLeft(LAMBDA acc, a : acc + 10 * Len(a), 0, anns)
  IN 100 + CASE mich[1] = "int" -> 25 * byte_size(mich[2])
             [] mich[1] \in {"string", "bytes"} -> 10 * Len(mich[2])
             [] mich[1] = "seq" -> all(mich[2])
             [] mich[1] = "app" -> all(mich[3]) + text(mich[4])
==============================================================================
