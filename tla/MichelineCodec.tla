--------------------------- MODULE MichelineCodec ---------------------------
(***************************************************************************)
(* Micheline, the untyped syntax of Michelson, and its binary form          *)
(* (contrib/mir/src/serializer, ast/annotations.rs, lexer.rs).              *)
(*                                                                          *)
(* A node is <<"int", n>>, <<"string", s>>, <<"bytes", b>>, <<"seq", ns>> or *)
(* <<"app", prim, args, anns>>.  Strings, bytes and annotations are         *)
(* sequences of codes; an annotation keeps its leading character.           *)
(***************************************************************************)
EXTENDS Integers, Sequences, SequencesExt

None == <<>>

Some(x) == <<x>>

\* The primitives in the order of `enum Prim'; the code of one is its index.
\* Those the models below do not use are left as "-".
Prims == <<"parameter", "storage", "code", "False", "Elt", "Left", "None", "Pair",
  "Right", "Some", "True", "Unit", "PACK", "UNPACK", "BLAKE2B", "SHA256", "SHA512",
  "ABS", "ADD", "AMOUNT", "AND", "BALANCE", "CAR", "CDR", "CHECK_SIGNATURE",
  "COMPARE", "CONCAT", "CONS", "-", "CREATE_CONTRACT", "IMPLICIT_ACCOUNT", "DIP",
  "DROP", "DUP", "EDIV", "-", "EMPTY_SET", "EQ", "EXEC", "FAILWITH", "GE", "GET",
  "GT", "HASH_KEY", "IF", "IF_CONS", "IF_LEFT", "IF_NONE", "INT", "LAMBDA", "LE",
  "LEFT", "LOOP", "LSL", "LSR", "LT", "MAP", "MEM", "MUL", "NEG", "NEQ", "NIL",
  "NONE", "NOT", "NOW", "OR", "PAIR", "PUSH", "RIGHT", "SIZE", "SOME", "SOURCE",
  "SENDER", "SELF", "-", "SUB", "SWAP", "TRANSFER_TOKENS", "SET_DELEGATE", "UNIT",
  "UPDATE", "XOR", "ITER", "LOOP_LEFT", "ADDRESS", "CONTRACT", "ISNAT", "-", "-",
  "bool", "contract", "int", "key", "key_hash", "lambda", "list", "map", "big_map",
  "nat", "option", "or", "pair", "set", "signature", "string", "bytes", "mumav",
  "timestamp", "unit", "operation", "address", "SLICE", "DIG", "DUG",
  "EMPTY_BIG_MAP", "APPLY", "chain_id", "CHAIN_ID", "LEVEL", "SELF_ADDRESS",
  "never", "NEVER", "UNPAIR", "VOTING_POWER", "TOTAL_VOTING_POWER", "KECCAK",
  "SHA3", "PAIRING_CHECK", "bls12_381_g1", "bls12_381_g2", "bls12_381_fr", "-", "-",
  "-", "-", "ticket", "-", "READ_TICKET", "SPLIT_TICKET", "JOIN_TICKETS",
  "GET_AND_UPDATE", "-", "-", "-", "-", "-", "-", "SUB_MUMAV", "-",
  "MIN_BLOCK_TIME", "-", "EMIT", "Lambda_rec", "LAMBDA_REC", "TICKET", "BYTES",
  "NAT", "Transfer_tokens", "Set_delegate", "Create_contract", "Emit">>

PrimCode(p) == (CHOOSE k \in DOMAIN Prims : Prims[k] = p) - 1

------------------------------------------------------------------------------
(* Encoding.                                                                *)

RECURSIVE Base128(_)
Base128(n) == IF n < 128 THEN <<n>> ELSE <<(n % 128) + 128>> \o Base128(n \div 128)

\* Zarith::bin_write: six bits and the sign first, then seven bits a byte; the
\* top bit says that more follow.
Zarith(n) ==
  LET a == IF n < 0 THEN -n ELSE n
      s == IF n < 0 THEN 64 ELSE 0
  IN IF a < 64 THEN <<s + a>> ELSE <<128 + s + (a % 64)>> \o Base128(a \div 64)

put_len(n) == <<n \div 2^24, (n \div 2^16) % 256, (n \div 256) % 256, n % 256>>

with_len(b) == put_len(Len(b)) \o b

\* Annotations one after the other.
encode_anns_unspaced(anns) == with_len(FlattenSeq(anns))

\* Annotations::encode_bytes: separated by spaces.
encode_anns(anns) ==
  with_len(FlattenSeq([k \in DOMAIN anns |->
             IF k = 1 THEN anns[k] ELSE <<32>> \o anns[k]]))

RECURSIVE encode_micheline(_)
encode_micheline(mich) ==
  LET all(ns) == FlattenSeq([k \in DOMAIN ns |-> encode_micheline(ns[k])])
      app(prim, args, anns) ==
        LET few == 3 + 2 * Len(args)
        IN CASE Len(args) > 2 -> <<9, PrimCode(prim)>> \o with_len(all(args))
                                   \o encode_anns(anns)
             [] Len(args) <= 2 /\ anns = <<>> -> <<few, PrimCode(prim)>> \o all(args)
             [] OTHER -> <<few + 1, PrimCode(prim)>> \o all(args) \o encode_anns(anns)
  IN CASE mich[1] = "int" -> <<0>> \o Zarith(mich[2])
       [] mich[1] = "string" -> <<1>> \o with_len(mich[2])
       [] mich[1] = "seq" -> <<2>> \o with_len(all(mich[2]))
       [] mich[1] = "bytes" -> <<10>> \o with_len(mich[2])
       [] mich[1] = "app" -> app(mich[2], mich[3], mich[4])

encode_for_pack(mich) == <<5>> \o encode_micheline(mich)

------------------------------------------------------------------------------
(* Decoding.  A decoder takes the bytes left and returns Some(<<node, the   *)
(* bytes left after it>>), or None for any DecodeError.                     *)

alpha_num(c) == c = 95 \/ c \in 48..57 \/ c \in 97..122 \/ c \in 65..90

\* get_bytes: a length and that many bytes.
get_bytes(b) ==
  LET n == ((b[1] * 256 + b[2]) * 256 + b[3]) * 256 + b[4]
  IN IF Len(b) < 4 \/ (Len(b) >= 4 /\ (b[1] >= 128 \/ Len(b) - 4 < n)) THEN None
     ELSE Some(<<SubSeq(b, 5, 4 + n), SubSeq(b, 5 + n, Len(b))>>)

RECURSIVE int_tail(_, _, _, _)
int_tail(b, sign, acc, weight) ==
  IF b = <<>> THEN None
  ELSE LET v == acc + (b[1] % 128) * weight
       IN IF b[1] >= 128 THEN int_tail(Tail(b), sign, v, weight * 128)
          ELSE Some(<<<<"int", sign * v>>, Tail(b)>>)

decode_int(b) ==
  IF b = <<>> THEN None
  ELSE LET sign == IF (b[1] \div 64) % 2 = 1 THEN -1 ELSE 1
       IN IF b[1] >= 128 THEN int_tail(Tail(b), sign, b[1] % 64, 64)
          ELSE Some(<<<<"int", sign * (b[1] % 64)>>, Tail(b)>>)

validate_str(b) == \A k \in DOMAIN b : b[k] \in 32..126 \/ b[k] \in {10, 13}

\* try_ann_from_str accepts what this accepts.
validate_ann(a) ==
  \/ a \in {<<64, 37>>, <<64, 37, 37>>, <<37, 64>>}
  \/ /\ Len(a) >= 2
     /\ a[1] \in {64, 58, 37}
     /\ alpha_num(a[2])
     /\ \A k \in 3..Len(a) : alpha_num(a[k]) \/ a[k] \in {46, 37, 64}

RECURSIVE split_spaces(_)
split_spaces(s) ==
  IF \A k \in DOMAIN s : s[k] # 32 THEN <<s>>
  ELSE LET k == CHOOSE k \in DOMAIN s : s[k] = 32 /\ \A j \in 1..(k - 1) : s[j] # 32
       IN <<SubSeq(s, 1, k - 1)>> \o split_spaces(SubSeq(s, k + 1, Len(s)))

\* The annotations after an application: none for an empty string.
decode_anns(b) ==
  LET r == get_bytes(b)
      anns == IF r[1][1] = <<>> THEN <<>> ELSE split_spaces(r[1][1])
  IN IF r = None THEN None
     ELSE IF \E k \in DOMAIN anns : ~validate_ann(anns[k]) THEN None
     ELSE Some(<<anns, r[1][2]>>)

RECURSIVE decode_micheline(_)
RECURSIVE decode_n(_, _)
RECURSIVE decode_all(_)

\* n nodes one after the other.
decode_n(b, n) ==
  LET join(h, t) == IF t = None THEN None ELSE Some(<<<<h>> \o t[1][1], t[1][2]>>)
      rest(h) == IF h = None THEN None ELSE join(h[1][1], decode_n(h[1][2], n - 1))
  IN IF n = 0 THEN Some(<<<<>>, b>>) ELSE rest(decode_micheline(b))

decode_all(b) ==
  LET join(h, t) == IF t = None THEN None ELSE Some(<<h>> \o t[1])
      rest(h) == IF h = None THEN None ELSE join(h[1][1], decode_all(h[1][2]))
  IN IF b = <<>> THEN Some(<<>>) ELSE rest(decode_micheline(b))

decode_seq_raw(b) ==
  LET seq(ns, rest) == IF ns = None THEN None ELSE Some(<<ns[1], rest>>)
      content(r) == IF r = None THEN None ELSE seq(decode_all(r[1][1]), r[1][2])
  IN content(get_bytes(b))

\* num_args is 0, 1 or 2, and 3 stands for NumArgs::Many.
decode_app(num_args, annotations, b) ==
  LET app(args, anns) ==
        IF anns = None THEN None ELSE Some(<<<<"app", Prims[b[1] + 1], args, anns[1][1]>>, anns[1][2]>>)
      applied(args) ==
        IF args = None THEN None
        ELSE app(args[1][1],
                 IF annotations THEN decode_anns(args[1][2]) ELSE Some(<<<<>>, args[1][2]>>))
  IN IF b = <<>> THEN None
     ELSE IF b[1] >= Len(Prims) THEN None
     ELSE applied(IF num_args = 3 THEN decode_seq_raw(Tail(b)) ELSE decode_n(Tail(b), num_args))

decode_micheline(bytes) ==
  LET b == Tail(bytes)
      got(kind) == LET r == get_bytes(b)
                   IN IF r = None THEN None ELSE Some(<<<<kind, r[1][1]>>, r[1][2]>>)
      seq(r) == IF r = None THEN None ELSE Some(<<<<"seq", r[1][1]>>, r[1][2]>>)
  IN CASE bytes = <<>> -> None
       [] bytes # <<>> /\ bytes[1] = 0 -> decode_int(b)
       [] bytes # <<>> /\ bytes[1] = 1 ->
            IF got("string") = None THEN None
            ELSE IF validate_str(got("string")[1][1][2]) THEN got("string") ELSE None
       [] bytes # <<>> /\ bytes[1] = 2 ->
            seq(decode_seq_raw(b))
       [] bytes # <<>> /\ bytes[1] \in 3..8 ->
            decode_app((bytes[1] - 3) \div 2, bytes[1] % 2 = 0, b)
       [] bytes # <<>> /\ bytes[1] = 9 -> decode_app(3, TRUE, b)
       [] bytes # <<>> /\ bytes[1] = 10 -> got("bytes")
       [] OTHER -> None

\* decode_raw refuses bytes after the node; decode_packed wants the tag 5.
decode_raw(b) ==
  LET whole(r) == IF r = None THEN None ELSE IF r[1][2] # <<>> THEN None ELSE Some(r[1][1])
  IN whole(decode_micheline(b))

decode_packed(b) ==
  IF b = <<>> THEN None ELSE IF b[1] # 5 THEN None ELSE decode_raw(Tail(b))
==============================================================================
