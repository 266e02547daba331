----------------------------- MODULE Serializer -----------------------------
(***************************************************************************)
(* PACKed data between two parties (contrib/mir/src/serializer): one builds *)
(* a Micheline tree and encodes it, the other decodes what arrives, which   *)
(* may be cut short, continued or changed on the way.                       *)
(***************************************************************************)
EXTENDS MichelineCodec

CONSTANTS
  Leaves,      \* the trees one starts from
  MyPrims,     \* the primitives trees are built with
  MyAnns,      \* the lists of annotations put on them
  Octets,      \* the values a byte is changed to
  MaxNodes     \* bound on the nodes of all the trees

VARIABLES
  trees,       \* the trees built so far
  wire         \* None, or the packed bytes of a tree as they arrive
vars == <<trees, wire>>

RECURSIVE Nodes(_)
Nodes(t) ==
  LET sum(ts) == FoldLeft(LAMBDA n, u : n + Nodes(u), 1, ts)
  IN CASE t[1] = "seq" -> sum(t[2]) [] t[1] = "app" -> sum(t[3]) [] OTHER -> 1

Size(ts) == FoldLeft(LAMBDA n, u : n + Nodes(u), 0, ts)

Init == trees = <<>> /\ wire = None

Grow(l) == /\ wire = None /\ Size(trees) < MaxNodes
           /\ trees' = Append(trees, l) /\ UNCHANGED wire

\* The trees become the elements of a sequence or the arguments of a primitive.
Wrap == /\ wire = None /\ Size(trees) < MaxNodes
        /\ \/ trees' = <<<<"seq", trees>>>>
           \/ \E p \in MyPrims, anns \in MyAnns : trees' = <<<<"app", p, trees, anns>>>>
        /\ UNCHANGED wire

Send == /\ wire = None /\ Len(trees) = 1
        /\ wire' = Some(encode_for_pack(trees[1])) /\ UNCHANGED trees

Corrupt == /\ wire = Some(encode_for_pack(trees[1]))
           /\ \/ \E n \in 0..(Len(wire[1]) - 1) : wire' = Some(SubSeq(wire[1], 1, n))
              \/ \E o \in Octets : wire' = Some(Append(wire[1], o))
              \/ \E k \in DOMAIN wire[1], o \in Octets : wire' = Some([wire[1] EXCEPT ![k] = o])
           /\ UNCHANGED trees

Next == \/ \E l \in Leaves : Grow(l)
        \/ Wrap \/ Send
        \/ wire # None /\ Corrupt

Spec == Init /\ [][Next]_vars

------------------------------------------------------------------------------
(* Properties.                                                              *)

Sent == encode_for_pack(trees[1])

\* A tree that arrives unchanged is the tree that was sent, and no bytes that
\* lack its end, or go on after it, are taken for a tree (decode_packed,
\* TrailingBytes, UnexpectedEOF).
Received ==
  wire # None =>
    /\ wire[1] = Sent => decode_packed(wire[1]) = Some(trees[1])
    /\ IsStrictPrefix(wire[1], Sent) \/ IsStrictPrefix(Sent, wire[1])
         => decode_packed(wire[1]) = None

\* Whatever bytes are accepted, packing what they decode to gives bytes that
\* decode to the same: the tree is one the encoder can write
\* (encode_micheline and decode_micheline agree on forms, lengths and
\* annotations).
Stable ==
  wire # None =>
    LET t == decode_packed(wire[1])
    IN t = None \/ decode_packed(encode_for_pack(t[1])) = t
==============================================================================
