----------------------------- MODULE StateBackend -----------------------------
(***************************************************************************)
(* The state of the RISC-V machine in one array of bytes: layouts, regions, *)
(* cells and the in-memory backend (state_backend.rs, state_backend/*.rs,   *)
(* machine_state/bus/main_memory.rs).                                       *)
(*                                                                          *)
(* A layout is <<"Atom", size>>, <<"Array", size, len>>, <<"Memory", len>>, *)
(* <<"Tuple", layouts>> or <<"Repeat", layout, n>>.  A region is [offset,   *)
(* size, len, align], size an element's.  An element is a number, stored    *)
(* least significant byte first, in bytes of Base values.                   *)
(***************************************************************************)
EXTENDS Choreographer, Sequences, SequencesExt

CONSTANTS
  Layouts,      \* the layouts of the backends to try
  PageSize,     \* the alignment of the main memory, 4096
  Base,         \* the values of a byte, 256
  MaxSteps      \* bound on the accesses

None == <<>>
Some(x) == <<x>>

VARIABLES
  regions,      \* the regions bound to the storage, in the order of the layout
  storage,      \* the backing storage
  frozen,       \* the storage of a clone of the backend, if any
  asked,        \* the last access: [kind, i, index, vs]
  result,       \* what the last access returned, None if it panicked
  steps
vars == <<alloc, locs, regions, storage, frozen, asked, result, steps>>

------------------------------------------------------------------------------
(* Layouts.                                                                 *)

\* The allocator and the regions placed so far.
Placement(a, rs) == [alloc |-> a, regions |-> rs]

PlaceLeaf(p, size, len, min_align) ==
  LET l == location(p.alloc, [size |-> size * len, align |-> size, min_align |-> min_align])
  IN Placement(advance(p.alloc, l),
         Append(p.regions, [offset |-> l.offset, size |-> size, len |-> len, align |-> l.align]))

PlaceAtom(p, size) == PlaceLeaf(p, size, 1, 1)
PlaceArray(p, size, len) == PlaceLeaf(p, size, len, 1)
PlaceMemory(p, bytes) == PlaceLeaf(p, 1, bytes, PageSize)

RECURSIVE place_with(_, _)

\* Every component after the one before it.
PlaceTuple(p, ls) == FoldLeft(place_with, p, ls)

PlaceRepeat(p, l, n) == FoldLeft(place_with, p, [i \in 1..n |-> l])

place_with(p, l) ==
  CASE l[1] = "Atom" -> PlaceAtom(p, l[2])
    [] l[1] = "Array" -> PlaceArray(p, l[2], l[3])
    [] l[1] = "Memory" -> PlaceMemory(p, l[2])
    [] l[1] = "Tuple" -> PlaceTuple(p, l[2])
    [] l[1] = "Repeat" -> PlaceRepeat(p, l[2], l[3])

\* Choreographer::place, which refuses an empty layout.
place(l) == place_with(Placement(new, <<>>), l)

------------------------------------------------------------------------------
(* Elements and regions.                                                    *)

\* An access returns Some of its result, or None when it panics.

\* Elem::store and from_stored: the bytes of an element, the lowest first.
store(v, size) == [i \in 0..(size - 1) |-> (v \div Base^i) % Base]

from_stored(s, at, size) == FoldSet(LAMBDA i, n : n + s[at + i] * Base^i, 0, 0..(size - 1))

\* The storage with elements vs from byte `at' on.
Put(s, at, size, vs) ==
  [b \in DOMAIN s |->
     IF b \in at..(at + size * Len(vs) - 1)
     THEN store(vs[(b - at) \div size + 1], size)[(b - at) % size] ELSE s[b]]

Take(s, at, size, n) == [i \in 1..n |-> from_stored(s, at + (i - 1) * size, size)]

\* Region for [E; LEN]: index and range are checked by the slices.
read_some(s, r, index, n) ==
  IF index + n > r.len THEN None ELSE Some(Take(s, r.offset + index * r.size, r.size, n))
read(s, r, index) == read_some(s, r, index, 1)
read_all(s, r) == read_some(s, r, 0, r.len)

\* The index taken for bytes.
write_some_bytes(s, r, index, vs) ==
  IF index + Len(vs) > r.len THEN None ELSE Some(Put(s, r.offset + index, r.size, vs))

write_some(s, r, index, vs) ==
  IF index + Len(vs) > r.len THEN None ELSE Some(Put(s, r.offset + index * r.size, r.size, vs))
write(s, r, index, v) == write_some(s, r, index, <<v>>)
write_all(s, r, vs) == IF Len(vs) # r.len THEN None ELSE write_some(s, r, 0, vs)

\* DynRegion for [T; LEN]: any element, at an address in bytes.
dyn_read(s, r, address, size) ==
  IF address + size > r.size * r.len THEN None ELSE Some(Take(s, r.offset + address, size, 1))

dyn_write_all(s, r, address, size, vs) ==
  IF address + size * Len(vs) > r.size * r.len THEN None ELSE Some(Put(s, r.offset + address, size, vs))
dyn_write(s, r, address, size, v) == dyn_write_all(s, r, address, size, <<v>>)

\* Backend::read and write, on the bytes themselves.
backend_read(s, index, n) ==
  IF index + n > alloc.first_unallocated_byte THEN None ELSE Some(Take(s, index, 1, n))
backend_write(s, index, bytes) ==
  IF index + Len(bytes) > alloc.first_unallocated_byte THEN None ELSE Some(Put(s, index, 1, bytes))

------------------------------------------------------------------------------
(* A backend and the accesses to it.                                        *)

Ask(kind, i, index, vs) == [kind |-> kind, i |-> i, index |-> index, vs |-> vs]

\* InMemoryBackend::new and Backend::allocate.
Init == /\ \E l \in Layouts :
             LET p == place(l)
             IN /\ alloc = p.alloc /\ regions = p.regions
                /\ locs = {[offset |-> r.offset, size |-> r.size * r.len, align |-> r.align] : r \in Range(p.regions)}
                /\ storage = [b \in 0..(p.alloc.first_unallocated_byte - 1) |-> 0]
        /\ frozen = None /\ asked = Ask("none", 0, 0, <<>>) /\ result = Some(<<>>) /\ steps = 0

Step(kind, i, index, vs) ==
  /\ steps < MaxSteps /\ steps' = steps + 1
  /\ asked' = Ask(kind, i, index, vs)
  /\ UNCHANGED <<alloc, locs, regions>>

\* A write that panics ends the program: the storage is as it was.
Written(s) == IF s = None THEN storage' = storage /\ result' = None
              ELSE storage' = s[1] /\ result' = Some(<<>>)

Elements(r) == 0..(Base^r.size - 1)

Write(i, index, v) ==
  /\ Step("write", i, index, <<v>>) /\ UNCHANGED frozen
  /\ Written(write(storage, regions[i], index, v))

WriteSome(i, index, vs) ==
  /\ Step("write", i, index, vs) /\ UNCHANGED frozen
  /\ Written(write_some(storage, regions[i], index, vs))

WriteAll(i, vs) ==
  /\ Step("write", i, 0, vs) /\ UNCHANGED frozen
  /\ Written(write_all(storage, regions[i], vs))

\* Region::replace returns the element it overwrites.
Replace(i, index, v) ==
  /\ Step("replace", i, index, <<v>>) /\ UNCHANGED frozen
  /\ LET old == read(storage, regions[i], index)
     IN IF old = None THEN storage' = storage /\ result' = None
        ELSE storage' = write(storage, regions[i], index, v)[1] /\ result' = old

\* Elements of two bytes in a region of bytes.
DynWrite(i, address, vs) ==
  /\ Step("write", i, address, FlattenSeq([j \in DOMAIN vs |-> <<vs[j] % Base, vs[j] \div Base>>]))
  /\ UNCHANGED frozen
  /\ Written(dyn_write_all(storage, regions[i], address, 2, vs))

\* MainMemory::reset: one byte after the other.
Reset(i) ==
  /\ Step("write", i, 0, [j \in 1..regions[i].len |-> 0]) /\ UNCHANGED frozen
  /\ storage' = FoldSet(LAMBDA a, s : dyn_write(s, regions[i], a, 1, 0)[1], storage, 0..(regions[i].len - 1))
  /\ result' = Some(<<>>)

\* Clone for InMemoryBackend.
Clone == /\ Step("clone", 0, 0, <<>>)
         /\ frozen' = Some(storage) /\ result' = Some(<<>>) /\ UNCHANGED storage

\* The whole storage read through one backend and written through another.
Restore ==
  /\ Step("restore", 0, 0, <<>>)
  /\ frozen # None /\ UNCHANGED frozen
  /\ Written(backend_write(storage, 0, backend_read(frozen[1], 0, alloc.first_unallocated_byte)[1]))

\* Backend::allocate_ro on the clone: reads go through, writes panic.
ReadFrozen(i, index) ==
  /\ Step("read_ro", i, index, <<>>) /\ frozen # None
  /\ result' = read(frozen[1], regions[i], index) /\ UNCHANGED <<storage, frozen>>

WriteFrozen(i, index, v) ==
  /\ Step("write_ro", i, index, <<v>>) /\ frozen # None
  /\ result' = None /\ UNCHANGED <<storage, frozen>>

Next ==
  \/ Clone \/ Restore
  \/ \E i \in DOMAIN regions :
       \/ \E index \in 0..regions[i].len, v \in Elements(regions[i]) :
            \/ Write(i, index, v) \/ Replace(i, index, v)
            \/ ReadFrozen(i, index) \/ WriteFrozen(i, index, v)
       \/ \E index \in 0..regions[i].len, v \in Elements(regions[i]) :
            WriteSome(i, index, <<v, Base^regions[i].size - 1 - v>>)
       \/ \E v \in Elements(regions[i]), n \in {regions[i].len, regions[i].len + 1} :
            WriteAll(i, [j \in 1..n |-> IF j = 1 THEN v ELSE 0])
       \/ /\ regions[i].size = 1
          /\ \/ Reset(i)
             \/ \E address \in 0..regions[i].len, v \in 0..(Base^2 - 1) : DynWrite(i, address, <<v>>)

Spec == Init /\ [][Next]_vars

------------------------------------------------------------------------------
(* Properties.                                                              *)

TypeOK ==
  /\ DOMAIN storage = 0..(alloc.first_unallocated_byte - 1)
  /\ \A b \in DOMAIN storage : storage[b] \in 0..(Base - 1)

\* What the backend promises.  Every region is a sequence of elements of its
\* own: contents, and kept, that of the clone.
contents == [i \in DOMAIN regions |-> read_all(storage, regions[i])[1]]
kept == IF frozen = None THEN None
        ELSE Some([i \in DOMAIN regions |-> read_all(frozen[1], regions[i])[1]])

Fits(a) == a.index + Len(a.vs) <= regions[a.i].len

\* An access that does not fit panics; one that does changes what it names.
Overwrite(a) ==
  IF Fits(a)
  THEN /\ contents' = [contents EXCEPT ![a.i] =
                         [j \in DOMAIN @ |-> IF j - a.index \in DOMAIN a.vs THEN a.vs[j - a.index] ELSE @[j]]]
       /\ result' = Some(IF a.kind = "replace" THEN <<contents[a.i][a.index + 1]>> ELSE <<>>)
  ELSE contents' = contents /\ result' = None

\* The clone can only be read.
AccessKept(a) ==
  /\ contents' = contents
  /\ result' = IF a.kind = "write_ro" \/ a.index >= regions[a.i].len THEN None
               ELSE Some(<<kept[1][a.i][a.index + 1]>>)

StoreStep(a) ==
  CASE a.kind \in {"write", "replace"} -> Overwrite(a) /\ kept' = kept
    [] a.kind \in {"read_ro", "write_ro"} -> AccessKept(a) /\ kept' = kept
    [] a.kind = "clone" -> kept' = Some(contents) /\ contents' = contents
    [] a.kind = "restore" -> contents' = kept[1] /\ kept' = kept
    [] OTHER -> FALSE

\* Over one array of bytes every region behaves as a store of its own: a write
\* changes the elements it names and no others, in this region or another, and
\* a clone keeps what it copied (Region, DynRegion, Backend, Clone).
RegionsIndependent ==
  /\ \A i \in DOMAIN regions : \A j \in 1..regions[i].len : contents[i][j] = 0
  /\ [][StoreStep(asked') /\ regions' = regions]_vars

==============================================================================
