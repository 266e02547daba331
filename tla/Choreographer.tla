---------------------------- MODULE Choreographer ----------------------------
(***************************************************************************)
(* The allocator that gives every part of the state of the RISC-V machine   *)
(* its place in the backing storage (state_backend/alloc.rs).               *)
(*                                                                          *)
(* alloc is the allocator, locs the locations given out: [offset, size,     *)
(* align].  The one-time hook is never set in the code and is left out.     *)
(***************************************************************************)
EXTENDS Integers, TLAPS

CONSTANTS
  Types,        \* what may be allocated: [size, align, min_align]
  MaxBytes      \* bound on the storage, far below the largest usize

ASSUME TypesAreSized ==
  Types \subseteq [size : Nat \ {0}, align : Nat \ {0}, min_align : Nat \ {0}]

VARIABLES alloc, locs
allocVars == <<alloc, locs>>

\* The address rounded down.
align_address_down(address, align) == address - (address % align)

align_address(address, align) ==
  IF address % align > 0 THEN address + (align - (address % align)) ELSE address

larger(a, b) == IF a >= b THEN a ELSE b

new == [first_unallocated_byte |-> 0, max_align |-> 1]

location(a, t) ==
  [offset |-> align_address(a.first_unallocated_byte, larger(t.align, t.min_align)),
   size |-> t.size, align |-> larger(t.align, t.min_align)]

\* The allocator after it gave out l.
advance(a, l) ==
  [first_unallocated_byte |-> l.offset + l.size, max_align |-> larger(a.max_align, l.align)]

AllocInit == alloc = new /\ locs = {}

alloc_min_align(t) ==
  LET l == location(alloc, t)
  IN /\ l.offset + l.size <= MaxBytes
     /\ alloc' = advance(alloc, l) /\ locs' = locs \cup {l}

AllocNext == \E t \in Types : alloc_min_align(t)

AllocSpec == AllocInit /\ [][AllocNext]_allocVars

------------------------------------------------------------------------------
(* Properties.                                                              *)

Disjoint(k, l) == k.offset + k.size <= l.offset \/ l.offset + l.size <= k.offset

\* No two locations share a byte and all lie in the size that place returns
\* (alloc_min_align, Choreographer::place).
LocationsDisjoint ==
  /\ \A k, l \in locs : k = l \/ Disjoint(k, l)
  /\ \A l \in locs : 0 <= l.offset /\ l.offset + l.size <= alloc.first_unallocated_byte

\* Every location is at a multiple of its alignment, which is at most the
\* alignment of the whole storage (align_address, max_align).
LocationsAligned ==
  \A l \in locs : l.offset % l.align = 0 /\ l.align <= alloc.max_align

------------------------------------------------------------------------------
(* Proofs, for allocations of any types in any order.                       *)

Location == [offset : Nat, size : Nat \ {0}, align : Nat \ {0}]

AllocType ==
  /\ alloc \in [first_unallocated_byte : Nat, max_align : Nat \ {0}]
  /\ locs \subseteq Location

\* No two locations share a byte, all lie in the storage, and each is at a
\* multiple of its alignment, which the whole storage respects (alloc_min_align,
\* align_address).
AllocInv == AllocType /\ LocationsDisjoint /\ LocationsAligned

\* What align_address computes: the next multiple of align.
LEMMA AlignAddress ==
  ASSUME NEW a \in Nat, NEW n \in Nat \ {0}
  PROVE  /\ align_address(a, n) \in Nat
         /\ align_address(a, n) >= a
         /\ align_address(a, n) % n = 0
<1>1. a % n \in 0..(n - 1) /\ a = n * (a \div n) + (a % n) /\ a \div n \in Nat
  OBVIOUS
<1>2. CASE a % n = 0
  BY <1>1, <1>2 DEF align_address
<1>3. CASE a % n > 0
  <2>1. align_address(a, n) = a + (n - (a % n))
    BY <1>3 DEF align_address
  <2>2. align_address(a, n) = n * ((a \div n) + 1)
    BY <1>1, <2>1
  <2>3. (n * ((a \div n) + 1)) % n = 0
    BY <1>1
  <2> QED
    BY <1>1, <2>1, <2>2, <2>3
<1> QED
  BY <1>1, <1>2, <1>3

LEMMA Larger ==
  ASSUME NEW a \in Nat \ {0}, NEW b \in Nat \ {0}
  PROVE  larger(a, b) \in Nat \ {0} /\ larger(a, b) >= a /\ larger(a, b) >= b
  BY DEF larger

\* A new location starts at or after everything given out before it.
LEMMA NewLocation ==
  ASSUME NEW a \in [first_unallocated_byte : Nat, max_align : Nat \ {0}], NEW t \in Types
  PROVE  /\ location(a, t) \in Location
         /\ location(a, t).offset >= a.first_unallocated_byte
         /\ location(a, t).offset % location(a, t).align = 0
<1> DEFINE n == larger(t.align, t.min_align)
<1>1. t.size \in Nat \ {0} /\ t.align \in Nat \ {0} /\ t.min_align \in Nat \ {0}
  BY TypesAreSized
<1>2. n \in Nat \ {0}
  BY <1>1, Larger
<1>3. a.first_unallocated_byte \in Nat
  OBVIOUS
<1> HIDE DEF n
<1>4. /\ align_address(a.first_unallocated_byte, n) \in Nat
      /\ align_address(a.first_unallocated_byte, n) >= a.first_unallocated_byte
      /\ align_address(a.first_unallocated_byte, n) % n = 0
  BY <1>2, <1>3, AlignAddress
<1>5. location(a, t) = [offset |-> align_address(a.first_unallocated_byte, n),
                        size |-> t.size, align |-> n]
  BY DEF location, n
<1> QED
  BY <1>1, <1>2, <1>4, <1>5 DEF Location

\* Whatever is allocated, in whatever order, locations are disjoint, in the
\* storage and aligned: the facts hold at first and every allocation keeps them: a new location starts at or after the first unallocated byte,
\* which bounds all the others.
THEOREM AllocInvariant == AllocSpec => []AllocInv
<1>1. AllocInit => AllocInv
  BY DEF AllocInit, AllocInv, AllocType, LocationsDisjoint, LocationsAligned, new
<1>2. AllocInv /\ [AllocNext]_allocVars => AllocInv'
  <2> SUFFICES ASSUME AllocInv, [AllocNext]_allocVars PROVE AllocInv'
    OBVIOUS
  <2>1. CASE UNCHANGED allocVars
    BY <2>1 DEF AllocInv, AllocType, LocationsDisjoint, LocationsAligned, allocVars
  <2>2. ASSUME NEW t \in Types, alloc_min_align(t) PROVE AllocInv'
    <3> DEFINE l == location(alloc, t)
    <3>1. /\ l \in Location /\ l.offset >= alloc.first_unallocated_byte /\ l.offset % l.align = 0
      BY NewLocation DEF AllocInv, AllocType
    <3>2. alloc' = advance(alloc, l) /\ locs' = locs \cup {l}
      BY <2>2 DEF alloc_min_align
    <3> HIDE DEF l
    <3>3. /\ l.offset \in Nat /\ l.size \in Nat \ {0} /\ l.align \in Nat \ {0}
          /\ alloc.first_unallocated_byte \in Nat /\ alloc.max_align \in Nat \ {0}
      BY <3>1 DEF Location, AllocInv, AllocType
    <3>4. /\ alloc' \in [first_unallocated_byte : Nat, max_align : Nat \ {0}]
          /\ alloc'.first_unallocated_byte = l.offset + l.size
          /\ alloc'.max_align >= alloc.max_align /\ alloc'.max_align >= l.align
      BY <3>2, <3>3, Larger DEF advance
    <3>5. AllocType'
      BY <3>1, <3>2, <3>4 DEF AllocInv, AllocType
    <3>6. \A k \in locs : /\ k.offset \in Nat /\ k.size \in Nat /\ k.align \in Nat
                          /\ k.offset + k.size <= alloc.first_unallocated_byte
                          /\ k.align <= alloc.max_align /\ k.offset % k.align = 0
      BY DEF AllocInv, AllocType, Location, LocationsDisjoint, LocationsAligned
    <3>7. \A k \in locs : k.offset + k.size <= l.offset
      BY <3>1, <3>3, <3>6
    <3>8. LocationsDisjoint'
      <4>1. \A j, k \in locs : j = k \/ Disjoint(j, k)
        BY DEF AllocInv, LocationsDisjoint
      <4>2. \A j, k \in locs \cup {l} : j = k \/ Disjoint(j, k)
        BY <3>7, <4>1 DEF Disjoint
      <4>3. \A k \in locs \cup {l} :
              0 <= k.offset /\ k.offset + k.size <= alloc'.first_unallocated_byte
        BY <3>1, <3>3, <3>4, <3>6
      <4> QED
        BY <3>2, <4>2, <4>3 DEF LocationsDisjoint, Disjoint
    <3>9. LocationsAligned'
      <4>1. \A k \in locs \cup {l} : k.offset % k.align = 0 /\ k.align <= alloc'.max_align
        BY <3>1, <3>3, <3>4, <3>6
      <4> QED
        BY <3>2, <4>1 DEF LocationsAligned
    <3> QED
      BY <3>5, <3>8, <3>9 DEF AllocInv
  <2> QED
    BY <2>1, <2>2 DEF AllocNext
<1> QED
  BY <1>1, <1>2, PTL DEF AllocSpec
==============================================================================
