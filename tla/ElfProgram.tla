----------------------------- MODULE ElfProgram ------------------------------
(***************************************************************************)
(* Programs for the RISC-V machine and how they get into its memory         *)
(* (kernel_loader/src/lib.rs, interpreter/src/program.rs, setup_boot of     *)
(* machine_state.rs, devicetree.rs, sandbox/src/rvemu_boot.rs).             *)
(*                                                                          *)
(* program has the segments of Program, and image, every byte written to it *)
(* so far at its address: what a flat memory would hold.  A byte says where *)
(* it comes from; 0 is a zero.                                              *)
(***************************************************************************)
EXTENDS Integers, Sequences, SequencesExt

CONSTANTS
  Elves,        \* the files: [type, entry, headers, relocs]
  Start,        \* start_of_main_memory
  MemBytes,     \* the size of the main memory
  RelocLength,  \* bytes of a relocated address, 8
  Initrds,      \* initial ramdisks: None or Some(bytes)
  DtbLength,    \* bytes of the device tree
  Writes,       \* [at, bytes] that may be written directly
  MaxWrites

None == <<>>
Some(x) == <<x>>

VARIABLES
  program,      \* [segments, image, entry]
  machine,      \* [mem, pc, a0, a1, mode, deleg]; disk and from: what it booted last
  emulator,     \* the same for the emulator of the sandbox
  loaded,       \* the file the program was made from, if any
  writes
vars == <<program, machine, emulator, loaded, writes>>

------------------------------------------------------------------------------
(* Program::write_bytes.                                                    *)

After(at, bytes) == at + Len(bytes)

Without(f, a) == [b \in DOMAIN f \ {a} |-> f[b]]

\* A chunk that reaches beyond paddr is cut there.
ShrinkPrevious(segs, paddr) ==
  LET before == {a \in DOMAIN segs : a < paddr}
      prev == CHOOSE a \in before : \A b \in before : b <= a
  IN IF before # {} /\ (before # {} => paddr < After(prev, segs[prev]))
     THEN [segs EXCEPT ![prev] = SubSeq(@, 1, paddr - prev)] ELSE segs

\* One chunk that starts in the written range: the bytes in front of it become
\* a chunk of their own.
SplitAt(w, next) ==
  LET n == next - w.at
  IN [new |-> IF n = 0 THEN w.new ELSE (w.at :> SubSeq(w.bytes, 1, n)) @@ w.new,
      at |-> next, bytes |-> SubSeq(w.bytes, n + 1, Len(w.bytes))]

\* The old bytes stay in front.
PutLast_behind(segs, at, bytes) ==
  IF at \in DOMAIN segs
  THEN IF Len(segs[at]) >= Len(bytes)
       THEN [segs EXCEPT ![at] = SubSeq(@, 1, Len(@) - Len(bytes)) \o bytes]
       ELSE [segs EXCEPT ![at] = bytes]
  ELSE (at :> bytes) @@ segs

\* The bytes of the last chunk are copied into a chunk that is long enough.
PutLast(segs, at, bytes) ==
  IF at \in DOMAIN segs
  THEN IF Len(segs[at]) >= Len(bytes)
       THEN [segs EXCEPT ![at] = bytes \o SubSeq(@, Len(bytes) + 1, Len(@))]
       ELSE [segs EXCEPT ![at] = bytes]
  ELSE (at :> bytes) @@ segs

write_bytes(segs, paddr, bytes) ==
  LET shrunk == ShrinkPrevious(segs, paddr)
      nexts == SetToSortSeq({a \in DOMAIN shrunk : paddr <= a /\ a < After(paddr, bytes)}, <)
      w == FoldLeft(SplitAt, [new |-> <<>>, at |-> paddr, bytes |-> bytes], nexts)
  IN IF bytes = <<>> THEN segs
     ELSE IF w.bytes = <<>> THEN w.new @@ shrunk
     ELSE PutLast(w.new @@ shrunk, w.at, w.bytes)

\* Memory for Cursor: a flat array, which the models keep as the reference.
flat_write(image, at, bytes) ==
  [a \in at..(After(at, bytes) - 1) |-> bytes[a - at + 1]] @@ image

Write(p, at, bytes) ==
  [p EXCEPT !.segments = write_bytes(@, at, bytes), !.image = flat_write(@, at, bytes)]

\* Memory::set_zero.
set_zero(p, at, n) == Write(p, at, [i \in 1..n |-> 0])

------------------------------------------------------------------------------
(* kernel_loader.  A header is [load, paddr, file, memsz]: whether it is    *)
(* PT_LOAD, the address, the bytes in the file and the size in memory.      *)

Loadable(elf) == SelectSeq(elf.headers, LAMBDA h : h.load)

\* The zeroes after the bytes forgotten.
LoadSegment_nofill(p, start, h) == Write(p, start + h.paddr, h.file)

LoadSegment(p, start, h) ==
  LET q == Write(p, start + h.paddr, h.file)
  IN IF h.memsz > Len(h.file) THEN set_zero(q, start + h.paddr + Len(h.file), h.memsz - Len(h.file)) ELSE q

LastWritten(start, hs) == IF hs = <<>> THEN start ELSE start + Last(hs).paddr + Last(hs).memsz

load_elf_nonreloc(p, elf) ==
  [p |-> FoldLeft(LAMBDA q, h : LoadSegment(q, 0, h), p, Loadable(elf)),
   entry |-> elf.entry, last_written |-> LastWritten(0, Loadable(elf))]

\* The bytes of an address; its value does not matter.
Relocated(r) == [i \in 1..RelocLength |-> 1000 + r + i]

load_elf_reloc(p, start, elf) ==
  LET segs == FoldLeft(LAMBDA q, h : LoadSegment(q, start, h), p, Loadable(elf))
  IN [p |-> FoldLeft(LAMBDA q, r : Write(q, start + r, Relocated(r)), segs, elf.relocs),
      entry |-> elf.entry + start, last_written |-> LastWritten(start, Loadable(elf))]

load_elf(p, start, elf) ==
  IF elf.type = "EXEC" THEN load_elf_nonreloc(p, elf) ELSE load_elf_reloc(p, start, elf)

\* Required memory for loading.
mem_size(hs) ==
  LET ls == SelectSeq(hs, LAMBDA h : h.load)
      starts == {ls[i].paddr : i \in DOMAIN ls}
      ends == {ls[i].paddr + ls[i].memsz : i \in DOMAIN ls}
  IN IF ls = <<>> THEN 0
     ELSE (CHOOSE e \in ends : \A f \in ends : f <= e) - (CHOOSE s \in starts : \A t \in starts : s <= t)

Empty == [segments |-> <<>>, image |-> <<>>, entry |-> Start]

from_elf(elf) == LET r == load_elf(Empty, Start, elf) IN [r.p EXCEPT !.entry = r.entry]

from_raw(code) == [segments |-> (Start :> code), image |-> flat_write(<<>>, Start, code), entry |-> Start]

------------------------------------------------------------------------------
(* setup_boot.                                                              *)

Fresh == [mem |-> [a \in Start..(Start + MemBytes - 1) |-> 0], pc |-> Start, a0 |-> 7, a1 |-> 7,
          mode |-> "Machine", deleg |-> FALSE, ok |-> TRUE,
          disk |-> None, from |-> None]

Inside(at, bytes) == Start <= at /\ After(at, bytes) <= Start + MemBytes

\* Bus::write_all; an address out of bounds stops the boot.
bus_write_all(k, at, bytes) ==
  IF ~k.ok THEN k
  ELSE IF Inside(at, bytes) THEN [k EXCEPT !.mem = flat_write(@, at, bytes)]
  ELSE [k EXCEPT !.ok = FALSE]

\* The segments in order, up to the first that is out of bounds.
WriteSegments(k, segs) ==
  LET bad == {a \in DOMAIN segs : ~Inside(a, segs[a])}
      good == {a \in DOMAIN segs : \A b \in bad : a < b}
      of(x) == {a \in good : x - a \in 0..(Len(segs[a]) - 1)}
  IN [k EXCEPT !.ok = bad = {},
               !.mem = [x \in DOMAIN @ |->
                  IF of(x) = {} THEN @[x] ELSE LET a == CHOOSE a \in of(x) : TRUE IN segs[a][x - a + 1]]]

\* The end of the highest segment.
InitrdAddress(segs) ==
  LET ends == {After(a, segs[a]) : a \in DOMAIN segs}
  IN IF ends = {} THEN Start ELSE CHOOSE e \in ends : \A f \in ends : f <= e

\* generate_custom: the part of the tree that is always the same, and the end
\* and start of the ramdisk, if there is one; an address takes one byte here.
Address(a) == 3000 + a
generate(initrd) ==
  [i \in 1..DtbLength |-> 2000 + i]
    \o IF initrd = None THEN <<>> ELSE <<Address(initrd[1].start + initrd[1].length), Address(initrd[1].start)>>

\* The ramdisk, if any, at `at', and the device tree after it.
WithTree(k, at, initrd) ==
  LET dtb == IF initrd = None THEN at ELSE After(at, initrd[1])
      disk == IF initrd = None THEN k ELSE bus_write_all(k, at, initrd[1])
      options == IF initrd = None THEN None ELSE Some([start |-> at, length |-> Len(initrd[1])])
  IN [bus_write_all(disk, dtb, generate(options)) EXCEPT !.a1 = dtb]

setup_boot(k, p, initrd, mode) ==
  LET reset == [k EXCEPT !.pc = p.entry, !.mode = "Machine", !.a0 = 0, !.deleg = FALSE]
      r == WithTree(WriteSegments(reset, p.segments), InitrdAddress(p.segments), initrd)
  IN IF r.ok THEN [r EXCEPT !.mode = mode, !.deleg = TRUE] ELSE [r EXCEPT !.a1 = 0]

\* last_written: the end of the last segment of the file.
EmulatorDisk(r) == r.last_written

\* The same for the emulator of the sandbox: the file goes straight to memory.
\* An error ends the sandbox, so that nothing sees what was written before it.
rvemu_setup_boot(k, elf, initrd) ==
  LET file == load_elf(Empty, Start, elf)
      segs == [a \in DOMAIN file.p.image |-> <<file.p.image[a]>>]
      r == WithTree(WriteSegments([k EXCEPT !.pc = file.entry], segs), EmulatorDisk(file), initrd)
  IN IF r.ok THEN [r EXCEPT !.a0 = 0, !.mode = "Supervisor"] ELSE [k EXCEPT !.ok = FALSE]
------------------------------------------------------------------------------
(* A program is built from a file or from raw code, more may be written to  *)
(* it, and it is booted, more than once.                                    *)

Init == /\ program = Empty /\ machine = Fresh /\ emulator = Fresh
        /\ loaded = None /\ writes = 0

FromElf(elf) ==
  /\ writes = 0 /\ loaded = None
  /\ program' = from_elf(elf) /\ loaded' = Some(elf)
  /\ UNCHANGED <<machine, emulator, writes>>

FromRaw(w) ==
  /\ program = Empty /\ loaded = None
  /\ program' = from_raw(w.bytes)
  /\ UNCHANGED <<machine, emulator, loaded, writes>>

WriteBytes(w) ==
  /\ loaded = None /\ writes < MaxWrites
  /\ program' = Write(program, w.at, w.bytes) /\ writes' = writes + 1
  /\ UNCHANGED <<machine, emulator, loaded>>

\* Programs written to directly are not booted: a bound on the instances.
Boot(initrd, mode) ==
  /\ writes = 0
  /\ machine' = [setup_boot(machine, program, initrd, mode) EXCEPT !.disk = initrd, !.from = loaded]
  /\ UNCHANGED <<program, emulator, loaded, writes>>

BootEmulator(initrd) ==
  /\ loaded # None /\ emulator = Fresh
  /\ emulator' = [rvemu_setup_boot(emulator, loaded[1], initrd) EXCEPT !.disk = initrd]
  /\ UNCHANGED <<program, machine, loaded, writes>>

Next == \/ \E elf \in Elves : FromElf(elf)
        \/ \E w \in Writes : FromRaw(w) \/ WriteBytes(w)
        \/ \E initrd \in Initrds, mode \in {"Supervisor", "Machine"} : Boot(initrd, mode)
        \/ \E initrd \in Initrds : BootEmulator(initrd)

Spec == Init /\ [][Next]_vars

------------------------------------------------------------------------------
(* Properties.                                                              *)

Covered(segs) == UNION {a..(After(a, segs[a]) - 1) : a \in DOMAIN segs}

\* The segments of a program never overlap, whatever is written in which order
\* (Program, "all the arrays are non-overlapping").
SegmentsDisjoint ==
  \A a, b \in DOMAIN program.segments :
    a < b => After(a, program.segments[a]) <= b

\* What the segments have at an address is what was written there last
\* (write_bytes: chunks are cut, split and overwritten in place).
SegmentsCurrent ==
  \A a \in DOMAIN program.segments : \A i \in DOMAIN program.segments[a] :
    /\ a + i - 1 \in DOMAIN program.image
    /\ program.segments[a][i] = program.image[a + i - 1]

\* A file's own bytes, and zeroes up to the size of each segment.
Expected(elf, start) ==
  LET hs == {h \in Range(elf.headers) : h.load}
      of(a) == {h \in hs : start + h.paddr <= a /\ a < start + h.paddr + h.memsz}
      byte(h, a) == LET i == a - (start + h.paddr) + 1 IN IF i <= Len(h.file) THEN h.file[i] ELSE 0
  IN [a \in {b \in 0..(Start + MemBytes) : of(b) # {}} |-> byte(CHOOSE h \in of(a) : TRUE, a)]

Relocates(elf) == {a \in 0..(Start + MemBytes) : \E i \in DOMAIN elf.relocs :
                     a - (Start + elf.relocs[i]) \in 0..(RelocLength - 1)}

\* The program, the ramdisk and the device tree of a machine that booted from
\* elf are all in its memory, none written over another, a1 points to the tree
\* and the tree to the ramdisk (setup_boot; load_elf with the zeroes after
\* each segment).
Holds(k, elf, extent) ==
  LET prog == Expected(elf, IF elf.type = "EXEC" THEN 0 ELSE Start)
      at == k.a1 - (IF k.disk = None THEN 0 ELSE Len(k.disk[1]))
  IN /\ \A a \in (DOMAIN prog \cap extent) \ Relocates(elf) : k.mem[a] = prog[a]
     /\ \A i \in 1..DtbLength : k.mem[k.a1 + i - 1] = 2000 + i
     /\ k.disk # None =>
          /\ \A i \in DOMAIN k.disk[1] : k.mem[at + i - 1] = k.disk[1][i]
          /\ k.mem[k.a1 + DtbLength] = Address(at + Len(k.disk[1]))
          /\ k.mem[k.a1 + DtbLength + 1] = Address(at)
     /\ k.a0 = 0

Booted(k) == k.ok /\ k.a1 # 7

MachineBooted ==
  Booted(machine) /\ loaded # None /\ machine.from = loaded /\ machine.pc = program.entry =>
    /\ Holds(machine, loaded[1], Covered(program.segments))
    /\ machine.deleg

\* mem_size is room enough for all a file writes, its relocations aside
\* (kernel_loader, "Required memory for loading a set of program headers").
MemSizeSuffices ==
  \A elf \in Range(loaded) :
    LET at == DOMAIN load_elf(Empty, Start, [elf EXCEPT !.relocs = <<>>]).p.image
    IN \A a, b \in at : b - a < mem_size(elf.headers)

\* The emulator of the sandbox, which puts the ramdisk at the end of the last
\* segment of the file, agrees (rvemu_boot.rs, setup_boot).
EmulatorBooted == Booted(emulator) => Holds(emulator, loaded[1], DOMAIN emulator.mem)

\* Programs keep what was written last in segments that do not overlap, and a
\* boot puts all of it in place (program.rs, setup_boot, kernel_loader).
ProgramLaws ==
  /\ SegmentsDisjoint /\ SegmentsCurrent
  /\ MachineBooted /\ EmulatorBooted /\ MemSizeSuffices
==============================================================================
