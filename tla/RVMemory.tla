------------------------------ MODULE RVMemory ------------------------------
(***************************************************************************)
(* The memory of the RISC-V machine: the bus, the main memory, virtual      *)
(* addresses, loads, stores and atomic operations (machine_state/bus.rs and *)
(* bus/*.rs, address_translation.rs and its submodules, interpreter/rv64i.rs,*)
(* rv32a.rs, interpreter/common_memory.rs).                                 *)
(*                                                                          *)
(* A word is a set of bit positions and a byte a set of positions 0..7.     *)
(* The widths of a page offset, of a page number and of a level's index are *)
(* parameters, 12, 44 and 9 in the code.                                    *)
(***************************************************************************)
EXTENDS CSRegisters

CONSTANTS
  DevicesLength,        \* DEVICES_ADDRESS_SPACE_LENGTH
  MemBytes,             \* MainMemoryLayout::BYTES
  PAGE_OFFSET_WIDTH, VPN_WIDTH, PPN_WIDTH,
  Levels,               \* SvConstants::levels by SvLength
  XRegs,                \* the registers used
  Starts,               \* the machines a program may start with
  Instrs,               \* the instructions executed, by mode
  MaxSteps              \* bound on the instructions executed

VARIABLES
  m,            \* [x, mem, mode, satp]
  fault,        \* the exception of the last instruction, if any
  last,         \* the last instruction, if any
  steps
vars == <<m, fault, last, steps>>

PTE_SIZE == 8

xread(k, r) == IF r = 0 THEN {} ELSE k.x[r]
xwrite(k, r, v) == IF r = 0 THEN k ELSE [k EXCEPT !.x[r] = v]

------------------------------------------------------------------------------
(* The bus and the main memory.                                             *)

\* AddressSpace::locate; every address above 2^30 is beyond the memory.
locate(addr) ==
  IF \E b \in addr : b >= 30 THEN <<"OutOfBounds", 0>>
  ELSE LET n == ToNumber(addr)
       IN IF n < DevicesLength THEN <<"Devices", n>>
          ELSE IF n - DevicesLength < MemBytes THEN <<"MainMemory", n - DevicesLength>>
          ELSE <<"OutOfBounds", n - DevicesLength - MemBytes>>

\* MainMemory::read and write, of size bytes at offset at.
memory_read(mem, at, size) ==
  IF at + size > MemBytes THEN None
  ELSE Some(UNION {ShiftLeft(mem[at + i], 8 * i) : i \in 0..(size - 1)})

ByteOf(v, i) == ShiftRight(v \cap OnesAt(8, 8 * i), 8 * i)

memory_write(mem, at, size, v) ==
  IF at + size > MemBytes THEN None
  ELSE Some([a \in DOMAIN mem |-> IF a \in at..(at + size - 1) THEN ByteOf(v, a - at) ELSE mem[a]])

\* Bus: the devices have no registers yet, every access to them fails.
bus_read(mem, addr, size) ==
  IF locate(addr)[1] = "MainMemory" THEN memory_read(mem, locate(addr)[2], size) ELSE None

bus_write(mem, addr, size, v) ==
  IF locate(addr)[1] = "MainMemory" THEN memory_write(mem, locate(addr)[2], size, v) ELSE None

\* Bus::write_all of a sequence of bytes, within one address space.
bus_write_all(mem, addr, bytes) ==
  LET begin == locate(addr)
      end == locate(Add(addr, ToBits(IF bytes = <<>> THEN 0 ELSE Len(bytes) - 1)))
  IN IF begin[1] # "MainMemory" \/ end[1] # begin[1] THEN None
     ELSE IF begin[2] + Len(bytes) > MemBytes THEN None
     ELSE Some([a \in DOMAIN mem |->
            IF a \in begin[2]..(begin[2] + Len(bytes) - 1) THEN bytes[a - begin[2] + 1] ELSE mem[a]])

------------------------------------------------------------------------------
(* Virtual addresses.                                                       *)

FLAG_V == FieldProps(0, 1)
FLAG_R == FieldProps(1, 1)
FLAG_W == FieldProps(2, 1)
FLAG_X == FieldProps(3, 1)
FLAG_A == FieldProps(6, 1)
FLAG_D == FieldProps(7, 1)
PTE_PPN == FieldProps(10, PPN_WIDTH)

PAGE_OFFSET == FieldProps(0, PAGE_OFFSET_WIDTH)

\* Field index of a virtual page number; index is below the levels.
VPN_IDX(index) == FieldProps(PAGE_OFFSET_WIDTH + index * VPN_WIDTH, VPN_WIDTH)

\* get_raw_ppn_i_range: the top field takes what is left of the page number.
RawPPN(levels, index) ==
  FieldProps(index * VPN_WIDTH,
             IF index = levels - 1 THEN PPN_WIDTH - index * VPN_WIDTH ELSE VPN_WIDTH)

get_VPN_IDX(v_addr, index) == get_field(v_addr, VPN_IDX(index))

get_ppn_i(ppn, levels, index) == get_field(ppn, RawPPN(levels, index))

set_PPN_IDX(p_addr, levels, index, value) ==
  LET f == RawPPN(levels, index)
  IN set_field(p_addr, FieldProps(f.offset + PAGE_OFFSET_WIDTH, f.width), value)

\* AccessType::exception
PageFault(access, addr) ==
  <<CASE access = "Instruction" -> "InstructionPageFault"
      [] access = "Load" -> "LoadPageFault"
      [] access = "Store" -> "StoreAMOPageFault", addr>>

\* Steps 2 to 4: the leaf entry under table a, and its level, or None.
RECURSIVE Walk(_, _, _, _)
Walk(mem, v_addr, i, a) ==
  LET addr == Add(a, ShiftLeft(get_VPN_IDX(v_addr, i), 3))
      next(pte) ==
        IF ~get_flag(pte, FLAG_V) \/ (~get_flag(pte, FLAG_R) /\ get_flag(pte, FLAG_W)) THEN None
        ELSE IF get_flag(pte, FLAG_R) \/ get_flag(pte, FLAG_X) THEN Some([pte |-> pte, level |-> i])
        ELSE IF i = 0 THEN None
        ELSE Walk(mem, v_addr, i - 1, ShiftLeft(get_field(pte, PTE_PPN), PAGE_OFFSET_WIDTH))
  IN LET r == bus_read(mem, addr, PTE_SIZE) IN IF r = None THEN None ELSE next(r[1])

\* Step 7 without the check of D.
LeafUsable_clean(leaf, levels, access) ==
  /\ \A idx \in 0..(leaf.level - 1) : get_ppn_i(get_field(leaf.pte, PTE_PPN), levels, idx) = {}
  /\ get_flag(leaf.pte, FLAG_A)

\* Steps 6 and 7: no misaligned superpage; accessed, and dirty for a store.
LeafUsable(leaf, levels, access) ==
  /\ \A idx \in 0..(leaf.level - 1) : get_ppn_i(get_field(leaf.pte, PTE_PPN), levels, idx) = {}
  /\ get_flag(leaf.pte, FLAG_A) /\ (access = "Store" => get_flag(leaf.pte, FLAG_D))

\* Step 8 with the level's own index taken from the address.
Physical_over(leaf, levels, v_addr) ==
  FoldLeft(LAMBDA pa, idx : set_PPN_IDX(pa, levels, idx - 1,
             IF idx - 1 <= leaf.level THEN get_VPN_IDX(v_addr, idx - 1)
             ELSE get_ppn_i(get_field(leaf.pte, PTE_PPN), levels, idx - 1)),
           get_field(v_addr, PAGE_OFFSET), [idx \in 1..levels |-> idx])

\* Step 8: the fields of the physical address, one by one.
Physical(leaf, levels, v_addr) ==
  FoldLeft(LAMBDA pa, idx : set_PPN_IDX(pa, levels, idx - 1,
             IF idx - 1 < leaf.level THEN get_VPN_IDX(v_addr, idx - 1)
             ELSE get_ppn_i(get_field(leaf.pte, PTE_PPN), levels, idx - 1)),
           get_field(v_addr, PAGE_OFFSET), [idx \in 1..levels |-> idx])

UseLeaf(r, levels, v_addr, access) ==
  IF r = None THEN None
  ELSE IF LeafUsable(r[1], levels, access) THEN Some(Physical(r[1], levels, v_addr)) ELSE None

\* None is the page fault of the access: translate turns every error into it.
sv_translate_impl(mem, v_addr, satp, length, access) ==
  UseLeaf(Walk(mem, v_addr, Levels[length] - 1,
               ShiftLeft(get_field(satp, SATP_PPN), PAGE_OFFSET_WIDTH)),
          Levels[length], v_addr, access)

translate(k, v_addr, access) ==
  CASE k.mode = Machine \/ get_MODE(k.satp) \in {None, Some(<<"Bare">>)} -> Some(v_addr)
    [] OTHER -> sv_translate_impl(k.mem, v_addr, k.satp, get_MODE(k.satp)[1][2], access)

------------------------------------------------------------------------------
(* Accesses.  A read gives <<"Ok", value>> or <<"Err", exception>>; an       *)
(* instruction gives [k, err].                                               *)

Ok(k) == [k |-> k, err |-> None]
Err(k, e) == [k |-> k, err |-> Some(e)]

ReadPhysical(k, pa, size) ==
  LET r == bus_read(k.mem, pa, size)
  IN IF r = None THEN <<"Err", <<"LoadAccessFault", pa>>>> ELSE <<"Ok", r[1]>>

read_from_address(k, addr, size) ==
  LET pa == translate(k, addr, "Load")
  IN IF pa = None THEN <<"Err", PageFault("Load", addr)>> ELSE ReadPhysical(k, pa[1], size)

read_from_bus(k, imm, rs1, size) == read_from_address(k, Add(xread(k, rs1), imm), size)

WritePhysical(k, pa, size, v) ==
  LET w == bus_write(k.mem, pa, size, v)
  IN IF w = None THEN Err(k, <<"StoreAccessFault", pa>>) ELSE Ok([k EXCEPT !.mem = w[1]])

write_to_address(k, addr, size, v) ==
  LET pa == translate(k, addr, "Store")
  IN IF pa = None THEN Err(k, PageFault("Store", addr)) ELSE WritePhysical(k, pa[1], size, v)

write_to_bus(k, imm, rs1, size, v) == write_to_address(k, Add(xread(k, rs1), imm), size, v)

\* The register a load of size bytes fills.
LoadSigned(k, r, rd, size) ==
  IF r[1] = "Err" THEN Err(k, r[2]) ELSE Ok(xwrite(k, rd, SignExtend(r[2], 8 * size)))
LoadUnsigned(k, r, rd) == IF r[1] = "Err" THEN Err(k, r[2]) ELSE Ok(xwrite(k, rd, r[2]))

run_ld(k, imm, rs1, rd) == LoadSigned(k, read_from_bus(k, imm, rs1, 8), rd, 8)
run_lw(k, imm, rs1, rd) == LoadSigned(k, read_from_bus(k, imm, rs1, 4), rd, 4)
run_lh(k, imm, rs1, rd) == LoadSigned(k, read_from_bus(k, imm, rs1, 2), rd, 2)
run_lb(k, imm, rs1, rd) == LoadSigned(k, read_from_bus(k, imm, rs1, 1), rd, 1)
run_lwu(k, imm, rs1, rd) == LoadUnsigned(k, read_from_bus(k, imm, rs1, 4), rd)
run_lhu(k, imm, rs1, rd) == LoadUnsigned(k, read_from_bus(k, imm, rs1, 2), rd)
run_lbu(k, imm, rs1, rd) == LoadUnsigned(k, read_from_bus(k, imm, rs1, 1), rd)

run_sd(k, imm, rs1, rs2) == write_to_bus(k, imm, rs1, 8, xread(k, rs2))
run_sw(k, imm, rs1, rs2) == write_to_bus(k, imm, rs1, 4, xread(k, rs2))
run_sh_wide(k, imm, rs1, rs2) == write_to_bus(k, imm, rs1, 8, xread(k, rs2))
run_sh(k, imm, rs1, rs2) == write_to_bus(k, imm, rs1, 2, xread(k, rs2))
run_sb(k, imm, rs1, rs2) == write_to_bus(k, imm, rs1, 1, xread(k, rs2))

\* run_amo_w: 32 bits are read and combined with the operand, and the result,
\* extended to 64 bits, is stored as 64 bits.  rd is written before the store.
AmoStore(k, addr, v1, value, rd) ==
  write_to_address(xwrite(k, rd, SignExtend(v1, 32)), addr, 8, SignExtend(value, 32))

\* value is f of Word and Operand, used only when the read succeeds.
run_amo_w(k, rs1, value, rd) ==
  LET r == read_from_address(k, xread(k, rs1), 4)
  IN IF r[1] = "Err" THEN Err(k, r[2])
     ELSE AmoStore(k, xread(k, rs1), r[2], value, rd)

Word(k, rs1) == read_from_address(k, xread(k, rs1), 4)[2]

Operand(k, rs2) == xread(k, rs2) \cap ones(32)

Less32(a, b) == LessU(Xor(a, {31}), Xor(b, {31}))

Smallest32(a, b) == IF Less32(b, a) THEN b ELSE a
Largest32(a, b) == IF Less32(b, a) THEN a ELSE b
SmallestU(a, b) == IF LessU(b, a) THEN b ELSE a
LargestU(a, b) == IF LessU(b, a) THEN a ELSE b

run_amoswapw(k, rs1, rs2, rd) == run_amo_w(k, rs1, Operand(k, rs2), rd)
run_amoaddw(k, rs1, rs2, rd) == run_amo_w(k, rs1, Add(Word(k, rs1), Operand(k, rs2)) \cap ones(32), rd)
run_amoxorw(k, rs1, rs2, rd) == run_amo_w(k, rs1, Xor(Word(k, rs1), Operand(k, rs2)), rd)
run_amoandw(k, rs1, rs2, rd) == run_amo_w(k, rs1, Word(k, rs1) \cap Operand(k, rs2), rd)
run_amoorw(k, rs1, rs2, rd) == run_amo_w(k, rs1, Word(k, rs1) \cup Operand(k, rs2), rd)
run_amominw(k, rs1, rs2, rd) == run_amo_w(k, rs1, Smallest32(Word(k, rs1), Operand(k, rs2)), rd)
run_amomaxw(k, rs1, rs2, rd) == run_amo_w(k, rs1, Largest32(Word(k, rs1), Operand(k, rs2)), rd)
run_amominuw(k, rs1, rs2, rd) == run_amo_w(k, rs1, SmallestU(Word(k, rs1), Operand(k, rs2)), rd)
run_amomaxuw(k, rs1, rs2, rd) == run_amo_w(k, rs1, LargestU(Word(k, rs1), Operand(k, rs2)), rd)

\* fetch_instr: the second half is read only if the first asks for it, at the
\* physical address that follows.  The instruction read is its bytes.
FetchRest(k, pa, half) ==
  IF half = None THEN Err(k, <<"InstructionAccessFault", pa>>)
  ELSE IF {0, 1} \subseteq half[1] /\ bus_read(k.mem, Add(pa, {1}), 2) = None
  THEN Err(k, <<"InstructionAccessFault", pa>>) ELSE Ok(k)

fetch_instr(k, pc) ==
  LET pa == translate(k, pc, "Instruction")
  IN IF pa = None THEN Err(k, PageFault("Instruction", pc))
     ELSE FetchRest(k, pa[1], bus_read(k.mem, pa[1], 2))

\* csrw satp; in user mode it is illegal (rv64zicsr.rs).
SetSatp(k, v) ==
  IF k.mode = User THEN Err(k, <<"IllegalInstruction", {}>>)
  ELSE Ok([k EXCEPT !.satp = LET w == make_value_writable(R.satp, v) IN IF w = None THEN @ ELSE w[1]])

run_instr(k, i) ==
  CASE i.name = "Ld" -> run_ld(k, i.imm, i.rs1, i.r2)
    [] i.name = "Lw" -> run_lw(k, i.imm, i.rs1, i.r2)
    [] i.name = "Lh" -> run_lh(k, i.imm, i.rs1, i.r2)
    [] i.name = "Lb" -> run_lb(k, i.imm, i.rs1, i.r2)
    [] i.name = "Lwu" -> run_lwu(k, i.imm, i.rs1, i.r2)
    [] i.name = "Lhu" -> run_lhu(k, i.imm, i.rs1, i.r2)
    [] i.name = "Lbu" -> run_lbu(k, i.imm, i.rs1, i.r2)
    [] i.name = "Sd" -> run_sd(k, i.imm, i.rs1, i.r2)
    [] i.name = "Sw" -> run_sw(k, i.imm, i.rs1, i.r2)
    [] i.name = "Sh" -> run_sh(k, i.imm, i.rs1, i.r2)
    [] i.name = "Sb" -> run_sb(k, i.imm, i.rs1, i.r2)
    [] i.name = "Fetch" -> fetch_instr(k, i.imm)
    [] i.name = "Satp" -> SetSatp(k, i.imm)

\* The atomic instructions; i.rd receives the old value.
run_amo(k, i) ==
  CASE i.name = "Amoswap" -> run_amoswapw(k, i.rs1, i.r2, i.rd)
    [] i.name = "Amoadd" -> run_amoaddw(k, i.rs1, i.r2, i.rd)
    [] i.name = "Amoxor" -> run_amoxorw(k, i.rs1, i.r2, i.rd)
    [] i.name = "Amoand" -> run_amoandw(k, i.rs1, i.r2, i.rd)
    [] i.name = "Amoor" -> run_amoorw(k, i.rs1, i.r2, i.rd)
    [] i.name = "Amomin" -> run_amominw(k, i.rs1, i.r2, i.rd)
    [] i.name = "Amomax" -> run_amomaxw(k, i.rs1, i.r2, i.rd)
    [] i.name = "Amominu" -> run_amominuw(k, i.rs1, i.r2, i.rd)
    [] i.name = "Amomaxu" -> run_amomaxuw(k, i.rs1, i.r2, i.rd)

IsAmo(i) == "rd" \in DOMAIN i

Init == m \in Starts /\ fault = None /\ last = None /\ steps = 0

Execute(i) ==
  /\ steps < MaxSteps /\ steps' = steps + 1
  /\ \E r \in {IF IsAmo(i) THEN run_amo(m, i) ELSE run_instr(m, i)} :
       m' = r.k /\ fault' = r.err
  /\ last' = Some(i)

Next == \E i \in Instrs[m.mode] : Execute(i)

Spec == Init /\ [][Next]_vars

------------------------------------------------------------------------------
(* Properties.                                                              *)

TypeOK ==
  /\ \A a \in DOMAIN m.mem : m.mem[a] \subseteq 0..7
  /\ \A r \in XRegs : m.x[r] \subseteq AllBits
  /\ DOMAIN m.mem = 0..(MemBytes - 1) /\ get_MODE(m.satp) # None
  /\ m.mode \in DOMAIN Instrs

\* The laws of physical accesses are about machine mode; a fault leaves the
\* machine as it was, and they have been asked of it already.
Physically == m.mode = Machine /\ fault = None

Store(n, k, imm, r, q) ==
  CASE n = 1 -> run_sb(k, imm, r, q) [] n = 2 -> run_sh(k, imm, r, q)
    [] n = 4 -> run_sw(k, imm, r, q) [] n = 8 -> run_sd(k, imm, r, q)
SignedLoad(n, k, imm, r, rd) ==
  CASE n = 1 -> run_lb(k, imm, r, rd) [] n = 2 -> run_lh(k, imm, r, rd)
    [] n = 4 -> run_lw(k, imm, r, rd) [] n = 8 -> run_ld(k, imm, r, rd)
UnsignedLoad(n, k, imm, r, rd) ==
  CASE n = 1 -> run_lbu(k, imm, r, rd) [] n = 2 -> run_lhu(k, imm, r, rd)
    [] n = 4 -> run_lwu(k, imm, r, rd) [] n = 8 -> run_ld(k, imm, r, rd)

Imms == {{}, {0}, 0..63}             \* 0, 1 and -1

\* Every offset of the memory that the n bytes at register r and imm occupy.
Occupied(imm, r, n) ==
  LET at == Add(xread(m, r), imm)
  IN IF \E b \in at : b >= 30 THEN {-1}
     ELSE (ToNumber(at) - DevicesLength)..(ToNumber(at) - DevicesLength + n - 1)

\* What is stored is what is loaded, extended as the load says, and no other
\* byte changes (rv64i.rs; region.rs, read and write of an element).
StoreThenLoad ==
  Physically =>
    \A n \in {1, 2, 4, 8}, imm \in Imms, r \in {1, 2}, q \in {3} :
      \E s \in {Store(n, m, imm, r, q)} :
        s.err = None =>
          /\ \A a \in DOMAIN m.mem \ Occupied(imm, r, n) : s.k.mem[a] = m.mem[a]
          /\ SignedLoad(n, s.k, imm, r, q).k.x[q] = SignExtend(xread(m, q) \cap ones(8 * n), 8 * n)
          /\ UnsignedLoad(n, s.k, imm, r, q).k.x[q] = xread(m, q) \cap ones(8 * n)

\* An access succeeds exactly when all its bytes are in the main memory, also
\* when its address wraps around (bus.rs, locate; main_memory.rs).
AccessesInBounds ==
  Physically =>
    \A n \in {1, 2, 4, 8}, imm \in Imms, r \in {1, 2} :
      LET inside == Occupied(imm, r, n) \subseteq DOMAIN m.mem
      IN /\ (Store(n, m, imm, r, 0).err = None) = inside
         /\ (UnsignedLoad(n, m, imm, r, 0).err = None) = inside

WordAt(k, r) == SignExtend(read_from_address(k, xread(k, r), 4)[2], 32)

\* The atomic minimum and maximum, signed and unsigned, choose among the word
\* in memory and the register, and give the old word (rv32a.rs).
AmoChooses ==
  Physically =>
    \A q \in {1, 3} :
      \A small \in {run_amominw(m, 2, q, 1)}, large \in {run_amomaxw(m, 2, q, 1)},
         low \in {run_amominuw(m, 2, q, 1)}, high \in {run_amomaxuw(m, 2, q, 1)} :
        small.err = None =>
          LET a == WordAt(m, 2)
              b == SignExtend(xread(m, q) \cap ones(32), 32)
          IN /\ {WordAt(small.k, 2), WordAt(large.k, 2)} = {a, b}
             /\ {WordAt(low.k, 2), WordAt(high.k, 2)} = {a, b}
             /\ ~LessS(WordAt(large.k, 2), WordAt(small.k, 2))
             /\ ~LessU(WordAt(high.k, 2), WordAt(low.k, 2))
             /\ small.k.x[1] = a /\ high.k.x[1] = a

\* Numbers of the page table walk, for an address below 2^30.
Frame(pte) == ToNumber(get_field(pte, PTE_PPN))
Page == 2^PAGE_OFFSET_WIDTH
Entry(k, table, va, j) ==
  bus_read(k.mem, ToBits(table + 8 * ((va \div (Page * 2^(VPN_WIDTH * j))) % 2^VPN_WIDTH)), 8)

\* The physical address by arithmetic: the tables below each other, the first
\* entry that is no pointer, and the part of the address below its page size.
Reference(k, va, access) ==
  LET top == Levels[get_MODE(k.satp)[1][2]] - 1
      flags(e) == e[1] \cap 0..7
      pointer(e) == e # None /\ flags(e) \cap {0, 1, 2, 3} = {0}
      table[j \in 0..top] ==
        IF j = top THEN ToNumber(get_field(k.satp, SATP_PPN)) * Page
        ELSE LET up == Entry(k, table[j + 1], va, j + 1) IN IF up = None THEN 0 ELSE Frame(up[1]) * Page
      stops == {j \in 0..top : ~pointer(Entry(k, table[j], va, j))
                                 /\ \A i \in (j + 1)..top : pointer(Entry(k, table[i], va, i))}
      leaf(j) == Entry(k, table[j], va, j)
      size(j) == Page * 2^(VPN_WIDTH * j)
      fine(j) == /\ leaf(j) # None
                 /\ {0, 6} \subseteq flags(leaf(j)) /\ flags(leaf(j)) \cap {1, 3} # {}
                 /\ flags(leaf(j)) \cap {1, 2} # {2}
                 /\ access = "Store" => 7 \in flags(leaf(j))
                 /\ (Frame(leaf(j)[1]) * Page) % size(j) = 0
  IN {Frame(leaf(j)[1]) * Page + (va % size(j)) : j \in {i \in stops : fine(i)}}

Virtual == m.mode # Machine /\ get_MODE(m.satp) \notin {None, Some(<<"Bare">>)}

VirtualSpace == 0..(Page * 2^(VPN_WIDTH * 3) - 1)

\* translate computes what the arithmetic says, superpages included, and
\* faults exactly when it gives nothing (address_translation.rs).
TranslationMatches ==
  Virtual /\ fault = None =>
    \A va \in {a \in VirtualSpace : a % 9 = 0}, access \in {"Load", "Store"} :
      \E r \in {translate(m, ToBits(va), access)} :
        (IF r = None THEN {} ELSE {ToNumber(r[1])}) = Reference(m, va, access)

Crosses(i, k) == (ToNumber(Add(xread(k, i.rs1), i.imm)) % Page) > Page - 8

\* A store through virtual addresses changes no byte but of a page that the
\* tables, as they were, map accessed and dirty; also when it changes the tables
\* themselves.  Only for accesses within a page (common_memory.rs).
StoresThroughDirtyLeaves ==
  [][Virtual /\ last'[1].name \in {"Sd", "Sw", "Sh", "Sb"} /\ ~Crosses(last'[1], m)
       => LET dirty == UNION {Reference(m, va, "Store") : va \in {a \in VirtualSpace : a % Page = 0}}
          IN \A a \in DOMAIN m.mem : m'.mem[a] # m.mem[a] =>
               \E p \in dirty : a + DevicesLength \in p..(p + Page - 1)]_vars

\* What a program expects of the memory in every state: loads of what was stored,
\* accesses inside it only, atomic choices, and the addresses of the page tables
\* (bus.rs, main_memory.rs, rv32a.rs, address_translation.rs).
MemoryLaws ==
  TypeOK /\ StoreThenLoad /\ AccessesInBounds /\ AmoChooses /\ TranslationMatches

------------------------------------------------------------------------------
(* Instances for TLC.                                                       *)

MCLevels == [l \in {"Sv39", "Sv48", "Sv57"} |-> CASE l = "Sv39" -> 3 [] l = "Sv48" -> 4 [] OTHER -> 5]

I(name, imm, rs1, r2) == [name |-> name, imm |-> imm, rs1 |-> rs1, r2 |-> r2]
A(name, rs1, r2, rd) == [name |-> name, rs1 |-> rs1, r2 |-> r2, rd |-> rd]

\* 16 bytes of devices and 64 of memory; physical accesses.
MCXRegs == {0, 1, 2, 3}
MCZeroMemory == [a \in 0..(MemBytes - 1) |-> {}]
\* x2 is the first address of the memory, the last word of it, or too high;
\* x3 is a word with both halves negative.
MCRegisters == {[r \in MCXRegs |-> CASE r = 2 -> a [] r = 3 -> v [] OTHER -> {}] :
                 a \in {{4}, {2, 3, 6}, 0..63}, v \in {{7, 15, 31, 32}}}
MCPhysical ==
  {I(n, {}, 2, 3) : n \in {"Sd", "Sh", "Sb"}} \cup {I(n, {1}, 2, 3) : n \in {"Sw", "Sb"}}
    \cup {I("Lw", {0}, 2, 1), I("Lb", {}, 2, 1), I("Lhu", {1}, 2, 1)}
    \cup {A(n, 2, 3, 1) : n \in {"Amoswap", "Amoadd", "Amoxor", "Amominu"}}
    \cup {A(n, 2, 1, 3) : n \in {"Amoand", "Amoor", "Amomin", "Amomax", "Amomaxu"}}
    \cup {I("Fetch", {4}, 0, 0)}

\* Virtual accesses: pages of 16 bytes with two entries each, one page of
\* devices and pages 1 to 4 of memory; page 1 is the root.
Pte(frame, flags) == flags \cup ShiftLeft(ToBits(frame), 10)
Pointer == {0}
Leaf == {0, 1, 2, 6, 7}
Clean == {0, 1, 6}
Table(e) == [a \in 0..(MemBytes - 1) |->
  LET k == a \div 8 IN IF k \in DOMAIN e THEN ByteOf(e[k], a % 8) ELSE {}]

MCVirtualMemories ==
  {\* Three levels down to pages 4 and 3, page 3 being the last table itself.
   Table(0 :> Pte(2, Pointer) @@ 2 :> Pte(3, Pointer) @@ 4 :> Pte(4, Leaf) @@ 5 :> Pte(3, Leaf)),
   \* A superpage of pages 2 and 3, and a misaligned one.
   Table(0 :> Pte(2, Pointer) @@ 2 :> Pte(2, Leaf) @@ 3 :> Pte(3, Leaf) @@ 1 :> Pte(4, Clean)),
   \* The largest page, and an entry that refers to its own table.
   Table(0 :> Pte(0, Leaf) @@ 1 :> Pte(1, Pointer))}
MCVirtualRegs == {[r \in MCXRegs |->
   CASE r = 2 -> a [] r = 3 -> v [] r = 1 -> {4} [] OTHER -> {}] :
     a \in {ToBits(0), ToBits(24), ToBits(32)},
     v \in {Pte(4, Clean), Pte(2, Leaf), Pte(4, Leaf)}}
MCVirtual ==
  {I(n, {}, 2, 3) : n \in {"Sd", "Sb"}} \cup {I(n, {3}, 2, 3) : n \in {"Sd", "Sw"}}
    \cup {I("Sh", {}, 1, 3), I("Ld", {}, 1, 2), I("Sd", {5}, 2, 3), I("Sd", {3}, 1, 3)}
    \cup {I("Fetch", ToBits(14), 0, 0), I("Satp", {63} \cup ToBits(3), 0, 0), I("Satp", {62}, 0, 0)}

MCStarts ==
  {[mode |-> Machine, mem |-> MCZeroMemory, x |-> x, satp |-> {}] : x \in MCRegisters}
    \cup {[mode |-> Supervisor, mem |-> mem, x |-> x, satp |-> satp] :
            mem \in MCVirtualMemories, x \in MCVirtualRegs, satp \in {{63} \cup ToBits(1)}}
    \cup {[mode |-> Supervisor, mem |-> mem, x |-> x, satp |-> {}] :
            mem \in MCVirtualMemories, x \in {y \in MCVirtualRegs : y[2] = {} /\ y[3] = Pte(4, Leaf)}}
MCInstrs == Machine :> MCPhysical @@ Supervisor :> MCVirtual
==============================================================================
