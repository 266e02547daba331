---------------------------- MODULE CSRegisters -----------------------------
(***************************************************************************)
(* The control and status registers of the RISC-V hart                      *)
(* (src/risc_v/interpreter/src/machine_state/csregisters.rs and its         *)
(* submodules fields, xstatus and satp).                                    *)
(*                                                                          *)
(* A value is the set of the positions of its one bits, so the mask         *)
(* operations &, | and & ! of the code are \cap, \cup and \.  A register is *)
(* its index.  The registers are a function csr from indices to values.     *)
(***************************************************************************)
EXTENDS Integers, Sequences, SequencesExt

None == <<>>
Some(x) == <<x>>

------------------------------------------------------------------------------
(* 64-bit words as the sets of the positions of their one bits, and the     *)
(* operations of u64 and i64 the interpreter uses on them.                  *)

AllBits == 0..63

ones(n) == 0..(n - 1)

\* n ones shifted left by k.
OnesAt(n, k) == k..(k + n - 1)

ShiftLeft(v, k) == {b + k : b \in v} \cap AllBits
ShiftRight(v, k) == {b - k : b \in {c \in v : c >= k}}

\* The number with these bits; only used below 2^31.
ToNumber(v) ==
  LET sum[k \in 0..31] == IF k = 0 THEN 0 ELSE sum[k - 1] + (IF k - 1 \in v THEN 2^(k - 1) ELSE 0)
  IN sum[31]

ToBits(n) == {b \in 0..30 : (n \div 2^b) % 2 = 1}

\* Position i receives a carry: a pair of ones below, and only ones of one
\* operand in between.
Carries(a, b) ==
  {i \in AllBits : \E j \in a \cap b : j < i /\ (j + 1)..(i - 1) \subseteq a \cup b}

Xor(a, b) == (a \ b) \cup (b \ a)

Add(a, b) == Xor(Xor(a, b), Carries(a, b))

\* The highest position where they differ is a one of b.
LessU(a, b) == \E i \in b \ a : \A j \in a \ b : j < i

LessS(a, b) == LessU(Xor(a, {63}), Xor(b, {63}))

Flip(a) == AllBits \ a

\* Two's complement of the low n bits, extended to the word.
SignExtend(v, n) == IF n - 1 \in v THEN v \cup (n..63) ELSE v

------------------------------------------------------------------------------
(* enum CSRegister: the indices, in the order of the declaration where the  *)
(* order is used.                                                           *)

UnprivilegedRegs == [fflags |-> \h001, frm |-> \h002, fcsr |-> \h003]

Counters == \hC00..\hC1F                     \* cycle, time, instret, hpmcounter3..31

SupervisorRegs ==
  [sstatus |-> \h100, sie |-> \h104, stvec |-> \h105, scounteren |-> \h106,
   senvcfg |-> \h10A, sscratch |-> \h140, sepc |-> \h141, scause |-> \h142,
   stval |-> \h143, sip |-> \h144, satp |-> \h180]

\* scontext and the hypervisor and virtual supervisor registers.
UnsupportedRegs ==
  {\h5A8, \h600, \h602, \h603, \h604, \h606, \h607, \h643, \h644, \h645, \h64A, \hE12,
   \h60A, \h680, \h6A8, \h605, \h200, \h204, \h205, \h240, \h241, \h242, \h243, \h244, \h280}

MachineInfo == \hF11..\hF15                  \* mvendorid .. mconfigptr

MachineRegs ==
  [mstatus |-> \h300, misa |-> \h301, medeleg |-> \h302, mideleg |-> \h303,
   mie |-> \h304, mtvec |-> \h305, mcounteren |-> \h306, mscratch |-> \h340,
   mepc |-> \h341, mcause |-> \h342, mtval |-> \h343, mip |-> \h344,
   mtinst |-> \h34A, mtval2 |-> \h34B, menvcfg |-> \h30A, mseccfg |-> \h747]

PmpRegs == {\h3A0 + 2 * i : i \in 0..7} \cup (\h3B0..\h3EF)   \* pmpcfg, pmpaddr

NonMaskableRegs == [mnscratch |-> \h740, mnepc |-> \h741, mncause |-> \h742, mnstatus |-> \h744]

MachineCounters == {\hB00, \hB02} \cup (\hB03..\hB1F)         \* mcycle, minstret, mhpmcounter
MachineEvents == {\h320} \cup (\h323..\h33F)                   \* mcountinhibit, mhpmevent
DebugRegs == {\h7A0, \h7A1, \h7A2, \h7A3, \h7A5, \h7A8, \h7B0, \h7B1, \h7B2, \h7B3}

R == UnprivilegedRegs @@ SupervisorRegs @@ MachineRegs @@ NonMaskableRegs

CSRegister ==
  {R[n] : n \in DOMAIN R} \cup Counters \cup UnsupportedRegs \cup MachineInfo \cup PmpRegs
    \cup MachineCounters \cup MachineEvents \cup DebugRegs

try_parse_csregister(r) == IF r \in CSRegister THEN Some(r) ELSE None

\* Privilege::{Unprivileged, Supervisor, Hypervisor, Machine}, by bits 9 and 8.
privilege(reg) == (reg \div \h100) % 4

is_read_only(reg) == reg \div \h400 = 3

------------------------------------------------------------------------------
(* Fields (fields.rs, xstatus.rs, satp.rs).  A field is [offset, width]; its *)
(* raw value is the set of its bits, shifted down to 0.                      *)

FieldProps(o, w) == [offset |-> o, width |-> w]

field_mask(f) == OnesAt(f.width, f.offset)

get_field(v, f) == ShiftRight(v \cap field_mask(f), f.offset)

\* The old bits of the field kept under the new ones.
set_field_or(v, f, raw) == v \cup ShiftLeft(raw \cap ones(f.width), f.offset)

set_field(v, f, raw) == (v \ field_mask(f)) \cup ShiftLeft(raw \cap ones(f.width), f.offset)

Flag(b) == IF b THEN {0} ELSE {}

SD == FieldProps(63, 1)
MBE == FieldProps(37, 1)
SBE == FieldProps(36, 1)
SXL == FieldProps(34, 2)
UXL == FieldProps(32, 2)
TSR == FieldProps(22, 1)
TW == FieldProps(21, 1)
TVM == FieldProps(20, 1)
MXR == FieldProps(19, 1)
SUM == FieldProps(18, 1)
MPRV == FieldProps(17, 1)
XS == FieldProps(15, 2)
FS == FieldProps(13, 2)
MPP == FieldProps(11, 2)
VS == FieldProps(9, 2)
SPP == FieldProps(8, 1)
MPIE == FieldProps(7, 1)
UBE == FieldProps(6, 1)
SPIE == FieldProps(5, 1)
MIE == FieldProps(3, 1)
SIE == FieldProps(1, 1)
MNPP == FieldProps(11, 2)
MNPV == FieldProps(7, 1)
NMIE == FieldProps(3, 1)

\* A Mode is the number of its privilege.
User == 0
Supervisor == 1
Machine == 3

Modes == {User, Supervisor, Machine}

\* Mode::try_from on a raw value.
ModeOf(raw) == ToNumber(raw)

\* MPPValue::new: the invalid value 10 is User.
MPPValue(raw) == IF raw = {1} THEN User ELSE ModeOf(raw)

\* SPPValue::new, on one bit.
SPPValue(raw) == ModeOf(raw)

get_flag(v, f) == get_field(v, f) # {}
set_flag(v, f, b) == set_field(v, f, Flag(b))
get_MPP(v) == MPPValue(get_field(v, MPP))
set_MPP(v, m) == set_field(v, MPP, ToBits(m))
get_SPP(v) == SPPValue(get_field(v, SPP))
set_SPP(v, m) == set_field(v, SPP, ToBits(m))

\* XLenValue::MXL64, and ExtensionValue::{Initial, Dirty}.
MXL64 == {1}
Initial == {0}
Dirty == {0, 1}

SSTATUS_FIELDS_MASK ==
  UNION {field_mask(f) : f \in {SD, UXL, MXR, SUM, XS, FS, VS, SPP, UBE, SPIE, SIE}}

MSTATUS_FIELDS_MASK ==
  SSTATUS_FIELDS_MASK
    \cup UNION {field_mask(f) : f \in {MBE, SBE, SXL, TSR, TW, TVM, MPRV, MPP, MPIE, MIE}}

apply_warl_sstatus(v) ==
  set_field(set_flag(v, SD, \E f \in {XS, FS, VS} : get_field(v, f) = Dirty), UXL, MXL64)

WithSXL(v) == set_field(v, SXL, MXL64)

\* The mode is read and written back, which replaces an invalid one.
WithValidMode(v, f) == set_field(v, f, ToBits(MPPValue(get_field(v, f))))

apply_warl_mstatus(v) == WithValidMode(WithSXL(apply_warl_sstatus(v)), MPP)

apply_warl_mnstatus(v) == WithValidMode(set_flag(set_flag(v, MNPV, FALSE), NMIE, TRUE), MNPP)

sstatus_from_mstatus(v) == v \cap SSTATUS_FIELDS_MASK

\* satp: MODE is Some(<<"Bare">>), Some(<<"Sv", levels>>) or None.
SATP_MODE == FieldProps(60, 4)
SATP_ASID == FieldProps(44, 16)
SATP_PPN == FieldProps(0, 44)

TranslationAlgorithm(raw) ==
  CASE raw = {} -> Some(<<"Bare">>)
    [] raw = ToBits(8) -> Some(<<"Sv", "Sv39">>)
    [] raw = ToBits(9) -> Some(<<"Sv", "Sv48">>)
    [] raw = ToBits(10) -> Some(<<"Sv", "Sv57">>)
    [] OTHER -> None

get_MODE(v) == TranslationAlgorithm(get_field(v, SATP_MODE))

------------------------------------------------------------------------------
(* Interrupts (traps.rs), by exception code.                                *)

SUPERVISOR_BIT_MASK == {1, 5, 9}             \* software, timer, external
MACHINE_BIT_MASK == {3, 7, 11}

------------------------------------------------------------------------------
(* Which values a write may store.                                          *)

WPRI_MSTATUS == {0, 2, 4} \cup OnesAt(9, 23) \cup OnesAt(25, 38)
WPRI_MENVCFG == OnesAt(3, 1) \cup OnesAt(54, 8)
WPRI_MSECCFG == OnesAt(5, 3) \cup OnesAt(54, 10)
WPRI_SSTATUS ==
  {0, 7, 17} \cup OnesAt(3, 2) \cup OnesAt(2, 11) \cup OnesAt(12, 20) \cup OnesAt(29, 34)
WPRI_SENVCFG == OnesAt(3, 1) \cup OnesAt(56, 8)
WPRI_MNCAUSE == {63}
WPRI_MNSTATUS == OnesAt(3, 0) \cup OnesAt(3, 4) \cup OnesAt(3, 8) \cup OnesAt(51, 13)

\* The reserved bits of a register: the complement of wpri_mask.
wpri_fields(reg) ==
  CASE reg = R.mstatus -> WPRI_MSTATUS
    [] reg = R.menvcfg -> WPRI_MENVCFG
    [] reg = R.mseccfg -> WPRI_MSECCFG
    [] reg = R.sstatus -> WPRI_SSTATUS
    [] reg = R.senvcfg -> WPRI_SENVCFG
    [] reg = R.mncause -> WPRI_MNCAUSE
    [] reg = R.mnstatus -> WPRI_MNSTATUS
    [] OTHER -> {}

clear_wpri_fields(reg, v) == v \ wpri_fields(reg)

Interrupts(codes) == {ToBits(c) \cup {63} : c \in codes}
Exceptions(codes) == {ToBits(c) : c \in codes}

WLRL_MCAUSE_VALUES ==
  Interrupts({1, 3, 5, 7, 9, 11}) \cup Exceptions((0..9) \cup {11, 12, 13, 15})

WLRL_SCAUSE_VALUES == Interrupts({1, 5, 9}) \cup Exceptions((0..9) \cup {12, 13, 15})

\* Registers with no legal values listed take all of them.
legal_values(reg) ==
  CASE reg = R.mcause -> WLRL_MCAUSE_VALUES
    [] reg = R.scause -> WLRL_SCAUSE_VALUES
    [] OTHER -> {}

is_legal(reg, v) == legal_values(reg) = {} \/ v \in legal_values(reg)

\* MXL, then the extensions A C D I M S U.
WARL_MISA_VALUE == {63, 0, 2, 3, 8, 12, 18, 20}

WARL_MASK_MEDELEG == AllBits \ ({10, 11, 14} \cup OnesAt(48, 16))
WARL_MASK_MIDELEG == AllBits \ ({0, 2, 4, 6, 8, 10} \cup OnesAt(4, 12) \cup OnesAt(48, 16))
WARL_MASK_XTVEC == AllBits \ {1}
WARL_MASK_MIP_MIE == MACHINE_BIT_MASK \cup SUPERVISOR_BIT_MASK
WARL_MASK_SIP_SIE == SUPERVISOR_BIT_MASK
WARL_MASK_XEPC == AllBits \ {0}
FRM_SHIFT == 5
FRM_MASK == OnesAt(3, FRM_SHIFT)
FFLAGS_MASK == ones(5)
FCSR_MASK == FRM_MASK \cup FFLAGS_MASK

\* Any mode of satp is stored.
warl_satp_any(v) == Some(v)

\* An unsupported mode makes the write do nothing; Bare clears every field.
warl_satp(v) ==
  CASE get_MODE(v) = None -> None
    [] get_MODE(v) = Some(<<"Bare">>) -> Some({})
    [] OTHER -> Some(v)

transform_warl_fields(reg, v) ==
  CASE reg = R.misa -> Some(WARL_MISA_VALUE)
    [] reg = R.medeleg -> Some(v \cap WARL_MASK_MEDELEG)
    [] reg = R.mideleg -> Some(v \cap WARL_MASK_MIDELEG)
    [] reg \in {R.mtvec, R.stvec} -> Some(v \cap WARL_MASK_XTVEC)
    [] reg \in {R.mip, R.mie} -> Some(v \cap WARL_MASK_MIP_MIE)
    [] reg \in {R.sip, R.sie} -> Some(v \cap WARL_MASK_SIP_SIE)
    [] reg \in {R.mepc, R.sepc, R.mnepc} -> Some(v \cap WARL_MASK_XEPC)
    [] reg = R.satp -> warl_satp(v)
    [] reg = R.mstatus -> Some(apply_warl_mstatus(v))
    [] reg = R.sstatus -> Some(apply_warl_sstatus(v))
    [] reg = R.mnstatus -> Some(apply_warl_mnstatus(v))
    [] OTHER -> Some(v)

WhenLegal(reg, w) == IF w = None THEN None ELSE IF is_legal(reg, w[1]) THEN w ELSE None

make_value_writable(reg, v) ==
  WhenLegal(reg, transform_warl_fields(reg, clear_wpri_fields(reg, v)))

------------------------------------------------------------------------------
(* CSRegisters: reading and writing.  sstatus, sip, sie, frm and fflags are  *)
(* views of other registers.                                                 *)

\* The registers each view shows.
ground_truth(reg) ==
  CASE reg = R.sstatus -> R.mstatus
    [] reg = R.sip -> R.mip
    [] reg = R.sie -> R.mie
    [] reg \in {R.fflags, R.frm} -> R.fcsr
    [] OTHER -> reg

\* A view written over the whole register it shows.
Merge_all(old, new, mask) == new \cap mask

\* The bits of the mask from new, the others from old.
Merge(old, new, mask) == (new \cap mask) \cup (old \ mask)

transform_write(csr, reg, v) ==
  CASE reg = R.sstatus -> Merge(csr[R.mstatus], v, SSTATUS_FIELDS_MASK)
    [] reg = R.sip -> Merge(csr[R.mip], v, WARL_MASK_SIP_SIE)
    [] reg = R.sie -> Merge(csr[R.mie], v, WARL_MASK_SIP_SIE)
    [] reg = R.fcsr -> v \cap FCSR_MASK
    [] reg = R.frm -> Merge(csr[R.fcsr], ShiftLeft(v, FRM_SHIFT), FRM_MASK)
    [] reg = R.fflags -> Merge(csr[R.fcsr], v, FFLAGS_MASK)
    [] OTHER -> v

\* source is the value of ground_truth(reg).
transform_read(reg, source) ==
  CASE reg = R.sstatus -> sstatus_from_mstatus(source)
    [] reg \in {R.sip, R.sie} -> source \cap WARL_MASK_SIP_SIE
    [] reg = R.fcsr -> source \cap FCSR_MASK
    [] reg = R.frm -> ShiftRight(source \cap FRM_MASK, FRM_SHIFT)
    [] reg = R.fflags -> source \cap FFLAGS_MASK
    [] OTHER -> source

StoreWritable(csr, reg, w) ==
  IF w = None THEN csr
  ELSE [csr EXCEPT ![ground_truth(reg)] = transform_write(csr, reg, w[1])]

csr_write(csr, reg, v) == StoreWritable(csr, reg, make_value_writable(reg, v))

csr_read(csr, reg) == transform_read(reg, csr[ground_truth(reg)])

\* The operations that also return the old value: <<csr, old>>.
replace(csr, reg, v) == <<csr_write(csr, reg, v), csr_read(csr, reg)>>
set_bits(csr, reg, v) == <<csr_write(csr, reg, csr_read(csr, reg) \cup v), csr_read(csr, reg)>>
clear_bits(csr, reg, v) == <<csr_write(csr, reg, csr_read(csr, reg) \ v), csr_read(csr, reg)>>

------------------------------------------------------------------------------
(* Default values, and reset.                                               *)

\* Interrupts off, previous mode supervisor, extensions initial, 64 bits, SUM.
default_mstatus ==
  UNION {field_mask(SUM), ShiftLeft(ToBits(Supervisor), SPP.offset),
         ShiftLeft(ToBits(Supervisor), MPP.offset),
         UNION {ShiftLeft(Initial, f.offset) : f \in {VS, FS, XS}},
         UNION {ShiftLeft(MXL64, f.offset) : f \in {UXL, SXL}}}

CountersDefaultZero == Counters \cup MachineCounters
EventsDefaultZero == MachineEvents
PmpDefaultZero == PmpRegs
FloatDefaultZero == {R.fflags, R.frm, R.fcsr}
UnsupportedDefaultZero == UnsupportedRegs \cup DebugRegs
OthersDefaultZero ==
  MachineInfo \cup {R.mnscratch, R.mnepc, R.mscratch, R.sscratch, R.stvec, R.mtvec, R.sie,
    R.mie, R.satp, R.scause, R.mcause, R.sepc, R.mepc, R.stval, R.mtval, R.mtval2, R.sip,
    R.mip, R.mtinst, R.senvcfg, R.menvcfg, R.mseccfg}

DefaultZero == UNION {CountersDefaultZero, EventsDefaultZero, PmpDefaultZero,
                      FloatDefaultZero, UnsupportedDefaultZero, OthersDefaultZero}

default_value(reg) ==
  CASE reg \in DefaultZero -> {}
    [] reg = R.mnstatus -> apply_warl_mnstatus({})
    [] reg = R.mncause -> {31}
    [] reg \in {R.scounteren, R.mcounteren} -> ones(32)
    [] reg = R.misa -> WARL_MISA_VALUE
    [] reg = R.sstatus -> sstatus_from_mstatus(default_mstatus)
    [] reg = R.mstatus -> default_mstatus
    [] reg \in {R.medeleg, R.mideleg} -> AllBits

\* Every register is written with its default, a view always before the
\* register it shows or with the same default, so the views leave no trace.
\* A write that stores nothing leaves the zero of fresh memory.
csr_reset(regs) ==
  LET fresh == [reg \in regs |-> {}]
  IN [reg \in regs |-> csr_write(fresh, reg, default_value(reg))[reg]]

------------------------------------------------------------------------------
(* Interrupts and traps.                                                    *)

possible_interrupts(csr, mode) ==
  CASE mode = User -> SUPERVISOR_BIT_MASK \cup MACHINE_BIT_MASK
    [] mode = Supervisor ->
         (IF get_flag(csr_read(csr, R.mstatus), SIE) THEN csr_read(csr, R.sie) ELSE {})
           \cup MACHINE_BIT_MASK
    [] mode = Machine ->
         IF get_flag(csr_read(csr, R.mstatus), MIE) THEN csr_read(csr, R.mie) ELSE {}

get_trap_mode(csr, interrupt, code, mode) ==
  IF mode <= Supervisor
       /\ code \in csr_read(csr, IF interrupt THEN R.mideleg ELSE R.medeleg)
  THEN Supervisor ELSE Machine

\* Machine registers open to the supervisor.
check_privilege_any(reg, mode) == mode >= privilege(reg) % 3

check_privilege(reg, mode) == mode >= privilege(reg)
check_write(reg) == ~is_read_only(reg)
==============================================================================
