------------------------------ MODULE RVParser ------------------------------
(***************************************************************************)
(* The instruction decoder of the RISC-V interpreter                        *)
(* (src/risc_v/interpreter/src/parser.rs, parser/instruction.rs).           *)
(*                                                                          *)
(* An instruction word is the set of the positions of its one bits, an      *)
(* immediate the set of those of an i64.  An instruction is its name and    *)
(* the record of its arguments.                                             *)
(***************************************************************************)
EXTENDS CSRegisters

CONSTANTS
  Halves,      \* the halfwords an instruction may begin with
  UpperHalves, \* those that may come second
  MaxHalves    \* bound on the halfwords read

VARIABLES
  pending,     \* the halfword read that waits for its upper half, if any
  word,        \* the word decoded last, none after a compressed instruction
  last,        \* the instruction decoded last
  halves,      \* halfwords read
  advanced     \* the widths of the instructions decoded, added up
vars == <<pending, word, last, halves, advanced>>

------------------------------------------------------------------------------
(* The fields of a word.                                                    *)

bits(i, pos, n) == ToNumber(ShiftRight(i \cap OnesAt(n, pos), pos))

bit(i, pos) == pos \in i

opcode(i) == bits(i, 0, 7)
funct3(i) == bits(i, 12, 3)
funct5(i) == bits(i, 27, 5)
funct7(i) == bits(i, 25, 7)

\* parse_xregister and parse_fregister: 32 registers, by number.
parse_xregister(r) == <<"x", r>>
parse_fregister(r) == <<"f", r>>

rd(i) == parse_xregister(bits(i, 7, 5))
rd_f(i) == parse_fregister(bits(i, 7, 5))
rs1_bits(i) == bits(i, 15, 5)
rs1(i) == parse_xregister(rs1_bits(i))
rs1_f(i) == parse_fregister(rs1_bits(i))
rs2_bits(i) == bits(i, 20, 5)
rs2(i) == parse_xregister(rs2_bits(i))
rs2_f(i) == parse_fregister(rs2_bits(i))
rs3_f(i) == parse_fregister(funct5(i))
imm_11_6(i) == bits(i, 26, 6) * 2
fm(i) == bits(i, 28, 4)
rm(i) == funct3(i)
fmt(i) == bits(i, 25, 2)
width_bits(i) == bits(i, 12, 3)
csr(i) == try_parse_csregister(bits(i, 20, 12))

------------------------------------------------------------------------------
(* Immediates: segments of the word masked, shifted as i32 and joined.      *)

\* v as i32 >> k
sar(v, k) == ShiftRight(v, k) \cup (IF 31 \in v THEN OnesAt(k, 32 - k) ELSE {})

\* v as i32 << k
sal(v, k) == ShiftLeft(v, k) \cap 0..31

\* v as i64, v an i32
as_i64(v) == v \cup (IF 31 \in v THEN 32..63 ELSE {})

i_imm(i) == as_i64(sar(i \cap 20..31, 20))

s_imm(i) == as_i64(sar(i \cap 25..31, 20) \cup sar(i \cap 7..11, 7))

\* Bit 11 of the offset taken from where the S format has bit 0.
b_imm_as_s(i) == as_i64(sar(i \cap 25..31, 20) \cup sar(i \cap 8..11, 7))

b_imm(i) ==
  as_i64(sar(i \cap {31}, 19) \cup sal(i \cap {7}, 4) \cup sar(i \cap 25..30, 20)
           \cup sar(i \cap 8..11, 7))

u_imm(i) == as_i64(i \cap 12..31)

j_imm(i) ==
  as_i64(sar(i \cap {31}, 11) \cup (i \cap 12..19) \cup sar(i \cap {20}, 9)
           \cup sar(i \cap 21..30, 20))

------------------------------------------------------------------------------
(* The argument formats.                                                    *)

Unknown(i) == <<"Unknown", i>>

r_instr(name, i) == <<name, [rd |-> rd(i), rs1 |-> rs1(i), rs2 |-> rs2(i)]>>

i_instr(name, i) == <<name, [rd |-> rd(i), rs1 |-> rs1(i), imm |-> i_imm(i)]>>

s_instr(name, i) == <<name, [rs1 |-> rs1(i), rs2 |-> rs2(i), imm |-> s_imm(i)]>>

b_instr(name, i) == <<name, [rs1 |-> rs1(i), rs2 |-> rs2(i), imm |-> b_imm(i)]>>

u_instr(name, i) == <<name, [rd |-> rd(i), imm |-> u_imm(i)]>>

j_instr(name, i) == <<name, [rd |-> rd(i), imm |-> j_imm(i)]>>

fl_instr(name, i) == <<name, [rd |-> rd_f(i), rs1 |-> rs1(i), imm |-> i_imm(i)]>>

fs_instr(name, i) == <<name, [rs1 |-> rs1(i), rs2 |-> rs2_f(i), imm |-> s_imm(i)]>>

f_cmp_instr(name, i) == <<name, [rd |-> rd(i), rs1 |-> rs1_f(i), rs2 |-> rs2_f(i)]>>

f_r_instr(name, i) == <<name, [rd |-> rd_f(i), rs1 |-> rs1_f(i), rs2 |-> rs2_f(i)]>>

\* InstrRoundingMode::from_rm: five static modes and the dynamic one.
from_rm(m) == IF m \in 0..4 \cup {7} THEN Some(m) ELSE None

f_r_rm_1_instr(name, i) ==
  IF from_rm(rm(i)) = None THEN Unknown(i)
  ELSE <<name, [rd |-> rd_f(i), rs1 |-> rs1_f(i), rm |-> from_rm(rm(i))]>>

f_r_rm_2_instr(name, i) ==
  IF from_rm(rm(i)) = None THEN Unknown(i)
  ELSE <<name, [rd |-> rd_f(i), rs1 |-> rs1_f(i), rs2 |-> rs2_f(i), rm |-> from_rm(rm(i))]>>

f_r_rm_3_instr(name, i) ==
  IF from_rm(rm(i)) = None THEN Unknown(i)
  ELSE <<name, [rd |-> rd_f(i), rs1 |-> rs1_f(i), rs2 |-> rs2_f(i), rs3 |-> rs3_f(i),
                rm |-> from_rm(rm(i))]>>

f_to_x_instr(name, i) == <<name, [rd |-> rd(i), rs1 |-> rs1_f(i)]>>
x_to_f_instr(name, i) == <<name, [rd |-> rd_f(i), rs1 |-> rs1(i)]>>

fence_instr(name, i) == <<name, [pred |-> i \cap 24..27, succ |-> i \cap 20..23]>>

amo_instr(name, i) ==
  <<name, [rd |-> rd(i), rs1 |-> rs1(i), rs2 |-> rs2(i), aq |-> bit(i, 26), rl |-> bit(i, 25)]>>

csr_instr(name, i) ==
  IF csr(i) = None THEN Unknown(i)
  ELSE <<name, [rd |-> rd(i), rs1 |-> rs1(i), csr |-> csr(i)]>>

csri_instr(name, i) ==
  IF csr(i) = None THEN Unknown(i)
  ELSE <<name, [rd |-> rd(i), imm |-> bits(i, 15, 5), csr |-> csr(i)]>>

------------------------------------------------------------------------------
(* The opcodes, and the names by the other fields.                          *)

OP == [ARITH |-> \b0110011, ARITH_W |-> \b0111011, ARITH_I |-> \b0010011,
       LOAD |-> \b0000011, ARITH_IW |-> \b0011011, SYNCH |-> \b0001111,
       SYS |-> \b1110011, STORE |-> \b0100011, BRANCH |-> \b1100011, LUI |-> \b0110111,
       AUIPC |-> \b0010111, JAL |-> \b1101111, JALR |-> \b1100111, FP |-> \b1010011,
       FP_LOAD |-> \b0000111, FMADD |-> \b1000011, FMSUB |-> \b1000111,
       FNMSUB |-> \b1001011, FNMADD |-> \b1001111, FP_STORE |-> \b0100111,
       AMO |-> \b0101111]

F7 == [n0 |-> 0, n1 |-> 1, n8 |-> \b0001000, n9 |-> \b1001, n20 |-> \b100000,
       n24 |-> \b0011000, n56 |-> \b0111000]

\* Names by funct3, a name for each value from 0 on; "" is no instruction.
ByFunct3(names) == [f \in 0..7 |-> names[f + 1]]

ArithNames ==
  (F7.n0 :> ByFunct3(<<"Add", "Sll", "Slt", "Sltu", "Xor", "Srl", "Or", "And">>))
  @@ (F7.n1 :> ByFunct3(<<"Mul", "Mulh", "Mulhsu", "Mulhu", "Div", "Divu", "Rem", "Remu">>))
  @@ (F7.n20 :> ByFunct3(<<"Sub", "", "", "", "", "Sra", "", "">>))

\* Sllw is decoded whatever funct7 is.
ArithWNames ==
  (F7.n0 :> ByFunct3(<<"Addw", "", "", "", "", "Srlw", "", "">>))
  @@ (F7.n1 :> ByFunct3(<<"Mulw", "", "", "", "Divw", "Divuw", "Remw", "Remuw">>))
  @@ (F7.n20 :> ByFunct3(<<"Subw", "", "", "", "", "Sraw", "", "">>))

ArithINames == ByFunct3(<<"Addi", "Slli", "Slti", "Sltiu", "Xori", "Srli", "Ori", "Andi">>)

LoadNames == ByFunct3(<<"Lb", "Lh", "Lw", "Ld", "Lbu", "Lhu", "Lwu", "">>)

StoreNames == ByFunct3(<<"Sb", "Sh", "Sw", "Sd", "", "", "", "">>)

BranchNames == ByFunct3(<<"Beq", "Bne", "", "", "Blt", "Bge", "Bltu", "Bgeu">>)

CsrNames == ByFunct3(<<"", "Csrrw", "Csrrs", "Csrrc", "", "Csrrwi", "Csrrsi", "Csrrci">>)

AmoNames ==
  (0 :> "Amoaddw") @@ (1 :> "Amoswapw") @@ (4 :> "Amoxorw") @@ (8 :> "Amoorw")
  @@ (12 :> "Amoandw") @@ (16 :> "Amominw") @@ (20 :> "Amomaxw") @@ (24 :> "Amominuw")
  @@ (28 :> "Amomaxuw")

\* SYS with funct3 = 0, by funct7 and rs2; rs1 is 0.
SysNames ==
  (<<F7.n0, 0>> :> "Ecall") @@ (<<F7.n0, 1>> :> "Ebreak") @@ (<<F7.n8, 2>> :> "Sret")
  @@ (<<F7.n8, 5>> :> "Wfi") @@ (<<F7.n24, 2>> :> "Mret") @@ (<<F7.n56, 2>> :> "Mnret")

Lookup(names, key) == IF key \in DOMAIN names THEN names[key] ELSE ""

Lookup2(names, key, f) == IF key \in DOMAIN names THEN names[key][f] ELSE ""

\* A name found gives the instruction in its format.
Known(name, i, instr) == IF name = "" THEN Unknown(i) ELSE instr

------------------------------------------------------------------------------
(* parse_uncompressed_instruction, an operator for each opcode.             *)

parse_arith(i, name) == Known(name, i, r_instr(name, i))

parse_arith_w(i) ==
  IF funct3(i) = 1 THEN r_instr("Sllw", i)
  ELSE parse_arith(i, Lookup2(ArithWNames, funct7(i), funct3(i)))

\* Shifts by an immediate: imm[11:6] says which.
parse_shift(i, logical, arithmetic) ==
  CASE imm_11_6(i) = F7.n0 -> i_instr(logical, i)
    [] imm_11_6(i) = F7.n20 /\ arithmetic # "" -> i_instr(arithmetic, i)
    [] OTHER -> Unknown(i)

parse_arith_i(i) ==
  CASE funct3(i) = 1 -> parse_shift(i, "Slli", "")
    [] funct3(i) = 5 -> parse_shift(i, "Srli", "Srai")
    [] OTHER -> i_instr(ArithINames[funct3(i)], i)

parse_arith_iw(i) ==
  CASE funct3(i) = 0 -> i_instr("Addiw", i)
    [] funct3(i) = 1 -> parse_shift(i, "Slliw", "")
    [] funct3(i) = 5 -> parse_shift(i, "Srliw", "Sraiw")
    [] OTHER -> Unknown(i)

parse_synch(i) ==
  CASE funct3(i) = 0 /\ fm(i) = 0 -> fence_instr("Fence", i)
    [] funct3(i) = 0 /\ fm(i) = 8 -> fence_instr("FenceTso", i)
    [] funct3(i) = 1 -> <<"FenceI", <<>>>>
    [] OTHER -> Unknown(i)

parse_sys(i, name) ==
  CASE funct3(i) = 0 /\ funct7(i) = F7.n9 ->
         <<"SFenceVma", [vaddr |-> rs1(i), asid |-> rs2(i)]>>
    [] funct3(i) = 0 /\ funct7(i) # F7.n9 ->
         IF rs1_bits(i) # 0 THEN Unknown(i) ELSE Known(name, i, <<name, <<>>>>)
    [] funct3(i) \in 1..3 -> csr_instr(CsrNames[funct3(i)], i)
    [] funct3(i) \in 5..7 -> csri_instr(CsrNames[funct3(i)], i)
    [] OTHER -> Unknown(i)

parse_amo(i, name) ==
  IF funct3(i) # 2 THEN Unknown(i) ELSE Known(name, i, amo_instr(name, i))

\* OP_FP of one format: p ends the names, the three that follow are of moves
\* and of the classification.
parse_fp(i, p, fmv_to_x, fclass, fmv_from_x) ==
  LET f5 == funct5(i)
      nm(n) == n \o p
  IN CASE f5 \in 0..3 -> f_r_rm_2_instr(nm(<<"Fadd", "Fsub", "Fmul", "Fdiv">>[f5 + 1]), i)
       [] f5 = 4 /\ rm(i) \in 0..2 -> f_r_instr(nm(<<"Fsgnj", "Fsgnjn", "Fsgnjx">>[rm(i) + 1]), i)
       [] f5 = 5 /\ rm(i) \in 0..1 -> f_r_instr(nm(<<"Fmin", "Fmax">>[rm(i) + 1]), i)
       [] f5 = 11 /\ rs2_bits(i) = 0 -> f_r_rm_1_instr(nm("Fsqrt"), i)
       [] f5 = 20 /\ rm(i) \in 0..2 -> f_cmp_instr(nm(<<"Fle", "Flt", "Feq">>[rm(i) + 1]), i)
       [] f5 = 28 /\ rm(i) \in 0..1 /\ rs2_bits(i) = 0 ->
            f_to_x_instr(<<fmv_to_x, fclass>>[rm(i) + 1], i)
       [] f5 = 30 /\ rm(i) = 0 /\ rs2_bits(i) = 0 -> x_to_f_instr(fmv_from_x, i)
       [] OTHER -> Unknown(i)

\* The fused operations, by format.
parse_fused(i, single, double) ==
  CASE fmt(i) = 0 -> f_r_rm_3_instr(single, i)
    [] fmt(i) = 1 -> f_r_rm_3_instr(double, i)
    [] OTHER -> Unknown(i)

parse_uncompressed_instruction(i) ==
  LET op == opcode(i)
      f3 == funct3(i)
  IN CASE op = OP.ARITH -> parse_arith(i, Lookup2(ArithNames, funct7(i), f3))
       [] op = OP.ARITH_W -> parse_arith_w(i)
       [] op = OP.ARITH_I -> parse_arith_i(i)
       [] op = OP.LOAD -> Known(LoadNames[f3], i, i_instr(LoadNames[f3], i))
       [] op = OP.ARITH_IW -> parse_arith_iw(i)
       [] op = OP.SYNCH -> parse_synch(i)
       [] op = OP.SYS -> parse_sys(i, Lookup(SysNames, <<funct7(i), rs2_bits(i)>>))
       [] op = OP.AMO -> parse_amo(i, Lookup(AmoNames, funct5(i)))
       [] op = OP.STORE -> Known(StoreNames[f3], i, s_instr(StoreNames[f3], i))
       [] op = OP.BRANCH -> Known(BranchNames[f3], i, b_instr(BranchNames[f3], i))
       [] op = OP.LUI -> u_instr("Lui", i)
       [] op = OP.AUIPC -> u_instr("Auipc", i)
       [] op = OP.FP /\ fmt(i) = 0 -> parse_fp(i, "s", "FmvXW", "FclassS", "FmvWX")
       [] op = OP.FP /\ fmt(i) = 1 -> parse_fp(i, "d", "FmvXD", "FclassD", "FmvDX")
       [] op = OP.FMADD -> parse_fused(i, "Fmadds", "Fmaddd")
       [] op = OP.FMSUB -> parse_fused(i, "Fmsubs", "Fmsubd")
       [] op = OP.FNMSUB -> parse_fused(i, "Fnmsubs", "Fnmsubd")
       [] op = OP.FNMADD -> parse_fused(i, "Fnmadds", "Fnmaddd")
       [] op = OP.FP_LOAD /\ width_bits(i) = 2 -> fl_instr("Flw", i)
       [] op = OP.FP_LOAD /\ width_bits(i) = 3 -> fl_instr("Fld", i)
       [] op = OP.FP_STORE /\ width_bits(i) = 2 -> fs_instr("Fsw", i)
       [] op = OP.FP_STORE /\ width_bits(i) = 3 -> fs_instr("Fsd", i)
       [] op = OP.JAL -> j_instr("Jal", i)
       [] op = OP.JALR /\ f3 = 0 -> i_instr("Jalr", i)
       [] OTHER -> Unknown(i)

parse_compressed_instruction(h) == <<"UnknownCompressed", h>>

width(instr) == IF instr[1] = "UnknownCompressed" THEN 2 ELSE 4

------------------------------------------------------------------------------
(* enum Instr: the names, with the arguments each takes.                    *)

XRegister == {<<"x", r>> : r \in 0..31}
FRegister == {<<"f", r>> : r \in 0..31}
I64 == SUBSET AllBits
InstrRoundingMode == {<<m>> : m \in 0..4 \cup {7}}

RTypeArgs == [rd : XRegister, rs1 : XRegister, rs2 : XRegister]
ITypeArgs == [rd : XRegister, rs1 : XRegister, imm : I64]
SBTypeArgs == [rs1 : XRegister, rs2 : XRegister, imm : I64]
UJTypeArgs == [rd : XRegister, imm : I64]
CsrArgs == [rd : XRegister, rs1 : XRegister, csr : {Some(c) : c \in CSRegister}]
CsriArgs == [rd : XRegister, imm : 0..31, csr : {Some(c) : c \in CSRegister}]
FenceArgs == [pred : SUBSET (24..27), succ : SUBSET (20..23)]
FRegToXRegArgs == [rd : XRegister, rs1 : FRegister]
XRegToFRegArgs == [rd : FRegister, rs1 : XRegister]
FCmpArgs == [rd : XRegister, rs1 : FRegister, rs2 : FRegister]
FRArgs == [rd : FRegister, rs1 : FRegister, rs2 : FRegister]
FR1ArgWithRounding == [rd : FRegister, rs1 : FRegister, rm : InstrRoundingMode]
FR2ArgsWithRounding ==
  [rd : FRegister, rs1 : FRegister, rs2 : FRegister, rm : InstrRoundingMode]
FR3ArgsWithRounding ==
  [rd : FRegister, rs1 : FRegister, rs2 : FRegister, rs3 : FRegister, rm : InstrRoundingMode]
FStoreArgs == [rs1 : XRegister, rs2 : FRegister, imm : I64]
FLoadArgs == [rd : FRegister, rs1 : XRegister, imm : I64]
AmoArgs == [rd : XRegister, rs1 : XRegister, rs2 : XRegister, aq : BOOLEAN, rl : BOOLEAN]

RTypeNames ==
  {"Add", "Sub", "Xor", "Or", "And", "Sll", "Srl", "Sra", "Slt", "Sltu", "Addw", "Subw",
   "Sllw", "Srlw", "Sraw", "Rem", "Remu", "Remw", "Remuw", "Div", "Divu", "Divw", "Divuw",
   "Mul", "Mulh", "Mulhsu", "Mulhu", "Mulw"}
ITypeNames ==
  {"Addi", "Addiw", "Xori", "Ori", "Andi", "Slli", "Srli", "Srai", "Slliw", "Srliw",
   "Sraiw", "Slti", "Sltiu", "Lb", "Lh", "Lw", "Lbu", "Lhu", "Lwu", "Ld", "Jalr"}
AmoTypeNames == {"Amoswapw", "Amoaddw", "Amoxorw", "Amoandw", "Amoorw", "Amominw",
                 "Amomaxw", "Amominuw", "Amomaxuw"}
InBothFormats(names) == {n \o "s" : n \in names} \cup {n \o "d" : n \in names}

Instr(name, args) ==
  CASE name \in RTypeNames -> args \in RTypeArgs
    [] name \in ITypeNames -> args \in ITypeArgs
    [] name \in {"Fence", "FenceTso"} -> args \in FenceArgs
    [] name \in {"Sb", "Sh", "Sw", "Sd", "Beq", "Bne", "Blt", "Bge", "Bltu", "Bgeu"} ->
         args \in SBTypeArgs
    [] name \in {"Lui", "Auipc", "Jal"} -> args \in UJTypeArgs
    [] name \in AmoTypeNames -> args \in AmoArgs
    [] name \in {"FclassS", "FclassD", "FmvXW", "FmvXD"} -> args \in FRegToXRegArgs
    [] name \in {"FmvWX", "FmvDX"} -> args \in XRegToFRegArgs
    [] name \in InBothFormats({"Feq", "Fle", "Flt"}) -> args \in FCmpArgs
    [] name \in InBothFormats({"Fadd", "Fsub", "Fmul", "Fdiv"}) -> args \in FR2ArgsWithRounding
    [] name \in InBothFormats({"Fsqrt"}) -> args \in FR1ArgWithRounding
    [] name \in InBothFormats({"Fmin", "Fmax", "Fsgnj", "Fsgnjn", "Fsgnjx"}) -> args \in FRArgs
    [] name \in InBothFormats({"Fmadd", "Fmsub", "Fnmsub", "Fnmadd"}) ->
         args \in FR3ArgsWithRounding
    [] name \in {"Flw", "Fld"} -> args \in FLoadArgs
    [] name \in {"Fsw", "Fsd"} -> args \in FStoreArgs
    [] name \in {"Csrrw", "Csrrs", "Csrrc"} -> args \in CsrArgs
    [] name \in {"Csrrwi", "Csrrsi", "Csrrci"} -> args \in CsriArgs
    [] name \in {"Ecall", "Ebreak", "FenceI", "Mret", "Sret", "Mnret", "Wfi"} -> args = <<>>
    [] name = "SFenceVma" -> args \in [asid : XRegister, vaddr : XRegister]
    [] name = "Unknown" -> args \in SUBSET (0..31)
    [] name = "UnknownCompressed" -> args \in SUBSET (0..15)
    [] OTHER -> FALSE

------------------------------------------------------------------------------
(* parse, called again and again on a stream of halfwords, as               *)
(* instr_iter_from_u16_iter and MachineState::fetch_instr do.               *)

Init == pending = None /\ word = None /\ last = None /\ halves = 0 /\ advanced = 0

is_compressed(h) == ~({0, 1} \subseteq h)

\* The end of parse: one more instruction.
Decoded(w, instr) ==
  /\ word' = w
  /\ last' = Some(instr)
  /\ advanced' = advanced + width(instr)
  /\ pending' = None

Read == halves < MaxHalves /\ halves' = halves + 1

ReadCompressed(h) ==
  /\ Read /\ pending = None /\ is_compressed(h)
  /\ Decoded(None, parse_compressed_instruction(h))

\* A word begins, and `more' is called for its upper half.
ReadLower(h) ==
  /\ Read /\ pending = None /\ ~is_compressed(h)
  /\ pending' = Some(h)
  /\ word' = None /\ last' = None
  /\ UNCHANGED advanced

ReadUpper(h) ==
  /\ Read /\ pending # None
  /\ \E w \in {ShiftLeft(h, 16) \cup pending[1]} :
       Decoded(Some(w), parse_uncompressed_instruction(w))

Next == \/ \E h \in Halves : ReadCompressed(h) \/ ReadLower(h)
        \/ \E h \in UpperHalves : ReadUpper(h)

Spec == Init /\ [][Next]_vars

------------------------------------------------------------------------------
(* Properties.                                                              *)

\* What is decoded is an instruction of enum Instr, with the arguments its
\* variant takes (instruction.rs).
TypeOK ==
  /\ last # None => Instr(last[1][1], last[1][2])
  /\ pending \in {None} \cup {Some(h) : h \in Halves}
  /\ halves \in 0..MaxHalves /\ advanced \in Nat

\* The program counter, which goes on by the widths of the instructions
\* decoded, stays at the first halfword not yet read, so no byte of code is
\* decoded twice or skipped (instruction.rs, width; parser.rs, parse).
PcFollowsReads == advanced + (IF pending = None THEN 0 ELSE 2) = 2 * halves

\* The bits of a word its instruction does not depend on.
DontCare(name) ==
  CASE name = "Sllw" -> 25..31
    [] name = "FenceI" -> 7..11 \cup 15..31
    [] name \in {"Fence", "FenceTso"} -> 7..11 \cup 15..19
    [] name \in {"Ecall", "Ebreak", "Sret", "Mret", "Mnret", "Wfi", "SFenceVma"} -> 7..11
    [] OTHER -> {}

FlipBit(w, b) == IF b \in w THEN w \ {b} ELSE w \cup {b}

\* No two words that differ in one bit are decoded as the same instruction
\* with the same arguments, but for the bits listed, which are the only ones
\* that the decoder ignores (parser.rs, parse_uncompressed_instruction).
EveryBitMatters ==
  word # None =>
    \A b \in 0..31 :
      (parse_uncompressed_instruction(FlipBit(word[1], b)) = last[1]) <=> (b \in DontCare(last[1][1]))

\* The number an i64 with these bits is.
Value(imm) == (ToNumber(imm \cap 0..30) - (IF 63 \in imm THEN 2^30 ELSE 0))
                - (IF 63 \in imm THEN 2^30 ELSE 0)

\* An offset of the J and B formats and an immediate of the S and I formats is
\* the number the format of the specification (Section 2.3) gives, sign
\* included, and is a proper i64 (parser.rs, i_imm, s_imm, b_imm, u_imm, j_imm).
ImmediatesSigned ==
  word # None =>
    LET w == word[1]
        n(lo, hi) == bits(w, lo, hi - lo + 1)
        sign == n(31, 31)
        is(imm, v) == Value(imm) = v /\ (imm \cap 31..63 \in {{}, 31..63})
    IN /\ is(i_imm(w), n(20, 30) - sign * 2^11)
       /\ is(s_imm(w), n(25, 30) * 2^5 + n(7, 11) - sign * 2^11)
       /\ is(b_imm(w), n(7, 7) * 2^11 + n(25, 30) * 2^5 + n(8, 11) * 2 - sign * 2^12)
       /\ is(j_imm(w), n(12, 19) * 2^12 + n(20, 20) * 2^11 + n(21, 30) * 2 - sign * 2^20)
       /\ is(u_imm(w), ((n(12, 30) * 2^12) - sign * 2^30) - sign * 2^30)

\* No byte of code is skipped or decoded twice, no bit of a word is lost, and
\* immediates have their sign (parser.rs).
DecoderLaws == TypeOK /\ PcFollowsReads /\ EveryBitMatters /\ ImmediatesSigned
==============================================================================
