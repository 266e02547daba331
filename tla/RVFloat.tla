------------------------------- MODULE RVFloat -------------------------------
(***************************************************************************)
(* The floating-point instructions of the RISC-V interpreter                *)
(* (interpreter/float.rs, rv64f.rs, rv64d.rs, machine_state/registers.rs).  *)
(*                                                                          *)
(* A register is a word, a set of bit positions; the machine m of RVMemory  *)
(* also has f, the float registers, csr, with fcsr only, and asked, the     *)
(* last call to the arithmetic library.  What the library computes is not   *)
(* modelled: an operation may give any of Results.                          *)
(***************************************************************************)
EXTENDS RVMemory

CONSTANTS
  FRegs,        \* the float registers used
  FrmStates,    \* the values written to fcsr
  Examined,     \* the machines in which instructions are compared, not run
  Results,      \* what the arithmetic may give: [status, value]
  FInstrs       \* the instructions executed

------------------------------------------------------------------------------
(* IEEE 754 formats, and the questions the library answers about a value.   *)

Single == [sign |-> 31, exp |-> 23..30, man |-> 0..22, quiet |-> 22]
Double == [sign |-> 63, exp |-> 52..62, man |-> 0..51, quiet |-> 51]

is_negative(F, v) == F.sign \in v
is_nan(F, v) == F.exp \subseteq v /\ v \cap F.man # {}
is_signaling(F, v) == is_nan(F, v) /\ F.quiet \notin v
is_infinite(F, v) == F.exp \subseteq v /\ v \cap F.man = {}
is_zero(F, v) == v \cap (F.exp \cup F.man) = {}
is_denormal(F, v) == v \cap F.exp = {} /\ v \cap F.man # {}
is_normal(F, v) == v \cap F.exp # {} /\ ~(F.exp \subseteq v)
Negate(F, v) == Xor(v, {F.sign})

Equal(F, a, b) == ~is_nan(F, a) /\ ~is_nan(F, b) /\ (a = b \/ (is_zero(F, a) /\ is_zero(F, b)))
Smaller(F, a, b) ==
  /\ ~is_nan(F, a) /\ ~is_nan(F, b) /\ ~Equal(F, a, b)
  /\ CASE is_negative(F, a) /\ ~is_negative(F, b) -> TRUE
       [] ~is_negative(F, a) /\ is_negative(F, b) -> FALSE
       [] is_negative(F, a) -> LessU(b, a)
       [] OTHER -> LessU(a, b)

\* Float::minimum and maximum, where -0 is below +0.
minimum(F, a, b) ==
  IF is_zero(F, a) /\ is_zero(F, b) THEN (IF is_negative(F, a) THEN a ELSE b)
  ELSE IF Smaller(F, b, a) THEN b ELSE a
maximum(F, a, b) ==
  IF is_zero(F, a) /\ is_zero(F, b) THEN (IF is_negative(F, a) THEN b ELSE a)
  ELSE IF Smaller(F, a, b) THEN b ELSE a

------------------------------------------------------------------------------
(* Registers.  A single is boxed: all the bits above it are ones.           *)

canonical_nan_s == 22..30
canonical_nan_d == 51..62
canonical_nan(F) == IF F = Single THEN canonical_nan_s ELSE canonical_nan_d
canonicalise(F, v) == IF is_nan(F, v) THEN canonical_nan(F) ELSE v

f32_to_fvalue(v) == v \cup 32..63

\* The box ignored.
fvalue_to_f32_bits_any(v) == v \cap 0..31

fvalue_to_f32_bits(v) == IF 32..63 \subseteq v THEN v \cap 0..31 ELSE canonical_nan_s

FromFValue(F, v) == IF F = Single THEN fvalue_to_f32_bits(v) ELSE v
ToFValue(F, v) == IF F = Single THEN f32_to_fvalue(v) ELSE v

fread(k, F, r) == FromFValue(F, k.f[r])
fwrite(k, F, r, v) == [k EXCEPT !.f[r] = ToFValue(F, v)]

------------------------------------------------------------------------------
(* Flags and rounding.                                                      *)

NX == 0
UF == 1
OF == 2
DZ == 3
NV == 4

\* The flags replaced.
set_flags_over(k, bits) == [k EXCEPT !.csr = csr_write(@, R.fflags, bits)]

set_flags(k, bits) == [k EXCEPT !.csr = set_bits(@, R.fflags, bits)[1]]

set_exception_flag(k, flag) == set_flags(k, {flag})

\* Status bits are the flags in the opposite order.
status_to_bits(status) == {4 - b : b \in status}

set_exception_flag_status(k, status) == set_flags(k, status_to_bits(status))

RoundingMode(v) == IF ToNumber(v) <= 4 THEN Some(ToNumber(v)) ELSE None

Dynamic == 7

f_rounding_mode(k, rm) == IF rm = Dynamic THEN RoundingMode(csr_read(k.csr, R.frm)) ELSE Some(rm)

------------------------------------------------------------------------------
(* float.rs.                                                                *)

Flagged(k, status) == IF status = {} THEN k ELSE set_exception_flag_status(k, status)

\* The end of f_arith_2, f_arith_3 and the square root.
Finished(k, F, rd, call, res) ==
  Ok(fwrite([Flagged(k, res.status) EXCEPT !.asked = call], F, rd, res.value))

Illegal(k) == Err(k, <<"IllegalInstruction", {}>>)

\* The payload and sign kept.
Canonical_not(F, res) == res

Canonical(F, res) == [res EXCEPT !.value = canonicalise(F, @)]

f_arith_2(k, F, op, rs1, rs2, rm, rd, res) ==
  LET round == f_rounding_mode(k, rm)
  IN IF round = None THEN Illegal(k)
     ELSE Finished(k, F, rd, <<op, fread(k, F, rs1), fread(k, F, rs2), round>>, Canonical(F, res))

\* args is what the instruction multiplies and adds, signs applied.
f_arith_3(k, F, args, rm, rd, res) ==
  LET round == f_rounding_mode(k, rm)
  IN IF round = None THEN Illegal(k)
     ELSE Finished(k, F, rd, <<"mul_add", args, round>>, Canonical(F, res))

run_fadd(k, F, rs1, rs2, rm, rd, res) == f_arith_2(k, F, "add", rs1, rs2, rm, rd, res)
run_fsub(k, F, rs1, rs2, rm, rd, res) == f_arith_2(k, F, "sub", rs1, rs2, rm, rd, res)
run_fmul(k, F, rs1, rs2, rm, rd, res) == f_arith_2(k, F, "mul", rs1, rs2, rm, rd, res)
run_fdiv(k, F, rs1, rs2, rm, rd, res) == f_arith_2(k, F, "div", rs1, rs2, rm, rd, res)

run_fmadd(k, F, rs1, rs2, rs3, rm, rd, res) ==
  f_arith_3(k, F, <<fread(k, F, rs1), fread(k, F, rs2), fread(k, F, rs3)>>, rm, rd, res)
run_fmsub(k, F, rs1, rs2, rs3, rm, rd, res) ==
  f_arith_3(k, F, <<fread(k, F, rs1), fread(k, F, rs2), Negate(F, fread(k, F, rs3))>>, rm, rd, res)
run_fnmsub(k, F, rs1, rs2, rs3, rm, rd, res) ==
  f_arith_3(k, F, <<Negate(F, fread(k, F, rs1)), fread(k, F, rs2), fread(k, F, rs3)>>, rm, rd, res)
run_fnmadd(k, F, rs1, rs2, rs3, rm, rd, res) ==
  f_arith_3(k, F, <<Negate(F, fread(k, F, rs1)), fread(k, F, rs2), Negate(F, fread(k, F, rs3))>>,
            rm, rd, res)

Class(F, v) ==
  CASE is_infinite(F, v) /\ is_negative(F, v) -> 0
    [] is_negative(F, v) /\ is_normal(F, v) -> 1
    [] is_negative(F, v) /\ is_denormal(F, v) -> 2
    [] is_zero(F, v) /\ is_negative(F, v) -> 3
    [] is_zero(F, v) /\ ~is_negative(F, v) -> 4
    [] is_denormal(F, v) /\ ~is_negative(F, v) -> 5
    [] is_normal(F, v) /\ ~is_negative(F, v) -> 6
    [] is_infinite(F, v) /\ ~is_negative(F, v) -> 7
    [] is_signaling(F, v) -> 8
    [] OTHER -> 9

run_fclass(k, F, rs1, rd) == Ok(xwrite(k, rd, {Class(F, fread(k, F, rs1))}))

Compared(k, invalid, holds, rd) ==
  Ok(xwrite(IF invalid THEN set_exception_flag(k, NV) ELSE k, rd, IF holds THEN {0} ELSE {}))

run_feq(k, F, rs1, rs2, rd) ==
  LET a == fread(k, F, rs1)
      b == fread(k, F, rs2)
  IN Compared(k, is_signaling(F, a) \/ is_signaling(F, b), Equal(F, a, b), rd)

run_flt(k, F, rs1, rs2, rd) ==
  LET a == fread(k, F, rs1)
      b == fread(k, F, rs2)
  IN Compared(k, is_nan(F, a) \/ is_nan(F, b), Smaller(F, a, b), rd)

run_fle(k, F, rs1, rs2, rd) ==
  LET a == fread(k, F, rs1)
      b == fread(k, F, rs2)
  IN Compared(k, is_nan(F, a) \/ is_nan(F, b), Equal(F, a, b) \/ Smaller(F, a, b), rd)

Sign(k, F, rs) == is_negative(F, fread(k, F, rs))

\* sign: is the result negative?
f_sign_injection(k, F, rs1, rd, sign) ==
  LET a == fread(k, F, rs1)
  IN Ok(fwrite(k, F, rd, IF sign = is_negative(F, a) THEN a ELSE Negate(F, a)))

run_fsgnj(k, F, rs1, rs2, rd) == f_sign_injection(k, F, rs1, rd, Sign(k, F, rs2))
run_fsgnjn(k, F, rs1, rs2, rd) == f_sign_injection(k, F, rs1, rd, ~Sign(k, F, rs2))
run_fsgnjx(k, F, rs1, rs2, rd) == f_sign_injection(k, F, rs1, rd, Sign(k, F, rs1) # Sign(k, F, rs2))

\* chosen is the smaller or the larger of two numbers.
min_max(k, F, rs1, rs2, rd, chosen) ==
  LET a == fread(k, F, rs1)
      b == fread(k, F, rs2)
      res == CASE is_nan(F, a) /\ is_nan(F, b) -> canonical_nan(F)
               [] is_nan(F, a) /\ ~is_nan(F, b) -> b
               [] ~is_nan(F, a) /\ is_nan(F, b) -> a
               [] OTHER -> chosen
      flagged == IF is_signaling(F, a) \/ is_signaling(F, b) THEN set_exception_flag(k, NV) ELSE k
  IN Ok(fwrite(flagged, F, rd, res))

run_fmin(k, F, rs1, rs2, rd) ==
  min_max(k, F, rs1, rs2, rd, minimum(F, fread(k, F, rs1), fread(k, F, rs2)))
run_fmax(k, F, rs1, rs2, rd) ==
  min_max(k, F, rs1, rs2, rd, maximum(F, fread(k, F, rs1), fread(k, F, rs2)))

\* The square root: unlike the others its result is kept as the library gave it.
Root(k, F, rs1, rm, rd, res) ==
  LET round == f_rounding_mode(k, rm)
  IN IF round = None THEN Illegal(k)
     ELSE Finished(k, F, rd, <<"sqrt", fread(k, F, rs1), round>>, res)

------------------------------------------------------------------------------
(* rv64f.rs and rv64d.rs.                                                   *)

run_fclass_s(k, rs1, rd) == run_fclass(k, Single, rs1, rd)
run_feq_s(k, rs1, rs2, rd) == run_feq(k, Single, rs1, rs2, rd)
run_fle_s(k, rs1, rs2, rd) == run_fle(k, Single, rs1, rs2, rd)
run_flt_s(k, rs1, rs2, rd) == run_flt(k, Single, rs1, rs2, rd)
run_fmin_s(k, rs1, rs2, rd) == run_fmin(k, Single, rs1, rs2, rd)
run_fmax_s(k, rs1, rs2, rd) == run_fmax(k, Single, rs1, rs2, rd)
run_fsgnj_s(k, rs1, rs2, rd) == run_fsgnj(k, Single, rs1, rs2, rd)
run_fsgnjn_s(k, rs1, rs2, rd) == run_fsgnjn(k, Single, rs1, rs2, rd)
run_fsgnjx_s(k, rs1, rs2, rd) == run_fsgnjx(k, Single, rs1, rs2, rd)
run_fadd_s(k, rs1, rs2, rm, rd, res) == run_fadd(k, Single, rs1, rs2, rm, rd, res)
run_fsub_s(k, rs1, rs2, rm, rd, res) == run_fsub(k, Single, rs1, rs2, rm, rd, res)
run_fmul_s(k, rs1, rs2, rm, rd, res) == run_fmul(k, Single, rs1, rs2, rm, rd, res)
run_fdiv_s(k, rs1, rs2, rm, rd, res) == run_fdiv(k, Single, rs1, rs2, rm, rd, res)
run_fsqrt_s(k, rs1, rm, rd, res) == Root(k, Single, rs1, rm, rd, res)
run_fmadd_s(k, rs1, rs2, rs3, rm, rd, res) ==
  run_fmadd(k, Single, rs1, rs2, rs3, rm, rd, res)
run_fmsub_s(k, rs1, rs2, rs3, rm, rd, res) ==
  run_fmsub(k, Single, rs1, rs2, rs3, rm, rd, res)
run_fnmsub_s(k, rs1, rs2, rs3, rm, rd, res) ==
  run_fnmsub(k, Single, rs1, rs2, rs3, rm, rd, res)
run_fnmadd_s(k, rs1, rs2, rs3, rm, rd, res) ==
  run_fnmadd(k, Single, rs1, rs2, rs3, rm, rd, res)

run_fclass_d(k, rs1, rd) == run_fclass(k, Double, rs1, rd)
run_feq_d(k, rs1, rs2, rd) == run_feq(k, Double, rs1, rs2, rd)
run_fle_d(k, rs1, rs2, rd) == run_fle(k, Double, rs1, rs2, rd)
run_flt_d(k, rs1, rs2, rd) == run_flt(k, Double, rs1, rs2, rd)
run_fmin_d(k, rs1, rs2, rd) == run_fmin(k, Double, rs1, rs2, rd)
run_fmax_d(k, rs1, rs2, rd) == run_fmax(k, Double, rs1, rs2, rd)
run_fsgnj_d(k, rs1, rs2, rd) == run_fsgnj(k, Double, rs1, rs2, rd)
run_fsgnjn_d(k, rs1, rs2, rd) == run_fsgnjn(k, Double, rs1, rs2, rd)
run_fsgnjx_d(k, rs1, rs2, rd) == run_fsgnjx(k, Double, rs1, rs2, rd)
run_fadd_d(k, rs1, rs2, rm, rd, res) == run_fadd(k, Double, rs1, rs2, rm, rd, res)
run_fsub_d(k, rs1, rs2, rm, rd, res) == run_fsub(k, Double, rs1, rs2, rm, rd, res)
run_fmul_d(k, rs1, rs2, rm, rd, res) == run_fmul(k, Double, rs1, rs2, rm, rd, res)
run_fdiv_d(k, rs1, rs2, rm, rd, res) == run_fdiv(k, Double, rs1, rs2, rm, rd, res)
run_fsqrt_d(k, rs1, rm, rd, res) == Root(k, Double, rs1, rm, rd, res)
run_fmadd_d(k, rs1, rs2, rs3, rm, rd, res) ==
  run_fmadd(k, Double, rs1, rs2, rs3, rm, rd, res)
run_fmsub_d(k, rs1, rs2, rs3, rm, rd, res) ==
  run_fmsub(k, Double, rs1, rs2, rs3, rm, rd, res)
run_fnmsub_d(k, rs1, rs2, rs3, rm, rd, res) ==
  run_fnmsub(k, Double, rs1, rs2, rs3, rm, rd, res)
run_fnmadd_d(k, rs1, rs2, rs3, rm, rd, res) ==
  run_fnmadd(k, Double, rs1, rs2, rs3, rm, rd, res)

\* The bits of the lower half, boxed or not.
run_fmv_x_w(k, rs1, rd) == Ok(xwrite(k, rd, SignExtend(k.f[rs1] \cap 0..31, 32)))
run_fmv_w_x(k, rs1, rd) == Ok([k EXCEPT !.f[rd] = f32_to_fvalue(xread(k, rs1) \cap 0..31)])
run_fmv_x_d(k, rs1, rd) == Ok(xwrite(k, rd, k.f[rs1]))
run_fmv_d_x(k, rs1, rd) == Ok([k EXCEPT !.f[rd] = xread(k, rs1)])

FloatLoad(k, r, rd, F) == IF r[1] = "Err" THEN Err(k, r[2]) ELSE Ok(fwrite(k, F, rd, r[2]))

run_flw(k, imm, rs1, rd) == FloatLoad(k, read_from_bus(k, imm, rs1, 4), rd, Single)
run_fsw(k, imm, rs1, rs2) == write_to_bus(k, imm, rs1, 4, k.f[rs2] \cap 0..31)
run_fld(k, imm, rs1, rd) == FloatLoad(k, read_from_bus(k, imm, rs1, 8), rd, Double)
run_fsd(k, imm, rs1, rs2) == write_to_bus(k, imm, rs1, 8, k.f[rs2])

------------------------------------------------------------------------------
(* The instructions: [name, rs1, rs2, rs3, rm, rd, imm].                    *)

Fused == {"fmadd", "fmsub", "fnmsub", "fnmadd"}
Arithmetic == {"fadd", "fsub", "fmul", "fdiv", "fsqrt"} \cup Fused

\* run_instr, the instructions of rv64f.
run_instr_F(k, i, res) ==
  CASE i.name = "fclass" -> run_fclass_s(k, i.rs1, i.rd)
    [] i.name = "feq" -> run_feq_s(k, i.rs1, i.rs2, i.rd)
    [] i.name = "fle" -> run_fle_s(k, i.rs1, i.rs2, i.rd)
    [] i.name = "flt" -> run_flt_s(k, i.rs1, i.rs2, i.rd)
    [] i.name = "fmin" -> run_fmin_s(k, i.rs1, i.rs2, i.rd)
    [] i.name = "fmax" -> run_fmax_s(k, i.rs1, i.rs2, i.rd)
    [] i.name = "fsgnj" -> run_fsgnj_s(k, i.rs1, i.rs2, i.rd)
    [] i.name = "fsgnjn" -> run_fsgnjn_s(k, i.rs1, i.rs2, i.rd)
    [] i.name = "fsgnjx" -> run_fsgnjx_s(k, i.rs1, i.rs2, i.rd)
    [] i.name = "fadd" -> run_fadd_s(k, i.rs1, i.rs2, i.rm, i.rd, res)
    [] i.name = "fsub" -> run_fsub_s(k, i.rs1, i.rs2, i.rm, i.rd, res)
    [] i.name = "fmul" -> run_fmul_s(k, i.rs1, i.rs2, i.rm, i.rd, res)
    [] i.name = "fdiv" -> run_fdiv_s(k, i.rs1, i.rs2, i.rm, i.rd, res)
    [] i.name = "fsqrt" -> run_fsqrt_s(k, i.rs1, i.rm, i.rd, res)
    [] i.name = "fmadd" -> run_fmadd_s(k, i.rs1, i.rs2, i.rs3, i.rm, i.rd, res)
    [] i.name = "fmsub" -> run_fmsub_s(k, i.rs1, i.rs2, i.rs3, i.rm, i.rd, res)
    [] i.name = "fnmsub" -> run_fnmsub_s(k, i.rs1, i.rs2, i.rs3, i.rm, i.rd, res)
    [] i.name = "fnmadd" -> run_fnmadd_s(k, i.rs1, i.rs2, i.rs3, i.rm, i.rd, res)
    [] i.name = "fmv_x" -> run_fmv_x_w(k, i.rs1, i.rd)
    [] i.name = "fmv_f" -> run_fmv_w_x(k, i.rs1, i.rd)
    [] i.name = "load" -> run_flw(k, i.imm, i.rs1, i.rd)
    [] i.name = "store" -> run_fsw(k, i.imm, i.rs1, i.rs2)

\* run_instr, the instructions of rv64d.
run_instr_D(k, i, res) ==
  CASE i.name = "fclass" -> run_fclass_d(k, i.rs1, i.rd)
    [] i.name = "feq" -> run_feq_d(k, i.rs1, i.rs2, i.rd)
    [] i.name = "fle" -> run_fle_d(k, i.rs1, i.rs2, i.rd)
    [] i.name = "flt" -> run_flt_d(k, i.rs1, i.rs2, i.rd)
    [] i.name = "fmin" -> run_fmin_d(k, i.rs1, i.rs2, i.rd)
    [] i.name = "fmax" -> run_fmax_d(k, i.rs1, i.rs2, i.rd)
    [] i.name = "fsgnj" -> run_fsgnj_d(k, i.rs1, i.rs2, i.rd)
    [] i.name = "fsgnjn" -> run_fsgnjn_d(k, i.rs1, i.rs2, i.rd)
    [] i.name = "fsgnjx" -> run_fsgnjx_d(k, i.rs1, i.rs2, i.rd)
    [] i.name = "fadd" -> run_fadd_d(k, i.rs1, i.rs2, i.rm, i.rd, res)
    [] i.name = "fsub" -> run_fsub_d(k, i.rs1, i.rs2, i.rm, i.rd, res)
    [] i.name = "fmul" -> run_fmul_d(k, i.rs1, i.rs2, i.rm, i.rd, res)
    [] i.name = "fdiv" -> run_fdiv_d(k, i.rs1, i.rs2, i.rm, i.rd, res)
    [] i.name = "fsqrt" -> run_fsqrt_d(k, i.rs1, i.rm, i.rd, res)
    [] i.name = "fmadd" -> run_fmadd_d(k, i.rs1, i.rs2, i.rs3, i.rm, i.rd, res)
    [] i.name = "fmsub" -> run_fmsub_d(k, i.rs1, i.rs2, i.rs3, i.rm, i.rd, res)
    [] i.name = "fnmsub" -> run_fnmsub_d(k, i.rs1, i.rs2, i.rs3, i.rm, i.rd, res)
    [] i.name = "fnmadd" -> run_fnmadd_d(k, i.rs1, i.rs2, i.rs3, i.rm, i.rd, res)
    [] i.name = "fmv_x" -> run_fmv_x_d(k, i.rs1, i.rd)
    [] i.name = "fmv_f" -> run_fmv_d_x(k, i.rs1, i.rd)
    [] i.name = "load" -> run_fld(k, i.imm, i.rs1, i.rd)
    [] i.name = "store" -> run_fsd(k, i.imm, i.rs1, i.rs2)

FInit == /\ \/ m \in Starts /\ steps = 0
            \/ m \in Examined /\ steps = MaxSteps
         /\ fault = None /\ last = None

FExecute(i, res) ==
  /\ steps < MaxSteps /\ steps' = steps + 1
  /\ \E r \in {IF i.fmt = Single THEN run_instr_F(m, i, res) ELSE run_instr_D(m, i, res)} :
       m' = r.k /\ fault' = r.err
  /\ last' = Some(i)

\* CSRRW of fcsr.
WriteFcsr(v) ==
  /\ steps < MaxSteps /\ steps' = steps + 1
  /\ m' = [m EXCEPT !.csr = csr_write(@, R.fcsr, v)]
  /\ fault' = None /\ last' = Some([name |-> "csrw"])

FNext == \/ \E i \in FInstrs : \E res \in Results[i.fmt.sign] : FExecute(i, res)
         \/ \E v \in FrmStates : WriteFcsr(v)

FSpec == FInit /\ [][FNext]_vars

------------------------------------------------------------------------------
(* Properties.                                                              *)

FTypeOK ==
  /\ \A r \in FRegs : m.f[r] \subseteq 0..63
  /\ \A r \in XRegs : m.x[r] \subseteq 0..63
  /\ m.csr[R.fcsr] \subseteq 0..7

Formats == {Single, Double}

\* The integer an instruction leaves in register 1.
Answer(r) == ToNumber(r.k.x[1])
Flags(r) == csr_read(r.k.csr, R.fflags)

\* FCLASS sets one bit, and the classes that are not NaNs are in the order of
\* FLT: a value of a lower class is smaller, but for the two zeros, which are
\* equal (run_fclass, run_flt, run_feq).
ClassesOrdered ==
  last = None =>
    \A F \in Formats, a, b \in FRegs :
      \E ca \in {run_fclass(m, F, a, 1).k.x[1]}, cb \in {run_fclass(m, F, b, 1).k.x[1]} :
        /\ Cardinality(ca) = 1
        /\ LET i == CHOOSE i \in ca : TRUE
               j == CHOOSE j \in cb : TRUE
           IN (i < j /\ j <= 7) =>
                IF <<i, j>> = <<3, 4>> THEN Answer(run_feq(m, F, a, b, 1)) = 1
                ELSE Answer(run_flt(m, F, a, b, 1)) = 1

\* Of a < b, a = b and b < a exactly one holds, and a <= b is the first two,
\* unless one is a NaN, when none does; a NaN makes FLT and FLE raise NV but a
\* quiet one never FEQ (run_feq, run_flt, run_fle).
ComparisonsAgree ==
  last = None =>
    \A F \in Formats, a, b \in FRegs :
      LET lt == run_flt(m, F, a, b, 1)
          gt == run_flt(m, F, b, a, 1)
          le == run_fle(m, F, a, b, 1)
          eq == run_feq(m, F, a, b, 1)
          nan == {r \in {a, b} : Answer(run_fclass(m, F, r, 1)) \in {2^8, 2^9}}
          signaling == {r \in nan : Answer(run_fclass(m, F, r, 1)) = 2^8}
          before == csr_read(m.csr, R.fflags)
      IN /\ Answer(lt) + Answer(gt) + Answer(eq) = IF nan = {} THEN 1 ELSE 0
         /\ Answer(le) = Answer(lt) + Answer(eq)
         /\ Flags(lt) = before \cup (IF nan = {} THEN {} ELSE {NV})
         /\ Flags(le) = Flags(lt) /\ Flags(gt) = Flags(lt)
         /\ Flags(eq) = before \cup (IF signaling = {} THEN {} ELSE {NV})

\* FMIN and FMAX give one operand each and in order; when only one of the
\* operands is a number both give that one (min_max).
MinMaxAgree ==
  last = None =>
    \A F \in Formats, a, b \in FRegs :
      \E x \in {fread(run_fmin(m, F, a, b, a).k, F, a)}, y \in {fread(run_fmax(m, F, a, b, a).k, F, a)} :
        LET v == fread(m, F, a)
            w == fread(m, F, b)
            numbers == {u \in {v, w} : ~is_nan(F, u)}
        IN IF numbers = {} THEN x = canonical_nan(F) /\ y = canonical_nan(F)
           ELSE /\ {x, y} = numbers
                /\ x = y \/ ~Smaller(F, y, x)

\* FSGNJN with itself twice, and FSGNJX by the same register twice, give the
\* value back; after FSGNJX with itself the sign is clear (f_sign_injection).
SignsInjected ==
  last = None =>
    \A F \in Formats, a, b \in FRegs :
      LET v == fread(m, F, a)
      IN /\ fread(run_fsgnjn(run_fsgnjn(m, F, a, a, a).k, F, a, a, a).k, F, a) = v
         /\ a # b => fread(run_fsgnjx(run_fsgnjx(m, F, a, b, a).k, F, a, b, a).k, F, a) = v
         /\ fread(run_fsgnjx(m, F, a, a, a).k, F, a) = v \ {F.sign}

\* The fused instructions ask the library for one product and sum, of the
\* operands FMADD would have after FSGNJN on the ones to negate: the addend for
\* FMSUB, the product for FNMSUB, both for FNMADD (run_fmsub, run_fnmsub,
\* run_fnmadd).
FusedNegations ==
  last = None =>
    \A F \in Formats, a, b, c \in FRegs :
      LET neg(k, r) == run_fsgnjn(k, F, r, r, r).k
          res == [status |-> {}, value |-> {}]
          asked(r) == r.k.asked
      IN Cardinality({a, b, c}) = 3 =>
           /\ asked(run_fmsub(m, F, a, b, c, 0, a, res)) = asked(run_fmadd(neg(m, c), F, a, b, c, 0, a, res))
           /\ asked(run_fnmsub(m, F, a, b, c, 0, a, res)) = asked(run_fmadd(neg(m, a), F, a, b, c, 0, a, res))
           /\ asked(run_fnmadd(m, F, a, b, c, 0, a, res)) =
                asked(run_fmadd(neg(neg(m, c), a), F, a, b, c, 0, a, res))

\* A single moved out to a general register or to memory and back is the same
\* single, and seen as a double it is a quiet NaN (f32_to_fvalue, run_fmv_x_w,
\* run_fmv_w_x, run_fsw, run_flw).
SinglesSurvive ==
  last = None =>
    \A a, b \in FRegs :
      LET boxed == run_fsgnj(m, Single, a, a, b).k
          moved == run_fmv_w_x(run_fmv_x_w(boxed, b, 1).k, 1, a).k
          stored == run_fsw(boxed, {}, 2, b)
      IN /\ moved.f[a] = boxed.f[b]
         /\ stored.err = None => run_flw(stored.k, {}, 2, a).k.f[a] = boxed.f[b]
         /\ Answer(run_fclass(boxed, Double, b, 1)) = 2^9

\* An arithmetic instruction never leaves a NaN other than the canonical one,
\* whatever the library gives (canonicalise; the square root keeps its result).
NaNsCanonical ==
  (last # None /\ fault = None /\ last[1].name \in Arithmetic \ {"fsqrt"}) =>
    LET v == fread(m, last[1].fmt, last[1].rd)
    IN is_nan(last[1].fmt, v) => v = canonical_nan(last[1].fmt)

\* No instruction other than a write of fcsr lowers a flag or changes the
\* rounding mode (set_exception_flag, set_exception_flag_status).
FlagsStay ==
  [][last'[1].name # "csrw" =>
       /\ csr_read(m.csr, R.fflags) \subseteq csr_read(m.csr, R.fflags)'
       /\ csr_read(m.csr, R.frm) = csr_read(m.csr, R.frm)']_vars

\* With a rounding mode that is none of the five, an instruction that rounds
\* dynamically is refused and changes nothing, and no other is (f_rounding_mode,
\* f_arith_2, f_arith_3).
RoundingChecked ==
  [][last'[1].name \in Arithmetic =>
       LET bad == last'[1].rm = Dynamic /\ ToNumber(csr_read(m.csr, R.frm)) \in 5..7
       IN /\ bad <=> fault' # None
          /\ bad => m' = m]_vars

\* What holds of every pair of values and after every instruction: classes and
\* comparisons agree, signs and boxes survive, NaNs are canonical (float.rs).
FloatLaws ==
  /\ FTypeOK /\ NaNsCanonical /\ ClassesOrdered /\ ComparisonsAgree /\ MinMaxAgree
  /\ SignsInjected /\ FusedNegations /\ SinglesSurvive

\* No step loses an exception flag, and none rounds with a mode there is not
\* (set_exception_flag, f_rounding_mode).
FloatSteps == FlagsStay /\ RoundingChecked

------------------------------------------------------------------------------
(* Instances for TLC.                                                       *)

MCFXRegs == {0, 1, 2}
MCFRegs == {1, 2, 3}
MCNoInstrs == Machine :> {}

FMachine(f, fcsr) ==
  [mode |-> Machine, mem |-> [a \in 0..(MemBytes - 1) |-> {}], satp |-> {},
   x |-> [r \in MCFXRegs |-> IF r = 1 THEN {31, 30, 0} ELSE {2}], f |-> f,
   csr |-> (R.fcsr :> fcsr), asked |-> None]

\* One value of each class, of each format, and one that is in no box.
Magnitudes(F) == {F.exp, F.exp \cup {0}, F.exp \cup {F.quiet, 0}, F.exp \ {F.quiet + 1}, {0}, {}}
Values(F) == Magnitudes(F) \cup {v \cup {F.sign} : v \in Magnitudes(F)}
MCWords == {f32_to_fvalue(v) : v \in Values(Single)} \cup Values(Double)

\* For the laws: every pair in f1 and f2, a third fixed.
MCPairs == {FMachine([r \in MCFRegs |-> CASE r = 1 -> a [] r = 2 -> b [] OTHER -> 52..61], {}) : a, b \in MCWords}

\* For the steps.
MCFew == {[r \in MCFRegs |-> CASE r = 1 -> a [] r = 2 -> b [] OTHER -> 52..61] :
            a \in {f32_to_fvalue(Single.exp \cup {0}), Double.exp \cup {63, 0}, {0}},
            b \in {f32_to_fvalue(Single.exp \cup {22, 0}), f32_to_fvalue({30})}}
MCResultValues(F) == {{}, F.exp \cup {F.sign, 0}, F.exp \cup {F.quiet, 0}, F.exp \ {F.quiet + 1}}
MCResults == 31 :> {[status |-> s, value |-> v] : s \in {{}, {4, 3}}, v \in MCResultValues(Single)}
          @@ 63 :> {[status |-> s, value |-> v] : s \in {{0}, {1, 2}}, v \in MCResultValues(Double)}

FI(name, F, rm) == [name |-> name, fmt |-> F, rs1 |-> 1, rs2 |-> 2, rs3 |-> 3, rm |-> rm,
                   rd |-> IF name = "fmv_f" THEN 3 ELSE 1, imm |-> {}]
MCFInstrs ==
  {FI(n, F, 7) : n \in Arithmetic, F \in Formats} \cup {FI(n, F, 2) : n \in {"fadd", "fmadd", "fsqrt"}, F \in Formats}
    \cup {FI(n, F, 0) : F \in Formats,
            n \in {"fclass", "feq", "flt", "fle", "fmin", "fmax", "fsgnj", "fsgnjn", "fsgnjx", "fmv_x", "fmv_f"}}
    \cup {[FI(n, F, 0) EXCEPT !.rs1 = 2] : n \in {"load", "store"}, F \in Formats}
\* Flags and rounding modes: none, all flags and the fifth mode, a bad mode.
MCFcsrs == {{}, 0..4 \cup {7}, {5, 7}}
MCFStarts == {FMachine(f, fcsr) : f \in MCFew, fcsr \in MCFcsrs}
==============================================================================
