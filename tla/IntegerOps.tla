----------------------------- MODULE IntegerOps -----------------------------
(***************************************************************************)
(* The integer instructions of the RISC-V interpreter (the bases RV32I and  *)
(* RV64I and the extension M), each as what it does to the registers.       *)
(*                                                                          *)
(* The code works on u64 and on their low 32 bits.  Here a word has XLEN    *)
(* bits and its low part HALF of them, so that small instances are          *)
(* exhaustive; Rust's casts are the operators s, u and low below.           *)
(***************************************************************************)
EXTENDS Integers, Sequences

CONSTANTS
  XLEN,          \* the width of a register; a power of two
  XRegs,         \* the registers used; 0 is the register that reads as zero
  InitialWords,  \* the contents the registers start with
  Immediates,    \* the immediates of the I and U formats, sign-extended
  MaxSteps       \* bound on the instructions executed

HALF == XLEN \div 2

VARIABLES x, steps
vars == <<x, steps>>

Word == 0..(2^XLEN - 1)

\* `n as uW': the low w bits.
u(n, w) == n % 2^w

\* `n as iW': the low w bits as a signed number.
s(n, w) == IF u(n, w) >= 2^(w - 1) THEN u(n, w) - 2^w ELSE u(n, w)

\* `n as i64 as u64' of any signed number, and the same through i32.
wrap(n) == u(n, XLEN)
extend(n) == wrap(s(n, HALF))

Bit(n, k) == (n \div 2^k) % 2

\* The number with the bits P selects.
FromBits(P(_)) == LET sum[k \in 0..XLEN] ==
                        IF k = 0 THEN 0 ELSE sum[k - 1] + (IF P(k - 1) THEN 2^(k - 1) ELSE 0)
                  IN sum[XLEN]

band(a, b) == FromBits(LAMBDA k : Bit(a, k) = 1 /\ Bit(b, k) = 1)
bor(a, b) == FromBits(LAMBDA k : Bit(a, k) = 1 \/ Bit(b, k) = 1)
bxor(a, b) == FromBits(LAMBDA k : Bit(a, k) # Bit(b, k))

\* Rust's division truncates towards zero and its remainder has the sign of
\* the dividend.
Abs(n) == IF n < 0 THEN -n ELSE n
quotient(a, b) == IF (a < 0) = (b < 0) THEN Abs(a) \div Abs(b) ELSE -(Abs(a) \div Abs(b))
remainder(a, b) == IF a < 0 THEN -(Abs(a) % Abs(b)) ELSE Abs(a) % Abs(b)

------------------------------------------------------------------------------
(* XRegisters.                                                              *)

xread(r, reg) == IF reg = 0 THEN 0 ELSE r[reg]

xwrite(r, reg, val) == IF reg = 0 THEN r ELSE [r EXCEPT ![reg] = val]

------------------------------------------------------------------------------
(* RV32I.                                                                   *)

run_addi(r, imm, rs1, rd) == xwrite(r, rd, wrap(xread(r, rs1) + imm))

run_add(r, rs1, rs2, rd) == xwrite(r, rd, wrap(xread(r, rs1) + xread(r, rs2)))

run_sub(r, rs1, rs2, rd) == xwrite(r, rd, wrap(xread(r, rs1) - xread(r, rs2)))

run_lui(r, imm, rd) == xwrite(r, rd, wrap(imm))

run_andi(r, imm, rs1, rd) == xwrite(r, rd, band(xread(r, rs1), wrap(imm)))

run_ori(r, imm, rs1, rd) == xwrite(r, rd, bor(xread(r, rs1), wrap(imm)))

run_xori(r, imm, rs1, rd) == xwrite(r, rd, bxor(xread(r, rs1), wrap(imm)))

run_and(r, rs1, rs2, rd) == xwrite(r, rd, band(xread(r, rs1), xread(r, rs2)))

run_or(r, rs1, rs2, rd) == xwrite(r, rd, bor(xread(r, rs1), xread(r, rs2)))

run_xor(r, rs1, rs2, rd) == xwrite(r, rd, bxor(xread(r, rs1), xread(r, rs2)))

OneIf(c) == IF c THEN 1 ELSE 0

run_slti(r, imm, rs1, rd) == xwrite(r, rd, OneIf(s(xread(r, rs1), XLEN) < imm))

run_sltiu(r, imm, rs1, rd) == xwrite(r, rd, OneIf(xread(r, rs1) < wrap(imm)))

run_slt(r, rs1, rs2, rd) ==
  xwrite(r, rd, OneIf(s(xread(r, rs1), XLEN) < s(xread(r, rs2), XLEN)))

run_sltu(r, rs1, rs2, rd) == xwrite(r, rd, OneIf(xread(r, rs1) < xread(r, rs2)))

------------------------------------------------------------------------------
(* RV64I: the instructions on the low half, and the shifts.                 *)

run_addiw(r, imm, rs1, rd) == xwrite(r, rd, extend(xread(r, rs1) + imm))

run_addw(r, rs1, rs2, rd) == xwrite(r, rd, extend(xread(r, rs1) + xread(r, rs2)))

run_subw(r, rs1, rs2, rd) == xwrite(r, rd, extend(xread(r, rs1) - xread(r, rs2)))

\* << and >> of an unsigned word, and >> of a signed number.
shl(a, n) == wrap(a * 2^n)
shr(a, n) == a \div 2^n

\* The decoder leaves the amount, in 0..XLEN - 1, as the whole immediate.
run_slli(r, imm, rs1, rd) == xwrite(r, rd, shl(xread(r, rs1), imm))

run_srli(r, imm, rs1, rd) == xwrite(r, rd, shr(xread(r, rs1), imm))

\* The immediate of SRAI and SRAIW has a bit above the amount set.
tagged(n) == 2 * XLEN + n

run_srai(r, imm, rs1, rd) ==
  xwrite(r, rd, wrap(shr(s(xread(r, rs1), XLEN), imm % XLEN)))

run_slliw(r, imm, rs1, rd) == xwrite(r, rd, extend(shl(xread(r, rs1), imm)))

\* An amount of HALF or more is reduced by the release build's shift of a u32
\* (the debug build panics).
run_srliw(r, imm, rs1, rd) == xwrite(r, rd, extend(shr(u(xread(r, rs1), HALF), imm % HALF)))

run_sraiw(r, imm, rs1, rd) ==
  xwrite(r, rd, wrap(shr(s(xread(r, rs1), HALF), imm % HALF)))

run_sll(r, rs1, rs2, rd) == xwrite(r, rd, shl(xread(r, rs1), xread(r, rs2) % XLEN))

run_srl(r, rs1, rs2, rd) == xwrite(r, rd, shr(xread(r, rs1), xread(r, rs2) % XLEN))

run_sra(r, rs1, rs2, rd) ==
  xwrite(r, rd, wrap(shr(s(xread(r, rs1), XLEN), xread(r, rs2) % XLEN)))

run_sllw(r, rs1, rs2, rd) ==
  xwrite(r, rd, extend(shl(xread(r, rs1), xread(r, rs2) % HALF)))

run_srlw(r, rs1, rs2, rd) ==
  xwrite(r, rd, extend(shr(u(xread(r, rs1), HALF), xread(r, rs2) % HALF)))

run_sraw(r, rs1, rs2, rd) ==
  xwrite(r, rd, wrap(shr(s(xread(r, rs1), HALF), xread(r, rs2) % HALF)))

------------------------------------------------------------------------------
(* The extension M.  w is the width a division works at.                    *)

signed_div(a, b, w) ==
  IF b = 0 THEN -1 ELSE IF b = -1 /\ a = -(2^(w - 1)) THEN a ELSE quotient(a, b)

signed_rem(a, b, w) ==
  IF b = 0 THEN a ELSE IF b = -1 /\ a = -(2^(w - 1)) THEN 0 ELSE remainder(a, b)

run_rem(r, rs1, rs2, rd) ==
  xwrite(r, rd, wrap(signed_rem(s(xread(r, rs1), XLEN), s(xread(r, rs2), XLEN), XLEN)))

run_remu(r, rs1, rs2, rd) ==
  xwrite(r, rd, IF xread(r, rs2) = 0 THEN xread(r, rs1) ELSE xread(r, rs1) % xread(r, rs2))

\* The quotient rounded down instead of towards zero.
run_div_floor(r, rs1, rs2, rd) ==
  LET a == s(xread(r, rs1), XLEN)
      b == s(xread(r, rs2), XLEN)
  IN xwrite(r, rd, wrap(IF b = 0 THEN -1 ELSE IF b < 0 THEN (-a) \div (-b) ELSE a \div b))

run_div(r, rs1, rs2, rd) ==
  xwrite(r, rd, wrap(signed_div(s(xread(r, rs1), XLEN), s(xread(r, rs2), XLEN), XLEN)))

run_divu(r, rs1, rs2, rd) ==
  xwrite(r, rd, IF xread(r, rs2) = 0 THEN 2^XLEN - 1 ELSE xread(r, rs1) \div xread(r, rs2))

run_mul(r, rs1, rs2, rd) ==
  xwrite(r, rd, wrap(s(xread(r, rs1), XLEN) * s(xread(r, rs2), XLEN)))

run_mulh(r, rs1, rs2, rd) ==
  xwrite(r, rd, wrap((s(xread(r, rs1), XLEN) * s(xread(r, rs2), XLEN)) \div 2^XLEN))

run_mulhsu(r, rs1, rs2, rd) ==
  xwrite(r, rd, wrap((s(xread(r, rs1), XLEN) * xread(r, rs2)) \div 2^XLEN))

run_mulhu(r, rs1, rs2, rd) ==
  xwrite(r, rd, wrap((xread(r, rs1) * xread(r, rs2)) \div 2^XLEN))

run_remw(r, rs1, rs2, rd) ==
  xwrite(r, rd, wrap(signed_rem(s(xread(r, rs1), HALF), s(xread(r, rs2), HALF), HALF)))

run_remuw(r, rs1, rs2, rd) ==
  LET a == u(xread(r, rs1), HALF)
      b == u(xread(r, rs2), HALF)
  IN xwrite(r, rd, extend(IF b = 0 THEN a ELSE a % b))

run_divw(r, rs1, rs2, rd) ==
  xwrite(r, rd, wrap(signed_div(s(xread(r, rs1), HALF), s(xread(r, rs2), HALF), HALF)))

run_divuw(r, rs1, rs2, rd) ==
  LET a == u(xread(r, rs1), HALF)
      b == u(xread(r, rs2), HALF)
  IN xwrite(r, rd, extend(IF b = 0 THEN 2^HALF - 1 ELSE a \div b))

run_mulw(r, rs1, rs2, rd) ==
  xwrite(r, rd, wrap(s(s(xread(r, rs1), HALF) * s(xread(r, rs2), HALF), HALF)))

------------------------------------------------------------------------------
(* Programs of these instructions, in any order on any registers.           *)

Init == /\ x \in [XRegs -> InitialWords \cup {0}]
        /\ x[0] = 0
        /\ steps = 0

\* The run_r_type_instr! instructions of run_instr.
RTypeResults(r, rs1, rs2, rd) ==
  {run_add(r, rs1, rs2, rd), run_sub(r, rs1, rs2, rd), run_and(r, rs1, rs2, rd),
   run_or(r, rs1, rs2, rd), run_xor(r, rs1, rs2, rd), run_slt(r, rs1, rs2, rd),
   run_sltu(r, rs1, rs2, rd), run_addw(r, rs1, rs2, rd), run_subw(r, rs1, rs2, rd),
   run_sll(r, rs1, rs2, rd), run_srl(r, rs1, rs2, rd), run_sra(r, rs1, rs2, rd),
   run_sllw(r, rs1, rs2, rd), run_srlw(r, rs1, rs2, rd), run_sraw(r, rs1, rs2, rd)}

MTypeResults(r, rs1, rs2, rd) ==
  {run_rem(r, rs1, rs2, rd), run_remu(r, rs1, rs2, rd), run_div(r, rs1, rs2, rd),
   run_divu(r, rs1, rs2, rd), run_mul(r, rs1, rs2, rd), run_mulh(r, rs1, rs2, rd),
   run_mulhsu(r, rs1, rs2, rd), run_mulhu(r, rs1, rs2, rd), run_remw(r, rs1, rs2, rd),
   run_remuw(r, rs1, rs2, rd), run_divw(r, rs1, rs2, rd), run_divuw(r, rs1, rs2, rd),
   run_mulw(r, rs1, rs2, rd)}

ITypeResults(r, imm, rs1, rd) ==
  {run_addi(r, imm, rs1, rd), run_andi(r, imm, rs1, rd), run_ori(r, imm, rs1, rd),
   run_xori(r, imm, rs1, rd), run_slti(r, imm, rs1, rd), run_sltiu(r, imm, rs1, rd),
   run_addiw(r, imm, rs1, rd)}

ShiftResults(r, imm, rs1, rd) ==
  {run_slli(r, imm, rs1, rd), run_srli(r, imm, rs1, rd), run_srai(r, tagged(imm), rs1, rd),
   run_slliw(r, imm, rs1, rd), run_srliw(r, imm, rs1, rd), run_sraiw(r, tagged(imm), rs1, rd)}

Step == steps < MaxSteps /\ steps' = steps + 1

RType == Step /\ \E rs1, rs2, rd \in XRegs : x' \in RTypeResults(x, rs1, rs2, rd)
MType == Step /\ \E rs1, rs2, rd \in XRegs : x' \in MTypeResults(x, rs1, rs2, rd)
IType == Step /\ \E rs1, rd \in XRegs, imm \in Immediates : x' \in ITypeResults(x, imm, rs1, rd)
Shift == Step /\ \E rs1, rd \in XRegs, imm \in 0..(XLEN - 1) : x' \in ShiftResults(x, imm, rs1, rd)
Lui == Step /\ \E rd \in XRegs, imm \in Immediates : x' = run_lui(x, imm, rd)

Next == RType \/ MType \/ IType \/ Shift \/ Lui

Spec == Init /\ [][Next]_vars

------------------------------------------------------------------------------
(* Properties.  P and Q are two different registers other than x0.          *)

P == CHOOSE r \in XRegs : r # 0
Q == CHOOSE r \in XRegs : r \notin {0, P}

\* What an instruction leaves in P when P and Q are its operands.
Result(op(_, _, _, _)) == op(x, P, Q, P)[P]

Signed(n) == s(n, XLEN)

\* Every register holds a word, and x0 reads as zero whatever was written to it
\* (registers.rs, XRegisters::write drops writes to x0).
TypeOK == x \in [XRegs -> Word] /\ x[0] = 0 /\ steps \in 0..MaxSteps

\* DIV and REM of any operands fit together: the dividend is the quotient times
\* the divisor plus the remainder, the remainder is smaller than the divisor
\* and has the sign of the dividend; division by zero and the quotient that
\* does not fit included (rv32m.rs, run_div and run_rem).
DivisionLaw ==
  LET a == Signed(x[P])
      b == Signed(x[Q])
      q == Signed(Result(run_div))
      m == Signed(Result(run_rem))
  IN /\ wrap(q * b + m) = x[P]
     /\ b # 0 => Abs(m) < Abs(b)
     /\ m # 0 => (m < 0) = (a < 0)
     /\ q # 0 /\ b # 0 /\ q # -(2^(XLEN - 1)) => (q < 0) = ((a < 0) # (b < 0))

\* The same of the unsigned division, and of the divisions of the low halves,
\* whose results are sign-extended (rv32m.rs, run_divu and run_remu; rv64m.rs).
NarrowDivisionLaw ==
  LET low(n) == u(n, HALF)
      fits(q, m) == low(q * x[Q] + m) = low(x[P])
  IN /\ wrap(Result(run_divu) * x[Q] + Result(run_remu)) = x[P]
     /\ x[Q] # 0 => Result(run_remu) < x[Q]
     /\ fits(Result(run_divw), Result(run_remw))
     /\ fits(Result(run_divuw), Result(run_remuw))
     /\ low(x[Q]) # 0 => /\ low(Result(run_remuw)) < low(x[Q])
                        /\ Abs(s(Result(run_remw), HALF)) < Abs(s(x[Q], HALF))

\* MULH, MULHSU and MULHU give the upper word of the product MUL gives the
\* lower word of, for each reading of the signs (rv32m.rs).
ProductLaw ==
  LET high(h) == h * 2^XLEN + Result(run_mul)
  IN /\ high(Signed(Result(run_mulh))) = Signed(x[P]) * Signed(x[Q])
     /\ high(Signed(Result(run_mulhsu))) = Signed(x[P]) * x[Q]
     /\ high(Result(run_mulhu)) = x[P] * x[Q]

\* An instruction on low halves gives what it gives when the upper halves of
\* its operands are cleared, and its result is sign-extended, so programs of
\* them never depend on stale upper bits (rv64i.rs, rv64m.rs).
LowHalvesOnly ==
  LET cleared == [r \in XRegs |-> u(x[r], HALF)]
      same(op(_, _, _, _)) == /\ Result(op) = op(cleared, P, Q, P)[P]
                              /\ Result(op) = extend(Result(op))
  IN /\ same(run_addw) /\ same(run_subw) /\ same(run_mulw)
     /\ same(run_sllw) /\ same(run_srlw) /\ same(run_sraw)
     /\ same(run_divw) /\ same(run_divuw) /\ same(run_remw) /\ same(run_remuw)

\* The comparisons agree with each other, with subtraction and with their
\* immediate forms (rv32i.rs, run_slt, run_sltu, run_slti and run_sltiu).
ComparisonLaw ==
  LET negated == Signed(Result(run_sub)) < 0
      overflow == (Signed(x[P]) < 0) # (Signed(x[Q]) < 0) /\ negated # (Signed(x[P]) < 0)
  IN /\ Result(run_slt) = OneIf(negated # overflow)
     /\ Result(run_sltu) + run_sltu(x, Q, P, P)[P] = OneIf(x[P] # x[Q])
     /\ \A imm \in Immediates :
          LET loaded == run_addi(x, imm, 0, Q)
          IN /\ run_slti(x, imm, P, P)[P] = run_slt(loaded, P, Q, P)[P]
             /\ run_sltiu(x, imm, P, P)[P] = run_sltu(loaded, P, Q, P)[P]

\* Each shift by an immediate gives what the shift by a register holding that
\* amount gives, for the amounts below the width (rv64i.rs).
ShiftsAgree ==
  \A n \in 0..(XLEN - 1) :
    LET amount == run_addi(x, n, 0, Q)
        same(opi(_, _, _, _), imm, op(_, _, _, _)) ==
          opi(x, imm, P, P)[P] = op(amount, P, Q, P)[P]
    IN /\ same(run_slli, n, run_sll) /\ same(run_srli, n, run_srl)
       /\ same(run_srai, tagged(n), run_sra)
       /\ n < HALF => /\ same(run_slliw, n, run_sllw) /\ same(run_srliw, n, run_srlw)
                      /\ same(run_sraiw, tagged(n), run_sraw)

\* The instructions agree with the arithmetic they stand for, on all operands of
\* the registers, zero, overflow and stale upper halves included.
IntegerLaws ==
  /\ TypeOK /\ DivisionLaw /\ NarrowDivisionLaw /\ ProductLaw /\ LowHalvesOnly
  /\ ComparisonLaw /\ ShiftsAgree
==============================================================================
