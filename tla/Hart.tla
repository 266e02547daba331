-------------------------------- MODULE Hart --------------------------------
(***************************************************************************)
(* A hart of the RISC-V interpreter: privilege modes, traps, returns from   *)
(* traps, control and status instructions, jumps, and calls to the          *)
(* environment (machine_state.rs, machine_state/hart_state.rs, traps.rs,    *)
(* interpreter/rv64priv.rs, rv64zicsr.rs, rv32i.rs, exec_env/posix.rs).     *)
(*                                                                          *)
(* The memory is left out: a fetch gives any of Instrs, or faults.  satp is *)
(* not among the registers, so addresses are not translated.  A register    *)
(* and an address are sets of bit positions, as in CSRegisters.             *)
(***************************************************************************)
EXTENDS CSRegisters

CONSTANTS
  Csrs,         \* the registers that are stored; no views
  XRegs,        \* the general registers used: 0, a0, a7 and others
  Programs,     \* kinds of programs: x, what the general registers hold at the
                \* start, instrs, the instructions that memory may hold,
                \* exit_mode, that of PosixState, and steps, a bound
  InitialPc,    \* where the program starts
  MaxPcBit      \* bound on the addresses that are followed

VARIABLES
  program,      \* the kind of the program
  h,            \* HartState: csr, mode, pc, x
  call,         \* the EnvironException step has just returned, if any
  exit,         \* PosixState: exited, code
  steps
vars == <<program, h, call, exit, steps>>

Instrs == Programs[program].instrs
ExitMode == Programs[program].exit_mode

a0 == 10
a7 == 17

------------------------------------------------------------------------------
(* General registers.                                                       *)

Four == {2}

xread(k, r) == IF r = 0 THEN {} ELSE k.x[r]
\* x0 written as the others.
xwrite_zero(k, r, v) == [k EXCEPT !.x[r] = v]

xwrite(k, r, v) == IF r = 0 THEN k ELSE [k EXCEPT !.x[r] = v]

------------------------------------------------------------------------------
(* Traps.  A trap is [interrupt, code, tval].                               *)

Exc(code, tval) == [interrupt |-> FALSE, code |-> code, tval |-> tval]
Intr(code) == [interrupt |-> TRUE, code |-> code, tval |-> {}]

InstructionAccessFault(addr) == Exc(1, addr)
IllegalInstruction == Exc(2, {})
Breakpoint == Exc(3, {})
EnvCallFrom(mode) == Exc(8 + mode, {})       \* 8, 9 and 11

\* TrapContext::xcause
xcause(t) == ToBits(t.code) \cup (IF t.interrupt THEN {63} ELSE {})

\* TrapContext::trap_handler_address: interrupts may be vectored.
trap_handler_address(t, xtvec) ==
  IF t.interrupt /\ xtvec \cap {0, 1} = {0} THEN Add(xtvec \ {0, 1}, ToBits(4 * t.code))
  ELSE xtvec \ {0, 1}

XReg(mode) == IF mode = Supervisor
              THEN [tvec |-> R.stvec, epc |-> R.sepc, cause |-> R.scause, tval |-> R.stval]
              ELSE [tvec |-> R.mtvec, epc |-> R.mepc, cause |-> R.mcause, tval |-> R.mtval]

\* The status for the handler: interrupts off, and what they were remembered,
\* with the mode.
StatusOnTrap(v, trap_mode, mode) ==
  IF trap_mode = Supervisor
  THEN set_SPP(set_flag(set_flag(v, SPIE, get_flag(v, SIE)), SIE, FALSE), mode)
  ELSE set_MPP(set_flag(set_flag(v, MPIE, get_flag(v, MIE)), MIE, FALSE), mode)

WriteTrap(csr, x, t, return_pc) ==
  csr_write(csr_write(csr_write(csr, x.epc, return_pc), x.cause, xcause(t)), x.tval, t.tval)

TrapInto(k, t, m, csr) ==
  [k EXCEPT !.csr = csr_write(csr, R.mstatus, StatusOnTrap(csr_read(csr, R.mstatus), m, k.mode)),
            !.mode = m]

\* HartState::take_trap, without the program counter.
take_trap(k, t, return_pc) ==
  TrapInto(k, t, get_trap_mode(k.csr, t.interrupt, t.code, k.mode),
           WriteTrap(k.csr, XReg(get_trap_mode(k.csr, t.interrupt, t.code, k.mode)), t, return_pc))

\* What take_trap returns: the address of the handler in the mode it entered.
HandlerAfter(k, t) == trap_handler_address(t, csr_read(k.csr, XReg(k.mode).tvec))

------------------------------------------------------------------------------
(* Returns from traps.  An instruction gives [k, next]: the hart, and next  *)
(* is <<"Set", address>>, <<"Add">> or <<"Err", exception>>.                *)

Ok(k) == [k |-> k, next |-> <<"Add">>]
Jump(k, address) == [k |-> k, next |-> <<"Set", address>>]
Err(k, e) == [k |-> k, next |-> <<"Err", e>>]

\* MIE keeps its value.
StatusOnMret_keep(v) ==
  set_MPP(set_flag(IF get_MPP(v) = Machine THEN v ELSE set_flag(v, MPRV, FALSE), MPIE, TRUE), User)

StatusOnMret(v) ==
  LET enabled == set_flag(set_flag(v, MIE, get_flag(v, MPIE)), MPIE, TRUE)
  IN set_MPP(IF get_MPP(v) = Machine THEN enabled ELSE set_flag(enabled, MPRV, FALSE), User)

run_mret(k) ==
  IF k.mode # Machine THEN Err(k, IllegalInstruction)
  ELSE Jump([k EXCEPT !.csr = csr_write(@, R.mstatus, StatusOnMret(csr_read(@, R.mstatus))),
                      !.mode = get_MPP(csr_read(k.csr, R.mstatus))],
            csr_read(k.csr, R.mepc))

\* SIE keeps its value.
StatusOnSret_keep(v) == set_flag(set_SPP(set_flag(v, SPIE, TRUE), User), MPRV, FALSE)

StatusOnSret(v) ==
  set_flag(set_SPP(set_flag(set_flag(v, SIE, get_flag(v, SPIE)), SPIE, TRUE), User), MPRV, FALSE)

run_sret(k) ==
  IF k.mode = User \/ get_flag(csr_read(k.csr, R.mstatus), TSR) THEN Err(k, IllegalInstruction)
  ELSE Jump([k EXCEPT !.csr = csr_write(@, R.mstatus, StatusOnSret(csr_read(@, R.mstatus))),
                      !.mode = get_SPP(csr_read(k.csr, R.mstatus))],
            csr_read(k.csr, R.sepc))

sfence_vma(k) ==
  IF get_flag(csr_read(k.csr, R.mstatus), TVM) /\ k.mode = Supervisor
  THEN Err(k, IllegalInstruction) ELSE Ok(k)

------------------------------------------------------------------------------
(* Zicsr.                                                                   *)

\* changed is <<csr, old value>>.
WithOld(k, changed, rd) == Ok(xwrite([k EXCEPT !.csr = changed[1]], rd, changed[2]))

csr_replace(k, reg, value, rd) ==
  IF ~check_privilege(reg, k.mode) \/ ~check_write(reg) THEN Err(k, IllegalInstruction)
  ELSE WithOld(k, replace(k.csr, reg, value), rd)

\* When there are no bits to change the register is only read, which a
\* register that is read-only allows.
csr_bits(k, reg, none, changed, rd) ==
  IF ~check_privilege(reg, k.mode) THEN Err(k, IllegalInstruction)
  ELSE IF none THEN Ok(xwrite(k, rd, csr_read(k.csr, reg)))
  ELSE IF ~check_write(reg) THEN Err(k, IllegalInstruction)
  ELSE WithOld(k, changed, rd)

run_csrrw(k, reg, rs1, rd) == csr_replace(k, reg, xread(k, rs1), rd)

run_csrrwi(k, reg, imm, rd) == csr_replace(k, reg, imm \cap ones(5), rd)

run_csrrs(k, reg, rs1, rd) ==
  csr_bits(k, reg, rs1 = 0, set_bits(k.csr, reg, xread(k, rs1)), rd)

run_csrrsi(k, reg, imm, rd) ==
  csr_bits(k, reg, imm \cap ones(5) = {}, set_bits(k.csr, reg, imm \cap ones(5)), rd)

run_csrrc(k, reg, rs1, rd) ==
  csr_bits(k, reg, rs1 = 0, clear_bits(k.csr, reg, xread(k, rs1)), rd)

run_csrrci(k, reg, imm, rd) ==
  csr_bits(k, reg, imm \cap ones(5) = {}, clear_bits(k.csr, reg, imm \cap ones(5)), rd)

------------------------------------------------------------------------------
(* Jumps, branches and calls.  They read the hart's program counter.        *)

run_auipc(k, imm, rd) == Ok(xwrite(k, rd, Add(k.pc, imm)))

run_jalr(k, imm, rs1, rd) ==
  Jump(xwrite(k, rd, Add(k.pc, Four)), Add(xread(k, rs1), imm) \ {0})

run_jal(k, imm, rd) == Jump(xwrite(k, rd, Add(k.pc, Four)), Add(k.pc, imm))

Branch(k, taken, imm) == Jump(k, Add(k.pc, IF taken THEN imm ELSE Four))

run_beq(k, imm, rs1, rs2) == Branch(k, xread(k, rs1) = xread(k, rs2), imm)

run_bne(k, imm, rs1, rs2) == Branch(k, xread(k, rs1) # xread(k, rs2), imm)

run_bge(k, imm, rs1, rs2) == Branch(k, ~LessS(xread(k, rs1), xread(k, rs2)), imm)

run_bgeu(k, imm, rs1, rs2) == Branch(k, ~LessU(xread(k, rs1), xread(k, rs2)), imm)

run_blt(k, imm, rs1, rs2) == Branch(k, LessS(xread(k, rs1), xread(k, rs2)), imm)

run_bltu(k, imm, rs1, rs2) == Branch(k, LessU(xread(k, rs1), xread(k, rs2)), imm)

run_ebreak(k) == Err(k, Breakpoint)

run_ecall(k) == Err(k, EnvCallFrom(k.mode))

------------------------------------------------------------------------------
(* MachineState.  An instruction is its name and arguments; "Raise" stands  *)
(* for the loads and stores that fault, "Fault" for a fetch that does.      *)

run_instr(k, i) ==
  CASE i.name = "Csrrw" -> run_csrrw(k, i.csr, i.rs1, i.rd)
    [] i.name = "Csrrs" -> run_csrrs(k, i.csr, i.rs1, i.rd)
    [] i.name = "Csrrc" -> run_csrrc(k, i.csr, i.rs1, i.rd)
    [] i.name = "Csrrwi" -> run_csrrwi(k, i.csr, i.imm, i.rd)
    [] i.name = "Csrrsi" -> run_csrrsi(k, i.csr, i.imm, i.rd)
    [] i.name = "Csrrci" -> run_csrrci(k, i.csr, i.imm, i.rd)
    [] i.name = "Mret" -> run_mret(k)
    [] i.name = "Sret" -> run_sret(k)
    [] i.name = "SFenceVma" -> sfence_vma(k)
    [] i.name \in {"Wfi", "Fence", "FenceI"} -> Ok(k)
    [] i.name = "Ecall" -> run_ecall(k)
    [] i.name = "Ebreak" -> run_ebreak(k)
    [] i.name = "Auipc" -> run_auipc(k, i.imm, i.rd)
    [] i.name = "Jal" -> run_jal(k, i.imm, i.rd)
    [] i.name = "Jalr" -> run_jalr(k, i.imm, i.rs1, i.rd)
    [] i.name = "Beq" -> run_beq(k, i.imm, i.rs1, i.rs2)
    [] i.name = "Bne" -> run_bne(k, i.imm, i.rs1, i.rs2)
    [] i.name = "Bge" -> run_bge(k, i.imm, i.rs1, i.rs2)
    [] i.name = "Bgeu" -> run_bgeu(k, i.imm, i.rs1, i.rs2)
    [] i.name = "Blt" -> run_blt(k, i.imm, i.rs1, i.rs2)
    [] i.name = "Bltu" -> run_bltu(k, i.imm, i.rs1, i.rs2)
    [] i.name = "Raise" -> Err(k, Exc(i.code, i.addr))
    [] i.name \in {"Unknown", "UnknownCompressed", "Mnret", "FenceTso"} ->
         Err(k, IllegalInstruction)

run_instr_at(k, instr_pc, i) ==
  IF i.name = "Fault" THEN Err(k, InstructionAccessFault(instr_pc)) ELSE run_instr(k, i)

Priority == <<11, 3, 7, 9, 1, 5>>

\* The interrupt taken next; possible is what the mode allows.
get_pending_interrupt(k) ==
  LET active == csr_read(k.csr, R.mip) \cap possible_interrupts(k.csr, k.mode)
      ranks == {r \in DOMAIN Priority : Priority[r] \in active}
  IN IF ranks = {} THEN None
     ELSE Some(Priority[CHOOSE r \in ranks : \A q \in ranks : r <= q])

\* address_on_interrupt: the hart afterwards; its bit of mip is cleared.
OnInterrupt(k, code) ==
  take_trap([k EXCEPT !.csr = csr_write(@, R.mip, csr_read(@, R.mip) \ {code})],
            Intr(code), k.pc)

\* The hart and the address step executes at.
Begin(k, pending) ==
  IF pending = None THEN [k |-> k, at |-> k.pc]
  ELSE LET trapped == OnInterrupt(k, pending[1])
       IN [k |-> trapped, at |-> HandlerAfter(trapped, Intr(pending[1]))]

IsEnviron(e) == ~e.interrupt /\ e.code \in {8, 9, 11}

Taken(k, e) == [k EXCEPT !.pc = HandlerAfter(k, e)]

\* address_on_exception and the update of the program counter.  A call is left
\* to the environment, with the program counter at the call.
Finish(r, at) ==
  CASE r.next[1] = "Add" -> [k |-> [r.k EXCEPT !.pc = Add(at, Four)], call |-> None]
    [] r.next[1] = "Set" -> [k |-> [r.k EXCEPT !.pc = r.next[2]], call |-> None]
    [] r.next[1] = "Err" /\ IsEnviron(r.next[2]) ->
         [k |-> [r.k EXCEPT !.pc = at], call |-> Some(r.next[2])]
    [] OTHER -> [k |-> Taken(take_trap(r.k, r.next[2], at), r.next[2]), call |-> None]

StepFrom(b, i) == Finish(run_instr_at(b.k, b.at, i), b.at)

step(k, i) == StepFrom(Begin(k, get_pending_interrupt(k)), i)

------------------------------------------------------------------------------
(* The environment.                                                         *)

Init ==
  /\ program \in DOMAIN Programs
  /\ h = [csr |-> csr_reset(Csrs), mode |-> Machine, pc |-> InitialPc, x |-> Programs[program].x]
  /\ call = None
  /\ exit = [exited |-> FALSE, code |-> {}]
  /\ steps = 0

Followed(pc) == pc \subseteq 0..MaxPcBit

Step(i) ==
  /\ call = None /\ ~exit.exited
  /\ steps < Programs[program].steps /\ steps' = steps + 1
  /\ \E s \in {step(h, i)} :
       /\ Followed(s.k.pc)
       /\ h' = s.k
       /\ call' = s.call
  /\ UNCHANGED <<program, exit>>

ModeOfCall(e) == e.code - 8

\* PosixState::handle_call: a call from another mode than the exit mode is a
\* trap of the program.
TrapCall ==
  /\ call # None /\ ModeOfCall(call[1]) # ExitMode
  /\ \E k \in {take_trap(h, call[1], h.pc)} :
       /\ Followed(HandlerAfter(k, call[1]))
       /\ h' = Taken(k, call[1])
  /\ call' = None
  /\ UNCHANGED <<program, exit, steps>>

\* The exit of a test, physical or virtual; any other call is fatal.
ExitCode(a7_val, a0_val) ==
  IF a7_val \notin {{}, ToBits(93)} THEN None
  ELSE Some(IF a7_val = {} /\ a0_val = {0} THEN {} ELSE a0_val)

ExitCall ==
  /\ call # None /\ ModeOfCall(call[1]) = ExitMode
  /\ ExitCode(xread(h, a7), xread(h, a0)) # None
  /\ exit' = [exited |-> TRUE, code |-> ExitCode(xread(h, a7), xread(h, a0))[1]]
  /\ call' = None
  /\ UNCHANGED <<program, h, steps>>

Next == (\E i \in Instrs : Step(i)) \/ TrapCall \/ ExitCall

Spec == Init /\ [][Next]_vars

------------------------------------------------------------------------------
(* Properties.                                                              *)

status == csr_read(h.csr, R.mstatus)

\* Traps of every kind: delegated by default or never, of each mode.
Traps == {Exc(c, {2}) : c \in {2, 9, 11, 13}} \cup {Intr(c) : c \in {1, 3, 9, 11}}

\* Registers hold what their masks allow and x0 is never written; the views
\* have no storage of their own (csregisters.rs, registers.rs).
TypeOK ==
  /\ h.mode \in Modes /\ Followed(h.pc) /\ 0 \notin h.pc
  /\ DOMAIN h.csr = Csrs /\ \A c \in Csrs : h.csr[c] \subseteq AllBits
  /\ DOMAIN h.x = XRegs /\ h.x[0] = {}
  /\ call # None => IsEnviron(call[1])

\* No trap goes to a mode with less privilege, whatever is delegated
\* (csregisters.rs, get_trap_mode; hart_state.rs, the unreachable! for traps
\* from machine mode to supervisor mode).
TrapsNeverLower == \A t \in Traps : take_trap(h, t, h.pc).mode >= h.mode

\* The handler that returns at once puts the hart back where it was: same mode,
\* same interrupt enables, same place (take_trap with run_mret and run_sret).
ReturnRestores ==
  \A t \in Traps :
    \E k \in {take_trap(h, t, h.pc)} :
      \E back \in {IF k.mode = Machine THEN run_mret(k) ELSE run_sret(k)} :
        \/ k.mode = Supervisor /\ get_flag(csr_read(k.csr, R.mstatus), TSR)
        \/ /\ back.next = <<"Set", h.pc>>
           /\ back.k.mode = h.mode
           /\ \A f \in {MIE, SIE} : get_flag(csr_read(back.k.csr, R.mstatus), f) = get_flag(status, f)

\* mstatus is never in a state its fields do not allow: SD says whether an
\* extension is dirty, the previous mode exists, the widths are 64 bits,
\* however it was written (xstatus.rs, apply_warl_mstatus).
StatusLegal ==
  /\ get_flag(status, SD) <=> \E f \in {XS, FS, VS} : get_field(status, f) = Dirty
  /\ get_field(status, MPP) # {1}
  /\ get_field(status, UXL) = MXL64 /\ get_field(status, SXL) = MXL64

\* What is stored for machine mode only.  SRET clears MPRV in any mode.
MachineOnly(csr) ==
  [mstatus |-> csr[R.mstatus] \ (SSTATUS_FIELDS_MASK \cup field_mask(MPRV)),
   mie |-> csr[R.mie] \ SUPERVISOR_BIT_MASK,
   others |-> [c \in {R.mideleg, R.medeleg, R.mtvec, R.mepc, R.mcause, R.mtval} |-> csr[c]]]

ToMachine(k, pending) ==
  pending # None /\ get_trap_mode(k.csr, TRUE, pending[1], k.mode) = Machine

\* Outside machine mode no instruction changes what is machine mode's, through
\* a view of it or otherwise, unless a trap enters machine mode
\* (csregisters.rs, transform_write and check_privilege).
SupervisorConfined ==
  [][h.mode # Machine /\ h'.mode # Machine /\ ~ToMachine(h, get_pending_interrupt(h))
       => /\ MachineOnly(h'.csr) = MachineOnly(h.csr)
          /\ h'.csr[R.mip] \ SUPERVISOR_BIT_MASK \subseteq h.csr[R.mip]]_h

Views == {R.sstatus, R.sip, R.sie} \cup (IF R.fcsr \in Csrs THEN {R.frm, R.fflags} ELSE {})

\* A program that saves a register or a view and writes it back changes
\* nothing (csregisters.rs, read and write).
SaveRestore == \A c \in Csrs \cup Views : csr_write(h.csr, c, csr_read(h.csr, c)) = h.csr

\* The registers the branches of the program compare.
Compared == UNION {{i.rs1, i.rs2} : i \in {j \in Instrs : "rs2" \in DOMAIN j}}

\* Of each pair of branches one is taken, and the signed and the unsigned
\* comparisons differ exactly when the signs do (rv32i.rs, the branches).
BranchesComplement ==
  \A q, r \in Compared :
    LET taken(b) == b.next = <<"Set", Add(h.pc, {4})>>
        signs == (63 \in xread(h, q)) = (63 \in xread(h, r))
    IN /\ taken(run_beq(h, {4}, q, r)) = ~taken(run_bne(h, {4}, q, r))
       /\ taken(run_blt(h, {4}, q, r)) = ~taken(run_bge(h, {4}, q, r))
       /\ taken(run_bltu(h, {4}, q, r)) = ~taken(run_bgeu(h, {4}, q, r))
       /\ taken(run_bge(h, {4}, q, r)) = IF signs THEN taken(run_bgeu(h, {4}, q, r))
                                         ELSE taken(run_bltu(h, {4}, q, r))
       /\ taken(run_bge(h, {4}, q, r)) /\ taken(run_bge(h, {4}, r, q))
            => taken(run_beq(h, {4}, q, r))

\* A call and the return through the link register end after the call, also
\* when the return links into the same register (rv32i.rs, run_jal, run_jalr).
CallReturns ==
  \A r \in Compared, f \in {{4}, {63, 2}} :
    \E callee \in {run_jal(h, f, r)} :
      run_jalr([callee.k EXCEPT !.pc = callee.next[2]], {}, r, r).next = <<"Set", Add(h.pc, Four)>>

\* What a handler, a saved register and a call rely on, in every state that the
\* programs reach (hart_state.rs, csregisters.rs, xstatus.rs, rv32i.rs).
HartLaws ==
  /\ TypeOK /\ TrapsNeverLower /\ ReturnRestores /\ StatusLegal
  /\ SaveRestore /\ BranchesComplement /\ CallReturns

------------------------------------------------------------------------------
(* Instances for TLC.                                                       *)

MCCsrs == {R.mstatus, R.mie, R.mip, R.mideleg, R.medeleg, R.mtvec, R.stvec, R.mepc,
           R.sepc, R.mcause, R.scause, R.mtval, R.stval, R.fcsr}

\* Registers that hold the masks the programs use.
MCXRegs == {0, 1, 5, 6, 7, 8, 9, a0, a7}
MCXValues == [r \in MCXRegs |->
  CASE r = 5 -> {3}                 \* MIE, the machine software interrupt
    [] r = 6 -> {1}                 \* SIE, the supervisor software interrupt
    [] r = 7 -> {11, 12, 17}        \* MPP and MPRV
    [] OTHER -> {}]

Csr(name, c, q) == [name |-> name, csr |-> c, rs1 |-> q, rd |-> 0]
CsrI(name, c, n) == [name |-> name, csr |-> c, imm |-> n, rd |-> 0]
Plain(name) == [name |-> name]

Returns == {Plain("Mret"), Plain("Sret")}
Handlers == {CsrI("Csrrwi", R.mtvec, {3}), CsrI("Csrrwi", R.stvec, {4, 0})}

\* Interrupts raised, enabled, delegated or not, in every mode.
MCInterrupts ==
  Returns \cup Handlers
    \cup {Csr("Csrrs", c, q) : c \in {R.mip}, q \in {5, 6}} \cup {Csr("Csrrs", R.mstatus, 5)}
    \cup {Csr("Csrrs", R.mie, 5), Csr("Csrrs", R.sie, 6), Csr("Csrrs", R.sstatus, 6)}
    \cup {Csr("Csrrc", R.mideleg, q) : q \in {5, 6}}
    \cup {Csr("Csrrc", R.mstatus, 7), Plain("Wfi")}

\* Exceptions and calls, with handlers in both modes.
MCExceptions ==
  Returns \cup Handlers
    \cup {Plain("Ecall"), Plain("Ebreak"), Plain("Unknown"), Plain("SFenceVma"), Plain("Fault"),
          [name |-> "Raise", code |-> 5, addr |-> {4}]}
    \cup {Csr("Csrrc", R.mstatus, 7), CsrI("Csrrci", R.medeleg, {2, 3}),
          CsrI("Csrrwi", R.mepc, {2}), CsrI("Csrrwi", R.sepc, {2, 0})}

\* Writes of the status, the float and the interrupt registers, and their views.
MCStatusWrites ==
  Returns
    \cup {Csr("Csrrs", c, 8) : c \in {R.mstatus, R.sstatus, R.mie}}
    \cup {Csr("Csrrc", c, 9) : c \in {R.mstatus, R.sstatus}}
    \cup {Csr("Csrrw", R.sstatus, 9), Csr("Csrrw", R.mstatus, 7)}
    \cup {Csr("Csrrw", c, 9) : c \in {R.mcause, R.scause, R.sepc}}
    \cup {CsrI("Csrrwi", R.frm, {0, 2}), CsrI("Csrrwi", R.fflags, {3}), CsrI("Csrrwi", R.fcsr, {4, 0})}
    \cup {CsrI("Csrrsi", R.sie, {1, 3})}
MCStatusXValues == [r \in MCXRegs |->
  CASE r = 7 -> {12, 63, 32}            \* MPP 2, SD, UXL
    [] r = 8 -> {9, 13, 14, 17}         \* VS initial, FS dirty, MPRV
    [] r = 9 -> {3, 13, 63, 0}
    [] OTHER -> {}]

\* Jumps and branches over words of both signs.
MCJumps ==
  {[name |-> n, rs1 |-> 5, rs2 |-> 6, imm |-> {3}] : n \in {"Beq", "Bge", "Bltu"}}
    \cup {[name |-> n, rs1 |-> 1, rs2 |-> 7, imm |-> {4}] : n \in {"Bne", "Blt", "Bgeu"}}
    \cup {[name |-> "Jal", imm |-> {3}, rd |-> 1], [name |-> "Jalr", imm |-> {2}, rs1 |-> 1, rd |-> 5],
          [name |-> "Auipc", imm |-> {63}, rd |-> 6], [name |-> "Jalr", imm |-> {0}, rs1 |-> 1, rd |-> 0],
          [name |-> "Auipc", imm |-> {4}, rd |-> 1], Plain("Fence"), Plain("Ecall")}
MCJumpXValues == [r \in MCXRegs |->
  CASE r = 5 -> AllBits [] r = 6 -> {63} [] r = 7 -> {0} [] OTHER -> {}]

Program(x, instrs, exit_mode, n) == [x |-> x, instrs |-> instrs, exit_mode |-> exit_mode, steps |-> n]

MCPrograms ==
  <<Program(MCXValues, MCInterrupts, User, 5), Program(MCXValues, MCExceptions, User, 4),
    Program(MCStatusXValues, MCStatusWrites, User, 4), Program(MCJumpXValues, MCJumps, Machine, 4)>>
==============================================================================
