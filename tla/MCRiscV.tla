------------------------------ MODULE MCRiscV ------------------------------
(***************************************************************************)
(* The parts of the RISC-V machine below the hart, instantiated for TLC:    *)
(* the state backend, the integer instructions, the decoder, and programs   *)
(* and their boot.  They share no state, so that in each behaviour one part *)
(* moves and the others rest in an initial state.                           *)
(***************************************************************************)
EXTENDS StateBackend

VARIABLES
  part,                                            \* the part that moves
  x, executed,                                     \* IntegerOps
  pending, word, last, halves, advanced,           \* RVParser
  program, machine, emulator, loaded, writes       \* ElfProgram
int_vars == <<x, executed>>
dec_vars == <<pending, word, last, halves, advanced>>
elf_vars == <<program, machine, emulator, loaded, writes>>

------------------------------------------------------------------------------
(* The state backend.                                                       *)

\* The shape of the machine's layout: a hart, with registers of several sizes,
\* next to devices and memory; and smaller ones.
MCLayouts == {
  <<"Tuple", << <<"Atom", 1>>, <<"Array", 2, 2>>, <<"Memory", 2>> >> >>,
  <<"Tuple", << <<"Tuple", << <<"Atom", 1>>, <<"Atom", 2>> >> >>, <<"Memory", 1>> >> >>,
  <<"Repeat", <<"Tuple", << <<"Atom", 1>>, <<"Atom", 2>> >> >>, 2>>}

------------------------------------------------------------------------------
(* The integer instructions, on words of 8 bits.                            *)

\* The words around the boundaries of both widths.
MCBoundaryWords == {0, 1, 7, 8, 127, 128, 255}

\* Immediates have half the bits of a word: the boundary ones.
MCImmediates == {-8, -1, 0, 1, 7}

I == INSTANCE IntegerOps
       WITH XLEN <- 8, XRegs <- {0, 1, 2}, InitialWords <- MCBoundaryWords,
            Immediates <- MCImmediates, MaxSteps <- 2, steps <- executed

------------------------------------------------------------------------------
(* The decoder.                                                             *)

\* The opcodes, for the halfwords below.
Codes == INSTANCE RVParser WITH Halves <- {}, UpperHalves <- {}, MaxHalves <- 0

\* Lower halfwords: every opcode, and one that is none, with every funct3.
MCOpcodes == {Codes!OP[o] : o \in DOMAIN Codes!OP} \cup {\b1111111}
MCLower == {Codes!ToBits(o + 2^7 * 22 + 2^12 * f) : o \in MCOpcodes, f \in 0..7}

\* Halfwords that are compressed instructions.
MCCompressed == {{}, {0, 5}, {1, 15}}

MCHalves == MCLower \cup MCCompressed

\* Upper halfwords: the values of funct7 the decoder looks at and others, with
\* the values of rs2 it looks at where it does.
MCFunct7 == {0, 1, 4, 5, 8, 9, 16, 20, 24, 32, 44, 45, 56, 80, 81, 112, 113, 120, 121, 127}
MCUpper == {Codes!ToBits(f * 2^9) : f \in MCFunct7}
             \cup {Codes!ToBits(f * 2^9 + r * 2^4) : f \in {0, 8, 24, 56}, r \in {1, 2, 5}}
             \cup {Codes!ToBits(f * 2^9 + 21 * 2^4 + 10) : f \in {0, 1, 85, 127}}

P == INSTANCE RVParser WITH Halves <- MCHalves, UpperHalves <- MCUpper, MaxHalves <- 2

------------------------------------------------------------------------------
(* Programs.                                                                *)

Header(load, paddr, file, memsz) == [load |-> load, paddr |-> paddr, file |-> file, memsz |-> memsz]

Elf(type, entry, headers, relocs) ==
  [type |-> type, entry |-> entry, headers |-> headers, relocs |-> relocs]

MCElves ==
  { Elf("EXEC", 9, <<Header(TRUE, 8, <<11, 12>>, 3), Header(TRUE, 12, <<21>>, 1)>>, <<>>),
    Elf("EXEC", 8, <<Header(TRUE, 8, <<11, 12>>, 2), Header(FALSE, 9, <<51, 52>>, 4),
                     Header(TRUE, 10, <<21>>, 4)>>, <<>>),
    Elf("EXEC", 4, <<Header(TRUE, 4, <<11>>, 2)>>, <<>>),
    Elf("DYN", 1, <<Header(TRUE, 0, <<11, 12, 13>>, 3), Header(TRUE, 4, <<21, 22>>, 4)>>, <<0>>),
    Elf("DYN", 0, <<Header(TRUE, 0, <<11>>, 1), Header(TRUE, 1, <<>>, 3)>>, <<1>>),
    Elf("DYN", 2, <<>>, <<>>) }

MCInitrds == {None, Some(<<71, 72>>), Some(<<71, 72, 73, 74, 75, 76, 77, 78, 79>>)}

MCWrites == {[at |-> a, bytes |-> [i \in 1..n |-> b]] : a \in 8..10, n \in 0..3, b \in {31, 32}}

E == INSTANCE ElfProgram
       WITH Elves <- MCElves, Writes <- MCWrites, MaxWrites <- 2, Initrds <- MCInitrds,
            Start <- 8, MemBytes <- 16, RelocLength <- 2, DtbLength <- 1

------------------------------------------------------------------------------
(* All of them.                                                             *)

\* The parts that do not move rest with the first layout and zeroed registers.
RestLayout == CHOOSE l \in Layouts : l[1] = "Repeat"

PartsInit ==
  /\ part \in {"backend", "integer", "decoder", "program"}
  /\ Init /\ (part # "backend" => regions = place(RestLayout).regions)
  /\ I!Init /\ (part # "integer" => x = [r \in {0, 1, 2} |-> 0])
  /\ P!Init /\ E!Init

BackendNext == part = "backend" /\ Next /\ UNCHANGED <<part, int_vars, dec_vars, elf_vars>>
IntegerNext == part = "integer" /\ I!Next /\ UNCHANGED <<part, vars, dec_vars, elf_vars>>
DecoderNext == part = "decoder" /\ P!Next /\ UNCHANGED <<part, vars, int_vars, elf_vars>>
ProgramNext == part = "program" /\ E!Next /\ UNCHANGED <<part, vars, int_vars, dec_vars>>

PartsSpec ==
  PartsInit /\ [][BackendNext \/ IntegerNext \/ DecoderNext \/ ProgramNext]_
                 <<part, vars, int_vars, dec_vars, elf_vars>>

------------------------------------------------------------------------------
(* Properties.  Those of the backend are AllocInv and RegionsIndependent;   *)
(* the others are asked while their part moves.                             *)

\* The instructions agree with the arithmetic they stand for, on all operands of
\* the registers, zero, overflow and stale upper halves included (rv32i.rs,
\* rv64i.rs, rv32m.rs, rv64m.rs).
IntegerLaws == part = "integer" => I!IntegerLaws

\* No byte of code is skipped or decoded twice, no bit of a word is lost, and
\* immediates have their sign (parser.rs).
DecoderLaws == part = "decoder" => P!DecoderLaws

\* Programs keep what was written last in segments that do not overlap, and a
\* boot puts all of it in place (program.rs, setup_boot, kernel_loader).
ProgramLaws == part = "program" => E!ProgramLaws
==============================================================================
