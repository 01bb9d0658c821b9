------------------------------- MODULE ApexISA -------------------------------
(***************************************************************************)
(* What an APEX program means: one instruction after the other, in program *)
(* order, each on the registers, flags and memory the previous one left.   *)
(* This is the machine the pipeline has to look like at its ARF; module    *)
(* ApexPipeline states that it does.                                       *)
(***************************************************************************)
EXTENDS ApexTypes

CONSTANTS Programs, InitialMemory, BitwiseResult(_, _, _)

VARIABLES program, regs, flags, mem, halted

isaVars == <<program, regs, flags, mem, halted>>

ISAInit ==
  /\ program \in Programs
  /\ regs = [r \in Registers |-> 0]
  /\ flags = "none"
  /\ mem = InitialMemory
  /\ halted = FALSE

InstructionAt(at) == program[(at - FIRST_PC) \div 4 + 1]

\* A zero result sets Z, any other P: a negative result counts as positive.
FlagsOf(value) == IF value = 0 THEN "zero" ELSE "positive"

BranchTaken(op) ==
  \/ op = "BZ" /\ flags = "zero"
  \/ op = "BNZ" /\ flags # "zero"
  \/ op = "BP" /\ flags = "positive"
  \/ op = "BNP" /\ flags # "positive"

\* Where execution continues after the last executed instruction.  A JALR whose
\* destination is its own base would need its old base here; no program has one.
NextPc ==
  LET last == regs[LAST_PC]
      i == InstructionAt(last)
  IN  IF last = 0 THEN FIRST_PC
      ELSE IF i.opcode \in JumpOps THEN regs[i.rs1] + i.imm
      ELSE IF BranchTaken(i.opcode) THEN last + i.imm
      ELSE last + 4

AluResult(i) ==
  LET a == regs[i.rs1]
      b == IF i.opcode \in Source2Ops THEN regs[i.rs2] ELSE i.imm
  IN  CASE i.opcode \in {"ADD", "ADDL"} -> a + b
        [] i.opcode \in {"SUB", "SUBL", "CMP", "CML"} -> a - b
        [] i.opcode = "MUL" -> a * b
        [] OTHER -> BitwiseResult(i.opcode, a, b)

Address(i) ==
  IF i.opcode \in StoreOps THEN regs[i.rs2] + i.imm ELSE regs[i.rs1] + i.imm

\* The registers after i at pc at; a pointer operation also advances its base.
RegsAfter(i, at) ==
  LET result == CASE i.opcode = "MOVC" -> i.imm
                  [] i.opcode \in LoadOps -> mem[Address(i)]
                  [] i.opcode = "JALR" -> at + INCREMENTOR
                  [] OTHER -> AluResult(i)
      written == IF i.opcode \in DestinationOps
                 THEN [regs EXCEPT ![i.rd] = result] ELSE regs
  IN  CASE i.opcode = "LOADP" ->
             [written EXCEPT ![i.rs1] = regs[i.rs1] + INCREMENTOR, ![LAST_PC] = at]
        [] i.opcode = "STOREP" ->
             [written EXCEPT ![i.rs2] = regs[i.rs2] + INCREMENTOR, ![LAST_PC] = at]
        [] OTHER -> [written EXCEPT ![LAST_PC] = at]

Execute(at) ==
  LET i == InstructionAt(at)
  IN  /\ ~halted
      /\ regs' = RegsAfter(i, at)
      /\ flags' = IF i.opcode \in FlagOps THEN FlagsOf(AluResult(i)) ELSE flags
      /\ mem' = IF i.opcode \in StoreOps THEN [mem EXCEPT ![Address(i)] = regs[i.rs1]]
                ELSE mem
      /\ halted' = (i.opcode = "HALT")
      /\ UNCHANGED program

ISANext == Execute(NextPc)
ISASpec == ISAInit /\ [][ISANext]_isaVars
=============================================================================
