---------------------------- MODULE ApexAssembler ----------------------------
(***************************************************************************)
(* Properties of the parser: the instructions it makes are the lines of    *)
(* the file, each by itself, as the simulator's own listing shows them.    *)
(***************************************************************************)
EXTENDS ApexParser, ApexPrint

\* The operands a line of this opcode has: those the listing shows.
Syntax(op) == ShownOperands([NoInsn EXCEPT !.opcode = op])

WellWritten(l) ==
  /\ l.mnemonic \in Mnemonics
  /\ DOMAIN l.operands = DOMAIN Syntax(OpcodeOf(l))
  /\ \A k \in DOMAIN l.operands : l.operands[k].sigil = Syntax(OpcodeOf(l))[k].sigil

InProgramRegisters(l) ==
  \A k \in DOMAIN l.operands :
    l.operands[k].sigil = "R" => l.operands[k].value \in ProgramRegisters

\* The lines that are instructions already.
Parsed == 1 .. current_instruction

\* print_instruction_arch shows of every instruction the operands its line has, in their
\* order: the parser's table of operands and the printer's are the same.
PrintedAsWritten ==
  \A k \in Parsed :
    WellWritten(file[k]) =>
      /\ code_memory[k].opcode = OpcodeOf(file[k])
      /\ ShownOperands(code_memory[k]) = file[k].operands

\* The same line gives the same instruction wherever it stands: nothing of the lines
\* before it, whose operands are still in the buffers, gets into it.
LinesStandAlone ==
  \A j, k \in Parsed :
    file[j] = file[k] /\ WellWritten(file[k]) => code_memory[j] = code_memory[k]

\* What the pipeline takes for granted of its code memory: of a file whose registers
\* exist, every element is an instruction on a program's registers.
LoadsPrograms ==
  /\ outcome = "loaded"
  /\ \A k \in DOMAIN file : WellWritten(file[k]) /\ InProgramRegisters(file[k])
  => code_memory \in Seq(Insns)

\* "Invalid opcode" is not said of a line that is an instruction with its operands.
OnlyInvalidOpcodesAbort == outcome = "aborted" => ~WellWritten(ThisLine)
=============================================================================
