----------------------------- MODULE MCSimulator -----------------------------
(***************************************************************************)
(* The simulator on files of every instruction, of programs that fill the  *)
(* queues and of programs the pipeline never finishes.                     *)
(***************************************************************************)
EXTENDS ApexSimulator

I(op, rd, rs1, rs2, imm) ==
  [opcode |-> op, rd |-> rd, rs1 |-> rs1, rs2 |-> rs2, imm |-> imm]

Movc(rd, imm) == I("MOVC", rd, 0, 0, imm)
Nop == I("NOP", 0, 0, 0, 0)
Halt == I("HALT", 0, 0, 0, 0)

\* The operands an instruction of this opcode does not have are 0 in code memory.
Every ==
  {I(op, 2, 0, 1, 0) : op \in Alu2Ops \cup {"DIV"}}
    \cup {I(op, 2, 0, 0, 5) : op \in AluLiteralOps \cup LoadOps}
    \cup {I(op, 0, 2, 1, 5) : op \in StoreOps} \cup {I("CMP", 0, 0, 1, 0)}
    \cup {I("CML", 0, 1, 0, 2), Movc(2, 9), Nop, Halt}
    \cup {I(op, 0, 0, 0, 8) : op \in ConditionalBranches}
    \cup {I("JUMP", 0, 0, 0, 4014), I("JALR", 2, 0, 0, 4014)}

Short == {<<Movc(0, 2), Movc(1, 3), i, Nop, Halt>> : i \in Every}

Memory == {I("LOAD", 2, 1, 0, 1), I("STORE", 0, 0, 1, 2)}
Mixed == {<<Movc(0, 2), Movc(1, 1), a, b, I("MUL", 2, 0, 1, 0), b, Nop, a, Halt>> :
            a, b \in Memory}

\* A branch that is not taken the first time it is met stalls decode for good.
Hanging == {<<Movc(0, 1), I("CML", 0, 0, 0, 1), Nop, Nop, Nop, I("BNZ", 0, 0, 0, 8), Nop, Halt>>}

\* Three instructions.
Three == {<<Movc(0, 2), Movc(1, 3), Halt>>}

\* A BNP that is taken: its history counts up from 0.
Taken == {<<Movc(0, 1), I("CML", 0, 0, 0, 1), I("BNP", 0, 0, 0, 8), Nop, Halt>>}

MCPrograms == Short \cup Mixed \cup Hanging
MCBitwise(op, a, b) == 0
=============================================================================
