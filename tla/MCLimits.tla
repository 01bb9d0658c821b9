------------------------------ MODULE MCLimits ------------------------------
(***************************************************************************)
(* Programs that fill every queue of a machine with small arrays, leave    *)
(* loops on mispredictions at any time, or run into the ends of the arrays.*)
(* Nothing is asked of their results, only that the pipeline's structures  *)
(* stay consistent.  The cycle limit ends those that never halt.           *)
(***************************************************************************)
EXTENDS ApexPipeline

I(op, rd, rs1, rs2, imm) ==
  [opcode |-> op, rd |-> rd, rs1 |-> rs1, rs2 |-> rs2, imm |-> imm]

Halt == I("HALT", 0, 0, 0, 0)
Nop == I("NOP", 0, 0, 0, 0)

First ==
  {I("MUL", 1, 0, 0, 0), I("CMP", 0, 0, 0, 0),
   I("MOVC", 1, 0, 0, 3), I("LOADP", 1, 0, 0, 0), I("STORE", 0, 0, 0, 1)}
Second ==
  {I("MUL", 1, 0, 0, 0), I("ADD", 1, 0, 1, 0),
   I("STOREP", 0, 1, 0, 0), I("LOAD", 1, 0, 0, 0), I("STORE", 0, 0, 0, 1)}
After == First \cup Second \cup
  {I("LOAD", 1, 0, 0, 40), I("BNP", 0, 0, 0, 4),
   I("JUMP", 0, 0, 0, 4000), I("JALR", 0, 1, 0, 4004), I("DIV", 0, 0, 0, 0)}
Loops == {<<I("SUBL", 0, 0, 0, 1), I("BNZ", 0, 0, 0, -8)>>,
          <<I("SUBL", 0, 0, 0, 1), I("BP", 0, 0, 0, -12)>>,
          <<I("CML", 0, 0, 0, 2), I("BZ", 0, 0, 0, -12)>>,
          <<I("CML", 0, 0, 0, 2), I("BNP", 0, 0, 0, -8)>>}

\* Loops so long that older memory operations commit while those of a wrong path are in
\* the load-store queue.
Memory == {I("LOAD", 1, 0, 0, 1), I("STORE", 0, 0, 0, 2)}
LongLoops ==
  {<<I("MOVC", 0, 0, 0, 2), I("MOVC", 1, 0, 0, 1), a, b, Nop>> \o c
     \o <<I("SUBL", 0, 0, 0, 1), I("BNZ", 0, 0, 0, -4 * (4 + Len(c))), Halt>> :
     a, b \in Memory, c \in {<<>>} \cup {<<i>> : i \in Memory \cup {Nop}}}

\* A BNP whose misprediction is found when only the committed head is left.
FlushOfDeletedHead ==
  {<<I("MOVC", 0, 0, 0, 1)>> \o middle \o <<I("BNZ", 0, 0, 0, -8), Halt>> :
     middle \in {<<Nop, I("BNP", 0, 0, 0, 4)>>, <<I("BNP", 0, 0, 0, 4), Nop>>}}

\* A load and a store behind the end of data_memory.
OutsideMemory ==
  {<<I("MOVC", 0, 0, 0, 1), i, Halt>> :
     i \in {I("LOAD", 1, 0, 0, DATA_MEMORY_SIZE), I("STORE", 0, 0, 0, DATA_MEMORY_SIZE)}}

\* Loops of multiplications that wait for each other: they fill the issue queue.
Chains ==
  {<<I("MOVC", 0, 0, 0, 3), I("MOVC", 1, 0, 0, 1)>> \o c
     \o <<I("SUBL", 0, 0, 0, 1), I("BNZ", 0, 0, 0, -4 * (1 + Len(c))), Halt>> :
     c \in UNION {[1 .. n -> {I("MUL", 1, 1, 1, 0), Nop}] : n \in 2 .. 4}}

MCPrograms ==
  {<<I("MOVC", 0, 0, 0, 2), a, b>> \o l \o <<d, Halt>> :
     a \in First, b \in Second, l \in Loops, d \in After}
  \cup LongLoops \cup Chains \cup FlushOfDeletedHead \cup OutsideMemory
MCBitwise(op, a, b) == 0
=============================================================================
