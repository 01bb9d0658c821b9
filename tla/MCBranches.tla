----------------------------- MODULE MCBranches -----------------------------
(***************************************************************************)
(* Programs with branches: loops that count R0 down and leave on a         *)
(* mispredicted BNZ or BP, forward branches of every kind that are taken   *)
(* over the instructions behind them, and jumps with a computed target.    *)
(***************************************************************************)
EXTENDS ApexPipeline

I(op, rd, rs1, rs2, imm) ==
  [opcode |-> op, rd |-> rd, rs1 |-> rs1, rs2 |-> rs2, imm |-> imm]

Nop == I("NOP", 0, 0, 0, 0)
Load == I("LOAD", 2, 1, 0, 0)
Store == I("STORE", 0, 1, 1, 0)
Halt == I("HALT", 0, 0, 0, 0)
Work == {I("MOVC", 2, 0, 0, 7), I("ADDL", 2, 2, 0, 1), Nop}
Nops(n) == [k \in 1 .. n |-> Nop]

Start(r0) == <<I("MOVC", 0, 0, 0, r0), I("MOVC", 1, 0, 0, 2), I("MOVC", 2, 0, 0, 0)>>

\* A loop body has no memory operation or two: of one alone, the second execution
\* would not start.
MemoryBodies == {<<a, b>> : a, b \in {Load, Store}}
Bodies ==
  {<< >>} \cup {<<a>> : a \in Work} \cup {<<a, b>> : a, b \in Work} \cup MemoryBodies

LoopProgram(n, body, gap, op, after) ==
  Start(n) \o body \o <<I("SUBL", 0, 0, 0, 1)>> \o Nops(gap)
    \o <<I(op, 0, 0, 0, -4 * (Len(body) + 1 + gap))>> \o after \o <<Halt>>

Loops ==
  {LoopProgram(n, body, gap, op, after) :
     n \in {2, 3}, body \in Bodies, gap \in 0 .. 2, op \in {"BNZ", "BP"},
     after \in {<< >>, <<I("MOVC", 2, 0, 0, 7)>>}}

\* The instruction behind the loop reads what the last round's LOAD is still fetching.
\* Behind the other bodies it could wait for the register of a flushed instruction.
ReadBehindLoop ==
  {LoopProgram(n, body, gap, op, <<I("ADDL", 2, 2, 0, 1)>>) :
     n \in {2, 3}, body \in MemoryBodies, gap \in 0 .. 2, op \in {"BNZ", "BP"}}

\* The flags a taken conditional branch finds, set by comparing R1 with a literal.
Compare(op) == I("CML", 0, 1, 0, IF op \in {"BZ", "BNP"} THEN 2 ELSE 1)

Target(before, skipped) == 4 * (Len(before) + 1 + Len(skipped))

ForwardConditional(before, op, skipped, after) ==
  LET compared == Append(before, Compare(op))
  IN  Start(4000) \o compared \o <<I(op, 0, 0, 0, 4 * (1 + Len(skipped)))>>
        \o skipped \o after \o <<Halt>>

ForwardJump(before, op, skipped, after) ==
  LET start == Start(4000) \o before
  IN  start \o <<I(op, 3, 0, 0, Target(start, skipped))>> \o skipped \o after \o <<Halt>>

Before == {<< >>} \cup {<<i>> : i \in Work \cup {Load, Store}}
\* The last one's address is behind the end of data_memory: it is only safe to skip.
Skipped == {<<Store>>, <<Load, I("ADDL", 2, 2, 0, 1)>>,
            <<I("LOAD", 2, 1, 0, DATA_MEMORY_SIZE)>>}
After == {<< >>, <<I("ADDL", 2, 2, 0, 1)>>, <<Load>>}

Forward ==
  {ForwardConditional(b, op, s, a) :
     b \in Before, op \in ConditionalBranches, s \in Skipped, a \in After}
  \cup {ForwardJump(b, op, s, a) :
     b \in Before, op \in JumpOps, s \in Skipped, a \in After}

\* A loop with a computed jump in it, which goes one instruction further in each round:
\* the target that was delivered in the last round is the wrong one.
JumpProgram(n, body, op, slots) ==
  LET before == body \o <<I("ADDL", 1, 1, 0, 4), I("SUBL", 0, 0, 0, 1)>>
      first == FIRST_PC + 4 * (3 + Len(before) + 1)
  IN  <<I("MOVC", 0, 0, 0, n), I("MOVC", 1, 0, 0, first - 8), I("MOVC", 2, 0, 0, 0)>>
        \o before \o <<I(op, 3, 1, 0, 4)>> \o slots
        \o <<I("BNZ", 0, 0, 0, -4 * (Len(before) + 1 + Len(slots))), Halt>>

\* The last slot's result keeps the BNZ from the head of the reorder buffer until it is
\* resolved; no NOP is where its wrong path begins.
Slot(v) == I("MOVC", 2, 0, 0, v)
ComputedJumps ==
  {JumpProgram(n, body, op, slots) :
     n \in {2, 3}, op \in JumpOps, body \in {<< >>, <<I("ADDL", 2, 2, 0, 1)>>},
     slots \in {<<Slot(7), Slot(8), Slot(9)>>, <<Nop, Slot(7), Slot(8)>>}}

MCPrograms == Loops \cup ReadBehindLoop \cup Forward \cup ComputedJumps
MCBitwise(op, a, b) == 0
=============================================================================
