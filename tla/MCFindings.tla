----------------------------- MODULE MCFindings -----------------------------
(***************************************************************************)
(* Single programs on which the simulator does not do what its README or a *)
(* comment says, one per configuration.                                    *)
(***************************************************************************)
EXTENDS ApexPipeline

I(op, rd, rs1, rs2, imm) ==
  [opcode |-> op, rd |-> rd, rs1 |-> rs1, rs2 |-> rs2, imm |-> imm]

Movc(rd, imm) == I("MOVC", rd, 0, 0, imm)
Nop == I("NOP", 0, 0, 0, 0)
Halt == I("HALT", 0, 0, 0, 0)

\* A loop executed twice and left on a misprediction.
Countdown ==
  {<<Movc(0, 2), I("SUBL", 0, 0, 0, 1), I("BNZ", 0, 0, 0, -4), Halt>>}

\* The same with a multiplication before the branch.
MultiplyInLoop ==
  {<<Movc(0, 2), I("SUBL", 0, 0, 0, 1), I("MUL", 1, 0, 0, 0),
     I("BNZ", 0, 0, 0, -8), Halt>>}

\* A branch right behind the multiplication whose flags it tests.
BranchBehindMultiply ==
  {<<Movc(0, 0), I("MUL", 1, 0, 0, 0), I("BZ", 0, 0, 0, 8), Nop, Halt>>}

\* A branch that is not taken the first time it is met.
NotTakenFirst ==
  {<<Movc(0, 1), I("CML", 0, 0, 0, 1), Nop, Nop, Nop, I("BNZ", 0, 0, 0, 8), Nop, Halt>>}

\* The stored value comes from a load.
StoreLoaded ==
  {<<Movc(0, 1), I("LOAD", 1, 0, 0, 4), I("STORE", 0, 1, 0, 5), Halt>>}

\* More results than physical registers: R0 is still mapped when its register is reused.
ManyResults ==
  {<<Movc(0, 1), Movc(1, 2)>> \o [k \in 1 .. PHYSICAL_REG_FILE_SIZE |-> Movc(1, 3)]
     \o <<I("ADDL", 2, 0, 0, 0), Halt>>}

\* Two multiplications hold slots while two NOPs issue: HALT waits in a slot behind the
\* remains of the second NOP, which the IntFU's loop keeps choosing.
HaltBehindNop ==
  {<<Movc(0, 1), Movc(1, 2), I("MUL", 2, 0, 1, 0), I("MUL", 2, 0, 1, 0), Nop, Nop, Halt>>}

\* The second NOP commits but never issues: the loop keeps choosing the first one's remains.
NopLeftBehind ==
  {<<Movc(0, 1), Movc(1, 2)>> \o [k \in 1 .. 3 |-> I("MUL", 2, 0, 1, 0)]
     \o <<Nop, I("ADDL", 2, 0, 0, 0), Nop, Nop, Halt>>}

\* An issue queue of two slots, one taken by a multiplication that waits: in the next round
\* the other one still has the pc of the instruction that comes.
LoopInFullQueue ==
  {<<Movc(0, 3), Movc(1, 1), I("MUL", 1, 1, 1, 0), Movc(2, 3), I("MUL", 1, 1, 1, 0),
     I("SUBL", 0, 0, 0, 1), I("BNZ", 0, 0, 0, -16), Halt>>}

\* The LOAD of the last round commits between the wrong path's dispatch and its squash.
LoadOverSquash ==
  {<<Movc(0, 2), Movc(1, 1), I("LOAD", 2, 1, 0, 1), I("STORE", 0, 1, 0, 2), Nop,
     I("SUBL", 0, 0, 0, 1), I("BNZ", 0, 0, 0, -16), Halt>>}

\* A loop that executes more instructions than the wakeup loops' minimum starts at.
LongLoop ==
  {<<Movc(0, MIN_COUNTER_START), I("SUBL", 0, 0, 0, 1), I("BNZ", 0, 0, 0, -4), Halt>>}

\* More comparisons than flags registers.
ManyComparisons == {[k \in 1 .. CC_REG_FILE_SIZE + 1 |-> I("CMP", 0, 0, 0, 0)] \o <<Halt>>}

\* One taken branch more than the branch target buffer has entries.
BranchPerEntryAndOne ==
  {<<Movc(0, 1), I("CML", 0, 0, 0, 1), Nop, Nop, Nop>>
     \o [k \in 1 .. 2 * (BTB_SIZE + 1) |->
          IF k % 2 = 1 THEN I("BZ", 0, 0, 0, 8) ELSE Movc(1, k)] \o <<Halt>>}

\* The second round's JUMP goes to the BNZ itself and, mispredicted, empties the reorder
\* buffer: the BNZ is its head at once, and the NOP behind it in the next cycle.
NopBehindBranch ==
  {<<Movc(0, 2), Movc(1, 4024), Nop, Nop, I("ADDL", 1, 1, 0, 4), I("SUBL", 0, 0, 0, 1),
     I("JUMP", 0, 1, 0, 0), Nop, I("BNZ", 0, 0, 0, -24), Halt>>}

\* The HALT fetched behind the JUMP turns fetch off.
HaltBehindJump == {<<Movc(0, 4000), I("JUMP", 0, 0, 0, 12), Halt, Halt>>}

\* A store alone: the cycle limit may fall between its commit and its write.
OneStore == {<<Movc(0, 1), I("STORE", 0, 0, 0, 4), Halt>>}

MCBitwise(op, a, b) == 0
=============================================================================
