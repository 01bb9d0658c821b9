----------------------------- MODULE ApexTypes -----------------------------
(***************************************************************************)
(* Sizes, opcodes and latch contents shared by every module of the APEX    *)
(* simulator (apex_macros.h, apex_cpu.h).                                  *)
(***************************************************************************)
EXTENDS Integers, Sequences

CONSTANTS REG_FILE_SIZE,           \* a program's registers, then the entries of flags and pc
          PHYSICAL_REG_FILE_SIZE,
          CC_REG_FILE_SIZE,
          ISSUE_QUEUE_SIZE,
          BRANCH_QUEUE_SIZE,
          LSQ_SIZE,
          ROB_SIZE,
          BTB_SIZE,
          DATA_MEMORY_SIZE,
          MIN_COUNTER_START        \* the literal 999 of the wakeup loops

ASSUME SizesAssumption ==
  /\ REG_FILE_SIZE \in Nat /\ REG_FILE_SIZE > 2
  /\ PHYSICAL_REG_FILE_SIZE \in Nat \ {0}
  /\ CC_REG_FILE_SIZE \in Nat \ {0}
  /\ ISSUE_QUEUE_SIZE \in Nat \ {0}
  /\ BRANCH_QUEUE_SIZE \in Nat \ {0} /\ BRANCH_QUEUE_SIZE <= ISSUE_QUEUE_SIZE
  /\ LSQ_SIZE \in Nat /\ LSQ_SIZE > 1
  /\ ROB_SIZE \in Nat /\ ROB_SIZE > 1
  /\ BTB_SIZE \in Nat \ {0}
  /\ DATA_MEMORY_SIZE \in Nat \ {0}
  /\ MIN_COUNTER_START \in Nat \ {0}

Registers == 0 .. REG_FILE_SIZE - 1
ProgramRegisters == 0 .. REG_FILE_SIZE - 3
PhysicalRegs == 0 .. PHYSICAL_REG_FILE_SIZE - 1
CCRegs == 0 .. CC_REG_FILE_SIZE - 1
IQSlots == 0 .. ISSUE_QUEUE_SIZE - 1
BQSlots == 0 .. BRANCH_QUEUE_SIZE - 1
LSQSlots == 0 .. LSQ_SIZE - 1
RoBSlots == 0 .. ROB_SIZE - 1
BTBSlots == 0 .. BTB_SIZE - 1
Addresses == 0 .. DATA_MEMORY_SIZE - 1

NOT_RENAMED == -1
INCREMENTOR == 4
FIRST_PC == 4000
CC == REG_FILE_SIZE - 1            \* the rename table's entry for the flags
LAST_PC == REG_FILE_SIZE - 1       \* the ARF entry holding the last committed pc

(***************************************************************************)
(* Opcodes, grouped the way the switch statements group them.              *)
(***************************************************************************)
Alu2Ops == {"ADD", "SUB", "MUL", "AND", "OR", "XOR"}
AluLiteralOps == {"ADDL", "SUBL"}
LoadOps == {"LOAD", "LOADP"}
StoreOps == {"STORE", "STOREP"}
MemoryOps == LoadOps \cup StoreOps
ConditionalBranches == {"BZ", "BNP", "BNZ", "BP"}
JumpOps == {"JUMP", "JALR"}
BranchOps == ConditionalBranches \cup JumpOps
NoSourceOps == {"MOVC", "NOP", "HALT"}
Opcodes == Alu2Ops \cup AluLiteralOps \cup MemoryOps \cup BranchOps
             \cup NoSourceOps \cup {"CMP", "CML", "DIV"}

Source1Ops == Alu2Ops \cup AluLiteralOps \cup MemoryOps \cup JumpOps \cup {"CMP", "CML"}
Source2Ops == Alu2Ops \cup StoreOps \cup {"CMP"}
DestinationOps == Alu2Ops \cup AluLiteralOps \cup LoadOps \cup {"MOVC", "JALR"}
PointerOps == {"LOADP", "STOREP"}                     \* also advance their base register
FlagOps == Alu2Ops \cup AluLiteralOps \cup {"CMP", "CML"}
IntFUSourceOps == (Alu2Ops \ {"MUL"}) \cup AluLiteralOps \cup {"CMP", "CML"}
IntFUOps == IntFUSourceOps \cup NoSourceOps
AFUOps == MemoryOps \cup BranchOps

\* APEX_Instruction: one element of code_memory.
Insns == [opcode : Opcodes, rd : ProgramRegisters, rs1 : ProgramRegisters,
          rs2 : ProgramRegisters, imm : Int]

\* CPU_Stage: what a latch carries once an instruction of code_memory is fetched.
Fetched(at, insn, hit, predictedTaken) ==
  [pc |-> at, opcode |-> insn.opcode, rd |-> insn.rd, rs1 |-> insn.rs1,
   rs2 |-> insn.rs2, imm |-> insn.imm, btb_hit |-> hit, taken |-> predictedTaken,
   phyrd |-> 0, phyrs1 |-> 0, phyrs2 |-> 0, phyrs3 |-> 0,
   phyrs1_valid |-> FALSE, phyrs2_valid |-> FALSE,
   phyrs1_value |-> 0, phyrs2_value |-> 0,
   prev_pd |-> 0, prev_prs |-> 0, prev_cc |-> 0, flag |-> 0,
   target_address |-> 0, target_address_valid |-> FALSE]

\* A zeroed CPU_Stage (calloc); OPCODE_ADD is 0.
NoInstr == Fetched(0, [opcode |-> "ADD", rd |-> 0, rs1 |-> 0, rs2 |-> 0, imm |-> 0],
                   FALSE, FALSE)

Instrs ==
  [pc : Int, opcode : Opcodes, rd : ProgramRegisters, rs1 : ProgramRegisters,
   rs2 : ProgramRegisters, imm : Int, btb_hit : BOOLEAN, taken : BOOLEAN,
   phyrd : PhysicalRegs, phyrs1 : PhysicalRegs \cup {-1},
   phyrs2 : PhysicalRegs \cup {-1}, phyrs3 : PhysicalRegs \cup {-1},
   phyrs1_valid : BOOLEAN, phyrs2_valid : BOOLEAN,
   phyrs1_value : Int, phyrs2_value : Int,
   prev_pd : PhysicalRegs \cup {-1}, prev_prs : PhysicalRegs \cup {-1},
   prev_cc : CCRegs \cup {-1}, flag : CCRegs,
   target_address : Int, target_address_valid : BOOLEAN]

\* The lowest index of an array that satisfies a search loop's condition, or -1.
FirstIndex(S) == IF S = {} THEN -1 ELSE CHOOSE k \in S : \A j \in S : k <= j
=============================================================================
