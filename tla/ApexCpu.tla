------------------------------- MODULE ApexCpu -------------------------------
(***************************************************************************)
(* The out-of-order APEX pipeline.  APEX_cpu_run calls the ten stages of a *)
(* cycle one after the other, last stage first; variable stage says which  *)
(* one runs next, and each is an action of its own.  removeROBTail's loop, *)
(* which the fetch stage enters after a misprediction, is stage "squash".  *)
(* stage = "done" is the return after HALT, "stopped" the end of the       *)
(* cycles asked for, "undefined" an access outside an array, after which C *)
(* says nothing of the program.                                            *)
(***************************************************************************)
EXTENDS ApexTypes, ApexFreeList, ApexSources, ApexQueues, ApexIssue, ApexBtb

CONSTANTS Programs,               \* the code memories to run, sequences of instructions
          num_of_cycles_to_run,   \* the command line's <n>; 0 never equals the clock
          BitwiseResult(_, _, _)  \* C's &, | and ^ on the values the programs use

ASSUME ProgramsAssumption ==
  /\ Programs \subseteq Seq(Insns)
  /\ num_of_cycles_to_run \in Nat

VARIABLES
  code_memory,        \* the program, chosen once
  stage,              \* the stage function that runs next
  clock,
  pc, fetch,          \* cpu->pc, fetch.has_insn
  decode_rename1,     \* latches: has_insn, stall, instr
  rename2_dispatch,
  issue_queue,        \* latches: has_insn, instr
  execute_IntFU, execute_MulFU, execute_AFU, execute_BFU, execute_MAU,
  commit_ARF,         \* the instruction last copied from the ROB's head
  regs, flags,        \* ARF values (LAST_PC included) and CC
  data_memory,
  physicalRegFile, ccRegFile, CCHead,
  freePhysicalRegList, freeCCFlagsRegList,
  renameTable,
  issueQueue, issue_counter,
  branchQueue,
  lsq, LSQ_tail, LSQ_size, delete_LSQ_head,
  RoB, ROB_tail, ROB_size, delete_ROB_head,
  BTBEntry, btb_counter,
  bus, ccBus,         \* the forwarding buses
  AFU_address, AFU_pc,
  BFU_pc, miss_branch_tag,
  mulcycle_counter, mau_cycle_latency, stored_in_memory,
  HALT

archVars == <<regs, flags, commit_ARF, HALT>>
memVars == <<data_memory, mau_cycle_latency, stored_in_memory, execute_MAU>>
freeVars == <<freePhysicalRegList, freeCCFlagsRegList>>
prfVars == <<physicalRegFile, ccRegFile, CCHead>>
iqVars == <<issueQueue, issue_counter, branchQueue>>
lsqVars == <<lsq, LSQ_tail, LSQ_size, delete_LSQ_head>>
robVars == <<RoB, ROB_tail, ROB_size, delete_ROB_head>>
btbVars == <<BTBEntry, btb_counter>>
busVars == <<bus, ccBus>>
afuVars == <<AFU_address, AFU_pc>>
redirectVars == <<BFU_pc, miss_branch_tag>>
frontVars == <<pc, fetch, decode_rename1, rename2_dispatch, issue_queue>>
exVars == <<execute_IntFU, execute_MulFU, execute_AFU, execute_BFU, mulcycle_counter>>

vars == <<code_memory, stage, clock, frontVars, exVars, archVars, memVars, freeVars, prfVars,
          renameTable, iqVars, lsqVars, robVars, btbVars, busVars, afuVars, redirectVars>>

Stages == {"commit", "MAU", "MulFU", "BFU", "AFU", "IntFU", "issue", "dispatch",
           "decode", "fetch", "squash", "done", "stopped", "undefined"}

EmptyLatch == [has_insn |-> FALSE, instr |-> NoInstr]
EmptyStallLatch == [has_insn |-> FALSE, stall |-> FALSE, instr |-> NoInstr]

\* get_code_memory_index_from_pc; C division truncates towards zero.
CodeIndex(at) ==
  IF at >= FIRST_PC THEN (at - FIRST_PC) \div 4 ELSE -((FIRST_PC - at) \div 4)

\* memset(data_memory, -1)
InitialMemory == [a \in Addresses |-> -1]

\* The processor once its code memory is there.
APEX_cpu_init ==
  /\ stage = "commit" /\ clock = 1
  /\ pc = FIRST_PC /\ fetch = TRUE
  /\ decode_rename1 = EmptyStallLatch /\ rename2_dispatch = EmptyStallLatch
  /\ issue_queue = EmptyLatch
  /\ execute_IntFU = EmptyLatch /\ execute_MulFU = EmptyLatch
  /\ execute_AFU = EmptyLatch /\ execute_BFU = EmptyLatch
  /\ execute_MAU = [has_insn |-> FALSE, pc |-> 0]
  /\ commit_ARF = NoInstr
  /\ regs = [r \in Registers |-> 0] /\ flags = "none"
  /\ data_memory = InitialMemory
  /\ physicalRegFile = [p \in PhysicalRegs |-> [valid |-> FALSE, data |-> 0]]
  /\ ccRegFile = [c \in CCRegs |-> [valid |-> FALSE, flag |-> "none"]]
  /\ CCHead = "none"
  /\ freePhysicalRegList = [k \in 1 .. PHYSICAL_REG_FILE_SIZE |-> k - 1]
  /\ freeCCFlagsRegList = [k \in 1 .. CC_REG_FILE_SIZE |-> k - 1]
  /\ renameTable = [r \in Registers |-> NOT_RENAMED]
  /\ issueQueue = [k \in IQSlots |-> EmptyIQEntry] /\ issue_counter = 0
  /\ branchQueue = [k \in BQSlots |-> EmptyBQEntry]
  /\ lsq = [k \in LSQSlots |-> EmptyLSQEntry]
  /\ LSQ_tail = LSQ_SIZE - 1 /\ LSQ_size = 0 /\ delete_LSQ_head = FALSE
  /\ RoB = [k \in RoBSlots |-> EmptyRoBEntry]
  /\ ROB_tail = ROB_SIZE - 1 /\ ROB_size = 0 /\ delete_ROB_head = FALSE
  /\ BTBEntry = [k \in BTBSlots |-> EmptyBTBEntry] /\ btb_counter = 0
  /\ bus = [b \in Buses |-> IdleBus]
  /\ ccBus = [b \in CCBuses |-> IdleCCBus]
  /\ AFU_address = -1 /\ AFU_pc = 0
  /\ BFU_pc = -1 /\ miss_branch_tag = -1
  /\ mulcycle_counter = 0 /\ mau_cycle_latency = 0 /\ stored_in_memory = FALSE
  /\ HALT = FALSE

Init == code_memory \in Programs /\ APEX_cpu_init

\* An array is accessed outside its bounds: nothing is said of what follows.
BecomesUndefined ==
  /\ stage' = "undefined"
  /\ UNCHANGED <<code_memory, clock, frontVars, exVars, archVars, memVars, freeVars,
                 prfVars, renameTable, iqVars, lsqVars, robVars, btbVars, busVars,
                 afuVars, redirectVars>>

(***************************************************************************)
(* APEX_commit_to_ARF.                                                     *)
(***************************************************************************)
\* The queues once the heads that committed in the last cycle are deleted.
RoBAtCommit == IF delete_ROB_head THEN DeleteRoBHead(RoB, ROB_tail) ELSE RoB
LSQAtCommit == IF delete_LSQ_head THEN DeleteLSQHead(lsq, LSQ_tail) ELSE lsq

\* A flush may have emptied a queue whose committed head is still to be deleted.
DeletesBelowZero ==
  \/ delete_ROB_head /\ ROB_tail < 0
  \/ delete_LSQ_head /\ LSQ_tail < 0

\* The condition under which the head's case in the switch commits it.
CanCommit(i, heads_match) ==
  LET result == PRFValid(physicalRegFile, i.phyrd)
      pointer == PRFValid(physicalRegFile, i.phyrs3)
      inMemory == heads_match /\ stored_in_memory
  IN  CASE i.opcode \in Alu2Ops \cup AluLiteralOps -> result /\ ccRegFile[i.flag].valid
        [] i.opcode \in {"MOVC", "JALR"} -> result
        [] i.opcode = "LOAD" -> result /\ inMemory
        [] i.opcode = "LOADP" -> result /\ pointer /\ inMemory
        [] i.opcode = "STOREP" -> pointer /\ inMemory
        [] i.opcode = "STORE" -> inMemory
        [] i.opcode = "CML" -> ccRegFile[i.flag].valid
        [] i.opcode = "HALT" -> HALT
        [] OTHER -> TRUE

\* The ARF values the case writes; LOADP's base after its destination.
CommittedRegs(i) ==
  LET written == IF i.opcode \in DestinationOps
                 THEN [regs EXCEPT ![i.rd] = physicalRegFile[i.phyrd].data] ELSE regs
      base == IF i.opcode = "LOADP" THEN i.rs1 ELSE i.rs2
  IN  [(IF i.opcode \in PointerOps
        THEN [written EXCEPT ![base] = physicalRegFile[i.phyrs3].data]
        ELSE written) EXCEPT ![LAST_PC] = i.pc]

\* CMP leaves the ARF flags alone.
CommittedFlags(i) ==
  IF i.opcode \in FlagOps \ {"CMP"} THEN ccRegFile[i.flag].flag ELSE flags

\* Seeded bug: the base register of LOADP and STOREP is not freed.
FreedDestinationOnly(i, list) ==
  IF i.opcode \in DestinationOps THEN AddBack(list, i.phyrd, PHYSICAL_REG_FILE_SIZE) ELSE list

\* The registers the committing instruction itself was given are freed.
FreedPhysicalRegs(i, list) ==
  LET afterRd == IF i.opcode \in DestinationOps
                 THEN AddBack(list, i.phyrd, PHYSICAL_REG_FILE_SIZE) ELSE list
  IN  IF i.opcode \in PointerOps
      THEN AddBack(afterRd, i.phyrs3, PHYSICAL_REG_FILE_SIZE) ELSE afterRd

\* Seeded bug: the operations with a literal are treated as CMP is.
FreedCCButLiterals(i, list) ==
  IF i.opcode \in FlagOps \ {"CMP", "CML", "ADDL", "SUBL"}
  THEN AddBack(list, i.flag, CC_REG_FILE_SIZE) ELSE list

FreedCC(i, list) ==
  IF i.opcode \in FlagOps \ {"CMP"} THEN AddBack(list, i.flag, CC_REG_FILE_SIZE) ELSE list

\* The loop stops at the limit, once the commit stage has run.
AfterCommit == IF num_of_cycles_to_run = clock THEN "stopped" ELSE "MAU"

\* The head is established: it becomes commit_ARF and commits if it can.
CommitHead(i, heads_match) ==
  LET commits == CanCommit(i, heads_match)
      halts == commits /\ i.opcode = "HALT"
  IN  /\ commit_ARF' = i
      /\ IF commits
         THEN /\ regs' = CommittedRegs(i)
              /\ flags' = CommittedFlags(i)
              /\ freePhysicalRegList' = FreedPhysicalRegs(i, freePhysicalRegList)
              /\ freeCCFlagsRegList' = FreedCC(i, freeCCFlagsRegList)
              /\ delete_ROB_head' = ~halts
              /\ delete_LSQ_head' = (i.opcode \in MemoryOps)
              /\ stored_in_memory' = (stored_in_memory /\ i.opcode \notin MemoryOps)
              /\ HALT' = (HALT /\ ~halts)
         ELSE /\ delete_ROB_head' = FALSE /\ delete_LSQ_head' = FALSE
              /\ UNCHANGED <<regs, flags, freeVars, stored_in_memory, HALT>>
      /\ stage' = IF halts THEN "done" ELSE AfterCommit

\* The buses reach the PRF and the CC registers, unless HALT has returned.
WriteBack ==
  IF stage' = "done" THEN UNCHANGED <<prfVars, busVars>>
  ELSE /\ physicalRegFile' = WrittenPRF(physicalRegFile, bus)
       /\ ccRegFile' = WrittenCC(ccRegFile, ccBus)
       /\ CCHead' = WrittenCCHead(CCHead, ccBus)
       /\ bus' = Drained(bus)
       /\ ccBus' = Drained(ccBus)

CommitStage ==
  /\ stage = "commit"
  /\ ~DeletesBelowZero
  /\ RoB' = RoBAtCommit
  /\ lsq' = LSQAtCommit
  /\ ROB_tail' = IF delete_ROB_head THEN Retreat(ROB_tail, ROB_SIZE) ELSE ROB_tail
  /\ ROB_size' = IF delete_ROB_head THEN ROB_size - 1 ELSE ROB_size
  /\ LSQ_tail' = IF delete_LSQ_head THEN Retreat(LSQ_tail, LSQ_SIZE) ELSE LSQ_tail
  /\ LSQ_size' = IF delete_LSQ_head THEN LSQ_size - 1 ELSE LSQ_size
  /\ IF RoBAtCommit[0].established_bit
     THEN CommitHead(RoBAtCommit[0].instr,
                     RoBAtCommit[0].instr.pc = LSQAtCommit[0].pc)
     ELSE /\ delete_ROB_head' = FALSE /\ delete_LSQ_head' = FALSE
          /\ stage' = AfterCommit
          /\ UNCHANGED <<archVars, freeVars, stored_in_memory>>
  /\ WriteBack
  /\ UNCHANGED <<code_memory, clock, frontVars, exVars, data_memory, mau_cycle_latency,
                 execute_MAU, renameTable, iqVars, btbVars, afuVars, redirectVars>>

\* RoB[-1] or lsq[-1] is cleared.
CommitBelowZero ==
  /\ stage = "commit"
  /\ DeletesBelowZero
  /\ BecomesUndefined

(***************************************************************************)
(* APEX_execute_MAU.  The memory operation at the head of both queues is   *)
(* started once its address is known; a pc equal to the latch's stands for *)
(* "already started".                                                      *)
(***************************************************************************)
\* Seeded bug: the LSQ's head is started without comparing it with the ROB's.
AnyHeadMatches == TRUE

HeadsMatch == RoB[0].instr.pc = lsq[0].pc

MAUStarts ==
  /\ HeadsMatch
  /\ lsq[0].pc # execute_MAU.pc
  /\ lsq[0].memory_address_valid
  /\ lsq[0].established_bit

\* The latency left before the decrement of this cycle.
MAULatency ==
  IF MAUStarts THEN 2
  ELSE IF HeadsMatch /\ lsq[0].pc = execute_MAU.pc THEN 1
  ELSE mau_cycle_latency

MAUBusy == MAUStarts \/ execute_MAU.has_insn
MAUCompletes == MAUBusy /\ MAULatency = 1
MAUAccesses == MAUCompletes /\ lsq[0].memory_address_valid

MAUStage ==
  /\ stage = "MAU"
  /\ ~(MAUAccesses /\ lsq[0].memory_address \notin Addresses)
  /\ stored_in_memory' = (stored_in_memory \/ MAUStarts)
  /\ mau_cycle_latency' = IF MAUBusy THEN MAULatency - 1 ELSE MAULatency
  /\ execute_MAU' = [has_insn |-> MAUBusy /\ ~MAUCompletes,
                     pc |-> IF MAUStarts THEN lsq[0].pc ELSE execute_MAU.pc]
  /\ bus' = IF MAUAccesses /\ lsq[0].LorS_bit # "STORE"
            THEN [bus EXCEPT ![MAUBus] = [tag |-> lsq[0].phyrd,
                                          value |-> data_memory[lsq[0].memory_address]]]
            ELSE bus
  /\ data_memory' = IF MAUAccesses /\ lsq[0].LorS_bit = "STORE"
                    THEN [data_memory EXCEPT ![lsq[0].memory_address] = lsq[0].valueToStore]
                    ELSE data_memory
  /\ stage' = "MulFU"
  /\ UNCHANGED <<code_memory, clock, frontVars, exVars, archVars, freeVars, prfVars, renameTable,
                 iqVars, lsqVars, robVars, btbVars, ccBus, afuVars, redirectVars>>

\* data_memory is indexed outside its bounds.
MAUOutOfBounds ==
  /\ stage = "MAU"
  /\ MAUAccesses /\ lsq[0].memory_address \notin Addresses
  /\ BecomesUndefined

(***************************************************************************)
(* APEX_execute_MulFU                                                      *)
(***************************************************************************)
MulFUStage ==
  /\ stage = "MulFU"
  /\ IF execute_MulFU.has_insn
     THEN /\ mulcycle_counter' = mulcycle_counter - 1
          /\ IF mulcycle_counter' = 0
             THEN LET i == execute_MulFU.instr
                      product == i.phyrs1_value * i.phyrs2_value
                  IN  /\ bus' = [bus EXCEPT ![MulBus] = [tag |-> i.phyrd, value |-> product]]
                      /\ ccBus' = [ccBus EXCEPT ![MulBus] = [tag |-> i.flag,
                                                            flag |-> FlagOf(product)]]
                      /\ execute_MulFU' = [execute_MulFU EXCEPT !.has_insn = FALSE]
             ELSE UNCHANGED <<bus, ccBus, execute_MulFU>>
     ELSE UNCHANGED <<mulcycle_counter, bus, ccBus, execute_MulFU>>
  /\ stage' = "BFU"
  /\ UNCHANGED <<code_memory, clock, frontVars, execute_IntFU, execute_AFU, execute_BFU, archVars,
                 memVars, freeVars, prfVars, renameTable, iqVars, lsqVars, robVars,
                 btbVars, afuVars, redirectVars>>

(***************************************************************************)
(* APEX_execute_BFU.  Conditions are read from CCHead, the flags last      *)
(* written back, whoever wrote them.                                       *)
(***************************************************************************)
ConditionHolds(op) ==
  \/ op = "BZ" /\ CCHead = "zero"
  \/ op = "BNZ" /\ CCHead # "zero"
  \/ op = "BP" /\ CCHead = "positive"
  \/ op = "BNP" /\ CCHead # "positive"

\* branch_taken_flow and branch_not_taken_flow
ResolveConditional(i) ==
  LET taken == ConditionHolds(i.opcode)
  IN  /\ BTBEntry' = ResolvedBTB(BTBEntry, i, taken)
      /\ IF Redirects(BTBEntry, i, taken)
         THEN /\ BFU_pc' = RedirectPc(i, taken)
              /\ miss_branch_tag' = i.pc
              /\ fetch' = TRUE
         ELSE UNCHANGED <<redirectVars, fetch>>
      /\ UNCHANGED bus

\* JUMP and JALR do not turn fetch back on.
ResolveJump(i) ==
  /\ BFU_pc' = i.target_address
  /\ miss_branch_tag' = i.pc
  /\ bus' = IF i.opcode = "JALR"
            THEN [bus EXCEPT ![BFUBus] = [tag |-> i.phyrd, value |-> i.pc + INCREMENTOR]]
            ELSE bus
  /\ UNCHANGED <<BTBEntry, fetch>>

BFUStage ==
  /\ stage = "BFU"
  /\ IF execute_BFU.has_insn
     THEN /\ IF execute_BFU.instr.opcode \in JumpOps
             THEN ResolveJump(execute_BFU.instr)
             ELSE ResolveConditional(execute_BFU.instr)
          /\ execute_BFU' = [execute_BFU EXCEPT !.has_insn = FALSE]
          /\ branchQueue' = RemoveBQ(branchQueue, execute_BFU.instr.pc)
     ELSE UNCHANGED <<redirectVars, fetch, bus, BTBEntry, execute_BFU, branchQueue>>
  /\ stage' = "AFU"
  /\ UNCHANGED <<code_memory, clock, pc, decode_rename1, rename2_dispatch, issue_queue,
                 execute_IntFU, execute_MulFU, execute_AFU, mulcycle_counter, archVars,
                 memVars, freeVars, prfVars, renameTable, issueQueue, issue_counter,
                 lsqVars, robVars, btb_counter, ccBus, afuVars>>

(***************************************************************************)
(* APEX_execute_AFU                                                        *)
(***************************************************************************)
BaseValue(i) ==
  IF i.opcode \in ConditionalBranches THEN i.pc
  ELSE IF i.opcode \in StoreOps THEN i.phyrs2_value ELSE i.phyrs1_value

AFUStage ==
  /\ stage = "AFU"
  /\ LET i == execute_AFU.instr
     IN  IF execute_AFU.has_insn
         THEN /\ IF i.opcode \in AFUOps
                 THEN AFU_address' = BaseValue(i) + i.imm /\ AFU_pc' = i.pc
                 ELSE UNCHANGED afuVars
              /\ bus' = IF i.opcode \in PointerOps
                        THEN [bus EXCEPT ![AFUBus] = [tag |-> i.phyrs3,
                                                      value |-> BaseValue(i) + INCREMENTOR]]
                        ELSE bus
              /\ execute_AFU' = [execute_AFU EXCEPT !.has_insn = FALSE]
         ELSE UNCHANGED <<afuVars, bus, execute_AFU>>
  /\ stage' = "IntFU"
  /\ UNCHANGED <<code_memory, clock, frontVars, execute_IntFU, execute_MulFU, execute_BFU,
                 mulcycle_counter, archVars, memVars, freeVars, prfVars, renameTable,
                 iqVars, lsqVars, robVars, btbVars, ccBus, redirectVars>>

(***************************************************************************)
(* APEX_execute_IntFU.  Its switch has no case for other units' opcodes,   *)
(* nor has that of the AFU: the latch is emptied all the same.             *)
(***************************************************************************)
IntResult(i) ==
  CASE i.opcode = "ADD" -> i.phyrs1_value + i.phyrs2_value
    [] i.opcode \in {"SUB", "CMP"} -> i.phyrs1_value - i.phyrs2_value
    [] i.opcode = "ADDL" -> i.phyrs1_value + i.imm
    [] i.opcode \in {"SUBL", "CML"} -> i.phyrs1_value - i.imm
    [] i.opcode \in {"AND", "OR", "XOR"} ->
         BitwiseResult(i.opcode, i.phyrs1_value, i.phyrs2_value)
    [] OTHER -> i.imm

IntFUStage ==
  /\ stage = "IntFU"
  /\ LET i == execute_IntFU.instr
         result == IntResult(i)
     IN  IF execute_IntFU.has_insn
         THEN /\ bus' = IF i.opcode \in DestinationOps \cap IntFUOps
                        THEN [bus EXCEPT ![IntBus] = [tag |-> i.phyrd, value |-> result]]
                        ELSE bus
              /\ ccBus' = IF i.opcode \in FlagOps \cap IntFUOps
                          THEN [ccBus EXCEPT ![IntBus] = [tag |-> i.flag,
                                                          flag |-> FlagOf(result)]]
                          ELSE ccBus
              /\ HALT' = (HALT \/ i.opcode = "HALT")
              /\ execute_IntFU' = [execute_IntFU EXCEPT !.has_insn = FALSE]
         ELSE UNCHANGED <<bus, ccBus, HALT, execute_IntFU>>
  /\ stage' = "issue"
  /\ UNCHANGED <<code_memory, clock, frontVars, execute_MulFU, execute_AFU, execute_BFU,
                 mulcycle_counter, regs, flags, commit_ARF, memVars,
                 freeVars, prfVars, renameTable, iqVars, lsqVars, robVars, btbVars,
                 afuVars, redirectVars>>

(***************************************************************************)
(* APEX_issue_queue: the dispatched instruction is established, then every *)
(* function unit is offered an instruction.                                *)
(***************************************************************************)
\* What the latch of a function unit receives from slot k, if any.
Received(latch, queue, k) ==
  IF k = -1 THEN latch ELSE [has_insn |-> TRUE, instr |-> Issued(queue, k)[k].instr]

\* Seeded bug: the MulFU is offered an instruction in every cycle.
MulFUAlwaysFree == TRUE

\* issueWakeupMulFU is skipped while a multiplication counts its cycles.
MulFUFree == mulcycle_counter = 0

\* The three wakeups in their order.  Each intermediate queue is bound by \E, so
\* that it is evaluated once.
WakeUp(established) ==
  \E woken \in {WokenIQ(established, bus)} :
  \E intSlot \in {SelectedSlot(woken, IntFUTimes(woken))} :
  \E afterInt \in {Issued(woken, intSlot)} :
  \E mulSlot \in {IF MulFUFree
                  THEN SelectedSlot(afterInt, MulFUTimes(afterInt)) ELSE -1} :
  \E afterMul \in {Issued(afterInt, mulSlot)} :
  \E afuSlot \in {SelectedSlot(afterMul, AFUTimes(afterMul))} :
    /\ execute_IntFU' = Received(execute_IntFU, woken, intSlot)
    /\ execute_MulFU' = Received(execute_MulFU, afterInt, mulSlot)
    /\ mulcycle_counter' = IF mulSlot = -1 THEN mulcycle_counter ELSE 3
    /\ execute_AFU' = Received(execute_AFU, afterMul, afuSlot)
    /\ issueQueue' = Issued(afterMul, afuSlot)

\* The LSQ looks at the AFU's address first and consumes it; the branch queue
\* looks at what is left and hands a branch to the BFU.
DeliverAddresses(bq, q, tail) ==
  \E addressed \in {AddressedSlot(q, tail, AFU_address, AFU_pc)} :
  \E address \in {IF addressed = -1 THEN AFU_address ELSE -1} :
  \E targeted \in {TargetedBQ(bq, address, AFU_pc)} :
  \E bfuSlot \in {BFUSlot(targeted)} :
    /\ lsq' = UpdatedLSQ(q, tail, AFU_address, AFU_pc, bus)
    /\ AFU_address' = address
    /\ execute_BFU' = IF bfuSlot = -1 THEN execute_BFU
                      ELSE [has_insn |-> TRUE, instr |-> targeted[bfuSlot].instr]
    /\ branchQueue' = IF bfuSlot = -1 THEN targeted
                      ELSE [targeted EXCEPT ![bfuSlot].issuedToBFU = TRUE]

IssueStage ==
  LET i == issue_queue.instr
      has == issue_queue.has_insn
      isMemory == has /\ i.opcode \in MemoryOps
      isBranch == has /\ i.opcode \in BranchOps
      lsqTail == IF isMemory THEN Advance(LSQ_tail, LSQ_SIZE) ELSE LSQ_tail
      robTail == Advance(ROB_tail, ROB_SIZE)
  IN  /\ stage = "issue"
      /\ LSQ_tail' = lsqTail
      /\ LSQ_size' = IF isMemory THEN LSQ_size + 1 ELSE LSQ_size
      /\ ROB_tail' = IF has THEN robTail ELSE ROB_tail
      /\ ROB_size' = IF has THEN ROB_size + 1 ELSE ROB_size
      /\ RoB' = IF has THEN EstablishRoB(RoB, robTail, i, lsqTail) ELSE RoB
      /\ issue_counter' = IF has /\ FreeIQSlot(issueQueue, i.pc) # -1
                          THEN issue_counter + 1 ELSE issue_counter
      /\ WakeUp(IF has THEN EstablishIQ(issueQueue, i, issue_counter) ELSE issueQueue)
      /\ DeliverAddresses(IF isBranch THEN EstablishBQ(branchQueue, i) ELSE branchQueue,
                          IF isMemory THEN EstablishLSQ(lsq, lsqTail, i) ELSE lsq,
                          lsqTail)
      /\ issue_queue' = [issue_queue EXCEPT !.has_insn = FALSE]
      /\ stage' = "dispatch"
      /\ UNCHANGED <<code_memory, clock, pc, fetch, decode_rename1, rename2_dispatch, archVars,
                     memVars, freeVars, prfVars, renameTable, delete_LSQ_head,
                     delete_ROB_head, btbVars, busVars, AFU_pc, redirectVars>>

(***************************************************************************)
(* APEX_rename2_dispatch.  An instruction that finds no room leaves the    *)
(* latch all the same; DIV has no case.                                    *)
(***************************************************************************)
DispatchStage ==
  /\ stage = "dispatch"
  /\ LET i == ReadPRF(PickUp(rename2_dispatch.instr, bus), physicalRegFile)
         room == RoomFor(i.opcode, issueQueue, ROB_size, LSQ_size)
     IN  IF rename2_dispatch.has_insn
         THEN IF i.opcode = "DIV"
              THEN /\ rename2_dispatch' = [rename2_dispatch EXCEPT !.has_insn = FALSE]
                   /\ UNCHANGED issue_queue
              ELSE /\ rename2_dispatch' = [has_insn |-> FALSE, stall |-> ~room, instr |-> i]
                   /\ issue_queue' = IF room THEN [has_insn |-> TRUE, instr |-> i]
                                     ELSE issue_queue
         ELSE UNCHANGED <<rename2_dispatch, issue_queue>>
  /\ stage' = "decode"
  /\ UNCHANGED <<code_memory, clock, pc, fetch, decode_rename1, exVars, archVars, memVars,
                 freeVars, prfVars, renameTable, iqVars, lsqVars, robVars, btbVars,
                 busVars, afuVars, redirectVars>>

(***************************************************************************)
(* APEX_decode_rename1                                                     *)
(***************************************************************************)
\* Sources are looked up before the destination is renamed.
LookedUp(i) ==
  [i EXCEPT !.phyrs1 = IF i.opcode \in Source1Ops THEN renameTable[i.rs1] ELSE @,
            !.phyrs2 = IF i.opcode \in Source2Ops THEN renameTable[i.rs2] ELSE @]

\* A renaming in progress: the instruction, the tables and whether decode stalls.
Renaming(i, table, list, prf, stall) ==
  [instr |-> i, table |-> table, list |-> list, prf |-> prf, stall |-> stall]

\* Seeded bug: the table is not told.
HandOutUnnoted(r, base, p) == [r EXCEPT !.prf[p].valid = FALSE, !.list = WithoutHead(@)]

\* Register p, the head of the free list, becomes the current one of base.
HandOut(r, base, p) ==
  [r EXCEPT !.table[base] = p, !.prf[p].valid = FALSE, !.list = WithoutHead(@)]

\* rd gets the head of the free list; without one decode stalls and phyrd stays.
RenameDestination(r) ==
  LET i == r.instr
      p == HeadOfFree(r.list)
      noted == IF i.opcode \in DestinationOps
               THEN [r EXCEPT !.instr.prev_pd = r.table[i.rd]] ELSE r
  IN  IF i.opcode \notin DestinationOps THEN noted
      ELSE IF p = -1 THEN [noted EXCEPT !.stall = TRUE]
      ELSE HandOut([noted EXCEPT !.instr.phyrd = p], i.rd, p)

\* LOADP and STOREP rename their base; STOREP takes -1 when nothing is free.
RenamePointer(r) ==
  LET i == r.instr
      p == HeadOfFree(r.list)
      base == IF i.opcode = "LOADP" THEN i.rs1 ELSE i.rs2
      noted == [r EXCEPT !.instr.prev_prs = r.table[base]]
  IN  IF i.opcode \notin PointerOps THEN r
      ELSE IF p # -1
      THEN HandOut([noted EXCEPT !.instr.phyrs3 = p], base, p)
      ELSE IF i.opcode = "LOADP" THEN [noted EXCEPT !.stall = TRUE]
      ELSE [noted EXCEPT !.instr.phyrs3 = -1, !.table[base] = -1]

\* The flags get the head of the CC free list.
RenameFlags(r) ==
  LET c == HeadOfFree(freeCCFlagsRegList)
  IN  IF r.instr.opcode \in FlagOps
      THEN [r EXCEPT !.instr.prev_cc = r.table[CC], !.instr.flag = c, !.table[CC] = c]
      ELSE r

\* JUMP and JALR always stall decode, a conditional branch when it enters the BTB.
StallsBehind(i) ==
  \/ i.opcode \in JumpOps
  \/ i.opcode \in ConditionalBranches /\ StallsDecode(BTBEntry, i)

\* An instruction that sets flags finds no free CC register: ccRegFile[-1] is written.
NoFreeCC ==
  /\ decode_rename1.has_insn
  /\ decode_rename1.instr.opcode \in FlagOps
  /\ freeCCFlagsRegList = << >>

DecodeInstruction ==
  LET i == PickUp(LookedUp(decode_rename1.instr), bus)
      r == RenameFlags(RenamePointer(RenameDestination(
             Renaming(i, renameTable, freePhysicalRegList, physicalRegFile,
                      decode_rename1.stall \/ StallsBehind(i)))))
      proceeds == ~rename2_dispatch.stall
      setsFlags == i.opcode \in FlagOps
  IN  /\ renameTable' = r.table
      /\ freePhysicalRegList' = r.list
      /\ physicalRegFile' = r.prf
      /\ freeCCFlagsRegList' = IF setsFlags THEN WithoutHead(freeCCFlagsRegList)
                               ELSE freeCCFlagsRegList
      /\ ccRegFile' = IF setsFlags THEN [ccRegFile EXCEPT ![r.instr.flag].valid = FALSE]
                      ELSE ccRegFile
      /\ IF i.opcode \in ConditionalBranches
         THEN /\ BTBEntry' = EstablishBTB(BTBEntry, btb_counter, i, rename2_dispatch.instr)
              /\ btb_counter' = NextCounter(BTBEntry, btb_counter, i, rename2_dispatch.instr)
         ELSE UNCHANGED btbVars
      /\ decode_rename1' = [has_insn |-> ~proceeds, stall |-> r.stall, instr |-> r.instr]
      /\ rename2_dispatch' = IF proceeds
                             THEN [has_insn |-> TRUE, stall |-> r.stall, instr |-> r.instr]
                             ELSE rename2_dispatch

DecodeStage ==
  /\ stage = "decode"
  /\ ~NoFreeCC
  /\ IF decode_rename1.has_insn THEN DecodeInstruction
     ELSE UNCHANGED <<renameTable, freeVars, physicalRegFile, ccRegFile, btbVars,
                      decode_rename1, rename2_dispatch>>
  /\ stage' = "fetch"
  /\ UNCHANGED <<code_memory, clock, pc, fetch, issue_queue, exVars, archVars, memVars, CCHead,
                 iqVars, lsqVars, robVars, busVars, afuVars, redirectVars>>

DecodeOutOfBounds ==
  /\ stage = "decode"
  /\ NoFreeCC
  /\ BecomesUndefined

(***************************************************************************)
(* APEX_fetch.  The redirect of the BFU is taken here, and only here.      *)
(***************************************************************************)
InCode(at) == CodeIndex(at) \in 0 .. Len(code_memory) - 1

FetchedInstr ==
  LET k == LookUp(BTBEntry, pc)
  IN  Fetched(pc, code_memory[CodeIndex(pc) + 1], k # -1,
              k # -1 /\ PredictsTaken(BTBEntry[k]))

\* The pc after the fetch: the predicted target, or the next instruction.
PredictedPc(i) == IF i.taken THEN BTBEntry[LookUp(BTBEntry, i.pc)].target_pc ELSE pc + 4

DecodeAfterFetch ==
  IF decode_rename1.stall THEN decode_rename1
  ELSE [has_insn |-> TRUE, stall |-> FALSE, instr |-> FetchedInstr]

\* Every latch up to the function units is emptied, whatever its age; MAU is kept.
EmptyLatches ==
  /\ decode_rename1' = [DecodeAfterFetch EXCEPT !.has_insn = FALSE, !.stall = FALSE]
  /\ rename2_dispatch' = [rename2_dispatch EXCEPT !.has_insn = FALSE, !.stall = FALSE]
  /\ issue_queue' = [issue_queue EXCEPT !.has_insn = FALSE]
  /\ execute_IntFU' = [execute_IntFU EXCEPT !.has_insn = FALSE]
  /\ execute_MulFU' = [execute_MulFU EXCEPT !.has_insn = FALSE]
  /\ execute_AFU' = [execute_AFU EXCEPT !.has_insn = FALSE]
  /\ execute_BFU' = [execute_BFU EXCEPT !.has_insn = FALSE]

\* Seeded bug: the clock is not counted.
TickedNever == clock

\* Without a limit nothing reads the clock, and it is not counted.
Ticked == IF num_of_cycles_to_run = 0 THEN clock ELSE clock + 1

FetchStage ==
  /\ stage = "fetch"
  /\ fetch => InCode(pc)
  /\ IF ~fetch
     THEN /\ stage' = "commit" /\ clock' = Ticked
          /\ UNCHANGED <<frontVars, execute_IntFU, execute_MulFU, execute_AFU, execute_BFU,
                         BFU_pc>>
     ELSE IF BFU_pc # -1
     THEN /\ pc' = BFU_pc
          /\ fetch' = TRUE
          /\ BFU_pc' = -1
          /\ EmptyLatches
          /\ stage' = "squash" /\ UNCHANGED clock
     ELSE /\ pc' = IF decode_rename1.stall THEN pc ELSE PredictedPc(FetchedInstr)
          /\ fetch' = (FetchedInstr.opcode # "HALT")
          /\ decode_rename1' = DecodeAfterFetch
          /\ stage' = "commit" /\ clock' = Ticked
          /\ UNCHANGED <<rename2_dispatch, issue_queue, execute_IntFU, execute_MulFU,
                         execute_AFU, execute_BFU, BFU_pc>>
  /\ UNCHANGED <<code_memory, mulcycle_counter, archVars, memVars, freeVars, prfVars,
                 renameTable, iqVars, lsqVars, robVars, btbVars, busVars, afuVars,
                 miss_branch_tag>>

\* code_memory is indexed outside the program.
FetchOutOfBounds ==
  /\ stage = "fetch"
  /\ fetch /\ ~InCode(pc)
  /\ BecomesUndefined

(***************************************************************************)
(* removeROBTail: the tail is undone, one entry per iteration, until the   *)
(* branch's pc is found at the tail or the buffer is empty.                *)
(***************************************************************************)
\* Seeded bug: the tail is not compared with the branch.
SquashesAll == miss_branch_tag # -1 /\ ROB_size # 0 /\ RoB[ROB_tail].established_bit

SquashContinues ==
  /\ miss_branch_tag # -1
  /\ ROB_size # 0
  /\ miss_branch_tag # RoB[ROB_tail].instr.pc
  /\ RoB[ROB_tail].established_bit

\* Seeded bug: the previous register goes back, as with the flags.
SquashedPreviousRegs(i, list) ==
  IF i.opcode \in DestinationOps THEN AddBack(list, i.prev_pd, PHYSICAL_REG_FILE_SIZE) ELSE list

\* What goes back to the free lists; a STOREP gives back commit_ARF's register.
SquashedPhysicalRegs(i, list) ==
  LET afterRd == IF i.opcode \in DestinationOps
                 THEN AddBack(list, i.phyrd, PHYSICAL_REG_FILE_SIZE) ELSE list
  IN  IF i.opcode = "LOADP" THEN AddBack(afterRd, i.phyrs3, PHYSICAL_REG_FILE_SIZE)
      ELSE IF i.opcode = "STOREP"
      THEN AddBack(afterRd, commit_ARF.phyrs3, PHYSICAL_REG_FILE_SIZE)
      ELSE afterRd

\* The previous flags register goes back, not the squashed instruction's own.
SquashedCC(i, list) ==
  IF i.opcode \in FlagOps THEN AddBack(list, i.prev_cc, CC_REG_FILE_SIZE) ELSE list

\* Seeded bug: only the flags' entry is restored.
RestoredFlagsOnly(i, table) ==
  IF i.opcode \in FlagOps \ {"CMP", "CML"} THEN [table EXCEPT ![CC] = i.prev_cc] ELSE table

\* CMP and CML do not restore the flags' entry.
RestoredTable(i, table) ==
  LET afterRd == IF i.opcode \in DestinationOps
                 THEN [table EXCEPT ![i.rd] = i.prev_pd] ELSE table
      base == IF i.opcode = "LOADP" THEN i.rs1 ELSE i.rs2
      afterBase == IF i.opcode \in PointerOps
                   THEN [afterRd EXCEPT ![base] = i.prev_prs] ELSE afterRd
  IN  IF i.opcode \in FlagOps \ {"CMP", "CML"}
      THEN [afterBase EXCEPT ![CC] = i.prev_cc] ELSE afterBase

SquashTail ==
  LET entry == RoB[ROB_tail]
      i == entry.instr
      isMemory == i.opcode \in MemoryOps
  IN  /\ stage = "squash"
      /\ SquashContinues
      /\ RoB' = [RoB EXCEPT ![ROB_tail].established_bit = FALSE]
      /\ ROB_size' = ROB_size - 1
      /\ ROB_tail' = Retreat(ROB_tail, ROB_SIZE)
      /\ freePhysicalRegList' = SquashedPhysicalRegs(i, freePhysicalRegList)
      /\ freeCCFlagsRegList' = SquashedCC(i, freeCCFlagsRegList)
      /\ renameTable' = RestoredTable(i, renameTable)
      /\ issueQueue' = RemoveIQ(issueQueue, i.pc)
      /\ branchQueue' = IF i.opcode \in BranchOps THEN RemoveBQ(branchQueue, i.pc)
                        ELSE branchQueue
      /\ lsq' = IF isMemory THEN SquashLSQ(lsq, entry.lsq_index) ELSE lsq
      /\ LSQ_size' = IF isMemory THEN LSQ_size - 1 ELSE LSQ_size
      /\ LSQ_tail' = IF isMemory THEN Retreat(LSQ_tail, LSQ_SIZE) ELSE LSQ_tail
      /\ UNCHANGED <<code_memory, clock, stage, frontVars, exVars, archVars, memVars, prfVars,
                     issue_counter, delete_LSQ_head, delete_ROB_head, btbVars, busVars,
                     afuVars, redirectVars>>

SquashEnds ==
  /\ stage = "squash"
  /\ ~SquashContinues
  /\ miss_branch_tag' = -1
  /\ stage' = "commit" /\ clock' = Ticked
  /\ UNCHANGED <<code_memory, frontVars, exVars, archVars, memVars, freeVars, prfVars,
                 renameTable, iqVars, lsqVars, robVars, btbVars, busVars, afuVars, BFU_pc>>

(***************************************************************************)
(* APEX_cpu_run.  One thread runs the loop, so a stage that can run does.  *)
(***************************************************************************)
Next ==
  \/ CommitStage \/ CommitBelowZero
  \/ MAUStage \/ MAUOutOfBounds
  \/ MulFUStage \/ BFUStage \/ AFUStage \/ IntFUStage
  \/ IssueStage \/ DispatchStage
  \/ DecodeStage \/ DecodeOutOfBounds
  \/ FetchStage \/ FetchOutOfBounds
  \/ SquashTail \/ SquashEnds

Spec == Init /\ [][Next]_vars

\* Every call of the loop returns.  removeROBTail's loop does because each iteration
\* takes one entry off a finite buffer.
StageReturns == stage \notin {"done", "stopped", "undefined"} /\ stage' \in Stages
FairSpec == Spec /\ WF_stage(StageReturns)
=============================================================================
