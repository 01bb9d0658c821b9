---------------------------- MODULE ApexPipeline ----------------------------
(***************************************************************************)
(* Properties of the pipeline: what holds of ApexCpu in every state and on *)
(* every step, and that it implements the sequential machine ApexISA.      *)
(***************************************************************************)
EXTENDS ApexCpu, ApexNames

(***************************************************************************)
(* Correctness as a processor.                                             *)
(***************************************************************************)
\* A store commits one stage before the MAU, in the same cycle, writes it.
StoreBeingWritten ==
  stage = "MAU" /\ delete_LSQ_head /\ lsq[0].LorS_bit = "STORE"

CommittedMemory ==
  IF StoreBeingWritten
  THEN [data_memory EXCEPT ![lsq[0].memory_address] = lsq[0].valueToStore]
  ELSE data_memory

ISA == INSTANCE ApexISA WITH program <- code_memory,
                             regs <- regs,
                             flags <- flags,
                             mem <- CommittedMemory,
                             halted <- (stage = "done")

\* The ARF, the CC flags and the committed memory go through exactly the states of
\* the sequential machine: out-of-order issue, renaming and forwarding do not show.
RefinesISA == ISA!ISASpec

\* Every program of the run reaches its HALT and the simulation loop returns.
Terminates == <>(stage = "done")

(***************************************************************************)
(* Types.                                                                  *)
(***************************************************************************)
Latches == [has_insn : BOOLEAN, instr : Instrs]
StallLatches == [has_insn : BOOLEAN, stall : BOOLEAN, instr : Instrs]
Flags == {"none", "zero", "positive"}
Tags == PhysicalRegs \cup {-1}

\* Every variable stays within what its C declaration and its array's size allow.
TypeOK ==
  /\ code_memory \in Seq(Insns)
  /\ stage \in Stages /\ clock \in Nat
  /\ pc \in Int /\ fetch \in BOOLEAN
  /\ decode_rename1 \in StallLatches /\ rename2_dispatch \in StallLatches
  /\ issue_queue \in Latches
  /\ execute_IntFU \in Latches /\ execute_MulFU \in Latches
  /\ execute_AFU \in Latches /\ execute_BFU \in Latches
  /\ execute_MAU \in [has_insn : BOOLEAN, pc : Int]
  /\ commit_ARF \in Instrs
  /\ regs \in [Registers -> Int] /\ flags \in Flags
  /\ data_memory \in [Addresses -> Int]
  /\ physicalRegFile \in [PhysicalRegs -> [valid : BOOLEAN, data : Int]]
  /\ ccRegFile \in [CCRegs -> [valid : BOOLEAN, flag : Flags]]
  /\ CCHead \in Flags
  /\ freePhysicalRegList \in Seq(PhysicalRegs)
  /\ freeCCFlagsRegList \in Seq(CCRegs)
  /\ renameTable \in [Registers -> Int]
  /\ issueQueue \in [IQSlots -> IQEntries] /\ issue_counter \in Nat
  /\ branchQueue \in [BQSlots -> BQEntries]
  /\ lsq \in [LSQSlots -> LSQEntries] /\ LSQ_tail \in -1 .. LSQ_SIZE - 1
  /\ LSQ_size \in 0 .. LSQ_SIZE /\ delete_LSQ_head \in BOOLEAN
  /\ RoB \in [RoBSlots -> RoBEntries] /\ ROB_tail \in -1 .. ROB_SIZE - 1
  /\ ROB_size \in 0 .. ROB_SIZE /\ delete_ROB_head \in BOOLEAN
  /\ BTBEntry \in [BTBSlots -> BTBEntries] /\ btb_counter \in BTBSlots
  /\ bus \in [Buses -> [tag : Tags, value : Int]]
  /\ ccBus \in [CCBuses -> [tag : CCRegs \cup {-1}, flag : Flags]]
  /\ AFU_address \in Int /\ AFU_pc \in Int
  /\ BFU_pc \in Int /\ miss_branch_tag \in Int
  /\ mulcycle_counter \in 0 .. 3 /\ mau_cycle_latency \in 0 .. 2
  /\ stored_in_memory \in BOOLEAN /\ HALT \in BOOLEAN

(***************************************************************************)
(* The queues.                                                             *)
(***************************************************************************)
\* The instructions of the reorder buffer, oldest first.
InFlight == [k \in 1 .. ROB_size |-> RoB[k - 1].instr]

\* The reorder buffer is one contiguous run of entries starting at its head, and its
\* tail pointer names the last of them, through dispatch, commit and squash.
RoBContiguous ==
  /\ ROB_size \in 0 .. ROB_SIZE
  /\ \A k \in RoBSlots : RoB[k].established_bit <=> k < ROB_size
  /\ ROB_size > 0 => ROB_tail = ROB_size - 1
  /\ ROB_size = 0 => ROB_tail \in {-1, ROB_SIZE - 1}

\* The entries of the reorder buffer that hold memory operations.
MemoryEntries == {k \in RoBSlots : k < ROB_size /\ RoB[k].instr.opcode \in MemoryOps}

\* As many entries of the load-store queue come before entry k's as memory operations do.
PlaceInLSQ(k) == Cardinality({j \in MemoryEntries : j < k})

\* The load-store queue's first LSQ_size entries are the memory operations of the reorder
\* buffer, in their order: "The LSQ maintains the dispatch order of all the loads and
\* stores", whatever was squashed or committed in between.
LSQFollowsRoB ==
  /\ LSQ_size = Cardinality(MemoryEntries)
  /\ LSQ_size > 0 => LSQ_tail = LSQ_size - 1
  /\ \A k \in MemoryEntries : /\ lsq[PlaceInLSQ(k)].established_bit
                              /\ lsq[PlaceInLSQ(k)].pc = RoB[k].instr.pc

\* When a squash is over, no entry of a squashed instruction is left established.
NoSquashedLSQEntry ==
  stage # "squash" => \A k \in LSQSlots : lsq[k].established_bit => k < LSQ_size

\* The room that dispatch found in the reorder buffer, the issue queue and, for a memory
\* operation, the load-store queue is still there one cycle later, when the instruction is
\* established: commits and squashes come in between, and nothing is tested again.  It says
\* nothing of the branch queue, whose own entries dispatch's test does not read, nor that a
\* free slot of the issue queue takes the instruction: that is FindsSlots.
RoomWhenDispatched ==
  issue_queue.has_insn =>
    /\ ROB_size < ROB_SIZE
    /\ issue_queue.instr.opcode \in MemoryOps => LSQ_size < LSQ_SIZE
    /\ ~IsIssueQueueFull(issueQueue)

\* "the instructions wait until all of its source operands becomes valid" in their queues:
\* a dispatched instruction gets a slot of the issue queue, and a branch one of the branch queue.
FindsSlots ==
  issue_queue.has_insn =>
    /\ FreeIQSlot(issueQueue, issue_queue.instr.pc) # -1
    /\ issue_queue.instr.opcode \in BranchOps =>
         FreeBQSlot(branchQueue, issue_queue.instr.pc) # -1

(***************************************************************************)
(* Registers.                                                              *)
(***************************************************************************)
\* The renamed instructions that have not committed, oldest first.
Renamed ==
  LET committed == IF delete_ROB_head THEN 2 ELSE 1
  IN  SubSeq(InFlight, committed, ROB_size)
        \o (IF issue_queue.has_insn THEN <<issue_queue.instr>> ELSE << >>)
        \o (IF rename2_dispatch.has_insn THEN <<rename2_dispatch.instr>> ELSE << >>)

FreePhysicalRegs == {freePhysicalRegList[k] : k \in DOMAIN freePhysicalRegList}

OneOwnerEach(renamed) ==
  /\ Cardinality(FreePhysicalRegs) = Len(freePhysicalRegList)
  /\ HeldBy(renamed) \cap FreePhysicalRegs = {}
  /\ \A j, k \in DOMAIN renamed : j # k => Given(renamed[j]) \cap Given(renamed[k]) = {}

\* Every physical register is on the free list once, or belongs to one renamed
\* instruction: none is leaked, freed twice or given to two instructions.
RegistersConserved ==
  stage \notin {"done", "undefined"} =>
    OneOwnerEach(Renamed) /\ HeldBy(Renamed) \cup FreePhysicalRegs = PhysicalRegs

\* A squash gives back what the wrong path took and nothing else: no physical register is
\* free while a renamed instruction has it, free twice, or given to two instructions.
NoRegisterShared ==
  stage \notin {"squash", "done", "stopped", "undefined"} =>
    \E renamed \in {Renamed} : OneOwnerEach(renamed)

\* The same for the condition-code registers.
CCConserved ==
  stage \notin {"done", "undefined"} =>
    \E renamed \in {Renamed} :
      LET setters == {k \in DOMAIN renamed : renamed[k].opcode \in FlagOps}
          held == {renamed[k].flag : k \in setters}
          free == {freeCCFlagsRegList[k] : k \in DOMAIN freeCCFlagsRegList}
      IN  /\ \A j, k \in setters : j # k => renamed[j].flag # renamed[k].flag
          /\ Cardinality(free) = Len(freeCCFlagsRegList)
          /\ held \cap free = {}
          /\ held \cup free = CCRegs

\* Decode finds a flags register for every instruction that sets flags, however many were
\* renamed, committed and squashed before it.
FlagsRegisterGiven == stage = "decode" => ~NoFreeCC

\* The rename table maps a register to what its youngest renamed writer was given, as long
\* as that one has not committed, whatever has been renamed and committed in between.
TableNamesYoungest ==
  stage \notin {"squash", "done", "stopped", "undefined"} =>
    \E renamed \in {Renamed} : \A r \in ProgramRegisters :
      NamesLastWriter(renamed, r, renameTable[r])

\* "leaving only flow dependency": every source waits for the register of the instruction
\* that sequential execution takes it from, on both sides of a misprediction.
SourcesNameProducers ==
  stage \notin {"squash", "done", "stopped", "undefined"} =>
    \E renamed \in {Renamed} : \A n \in DOMAIN renamed :
      NamesItsProducers(renamed[n], SubSeq(renamed, 1, n - 1))

\* The names of the renamed instructions.
Window == [k \in DOMAIN Renamed |-> NamesOf(Renamed[k])]

Renamer == INSTANCE ApexRenaming WITH window <- Window

\* Renaming keeps its promise: decode gives each instruction registers that are its own
\* and sources that name their producers, and what is renamed leaves in program order.
RenamesInOrder == Renamer!RenamingSpec

(***************************************************************************)
(* What renaming relies on and the code does not check or handle.          *)
(***************************************************************************)
RegistersNeeded(op) ==
  (IF op \in DestinationOps THEN 1 ELSE 0) + (IF op \in PointerOps THEN 1 ELSE 0)

\* Decode never has to rename without a free register: the stall it asks for comes too late.
FindsRegisters ==
  stage = "decode" /\ decode_rename1.has_insn =>
    Len(freePhysicalRegList) >= RegistersNeeded(decode_rename1.instr.opcode)

\* Dispatch never meets a full queue: the instruction it stalls with is dropped.
FindsRoom ==
  stage = "dispatch" /\ rename2_dispatch.has_insn /\ rename2_dispatch.instr.opcode # "DIV" =>
    RoomFor(rename2_dispatch.instr.opcode, issueQueue, ROB_size, LSQ_size)

\* removeROBTail frees registers that are the tail's own: the tail is no STOREP, whose
\* base's register it mistakes, and no head that has committed and freed them already.
SquashesItsOwn ==
  stage = "squash" /\ SquashContinues =>
    /\ RoB[ROB_tail].instr.opcode # "STOREP"
    /\ delete_ROB_head => ROB_size > 1

\* A branch that enters the BTB finds its own entry or an empty one: the replacement of a
\* full BTB enters the pc of another instruction.
FindsEntry ==
  stage = "decode" /\ decode_rename1.has_insn
    /\ decode_rename1.instr.opcode \in ConditionalBranches
  => SlotToEstablish(BTBEntry, decode_rename1.instr.pc) # -1

\* The MAU starts nothing that was squashed: what the heads of both queues agree on is
\* in flight, although the MAU tests the LSQ's established_bit only.
StartsInFlight == stage = "MAU" /\ MAUStarts => RoB[0].established_bit

\* A squash stops short of the memory operation that the MAU has started.
SparesStarted ==
  stage = "squash" /\ SquashContinues /\ (stored_in_memory \/ execute_MAU.has_insn)
  => ROB_size > 1

\* No misprediction reaches what the MAU works on or is about to start.
MAUUndisturbed == StartsInFlight /\ SparesStarted

\* Nothing is squashed and nothing dropped.
Undisturbed == FindsRegisters /\ FindsRoom /\ stage # "squash"

\* Whatever is squashed, registers do not run out and go back where they came from.
SquashesCleanly == FindsRegisters /\ SquashesItsOwn

(***************************************************************************)
(* Execution.                                                              *)
(***************************************************************************)
\* The MulFU "is not pipelined and has 3 cycle latency": a multiplication in progress
\* is never replaced by another, and its cycles run out before it leaves.
MulFUNotPipelined ==
  [][execute_MulFU.has_insn =>
       \/ execute_MulFU' = execute_MulFU /\ mulcycle_counter' \in 1 .. mulcycle_counter
       \/ ~execute_MulFU'.has_insn /\ (mulcycle_counter = 1 \/ BFU_pc # -1)]_vars

\* Where an instruction that has no result yet is being worked on.
BeingWorkedOn(i) ==
  \/ \E k \in IQSlots : issueQueue[k].valid_bit /\ issueQueue[k].instr.pc = i.pc
  \/ \E latch \in {execute_IntFU, execute_MulFU, execute_AFU, execute_BFU} :
       latch.has_insn /\ latch.instr.pc = i.pc
  \/ \E k \in BQSlots : branchQueue[k].valid_bit /\ branchQueue[k].instr.pc = i.pc
  \/ \E k \in LSQSlots : lsq[k].established_bit /\ lsq[k].pc = i.pc
  \/ \E b \in Buses : bus[b].tag = i.phyrd

\* No instruction in the reorder buffer is forgotten: until its result is in the
\* physical register file some queue, unit or bus still holds it.
NoInstructionForgotten ==
  stage # "squash" =>
    \A k \in 1 .. ROB_size :
      LET i == InFlight[k]
      IN  i.opcode \in DestinationOps /\ ~PRFValid(physicalRegFile, i.phyrd)
            => BeingWorkedOn(i)

\* No queue keeps an instruction that has committed or was squashed: what waits in the
\* issue queue or the branch queue is in the reorder buffer.
WaitingIsInFlight ==
  stage \notin {"squash", "undefined"} =>
    \A queue \in {issueQueue, branchQueue} : \A k \in DOMAIN queue :
      queue[k].valid_bit =>
        \E n \in 1 .. ROB_size : InFlight[n].pc = queue[k].instr.pc

\* A unit only receives an instruction of its own kind, and none of that kind with
\* its sources there has waited longer.
ReceivesOldest(latch, next, kinds) ==
  LET woken == WokenIQ(issueQueue, bus)
      ready == {k \in IQSlots : /\ woken[k].valid_bit /\ woken[k].instr.opcode \in kinds
                                /\ SourcesValid(woken[k].instr)}
  IN  next.has_insn /\ next # latch =>
        /\ next.instr.opcode \in kinds
        /\ \A k \in ready : \E j \in IQSlots :
             /\ issueQueue[j].instr.pc = next.instr.pc
             /\ issueQueue[j].dispatch_time <= issueQueue[k].dispatch_time

EarliestIssued ==
  [][stage = "issue" =>
       /\ ReceivesOldest(execute_IntFU, execute_IntFU', IntFUSourceOps \cup NoSourceOps)
       /\ ReceivesOldest(execute_MulFU, execute_MulFU', {"MUL"})
       /\ ReceivesOldest(execute_AFU, execute_AFU', AFUOps)]_vars

\* Memory changes only for the store at the head of the reorder buffer and the LSQ:
\* "follows the program order using the LSQ and ROB".
StoresInProgramOrder ==
  [][data_memory' # data_memory =>
       /\ RoB[0].established_bit
       /\ RoB[0].instr.opcode \in StoreOps
       /\ RoB[0].instr.pc = lsq[0].pc]_vars

\* No two instructions deliver the same physical register in one cycle.
BusesDistinct ==
  \A a, b \in Buses : a # b /\ bus[a].tag = bus[b].tag => bus[a].tag = -1

(***************************************************************************)
(* Branches.                                                               *)
(***************************************************************************)
\* No branch has two entries in the BTB.
BTBUnique ==
  \A j, k \in BTBSlots : BTBEntry[j].branch_pc = BTBEntry[k].branch_pc /\ j # k
                           => BTBEntry[j].branch_pc = 0

\* Instruction i entered the reorder buffer before the mispredicted branch.
OlderThanMispredicted(i) ==
  \E j, k \in RoBSlots : /\ j < k /\ k < ROB_size
                         /\ RoB[j].instr.pc = i.pc
                         /\ RoB[k].instr.pc = miss_branch_tag

\* A misprediction empties no function unit of an instruction older than the branch.
FlushSparesOlder ==
  [][stage = "fetch" =>
       \A l \in {<<execute_IntFU, execute_IntFU'>>, <<execute_MulFU, execute_MulFU'>>,
                 <<execute_AFU, execute_AFU'>>, <<execute_BFU, execute_BFU'>>} :
         l[1].has_insn /\ OlderThanMispredicted(l[1].instr) => l[2].has_insn]_vars

\* The flags register of the youngest flag-setting instruction older than the branch at
\* pc at, -1 if all of them have committed.
FlagsFor(at) ==
  LET setters == {k \in 1 .. ROB_size :
                    /\ InFlight[k].opcode \in FlagOps
                    /\ \E b \in k + 1 .. ROB_size : InFlight[b].pc = at}
  IN  IF setters = {} THEN -1
      ELSE InFlight[CHOOSE k \in setters : \A j \in setters : j <= k].flag

\* A conditional branch goes to the BFU only when the flags it tests have been written.
BranchWaitsForFlags ==
  [][stage = "issue" /\ execute_BFU'.has_insn
       /\ execute_BFU'.instr.opcode \in ConditionalBranches
       /\ FlagsFor(execute_BFU'.instr.pc) # -1
     => ccRegFile[FlagsFor(execute_BFU'.instr.pc)].valid]_vars

\* The IntFU's instructions in the issue queue whose sources are there.
ReadyForIntFU ==
  LET woken == WokenIQ(issueQueue, bus)
  IN  {k \in IQSlots : /\ woken[k].valid_bit
                       /\ woken[k].instr.opcode \in IntFUSourceOps \cup NoSourceOps
                       /\ SourcesValid(woken[k].instr)}

\* When an instruction waiting for the IntFU has its sources, the IntFU receives one.
IntFUNotIdle ==
  [][stage = "issue" /\ ReadyForIntFU # {} => execute_IntFU'.has_insn]_vars
=============================================================================
