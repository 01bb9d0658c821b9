----------------------------- MODULE ApexQueues -----------------------------
(***************************************************************************)
(* The issue queue, branch queue, load-store queue and reorder buffer:     *)
(* full tests, establishing and removing entries (apex_queues.c), and the  *)
(* shift that deletes a committed head (apex_cpu.c).                       *)
(***************************************************************************)
EXTENDS ApexTypes

EmptyIQEntry == [valid_bit |-> FALSE, dispatch_time |-> 0, instr |-> NoInstr]
EmptyBQEntry == [valid_bit |-> FALSE, issuedToBFU |-> FALSE, instr |-> NoInstr]
EmptyLSQEntry ==
  [established_bit |-> FALSE, LorS_bit |-> "none", pc |-> 0,
   memory_address |-> 0, memory_address_valid |-> FALSE,
   phyrd |-> 0, src_data_valid |-> FALSE, src_tag |-> 0, valueToStore |-> 0]
EmptyRoBEntry == [established_bit |-> FALSE, lsq_index |-> -1, instr |-> NoInstr]

IQEntries == [valid_bit : BOOLEAN, dispatch_time : Nat, instr : Instrs]
BQEntries == [valid_bit : BOOLEAN, issuedToBFU : BOOLEAN, instr : Instrs]
LSQEntries ==
  [established_bit : BOOLEAN, LorS_bit : {"none", "LOAD", "STORE"}, pc : Int,
   memory_address : Int, memory_address_valid : BOOLEAN,
   phyrd : PhysicalRegs, src_data_valid : BOOLEAN,
   src_tag : PhysicalRegs \cup {-1}, valueToStore : Int]
RoBEntries == [established_bit : BOOLEAN, lsq_index : LSQSlots \cup {-1}, instr : Instrs]

(***************************************************************************)
(* Full tests.  is_BranchQueue_Full looks at the first slots of issueQueue.*)
(***************************************************************************)
IsIssueQueueFull(iq) == \A k \in IQSlots : iq[k].valid_bit
IsBranchQueueFull(iq) == \A k \in IQSlots \cap BQSlots : iq[k].valid_bit
IsROBFull(size) == size = ROB_SIZE
IsLSQFull(size) == size = LSQ_SIZE

\* Seeded bug: the load-store queue is not looked at.
RoomWithoutLSQ(op, iq, robSize, lsqSize) ==
  /\ ~IsIssueQueueFull(iq)
  /\ ~IsROBFull(robSize)
  /\ op \in BranchOps => ~IsBranchQueueFull(iq)

\* Whether rename2_dispatch may hand the instruction to the queues.
RoomFor(op, iq, robSize, lsqSize) ==
  /\ ~IsIssueQueueFull(iq)
  /\ ~IsROBFull(robSize)
  /\ op \in MemoryOps => ~IsLSQFull(lsqSize)
  /\ op \in BranchOps => ~IsBranchQueueFull(iq)

(***************************************************************************)
(* Establishing entries.                                                   *)
(***************************************************************************)
\* Seeded bug: a slot still in use may be chosen.
AnyIQSlot(iq, at) == FirstIndex({k \in IQSlots : iq[k].instr.pc # at})

\* establish_IssueQueueEntry: the first invalid slot whose stale pc differs.
FreeIQSlot(iq, at) ==
  FirstIndex({k \in IQSlots : ~iq[k].valid_bit /\ iq[k].instr.pc # at})

EstablishIQ(iq, i, time) ==
  LET k == FreeIQSlot(iq, i.pc)
  IN  IF k = -1 THEN iq
      ELSE [iq EXCEPT ![k] = [valid_bit |-> TRUE, dispatch_time |-> time, instr |-> i]]

\* establish_BranchQueueEntry
FreeBQSlot(bq, at) ==
  FirstIndex({s \in BQSlots : ~bq[s].valid_bit /\ bq[s].instr.pc # at})

EstablishBQ(bq, i) ==
  LET k == FreeBQSlot(bq, i.pc)
  IN  IF k = -1 THEN bq
      ELSE [bq EXCEPT ![k] = [valid_bit |-> TRUE, issuedToBFU |-> FALSE, instr |-> i]]

\* Seeded bug: the index does not wrap.
AdvanceWithoutWrap(tail, size) == tail + 1

Advance(tail, size) == (tail + 1) % size

\* establish_LSQEntry at index t; a load leaves src_tag and valueToStore alone and
\* a store leaves phyrd alone.
EstablishLSQ(q, t, i) ==
  LET fresh == [q[t] EXCEPT !.established_bit = TRUE, !.pc = i.pc,
                            !.memory_address = 0, !.memory_address_valid = FALSE]
  IN  [q EXCEPT ![t] =
         IF i.opcode \in LoadOps
         THEN [fresh EXCEPT !.LorS_bit = "LOAD", !.src_data_valid = TRUE, !.phyrd = i.phyrd]
         ELSE [fresh EXCEPT !.LorS_bit = "STORE", !.src_tag = i.phyrs1,
                            !.src_data_valid = i.phyrs1_valid,
                            !.valueToStore = IF i.phyrs1_valid THEN i.phyrs1_value ELSE @]]

\* establish_ROBEntry at index t; only a memory operation sets lsq_index.
EstablishRoB(q, t, i, lsqTail) ==
  [q EXCEPT ![t].established_bit = TRUE, ![t].instr = i,
            ![t].lsq_index = IF i.opcode \in MemoryOps THEN lsqTail ELSE @]

(***************************************************************************)
(* Removing entries.                                                       *)
(***************************************************************************)
\* removeIssueQueueEntry and removeBranchQueueEntry go by pc, to the first slot
\* holding it, valid or not.
RemoveIQ(iq, at) ==
  LET k == FirstIndex({s \in IQSlots : iq[s].instr.pc = at})
  IN  IF k = -1 THEN iq
      ELSE [iq EXCEPT ![k].valid_bit = FALSE, ![k].dispatch_time = 0, ![k].instr.pc = 0]

\* Seeded bug: only the entry's pc is cleared.
RemoveBQKeepingValid(bq, at) ==
  LET k == FirstIndex({s \in BQSlots : bq[s].instr.pc = at})
  IN  IF k = -1 THEN bq ELSE [bq EXCEPT ![k].instr.pc = 0]

RemoveBQ(bq, at) ==
  LET k == FirstIndex({s \in BQSlots : bq[s].instr.pc = at})
  IN  IF k = -1 THEN bq ELSE [bq EXCEPT ![k].valid_bit = FALSE, ![k].instr.pc = 0]

\* The two deletion blocks at the top of APEX_commit_to_ARF: entries move down one
\* place and the vacated tail entry is cleared.
Shifted(q, tail) == [k \in DOMAIN q |-> IF k < tail THEN q[k + 1] ELSE q[k]]

\* Seeded bug: the vacated tail stays established.
DeleteRoBHeadKeepingTail(q, tail) == Shifted(q, tail)

DeleteRoBHead(q, tail) ==
  [Shifted(q, tail) EXCEPT ![tail].established_bit = FALSE, ![tail].lsq_index = 0,
                           ![tail].instr.pc = 0]

\* Seeded bug: the head is cleared and the entries stay where they are.
DeleteLSQHeadInPlace(q, tail) ==
  [q EXCEPT ![0].established_bit = FALSE, ![0].src_data_valid = FALSE, ![0].pc = 0]

DeleteLSQHead(q, tail) ==
  [Shifted(q, tail) EXCEPT ![tail].established_bit = FALSE,
                           ![tail].src_data_valid = FALSE, ![tail].pc = 0]

\* removeLSQTail
SquashLSQ(q, index) ==
  [q EXCEPT ![index].established_bit = FALSE, ![index].memory_address_valid = FALSE]

\* (tail - 1) % size in C: the remainder has the sign of tail - 1, so 0 goes to -1, and to 0
\* in an array of size 1.
Retreat(tail, size) ==
  IF tail > 0 THEN (tail - 1) % size ELSE -((1 - tail) % size)
=============================================================================
