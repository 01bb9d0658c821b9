---------------------------- MODULE ApexLSQ_proof ----------------------------
(***************************************************************************)
(* The load-store queue for every program and every size of the queues,    *)
(* and with its bounds the type correctness of the pipeline.               *)
(***************************************************************************)
EXTENDS ApexTypes_proof, FiniteSetTheorems, FunctionTheorems

(***************************************************************************)
(* Ranks in finite sets of slots.                                          *)
(***************************************************************************)
Rank(S, k) == Cardinality({j \in S : j < k})

\* A set of slots is finite.
LEMMA FiniteSlots == ASSUME NEW S \in SUBSET RoBSlots PROVE IsFiniteSet(S)
<1>1. IsFiniteSet(RoBSlots)
  BY FS_Interval, ROBNotEmpty DEF RoBSlots
<1> QED
  BY <1>1, FS_Subset

\* A member's rank is below the number of members.
LEMMA RankBounds ==
  ASSUME NEW S \in SUBSET RoBSlots, NEW k \in S
  PROVE  /\ Cardinality(S) \in Nat /\ Rank(S, k) \in Nat
         /\ Rank(S, k) < Cardinality(S)
<1> DEFINE below == {j \in S : j < k}
<1>1. IsFiniteSet(S) /\ IsFiniteSet(S \ {k}) /\ IsFiniteSet(below)
  BY FiniteSlots
<1>2. Cardinality(S) \in Nat /\ Cardinality(below) \in Nat
  BY <1>1, FS_CardinalityType
<1>3. Cardinality(S \ {k}) = Cardinality(S) - 1
  BY <1>1, FS_RemoveElement
<1>4. below \in SUBSET (S \ {k})
  BY SlotSets
<1>5. Cardinality(below) <= Cardinality(S \ {k})
  BY <1>1, <1>4, FS_Subset
<1> QED
  BY <1>2, <1>3, <1>5 DEF Rank

\* Appending an entry behind all others leaves their ranks and gets the next one.
LEMMA RankAppended ==
  ASSUME NEW S \in SUBSET RoBSlots, NEW t \in RoBSlots, \A j \in S : j < t
  PROVE  /\ Cardinality(S \cup {t}) = Cardinality(S) + 1
         /\ Rank(S \cup {t}, t) = Cardinality(S)
         /\ \A k \in S : Rank(S \cup {t}, k) = Rank(S, k)
<1>1. t \in Nat /\ \A j \in S : j \in Nat /\ j # t /\ ~(t < t)
  BY SlotSets
<1>2. Cardinality(S \cup {t}) = Cardinality(S) + 1
  BY <1>1, FiniteSlots, FS_AddElement
<1>3. {j \in S \cup {t} : j < t} = S
  <2>1. ~(t < t)
    BY <1>1
  <2> QED
    BY <2>1, Zenon
<1>4. ASSUME NEW k \in S PROVE {j \in S \cup {t} : j < k} = {j \in S : j < k}
  <2>1. ~(t < k)
    BY <1>1
  <2> QED
    BY <2>1, Zenon
<1> QED
  BY <1>2, <1>3, <1>4 DEF Rank

\* Removing the last entry leaves the other ranks.
LEMMA RankOfLast ==
  ASSUME NEW S \in SUBSET RoBSlots, NEW t \in S, \A j \in S : j <= t
  PROVE  /\ Cardinality(S \ {t}) = Cardinality(S) - 1
         /\ Rank(S, t) = Cardinality(S) - 1
         /\ \A k \in S \ {t} : /\ Rank(S \ {t}, k) = Rank(S, k)
                               /\ Rank(S, k) < Cardinality(S) - 1
<1>1. S \subseteq Nat /\ S \ {t} \in SUBSET RoBSlots
  BY SlotSets
<1>2. Cardinality(S \ {t}) = Cardinality(S) - 1
  BY FiniteSlots, FS_RemoveElement
<1>3. {j \in S : j < t} = S \ {t}
  <2>1. \A j \in S : j < t <=> j # t
    BY <1>1
  <2> QED
    BY <2>1, Zenon
<1>4. ASSUME NEW k \in S \ {t}
      PROVE  Rank(S \ {t}, k) = Rank(S, k) /\ Rank(S, k) < Cardinality(S) - 1
  <2>1. {j \in S : j < k} = {j \in S \ {t} : j < k}
    BY <1>1
  <2>2. Rank(S \ {t}, k) < Cardinality(S \ {t})
    BY <1>1, RankBounds
  <2> QED
    BY <1>2, <2>1, <2>2 DEF Rank
<1> QED
  BY <1>2, <1>3, <1>4 DEF Rank

\* When every entry moves down one place the head's rank is what the others lose.
MovedDown(S) == {k \in RoBSlots : k + 1 \in S}

\* Moving all slots one down keeps their number if none falls off.
LEMMA CardinalityMovedDown ==
  ASSUME NEW S \in SUBSET RoBSlots, 0 \notin S
  PROVE  Cardinality(MovedDown(S)) = Cardinality(S)
<1> DEFINE T == MovedDown(S)
           f == [k \in T |-> k + 1]
<1>1. T \subseteq RoBSlots /\ S \subseteq RoBSlots /\ RoBSlots \subseteq Nat
  BY SlotSets DEF MovedDown
<1>2. f \in [T -> S]
  BY DEF MovedDown
<1>3. \A a, b \in T : f[a] = f[b] => a = b
  <2> SUFFICES ASSUME NEW a \in T, NEW b \in T, f[a] = f[b] PROVE a = b
    OBVIOUS
  <2>1. a \in Nat /\ b \in Nat /\ f[a] = a + 1 /\ f[b] = b + 1
    BY <1>1
  <2> QED
    BY <2>1
<1>4. \A k \in S : \E j \in T : f[j] = k
  <2> SUFFICES ASSUME NEW k \in S PROVE \E j \in T : f[j] = k
    OBVIOUS
  <2>1. k \in RoBSlots /\ k # 0
    OBVIOUS
  <2>2. k - 1 \in T
    BY <2>1, ROBNotEmpty DEF MovedDown, RoBSlots
  <2>3. f[k - 1] = k
    BY <2>1, <2>2 DEF RoBSlots
  <2> QED
    BY <2>2, <2>3
<1>5. f \in Injection(T, S) /\ f \in Surjection(T, S)
  BY <1>2, <1>3, <1>4, Fun_IsInj, Fun_IsSurj
<1>6. IsFiniteSet(T)
  BY <1>1, FiniteSlots
<1> HIDE DEF f, T
<1>7. Cardinality(S) = Cardinality(T)
  BY <1>5, <1>6, FS_Surjection
<1> QED
  BY <1>7 DEF T

\* Moving all slots one down, and slot 0 out, lowers every rank by one if 0 was a member.
LEMMA RankMovedDown ==
  ASSUME NEW S \in SUBSET RoBSlots
  PROVE  /\ Cardinality(MovedDown(S)) = IF 0 \in S THEN Cardinality(S) - 1 ELSE Cardinality(S)
         /\ \A k \in MovedDown(S) :
              Rank(MovedDown(S), k) = IF 0 \in S THEN Rank(S, k + 1) - 1 ELSE Rank(S, k + 1)
<1> DEFINE rest == S \ {0}
<1>1. rest \in SUBSET RoBSlots /\ 0 \notin rest /\ RoBSlots \subseteq Nat
  BY SlotSets
<1>2. MovedDown(S) = MovedDown(rest)
  <2>1. \A k \in RoBSlots : k + 1 # 0
    BY <1>1
  <2> QED
    BY <2>1, Zenon DEF MovedDown
<1>3. Cardinality(MovedDown(S)) = IF 0 \in S THEN Cardinality(S) - 1 ELSE Cardinality(S)
  BY <1>1, <1>2, CardinalityMovedDown, FiniteSlots, FS_RemoveElement
<1>4. ASSUME NEW k \in MovedDown(S)
      PROVE  Rank(MovedDown(S), k) = IF 0 \in S THEN Rank(S, k + 1) - 1 ELSE Rank(S, k + 1)
  <2> DEFINE below == {j \in S : j < k + 1}
  <2>1. k \in RoBSlots /\ k \in Nat
    BY <1>1 DEF MovedDown
  <2>2. {j \in MovedDown(S) : j < k} = MovedDown(below \ {0})
    <3>1. \A j \in RoBSlots : j + 1 # 0 /\ (j + 1 < k + 1 <=> j < k)
      BY <1>1, <2>1
    <3> QED
      BY <3>1, Zenon DEF MovedDown
  <2>3. below \in SUBSET RoBSlots /\ below \ {0} \in SUBSET RoBSlots
    OBVIOUS
  <2>4. 0 \in below <=> 0 \in S
    BY <2>1
  <2> HIDE DEF below
  <2>5. Cardinality(MovedDown(below \ {0})) = Cardinality(below \ {0})
    BY <2>3, CardinalityMovedDown
  <2>6. Cardinality(below \ {0})
          = IF 0 \in below THEN Cardinality(below) - 1 ELSE Cardinality(below)
    BY <2>3, FiniteSlots, FS_RemoveElement
  <2> QED
    BY <2>2, <2>4, <2>5, <2>6 DEF Rank, below
<1> QED
  BY <1>3, <1>4

(***************************************************************************)
(* The invariant of the load-store queue.                                  *)
(***************************************************************************)
\* The head of the LSQ is deleted with the head of the reorder buffer it belongs to; only
\* a squash may empty the buffer in between.
HeadsDeleted ==
  /\ delete_LSQ_head => delete_ROB_head
  /\ delete_ROB_head /\ ROB_size > 0 => (delete_LSQ_head <=> RoB[0].instr.opcode \in MemoryOps)
  /\ delete_ROB_head /\ ROB_size = 0 => stage \in {"squash", "commit", "undefined"}

LSQSizes ==
  /\ LSQ_size = Cardinality(MemoryEntries) /\ LSQ_size <= LSQ_SIZE
  /\ LSQ_size > 0 => LSQ_tail = LSQ_size - 1
  /\ LSQ_size = 0 => LSQ_tail \in {-1, LSQ_SIZE - 1}
  /\ issue_queue.has_insn /\ issue_queue.instr.opcode \in MemoryOps => LSQ_size < LSQ_SIZE

\* lsq_index is where the entry was established, at or behind its place now.
LSQContents ==
  \A k \in MemoryEntries : /\ lsq[Rank(MemoryEntries, k)].established_bit
                           /\ lsq[Rank(MemoryEntries, k)].pc = RoB[k].instr.pc
                           /\ Rank(MemoryEntries, k) <= RoB[k].lsq_index

LSQInv == HeadsDeleted /\ LSQSizes /\ LSQContents

\* Memory operations in the reorder buffer are at slots of it.
LEMMA MemoryEntriesType == MemoryEntries \in SUBSET RoBSlots /\ MemoryEntries' \in SUBSET RoBSlots
BY DEF MemoryEntries

\* The sizes and the tail of the LSQ stay in range, and every place in it is a slot.
LEMMA LSQBounds ==
  ASSUME LSQSizes
  PROVE  /\ LSQ_size \in 0 .. LSQ_SIZE /\ LSQ_tail \in -1 .. LSQ_SIZE - 1
         /\ \A k \in MemoryEntries : /\ Rank(MemoryEntries, k) \in LSQSlots
                                     /\ Rank(MemoryEntries, k) < LSQ_size
<1>1. LSQ_size \in Nat
  BY FiniteSlots, FS_CardinalityType, MemoryEntriesType DEF LSQSizes
<1>2. LSQ_size \in 0 .. LSQ_SIZE /\ LSQ_tail \in -1 .. LSQ_SIZE - 1
  BY <1>1, SlotSets DEF LSQSizes
<1>3. \A k \in MemoryEntries : /\ Rank(MemoryEntries, k) \in Nat
                               /\ Rank(MemoryEntries, k) < LSQ_size
  BY RankBounds, MemoryEntriesType DEF LSQSizes
<1> QED
  BY <1>1, <1>2, <1>3, SlotSets DEF LSQSlots, LSQSizes

\* Both queues start empty.
LEMMA LSQInvInit == Init => LSQInv
<1> SUFFICES ASSUME Init PROVE LSQInv
  OBVIOUS
<1>1. MemoryEntries = {}
  <2>1. \A k \in RoBSlots : ~(k < 0)
    BY SlotSets
  <2> QED
    BY <2>1 DEF Init, APEX_cpu_init, MemoryEntries
<1>2. LSQSizes
  BY <1>1, FS_EmptySet, SlotSets DEF Init, APEX_cpu_init, LSQSizes, EmptyLatch
<1>3. HeadsDeleted /\ LSQContents
  BY <1>1 DEF Init, APEX_cpu_init, HeadsDeleted, LSQContents
<1> QED
  BY <1>2, <1>3 DEF LSQInv

\* A stage that leaves both queues alone keeps the invariant.
LEMMA LSQInvUnchanged ==
  ASSUME LSQInv, UNCHANGED <<robVars, lsqVars>>,
         issue_queue'.has_insn => issue_queue' = issue_queue,
         stage \in {"squash", "commit", "undefined"}
           => stage' \in {"squash", "commit", "undefined"}
  PROVE  LSQInv'
<1>1. MemoryEntries' = MemoryEntries
  BY DEF MemoryEntries, robVars
<1>2. HeadsDeleted'
  BY DEF LSQInv, HeadsDeleted, robVars, lsqVars
<1>3. LSQSizes' /\ LSQContents'
  BY <1>1 DEF LSQInv, LSQSizes, LSQContents, robVars, lsqVars
<1> QED
  BY <1>2, <1>3 DEF LSQInv

\* Addresses and data do not change which instruction an entry is of.
LEMMA UpdatedKeeps ==
  ASSUME NEW q \in LSQType, NEW tail, NEW address, NEW at, NEW lines, NEW k \in LSQSlots
  PROVE  /\ UpdatedLSQ(q, tail, address, at, lines)[k].established_bit = q[k].established_bit
         /\ UpdatedLSQ(q, tail, address, at, lines)[k].pc = q[k].pc
<1>1. ASSUME NEW e \in LSQEntries
      PROVE  /\ [e EXCEPT !.memory_address = address, !.memory_address_valid = TRUE]
                  .established_bit = e.established_bit
             /\ [e EXCEPT !.memory_address = address, !.memory_address_valid = TRUE].pc = e.pc
             /\ DOMAIN [e EXCEPT !.memory_address = address, !.memory_address_valid = TRUE]
                  = DOMAIN e
  BY DEF LSQEntries
<1>2. ASSUME NEW e, {"established_bit", "pc"} \subseteq DOMAIN e
      PROVE  /\ PickUpStoreData(e, lines).established_bit = e.established_bit
             /\ PickUpStoreData(e, lines).pc = e.pc
  BY <1>2 DEF PickUpStoreData
<1>3. q[k] \in LSQEntries /\ {"established_bit", "pc"} \subseteq DOMAIN q[k]
  BY DEF LSQType, LSQEntries
<1> DEFINE e == IF k = AddressedSlot(q, tail, address, at)
                THEN [q[k] EXCEPT !.memory_address = address, !.memory_address_valid = TRUE]
                ELSE q[k]
<1>4. UpdatedLSQ(q, tail, address, at, lines)[k] = IF k <= tail THEN PickUpStoreData(e, lines) ELSE e
  BY DEF UpdatedLSQ
<1>5. /\ e.established_bit = q[k].established_bit /\ e.pc = q[k].pc
      /\ {"established_bit", "pc"} \subseteq DOMAIN e
  BY <1>1, <1>3
<1> HIDE DEF e
<1> QED
  BY <1>2, <1>4, <1>5

\* Establishing an entry changes that entry only.
LEMMA EstablishedLSQEntry ==
  ASSUME NEW q \in LSQType, NEW t \in LSQSlots, NEW i
  PROVE  /\ EstablishLSQ(q, t, i)[t].established_bit = TRUE
         /\ EstablishLSQ(q, t, i)[t].pc = i.pc
         /\ \A k \in LSQSlots \ {t} : EstablishLSQ(q, t, i)[k] = q[k]
<1> DEFINE fresh == [q[t] EXCEPT !.established_bit = TRUE, !.pc = i.pc,
                                 !.memory_address = 0, !.memory_address_valid = FALSE]
           load == [fresh EXCEPT !.LorS_bit = "LOAD", !.src_data_valid = TRUE,
                                 !.phyrd = i.phyrd]
           store == [fresh EXCEPT !.LorS_bit = "STORE", !.src_tag = i.phyrs1,
                                  !.src_data_valid = i.phyrs1_valid,
                                  !.valueToStore = IF i.phyrs1_valid THEN i.phyrs1_value ELSE @]
<1>1. q[t] \in LSQEntries
  BY DEF LSQType
<1>2. {"established_bit", "pc"} \subseteq DOMAIN q[t]
  BY <1>1 DEF LSQEntries
<1>3. /\ fresh.established_bit = TRUE /\ fresh.pc = i.pc
      /\ {"established_bit", "pc"} \subseteq DOMAIN fresh
  BY <1>2
<1>4. EstablishLSQ(q, t, i) = [q EXCEPT ![t] = IF i.opcode \in LoadOps THEN load ELSE store]
  BY DEF EstablishLSQ
<1> HIDE DEF fresh
<1>5. /\ load.established_bit = TRUE /\ load.pc = i.pc
      /\ store.established_bit = TRUE /\ store.pc = i.pc
  BY <1>3
<1> HIDE DEF load, store
<1> QED
  BY <1>4, <1>5 DEF LSQType

\* Dispatch lets a memory operation through only when the LSQ has a slot for it.
LEMMA LSQInvDispatch == ASSUME LSQInv, DispatchStage PROVE LSQInv'
<1>1. UNCHANGED <<robVars, lsqVars>> /\ stage = "dispatch"
  BY DEF DispatchStage
<1>2. MemoryEntries' = MemoryEntries
  BY <1>1 DEF MemoryEntries, robVars
<1>3. \/ issue_queue' = issue_queue
      \/ \E i : /\ issue_queue' = [has_insn |-> TRUE, instr |-> i]
                /\ i.opcode \in MemoryOps => LSQ_size # LSQ_SIZE
  BY DEF DispatchStage, RoomFor, IsLSQFull
<1>4. LSQSizes'
  <2>1. LSQ_size # LSQ_SIZE => LSQ_size < LSQ_SIZE
    BY LSQBounds, SlotSets DEF LSQInv
  <2> QED
    BY <1>1, <1>2, <1>3, <2>1 DEF LSQInv, LSQSizes, lsqVars
<1>5. HeadsDeleted' /\ LSQContents'
  BY <1>1, <1>2 DEF LSQInv, HeadsDeleted, LSQContents, robVars, lsqVars
<1> QED
  BY <1>4, <1>5 DEF LSQInv

\* A redirect leaves both queues as they are for the squash to work on.
LEMMA LSQInvFetch == ASSUME LSQInv, RoBInv, FetchStage PROVE LSQInv'
<1>1. UNCHANGED <<robVars, lsqVars>> /\ stage = "fetch"
  BY DEF FetchStage
<1>2. \/ issue_queue' = issue_queue
      \/ issue_queue' = [issue_queue EXCEPT !.has_insn = FALSE]
  BY DEF FetchStage, EmptyLatches, frontVars
<1>3. issue_queue'.has_insn => issue_queue' = issue_queue
  BY <1>2 DEF RoBInv, RoBShape
<1> QED
  BY <1>1, <1>3, LSQInvUnchanged

\* The next slot of the reorder buffer is the one after its last entry.
LEMMA NextRoBSlot ==
  ASSUME RoBInv, issue_queue.has_insn
  PROVE  Advance(ROB_tail, ROB_SIZE) = ROB_size /\ ROB_size \in RoBSlots
<1>1. ROB_size \in 0 .. ROB_SIZE - 1 /\ ROB_tail \in -1 .. ROB_SIZE - 1
  BY ROBNotEmpty DEF RoBInv, RoBContiguous
<1>2. Advance(ROB_tail, ROB_SIZE) = IF ROB_tail = ROB_SIZE - 1 THEN 0 ELSE ROB_tail + 1
  BY <1>1, Wrapping, ROBNotEmpty
<1> QED
  BY <1>1, <1>2, ROBNotEmpty DEF RoBInv, RoBContiguous, RoBSlots

\* And so for the LSQ.
LEMMA NextLSQSlot ==
  ASSUME LSQInv, issue_queue.has_insn, issue_queue.instr.opcode \in MemoryOps
  PROVE  Advance(LSQ_tail, LSQ_SIZE) = LSQ_size /\ LSQ_size \in LSQSlots
<1>1. LSQ_size \in 0 .. LSQ_SIZE - 1 /\ LSQ_tail \in -1 .. LSQ_SIZE - 1
  BY LSQBounds, SlotSets DEF LSQInv, LSQSizes
<1>2. Advance(LSQ_tail, LSQ_SIZE) = IF LSQ_tail = LSQ_SIZE - 1 THEN 0 ELSE LSQ_tail + 1
  BY <1>1, Wrapping, SlotSets
<1> QED
  BY <1>1, <1>2, SlotSets DEF LSQInv, LSQSizes, LSQSlots

\* The LSQ's part of the issue stage, whether a memory operation is dispatched or not.
LEMMA LSQInvIssue == ASSUME LSQInv, RoBInv, TypeInv, IssueStage PROVE LSQInv'
<1> DEFINE i == issue_queue.instr
           has == issue_queue.has_insn
           isMemory == has /\ i.opcode \in MemoryOps
           lsqTail == IF isMemory THEN Advance(LSQ_tail, LSQ_SIZE) ELSE LSQ_tail
           newLSQ == IF isMemory THEN EstablishLSQ(lsq, lsqTail, i) ELSE lsq
           M == MemoryEntries
<1>1. /\ lsq \in LSQType /\ RoB \in RoBType /\ i \in Instrs
      /\ ROB_size \in Nat /\ LSQ_size \in Nat /\ M \in SUBSET RoBSlots
  BY LSQBounds, MemoryEntriesType
     DEF TypeInv, LSQTypes, RoBTypes, FrontTypes, Latches, RoBInv, RoBContiguous, LSQInv
<1>2. /\ LSQ_tail' = lsqTail
      /\ LSQ_size' = IF isMemory THEN LSQ_size + 1 ELSE LSQ_size
      /\ ROB_size' = IF has THEN ROB_size + 1 ELSE ROB_size
      /\ RoB' = IF has THEN EstablishRoB(RoB, Advance(ROB_tail, ROB_SIZE), i, lsqTail) ELSE RoB
      /\ ~issue_queue'.has_insn
      /\ UNCHANGED <<delete_LSQ_head, delete_ROB_head>>
      /\ stage = "issue"
      /\ \E bq : DeliverAddresses(bq, newLSQ, lsqTail)
  <2>1. issue_queue' = [issue_queue EXCEPT !.has_insn = FALSE] /\ issue_queue \in Latches
    BY DEF IssueStage, TypeInv, FrontTypes
  <2> QED
    BY <2>1 DEF IssueStage, Latches
<1>3. isMemory => lsqTail = LSQ_size /\ LSQ_size \in LSQSlots
  BY NextLSQSlot
<1> HIDE DEF lsqTail
<1>4. newLSQ \in LSQType
  BY <1>1, <1>3, EstablishLSQType
<1>5. \A k \in LSQSlots : /\ lsq'[k].established_bit = newLSQ[k].established_bit
                          /\ lsq'[k].pc = newLSQ[k].pc
  <2>1. lsq' = UpdatedLSQ(newLSQ, lsqTail, AFU_address, AFU_pc, bus)
    BY <1>2 DEF DeliverAddresses
  <2> QED
    BY <1>4, <2>1, UpdatedKeeps
<1>6. /\ isMemory => newLSQ[LSQ_size].established_bit /\ newLSQ[LSQ_size].pc = i.pc
      /\ \A k \in LSQSlots : k < LSQ_size => newLSQ[k] = lsq[k]
  <2>1. CASE isMemory
    <3>1. /\ EstablishLSQ(lsq, LSQ_size, i)[LSQ_size].established_bit = TRUE
          /\ EstablishLSQ(lsq, LSQ_size, i)[LSQ_size].pc = i.pc
          /\ \A k \in LSQSlots \ {LSQ_size} : EstablishLSQ(lsq, LSQ_size, i)[k] = lsq[k]
      BY <1>1, <1>3, <2>1, EstablishedLSQEntry
    <3>2. \A k \in LSQSlots : k < LSQ_size => k # LSQ_size
      BY <1>1
    <3> QED
      BY <1>3, <2>1, <3>1, <3>2
  <2>2. CASE ~isMemory
    BY <2>2
  <2> QED
    BY <2>1, <2>2
<1>7. \A k \in RoBSlots : k < ROB_size => RoB'[k] = RoB[k]
  <2>1. \A k \in RoBSlots : k < ROB_size => k # ROB_size
    BY <1>1
  <2> QED
    BY <1>1, <1>2, <2>1, NextRoBSlot DEF EstablishRoB, RoBType
<1>8. has => /\ ROB_size \in RoBSlots /\ RoB'[ROB_size].instr = i
             /\ isMemory => RoB'[ROB_size].lsq_index = lsqTail
  <2> SUFFICES ASSUME has
               PROVE  /\ ROB_size \in RoBSlots /\ RoB'[ROB_size].instr = i
                      /\ isMemory => RoB'[ROB_size].lsq_index = lsqTail
    OBVIOUS
  <2>1. RoB' = EstablishRoB(RoB, ROB_size, i, lsqTail) /\ ROB_size \in RoBSlots
    BY <1>2, NextRoBSlot
  <2>2. RoB[ROB_size] \in RoBEntries
    BY <1>1, <2>1 DEF RoBType
  <2> QED
    BY <1>1, <2>1, <2>2 DEF EstablishRoB, RoBType, RoBEntries
<1>9. MemoryEntries' = IF isMemory THEN M \cup {ROB_size} ELSE M
  <2>1. CASE has
    <3>1. \A k \in RoBSlots : k < ROB_size + 1 <=> k < ROB_size \/ k = ROB_size
      BY <1>1, SlotSets
    <3>2. ROB_size' = ROB_size + 1
      BY <1>2, <2>1
    <3>3. ~(ROB_size < ROB_size)
      BY <1>1
    <3> QED
      BY <1>7, <1>8, <2>1, <3>1, <3>2, <3>3 DEF MemoryEntries
  <2>2. CASE ~has
    BY <1>2, <2>2 DEF MemoryEntries
  <2> QED
    BY <2>1, <2>2
<1>10. \A k \in M : k < ROB_size
  BY DEF MemoryEntries
<1>11. isMemory => /\ Cardinality(MemoryEntries') = LSQ_size + 1
                   /\ Rank(MemoryEntries', ROB_size) = LSQ_size
  <2>1. Cardinality(M) = LSQ_size
    BY DEF LSQInv, LSQSizes
  <2> HIDE DEF M
  <2> QED
    BY <1>1, <1>8, <1>9, <1>10, <2>1, RankAppended
<1>12. \A k \in M : /\ Rank(MemoryEntries', k) = Rank(M, k)
                    /\ Rank(M, k) \in LSQSlots /\ Rank(M, k) < LSQ_size
  <2>1. \A k \in M : Rank(M, k) \in LSQSlots /\ Rank(M, k) < LSQ_size
    BY LSQBounds DEF LSQInv
  <2> HIDE DEF M
  <2>2. \A k \in M : Rank(MemoryEntries', k) = Rank(M, k)
    BY <1>1, <1>8, <1>9, <1>10, RankAppended
  <2> QED
    BY <2>1, <2>2
<1>13. HeadsDeleted'
  <2>1. delete_ROB_head => ROB_size > 0
    BY <1>1, <1>2 DEF LSQInv, HeadsDeleted
  <2>2. ROB_size > 0 => RoB'[0] = RoB[0] /\ ROB_size' > 0
    BY <1>1, <1>2, <1>7, SlotSets
  <2> QED
    BY <1>2, <2>1, <2>2 DEF LSQInv, HeadsDeleted
<1>14. LSQSizes'
  <2>1. CASE isMemory
    <3>1. /\ LSQ_size' = LSQ_size + 1 /\ LSQ_tail' = LSQ_size
          /\ LSQ_size < LSQ_SIZE
      BY <1>2, <1>3, <2>1 DEF LSQInv, LSQSizes
    <3>2. LSQ_size' <= LSQ_SIZE /\ LSQ_size' > 0 /\ LSQ_tail' = LSQ_size' - 1
      BY <1>1, <3>1, SlotSets
    <3> QED
      BY <1>2, <1>11, <2>1, <3>1, <3>2 DEF LSQSizes
  <2>2. CASE ~isMemory
    <3>1. LSQ_size' = LSQ_size /\ LSQ_tail' = LSQ_tail
      BY <1>2, <2>2 DEF lsqTail
    <3> QED
      BY <1>2, <1>9, <2>2, <3>1 DEF LSQInv, LSQSizes
  <2> QED
    BY <2>1, <2>2
<1>15. LSQContents'
  <2> DEFINE N == MemoryEntries'
             Holds(k) == /\ lsq'[Rank(N, k)].established_bit
                         /\ lsq'[Rank(N, k)].pc = RoB'[k].instr.pc
                         /\ Rank(N, k) <= RoB'[k].lsq_index
  <2>1. ASSUME NEW k \in M PROVE Holds(k)
    <3>1. RoB'[k] = RoB[k]
      BY <1>1, <1>7, <1>10
    <3>2. /\ lsq[Rank(M, k)].established_bit /\ lsq[Rank(M, k)].pc = RoB[k].instr.pc
          /\ Rank(M, k) <= RoB[k].lsq_index
      BY DEF LSQInv, LSQContents
    <3> HIDE DEF M, N
    <3>3. /\ lsq'[Rank(M, k)].established_bit = lsq[Rank(M, k)].established_bit
          /\ lsq'[Rank(M, k)].pc = lsq[Rank(M, k)].pc
      BY <1>5, <1>6, <1>12
    <3> QED
      BY <1>12, <3>1, <3>2, <3>3 DEF N
  <2>2. ASSUME isMemory PROVE Holds(ROB_size)
    <3>1. RoB'[ROB_size].instr = i /\ RoB'[ROB_size].lsq_index = LSQ_size
      BY <1>3, <1>8, <2>2
    <3>2. lsq'[LSQ_size].established_bit /\ lsq'[LSQ_size].pc = i.pc
      BY <1>3, <1>5, <1>6, <2>2
    <3>3. Rank(N, ROB_size) = LSQ_size /\ LSQ_size <= LSQ_size
      BY <1>1, <1>11, <2>2
    <3> QED
      BY <3>1, <3>2, <3>3
  <2>3. \A k \in N : Holds(k)
    BY <1>9, <2>1, <2>2
  <2> QED
    BY <2>3 DEF LSQContents
<1> QED
  BY <1>13, <1>14, <1>15 DEF LSQInv

\* The squash takes a memory operation off the tails of both queues.
LEMMA LSQInvSquash == ASSUME LSQInv, RoBInv, TypeInv, SquashTail PROVE LSQInv'
<1> DEFINE entry == RoB[ROB_tail]
           isMemory == entry.instr.opcode \in MemoryOps
           M == MemoryEntries
<1>1. /\ lsq \in LSQType /\ RoB \in RoBType /\ LSQ_size \in Nat /\ M \in SUBSET RoBSlots
  BY LSQBounds, MemoryEntriesType DEF TypeInv, LSQTypes, RoBTypes, LSQInv
<1>2. /\ ROB_size \in Nat \ {0} /\ ROB_tail = ROB_size - 1 /\ ROB_tail \in RoBSlots
  BY ROBNotEmpty DEF SquashTail, SquashContinues, RoBInv, RoBContiguous, RoBSlots
<1>3. /\ RoB' = [RoB EXCEPT ![ROB_tail].established_bit = FALSE]
      /\ ROB_size' = ROB_size - 1
      /\ lsq' = IF isMemory THEN SquashLSQ(lsq, entry.lsq_index) ELSE lsq
      /\ LSQ_size' = IF isMemory THEN LSQ_size - 1 ELSE LSQ_size
      /\ LSQ_tail' = IF isMemory THEN Retreat(LSQ_tail, LSQ_SIZE) ELSE LSQ_tail
      /\ UNCHANGED <<issue_queue, delete_LSQ_head, delete_ROB_head, stage>>
      /\ stage = "squash"
  BY DEF SquashTail, frontVars
<1>4. \A k \in RoBSlots : /\ RoB'[k].instr = RoB[k].instr
                          /\ RoB'[k].lsq_index = RoB[k].lsq_index
  BY <1>1, <1>2, <1>3 DEF RoBType, RoBEntries
<1>5. \A k \in RoBSlots : k < ROB_size' <=> k < ROB_size /\ k # ROB_tail
  BY <1>2, <1>3, SlotSets
<1>6. MemoryEntries' = M \ {ROB_tail}
  BY <1>4, <1>5 DEF MemoryEntries
<1>7. isMemory <=> ROB_tail \in M
  <2>1. ROB_tail < ROB_size
    BY <1>2
  <2> QED
    BY <1>2, <2>1 DEF MemoryEntries
<1>8. \A j \in M : j <= ROB_tail
  BY <1>2, SlotSets DEF MemoryEntries
<1>9. Cardinality(M) = LSQ_size /\ LSQContents
  BY DEF LSQInv, LSQSizes
<1>10. ASSUME isMemory
       PROVE  /\ Cardinality(MemoryEntries') = LSQ_size - 1
              /\ Rank(M, ROB_tail) = LSQ_size - 1
              /\ \A k \in MemoryEntries' : /\ Rank(MemoryEntries', k) = Rank(M, k)
                                           /\ Rank(M, k) < LSQ_size - 1
  <2>1. ROB_tail \in M
    BY <1>7, <1>10
  <2> HIDE DEF M, isMemory
  <2> QED
    BY <1>1, <1>6, <1>8, <1>9, <2>1, RankOfLast
<1>11. ASSUME ~isMemory PROVE MemoryEntries' = M
  BY <1>6, <1>7, <1>11
<1>12. HeadsDeleted'
  <2>1. ROB_size' > 0 => ROB_size > 0 /\ RoB'[0].instr = RoB[0].instr
    BY <1>2, <1>3, <1>4, SlotSets
  <2> QED
    BY <1>3, <2>1 DEF LSQInv, HeadsDeleted
<1>13. LSQSizes'
  <2>1. CASE isMemory
    <3>1. LSQ_size # 0
      BY <1>1, <1>7, <1>9, <2>1, RankBounds
    <3>2. /\ LSQ_size' = LSQ_size - 1 /\ LSQ_tail' = LSQ_size - 2
      <4>1. LSQ_tail = LSQ_size - 1 /\ LSQ_tail \in 0 .. LSQ_SIZE - 1
        BY <1>1, <3>1, PairsFit DEF LSQInv, LSQSizes
      <4>2. Retreat(LSQ_tail, LSQ_SIZE) = LSQ_tail - 1
        BY <4>1, PairsFit, Retreating
      <4> QED
        BY <1>1, <1>3, <2>1, <4>1, <4>2
    <3>3. /\ LSQ_size' <= LSQ_SIZE /\ LSQ_size' < LSQ_SIZE
          /\ LSQ_tail' = LSQ_size' - 1
          /\ LSQ_size' = 0 => LSQ_tail' = -1
      BY <1>1, <3>1, <3>2, SlotSets DEF LSQInv, LSQSizes
    <3> QED
      BY <1>10, <2>1, <3>2, <3>3 DEF LSQSizes
  <2>2. CASE ~isMemory
    BY <1>3, <1>11, <2>2 DEF LSQInv, LSQSizes
  <2> QED
    BY <2>1, <2>2
<1>14. LSQContents'
  <2> DEFINE N == MemoryEntries'
  <2>1. ASSUME NEW k \in N
        PROVE  /\ Rank(N, k) = Rank(M, k) /\ k \in M /\ k \in RoBSlots
               /\ lsq'[Rank(M, k)].established_bit = lsq[Rank(M, k)].established_bit
               /\ lsq'[Rank(M, k)].pc = lsq[Rank(M, k)].pc
    <3>1. CASE isMemory
      <4>1. /\ Rank(N, k) = Rank(M, k) /\ Rank(M, k) < LSQ_size - 1
            /\ Rank(M, ROB_tail) = LSQ_size - 1
        BY <1>10, <3>1
      <4>2. Rank(M, ROB_tail) <= entry.lsq_index
        BY <1>7, <1>9, <3>1 DEF LSQContents
      <4>3. entry.lsq_index \in Int /\ Rank(M, k) \in LSQSlots
        <5>1. entry.lsq_index \in LSQSlots \cup {-1}
          BY <1>1, <1>2 DEF RoBType, RoBEntries
        <5>2. entry.lsq_index \in Int
          BY <5>1, SlotSets DEF LSQSlots
        <5>3. k \in M
          BY <1>6
        <5>4. Rank(M, k) \in LSQSlots
          BY <5>3, LSQBounds DEF LSQInv
        <5> QED
          BY <5>2, <5>4
      <4>4. Rank(M, k) # entry.lsq_index
        BY <1>1, <4>1, <4>2, <4>3, SlotSets
      <4>5. lsq'[Rank(M, k)] = lsq[Rank(M, k)]
        BY <1>1, <1>3, <3>1, <4>3, <4>4 DEF SquashLSQ, LSQType
      <4> QED
        BY <1>1, <1>6, <4>1, <4>5
    <3>2. CASE ~isMemory
      BY <1>1, <1>3, <1>11, <3>2
    <3> QED
      BY <3>1, <3>2
  <2> QED
    BY <1>4, <1>9, <2>1 DEF LSQContents
<1> QED
  BY <1>12, <1>13, <1>14 DEF LSQInv

\* The heads that are deleted at the next commit belong to one instruction.
LEMMA HeadsCommitted ==
  ASSUME LSQInv, RoBInv, CommitStage PROVE HeadsDeleted'
<1>1. /\ RoB' = RoBAtCommit
      /\ RoBContiguous'
  BY RoBInvCommit DEF CommitStage, RoBInv
<1>2. RoBAtCommit[0].established_bit => ROB_size' > 0
  BY <1>1, SlotSets DEF RoBContiguous
<1> DEFINE i == RoBAtCommit[0].instr
<1>3. CASE RoBAtCommit[0].established_bit
  <2>1. \/ /\ delete_LSQ_head' = (i.opcode \in MemoryOps)
           /\ delete_ROB_head' = (i.opcode # "HALT")
        \/ delete_ROB_head' = FALSE /\ delete_LSQ_head' = FALSE
    BY <1>3 DEF CommitStage, CommitHead
  <2>2. "HALT" \notin MemoryOps
    BY DEF MemoryOps, LoadOps, StoreOps
  <2>3. RoB'[0].instr = i /\ ROB_size' > 0 /\ ROB_size' # 0
    BY <1>1, <1>2, <1>3 DEF RoBContiguous
  <2> QED
    BY <2>1, <2>2, <2>3 DEF HeadsDeleted
<1>4. CASE ~RoBAtCommit[0].established_bit
  BY <1>4 DEF CommitStage, HeadsDeleted
<1> QED
  BY <1>3, <1>4

\* Both heads are deleted: every memory operation moves down with its entry.
LEMMA LSQInvCommit == ASSUME LSQInv, RoBInv, TypeInv, CommitStage PROVE LSQInv'
<1> DEFINE M == MemoryEntries
           N == MemoryEntries'
<1>1. /\ lsq \in LSQType /\ RoB \in RoBType /\ LSQ_size \in Nat /\ M \in SUBSET RoBSlots
      /\ Cardinality(M) = LSQ_size /\ LSQContents
  BY LSQBounds, MemoryEntriesType DEF TypeInv, LSQTypes, RoBTypes, LSQInv, LSQSizes
<1>2. /\ RoB' = RoBAtCommit /\ lsq' = LSQAtCommit
      /\ ROB_size' = IF delete_ROB_head THEN ROB_size - 1 ELSE ROB_size
      /\ LSQ_size' = IF delete_LSQ_head THEN LSQ_size - 1 ELSE LSQ_size
      /\ LSQ_tail' = IF delete_LSQ_head THEN Retreat(LSQ_tail, LSQ_SIZE) ELSE LSQ_tail
      /\ issue_queue' = issue_queue
  BY DEF CommitStage, frontVars
<1>3. HeadsDeleted'
  BY HeadsCommitted
<1>4. CASE ~delete_ROB_head
  <2>1. ~delete_LSQ_head
    BY <1>4 DEF LSQInv, HeadsDeleted
  <2>2. UNCHANGED <<RoB, lsq, ROB_size, LSQ_size, LSQ_tail>>
    BY <1>2, <1>4, <2>1 DEF RoBAtCommit, LSQAtCommit
  <2>3. N = M
    BY <2>2 DEF MemoryEntries
  <2>4. LSQSizes' /\ LSQContents'
    BY <1>2, <2>2, <2>3 DEF LSQInv, LSQSizes, LSQContents
  <2> QED
    BY <1>3, <2>4 DEF LSQInv
<1>5. CASE delete_ROB_head
  <2>1. /\ ROB_size \in 1 .. ROB_SIZE /\ ROB_tail = ROB_size - 1 /\ ROB_tail \in RoBSlots
    BY <1>5, ROBNotEmpty DEF CommitStage, DeletesBelowZero, RoBInv, RoBContiguous, RoBSlots
  <2>2. delete_LSQ_head <=> 0 \in M
    <3>1. ROB_size > 0
      BY <2>1
    <3> QED
      BY <1>5, <3>1, SlotSets DEF LSQInv, HeadsDeleted, MemoryEntries
  <2>3. \A k \in RoBSlots : k < ROB_size - 1 => k + 1 \in RoBSlots /\ RoB'[k] = RoB[k + 1]
    <3>1. RoB' = DeleteRoBHead(RoB, ROB_tail)
      BY <1>2, <1>5 DEF RoBAtCommit
    <3>2. \A k \in RoBSlots : k < ROB_tail =>
            k # ROB_tail /\ Shifted(RoB, ROB_tail)[k] = RoB[k + 1]
      BY <1>1, <2>1 DEF Shifted, RoBType, RoBSlots
    <3>3. DOMAIN Shifted(RoB, ROB_tail) = RoBSlots
      BY <1>1 DEF Shifted, RoBType
    <3>4. \A k \in RoBSlots : k < ROB_tail => RoB'[k] = RoB[k + 1]
      BY <3>1, <3>2, <3>3 DEF DeleteRoBHead
    <3> QED
      BY <2>1, <3>4, ROBNotEmpty DEF RoBSlots
  <2>4. N = MovedDown(M)
    <3>1. ASSUME NEW k \in RoBSlots PROVE k \in N <=> k + 1 \in M
      <4>1. /\ k < ROB_size' <=> k + 1 < ROB_size
            /\ k < ROB_size' <=> k < ROB_size - 1
        BY <1>2, <1>5, <2>1, SlotSets DEF RoBSlots
      <4>2. CASE k < ROB_size'
        BY <2>3, <4>1, <4>2 DEF MemoryEntries
      <4>3. CASE ~(k < ROB_size')
        BY <4>1, <4>3 DEF MemoryEntries
      <4> QED
        BY <4>2, <4>3
    <3>2. N \subseteq RoBSlots
      BY MemoryEntriesType
    <3> HIDE DEF M, N
    <3> QED
      BY <3>1, <3>2 DEF MovedDown
  <2>5. /\ Cardinality(N) = IF 0 \in M THEN LSQ_size - 1 ELSE LSQ_size
        /\ \A k \in N : Rank(N, k) = IF 0 \in M THEN Rank(M, k + 1) - 1 ELSE Rank(M, k + 1)
    <3> HIDE DEF M, N
    <3> QED
      BY <1>1, <2>4, RankMovedDown
  <2>6. \A k \in N : /\ k \in RoBSlots /\ k + 1 \in M /\ RoB'[k] = RoB[k + 1]
                     /\ Rank(N, k) \in Nat
                     /\ Rank(M, k + 1) \in LSQSlots /\ Rank(M, k + 1) < LSQ_size
    <3>1. \A k \in N : k < ROB_size - 1
      BY <1>2, <1>5 DEF MemoryEntries
    <3>2. \A k \in N : k \in RoBSlots /\ k + 1 \in M /\ RoB'[k] = RoB[k + 1]
      BY <2>3, <2>4, <3>1 DEF MovedDown
    <3> QED
      BY <3>2, RankBounds, LSQBounds, MemoryEntriesType DEF LSQInv
  <2>7. delete_LSQ_head => LSQ_size > 0 /\ LSQ_tail = LSQ_size - 1 /\ LSQ_tail \in LSQSlots
    <3> SUFFICES ASSUME delete_LSQ_head
                 PROVE  LSQ_size > 0 /\ LSQ_tail = LSQ_size - 1 /\ LSQ_tail \in LSQSlots
      OBVIOUS
    <3>1. LSQ_size > 0
      BY <1>1, <2>2, RankBounds
    <3>2. LSQ_tail = LSQ_size - 1 /\ LSQ_size <= LSQ_SIZE
      BY <3>1 DEF LSQInv, LSQSizes
    <3> QED
      BY <1>1, <3>1, <3>2, SlotSets DEF LSQSlots
  <2>8. LSQSizes'
    <3>1. CASE delete_LSQ_head
      <4>0. Retreat(LSQ_tail, LSQ_SIZE) = LSQ_tail - 1
        <5>1. LSQ_tail \in 0 .. LSQ_SIZE - 1
          BY <2>7, <3>1 DEF LSQSlots
        <5> QED
          BY <5>1, PairsFit, Retreating
      <4>1. /\ LSQ_size' = LSQ_size - 1 /\ LSQ_tail' = LSQ_size' - 1
            /\ LSQ_size' <= LSQ_SIZE
            /\ LSQ_size' < LSQ_SIZE
            /\ LSQ_size' = 0 => LSQ_tail' = -1
        BY <1>1, <1>2, <2>7, <3>1, <4>0, SlotSets DEF LSQInv, LSQSizes
      <4> QED
        BY <2>2, <2>5, <3>1, <4>1 DEF LSQSizes
    <3>2. CASE ~delete_LSQ_head
      BY <1>2, <2>2, <2>5, <3>2 DEF LSQInv, LSQSizes
    <3> QED
      BY <3>1, <3>2
  <2>9. LSQContents'
    <3> SUFFICES ASSUME NEW k \in N
                 PROVE  /\ lsq'[Rank(N, k)].established_bit
                        /\ lsq'[Rank(N, k)].pc = RoB'[k].instr.pc
                        /\ Rank(N, k) <= RoB'[k].lsq_index
      BY DEF LSQContents
    <3>1. /\ lsq[Rank(M, k + 1)].established_bit
          /\ lsq[Rank(M, k + 1)].pc = RoB'[k].instr.pc
          /\ Rank(M, k + 1) <= RoB'[k].lsq_index
      BY <1>1, <2>6 DEF LSQContents
    <3>2. RoB'[k].lsq_index \in Int
      <4>1. RoB'[k] \in RoBEntries
        BY <1>1, <2>6 DEF RoBType, MemoryEntries
      <4> QED
        BY <4>1, SlotSets DEF RoBEntries, LSQSlots
    <3>3. Rank(N, k) <= RoB'[k].lsq_index
      BY <2>5, <2>6, <3>1, <3>2, SlotSets DEF LSQSlots
    <3>4. lsq'[Rank(N, k)] = lsq[Rank(M, k + 1)]
      <4>1. CASE delete_LSQ_head
        <5>1. Rank(N, k) = Rank(M, k + 1) - 1
          BY <2>2, <2>5, <4>1
        <5>2. Rank(N, k) \in LSQSlots /\ Rank(N, k) < LSQ_tail /\ Rank(N, k) + 1 = Rank(M, k + 1)
          BY <1>1, <2>6, <2>7, <4>1, <5>1, SlotSets DEF LSQSlots
        <5>3. lsq' = DeleteLSQHead(lsq, LSQ_tail)
          BY <1>2, <4>1 DEF LSQAtCommit
        <5>4. Rank(N, k) # LSQ_tail
          BY <2>7, <4>1, <5>2, SlotSets DEF LSQSlots
        <5>5. Shifted(lsq, LSQ_tail)[Rank(N, k)] = lsq[Rank(M, k + 1)]
          BY <1>1, <5>2 DEF Shifted, LSQType
        <5>6. lsq'[Rank(N, k)] = Shifted(lsq, LSQ_tail)[Rank(N, k)]
          BY <1>1, <5>2, <5>3, <5>4 DEF DeleteLSQHead, Shifted, LSQType
        <5> QED
          BY <5>5, <5>6
      <4>2. CASE ~delete_LSQ_head
        BY <1>2, <2>2, <2>5, <4>2 DEF LSQAtCommit
      <4> QED
        BY <4>1, <4>2
    <3> QED
      BY <3>1, <3>3, <3>4
  <2> QED
    BY <1>3, <2>8, <2>9 DEF LSQInv
<1> QED
  BY <1>4, <1>5

\* Every step keeps the invariant.
LEMMA LSQInvStep ==
  ASSUME LSQInv, RoBInv, TypeInv, [Next]_vars PROVE LSQInv'
<1> DEFINE Squashing == {"squash", "commit", "undefined"}
<1>1. CASE CommitStage
  BY <1>1, LSQInvCommit
<1>2. CASE IssueStage
  BY <1>2, LSQInvIssue
<1>3. CASE DispatchStage
  BY <1>3, LSQInvDispatch
<1>4. CASE FetchStage
  BY <1>4, LSQInvFetch
<1>5. CASE SquashTail
  BY <1>5, LSQInvSquash
<1>6. CASE CommitBelowZero \/ MAUOutOfBounds \/ DecodeOutOfBounds \/ FetchOutOfBounds
  <2>1. BecomesUndefined
    BY <1>6 DEF CommitBelowZero, MAUOutOfBounds, DecodeOutOfBounds, FetchOutOfBounds
  <2>2. UNCHANGED <<robVars, lsqVars, issue_queue>> /\ stage' \in Squashing
    BY <2>1 DEF BecomesUndefined, frontVars
  <2> QED
    BY <2>2, LSQInvUnchanged
<1>7. CASE MAUStage
  <2>1. UNCHANGED <<robVars, lsqVars, issue_queue>> /\ stage \notin Squashing
    BY <1>7 DEF MAUStage, frontVars
  <2> QED
    BY <2>1, LSQInvUnchanged
<1>8. CASE MulFUStage
  <2>1. UNCHANGED <<robVars, lsqVars, issue_queue>> /\ stage \notin Squashing
    BY <1>8 DEF MulFUStage, frontVars
  <2> QED
    BY <2>1, LSQInvUnchanged
<1>9. CASE BFUStage
  <2>1. UNCHANGED <<robVars, lsqVars, issue_queue>> /\ stage \notin Squashing
    BY <1>9 DEF BFUStage
  <2> QED
    BY <2>1, LSQInvUnchanged
<1>10. CASE AFUStage
  <2>1. UNCHANGED <<robVars, lsqVars, issue_queue>> /\ stage \notin Squashing
    BY <1>10 DEF AFUStage, frontVars
  <2> QED
    BY <2>1, LSQInvUnchanged
<1>11. CASE IntFUStage
  <2>1. UNCHANGED <<robVars, lsqVars, issue_queue>> /\ stage \notin Squashing
    BY <1>11 DEF IntFUStage, frontVars
  <2> QED
    BY <2>1, LSQInvUnchanged
<1>12. CASE DecodeStage
  <2>1. UNCHANGED <<robVars, lsqVars, issue_queue>> /\ stage \notin Squashing
    BY <1>12 DEF DecodeStage
  <2> QED
    BY <2>1, LSQInvUnchanged
<1>13. CASE SquashEnds
  <2>1. UNCHANGED <<robVars, lsqVars, issue_queue>> /\ stage' \in Squashing
    BY <1>13 DEF SquashEnds, frontVars
  <2> QED
    BY <2>1, LSQInvUnchanged
<1>14. CASE UNCHANGED vars
  <2>1. UNCHANGED <<robVars, lsqVars, issue_queue, stage>>
    BY <1>14 DEF vars, frontVars
  <2> QED
    BY <2>1, LSQInvUnchanged
<1> QED
  BY <1>1, <1>2, <1>3, <1>4, <1>5, <1>6, <1>7, <1>8, <1>9, <1>10, <1>11, <1>12, <1>13,
     <1>14 DEF Next

\* The invariant holds in every state of every run.
LEMMA LSQInvAlways == ASSUME BitwiseIsInt PROVE Spec => []LSQInv
<1>1. LSQInv /\ RoBInv /\ TypeInv /\ [Next]_vars => LSQInv'
  BY LSQInvStep
<1> QED
  BY <1>1, LSQInvInit, RoBInvAlways, TypeInvAlways, PTL DEF Spec

(***************************************************************************)
(* The room in the issue queue.                                            *)
(***************************************************************************)
\* Nothing fills the issue queue between dispatch and the establishment.
IQRoom == issue_queue.has_insn => ~IsIssueQueueFull(issueQueue)

LEMMA IQRoomUnchanged ==
  ASSUME IQRoom, UNCHANGED <<issue_queue, issueQueue>> PROVE IQRoom'
BY DEF IQRoom, IsIssueQueueFull

\* A squash frees slots of the issue queue and takes none.
LEMMA IQRoomSquash == ASSUME IQRoom, TypeInv, SquashTail PROVE IQRoom'
<1> SUFFICES ASSUME issue_queue'.has_insn
             PROVE  \E s \in IQSlots : ~issueQueue'[s].valid_bit
  BY DEF IQRoom, IsIssueQueueFull
<1>1. issueQueue \in IQType /\ issue_queue' = issue_queue
  BY DEF TypeInv, QueueTypes, SquashTail, frontVars
<1>2. PICK s \in IQSlots : ~issueQueue[s].valid_bit
  BY <1>1 DEF IQRoom, IsIssueQueueFull
<1>3. PICK at : issueQueue' = RemoveIQ(issueQueue, at)
  BY DEF SquashTail
<1>4. \A e \in IQEntries :
        /\ ~[e EXCEPT !.valid_bit = FALSE, !.dispatch_time = 0, !.instr.pc = 0].valid_bit
  BY DEF IQEntries
<1>5. ~issueQueue'[s].valid_bit
  BY <1>1, <1>2, <1>3, <1>4 DEF RemoveIQ, IQType
<1> QED
  BY <1>5

\* The latch is emptied by what fills the queue, and filled only with room in the queue.
LEMMA IQRoomStep == ASSUME IQRoom, TypeInv, [Next]_vars PROVE IQRoom'
<1>1. CASE SquashTail
  BY <1>1, IQRoomSquash
<1>2. CASE IssueStage
  <2>1. issue_queue \in Latches
    BY DEF TypeInv, FrontTypes
  <2>2. issue_queue' = [issue_queue EXCEPT !.has_insn = FALSE]
    BY <1>2 DEF IssueStage
  <2> QED
    BY <2>1, <2>2 DEF Latches, IQRoom
<1>3. CASE DispatchStage
  <2>1. /\ issueQueue' = issueQueue
        /\ \/ issue_queue' = issue_queue
           \/ ~IsIssueQueueFull(issueQueue)
    BY <1>3 DEF DispatchStage, RoomFor, iqVars
  <2> QED
    BY <2>1 DEF IQRoom, IsIssueQueueFull
<1>4. CASE FetchStage
  <2>1. issue_queue \in Latches
    BY DEF TypeInv, FrontTypes
  <2>2. issue_queue' \in {issue_queue, [issue_queue EXCEPT !.has_insn = FALSE]}
    BY <1>4 DEF FetchStage, frontVars, EmptyLatches
  <2>3. issueQueue' = issueQueue
    BY <1>4 DEF FetchStage, iqVars
  <2> QED
    BY <2>1, <2>2, <2>3 DEF Latches, IQRoom, IsIssueQueueFull
<1>5. CASE CommitBelowZero \/ MAUOutOfBounds \/ DecodeOutOfBounds \/ FetchOutOfBounds
  BY <1>5, IQRoomUnchanged DEF CommitBelowZero, MAUOutOfBounds, DecodeOutOfBounds,
                               FetchOutOfBounds, BecomesUndefined, frontVars, iqVars
<1>6. CASE CommitStage \/ MAUStage \/ SquashEnds
  BY <1>6, IQRoomUnchanged DEF CommitStage, MAUStage, SquashEnds, frontVars, iqVars
<1>7. CASE MulFUStage \/ BFUStage
  BY <1>7, IQRoomUnchanged DEF MulFUStage, BFUStage, frontVars, iqVars
<1>8. CASE AFUStage \/ IntFUStage
  BY <1>8, IQRoomUnchanged DEF AFUStage, IntFUStage, frontVars, iqVars
<1>9. CASE DecodeStage
  BY <1>9, IQRoomUnchanged DEF DecodeStage, iqVars
<1>10. CASE UNCHANGED vars
  BY <1>10, IQRoomUnchanged DEF vars, frontVars, iqVars
<1> QED
  BY <1>1, <1>2, <1>3, <1>4, <1>5, <1>6, <1>7, <1>8, <1>9, <1>10 DEF Next

\* The invariant holds in every state of every run.
LEMMA IQRoomAlways == ASSUME BitwiseIsInt PROVE Spec => []IQRoom
<1>1. Init => IQRoom
  BY DEF Init, APEX_cpu_init, IQRoom, EmptyLatch
<1>2. IQRoom /\ TypeInv /\ [Next]_vars => IQRoom'
  BY IQRoomStep
<1> QED
  BY <1>1, <1>2, TypeInvAlways, PTL DEF Spec

(***************************************************************************)
(* What follows from the invariants.                                       *)
(***************************************************************************)
\* The load-store queue holds the memory operations of the reorder buffer in their order,
\* through dispatch, commit of loads, stores and other instructions, and squash.
THEOREM LSQFollowsTheRoB == ASSUME BitwiseIsInt PROVE Spec => []LSQFollowsRoB
<1>1. \A k : PlaceInLSQ(k) = Rank(MemoryEntries, k)
  BY DEF PlaceInLSQ, Rank
<1>2. LSQInv => LSQFollowsRoB
  BY <1>1 DEF LSQInv, LSQSizes, LSQContents, LSQFollowsRoB
<1> QED
  BY <1>2, LSQInvAlways, PTL

\* The room dispatch found in the reorder buffer, the issue queue and, for a memory operation,
\* the load-store queue is still there when the queues take the instruction one cycle later,
\* whatever commits or is squashed in between.
THEOREM RoomIsKept == ASSUME BitwiseIsInt PROVE Spec => []RoomWhenDispatched
<1>1. RoBInv /\ LSQInv /\ IQRoom => RoomWhenDispatched
  BY DEF RoBInv, LSQInv, LSQSizes, IQRoom, RoomWhenDispatched
<1> QED
  BY <1>1, RoBInvAlways, LSQInvAlways, IQRoomAlways, PTL

\* Every variable keeps the type its C declaration gives it, and every count and pointer
\* the bounds of its queue, for every program and every size of the structures.
THEOREM TypesAreCorrect == ASSUME BitwiseIsInt PROVE Spec => []TypeOK
<1>1. TypeInv /\ RoBInv /\ LSQInv /\ MulFUInv => TypeOK
  <2> SUFFICES ASSUME TypeInv, RoBInv, LSQInv, MulFUInv PROVE TypeOK
    OBVIOUS
  <2>1. /\ code_memory \in Seq(Insns) /\ stage \in Stages /\ clock \in Nat
        /\ pc \in Int /\ fetch \in BOOLEAN
        /\ decode_rename1 \in StallLatches /\ rename2_dispatch \in StallLatches
        /\ issue_queue \in Latches
        /\ execute_IntFU \in Latches /\ execute_MulFU \in Latches
        /\ execute_AFU \in Latches /\ execute_BFU \in Latches
    BY DEF TypeInv, ProgramTypes, FrontTypes, UnitTypes
  <2>2. /\ execute_MAU \in [has_insn : BOOLEAN, pc : Int]
        /\ commit_ARF \in Instrs
        /\ regs \in [Registers -> Int] /\ flags \in Flags
        /\ data_memory \in [Addresses -> Int]
        /\ physicalRegFile \in [PhysicalRegs -> [valid : BOOLEAN, data : Int]]
        /\ ccRegFile \in [CCRegs -> [valid : BOOLEAN, flag : Flags]]
        /\ CCHead \in Flags
    BY DEF TypeInv, MAUTypes, ArchTypes, FileTypes, RegsType, PRFType, CCFileType
  <2>3. /\ freePhysicalRegList \in Seq(PhysicalRegs)
        /\ freeCCFlagsRegList \in Seq(CCRegs)
        /\ renameTable \in [Registers -> Int]
    BY DEF TypeInv, RenameTypes, ListType, CCListType, TableType
  <2>4. /\ issueQueue \in [IQSlots -> IQEntries] /\ issue_counter \in Nat
        /\ branchQueue \in [BQSlots -> BQEntries]
        /\ BTBEntry \in [BTBSlots -> BTBEntries] /\ btb_counter \in BTBSlots
    BY DEF TypeInv, QueueTypes, BTBTypes, IQType, BQType, BTBType
  <2>5. /\ lsq \in [LSQSlots -> LSQEntries] /\ delete_LSQ_head \in BOOLEAN
        /\ LSQ_tail \in -1 .. LSQ_SIZE - 1 /\ LSQ_size \in 0 .. LSQ_SIZE
    BY LSQBounds DEF TypeInv, LSQTypes, LSQType, LSQInv
  <2>6. /\ RoB \in [RoBSlots -> RoBEntries] /\ delete_ROB_head \in BOOLEAN
        /\ ROB_size \in 0 .. ROB_SIZE
    BY DEF TypeInv, RoBTypes, RoBType, RoBInv, RoBContiguous
  <2>7. ROB_tail \in -1 .. ROB_SIZE - 1
    BY ROBNotEmpty DEF RoBInv, RoBContiguous
  <2>8. /\ bus \in [Buses -> [tag : Tags, value : Int]]
        /\ ccBus \in [CCBuses -> [tag : CCRegs \cup {-1}, flag : Flags]]
        /\ AFU_address \in Int /\ AFU_pc \in Int
        /\ BFU_pc \in Int /\ miss_branch_tag \in Int
    BY DEF TypeInv, ForwardingTypes, BusType, CCBusType
  <2>9. mulcycle_counter \in 0 .. 3
    BY DEF MulFUInv
  <2>10. mau_cycle_latency \in 0 .. 2 /\ stored_in_memory \in BOOLEAN /\ HALT \in BOOLEAN
    BY DEF TypeInv, MAUTypes, ArchTypes
  <2> QED
    BY <2>1, <2>2, <2>3, <2>4, <2>5, <2>6, <2>7, <2>8, <2>9, <2>10 DEF TypeOK
<1> QED
  BY <1>1, TypeInvAlways, RoBInvAlways, LSQInvAlways, MulFUInvAlways, PTL
=============================================================================
