--------------------------- MODULE ApexTypes_proof ---------------------------
(***************************************************************************)
(* The structure of the reorder buffer, the MulFU, and type correctness of *)
(* the pipeline, for every program and every size.                         *)
(***************************************************************************)
EXTENDS ApexPipeline, TLAPS, WellFoundedInduction

(***************************************************************************)
(* The reorder buffer.                                                     *)
(***************************************************************************)
LEMMA ROBNotEmpty == ROB_SIZE \in Nat \ {0}
BY SizesAssumption

LEMMA PairsFit == ROB_SIZE \in Nat \ {0, 1} /\ LSQ_SIZE \in Nat \ {0, 1}
BY SizesAssumption

\* C's % on the index before one of an array of two or more slots leaves it as it is, the -1
\* before the first slot included.
LEMMA Retreating ==
  ASSUME NEW size \in Nat \ {0, 1}, NEW tail \in 0 .. size - 1
  PROVE  Retreat(tail, size) = tail - 1
<1>1. CASE tail = 0
  <2>1. 1 % size = 1
    OBVIOUS
  <2> QED
    BY <1>1, <2>1 DEF Retreat
<1>2. CASE tail > 0
  <2>1. PICK n : n = tail - 1
    OBVIOUS
  <2>2. n \in Nat /\ n < size
    BY <1>2, <2>1
  <2>3. n % size = n
    BY <2>2
  <2> QED
    BY <1>2, <2>1, <2>3 DEF Retreat
<1> QED
  BY <1>1, <1>2

\* Whatever the index, it stays below the size.
LEMMA RetreatType ==
  ASSUME NEW size \in Nat \ {0}, NEW tail \in Int
  PROVE  Retreat(tail, size) \in Int /\ Retreat(tail, size) < size
<1>1. CASE tail > 0
  <2>1. (tail - 1) % size \in 0 .. size - 1
    BY <1>1
  <2> QED
    BY <1>1, <2>1 DEF Retreat
<1>2. CASE ~(tail > 0)
  <2>1. (1 - tail) % size \in 0 .. size - 1
    BY <1>2
  <2>2. PICK r : r = (1 - tail) % size
    OBVIOUS
  <2> QED
    BY <1>2, <2>1, <2>2 DEF Retreat
<1> QED
  BY <1>1, <1>2

\* C's % on an index one past the array wraps, and on any other is the identity.
LEMMA Wrapping ==
  ASSUME NEW size \in Nat \ {0}, NEW tail \in -1 .. size - 1
  PROVE  Advance(tail, size) = IF tail = size - 1 THEN 0 ELSE tail + 1
<1>1. CASE tail = size - 1
  BY <1>1 DEF Advance
<1>2. CASE tail # size - 1
  BY <1>2 DEF Advance
<1> QED
  BY <1>1, <1>2

\* Every slot is a record with an established_bit, and so is the latch before the queues.
RoBShape ==
  /\ DOMAIN RoB = RoBSlots
  /\ \A k \in RoBSlots : "established_bit" \in DOMAIN RoB[k]
  /\ \A k \in RoBSlots : RoB[k].established_bit \in BOOLEAN
  /\ "has_insn" \in DOMAIN issue_queue

\* An instruction waiting for the queues has been promised a slot, and the head is
\* deleted only when there is one, unless a squash has emptied the buffer.
RoBInv ==
  /\ RoBShape
  /\ RoBContiguous
  /\ issue_queue.has_insn => ROB_size < ROB_SIZE
  /\ delete_ROB_head => ROB_size > 0 \/ ROB_tail = -1

\* Deleting the head of a contiguous buffer.
LEMMA DeletedHead ==
  ASSUME RoBShape, RoBContiguous, ROB_size > 0, NEW q, q = DeleteRoBHead(RoB, ROB_tail)
  PROVE  /\ DOMAIN q = RoBSlots
         /\ \A k \in RoBSlots : "established_bit" \in DOMAIN q[k]
         /\ \A k \in RoBSlots : q[k].established_bit <=> k < ROB_size - 1
         /\ \A k \in RoBSlots : q[k].established_bit \in BOOLEAN
<1> DEFINE s == Shifted(RoB, ROB_tail)
<1>1. /\ ROB_size \in 1 .. ROB_SIZE /\ ROB_tail = ROB_size - 1
      /\ ROB_tail \in RoBSlots
  BY ROBNotEmpty DEF RoBContiguous, RoBSlots
<1>2. /\ DOMAIN s = RoBSlots
      /\ \A k \in RoBSlots : s[k] = IF k < ROB_tail THEN RoB[k + 1] ELSE RoB[k]
  BY DEF Shifted, RoBShape
<1>3. \A k \in RoBSlots : /\ "established_bit" \in DOMAIN s[k]
                          /\ s[k].established_bit \in BOOLEAN
  BY <1>1, <1>2, ROBNotEmpty DEF RoBShape, RoBSlots
<1>4. \A k \in RoBSlots : k # ROB_tail => (s[k].established_bit <=> k < ROB_size - 1)
  BY <1>1, <1>2, ROBNotEmpty DEF RoBContiguous, RoBSlots
<1>5. /\ DOMAIN q = RoBSlots
      /\ \A k \in RoBSlots : k # ROB_tail => q[k] = s[k]
      /\ "established_bit" \in DOMAIN q[ROB_tail]
      /\ q[ROB_tail].established_bit = FALSE
  BY <1>1, <1>2, <1>3 DEF DeleteRoBHead
<1>6. ASSUME NEW k \in RoBSlots
      PROVE  /\ "established_bit" \in DOMAIN q[k]
             /\ q[k].established_bit <=> k < ROB_size - 1
             /\ q[k].established_bit \in BOOLEAN
  <2>1. CASE k = ROB_tail
    <3>1. ~(k < ROB_size - 1)
      BY <1>1, <2>1
    <3> QED
      BY <1>5, <2>1, <3>1
  <2>2. CASE k # ROB_tail
    BY <1>3, <1>4, <1>5, <2>2
  <2> QED
    BY <2>1, <2>2
<1> QED
  BY <1>5, <1>6

\* Establishing an entry behind the tail of a contiguous buffer.
LEMMA EstablishedTail ==
  ASSUME RoBShape, RoBContiguous, ROB_size < ROB_SIZE,
         NEW i, NEW l, NEW q, q = EstablishRoB(RoB, ROB_size, i, l)
  PROVE  /\ DOMAIN q = RoBSlots
         /\ \A k \in RoBSlots : "established_bit" \in DOMAIN q[k]
         /\ \A k \in RoBSlots : q[k].established_bit <=> k < ROB_size + 1
         /\ \A k \in RoBSlots : q[k].established_bit \in BOOLEAN
<1>1. ROB_size \in RoBSlots
  BY ROBNotEmpty DEF RoBContiguous, RoBSlots
<1>2. /\ DOMAIN q = RoBSlots
      /\ \A k \in RoBSlots : k # ROB_size => q[k] = RoB[k]
      /\ "established_bit" \in DOMAIN q[ROB_size]
      /\ q[ROB_size].established_bit = TRUE
  BY <1>1 DEF EstablishRoB, RoBShape
<1>3. ASSUME NEW k \in RoBSlots
      PROVE  /\ "established_bit" \in DOMAIN q[k]
             /\ q[k].established_bit <=> k < ROB_size + 1
             /\ q[k].established_bit \in BOOLEAN
  <2>1. CASE k = ROB_size
    <3>1. k < ROB_size + 1
      BY <1>1, <2>1 DEF RoBSlots
    <3> QED
      BY <1>2, <2>1, <3>1
  <2>2. CASE k # ROB_size
    <3>1. k < ROB_size <=> k < ROB_size + 1
      BY <1>1, <2>2 DEF RoBSlots
    <3> QED
      BY <1>2, <2>2, <3>1 DEF RoBShape, RoBContiguous
  <2> QED
    BY <2>1, <2>2
<1> QED
  BY <1>2, <1>3

\* The reorder buffer starts empty and contiguous.
LEMMA RoBInvInit == Init => RoBInv
<1> SUFFICES ASSUME Init PROVE RoBInv
  OBVIOUS
<1>1. RoBShape
  BY DEF Init, APEX_cpu_init, RoBShape, EmptyRoBEntry, EmptyLatch
<1>2. RoBContiguous
  BY ROBNotEmpty DEF Init, APEX_cpu_init, RoBContiguous, RoBSlots, EmptyRoBEntry
<1> QED
  BY <1>1, <1>2 DEF Init, APEX_cpu_init, RoBInv, EmptyLatch

\* The end of a squash or of the head keeps the buffer contiguous; so does every step.
LEMMA RoBInvUnchanged ==
  ASSUME RoBInv, UNCHANGED <<robVars, issue_queue>> PROVE RoBInv'
BY DEF RoBInv, RoBShape, RoBContiguous, robVars

\* Commit deletes the head it announced and may announce the next: the buffer stays contiguous.
LEMMA RoBInvCommit == ASSUME RoBInv, CommitStage PROVE RoBInv'
<1>0. delete_ROB_head => ROB_size > 0 /\ Retreat(ROB_tail, ROB_SIZE) = ROB_tail - 1
  <2> SUFFICES ASSUME delete_ROB_head
               PROVE  ROB_size > 0 /\ Retreat(ROB_tail, ROB_SIZE) = ROB_tail - 1
    OBVIOUS
  <2>1. ROB_size > 0
    BY DEF CommitStage, DeletesBelowZero, RoBInv
  <2>2. ROB_tail \in 0 .. ROB_SIZE - 1
    BY <2>1, PairsFit DEF RoBInv, RoBContiguous
  <2> QED
    BY <2>1, <2>2, PairsFit, Retreating
<1>1. /\ delete_ROB_head => ROB_size > 0
      /\ RoB' = RoBAtCommit
      /\ ROB_tail' = IF delete_ROB_head THEN ROB_tail - 1 ELSE ROB_tail
      /\ ROB_size' = IF delete_ROB_head THEN ROB_size - 1 ELSE ROB_size
      /\ issue_queue' = issue_queue
  BY <1>0 DEF CommitStage, frontVars
<1>2. /\ DOMAIN RoB' = RoBSlots
      /\ \A k \in RoBSlots : "established_bit" \in DOMAIN RoB'[k]
      /\ \A k \in RoBSlots : RoB'[k].established_bit <=> k < ROB_size'
      /\ \A k \in RoBSlots : RoB'[k].established_bit \in BOOLEAN
  <2>1. CASE delete_ROB_head
    BY <1>1, <2>1, DeletedHead DEF RoBInv, RoBAtCommit
  <2>2. CASE ~delete_ROB_head
    BY <1>1, <2>2 DEF RoBInv, RoBShape, RoBContiguous, RoBAtCommit
  <2> QED
    BY <2>1, <2>2
<1>3. RoBContiguous'
  <2>1. /\ ROB_size' \in 0 .. ROB_SIZE
        /\ ROB_size' > 0 => ROB_tail' = ROB_size' - 1
        /\ ROB_size' = 0 => ROB_tail' \in {-1, ROB_SIZE - 1}
    BY <1>1, ROBNotEmpty DEF RoBInv, RoBContiguous
  <2> QED
    BY <1>2, <2>1 DEF RoBContiguous
<1>4. issue_queue'.has_insn => ROB_size' < ROB_SIZE
  BY <1>1, ROBNotEmpty DEF RoBInv, RoBContiguous
<1>5. delete_ROB_head' => ROB_size' > 0
  <2> SUFFICES ASSUME delete_ROB_head' PROVE ROB_size' > 0
    OBVIOUS
  <2>1. RoB'[0].established_bit
    BY <1>1 DEF CommitStage
  <2> QED
    BY <1>2, <2>1, ROBNotEmpty DEF RoBSlots
<1> QED
  BY <1>1, <1>2, <1>3, <1>4, <1>5 DEF RoBInv, RoBShape

\* The entry the issue queue stage establishes is the one after the last.
LEMMA RoBInvIssue == ASSUME RoBInv, IssueStage PROVE RoBInv'
<1> DEFINE i == issue_queue.instr
           t == Advance(ROB_tail, ROB_SIZE)
<1>1. /\ delete_ROB_head' = delete_ROB_head
      /\ "has_insn" \in DOMAIN issue_queue'
      /\ issue_queue'.has_insn = FALSE
  BY DEF IssueStage, RoBInv, RoBShape
<1>2. CASE ~issue_queue.has_insn
  <2>1. UNCHANGED <<RoB, ROB_tail, ROB_size>>
    BY <1>2 DEF IssueStage
  <2> QED
    BY <1>1, <2>1 DEF RoBInv, RoBShape, RoBContiguous
<1>3. CASE issue_queue.has_insn
  <2>1. /\ ROB_size' = ROB_size + 1
        /\ ROB_tail' = t
        /\ \E l : RoB' = EstablishRoB(RoB, t, i, l)
    BY <1>3 DEF IssueStage
  <2>2. t = ROB_size /\ ROB_size \in 0 .. ROB_SIZE - 1
    <3>1. ROB_size \in 0 .. ROB_SIZE - 1 /\ ROB_tail \in -1 .. ROB_SIZE - 1
      BY <1>3, ROBNotEmpty DEF RoBInv, RoBContiguous
    <3>2. t = IF ROB_tail = ROB_SIZE - 1 THEN 0 ELSE ROB_tail + 1
      BY <3>1, Wrapping, ROBNotEmpty
    <3> QED
      BY <3>1, <3>2, ROBNotEmpty DEF RoBInv, RoBContiguous
  <2>3. PICK l : RoB' = EstablishRoB(RoB, ROB_size, i, l)
    BY <2>1, <2>2
  <2>4. /\ DOMAIN RoB' = RoBSlots
        /\ \A k \in RoBSlots : "established_bit" \in DOMAIN RoB'[k]
        /\ \A k \in RoBSlots : RoB'[k].established_bit <=> k < ROB_size'
        /\ \A k \in RoBSlots : RoB'[k].established_bit \in BOOLEAN
    BY <1>3, <2>1, <2>3, EstablishedTail DEF RoBInv
  <2> HIDE DEF t
  <2>5. /\ ROB_size' \in 1 .. ROB_SIZE
        /\ ROB_tail' = ROB_size' - 1
    BY <2>1, <2>2, ROBNotEmpty
  <2>6. RoBContiguous'
    <3>1. ROB_size' \in 0 .. ROB_SIZE /\ ROB_size' # 0
      BY <2>5, ROBNotEmpty
    <3> QED
      BY <2>4, <2>5, <3>1 DEF RoBContiguous
  <2> QED
    BY <1>1, <2>4, <2>5, <2>6 DEF RoBInv, RoBShape
<1> QED
  BY <1>2, <1>3

\* Dispatch lets an instruction through only when the reorder buffer has a slot for it.
LEMMA RoBInvDispatch == ASSUME RoBInv, DispatchStage PROVE RoBInv'
<1>1. UNCHANGED robVars
  BY DEF DispatchStage
<1>2. \/ issue_queue' = issue_queue
      \/ /\ \E i : issue_queue' = [has_insn |-> TRUE, instr |-> i]
         /\ ROB_size # ROB_SIZE
  BY DEF DispatchStage, RoomFor, IsROBFull
<1>3. ROB_size < ROB_SIZE <=> ROB_size # ROB_SIZE
  BY ROBNotEmpty DEF RoBInv, RoBContiguous
<1> QED
  BY <1>1, <1>2, <1>3 DEF RoBInv, RoBShape, RoBContiguous, robVars

\* A redirect drops what is before the queues and starts the squash; the buffer itself stays.
LEMMA RoBInvFetch == ASSUME RoBInv, FetchStage PROVE RoBInv'
<1>1. UNCHANGED robVars
  BY DEF FetchStage
<1>2. \/ issue_queue' = issue_queue
      \/ issue_queue' = [issue_queue EXCEPT !.has_insn = FALSE]
  BY DEF FetchStage, frontVars, EmptyLatches
<1> QED
  BY <1>1, <1>2 DEF RoBInv, RoBShape, RoBContiguous, robVars

\* The squash takes one entry off the tail, or finds the branch there.
LEMMA RoBInvSquash == ASSUME RoBInv, SquashTail PROVE RoBInv'
<1>0. Retreat(ROB_tail, ROB_SIZE) = ROB_tail - 1
  <2>1. ROB_tail \in 0 .. ROB_SIZE - 1
    BY PairsFit DEF SquashTail, SquashContinues, RoBInv, RoBContiguous
  <2> QED
    BY <2>1, PairsFit, Retreating
<1>1. /\ RoB' = [RoB EXCEPT ![ROB_tail].established_bit = FALSE]
      /\ ROB_size' = ROB_size - 1
      /\ ROB_tail' = ROB_tail - 1
      /\ UNCHANGED <<delete_ROB_head, issue_queue>>
  BY <1>0 DEF SquashTail, frontVars
<1>2. /\ ROB_size \in 1 .. ROB_SIZE
      /\ ROB_tail = ROB_size - 1
      /\ ROB_tail \in RoBSlots
  BY ROBNotEmpty DEF SquashTail, SquashContinues, RoBInv, RoBContiguous, RoBSlots
<1>3. /\ DOMAIN RoB' = RoBSlots
      /\ \A k \in RoBSlots : k # ROB_tail => RoB'[k] = RoB[k]
      /\ "established_bit" \in DOMAIN RoB'[ROB_tail]
      /\ RoB'[ROB_tail].established_bit = FALSE
  BY <1>1, <1>2 DEF RoBInv, RoBShape
<1>4. ASSUME NEW k \in RoBSlots
      PROVE  /\ "established_bit" \in DOMAIN RoB'[k]
             /\ RoB'[k].established_bit <=> k < ROB_size'
             /\ RoB'[k].established_bit \in BOOLEAN
  <2>1. CASE k = ROB_tail
    <3>1. ~(k < ROB_size')
      BY <1>1, <1>2, <2>1
    <3> QED
      BY <1>3, <2>1, <3>1
  <2>2. CASE k # ROB_tail
    <3>1. k < ROB_size <=> k < ROB_size'
      BY <1>1, <1>2, <2>2, ROBNotEmpty DEF RoBSlots
    <3> QED
      BY <1>3, <2>2, <3>1 DEF RoBInv, RoBShape, RoBContiguous
  <2> QED
    BY <2>1, <2>2
<1>5. RoBContiguous'
  <2>1. /\ ROB_size' \in 0 .. ROB_SIZE
        /\ ROB_tail' = ROB_size' - 1
    BY <1>1, <1>2, ROBNotEmpty
  <2>2. ROB_size' = 0 => ROB_tail' = -1
    BY <2>1
  <2> QED
    BY <1>4, <2>1, <2>2 DEF RoBContiguous
<1>6. /\ issue_queue'.has_insn => ROB_size' < ROB_SIZE
      /\ delete_ROB_head' => ROB_size' > 0 \/ ROB_tail' = -1
  BY <1>1, <1>2, ROBNotEmpty DEF RoBInv
<1> QED
  BY <1>1, <1>3, <1>4, <1>5, <1>6 DEF RoBInv, RoBShape

\* The invariant is inductive.
LEMMA RoBInvStep == ASSUME RoBInv, [Next]_vars PROVE RoBInv'
<1>1. CASE CommitStage
  BY <1>1, RoBInvCommit
<1>2. CASE IssueStage
  BY <1>2, RoBInvIssue
<1>3. CASE DispatchStage
  BY <1>3, RoBInvDispatch
<1>4. CASE FetchStage
  BY <1>4, RoBInvFetch
<1>5. CASE SquashTail
  BY <1>5, RoBInvSquash
<1>6. CASE CommitBelowZero \/ MAUOutOfBounds \/ DecodeOutOfBounds \/ FetchOutOfBounds
  BY <1>6, RoBInvUnchanged
     DEF CommitBelowZero, MAUOutOfBounds, DecodeOutOfBounds, FetchOutOfBounds,
         BecomesUndefined, frontVars
<1>7. CASE MAUStage
  BY <1>7, RoBInvUnchanged DEF MAUStage, frontVars
<1>8. CASE MulFUStage
  BY <1>8, RoBInvUnchanged DEF MulFUStage, frontVars
<1>9. CASE BFUStage
  BY <1>9, RoBInvUnchanged DEF BFUStage
<1>10. CASE AFUStage
  BY <1>10, RoBInvUnchanged DEF AFUStage, frontVars
<1>11. CASE IntFUStage
  BY <1>11, RoBInvUnchanged DEF IntFUStage, frontVars
<1>12. CASE DecodeStage
  BY <1>12, RoBInvUnchanged DEF DecodeStage
<1>13. CASE SquashEnds
  BY <1>13, RoBInvUnchanged DEF SquashEnds, frontVars
<1>14. CASE UNCHANGED vars
  BY <1>14, RoBInvUnchanged DEF vars, frontVars
<1> QED
  BY <1>1, <1>2, <1>3, <1>4, <1>5, <1>6, <1>7, <1>8, <1>9, <1>10, <1>11, <1>12, <1>13,
     <1>14 DEF Next

\* The invariant holds in every state of every run.
LEMMA RoBInvAlways == Spec => []RoBInv
BY RoBInvInit, RoBInvStep, PTL DEF Spec

\* Dispatch, commit and squash keep the reorder buffer one contiguous run that starts at
\* its head and ends at its tail pointer.
THEOREM RoBIsContiguous == Spec => []RoBContiguous
<1>1. RoBInv => RoBContiguous
  BY DEF RoBInv
<1> QED
  BY <1>1, RoBInvAlways, PTL

(***************************************************************************)
(* The multiplier.                                                         *)
(***************************************************************************)
\* While a multiplication is in the MulFU its cycles are being counted.
MulFUInv ==
  /\ mulcycle_counter \in 0 .. 3
  /\ "has_insn" \in DOMAIN execute_MulFU
  /\ execute_MulFU.has_insn \in BOOLEAN
  /\ execute_MulFU.has_insn => mulcycle_counter > 0

\* One step of the MulFU, by the stages that touch its latch or its counter.
MulFUStep ==
  execute_MulFU.has_insn =>
    \/ execute_MulFU' = execute_MulFU /\ mulcycle_counter' \in 1 .. mulcycle_counter
    \/ ~execute_MulFU'.has_insn /\ (mulcycle_counter = 1 \/ BFU_pc # -1)

\* The MulFU starts empty.
LEMMA MulFUInvInit == Init => MulFUInv
BY DEF Init, APEX_cpu_init, MulFUInv, EmptyLatch

\* A stage that leaves the MulFU alone keeps its invariant and takes no multiplication from it.
LEMMA MulFUUntouched ==
  ASSUME MulFUInv, UNCHANGED <<execute_MulFU, mulcycle_counter>>
  PROVE  MulFUInv' /\ MulFUStep
BY DEF MulFUInv, MulFUStep

\* The MulFU stage counts one cycle down and lets its instruction go after the third.
LEMMA MulFUCounts == ASSUME MulFUInv, MulFUStage PROVE MulFUInv' /\ MulFUStep
<1>1. CASE ~execute_MulFU.has_insn
  BY <1>1, MulFUUntouched DEF MulFUStage
<1>2. CASE execute_MulFU.has_insn /\ mulcycle_counter' = 0
  <2>1. /\ mulcycle_counter' = mulcycle_counter - 1
        /\ execute_MulFU' = [execute_MulFU EXCEPT !.has_insn = FALSE]
    BY <1>2 DEF MulFUStage
  <2>2. mulcycle_counter = 1
    BY <1>2, <2>1 DEF MulFUInv
  <2> QED
    BY <1>2, <2>1, <2>2 DEF MulFUInv, MulFUStep
<1>3. CASE execute_MulFU.has_insn /\ mulcycle_counter' # 0
  <2>1. mulcycle_counter' = mulcycle_counter - 1 /\ execute_MulFU' = execute_MulFU
    BY <1>3 DEF MulFUStage
  <2>2. mulcycle_counter' \in 1 .. mulcycle_counter /\ mulcycle_counter \in 0 .. 3
    BY <1>3, <2>1 DEF MulFUInv
  <2>3. mulcycle_counter' \in 0 .. 3 /\ mulcycle_counter' > 0
    BY <2>2
  <2> QED
    BY <2>1, <2>2, <2>3 DEF MulFUInv, MulFUStep
<1> QED
  BY <1>1, <1>2, <1>3

\* Issue puts a multiplication only into an empty MulFU.
LEMMA MulFUReceives == ASSUME MulFUInv, IssueStage PROVE MulFUInv' /\ MulFUStep
<1>1. \/ UNCHANGED <<execute_MulFU, mulcycle_counter>>
      \/ /\ mulcycle_counter = 0 /\ mulcycle_counter' = 3
         /\ \E i : execute_MulFU' = [has_insn |-> TRUE, instr |-> i]
  <2>1. PICK established : WakeUp(established)
    BY DEF IssueStage
  <2>2. PICK queue, mulSlot :
          /\ mulcycle_counter # 0 => mulSlot = -1
          /\ execute_MulFU' = Received(execute_MulFU, queue, mulSlot)
          /\ mulcycle_counter' = IF mulSlot = -1 THEN mulcycle_counter ELSE 3
    BY <2>1 DEF WakeUp, MulFUFree
  <2>3. CASE mulSlot = -1
    BY <2>2, <2>3 DEF Received
  <2>4. CASE mulSlot # -1
    BY <2>2, <2>4 DEF Received
  <2> QED
    BY <2>3, <2>4
<1>2. CASE UNCHANGED <<execute_MulFU, mulcycle_counter>>
  BY <1>2, MulFUUntouched
<1>3. CASE ~UNCHANGED <<execute_MulFU, mulcycle_counter>>
  <2>1. /\ mulcycle_counter = 0
        /\ mulcycle_counter' \in 0 .. 3 /\ mulcycle_counter' > 0
    BY <1>1, <1>3
  <2>2. ~execute_MulFU.has_insn
    BY <2>1 DEF MulFUInv
  <2>3. \E i : execute_MulFU' = [has_insn |-> TRUE, instr |-> i]
    BY <1>1, <1>3
  <2> QED
    BY <2>1, <2>2, <2>3 DEF MulFUInv, MulFUStep
<1> QED
  BY <1>2, <1>3

\* A redirect empties the MulFU and resets its counter.
LEMMA MulFUFlushed == ASSUME MulFUInv, FetchStage PROVE MulFUInv' /\ MulFUStep
<1>1. /\ mulcycle_counter' = mulcycle_counter
      /\ \/ execute_MulFU' = execute_MulFU
         \/ /\ execute_MulFU' = [execute_MulFU EXCEPT !.has_insn = FALSE]
            /\ BFU_pc # -1
  BY DEF FetchStage, EmptyLatches
<1> QED
  BY <1>1, MulFUUntouched DEF MulFUInv, MulFUStep

\* Every step keeps the invariant of the MulFU and is one of the allowed ones.
LEMMA MulFUSteps == ASSUME MulFUInv, [Next]_vars PROVE MulFUInv' /\ MulFUStep
<1>1. CASE MulFUStage
  BY <1>1, MulFUCounts
<1>2. CASE IssueStage
  BY <1>2, MulFUReceives
<1>3. CASE FetchStage
  BY <1>3, MulFUFlushed
<1>4. CASE CommitBelowZero \/ MAUOutOfBounds \/ DecodeOutOfBounds \/ FetchOutOfBounds
  BY <1>4, MulFUUntouched
     DEF CommitBelowZero, MAUOutOfBounds, DecodeOutOfBounds, FetchOutOfBounds,
         BecomesUndefined, exVars
<1>5. CASE CommitStage
  BY <1>5, MulFUUntouched DEF CommitStage, exVars
<1>6. CASE MAUStage
  BY <1>6, MulFUUntouched DEF MAUStage, exVars
<1>7. CASE BFUStage
  BY <1>7, MulFUUntouched DEF BFUStage
<1>8. CASE AFUStage
  BY <1>8, MulFUUntouched DEF AFUStage
<1>9. CASE IntFUStage
  BY <1>9, MulFUUntouched DEF IntFUStage
<1>10. CASE DispatchStage \/ DecodeStage
  BY <1>10, MulFUUntouched DEF DispatchStage, DecodeStage, exVars
<1>11. CASE SquashTail \/ SquashEnds
  BY <1>11, MulFUUntouched DEF SquashTail, SquashEnds, exVars
<1>12. CASE UNCHANGED vars
  BY <1>12, MulFUUntouched DEF vars, exVars
<1> QED
  BY <1>1, <1>2, <1>3, <1>4, <1>5, <1>6, <1>7, <1>8, <1>9, <1>10, <1>11, <1>12 DEF Next

\* The MulFU's counter fits its latch in every state of every run.
LEMMA MulFUInvAlways == Spec => []MulFUInv
BY MulFUInvInit, MulFUSteps, PTL DEF Spec

\* "It is not pipelined and has 3 cycle latency": no step replaces a multiplication in
\* progress, and only its third cycle or a flush ends it.
THEOREM MulFUIsNotPipelined == Spec => MulFUNotPipelined
<1>1. MulFUInv /\ [Next]_vars => MulFUInv' /\ MulFUStep
  BY MulFUSteps
<1>2. MulFUNotPipelined <=> [][MulFUStep]_vars
  BY DEF MulFUNotPipelined, MulFUStep
<1> QED
  BY <1>1, <1>2, MulFUInvInit, PTL DEF Spec

(***************************************************************************)
(* What the operators of the model return.                                 *)
(***************************************************************************)
\* A non-empty set of naturals has a least element: the index a search loop stops at.
LEMMA LeastElement ==
  ASSUME NEW S \in SUBSET Nat, S # {} PROVE \E k \in S : \A j \in S : k <= j
<1>1. PICK k \in S : \A j \in S : ~(<<j, k>> \in OpToRel(<, Nat))
  BY NatLessThanWellFounded, WFMin
<1>2. \A j \in S : ~(j < k)
  BY <1>1 DEF OpToRel
<1>3. k \in Nat /\ \A j \in S : j \in Nat
  OBVIOUS
<1>4. \A j \in S : k <= j
  BY <1>2, <1>3
<1> QED
  BY <1>4

\* A search loop stops at an index that satisfies its condition, or fails.
LEMMA Found == ASSUME NEW S \in SUBSET Nat PROVE FirstIndex(S) \in S \cup {-1}
BY LeastElement DEF FirstIndex

BusType == [Buses -> [tag : Tags, value : Int]]
CCBusType == [CCBuses -> [tag : CCRegs \cup {-1}, flag : Flags]]
PRFType == [PhysicalRegs -> [valid : BOOLEAN, data : Int]]
CCFileType == [CCRegs -> [valid : BOOLEAN, flag : Flags]]

\* Filling in the first operand leaves an instruction record.
LEMMA Source1Type ==
  ASSUME NEW i \in Instrs, NEW v \in Int
  PROVE  [i EXCEPT !.phyrs1_valid = TRUE, !.phyrs1_value = v] \in Instrs
BY DEF Instrs

\* Filling in the second operand leaves an instruction record.
LEMMA Source2Type ==
  ASSUME NEW i \in Instrs, NEW v \in Int
  PROVE  [i EXCEPT !.phyrs2_valid = TRUE, !.phyrs2_value = v] \in Instrs
BY DEF Instrs

\* A tag comparison that succeeds names a bus, whose value is an integer.
LEMMA MatchingBusType ==
  ASSUME NEW lines \in BusType, NEW tag, NEW b, b = MatchingBus(lines, tag), b # -1
  PROVE  b \in Buses /\ lines[b].value \in Int
<1>1. {c \in Buses : lines[c].tag = tag} \in SUBSET Nat
  BY DEF Buses
<1>2. b \in Buses
  BY <1>1, Found DEF MatchingBus
<1> QED
  BY <1>2 DEF BusType

\* Picking operands up from the buses leaves an instruction record.
LEMMA PickUpType ==
  ASSUME NEW i \in Instrs, NEW lines \in BusType PROVE PickUp(i, lines) \in Instrs
<1>1. ASSUME NEW j \in Instrs PROVE PickUp1(j, lines) \in Instrs
  BY MatchingBusType, Source1Type DEF PickUp1
<1>2. ASSUME NEW j \in Instrs PROVE PickUp2(j, lines) \in Instrs
  BY MatchingBusType, Source2Type DEF PickUp2
<1> QED
  BY <1>1, <1>2 DEF PickUp

\* So does reading them from the physical register file.
LEMMA ReadPRFType ==
  ASSUME NEW i \in Instrs, NEW prf \in PRFType PROVE ReadPRF(i, prf) \in Instrs
<1>1. ASSUME NEW tag \in Tags, PRFValid(prf, tag) PROVE prf[tag].data \in Int
  BY <1>1 DEF PRFType, PRFValid, Tags
<1>2. \A j \in Instrs : j.phyrs1 \in Tags /\ j.phyrs2 \in Tags
  BY DEF Instrs, Tags
<1>3. ASSUME NEW j \in Instrs PROVE ReadPRF1(j, prf) \in Instrs
  BY <1>1, <1>2, Source1Type DEF ReadPRF1
<1>4. ASSUME NEW j \in Instrs PROVE ReadPRF2(j, prf) \in Instrs
  BY <1>1, <1>2, Source2Type DEF ReadPRF2
<1> QED
  BY <1>3, <1>4 DEF ReadPRF

\* Writing the buses to the physical registers stays inside the file.
LEMMA WrittenPRFType ==
  ASSUME NEW prf \in PRFType, NEW lines \in BusType PROVE WrittenPRF(prf, lines) \in PRFType
<1>1. ASSUME NEW p \in PhysicalRegs, \E b \in Buses : lines[b].tag = p
      PROVE  \E b \in Buses : lines[b].tag = p /\ \A c \in Buses : lines[c].tag = p => c <= b
  BY <1>1 DEF Buses
<1>2. ASSUME NEW p \in PhysicalRegs
      PROVE  WrittenPRF(prf, lines)[p] \in [valid : BOOLEAN, data : Int]
  <2>1. CASE \E b \in Buses : lines[b].tag = p
    <3> DEFINE last == CHOOSE b \in Buses : /\ lines[b].tag = p
                                            /\ \A c \in Buses : lines[c].tag = p => c <= b
    <3>1. last \in Buses
      BY <1>1, <2>1
    <3>2. lines[last].value \in Int
      BY <3>1 DEF BusType
    <3>3. WrittenPRF(prf, lines)[p] = [valid |-> TRUE, data |-> lines[last].value]
      BY <2>1 DEF WrittenPRF
    <3> QED
      BY <3>2, <3>3
  <2>2. CASE ~\E b \in Buses : lines[b].tag = p
    BY <2>2 DEF WrittenPRF, PRFType
  <2> QED
    BY <2>1, <2>2
<1> QED
  BY <1>2 DEF WrittenPRF, PRFType

\* An emptied bus is a bus.
LEMMA DrainedType ==
  /\ \A lines \in BusType : Drained(lines) \in BusType
  /\ \A lines \in CCBusType : Drained(lines) \in CCBusType
BY DEF Drained, BusType, CCBusType, Tags

\* Writing the flag buses stays inside the CC file and keeps the head's flag.
LEMMA WrittenCCType ==
  ASSUME NEW cc \in CCFileType, NEW lines \in CCBusType, NEW head \in Flags
  PROVE  WrittenCC(cc, lines) \in CCFileType /\ WrittenCCHead(head, lines) \in Flags
<1>1. lines[MulBus].flag \in Flags /\ lines[IntBus].flag \in Flags
  BY DEF CCBusType, CCBuses
<1> QED
  BY <1>1 DEF WrittenCC, WrittenCCHead, CCFileType

\* Requests and returns keep a free list a sequence of registers.
LEMMA FreeListType ==
  ASSUME NEW S, -1 \notin S, NEW list \in Seq(S), NEW size
  PROVE  /\ HeadOfFree(list) \in S \cup {-1}
         /\ list # << >> => HeadOfFree(list) \in S
         /\ WithoutHead(list) \in Seq(S)
         /\ \A r \in S \cup {-1} : AddBack(list, r, size) \in Seq(S)
BY DEF HeadOfFree, WithoutHead, AddBack

\* What fetch puts into the decode latch is an instruction record.
LEMMA FetchedType ==
  ASSUME NEW at \in Int, NEW insn \in Insns, NEW hit \in BOOLEAN, NEW taken \in BOOLEAN
  PROVE  Fetched(at, insn, hit, taken) \in Instrs
<1>1. 0 \in PhysicalRegs /\ 0 \in CCRegs
  BY SizesAssumption DEF PhysicalRegs, CCRegs
<1> QED
  BY <1>1 DEF Fetched, Insns, Instrs

\* The record a latch holds after memset is an instruction record.
LEMMA NoInstrType == NoInstr \in Instrs
<1>1. [opcode |-> "ADD", rd |-> 0, rs1 |-> 0, rs2 |-> 0, imm |-> 0] \in Insns
  <2>1. 0 \in ProgramRegisters
    BY SizesAssumption DEF ProgramRegisters
  <2> QED
    BY <2>1 DEF Insns, Opcodes, Alu2Ops
<1>2. 0 \in Int /\ FALSE \in BOOLEAN
  OBVIOUS
<1> QED
  BY <1>1, <1>2, FetchedType, Zenon DEF NoInstr

(***************************************************************************)
(* Renaming.                                                               *)
(***************************************************************************)
\* The rename table maps program registers to physical ones and CC to a flags register.
TableType ==
  {t \in [Registers -> Int] : /\ \A r \in ProgramRegisters : t[r] \in Tags
                              /\ t[CC] \in CCRegs \cup {-1}}

RenamingType ==
  [instr : Instrs, table : TableType, list : Seq(PhysicalRegs), prf : PRFType, stall : BOOLEAN]

\* The flags' index of the rename table is no program register's.
LEMMA RegisterIndices ==
  /\ ProgramRegisters \subseteq Registers /\ CC \in Registers /\ CC \notin ProgramRegisters
  /\ LAST_PC \in Registers
  /\ -1 \notin PhysicalRegs /\ -1 \notin CCRegs
  /\ PhysicalRegs \subseteq Int /\ CCRegs \subseteq Int
BY SizesAssumption DEF ProgramRegisters, Registers, CC, LAST_PC, PhysicalRegs, CCRegs

\* The types of an instruction record's fields.
LEMMA InstrFields ==
  ASSUME NEW i \in Instrs
  PROVE  /\ i.pc \in Int /\ i.imm \in Int /\ i.target_address \in Int
         /\ i.rd \in ProgramRegisters /\ i.rs1 \in ProgramRegisters
         /\ i.rs2 \in ProgramRegisters
         /\ i.phyrd \in PhysicalRegs /\ i.phyrs3 \in Tags
         /\ i.phyrs1 \in Tags /\ i.phyrs2 \in Tags
         /\ i.phyrs1_value \in Int /\ i.phyrs2_value \in Int
         /\ i.prev_pd \in Tags /\ i.prev_prs \in Tags
         /\ i.prev_cc \in CCRegs \cup {-1} /\ i.flag \in CCRegs
         /\ i.taken \in BOOLEAN /\ i.btb_hit \in BOOLEAN
         /\ i.phyrs1_valid \in BOOLEAN /\ i.phyrs2_valid \in BOOLEAN
         /\ i.target_address_valid \in BOOLEAN
         /\ i.opcode \in Opcodes
BY DEF Instrs, Tags

\* A rename table stays one when a register is renamed or the flags are.
LEMMA TableUpdates ==
  ASSUME NEW t \in TableType
  PROVE  /\ \A r \in ProgramRegisters, p \in Tags : [t EXCEPT ![r] = p] \in TableType
         /\ \A c \in CCRegs \cup {-1} : [t EXCEPT ![CC] = c] \in TableType
BY RegisterIndices DEF TableType, Tags

\* An instruction record stays one under each assignment decode makes.
LEMMA InstrUpdates ==
  ASSUME NEW i \in Instrs
  PROVE  /\ \A p \in Tags : [i EXCEPT !.prev_pd = p] \in Instrs
         /\ \A p \in Tags : [i EXCEPT !.prev_prs = p] \in Instrs
         /\ \A p \in PhysicalRegs : [i EXCEPT !.phyrd = p] \in Instrs
         /\ \A p \in Tags : [i EXCEPT !.phyrs3 = p] \in Instrs
         /\ \A p \in Tags : [i EXCEPT !.phyrs1 = p] \in Instrs
         /\ \A p \in Tags : [i EXCEPT !.phyrs2 = p] \in Instrs
         /\ \A c \in CCRegs \cup {-1} : [i EXCEPT !.prev_cc = c] \in Instrs
         /\ \A c \in CCRegs : [i EXCEPT !.flag = c] \in Instrs
         /\ \A v \in BOOLEAN : [i EXCEPT !.phyrs1_valid = v] \in Instrs
         /\ \A v \in BOOLEAN : [i EXCEPT !.phyrs2_valid = v] \in Instrs
         /\ \A a \in Int : [i EXCEPT !.target_address = a] \in Instrs
         /\ \A v \in BOOLEAN : [i EXCEPT !.target_address_valid = v] \in Instrs
         /\ \A a \in Int : [i EXCEPT !.pc = a] \in Instrs
<1>1. \A p \in Tags : [i EXCEPT !.prev_pd = p] \in Instrs
  BY DEF Instrs, Tags
<1>2. \A p \in Tags : [i EXCEPT !.prev_prs = p] \in Instrs
  BY DEF Instrs, Tags
<1>3. \A p \in PhysicalRegs : [i EXCEPT !.phyrd = p] \in Instrs
  BY DEF Instrs
<1>4. \A p \in Tags : [i EXCEPT !.phyrs3 = p] \in Instrs
  BY DEF Instrs, Tags
<1>5. \A p \in Tags : [i EXCEPT !.phyrs1 = p] \in Instrs
  BY DEF Instrs, Tags
<1>6. \A p \in Tags : [i EXCEPT !.phyrs2 = p] \in Instrs
  BY DEF Instrs, Tags
<1>7. \A c \in CCRegs \cup {-1} : [i EXCEPT !.prev_cc = c] \in Instrs
  BY DEF Instrs
<1>8. \A c \in CCRegs : [i EXCEPT !.flag = c] \in Instrs
  BY DEF Instrs
<1>9. \A v \in BOOLEAN : [i EXCEPT !.phyrs1_valid = v] \in Instrs
  BY DEF Instrs
<1>10. \A v \in BOOLEAN : [i EXCEPT !.phyrs2_valid = v] \in Instrs
  BY DEF Instrs
<1>11. \A a \in Int : [i EXCEPT !.target_address = a] \in Instrs
  BY DEF Instrs
<1>12. \A v \in BOOLEAN : [i EXCEPT !.target_address_valid = v] \in Instrs
  BY DEF Instrs
<1>13. \A a \in Int : [i EXCEPT !.pc = a] \in Instrs
  BY DEF Instrs
<1> QED
  BY <1>1, <1>2, <1>3, <1>4, <1>5, <1>6, <1>7, <1>8, <1>9, <1>10, <1>11, <1>12, <1>13

\* Marking a physical register invalid keeps the file's type.
LEMMA PRFInvalidated ==
  ASSUME NEW prf \in PRFType, NEW p PROVE [prf EXCEPT ![p].valid = FALSE] \in PRFType
BY DEF PRFType

\* What decode does to the tables when a register is handed out.
LEMMA HandOutType ==
  ASSUME NEW r \in RenamingType, NEW base \in ProgramRegisters, NEW p \in PhysicalRegs
  PROVE  HandOut(r, base, p) \in RenamingType
<1>1. /\ r.table \in TableType /\ r.list \in Seq(PhysicalRegs) /\ r.prf \in PRFType
      /\ p \in Tags
  BY DEF RenamingType, Tags
<1>2. /\ [r.table EXCEPT ![base] = p] \in TableType
      /\ [r.prf EXCEPT ![p].valid = FALSE] \in PRFType
      /\ WithoutHead(r.list) \in Seq(PhysicalRegs)
  BY <1>1, TableUpdates, PRFInvalidated, FreeListType, RegisterIndices
<1> DEFINE r1 == [r EXCEPT !.table[base] = p]
           r2 == [r1 EXCEPT !.prf[p].valid = FALSE]
           r3 == [r2 EXCEPT !.list = WithoutHead(@)]
<1>3. r1 \in RenamingType /\ r1.prf = r.prf /\ r1.list = r.list
  BY <1>2 DEF RenamingType
<1>4. r2 \in RenamingType /\ r2.list = r.list
  BY <1>2, <1>3 DEF RenamingType
<1>5. r3 \in RenamingType
  BY <1>2, <1>4 DEF RenamingType
<1> QED
  BY <1>5 DEF HandOut

\* So does renaming the destination.
LEMMA RenameDestinationType ==
  ASSUME NEW r \in RenamingType PROVE RenameDestination(r) \in RenamingType
<1> DEFINE i == r.instr
           p == HeadOfFree(r.list)
           noted == [r EXCEPT !.instr.prev_pd = r.table[i.rd]]
<1>1. /\ i \in Instrs /\ r.table \in TableType /\ r.list \in Seq(PhysicalRegs)
      /\ i.rd \in ProgramRegisters /\ r.table[i.rd] \in Tags
  BY InstrFields DEF RenamingType, TableType
<1>2. p \in PhysicalRegs \cup {-1}
  BY <1>1, FreeListType, RegisterIndices
<1>3. noted \in RenamingType
  BY <1>1, InstrUpdates DEF RenamingType
<1>4. [noted EXCEPT !.stall = TRUE] \in RenamingType
  BY <1>3 DEF RenamingType
<1>5. ASSUME p # -1 PROVE HandOut([noted EXCEPT !.instr.phyrd = p], i.rd, p) \in RenamingType
  <2>1. [noted EXCEPT !.instr.phyrd = p] \in RenamingType
    BY <1>2, <1>3, <1>5, InstrUpdates DEF RenamingType
  <2> QED
    BY <1>1, <1>2, <1>5, <2>1, HandOutType
<1> QED
  BY <1>3, <1>4, <1>5 DEF RenameDestination

\* And renaming the address register of a post-increment operation.
LEMMA RenamePointerType ==
  ASSUME NEW r \in RenamingType PROVE RenamePointer(r) \in RenamingType
<1> DEFINE i == r.instr
           p == HeadOfFree(r.list)
           base == IF i.opcode = "LOADP" THEN i.rs1 ELSE i.rs2
           noted == [r EXCEPT !.instr.prev_prs = r.table[base]]
<1>1. /\ i \in Instrs /\ r.table \in TableType /\ r.list \in Seq(PhysicalRegs)
      /\ base \in ProgramRegisters /\ r.table[base] \in Tags
  BY InstrFields DEF RenamingType, TableType
<1>2. p \in PhysicalRegs \cup {-1} /\ -1 \in Tags
  BY <1>1, FreeListType, RegisterIndices DEF Tags
<1> HIDE DEF base
<1>3. noted \in RenamingType
  BY <1>1, InstrUpdates DEF RenamingType
<1>4. [noted EXCEPT !.stall = TRUE] \in RenamingType
  BY <1>3 DEF RenamingType
<1>5. [noted EXCEPT !.instr.phyrs3 = -1, !.table[base] = -1] \in RenamingType
  <2>1. [noted EXCEPT !.instr.phyrs3 = -1] \in RenamingType
    BY <1>2, <1>3, InstrUpdates DEF RenamingType
  <2> HIDE DEF noted
  <2>2. [[noted EXCEPT !.instr.phyrs3 = -1] EXCEPT !.table[base] = -1] \in RenamingType
    BY <1>1, <1>2, <2>1, TableUpdates DEF RenamingType
  <2> QED
    BY <2>2
<1>6. ASSUME p # -1 PROVE HandOut([noted EXCEPT !.instr.phyrs3 = p], base, p) \in RenamingType
  <2>1. p \in Tags
    BY <1>2, <1>6 DEF Tags
  <2>2. [noted EXCEPT !.instr.phyrs3 = p] \in RenamingType
    BY <1>3, <2>1, InstrUpdates DEF RenamingType
  <2> QED
    BY <1>1, <1>2, <1>6, <2>2, HandOutType
<1> QED
  BY <1>3, <1>4, <1>5, <1>6 DEF RenamePointer, base

\* Renaming the flags needs a free CC register, which decode has checked for.
LEMMA RenameFlagsType ==
  ASSUME NEW r \in RenamingType, freeCCFlagsRegList \in Seq(CCRegs),
         r.instr.opcode \in FlagOps => freeCCFlagsRegList # << >>
  PROVE  /\ RenameFlags(r) \in RenamingType
         /\ RenameFlags(r).instr.opcode = r.instr.opcode
<1> DEFINE c == HeadOfFree(freeCCFlagsRegList)
<1>1. CASE r.instr.opcode \notin FlagOps
  BY <1>1 DEF RenameFlags
<1>2. CASE r.instr.opcode \in FlagOps
  <2>1. c \in CCRegs /\ r.instr \in Instrs /\ r.table \in TableType
        /\ r.table[CC] \in CCRegs \cup {-1}
    BY <1>2, FreeListType, RegisterIndices DEF RenamingType, TableType
  <2> HIDE DEF c
  <2> DEFINE r1 == [r EXCEPT !.instr.prev_cc = r.table[CC]]
             r2 == [r1 EXCEPT !.instr.flag = c]
             r3 == [r2 EXCEPT !.table[CC] = c]
  <2>2. \A i \in Instrs : /\ [i EXCEPT !.prev_cc = r.table[CC]].opcode = i.opcode
                          /\ [i EXCEPT !.flag = c].opcode = i.opcode
    BY DEF Instrs
  <2>3. /\ r1 \in RenamingType /\ r1.table = r.table
        /\ r1.instr = [r.instr EXCEPT !.prev_cc = r.table[CC]]
    BY <2>1, InstrUpdates DEF RenamingType
  <2>4. r1.instr \in Instrs /\ r1.instr.opcode = r.instr.opcode
    BY <2>1, <2>2, <2>3 DEF RenamingType
  <2> HIDE DEF r1
  <2>5. /\ r2 \in RenamingType /\ r2.table = r.table
        /\ r2.instr = [r1.instr EXCEPT !.flag = c]
    BY <2>1, <2>3, <2>4, InstrUpdates DEF RenamingType
  <2>6. r2.instr.opcode = r.instr.opcode
    BY <2>2, <2>4, <2>5
  <2> HIDE DEF r2
  <2>7. r3 \in RenamingType /\ r3.instr = r2.instr
    BY <2>1, <2>5, TableUpdates DEF RenamingType
  <2> QED
    BY <1>2, <2>6, <2>7 DEF RenameFlags, c, r1, r2
<1> QED
  BY <1>1, <1>2

(***************************************************************************)
(* Queues.                                                                 *)
(***************************************************************************)
IQType == [IQSlots -> IQEntries]
BQType == [BQSlots -> BQEntries]
LSQType == [LSQSlots -> LSQEntries]
RoBType == [RoBSlots -> RoBEntries]

\* Slots are natural numbers and the queues have at least one.
LEMMA SlotSets ==
  /\ IQSlots \in SUBSET Nat /\ BQSlots \in SUBSET Nat /\ LSQSlots \in SUBSET Nat
  /\ RoBSlots \in SUBSET Nat /\ BTBSlots \in SUBSET Nat
  /\ 0 \in LSQSlots /\ 0 \in RoBSlots
  /\ LSQ_SIZE \in Nat \ {0} /\ ROB_SIZE \in Nat \ {0} /\ BTB_SIZE \in Nat \ {0}
BY SizesAssumption DEF IQSlots, BQSlots, LSQSlots, RoBSlots, BTBSlots

\* Taking an instruction into the issue queue keeps its type.
LEMMA EstablishIQType ==
  ASSUME NEW iq \in IQType, NEW i \in Instrs, NEW time \in Nat
  PROVE  EstablishIQ(iq, i, time) \in IQType
BY DEF EstablishIQ, IQType, IQEntries

\* Taking a branch into the branch queue keeps its type.
LEMMA EstablishBQType ==
  ASSUME NEW bq \in BQType, NEW i \in Instrs PROVE EstablishBQ(bq, i) \in BQType
BY DEF EstablishBQ, BQType, BQEntries

\* Entries stay entries when a field of them is cleared.
LEMMA EntryUpdates ==
  /\ \A e \in IQEntries, a \in Int : [e EXCEPT !.instr.pc = a] \in IQEntries
  /\ \A e \in BQEntries, a \in Int : [e EXCEPT !.instr.pc = a] \in BQEntries
  /\ \A e \in RoBEntries, a \in Int : [e EXCEPT !.instr.pc = a] \in RoBEntries
  /\ \A e \in RoBEntries : [e EXCEPT !.established_bit = FALSE] \in RoBEntries
  /\ \A e \in RoBEntries : [e EXCEPT !.lsq_index = 0] \in RoBEntries
<1>1. ASSUME NEW e \in IQEntries, NEW a \in Int PROVE [e EXCEPT !.instr.pc = a] \in IQEntries
  BY InstrUpdates DEF IQEntries
<1>2. ASSUME NEW e \in BQEntries, NEW a \in Int PROVE [e EXCEPT !.instr.pc = a] \in BQEntries
  BY InstrUpdates DEF BQEntries
<1>3. ASSUME NEW e \in RoBEntries, NEW a \in Int
      PROVE  [e EXCEPT !.instr.pc = a] \in RoBEntries
  BY InstrUpdates DEF RoBEntries
<1>4. \A e \in RoBEntries : [e EXCEPT !.established_bit = FALSE] \in RoBEntries
  BY DEF RoBEntries
<1>5. \A e \in RoBEntries : [e EXCEPT !.lsq_index = 0] \in RoBEntries
  BY SlotSets DEF RoBEntries
<1> QED
  BY <1>1, <1>2, <1>3, <1>4, <1>5

\* Clearing a squashed instruction out of the issue queue keeps its type.
LEMMA RemoveIQType ==
  ASSUME NEW iq \in IQType, NEW at PROVE RemoveIQ(iq, at) \in IQType
<1> DEFINE k == FirstIndex({s \in IQSlots : iq[s].instr.pc = at})
<1>1. k \in IQSlots \cup {-1}
  BY Found, SlotSets
<1> HIDE DEF k
<1>2. CASE k \in IQSlots
  <2>1. /\ iq[k] \in IQEntries /\ iq[k].instr \in Instrs
    BY <1>2 DEF IQType, IQEntries
  <2>2. [iq[k].instr EXCEPT !.pc = 0] \in Instrs
    BY <2>1, InstrUpdates
  <2>3. [iq EXCEPT ![k].valid_bit = FALSE, ![k].dispatch_time = 0] \in IQType
    BY <1>2 DEF IQType, IQEntries
  <2> DEFINE q == [iq EXCEPT ![k].valid_bit = FALSE, ![k].dispatch_time = 0]
  <2> HIDE DEF q
  <2>4. \A r \in IQType : [r EXCEPT ![k].instr.pc = 0] \in IQType
    BY <1>2, EntryUpdates DEF IQType
  <2>5. [q EXCEPT ![k].instr.pc = 0] \in IQType
    BY <2>3, <2>4 DEF q
  <2> QED
    BY <1>2, <2>5, SlotSets DEF RemoveIQ, k, q
<1>3. CASE k = -1
  BY <1>3 DEF RemoveIQ, k
<1> QED
  BY <1>1, <1>2, <1>3

\* Clearing a squashed branch out of the branch queue keeps its type.
LEMMA RemoveBQType ==
  ASSUME NEW bq \in BQType, NEW at PROVE RemoveBQ(bq, at) \in BQType
<1> DEFINE k == FirstIndex({s \in BQSlots : bq[s].instr.pc = at})
<1>1. k \in BQSlots \cup {-1}
  BY Found, SlotSets
<1> HIDE DEF k
<1>2. CASE k \in BQSlots
  <2>1. /\ bq[k] \in BQEntries /\ bq[k].instr \in Instrs
    BY <1>2 DEF BQType, BQEntries
  <2>2. [bq[k].instr EXCEPT !.pc = 0] \in Instrs
    BY <2>1, InstrUpdates
  <2> DEFINE q1 == [bq EXCEPT ![k].valid_bit = FALSE]
             q2 == [q1 EXCEPT ![k].instr.pc = 0]
  <2>3. q1 \in BQType /\ q1[k].instr = bq[k].instr
    BY <1>2 DEF BQType, BQEntries
  <2>4. q2 \in BQType
    BY <1>2, <2>2, <2>3 DEF BQType, BQEntries
  <2> QED
    BY <2>4 DEF RemoveBQ, k
<1>3. CASE k = -1
  BY <1>3 DEF RemoveBQ, k
<1> QED
  BY <1>1, <1>2, <1>3

\* A load-store entry stays one under each assignment to its fields.
LEMMA LSQEntryUpdates ==
  ASSUME NEW e \in LSQEntries
  PROVE  /\ \A v \in BOOLEAN : [e EXCEPT !.established_bit = v] \in LSQEntries
         /\ \A v \in {"LOAD", "STORE"} : [e EXCEPT !.LorS_bit = v] \in LSQEntries
         /\ \A v \in Int : [e EXCEPT !.pc = v] \in LSQEntries
         /\ \A v \in Int : [e EXCEPT !.memory_address = v] \in LSQEntries
         /\ \A v \in BOOLEAN : [e EXCEPT !.memory_address_valid = v] \in LSQEntries
         /\ \A v \in PhysicalRegs : [e EXCEPT !.phyrd = v] \in LSQEntries
         /\ \A v \in BOOLEAN : [e EXCEPT !.src_data_valid = v] \in LSQEntries
         /\ \A v \in Tags : [e EXCEPT !.src_tag = v] \in LSQEntries
         /\ \A v \in Int : [e EXCEPT !.valueToStore = v] \in LSQEntries
BY DEF LSQEntries, Tags

\* Establishing an entry keeps the load-store queue's type.
LEMMA EstablishLSQType ==
  ASSUME NEW q \in LSQType, NEW t \in LSQSlots, NEW i \in Instrs
  PROVE  EstablishLSQ(q, t, i) \in LSQType
<1> DEFINE e1 == [q[t] EXCEPT !.established_bit = TRUE]
           e2 == [e1 EXCEPT !.pc = i.pc]
           e3 == [e2 EXCEPT !.memory_address = 0]
           fresh == [e3 EXCEPT !.memory_address_valid = FALSE]
           l1 == [fresh EXCEPT !.LorS_bit = "LOAD"]
           l2 == [l1 EXCEPT !.src_data_valid = TRUE]
           load == [l2 EXCEPT !.phyrd = i.phyrd]
           s1 == [fresh EXCEPT !.LorS_bit = "STORE"]
           s2 == [s1 EXCEPT !.src_tag = i.phyrs1]
           s3 == [s2 EXCEPT !.src_data_valid = i.phyrs1_valid]
           store == [s3 EXCEPT !.valueToStore = IF i.phyrs1_valid THEN i.phyrs1_value ELSE @]
<1>1. q[t] \in LSQEntries
  BY DEF LSQType
<1>2. e2 \in LSQEntries
  BY <1>1, LSQEntryUpdates, InstrFields
<1> HIDE DEF e2
<1>3. fresh \in LSQEntries
  <2>1. e3 \in LSQEntries
    BY <1>2 DEF LSQEntries
  <2> QED
    BY <2>1 DEF LSQEntries
<1> HIDE DEF fresh
<1>4. load \in LSQEntries
  BY <1>3, LSQEntryUpdates, InstrFields
<1>5. s3 \in LSQEntries
  BY <1>3, LSQEntryUpdates, InstrFields
<1> HIDE DEF s3
<1>6. store \in LSQEntries
  <2>1. s3.valueToStore \in Int /\ i.phyrs1_value \in Int
    BY <1>5, InstrFields DEF LSQEntries
  <2> QED
    BY <1>5, <2>1, LSQEntryUpdates
<1> HIDE DEF load, store
<1>7. EstablishLSQ(q, t, i) = [q EXCEPT ![t] = IF i.opcode \in LoadOps THEN load ELSE store]
  BY DEF EstablishLSQ, load, store, s3, fresh, e2
<1> QED
  BY <1>4, <1>6, <1>7 DEF LSQType

\* Establishing an entry keeps the reorder buffer's type: the LSQ index a memory
\* operation gets is one.
LEMMA EstablishRoBType ==
  ASSUME NEW q \in RoBType, NEW t \in RoBSlots, NEW i \in Instrs, NEW l,
         i.opcode \in MemoryOps => l \in LSQSlots
  PROVE  EstablishRoB(q, t, i, l) \in RoBType
BY DEF EstablishRoB, RoBType, RoBEntries

\* Deleting the head, which moves the entries behind it down, keeps the LSQ's type.
LEMMA DeleteLSQHeadType ==
  ASSUME NEW q \in LSQType, NEW tail \in LSQSlots PROVE DeleteLSQHead(q, tail) \in LSQType
<1> DEFINE s == Shifted(q, tail)
<1>1. s \in LSQType
  BY SlotSets DEF Shifted, LSQType, LSQSlots
<1> HIDE DEF s
<1>2. \A r \in LSQType : [r EXCEPT ![tail].established_bit = FALSE] \in LSQType
  BY LSQEntryUpdates DEF LSQType
<1>3. \A r \in LSQType : [r EXCEPT ![tail].src_data_valid = FALSE] \in LSQType
  BY LSQEntryUpdates DEF LSQType
<1>4. \A r \in LSQType : [r EXCEPT ![tail].pc = 0] \in LSQType
  <2>1. \A e \in LSQEntries : [e EXCEPT !.pc = 0] \in LSQEntries
    BY DEF LSQEntries
  <2> QED
    BY <2>1 DEF LSQType
<1> DEFINE d1 == [s EXCEPT ![tail].established_bit = FALSE]
           d2 == [d1 EXCEPT ![tail].src_data_valid = FALSE]
           d3 == [d2 EXCEPT ![tail].pc = 0]
<1>5. d3 \in LSQType
  BY <1>1, <1>2, <1>3, <1>4
<1> QED
  BY <1>5 DEF DeleteLSQHead, s

\* And the same for the reorder buffer.
LEMMA DeleteRoBHeadType ==
  ASSUME NEW q \in RoBType, NEW tail \in RoBSlots PROVE DeleteRoBHead(q, tail) \in RoBType
<1> DEFINE s == Shifted(q, tail)
<1>1. s \in RoBType
  BY SlotSets DEF Shifted, RoBType, RoBSlots
<1> HIDE DEF s
<1>2. \A r \in RoBType : [r EXCEPT ![tail].established_bit = FALSE] \in RoBType
  BY EntryUpdates DEF RoBType
<1>3. \A r \in RoBType : [r EXCEPT ![tail].lsq_index = 0] \in RoBType
  BY EntryUpdates DEF RoBType
<1>4. \A r \in RoBType : [r EXCEPT ![tail].instr.pc = 0] \in RoBType
  BY EntryUpdates DEF RoBType
<1> DEFINE d1 == [s EXCEPT ![tail].established_bit = FALSE]
           d2 == [d1 EXCEPT ![tail].lsq_index = 0]
           d3 == [d2 EXCEPT ![tail].instr.pc = 0]
<1>5. d3 \in RoBType
  BY <1>1, <1>2, <1>3, <1>4
<1> QED
  BY <1>5 DEF DeleteRoBHead, s

(***************************************************************************)
(* Wakeup and delivery.                                                    *)
(***************************************************************************)
LEMMA WokenIQType ==
  ASSUME NEW iq \in IQType, NEW lines \in BusType PROVE WokenIQ(iq, lines) \in IQType
<1>1. ASSUME NEW e \in IQEntries
      PROVE  [e EXCEPT !.instr = PickUp(@, lines)] \in IQEntries
  BY PickUpType DEF IQEntries
<1> QED
  BY <1>1 DEF WokenIQ, IQType

\* Selection finds a slot of the issue queue or none.
LEMMA SelectedSlotType ==
  ASSUME NEW iq, NEW times PROVE SelectedSlot(iq, times) \in IQSlots \cup {-1}
BY Found, SlotSets DEF SelectedSlot

\* The slot the issued instruction leaves keeps the issue queue's type.
LEMMA IssuedType ==
  ASSUME NEW iq \in IQType, NEW k \in IQSlots \cup {-1} PROVE Issued(iq, k) \in IQType
<1>1. CASE k = -1
  BY <1>1 DEF Issued
<1>2. CASE k \in IQSlots
  <2> DEFINE q1 == [iq EXCEPT ![k].valid_bit = FALSE]
             q2 == [q1 EXCEPT ![k].instr.phyrs1_valid = FALSE]
             q3 == [q2 EXCEPT ![k].instr.phyrs2_valid = FALSE]
  <2>1. \A q \in IQType : [q EXCEPT ![k].valid_bit = FALSE] \in IQType
    BY DEF IQType, IQEntries
  <2>2. \A q \in IQType : [q EXCEPT ![k].instr.phyrs1_valid = FALSE] \in IQType
    <3>1. \A e \in IQEntries : [e EXCEPT !.instr.phyrs1_valid = FALSE] \in IQEntries
      BY InstrUpdates DEF IQEntries
    <3> QED
      BY <3>1 DEF IQType
  <2>3. \A q \in IQType : [q EXCEPT ![k].instr.phyrs2_valid = FALSE] \in IQType
    <3>1. \A e \in IQEntries : [e EXCEPT !.instr.phyrs2_valid = FALSE] \in IQEntries
      BY InstrUpdates DEF IQEntries
    <3> QED
      BY <3>1 DEF IQType
  <2>4. q3 \in IQType
    BY <2>1, <2>2, <2>3
  <2>5. k # -1
    BY <1>2, SlotSets
  <2> QED
    BY <2>4, <2>5 DEF Issued
<1> QED
  BY <1>1, <1>2

\* A unit's latch takes an instruction record from the issue queue.
LEMMA ReceivedType ==
  ASSUME NEW latch \in Latches, NEW iq \in IQType, NEW k \in IQSlots \cup {-1}
  PROVE  Received(latch, iq, k) \in Latches
<1>1. CASE k = -1
  BY <1>1 DEF Received
<1>2. CASE k # -1
  <2>1. Issued(iq, k)[k].instr \in Instrs
    BY <1>2, IssuedType DEF IQType, IQEntries
  <2> QED
    BY <1>2, <2>1 DEF Received, Latches
<1> QED
  BY <1>1, <1>2

\* Address and store data delivered to the LSQ keep its type.
LEMMA UpdatedLSQType ==
  ASSUME NEW q \in LSQType, NEW tail, NEW address \in Int, NEW at, NEW lines \in BusType
  PROVE  UpdatedLSQ(q, tail, address, at, lines) \in LSQType
<1>1. ASSUME NEW e \in LSQEntries
      PROVE  [e EXCEPT !.memory_address = address, !.memory_address_valid = TRUE] \in LSQEntries
  BY DEF LSQEntries
<1>2. ASSUME NEW e \in LSQEntries PROVE PickUpStoreData(e, lines) \in LSQEntries
  <2> DEFINE b == StoreDataBus(lines, e.src_tag)
  <2>1. CASE b = -1
    BY <2>1 DEF PickUpStoreData
  <2>2. CASE b # -1
    <3>1. b \in {IntBus, MulBus, AFUBus}
      BY <2>2, Found DEF StoreDataBus, IntBus, MulBus, AFUBus
    <3>2. lines[b].value \in Int
      BY <3>1 DEF BusType, Buses, IntBus, MulBus, AFUBus
    <3> HIDE DEF b
    <3>3. [e EXCEPT !.valueToStore = lines[b].value, !.src_data_valid = TRUE] \in LSQEntries
      BY <3>2 DEF LSQEntries
    <3> QED
      BY <3>3 DEF PickUpStoreData, b
  <2> QED
    BY <2>1, <2>2
<1> DEFINE a == AddressedSlot(q, tail, address, at)
           addressed == [k \in LSQSlots |->
                           IF k = a THEN [q[k] EXCEPT !.memory_address = address,
                                                      !.memory_address_valid = TRUE]
                           ELSE q[k]]
<1>3. addressed \in LSQType
  BY <1>1 DEF LSQType
<1> HIDE DEF addressed
<1>4. [k \in LSQSlots |-> IF k <= tail THEN PickUpStoreData(addressed[k], lines)
                          ELSE addressed[k]] \in LSQType
  BY <1>2, <1>3 DEF LSQType
<1> QED
  BY <1>4 DEF UpdatedLSQ, addressed

\* A target delivered to the branch queue keeps its type.
LEMMA TargetedBQType ==
  ASSUME NEW bq \in BQType, NEW address \in Int, NEW at
  PROVE  TargetedBQ(bq, address, at) \in BQType
<1>1. ASSUME NEW e \in BQEntries
      PROVE  [e EXCEPT !.instr.target_address = address,
                       !.instr.target_address_valid = TRUE] \in BQEntries
  <2> DEFINE e1 == [e EXCEPT !.instr.target_address = address]
  <2>1. e1 \in BQEntries
    BY InstrUpdates DEF BQEntries
  <2> HIDE DEF e1
  <2>2. [e1 EXCEPT !.instr.target_address_valid = TRUE] \in BQEntries
    BY <2>1, InstrUpdates DEF BQEntries
  <2> QED
    BY <2>2 DEF e1
<1> QED
  BY <1>1 DEF TargetedBQ, BQType

\* Selection for the BFU finds a slot of the branch queue or none.
LEMMA BFUSlotType == ASSUME NEW bq PROVE BFUSlot(bq) \in BQSlots \cup {-1}
BY Found, SlotSets DEF BFUSlot

(***************************************************************************)
(* The branch target buffer.                                               *)
(***************************************************************************)
BTBType == [BTBSlots -> BTBEntries]

\* A BTB lookup finds a slot or none.
LEMMA LookUpType == ASSUME NEW btb, NEW at PROVE LookUp(btb, at) \in BTBSlots \cup {-1}
BY Found, SlotSets DEF LookUp

\* Entering a branch into the BTB keeps its type and its replacement pointer in range.
LEMMA EstablishBTBType ==
  ASSUME NEW btb \in BTBType, NEW counter \in BTBSlots,
         NEW branch \in Instrs, NEW inDispatch \in Instrs
  PROVE  /\ EstablishBTB(btb, counter, branch, inDispatch) \in BTBType
         /\ NextCounter(btb, counter, branch, inDispatch) \in BTBSlots
         /\ StallsDecode(btb, branch) \in BOOLEAN
<1> DEFINE k == SlotToEstablish(btb, branch.pc)
           h == InitialHistory(branch.opcode)
<1>1. branch.pc \in Int /\ inDispatch.pc \in Int /\ h \in 0 .. 3
  BY InstrFields DEF InitialHistory
<1> HIDE DEF k, h
<1>2. [btb EXCEPT ![k].branch_pc = branch.pc, ![k].history = h] \in BTBType
  BY <1>1 DEF BTBType, BTBEntries
<1>3. [btb EXCEPT ![counter] = [branch_pc |-> inDispatch.pc, target_pc |-> 0,
                                history |-> h]] \in BTBType
  BY <1>1 DEF BTBType, BTBEntries
<1>4. NextCounter(btb, counter, branch, inDispatch) \in BTBSlots
  BY SlotSets DEF NextCounter, BTBSlots
<1>5. StallsDecode(btb, branch) \in BOOLEAN
  BY DEF StallsDecode
<1> QED
  BY <1>2, <1>3, <1>4, <1>5 DEF EstablishBTB, k, h

\* Recording a branch's outcome keeps the BTB's type.
LEMMA ResolvedBTBType ==
  ASSUME NEW btb \in BTBType, NEW branch \in Instrs, NEW taken
  PROVE  ResolvedBTB(btb, branch, taken) \in BTBType
<1>1. ASSUME NEW e \in BTBEntries
      PROVE  [e EXCEPT !.target_pc = branch.target_address,
                       !.history = Trained(@, taken)] \in BTBEntries
  <2>1. ASSUME NEW h \in 0 .. 3 PROVE Trained(h, taken) \in 0 .. 3
    BY DEF Trained
  <2> QED
    BY <2>1, InstrFields DEF BTBEntries
<1> QED
  BY <1>1 DEF ResolvedBTB, BTBType

(***************************************************************************)
(* Commit and squash.                                                      *)
(***************************************************************************)
ListType == Seq(PhysicalRegs)
CCListType == Seq(CCRegs)

\* Returning a register, or the -1 of no register, keeps either free list.
LEMMA ListUpdates ==
  /\ \A list \in ListType, r \in Tags : AddBack(list, r, PHYSICAL_REG_FILE_SIZE) \in ListType
  /\ \A list \in CCListType, c \in CCRegs \cup {-1} :
       AddBack(list, c, CC_REG_FILE_SIZE) \in CCListType
BY FreeListType, RegisterIndices DEF ListType, CCListType, Tags

\* The registers freed at commit keep the free lists.
LEMMA FreedType ==
  ASSUME NEW i \in Instrs, NEW list \in ListType, NEW ccList \in CCListType
  PROVE  FreedPhysicalRegs(i, list) \in ListType /\ FreedCC(i, ccList) \in CCListType
<1>1. i.phyrd \in Tags /\ i.phyrs3 \in Tags /\ i.flag \in CCRegs
  BY InstrFields DEF Tags
<1> QED
  BY <1>1, ListUpdates DEF FreedPhysicalRegs, FreedCC

\* The registers freed by a squash keep the free lists.
LEMMA SquashedType ==
  ASSUME NEW i \in Instrs, NEW list \in ListType, NEW ccList \in CCListType,
         commit_ARF \in Instrs
  PROVE  SquashedPhysicalRegs(i, list) \in ListType /\ SquashedCC(i, ccList) \in CCListType
<1>1. /\ i.phyrd \in Tags /\ i.phyrs3 \in Tags /\ commit_ARF.phyrs3 \in Tags
      /\ i.prev_cc \in CCRegs \cup {-1}
  BY InstrFields DEF Tags
<1> QED
  BY <1>1, ListUpdates DEF SquashedPhysicalRegs, SquashedCC

\* Undoing a squashed instruction's renaming keeps the table's type.
LEMMA RestoredTableType ==
  ASSUME NEW i \in Instrs, NEW t \in TableType PROVE RestoredTable(i, t) \in TableType
<1> DEFINE afterRd == IF i.opcode \in DestinationOps THEN [t EXCEPT ![i.rd] = i.prev_pd] ELSE t
           base == IF i.opcode = "LOADP" THEN i.rs1 ELSE i.rs2
           afterBase == IF i.opcode \in PointerOps
                        THEN [afterRd EXCEPT ![base] = i.prev_prs] ELSE afterRd
<1>1. /\ i.rd \in ProgramRegisters /\ base \in ProgramRegisters
      /\ i.prev_pd \in Tags /\ i.prev_prs \in Tags /\ i.prev_cc \in CCRegs \cup {-1}
  BY InstrFields
<1>2. afterRd \in TableType
  BY <1>1, TableUpdates
<1> HIDE DEF afterRd, base
<1>3. afterBase \in TableType
  BY <1>1, <1>2, TableUpdates
<1> HIDE DEF afterBase
<1>4. [afterBase EXCEPT ![CC] = i.prev_cc] \in TableType
  BY <1>1, <1>3, TableUpdates
<1> QED
  BY <1>3, <1>4 DEF RestoredTable, afterBase, afterRd, base

RegsType == [Registers -> Int]

\* Commit writes integers to architectural registers only.
LEMMA CommittedType ==
  ASSUME NEW i \in Instrs, regs \in RegsType, flags \in Flags,
         physicalRegFile \in PRFType, ccRegFile \in CCFileType,
         i.opcode \in PointerOps => i.phyrs3 # -1
  PROVE  CommittedRegs(i) \in RegsType /\ CommittedFlags(i) \in Flags
<1>1. /\ i.rd \in Registers /\ i.rs1 \in Registers /\ i.rs2 \in Registers
      /\ i.phyrd \in PhysicalRegs /\ i.flag \in CCRegs /\ i.pc \in Int
      /\ i.phyrs3 \in Tags
  BY InstrFields, RegisterIndices
<1>2. physicalRegFile[i.phyrd].data \in Int
  BY <1>1 DEF PRFType
<1>3. i.opcode \in PointerOps => physicalRegFile[i.phyrs3].data \in Int
  BY <1>1 DEF PRFType, Tags
<1>4. CommittedRegs(i) \in RegsType
  <2> DEFINE written == IF i.opcode \in DestinationOps
                        THEN [regs EXCEPT ![i.rd] = physicalRegFile[i.phyrd].data] ELSE regs
             base == IF i.opcode = "LOADP" THEN i.rs1 ELSE i.rs2
             pointed == IF i.opcode \in PointerOps
                        THEN [written EXCEPT ![base] = physicalRegFile[i.phyrs3].data]
                        ELSE written
  <2>1. written \in RegsType
    BY <1>1, <1>2 DEF RegsType
  <2> HIDE DEF written
  <2>2. pointed \in RegsType
    BY <1>1, <1>3, <2>1 DEF RegsType
  <2> HIDE DEF pointed
  <2>3. [pointed EXCEPT ![LAST_PC] = i.pc] \in RegsType
    BY <1>1, <2>2, RegisterIndices DEF RegsType
  <2> QED
    BY <2>3 DEF CommittedRegs, pointed, written
<1>5. CommittedFlags(i) \in Flags
  BY <1>1 DEF CommittedFlags, CCFileType
<1> QED
  BY <1>4, <1>5

(***************************************************************************)
(* Results.                                                                *)
(***************************************************************************)
\* C's &, | and ^ of two ints is an int.
BitwiseIsInt ==
  \A op \in {"AND", "OR", "XOR"}, a \in Int, b \in Int : BitwiseResult(op, a, b) \in Int

\* The IntFU and the AFU compute integers.
LEMMA ResultType ==
  ASSUME BitwiseIsInt, NEW i \in Instrs
  PROVE  IntResult(i) \in Int /\ BaseValue(i) \in Int /\ FlagOf(IntResult(i)) \in Flags
<1>1. i.phyrs1_value \in Int /\ i.phyrs2_value \in Int /\ i.imm \in Int /\ i.pc \in Int
  BY InstrFields
<1>2. IntResult(i) \in Int
  BY <1>1 DEF IntResult, BitwiseIsInt
<1>3. BaseValue(i) \in Int
  BY <1>1 DEF BaseValue
<1>4. FlagOf(IntResult(i)) \in Flags
  BY DEF FlagOf, Flags
<1> QED
  BY <1>2, <1>3, <1>4

(***************************************************************************)
(* The invariant: the types, the rename table's entries kept apart, and    *)
(* the cycles the MAU has left.  The bounds of the queues' sizes follow    *)
(* from their own invariants.                                              *)
(***************************************************************************)
ProgramTypes == code_memory \in Seq(Insns) /\ stage \in Stages /\ clock \in Nat
FrontTypes ==
  /\ pc \in Int /\ fetch \in BOOLEAN
  /\ decode_rename1 \in StallLatches /\ rename2_dispatch \in StallLatches
  /\ issue_queue \in Latches
UnitTypes ==
  /\ execute_IntFU \in Latches /\ execute_MulFU \in Latches
  /\ execute_AFU \in Latches /\ execute_BFU \in Latches
MAUTypes ==
  /\ execute_MAU \in [has_insn : BOOLEAN, pc : Int]
  /\ mau_cycle_latency \in 0 .. 2
  /\ execute_MAU.has_insn => mau_cycle_latency > 0
  /\ stored_in_memory \in BOOLEAN /\ data_memory \in [Addresses -> Int]
ArchTypes ==
  commit_ARF \in Instrs /\ regs \in RegsType /\ flags \in Flags /\ HALT \in BOOLEAN
FileTypes == physicalRegFile \in PRFType /\ ccRegFile \in CCFileType /\ CCHead \in Flags
RenameTypes ==
  /\ freePhysicalRegList \in ListType /\ freeCCFlagsRegList \in CCListType
  /\ renameTable \in TableType
QueueTypes == issueQueue \in IQType /\ issue_counter \in Nat /\ branchQueue \in BQType
LSQTypes ==
  /\ lsq \in LSQType /\ LSQ_tail \in Int /\ LSQ_tail < LSQ_SIZE /\ LSQ_size \in Int
  /\ delete_LSQ_head \in BOOLEAN
RoBTypes == RoB \in RoBType /\ delete_ROB_head \in BOOLEAN
BTBTypes == BTBEntry \in BTBType /\ btb_counter \in BTBSlots
ForwardingTypes ==
  /\ bus \in BusType /\ ccBus \in CCBusType
  /\ AFU_address \in Int /\ AFU_pc \in Int /\ BFU_pc \in Int /\ miss_branch_tag \in Int

TypeInv ==
  /\ ProgramTypes /\ FrontTypes /\ UnitTypes /\ MAUTypes /\ ArchTypes /\ FileTypes
  /\ RenameTypes /\ QueueTypes /\ LSQTypes /\ RoBTypes /\ BTBTypes /\ ForwardingTypes

\* The machine starts well typed.
LEMMA TypeInvInit == Init => TypeInv
<1> SUFFICES ASSUME Init PROVE TypeInv
  OBVIOUS
<1>1. ProgramTypes
  BY ProgramsAssumption DEF Init, APEX_cpu_init, ProgramTypes, Stages
<1>2. FrontTypes /\ UnitTypes
  BY NoInstrType DEF Init, APEX_cpu_init, FrontTypes, UnitTypes, FIRST_PC, StallLatches, Latches,
                     EmptyLatch, EmptyStallLatch
<1>3. MAUTypes
  <2>1. ~execute_MAU.has_insn /\ execute_MAU \in [has_insn : BOOLEAN, pc : Int]
    BY DEF Init, APEX_cpu_init
  <2>2. mau_cycle_latency \in 0 .. 2
    BY DEF Init, APEX_cpu_init
  <2>3. stored_in_memory \in BOOLEAN
    BY DEF Init, APEX_cpu_init
  <2>4. data_memory \in [Addresses -> Int]
    BY DEF InitialMemory, Init, APEX_cpu_init
  <2> QED
    BY <2>1, <2>2, <2>3, <2>4 DEF MAUTypes
<1>4. ArchTypes /\ FileTypes
  <2>1. ArchTypes
    <3>1. regs \in RegsType
      BY DEF Init, APEX_cpu_init, RegsType
    <3>2. flags \in Flags /\ HALT \in BOOLEAN
      BY DEF Init, APEX_cpu_init, Flags
    <3>3. commit_ARF \in Instrs
      BY NoInstrType DEF Init, APEX_cpu_init
    <3> QED
      BY <3>1, <3>2, <3>3 DEF ArchTypes
  <2>2. FileTypes
    BY DEF Init, APEX_cpu_init, FileTypes, Flags, PRFType, CCFileType
  <2> QED
    BY <2>1, <2>2
<1>5. RenameTypes
  <2>1. freePhysicalRegList \in ListType
    <3>1. \A k \in 1 .. PHYSICAL_REG_FILE_SIZE : k - 1 \in PhysicalRegs
      BY SizesAssumption DEF PhysicalRegs
    <3>2. PHYSICAL_REG_FILE_SIZE \in Nat
      BY SizesAssumption
    <3> QED
      BY <3>1, <3>2 DEF Init, APEX_cpu_init, ListType
  <2>2. freeCCFlagsRegList \in CCListType
    <3>1. \A k \in 1 .. CC_REG_FILE_SIZE : k - 1 \in CCRegs
      BY SizesAssumption DEF CCRegs
    <3>2. CC_REG_FILE_SIZE \in Nat
      BY SizesAssumption
    <3> QED
      BY <3>1, <3>2 DEF Init, APEX_cpu_init, CCListType
  <2>3. renameTable \in TableType
    BY RegisterIndices DEF Init, APEX_cpu_init, TableType, NOT_RENAMED, Tags
  <2> QED
    BY <2>1, <2>2, <2>3 DEF RenameTypes
<1>6. QueueTypes
  BY NoInstrType DEF Init, APEX_cpu_init, QueueTypes, IQType, BQType, IQEntries, BQEntries, EmptyIQEntry,
                     EmptyBQEntry
<1>7. LSQTypes
  <2>1. EmptyLSQEntry \in LSQEntries
    BY SizesAssumption DEF EmptyLSQEntry, LSQEntries, PhysicalRegs
  <2>2. LSQ_tail \in Int /\ LSQ_tail < LSQ_SIZE /\ LSQ_size \in Int
    BY SlotSets DEF Init, APEX_cpu_init
  <2> QED
    BY <2>1, <2>2 DEF Init, APEX_cpu_init, LSQTypes, LSQType
<1>8. RoBTypes
  <2>1. EmptyRoBEntry \in RoBEntries
    BY NoInstrType DEF EmptyRoBEntry, RoBEntries
  <2> QED
    BY <2>1 DEF Init, APEX_cpu_init, RoBTypes, RoBType
<1>9. BTBTypes
  BY SlotSets DEF Init, APEX_cpu_init, BTBTypes, BTBType, BTBEntries, EmptyBTBEntry, BTBSlots
<1>10. ForwardingTypes
  BY DEF Init, APEX_cpu_init, ForwardingTypes, BusType, CCBusType, IdleBus, IdleCCBus, Tags, Flags
<1> QED
  BY <1>1, <1>2, <1>3, <1>4, <1>5, <1>6, <1>7, <1>8, <1>9, <1>10 DEF TypeInv

\* A step that leaves all but the stage alone keeps the types.
LEMMA TypeInvUnchanged ==
  ASSUME TypeInv,
         UNCHANGED <<frontVars, exVars, archVars, memVars, freeVars, prfVars, renameTable,
                     iqVars, lsqVars, robVars, btbVars, busVars, afuVars, redirectVars>>,
         UNCHANGED <<code_memory, clock>>, stage' \in Stages
  PROVE  TypeInv'
<1>1. (ProgramTypes /\ FrontTypes /\ UnitTypes /\ ArchTypes /\ MAUTypes /\ FileTypes)'
  BY DEF TypeInv, ProgramTypes, FrontTypes, UnitTypes, ArchTypes, MAUTypes, FileTypes,
         frontVars, exVars, archVars, memVars, prfVars
<1>2. (RenameTypes /\ QueueTypes /\ LSQTypes /\ RoBTypes /\ BTBTypes /\ ForwardingTypes)'
  BY DEF TypeInv, RenameTypes, QueueTypes, LSQTypes, RoBTypes, BTBTypes, ForwardingTypes,
         freeVars, iqVars, lsqVars, robVars, btbVars, busVars, afuVars, redirectVars
<1> QED
  BY <1>1, <1>2 DEF TypeInv

\* Commit keeps the types.
LEMMA TypeInvCommit == ASSUME TypeInv, RoBInv, CommitStage PROVE TypeInv'
<1>1. /\ lsq \in LSQType /\ RoB \in RoBType
      /\ LSQ_tail \in Int /\ LSQ_tail < LSQ_SIZE /\ LSQ_size \in Int
      /\ delete_LSQ_head \in BOOLEAN /\ delete_ROB_head \in BOOLEAN
  BY DEF TypeInv, LSQTypes, RoBTypes
<1>2. RoBAtCommit \in RoBType
  <2>1. CASE delete_ROB_head
    <3>1. ROB_tail \in RoBSlots
      BY <2>1, SlotSets DEF CommitStage, DeletesBelowZero, RoBInv, RoBContiguous, RoBSlots
    <3> QED
      BY <1>1, <2>1, <3>1, DeleteRoBHeadType DEF RoBAtCommit
  <2>2. CASE ~delete_ROB_head
    BY <1>1, <2>2 DEF RoBAtCommit
  <2> QED
    BY <2>1, <2>2
<1>3. LSQAtCommit \in LSQType
  <2>1. CASE delete_LSQ_head
    <3>1. LSQ_tail \in LSQSlots
      BY <1>1, <2>1, SlotSets DEF CommitStage, DeletesBelowZero, LSQSlots
    <3> QED
      BY <1>1, <2>1, <3>1, DeleteLSQHeadType DEF LSQAtCommit
  <2>2. CASE ~delete_LSQ_head
    BY <1>1, <2>2 DEF LSQAtCommit
  <2> QED
    BY <2>1, <2>2
<1> DEFINE i == RoBAtCommit[0].instr
           match == RoBAtCommit[0].instr.pc = LSQAtCommit[0].pc
<1>4. i \in Instrs
  BY <1>2, SlotSets DEF RoBType, RoBEntries
<1>5. \/ CommitHead(i, match)
      \/ /\ delete_ROB_head' = FALSE /\ delete_LSQ_head' = FALSE
         /\ stage' = AfterCommit
         /\ UNCHANGED <<archVars, freeVars, stored_in_memory>>
  BY DEF CommitStage
<1> HIDE DEF i, match
<1>6. AfterCommit \in Stages
  BY DEF AfterCommit, Stages
<1> DEFINE Results == /\ ArchTypes' /\ RenameTypes' /\ stage' \in Stages
                      /\ delete_ROB_head' \in BOOLEAN /\ delete_LSQ_head' \in BOOLEAN
                      /\ stored_in_memory' \in BOOLEAN
<1>7. ASSUME CommitHead(i, match), CanCommit(i, match) PROVE Results
  <2>1. i.opcode \in PointerOps => i.phyrs3 # -1
    BY <1>7 DEF CanCommit, PointerOps, PRFValid, Alu2Ops, AluLiteralOps
  <2>2. CommittedRegs(i) \in RegsType /\ CommittedFlags(i) \in Flags
    BY <1>4, <2>1, CommittedType DEF TypeInv, ArchTypes, FileTypes
  <2>3. /\ FreedPhysicalRegs(i, freePhysicalRegList) \in ListType
        /\ FreedCC(i, freeCCFlagsRegList) \in CCListType
    BY <1>4, FreedType DEF TypeInv, RenameTypes
  <2>4. ArchTypes'
    BY <1>4, <1>7, <2>2 DEF CommitHead, TypeInv, ArchTypes
  <2>5. RenameTypes'
    BY <1>7, <2>3 DEF CommitHead, CommitStage, TypeInv, RenameTypes
  <2>6. /\ delete_ROB_head' \in BOOLEAN /\ delete_LSQ_head' \in BOOLEAN
        /\ stored_in_memory' \in BOOLEAN /\ stage' \in Stages
    BY <1>6, <1>7 DEF CommitHead, Stages, TypeInv, MAUTypes
  <2> QED
    BY <2>4, <2>5, <2>6
<1>8. ASSUME CommitHead(i, match), ~CanCommit(i, match) PROVE Results
  <2>1. /\ UNCHANGED <<regs, flags, freeVars, stored_in_memory, HALT, renameTable>>
        /\ commit_ARF' = i /\ stage' = AfterCommit
        /\ delete_ROB_head' = FALSE /\ delete_LSQ_head' = FALSE
    BY <1>8 DEF CommitHead, CommitStage
  <2> QED
    BY <1>4, <1>6, <2>1 DEF TypeInv, ArchTypes, RenameTypes, MAUTypes, freeVars
<1>9. ASSUME ~CommitHead(i, match) PROVE Results
  <2>1. /\ UNCHANGED <<archVars, freeVars, stored_in_memory, renameTable>>
        /\ stage' = AfterCommit
        /\ delete_ROB_head' = FALSE /\ delete_LSQ_head' = FALSE
    BY <1>5, <1>9 DEF CommitStage
  <2> QED
    BY <1>6, <2>1 DEF TypeInv, ArchTypes, RenameTypes, MAUTypes, freeVars, archVars
<1>10. Results
  BY <1>7, <1>8, <1>9
<1>11. /\ physicalRegFile' \in PRFType /\ ccRegFile' \in CCFileType /\ CCHead' \in Flags
       /\ bus' \in BusType /\ ccBus' \in CCBusType
  <2>1. /\ physicalRegFile \in PRFType /\ ccRegFile \in CCFileType /\ CCHead \in Flags
        /\ bus \in BusType /\ ccBus \in CCBusType
    BY DEF TypeInv, FileTypes, ForwardingTypes
  <2>2. CASE stage' = "done"
    BY <2>1, <2>2 DEF CommitStage, WriteBack, prfVars, busVars
  <2>3. CASE stage' # "done"
    BY <2>1, <2>3, WrittenPRFType, WrittenCCType, DrainedType DEF CommitStage, WriteBack
  <2> QED
    BY <2>2, <2>3
<1>12. LSQTypes'
  <2>1. /\ LSQ_tail' \in {Retreat(LSQ_tail, LSQ_SIZE), LSQ_tail}
        /\ LSQ_size' \in {LSQ_size - 1, LSQ_size}
    BY DEF CommitStage
  <2>2. /\ LSQ_tail' \in Int /\ LSQ_tail' < LSQ_SIZE /\ LSQ_size' \in Int
    BY <1>1, <2>1, PairsFit, RetreatType
  <2> QED
    BY <1>3, <1>10, <2>2 DEF CommitStage, LSQTypes
<1>13. RoBTypes'
  BY <1>2, <1>10 DEF CommitStage, RoBTypes
<1>14. MAUTypes'
  BY <1>10 DEF CommitStage, TypeInv, MAUTypes
<1>15. (ProgramTypes /\ FrontTypes /\ UnitTypes)'
  BY <1>10 DEF CommitStage, TypeInv, ProgramTypes, FrontTypes, UnitTypes, frontVars, exVars
<1>16. (QueueTypes /\ BTBTypes /\ ForwardingTypes)'
  BY <1>11 DEF CommitStage, TypeInv, QueueTypes, BTBTypes, ForwardingTypes, iqVars, btbVars,
               afuVars, redirectVars
<1> QED
  BY <1>10, <1>11, <1>12, <1>13, <1>14, <1>15, <1>16 DEF TypeInv, FileTypes

\* The memory access keeps the types.
LEMMA TypeInvMAU == ASSUME TypeInv, MAUStage PROVE TypeInv'
<1>1. /\ lsq[0] \in LSQEntries /\ execute_MAU \in [has_insn : BOOLEAN, pc : Int]
      /\ mau_cycle_latency \in 0 .. 2
      /\ execute_MAU.has_insn => mau_cycle_latency > 0
      /\ stored_in_memory \in BOOLEAN /\ data_memory \in [Addresses -> Int]
      /\ bus \in BusType
  BY SlotSets DEF TypeInv, LSQTypes, LSQType, MAUTypes, ForwardingTypes
<1>2. /\ MAUStarts \in BOOLEAN /\ MAUBusy \in BOOLEAN /\ MAUCompletes \in BOOLEAN
  BY <1>1 DEF MAUStarts, MAUBusy, MAUCompletes
<1>3. MAULatency \in 0 .. 2 /\ (MAUBusy => MAULatency \in 1 .. 2)
  <2>1. CASE MAUStarts
    BY <2>1 DEF MAULatency
  <2>2. CASE ~MAUStarts
    BY <1>1, <2>2 DEF MAULatency, MAUBusy
  <2> QED
    BY <2>1, <2>2
<1>4. MAUBusy /\ ~MAUCompletes => MAULatency = 2
  BY <1>3 DEF MAUCompletes
<1>5. MAUTypes'
  <2>1. /\ mau_cycle_latency' \in 0 .. 2
        /\ MAUBusy /\ ~MAUCompletes => mau_cycle_latency' > 0
    BY <1>3, <1>4 DEF MAUStage
  <2>2. /\ execute_MAU' \in [has_insn : BOOLEAN, pc : Int]
        /\ execute_MAU'.has_insn <=> MAUBusy /\ ~MAUCompletes
    BY <1>1, <1>2 DEF MAUStage, LSQEntries
  <2>3. stored_in_memory' \in BOOLEAN
    BY <1>1, <1>2 DEF MAUStage
  <2>4. data_memory' \in [Addresses -> Int]
    BY <1>1 DEF MAUStage, LSQEntries
  <2> QED
    BY <2>1, <2>2, <2>3, <2>4 DEF MAUTypes
<1>6. bus' \in BusType
  <2>1. ASSUME MAUAccesses
        PROVE  [bus EXCEPT ![MAUBus] = [tag |-> lsq[0].phyrd,
                                        value |-> data_memory[lsq[0].memory_address]]]
                 \in BusType
    <3>1. lsq[0].phyrd \in Tags /\ data_memory[lsq[0].memory_address] \in Int
      BY <1>1, <2>1 DEF MAUStage, LSQEntries, Tags
    <3> QED
      BY <1>1, <3>1 DEF BusType
  <2> QED
    BY <1>1, <2>1 DEF MAUStage
<1>7. (ProgramTypes /\ FrontTypes /\ UnitTypes /\ ArchTypes /\ FileTypes)'
  BY DEF MAUStage, TypeInv, ProgramTypes, FrontTypes, UnitTypes, ArchTypes, FileTypes, Stages,
         frontVars, exVars, archVars, prfVars
<1>8. (RenameTypes /\ QueueTypes /\ LSQTypes /\ RoBTypes /\ BTBTypes /\ ForwardingTypes)'
  BY <1>6 DEF MAUStage, TypeInv, RenameTypes, QueueTypes, LSQTypes, RoBTypes, BTBTypes,
              ForwardingTypes, freeVars, iqVars, lsqVars, robVars, btbVars, afuVars,
              redirectVars
<1> QED
  BY <1>5, <1>7, <1>8 DEF TypeInv

\* The MulFU keeps the types.
LEMMA TypeInvMulFU == ASSUME TypeInv, MulFUStage PROVE TypeInv'
<1>1. execute_MulFU \in Latches /\ bus \in BusType /\ ccBus \in CCBusType
  BY DEF TypeInv, UnitTypes, ForwardingTypes
<1>2. execute_MulFU.instr \in Instrs
  BY <1>1 DEF Latches
<1>3. bus' \in BusType /\ ccBus' \in CCBusType /\ execute_MulFU' \in Latches
  <2> DEFINE i == execute_MulFU.instr
             product == i.phyrs1_value * i.phyrs2_value
  <2>1. product \in Int /\ i.phyrd \in Tags /\ i.flag \in CCRegs
    BY <1>2, InstrFields DEF Tags
  <2>2. FlagOf(product) \in Flags
    BY DEF FlagOf, Flags
  <2> HIDE DEF product
  <2>3. /\ [bus EXCEPT ![MulBus] = [tag |-> i.phyrd, value |-> product]] \in BusType
        /\ [ccBus EXCEPT ![MulBus] = [tag |-> i.flag, flag |-> FlagOf(product)]] \in CCBusType
    BY <1>1, <2>1, <2>2 DEF BusType, CCBusType
  <2>4. [execute_MulFU EXCEPT !.has_insn = FALSE] \in Latches
    BY <1>1 DEF Latches
  <2> QED
    BY <1>1, <2>3, <2>4 DEF MulFUStage, product
<1>4. (ProgramTypes /\ FrontTypes /\ UnitTypes /\ MAUTypes /\ ArchTypes /\ FileTypes)'
  BY <1>3 DEF MulFUStage, TypeInv, ProgramTypes, FrontTypes, UnitTypes, MAUTypes, ArchTypes,
              FileTypes, Stages, frontVars, memVars, archVars, prfVars
<1>5. (RenameTypes /\ QueueTypes /\ LSQTypes /\ RoBTypes /\ BTBTypes /\ ForwardingTypes)'
  BY <1>3 DEF MulFUStage, TypeInv, RenameTypes, QueueTypes, LSQTypes, RoBTypes, BTBTypes,
              ForwardingTypes, freeVars, iqVars, lsqVars, robVars, btbVars, afuVars,
              redirectVars
<1> QED
  BY <1>4, <1>5 DEF TypeInv

\* The BFU keeps the types.
LEMMA TypeInvBFU == ASSUME TypeInv, BFUStage PROVE TypeInv'
<1>1. /\ execute_BFU \in Latches /\ bus \in BusType /\ BTBEntry \in BTBType
      /\ branchQueue \in BQType /\ fetch \in BOOLEAN /\ BFU_pc \in Int /\ miss_branch_tag \in Int
  BY DEF TypeInv, UnitTypes, ForwardingTypes, BTBTypes, QueueTypes, FrontTypes
<1> DEFINE i == execute_BFU.instr
           Results == /\ BFU_pc' \in Int /\ miss_branch_tag' \in Int /\ fetch' \in BOOLEAN
                      /\ bus' \in BusType /\ BTBEntry' \in BTBType
<1>2. i \in Instrs
  BY <1>1 DEF Latches
<1>3. i.pc \in Int /\ i.target_address \in Int /\ i.phyrd \in Tags
  BY <1>2, InstrFields DEF Tags
<1>4. ASSUME ResolveConditional(i) PROVE Results
  <2> DEFINE taken == ConditionHolds(i.opcode)
  <2>1. ResolvedBTB(BTBEntry, i, taken) \in BTBType
    BY <1>1, <1>2, ResolvedBTBType
  <2>2. RedirectPc(i, taken) \in Int
    BY <1>3 DEF RedirectPc, INCREMENTOR
  <2>3. /\ BTBEntry' = ResolvedBTB(BTBEntry, i, taken) /\ bus' = bus
        /\ \/ BFU_pc' = RedirectPc(i, taken) /\ miss_branch_tag' = i.pc /\ fetch' = TRUE
           \/ UNCHANGED <<redirectVars, fetch>>
    BY <1>4 DEF ResolveConditional
  <2> QED
    BY <1>1, <1>3, <2>1, <2>2, <2>3 DEF redirectVars
<1>5. ASSUME ResolveJump(i) PROVE Results
  <2>1. i.pc + INCREMENTOR \in Int
    BY <1>3 DEF INCREMENTOR
  <2>2. [bus EXCEPT ![BFUBus] = [tag |-> i.phyrd, value |-> i.pc + INCREMENTOR]] \in BusType
    BY <1>1, <1>3, <2>1 DEF BusType
  <2> QED
    BY <1>1, <1>3, <1>5, <2>2 DEF ResolveJump
<1>6. Results
  BY <1>1, <1>4, <1>5 DEF BFUStage, redirectVars
<1>7. branchQueue' \in BQType /\ execute_BFU' \in Latches
  <2>1. [execute_BFU EXCEPT !.has_insn = FALSE] \in Latches
    BY <1>1 DEF Latches
  <2> QED
    BY <1>1, <2>1, RemoveBQType DEF BFUStage
<1>8. (ProgramTypes /\ FrontTypes /\ UnitTypes /\ MAUTypes /\ ArchTypes /\ FileTypes)'
  BY <1>6, <1>7 DEF BFUStage, TypeInv, ProgramTypes, FrontTypes, UnitTypes, MAUTypes,
                    ArchTypes, FileTypes, Stages, memVars, archVars, prfVars
<1>9. (RenameTypes /\ QueueTypes /\ LSQTypes /\ RoBTypes /\ BTBTypes /\ ForwardingTypes)'
  BY <1>6, <1>7 DEF BFUStage, TypeInv, RenameTypes, QueueTypes, LSQTypes, RoBTypes, BTBTypes,
                    ForwardingTypes, freeVars, lsqVars, robVars, afuVars
<1> QED
  BY <1>8, <1>9 DEF TypeInv

\* The AFU keeps the types.
LEMMA TypeInvAFU == ASSUME TypeInv, BitwiseIsInt, AFUStage PROVE TypeInv'
<1>1. execute_AFU \in Latches /\ bus \in BusType /\ AFU_address \in Int /\ AFU_pc \in Int
  BY DEF TypeInv, UnitTypes, ForwardingTypes
<1> DEFINE i == execute_AFU.instr
<1>2. i \in Instrs
  BY <1>1 DEF Latches
<1>3. /\ i.pc \in Int /\ i.imm \in Int /\ i.phyrs3 \in Tags
      /\ BaseValue(i) + i.imm \in Int /\ BaseValue(i) + INCREMENTOR \in Int
  BY <1>2, InstrFields, ResultType DEF INCREMENTOR
<1>4. /\ AFU_address' \in Int /\ AFU_pc' \in Int /\ bus' \in BusType
      /\ execute_AFU' \in Latches
  <2>1. [bus EXCEPT ![AFUBus] = [tag |-> i.phyrs3, value |-> BaseValue(i) + INCREMENTOR]]
          \in BusType
    BY <1>1, <1>3 DEF BusType
  <2>2. [execute_AFU EXCEPT !.has_insn = FALSE] \in Latches
    BY <1>1 DEF Latches
  <2> QED
    BY <1>1, <1>3, <2>1, <2>2 DEF AFUStage, afuVars
<1>5. (ProgramTypes /\ FrontTypes /\ UnitTypes /\ MAUTypes /\ ArchTypes /\ FileTypes)'
  BY <1>4 DEF AFUStage, TypeInv, ProgramTypes, FrontTypes, UnitTypes, MAUTypes,
              ArchTypes, FileTypes, Stages, frontVars, memVars, archVars, prfVars
<1>6. (RenameTypes /\ QueueTypes /\ LSQTypes /\ RoBTypes /\ BTBTypes /\ ForwardingTypes)'
  BY <1>4 DEF AFUStage, TypeInv, RenameTypes, QueueTypes, LSQTypes, RoBTypes, BTBTypes,
              ForwardingTypes, freeVars, iqVars, lsqVars, robVars, btbVars, redirectVars
<1> QED
  BY <1>5, <1>6 DEF TypeInv

\* The IntFU keeps the types.
LEMMA TypeInvIntFU == ASSUME TypeInv, BitwiseIsInt, IntFUStage PROVE TypeInv'
<1>1. /\ execute_IntFU \in Latches /\ bus \in BusType /\ ccBus \in CCBusType
      /\ HALT \in BOOLEAN
  BY DEF TypeInv, UnitTypes, ForwardingTypes, ArchTypes
<1> DEFINE i == execute_IntFU.instr
           result == IntResult(i)
<1>2. i \in Instrs
  BY <1>1 DEF Latches
<1>3. result \in Int /\ FlagOf(result) \in Flags /\ i.phyrd \in Tags /\ i.flag \in CCRegs
  BY <1>2, InstrFields, ResultType DEF Tags
<1> HIDE DEF result
<1>4. bus' \in BusType /\ ccBus' \in CCBusType /\ execute_IntFU' \in Latches /\ HALT' \in BOOLEAN
  <2>1. /\ [bus EXCEPT ![IntBus] = [tag |-> i.phyrd, value |-> result]] \in BusType
        /\ [ccBus EXCEPT ![IntBus] = [tag |-> i.flag, flag |-> FlagOf(result)]] \in CCBusType
    BY <1>1, <1>3 DEF BusType, CCBusType
  <2>2. [execute_IntFU EXCEPT !.has_insn = FALSE] \in Latches
    BY <1>1 DEF Latches
  <2> QED
    BY <1>1, <2>1, <2>2 DEF IntFUStage, result
<1>5. (ProgramTypes /\ FrontTypes /\ UnitTypes /\ MAUTypes /\ ArchTypes /\ FileTypes)'
  BY <1>4 DEF IntFUStage, TypeInv, ProgramTypes, FrontTypes, UnitTypes, MAUTypes,
              ArchTypes, FileTypes, Stages, frontVars, memVars, prfVars
<1>6. (RenameTypes /\ QueueTypes /\ LSQTypes /\ RoBTypes /\ BTBTypes /\ ForwardingTypes)'
  BY <1>4 DEF IntFUStage, TypeInv, RenameTypes, QueueTypes, LSQTypes, RoBTypes, BTBTypes,
              ForwardingTypes, freeVars, iqVars, lsqVars, robVars, btbVars, afuVars,
              redirectVars
<1> QED
  BY <1>5, <1>6 DEF TypeInv

\* C's % by a queue's size gives an index of it, for a pointer of at least -1.
LEMMA AdvanceType ==
  ASSUME NEW size \in Nat \ {0}, NEW tail \in Int PROVE Advance(tail, size) \in 0 .. size - 1
BY DEF Advance

\* Waking up and selecting keeps the types of the latches and the issue queue.
LEMMA TypeInvWakeUp ==
  ASSUME TypeInv, NEW established \in IQType, WakeUp(established)
  PROVE  /\ execute_IntFU' \in Latches /\ execute_MulFU' \in Latches
         /\ execute_AFU' \in Latches /\ issueQueue' \in IQType
<1>1. /\ execute_IntFU \in Latches /\ execute_MulFU \in Latches /\ execute_AFU \in Latches
      /\ bus \in BusType
  BY DEF TypeInv, UnitTypes, ForwardingTypes
<1> DEFINE woken == WokenIQ(established, bus)
           intSlot == SelectedSlot(woken, IntFUTimes(woken))
           afterInt == Issued(woken, intSlot)
           mulSlot == IF MulFUFree THEN SelectedSlot(afterInt, MulFUTimes(afterInt)) ELSE -1
           afterMul == Issued(afterInt, mulSlot)
           afuSlot == SelectedSlot(afterMul, AFUTimes(afterMul))
<1>2. /\ execute_IntFU' = Received(execute_IntFU, woken, intSlot)
      /\ execute_MulFU' = Received(execute_MulFU, afterInt, mulSlot)
      /\ execute_AFU' = Received(execute_AFU, afterMul, afuSlot)
      /\ issueQueue' = Issued(afterMul, afuSlot)
  BY DEF WakeUp
<1>3. woken \in IQType /\ intSlot \in IQSlots \cup {-1}
  BY <1>1, WokenIQType, SelectedSlotType
<1> HIDE DEF woken, intSlot
<1>4. afterInt \in IQType /\ mulSlot \in IQSlots \cup {-1}
  BY <1>3, IssuedType, SelectedSlotType
<1> HIDE DEF afterInt, mulSlot
<1>5. afterMul \in IQType /\ afuSlot \in IQSlots \cup {-1}
  BY <1>4, IssuedType, SelectedSlotType
<1> HIDE DEF afterMul, afuSlot
<1> QED
  BY <1>1, <1>2, <1>3, <1>4, <1>5, IssuedType, ReceivedType

\* Delivering an address or a target keeps the types of the LSQ and the branch queue.
LEMMA TypeInvDeliver ==
  ASSUME TypeInv, NEW bq \in BQType, NEW q \in LSQType, NEW tail, DeliverAddresses(bq, q, tail)
  PROVE  lsq' \in LSQType /\ AFU_address' \in Int /\ execute_BFU' \in Latches
         /\ branchQueue' \in BQType
<1>1. AFU_address \in Int /\ AFU_pc \in Int /\ bus \in BusType /\ execute_BFU \in Latches
  BY DEF TypeInv, ForwardingTypes, UnitTypes
<1> DEFINE addressed == AddressedSlot(q, tail, AFU_address, AFU_pc)
           address == IF addressed = -1 THEN AFU_address ELSE -1
           targeted == TargetedBQ(bq, address, AFU_pc)
           bfuSlot == BFUSlot(targeted)
<1>2. /\ lsq' = UpdatedLSQ(q, tail, AFU_address, AFU_pc, bus)
      /\ AFU_address' = address
      /\ execute_BFU' = IF bfuSlot = -1 THEN execute_BFU
                        ELSE [has_insn |-> TRUE, instr |-> targeted[bfuSlot].instr]
      /\ branchQueue' = IF bfuSlot = -1 THEN targeted
                        ELSE [targeted EXCEPT ![bfuSlot].issuedToBFU = TRUE]
  BY DEF DeliverAddresses
<1>3. address \in Int
  BY <1>1
<1> HIDE DEF address
<1>4. targeted \in BQType
  BY <1>3, TargetedBQType
<1>5. bfuSlot \in BQSlots \cup {-1}
  BY BFUSlotType
<1> HIDE DEF targeted, bfuSlot
<1>6. bfuSlot # -1 => [has_insn |-> TRUE, instr |-> targeted[bfuSlot].instr] \in Latches
  BY <1>4, <1>5 DEF BQType, BQEntries, Latches
<1>7. [targeted EXCEPT ![bfuSlot].issuedToBFU = TRUE] \in BQType
  BY <1>4 DEF BQType, BQEntries
<1> QED
  BY <1>1, <1>2, <1>3, <1>4, <1>6, <1>7, UpdatedLSQType

\* The issue queue stage keeps the types.
LEMMA TypeInvIssue == ASSUME TypeInv, RoBInv, IssueStage PROVE TypeInv'
<1> DEFINE i == issue_queue.instr
           has == issue_queue.has_insn
           isMemory == has /\ i.opcode \in MemoryOps
           isBranch == has /\ i.opcode \in BranchOps
           lsqTail == IF isMemory THEN Advance(LSQ_tail, LSQ_SIZE) ELSE LSQ_tail
           robTail == Advance(ROB_tail, ROB_SIZE)
           newIQ == IF has THEN EstablishIQ(issueQueue, i, issue_counter) ELSE issueQueue
           newBQ == IF isBranch THEN EstablishBQ(branchQueue, i) ELSE branchQueue
           newLSQ == IF isMemory THEN EstablishLSQ(lsq, lsqTail, i) ELSE lsq
<1>1. /\ issue_queue \in Latches /\ i \in Instrs /\ has \in BOOLEAN
      /\ issueQueue \in IQType /\ issue_counter \in Nat /\ branchQueue \in BQType
      /\ lsq \in LSQType /\ LSQ_tail \in Int /\ LSQ_tail < LSQ_SIZE /\ LSQ_size \in Int
      /\ RoB \in RoBType
  BY DEF TypeInv, FrontTypes, Latches, QueueTypes, LSQTypes, RoBTypes
<1>2. isMemory => lsqTail \in LSQSlots
  BY <1>1, AdvanceType, SlotSets DEF LSQSlots
<1>3. lsqTail \in Int /\ lsqTail < LSQ_SIZE
  BY <1>1, <1>2, SlotSets DEF LSQSlots
<1>4. robTail \in RoBSlots
  <2>1. ROB_tail \in Int
    BY ROBNotEmpty DEF RoBInv, RoBContiguous
  <2> QED
    BY <2>1, AdvanceType, SlotSets DEF RoBSlots
<1>5. /\ LSQ_tail' = lsqTail
      /\ LSQ_size' = IF isMemory THEN LSQ_size + 1 ELSE LSQ_size
      /\ RoB' = IF has THEN EstablishRoB(RoB, robTail, i, lsqTail) ELSE RoB
      /\ issue_counter' \in {issue_counter, issue_counter + 1}
      /\ WakeUp(newIQ)
      /\ DeliverAddresses(newBQ, newLSQ, lsqTail)
      /\ issue_queue' = [issue_queue EXCEPT !.has_insn = FALSE]
  BY DEF IssueStage
<1> HIDE DEF lsqTail, robTail
<1>6. newIQ \in IQType /\ newBQ \in BQType /\ newLSQ \in LSQType
  BY <1>1, <1>2, EstablishIQType, EstablishBQType, EstablishLSQType
<1>7. RoB' \in RoBType
  BY <1>1, <1>2, <1>4, <1>5, EstablishRoBType
<1> HIDE DEF newIQ, newBQ, newLSQ
<1>8. /\ execute_IntFU' \in Latches /\ execute_MulFU' \in Latches
      /\ execute_AFU' \in Latches /\ issueQueue' \in IQType
  BY <1>5, <1>6, TypeInvWakeUp
<1>9. lsq' \in LSQType /\ AFU_address' \in Int /\ execute_BFU' \in Latches
      /\ branchQueue' \in BQType
  BY <1>5, <1>6, TypeInvDeliver
<1>10. FrontTypes'
  <2>1. issue_queue' \in Latches
    BY <1>1, <1>5 DEF Latches
  <2> QED
    BY <2>1 DEF IssueStage, TypeInv, FrontTypes
<1>11. LSQTypes'
  <2>1. /\ LSQ_tail' \in Int /\ LSQ_tail' < LSQ_SIZE /\ LSQ_size' \in Int
    BY <1>1, <1>3, <1>5
  <2> QED
    BY <1>9, <2>1 DEF IssueStage, TypeInv, LSQTypes
<1>12. QueueTypes' /\ RoBTypes' /\ UnitTypes'
  BY <1>1, <1>5, <1>7, <1>8, <1>9 DEF IssueStage, TypeInv, QueueTypes, RoBTypes, UnitTypes
<1>13. (ProgramTypes /\ MAUTypes /\ ArchTypes /\ FileTypes)'
  BY DEF IssueStage, TypeInv, ProgramTypes, MAUTypes, ArchTypes, FileTypes, Stages, memVars,
         archVars, prfVars
<1>14. (RenameTypes /\ BTBTypes /\ ForwardingTypes)'
  BY <1>9 DEF IssueStage, TypeInv, RenameTypes, BTBTypes, ForwardingTypes, freeVars, btbVars,
              busVars, redirectVars
<1> QED
  BY <1>10, <1>11, <1>12, <1>13, <1>14 DEF TypeInv

\* Dispatch keeps the types.
LEMMA TypeInvDispatch == ASSUME TypeInv, DispatchStage PROVE TypeInv'
<1> DEFINE i == ReadPRF(PickUp(rename2_dispatch.instr, bus), physicalRegFile)
           room == RoomFor(i.opcode, issueQueue, ROB_size, LSQ_size)
<1>1. /\ rename2_dispatch \in StallLatches /\ issue_queue \in Latches
      /\ bus \in BusType /\ physicalRegFile \in PRFType
  BY DEF TypeInv, FrontTypes, ForwardingTypes, FileTypes
<1>2. i \in Instrs
  BY <1>1, PickUpType, ReadPRFType DEF StallLatches
<1>3. room \in BOOLEAN
  BY DEF RoomFor
<1> HIDE DEF i, room
<1>4. rename2_dispatch' \in StallLatches /\ issue_queue' \in Latches
  <2>1. /\ [rename2_dispatch EXCEPT !.has_insn = FALSE] \in StallLatches
        /\ [has_insn |-> FALSE, stall |-> ~room, instr |-> i] \in StallLatches
        /\ [has_insn |-> TRUE, instr |-> i] \in Latches
    BY <1>1, <1>2, <1>3 DEF StallLatches, Latches
  <2> QED
    BY <1>1, <2>1 DEF DispatchStage, i, room
<1>5. (ProgramTypes /\ FrontTypes /\ UnitTypes /\ MAUTypes /\ ArchTypes /\ FileTypes)'
  BY <1>4 DEF DispatchStage, TypeInv, ProgramTypes, FrontTypes, UnitTypes, MAUTypes,
              ArchTypes, FileTypes, Stages, exVars, memVars, archVars, prfVars
<1>6. (RenameTypes /\ QueueTypes /\ LSQTypes /\ RoBTypes /\ BTBTypes /\ ForwardingTypes)'
  BY DEF DispatchStage, TypeInv, RenameTypes, QueueTypes, LSQTypes, RoBTypes, BTBTypes,
         ForwardingTypes, freeVars, iqVars, lsqVars, robVars, btbVars, busVars, afuVars,
         redirectVars
<1> QED
  BY <1>5, <1>6 DEF TypeInv

\* Renaming leaves the opcode, and what the later steps look at, alone.
LEMMA OpcodeKept ==
  ASSUME NEW r \in RenamingType
  PROVE  /\ RenameDestination(r).instr.opcode = r.instr.opcode
         /\ RenamePointer(r).instr.opcode = r.instr.opcode
<1>1. \A i \in Instrs : /\ \A v : [i EXCEPT !.prev_pd = v].opcode = i.opcode
                        /\ \A v : [i EXCEPT !.prev_prs = v].opcode = i.opcode
                        /\ \A v : [i EXCEPT !.phyrd = v].opcode = i.opcode
                        /\ \A v : [i EXCEPT !.phyrs3 = v].opcode = i.opcode
  BY DEF Instrs
<1>2. \A i \in Instrs : \A v, w :
        /\ [[i EXCEPT !.prev_pd = v] EXCEPT !.phyrd = w].opcode = i.opcode
        /\ [[i EXCEPT !.prev_prs = v] EXCEPT !.phyrs3 = w].opcode = i.opcode
  BY DEF Instrs
<1>3. /\ r.instr \in Instrs /\ DOMAIN r = {"instr", "table", "list", "prf", "stall"}
  BY DEF RenamingType
<1>4. ASSUME NEW s, NEW base, NEW p, DOMAIN s = {"instr", "table", "list", "prf", "stall"}
      PROVE  HandOut(s, base, p).instr = s.instr
  BY <1>4 DEF HandOut
<1>5. RenameDestination(r).instr.opcode = r.instr.opcode
  <2> DEFINE p == HeadOfFree(r.list)
             pd == r.table[r.instr.rd]
             noted == [r EXCEPT !.instr.prev_pd = pd]
             given == [noted EXCEPT !.instr.phyrd = p]
  <2> HIDE DEF p, pd
  <2>1. /\ noted.instr = [r.instr EXCEPT !.prev_pd = pd]
        /\ [noted EXCEPT !.stall = TRUE].instr = noted.instr
        /\ given.instr = [noted.instr EXCEPT !.phyrd = p]
        /\ DOMAIN given = {"instr", "table", "list", "prf", "stall"}
    BY <1>3
  <2> HIDE DEF noted, given
  <2>2. noted.instr.opcode = r.instr.opcode /\ given.instr.opcode = r.instr.opcode
    BY <1>1, <1>2, <1>3, <2>1
  <2>3. RenameDestination(r) \in {r, noted, [noted EXCEPT !.stall = TRUE],
                                  HandOut(given, r.instr.rd, p)}
    BY DEF RenameDestination, noted, given, p, pd
  <2>4. HandOut(given, r.instr.rd, p).instr = given.instr
    BY <1>4, <2>1
  <2> QED
    BY <2>1, <2>2, <2>3, <2>4
<1>6. RenamePointer(r).instr.opcode = r.instr.opcode
  <2> DEFINE p == HeadOfFree(r.list)
             base == IF r.instr.opcode = "LOADP" THEN r.instr.rs1 ELSE r.instr.rs2
             prs == r.table[base]
             noted == [r EXCEPT !.instr.prev_prs = prs]
             given == [noted EXCEPT !.instr.phyrs3 = p]
             taken == [noted EXCEPT !.instr.phyrs3 = -1]
  <2> HIDE DEF p, prs, base
  <2>1. /\ noted.instr = [r.instr EXCEPT !.prev_prs = prs]
        /\ [noted EXCEPT !.stall = TRUE].instr = noted.instr
        /\ given.instr = [noted.instr EXCEPT !.phyrs3 = p]
        /\ taken.instr = [noted.instr EXCEPT !.phyrs3 = -1]
        /\ [taken EXCEPT !.table[base] = -1].instr = taken.instr
        /\ DOMAIN given = {"instr", "table", "list", "prf", "stall"}
    BY <1>3
  <2>2. [noted EXCEPT !.instr.phyrs3 = -1, !.table[base] = -1]
          = [taken EXCEPT !.table[base] = -1]
    OBVIOUS
  <2> HIDE DEF noted, given, taken
  <2>3. /\ noted.instr.opcode = r.instr.opcode /\ given.instr.opcode = r.instr.opcode
        /\ taken.instr.opcode = r.instr.opcode
    BY <1>1, <1>2, <1>3, <2>1
  <2>4. RenamePointer(r) \in {r, HandOut(given, base, p), [noted EXCEPT !.stall = TRUE],
                              [taken EXCEPT !.table[base] = -1]}
    BY <2>2 DEF RenamePointer, noted, given, p, prs, base
  <2>5. HandOut(given, base, p).instr = given.instr
    BY <1>4, <2>1
  <2> QED
    BY <2>1, <2>3, <2>4, <2>5
<1> QED
  BY <1>5, <1>6

\* Looking the sources up in the rename table leaves an instruction record.
LEMMA LookedUpType ==
  ASSUME NEW i \in Instrs, renameTable \in TableType
  PROVE  LookedUp(i) \in Instrs /\ LookedUp(i).opcode = i.opcode
<1> DEFINE p1 == IF i.opcode \in Source1Ops THEN renameTable[i.rs1] ELSE i.phyrs1
           p2 == IF i.opcode \in Source2Ops THEN renameTable[i.rs2] ELSE i.phyrs2
<1>1. p1 \in Tags /\ p2 \in Tags
  BY InstrFields DEF TableType
<1>2. LookedUp(i) = [[i EXCEPT !.phyrs1 = p1] EXCEPT !.phyrs2 = p2]
  BY DEF LookedUp, Instrs
<1> HIDE DEF p1, p2
<1>3. [i EXCEPT !.phyrs1 = p1] \in Instrs
  BY <1>1, InstrUpdates
<1>4. [[i EXCEPT !.phyrs1 = p1] EXCEPT !.phyrs2 = p2] \in Instrs
  BY <1>1, <1>3, InstrUpdates
<1>5. [[i EXCEPT !.phyrs1 = p1] EXCEPT !.phyrs2 = p2].opcode = i.opcode
  BY DEF Instrs
<1> QED
  BY <1>2, <1>4, <1>5

\* Picking operands up does not change the operation.
LEMMA PickUpKeepsOpcode ==
  ASSUME NEW i \in Instrs, NEW lines \in BusType PROVE PickUp(i, lines).opcode = i.opcode
<1>1. ASSUME NEW j \in Instrs PROVE PickUp1(j, lines).opcode = j.opcode
  BY DEF PickUp1, Instrs
<1>2. ASSUME NEW j \in Instrs PROVE PickUp2(j, lines).opcode = j.opcode
  BY DEF PickUp2, Instrs
<1>3. PickUp1(i, lines) \in Instrs
  BY MatchingBusType, Source1Type DEF PickUp1
<1> QED
  BY <1>1, <1>2, <1>3 DEF PickUp

\* Decode keeps the types.
LEMMA TypeInvDecode == ASSUME TypeInv, DecodeStage PROVE TypeInv'
<1>1. /\ decode_rename1 \in StallLatches /\ rename2_dispatch \in StallLatches
      /\ bus \in BusType /\ physicalRegFile \in PRFType /\ ccRegFile \in CCFileType
      /\ freePhysicalRegList \in ListType /\ freeCCFlagsRegList \in CCListType
      /\ renameTable \in TableType /\ BTBEntry \in BTBType /\ btb_counter \in BTBSlots
  BY DEF TypeInv, FrontTypes, FileTypes, ForwardingTypes, RenameTypes, BTBTypes
<1> DEFINE Results == /\ decode_rename1' \in StallLatches /\ rename2_dispatch' \in StallLatches
                      /\ physicalRegFile' \in PRFType /\ ccRegFile' \in CCFileType
                      /\ freePhysicalRegList' \in ListType /\ freeCCFlagsRegList' \in CCListType
                      /\ renameTable' \in TableType
                      /\ BTBEntry' \in BTBType /\ btb_counter' \in BTBSlots
<1>2. ASSUME ~decode_rename1.has_insn PROVE Results
  BY <1>1, <1>2 DEF DecodeStage, freeVars, btbVars
<1>3. ASSUME decode_rename1.has_insn, DecodeInstruction PROVE Results
  <2> DEFINE i == PickUp(LookedUp(decode_rename1.instr), bus)
             stall == decode_rename1.stall \/ StallsBehind(i)
             r0 == Renaming(i, renameTable, freePhysicalRegList, physicalRegFile, stall)
             r2 == RenamePointer(RenameDestination(r0))
             r == RenameFlags(r2)
             proceeds == ~rename2_dispatch.stall
             setsFlags == i.opcode \in FlagOps
  <2>1. /\ renameTable' = r.table /\ freePhysicalRegList' = r.list /\ physicalRegFile' = r.prf
        /\ freeCCFlagsRegList' = IF setsFlags THEN WithoutHead(freeCCFlagsRegList)
                                 ELSE freeCCFlagsRegList
        /\ ccRegFile' = IF setsFlags THEN [ccRegFile EXCEPT ![r.instr.flag].valid = FALSE]
                        ELSE ccRegFile
        /\ decode_rename1' = [has_insn |-> ~proceeds, stall |-> r.stall, instr |-> r.instr]
        /\ rename2_dispatch' = IF proceeds
                               THEN [has_insn |-> TRUE, stall |-> r.stall, instr |-> r.instr]
                               ELSE rename2_dispatch
    BY <1>3 DEF DecodeInstruction
  <2>2. \/ /\ BTBEntry' = EstablishBTB(BTBEntry, btb_counter, i, rename2_dispatch.instr)
           /\ btb_counter' = NextCounter(BTBEntry, btb_counter, i, rename2_dispatch.instr)
        \/ UNCHANGED btbVars
    BY <1>3 DEF DecodeInstruction
  <2>3. i \in Instrs /\ i.opcode = decode_rename1.instr.opcode
    BY <1>1, LookedUpType, PickUpType, PickUpKeepsOpcode DEF StallLatches
  <2>4. /\ rename2_dispatch.instr \in Instrs /\ rename2_dispatch.stall \in BOOLEAN
        /\ decode_rename1.stall \in BOOLEAN /\ decode_rename1.instr \in Instrs
    BY <1>1 DEF StallLatches
  <2> HIDE DEF i
  <2>5. stall \in BOOLEAN
    OBVIOUS
  <2> HIDE DEF stall
  <2>6. r0 \in RenamingType /\ r0.instr = i
    BY <1>1, <2>3, <2>5 DEF Renaming, RenamingType, ListType
  <2> HIDE DEF r0
  <2>7. r2 \in RenamingType /\ r2.instr.opcode = i.opcode
    <3>1. RenameDestination(r0) \in RenamingType
      BY <2>6, RenameDestinationType
    <3> QED
      BY <2>6, <3>1, RenamePointerType, OpcodeKept
  <2> HIDE DEF r2
  <2>8. i.opcode \in FlagOps => freeCCFlagsRegList # << >>
    BY <1>3, <2>3 DEF DecodeStage, NoFreeCC
  <2>9. r \in RenamingType
    BY <1>1, <2>7, <2>8, RenameFlagsType DEF CCListType
  <2> HIDE DEF r
  <2>10. /\ r.table \in TableType /\ r.list \in ListType /\ r.prf \in PRFType
         /\ r.stall \in BOOLEAN /\ r.instr \in Instrs
    BY <2>9 DEF RenamingType, ListType
  <2>11. BTBEntry' \in BTBType /\ btb_counter' \in BTBSlots
    BY <1>1, <2>2, <2>3, <2>4, EstablishBTBType DEF btbVars
  <2>12. freeCCFlagsRegList' \in CCListType
    BY <1>1, <2>1, FreeListType, RegisterIndices DEF CCListType
  <2>13. ccRegFile' \in CCFileType
    BY <1>1, <2>1 DEF CCFileType
  <2>14. decode_rename1' \in StallLatches /\ rename2_dispatch' \in StallLatches
    BY <1>1, <2>1, <2>4, <2>10 DEF StallLatches
  <2> QED
    BY <2>1, <2>10, <2>11, <2>12, <2>13, <2>14
<1>4. Results
  BY <1>2, <1>3 DEF DecodeStage
<1>5. (ProgramTypes /\ FrontTypes /\ UnitTypes /\ MAUTypes /\ ArchTypes /\ FileTypes)'
  BY <1>4 DEF DecodeStage, TypeInv, ProgramTypes, FrontTypes, UnitTypes, MAUTypes,
              ArchTypes, FileTypes, Stages, exVars, memVars, archVars
<1>6. (RenameTypes /\ QueueTypes /\ LSQTypes /\ RoBTypes /\ BTBTypes /\ ForwardingTypes)'
  BY <1>4 DEF DecodeStage, TypeInv, RenameTypes, QueueTypes, LSQTypes, RoBTypes, BTBTypes,
              ForwardingTypes, iqVars, lsqVars, robVars, busVars, afuVars, redirectVars
<1> QED
  BY <1>5, <1>6 DEF TypeInv

\* Fetch keeps the types.
LEMMA TypeInvFetch == ASSUME TypeInv, FetchStage PROVE TypeInv'
<1>1. /\ code_memory \in Seq(Insns) /\ clock \in Nat
      /\ pc \in Int /\ fetch \in BOOLEAN /\ BFU_pc \in Int /\ BTBEntry \in BTBType
      /\ decode_rename1 \in StallLatches /\ rename2_dispatch \in StallLatches
      /\ issue_queue \in Latches
      /\ execute_IntFU \in Latches /\ execute_MulFU \in Latches
      /\ execute_AFU \in Latches /\ execute_BFU \in Latches
  BY DEF TypeInv, ProgramTypes, FrontTypes, UnitTypes, ForwardingTypes, BTBTypes
<1>2. Ticked \in Nat
  BY <1>1 DEF Ticked
<1> DEFINE Results == /\ stage' \in Stages /\ clock' \in Nat
                      /\ pc' \in Int /\ fetch' \in BOOLEAN /\ BFU_pc' \in Int
                      /\ decode_rename1' \in StallLatches /\ rename2_dispatch' \in StallLatches
                      /\ issue_queue' \in Latches
                      /\ execute_IntFU' \in Latches /\ execute_MulFU' \in Latches
                      /\ execute_AFU' \in Latches /\ execute_BFU' \in Latches
<1>3. ASSUME ~fetch PROVE Results
  BY <1>1, <1>2, <1>3 DEF FetchStage, Stages, frontVars
<1>4. ASSUME fetch PROVE FetchedInstr \in Instrs /\ DecodeAfterFetch \in StallLatches
  <2> DEFINE insn == code_memory[CodeIndex(pc) + 1]
             hit == LookUp(BTBEntry, pc) # -1
             taken == hit /\ PredictsTaken(BTBEntry[LookUp(BTBEntry, pc)])
  <2>1. insn \in Insns
    <3>1. CodeIndex(pc) \in 0 .. Len(code_memory) - 1
      BY <1>4 DEF FetchStage, InCode
    <3>2. Len(code_memory) \in Nat
      BY <1>1
    <3>3. CodeIndex(pc) + 1 \in 1 .. Len(code_memory)
      BY <3>1, <3>2
    <3> QED
      BY <1>1, <3>3
  <2>2. hit \in BOOLEAN /\ taken \in BOOLEAN
    BY DEF PredictsTaken
  <2> HIDE DEF insn, hit, taken
  <2>3. Fetched(pc, insn, hit, taken) \in Instrs
    BY <1>1, <2>1, <2>2, FetchedType
  <2>4. FetchedInstr \in Instrs
    BY <2>3 DEF FetchedInstr, insn, hit, taken
  <2> QED
    BY <1>1, <2>4 DEF DecodeAfterFetch, StallLatches
<1>5. ASSUME fetch, BFU_pc # -1 PROVE Results
  <2>1. /\ pc' = BFU_pc /\ fetch' = TRUE /\ BFU_pc' = -1
        /\ stage' = "squash" /\ clock' = clock /\ EmptyLatches
    BY <1>5 DEF FetchStage
  <2>2. decode_rename1' \in StallLatches /\ rename2_dispatch' \in StallLatches
    BY <1>1, <1>4, <1>5, <2>1 DEF EmptyLatches, StallLatches
  <2>3. /\ issue_queue' \in Latches /\ execute_IntFU' \in Latches /\ execute_MulFU' \in Latches
        /\ execute_AFU' \in Latches /\ execute_BFU' \in Latches
    BY <1>1, <2>1 DEF EmptyLatches, Latches
  <2> QED
    BY <1>1, <2>1, <2>2, <2>3 DEF Stages
<1>6. ASSUME fetch, BFU_pc = -1 PROVE Results
  <2>1. /\ pc' = IF decode_rename1.stall THEN pc ELSE PredictedPc(FetchedInstr)
        /\ fetch' = (FetchedInstr.opcode # "HALT")
        /\ decode_rename1' = DecodeAfterFetch
        /\ stage' = "commit" /\ clock' = Ticked
        /\ UNCHANGED <<rename2_dispatch, issue_queue, execute_IntFU, execute_MulFU,
                       execute_AFU, execute_BFU, BFU_pc>>
    BY <1>6 DEF FetchStage
  <2>2. PredictedPc(FetchedInstr) \in Int
    <3> DEFINE k == LookUp(BTBEntry, FetchedInstr.pc)
    <3>1. FetchedInstr.pc = pc
      BY DEF FetchedInstr, Fetched
    <3>2. FetchedInstr.taken => k # -1
      BY DEF FetchedInstr, Fetched
    <3>3. k \in BTBSlots \cup {-1}
      BY LookUpType
    <3>4. k # -1 => BTBEntry[k].target_pc \in Int
      BY <1>1, <3>3 DEF BTBType, BTBEntries
    <3> QED
      BY <1>1, <3>2, <3>4 DEF PredictedPc
  <2> QED
    BY <1>1, <1>2, <1>4, <1>6, <2>1, <2>2 DEF Stages
<1>7. Results
  BY <1>3, <1>5, <1>6
<1>8. (ProgramTypes /\ FrontTypes /\ UnitTypes /\ MAUTypes /\ ArchTypes /\ FileTypes)'
  BY <1>7 DEF FetchStage, TypeInv, ProgramTypes, FrontTypes, UnitTypes, MAUTypes,
              ArchTypes, FileTypes, memVars, archVars, prfVars
<1>9. (RenameTypes /\ QueueTypes /\ LSQTypes /\ RoBTypes /\ BTBTypes /\ ForwardingTypes)'
  BY <1>7 DEF FetchStage, TypeInv, RenameTypes, QueueTypes, LSQTypes, RoBTypes, BTBTypes,
              ForwardingTypes, freeVars, iqVars, lsqVars, robVars, btbVars, busVars, afuVars
<1> QED
  BY <1>8, <1>9 DEF TypeInv

\* One iteration of the squash keeps the types.
LEMMA TypeInvSquash == ASSUME TypeInv, RoBInv, SquashTail PROVE TypeInv'
<1> DEFINE entry == RoB[ROB_tail]
           i == entry.instr
           isMemory == i.opcode \in MemoryOps
<1>1. /\ RoB \in RoBType /\ freePhysicalRegList \in ListType
      /\ freeCCFlagsRegList \in CCListType /\ renameTable \in TableType
      /\ issueQueue \in IQType /\ branchQueue \in BQType /\ commit_ARF \in Instrs
      /\ lsq \in LSQType /\ LSQ_tail \in Int /\ LSQ_tail < LSQ_SIZE /\ LSQ_size \in Int
  BY DEF TypeInv, RoBTypes, RenameTypes, QueueTypes, ArchTypes, LSQTypes
<1>2. ROB_tail \in RoBSlots
  BY ROBNotEmpty DEF SquashTail, SquashContinues, RoBInv, RoBContiguous, RoBSlots
<1>3. i \in Instrs
  BY <1>1, <1>2 DEF RoBType, RoBEntries
<1>4. /\ RoB' = [RoB EXCEPT ![ROB_tail].established_bit = FALSE]
      /\ freePhysicalRegList' = SquashedPhysicalRegs(i, freePhysicalRegList)
      /\ freeCCFlagsRegList' = SquashedCC(i, freeCCFlagsRegList)
      /\ renameTable' = RestoredTable(i, renameTable)
      /\ issueQueue' = RemoveIQ(issueQueue, i.pc)
      /\ branchQueue' \in {RemoveBQ(branchQueue, i.pc), branchQueue}
      /\ lsq' \in {SquashLSQ(lsq, entry.lsq_index), lsq}
      /\ LSQ_size' \in {LSQ_size - 1, LSQ_size}
      /\ LSQ_tail' \in {Retreat(LSQ_tail, LSQ_SIZE), LSQ_tail}
  BY DEF SquashTail
<1>5. RoBTypes'
  <2>1. RoB' \in RoBType
    BY <1>1, <1>4, EntryUpdates DEF RoBType
  <2> QED
    BY <2>1 DEF SquashTail, TypeInv, RoBTypes
<1>6. LSQTypes'
  <2>1. SquashLSQ(lsq, entry.lsq_index) \in LSQType
    <3>1. \A e \in LSQEntries : [[e EXCEPT !.established_bit = FALSE]
                                   EXCEPT !.memory_address_valid = FALSE] \in LSQEntries
      BY LSQEntryUpdates
    <3>2. \A k : [[lsq EXCEPT ![k].established_bit = FALSE]
                     EXCEPT ![k].memory_address_valid = FALSE] \in LSQType
      <4>1. \A q \in LSQType : \A k : [q EXCEPT ![k].established_bit = FALSE] \in LSQType
        BY LSQEntryUpdates DEF LSQType
      <4>2. \A q \in LSQType : \A k : [q EXCEPT ![k].memory_address_valid = FALSE] \in LSQType
        BY LSQEntryUpdates DEF LSQType
      <4> QED
        BY <1>1, <4>1, <4>2
    <3> QED
      BY <3>2 DEF SquashLSQ
  <2>2. LSQ_tail' \in Int /\ LSQ_tail' < LSQ_SIZE /\ LSQ_size' \in Int
    BY <1>1, <1>4, PairsFit, RetreatType
  <2> QED
    BY <1>1, <1>4, <2>1, <2>2 DEF SquashTail, TypeInv, LSQTypes
<1>7. RenameTypes'
  BY <1>1, <1>3, <1>4, SquashedType, RestoredTableType DEF RenameTypes
<1>8. QueueTypes'
  BY <1>1, <1>4, RemoveIQType, RemoveBQType DEF SquashTail, TypeInv, QueueTypes
<1>9. (ProgramTypes /\ FrontTypes /\ UnitTypes /\ MAUTypes /\ ArchTypes /\ FileTypes)'
  BY DEF SquashTail, TypeInv, ProgramTypes, FrontTypes, UnitTypes, MAUTypes, ArchTypes,
         FileTypes, frontVars, exVars, memVars, archVars, prfVars
<1>10. (BTBTypes /\ ForwardingTypes)'
  BY DEF SquashTail, TypeInv, BTBTypes, ForwardingTypes, btbVars, busVars, afuVars, redirectVars
<1> QED
  BY <1>5, <1>6, <1>7, <1>8, <1>9, <1>10 DEF TypeInv

\* So does its end.
LEMMA TypeInvSquashEnds == ASSUME TypeInv, SquashEnds PROVE TypeInv'
<1>1. Ticked \in Nat
  BY DEF TypeInv, ProgramTypes, Ticked
<1>2. (ProgramTypes /\ FrontTypes /\ UnitTypes /\ MAUTypes /\ ArchTypes /\ FileTypes)'
  BY <1>1 DEF SquashEnds, TypeInv, ProgramTypes, FrontTypes, UnitTypes, MAUTypes, ArchTypes,
              FileTypes, Stages, frontVars, exVars, memVars, archVars, prfVars
<1>3. (RenameTypes /\ QueueTypes /\ LSQTypes /\ RoBTypes /\ BTBTypes /\ ForwardingTypes)'
  BY DEF SquashEnds, TypeInv, RenameTypes, QueueTypes, LSQTypes, RoBTypes, BTBTypes,
         ForwardingTypes, freeVars, iqVars, lsqVars, robVars, btbVars, busVars, afuVars
<1> QED
  BY <1>2, <1>3 DEF TypeInv

\* Every step keeps the types.
LEMMA TypeInvStep ==
  ASSUME TypeInv, RoBInv, BitwiseIsInt, [Next]_vars PROVE TypeInv'
<1>1. CASE CommitStage
  BY <1>1, TypeInvCommit
<1>2. CASE MAUStage
  BY <1>2, TypeInvMAU
<1>3. CASE MulFUStage
  BY <1>3, TypeInvMulFU
<1>4. CASE BFUStage
  BY <1>4, TypeInvBFU
<1>5. CASE AFUStage
  BY <1>5, TypeInvAFU
<1>6. CASE IntFUStage
  BY <1>6, TypeInvIntFU
<1>7. CASE IssueStage
  BY <1>7, TypeInvIssue
<1>8. CASE DispatchStage
  BY <1>8, TypeInvDispatch
<1>9. CASE DecodeStage
  BY <1>9, TypeInvDecode
<1>10. CASE FetchStage
  BY <1>10, TypeInvFetch
<1>11. CASE SquashTail
  BY <1>11, TypeInvSquash
<1>12. CASE SquashEnds
  BY <1>12, TypeInvSquashEnds
<1>13. CASE CommitBelowZero \/ MAUOutOfBounds \/ DecodeOutOfBounds \/ FetchOutOfBounds
  <2>1. BecomesUndefined
    BY <1>13 DEF CommitBelowZero, MAUOutOfBounds, DecodeOutOfBounds, FetchOutOfBounds
  <2>2. /\ UNCHANGED <<frontVars, exVars, archVars, memVars, freeVars, prfVars, renameTable,
                       iqVars, lsqVars, robVars, btbVars, busVars, afuVars, redirectVars>>
        /\ UNCHANGED <<code_memory, clock>> /\ stage' \in Stages
    BY <2>1 DEF BecomesUndefined, Stages
  <2> QED
    BY <2>2, TypeInvUnchanged
<1>14. CASE UNCHANGED vars
  <2>1. /\ UNCHANGED <<frontVars, exVars, archVars, memVars, freeVars, prfVars, renameTable,
                       iqVars, lsqVars, robVars, btbVars, busVars, afuVars, redirectVars>>
        /\ UNCHANGED <<code_memory, clock, stage>>
    BY <1>14 DEF vars
  <2>2. stage' \in Stages
    BY <2>1 DEF TypeInv, ProgramTypes
  <2> QED
    BY <2>1, <2>2, TypeInvUnchanged
<1> QED
  BY <1>1, <1>2, <1>3, <1>4, <1>5, <1>6, <1>7, <1>8, <1>9, <1>10, <1>11, <1>12, <1>13,
     <1>14 DEF Next

\* The types hold in every state of every run.
LEMMA TypeInvAlways == ASSUME BitwiseIsInt PROVE Spec => []TypeInv
<1>1. TypeInv /\ RoBInv /\ [Next]_vars => TypeInv'
  BY TypeInvStep
<1> QED
  BY <1>1, TypeInvInit, RoBInvAlways, PTL DEF Spec
=============================================================================
