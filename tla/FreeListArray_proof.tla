------------------------- MODULE FreeListArray_proof -------------------------
(***************************************************************************)
(* The array free list is a queue, for every number of registers.          *)
(***************************************************************************)
EXTENDS FreeListArray, TLAPS

\* The slots of the free list hold registers or -1.
THEOREM FreeListTypeOK == Spec => []TypeOK
<1>1. Init => TypeOK
  BY SizeAssumption DEF Init, TypeOK, Slots, Regs
<1>2. TypeOK /\ [Next]_flVars => TypeOK'
  <2> SUFFICES ASSUME TypeOK, [Next]_flVars PROVE TypeOK'
    OBVIOUS
  <2>1. CASE HeadOfFree
    BY <2>1, SizeAssumption DEF HeadOfFree, WithoutFirst, TypeOK, Slots, Regs
  <2>2. ASSUME NEW r \in Regs \cup {-1}, AddBack(r) PROVE TypeOK'
    BY <2>2, SizeAssumption DEF AddBack, TypeOK, Slots, Regs
  <2>3. CASE UNCHANGED flVars
    BY <2>3 DEF flVars, TypeOK
  <2> QED
    BY <2>1, <2>2, <2>3 DEF Next
<1> QED
  BY <1>1, <1>2, PTL DEF Spec

\* An array has at most one boundary between registers and -1.
LEMMA CountOfHoldsFirst ==
  ASSUME NEW a, NEW n \in 0 .. SIZE, HoldsFirst(a, n)
  PROVE  FreeCount(a) = n
<1>1. \A m \in 0 .. SIZE : HoldsFirst(a, m) => m = n
  <2> SUFFICES ASSUME NEW m \in 0 .. SIZE, HoldsFirst(a, m), m # n PROVE FALSE
    OBVIOUS
  <2>1. CASE m < n
    BY <2>1, SizeAssumption DEF HoldsFirst, Slots
  <2>2. CASE n < m
    BY <2>2, SizeAssumption DEF HoldsFirst, Slots
  <2> QED
    BY <2>1, <2>2, SizeAssumption
<1> QED
  BY <1>1 DEF FreeCount

\* One step of the boundary: a request moves it down, a return up, unless there is
\* nothing to move.
LEMMA BoundaryAfterRequest ==
  ASSUME TypeOK, NEW n \in 0 .. SIZE, HoldsFirst(freeList, n), HeadOfFree
  PROVE  /\ n = 0 => head' = -1 /\ freeList' = freeList
         /\ n > 0 => /\ HoldsFirst(freeList', n - 1)
                     /\ head' = freeList[0]
                     /\ \A k \in 0 .. n - 2 : freeList'[k] = freeList[k + 1]
<1>1. freeList[0] # -1 <=> n > 0
  BY SizeAssumption DEF HoldsFirst, Slots
<1>2. CASE n = 0
  BY <1>1, <1>2 DEF HeadOfFree
<1>3. CASE n > 0
  <2>1. freeList' = WithoutFirst
    BY <1>1, <1>3 DEF HeadOfFree
  <2>2. HoldsFirst(freeList', n - 1)
    BY <2>1, <1>3, SizeAssumption DEF HoldsFirst, WithoutFirst, Slots
  <2>3. \A k \in 0 .. n - 2 : freeList'[k] = freeList[k + 1]
    BY <2>1, <1>3, SizeAssumption DEF WithoutFirst, Slots
  <2> QED
    BY <2>2, <2>3, <1>3 DEF HeadOfFree
<1> QED
  BY <1>2, <1>3

\* A return to a list that is not full moves the boundary of its free registers up by one.
LEMMA BoundaryAfterReturn ==
  ASSUME TypeOK, NEW n \in 0 .. SIZE, HoldsFirst(freeList, n),
         NEW r \in Regs \cup {-1}, AddBack(r)
  PROVE  /\ r = -1 \/ n = SIZE => freeList' = freeList
         /\ r # -1 /\ n < SIZE =>
              /\ HoldsFirst(freeList', n + 1)
              /\ freeList'[n] = r
              /\ \A k \in 0 .. n - 1 : freeList'[k] = freeList[k]
<1>1. \A k \in Slots : StopsAt(k) <=> k = n
  BY SizeAssumption DEF StopsAt, HoldsFirst, Slots
<1>2. \A k \in Slots : freeList'[k] = IF k = n THEN r ELSE freeList[k]
  BY <1>1 DEF AddBack
<1>3. ASSUME r = -1 \/ n = SIZE PROVE freeList' = freeList
  <2>1. \A k \in Slots : freeList'[k] = freeList[k]
    BY <1>2, <1>3, SizeAssumption DEF HoldsFirst, Slots
  <2>2. freeList' \in [Slots -> Regs \cup {-1}]
    BY SizeAssumption DEF AddBack, TypeOK, Slots
  <2> QED
    BY <2>1, <2>2 DEF TypeOK
<1>4. ASSUME r # -1, n < SIZE
      PROVE  /\ HoldsFirst(freeList', n + 1)
             /\ freeList'[n] = r
             /\ \A k \in 0 .. n - 1 : freeList'[k] = freeList[k]
  BY <1>2, <1>4, SizeAssumption DEF HoldsFirst, Slots
<1> QED
  BY <1>3, <1>4

\* Registers are never hidden behind a -1 (headof_free_* would report an empty list).
THEOREM FreeListAtFront == Spec => []FreeAtFront
<1>1. Init => FreeAtFront
  <2> SUFFICES ASSUME Init PROVE HoldsFirst(freeList, SIZE)
    BY SizeAssumption DEF FreeAtFront
  <2> QED
    BY SizeAssumption DEF Init, HoldsFirst, Slots
<1>2. TypeOK /\ FreeAtFront /\ [Next]_flVars => FreeAtFront'
  <2> SUFFICES ASSUME TypeOK, FreeAtFront, [Next]_flVars PROVE FreeAtFront'
    OBVIOUS
  <2> PICK n \in 0 .. SIZE : HoldsFirst(freeList, n)
    BY DEF FreeAtFront
  <2>1. CASE HeadOfFree
    <3>1. CASE n = 0
      BY <2>1, <3>1, BoundaryAfterRequest DEF FreeAtFront
    <3>2. CASE n > 0
      <4>1. n - 1 \in 0 .. SIZE
        BY <3>2, SizeAssumption
      <4> QED
        BY <2>1, <3>2, <4>1, BoundaryAfterRequest DEF FreeAtFront
    <3> QED
      BY <3>1, <3>2
  <2>2. ASSUME NEW r \in Regs \cup {-1}, AddBack(r) PROVE FreeAtFront'
    <3>1. CASE r = -1 \/ n = SIZE
      BY <2>2, <3>1, BoundaryAfterReturn DEF FreeAtFront
    <3>2. CASE r # -1 /\ n < SIZE
      <4>1. n + 1 \in 0 .. SIZE
        BY <3>2, SizeAssumption
      <4> QED
        BY <2>2, <3>2, <4>1, BoundaryAfterReturn DEF FreeAtFront
    <3> QED
      BY <3>1, <3>2, SizeAssumption
  <2>3. CASE UNCHANGED flVars
    BY <2>3 DEF flVars, FreeAtFront
  <2> QED
    BY <2>1, <2>2, <2>3 DEF Next
<1> QED
  BY <1>1, <1>2, FreeListTypeOK, PTL DEF Spec

\* headof_free_* and addBackToFree*List implement the queue the pipeline is modelled with.
THEOREM FreeListRefines == Spec => RefinesFifo
<1>1. Init => Fifo!FifoInit
  <2> SUFFICES ASSUME Init PROVE Fifo!FifoInit
    OBVIOUS
  <2>1. HoldsFirst(freeList, SIZE)
    BY SizeAssumption DEF Init, HoldsFirst, Slots
  <2>2. FreeCount(freeList) = SIZE
    BY <2>1, CountOfHoldsFirst, SizeAssumption
  <2>3. \A k \in 1 .. SIZE : k - 1 \in Slots /\ freeList[k - 1] = k - 1
    BY SizeAssumption DEF Init, Slots
  <2>4. AsQueue(freeList) = [k \in 1 .. SIZE |-> k - 1]
    BY <2>2, <2>3 DEF AsQueue
  <2> QED
    BY <2>4 DEF Init, Fifo!FifoInit
<1>2. TypeOK /\ FreeAtFront /\ [Next]_flVars => [Fifo!FifoNext]_<<AsQueue(freeList), head>>
  <2> SUFFICES ASSUME TypeOK, FreeAtFront, [Next]_flVars
               PROVE  [Fifo!FifoNext]_<<AsQueue(freeList), head>>
    OBVIOUS
  <2> PICK n \in 0 .. SIZE : HoldsFirst(freeList, n)
    BY DEF FreeAtFront
  <2>0. FreeCount(freeList) = n
    BY CountOfHoldsFirst
  <2>a. AsQueue(freeList) \in Seq(Regs) /\ Len(AsQueue(freeList)) = n
    BY <2>0, SizeAssumption DEF AsQueue, HoldsFirst, TypeOK, Slots
  <2>1. CASE HeadOfFree
    <3>1. CASE n = 0
      BY <2>1, <2>a, <3>1, BoundaryAfterRequest
         DEF Fifo!FifoNext, Fifo!Request, Fifo!HeadOfFree, Fifo!WithoutHead
    <3>2. CASE n > 0
      <4>0. n - 1 \in 0 .. SIZE
        BY <3>2, SizeAssumption
      <4>1. FreeCount(freeList') = n - 1
        BY <2>1, <3>2, <4>0, BoundaryAfterRequest, CountOfHoldsFirst
      <4>2. head' = Head(AsQueue(freeList))
        BY <2>0, <2>1, <3>2, BoundaryAfterRequest DEF AsQueue
      <4>3. AsQueue(freeList') = Tail(AsQueue(freeList))
        BY <2>0, <2>1, <3>2, <4>1, BoundaryAfterRequest DEF AsQueue
      <4> QED
        BY <2>a, <3>2, <4>2, <4>3
           DEF Fifo!FifoNext, Fifo!Request, Fifo!HeadOfFree, Fifo!WithoutHead
    <3> QED
      BY <3>1, <3>2
  <2>2. ASSUME NEW r \in Regs \cup {-1}, AddBack(r) PROVE Fifo!FifoNext
    <3>0. head' = head /\ r \in -1 .. SIZE - 1
      BY <2>2, SizeAssumption DEF AddBack, Regs
    <3>1. CASE r = -1 \/ n = SIZE
      BY <2>2, <2>a, <3>0, <3>1, BoundaryAfterReturn, SizeAssumption
         DEF Fifo!FifoNext, Fifo!Return, Fifo!AddBack
    <3>2. CASE r # -1 /\ n < SIZE
      <4>0. n + 1 \in 0 .. SIZE
        BY <3>2, SizeAssumption
      <4>1. FreeCount(freeList') = n + 1
        BY <2>2, <3>2, <4>0, BoundaryAfterReturn, CountOfHoldsFirst
      <4>2. AsQueue(freeList') = Append(AsQueue(freeList), r)
        BY <2>0, <2>2, <3>2, <4>1, BoundaryAfterReturn DEF AsQueue
      <4> QED
        BY <2>a, <3>0, <3>2, <4>2, SizeAssumption
           DEF Fifo!FifoNext, Fifo!Return, Fifo!AddBack
    <3> QED
      BY <3>1, <3>2, SizeAssumption
  <2>3. CASE UNCHANGED flVars
    BY <2>3 DEF flVars, AsQueue
  <2> QED
    BY <2>1, <2>2, <2>3 DEF Next
<1> QED
  BY <1>1, <1>2, FreeListTypeOK, FreeListAtFront, PTL DEF Spec, RefinesFifo, Fifo!FifoSpec
=============================================================================
