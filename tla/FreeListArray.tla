---------------------------- MODULE FreeListArray ----------------------------
(***************************************************************************)
(* freePhysicalRegList and freeCCFlagsRegList: an array of registers whose *)
(* unused slots, all at the end, hold -1.  The two lists have the same     *)
(* code, with SIZE = PHYSICAL_REG_FILE_SIZE or CC_REG_FILE_SIZE.           *)
(***************************************************************************)
EXTENDS Integers, Sequences

CONSTANT SIZE

ASSUME SizeAssumption == SIZE \in Nat \ {0}

VARIABLES freeList, head

flVars == <<freeList, head>>

Slots == 0 .. SIZE - 1
Regs == 0 .. SIZE - 1

\* initializeFreeLists
Init == freeList = [k \in Slots |-> k] /\ head = -1

\* Seeded bug: the last slot keeps its register.
ShiftedDown == [k \in Slots |-> IF k < SIZE - 1 THEN freeList[k + 1] ELSE freeList[k]]

\* The loop that moves every register to the slot before it.
WithoutFirst == [k \in Slots |-> IF k < SIZE - 1 THEN freeList[k + 1] ELSE -1]

\* headof_free_physicalRegisters, headof_free_CCRegisters
HeadOfFree ==
  /\ head' = freeList[0]
  /\ freeList' = IF freeList[0] # -1 THEN WithoutFirst ELSE freeList

\* Seeded bug: the search runs from the end.
StopsAtFromEnd(k) == freeList[k] = -1 /\ \A j \in Slots : j > k => freeList[j] # -1

\* The slot the search loop of addBackToFree*List stops at.
StopsAt(k) == freeList[k] = -1 /\ \A j \in Slots : j < k => freeList[j] # -1

\* addBackToFreePhysicalList, addBackToFreeCCList
AddBack(r) ==
  /\ freeList' = [k \in Slots |-> IF StopsAt(k) THEN r ELSE freeList[k]]
  /\ UNCHANGED head

Next == HeadOfFree \/ \E r \in Regs \cup {-1} : AddBack(r)
Spec == Init /\ [][Next]_flVars

(***************************************************************************)
(* The list as a queue.                                                    *)
(***************************************************************************)
TypeOK == freeList \in [Slots -> Regs \cup {-1}] /\ head \in Regs \cup {-1}

\* Exactly the first n slots of a hold registers.
HoldsFirst(a, n) == \A k \in Slots : a[k] # -1 <=> k < n
FreeCount(a) == CHOOSE n \in 0 .. SIZE : HoldsFirst(a, n)
AsQueue(a) == [k \in 1 .. FreeCount(a) |-> a[k - 1]]

\* No register lies behind a -1, where headof_free_* would not find it again.
FreeAtFront == \E n \in 0 .. SIZE : HoldsFirst(freeList, n)

Fifo == INSTANCE FreeListFifo WITH list <- AsQueue(freeList), head <- head

\* The array hands registers out in the order they were given back, "-1" for none, and
\* loses only one returned to a full list: it is the queue of module ApexFreeList.
RefinesFifo == Fifo!FifoSpec
=============================================================================
