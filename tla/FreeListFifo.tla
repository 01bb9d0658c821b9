---------------------------- MODULE FreeListFifo ----------------------------
(***************************************************************************)
(* What the pipeline relies on a free list for: registers are handed out   *)
(* in the order they were returned, and none that was not returned.        *)
(***************************************************************************)
EXTENDS ApexFreeList

CONSTANT SIZE

VARIABLES list,   \* the free registers, the next one to hand out first
          head    \* what the last request was answered with, -1 for "none free"

FifoInit == list = [k \in 1 .. SIZE |-> k - 1] /\ head = -1

Request == head' = HeadOfFree(list) /\ list' = WithoutHead(list)

\* -1 comes from a STOREP that found no register or an entry that was not renamed.
Return(r) == list' = AddBack(list, r, SIZE) /\ UNCHANGED head

FifoNext == Request \/ \E r \in -1 .. SIZE - 1 : Return(r)
FifoSpec == FifoInit /\ [][FifoNext]_<<list, head>>
=============================================================================
