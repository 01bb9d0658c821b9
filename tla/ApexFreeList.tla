---------------------------- MODULE ApexFreeList ----------------------------
(***************************************************************************)
(* The free lists of physical and condition-code registers as the rest of  *)
(* the pipeline sees them: a queue holding at most size registers.  The    *)
(* array with -1 terminators that implements it is module FreeListArray.   *)
(***************************************************************************)
EXTENDS Integers, Sequences

\* headof_free_physicalRegisters, headof_free_CCRegisters
HeadOfFree(list) == IF list = << >> THEN -1 ELSE Head(list)

\* Seeded bug: the register handed out stays on the list.
WithHead(list) == list

WithoutHead(list) == IF list = << >> THEN list ELSE Tail(list)

\* addBackToFreePhysicalList, addBackToFreeCCList.  Writing -1 into the first -1
\* slot changes nothing, and with no -1 slot the register is dropped.
AddBack(list, r, size) ==
  IF r = -1 \/ Len(list) >= size THEN list ELSE Append(list, r)
=============================================================================
