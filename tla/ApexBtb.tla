------------------------------- MODULE ApexBtb -------------------------------
(***************************************************************************)
(* The branch target buffer (apex_btb.c).  The pair recent_outcomes[0..1]  *)
(* is the two-bit counter history = 2 * [0] + [1]; a hit predicts taken    *)
(* when history >= 2.                                                      *)
(***************************************************************************)
EXTENDS ApexTypes

EmptyBTBEntry == [branch_pc |-> 0, history |-> 3, target_pc |-> 0]
BTBEntries == [branch_pc : Int, history : 0 .. 3, target_pc : Int]

LookUp(btb, at) == FirstIndex({k \in BTBSlots : btb[k].branch_pc = at})
PredictsTaken(entry) == entry.history >= 2

InitialHistory(op) == IF op \in {"BNZ", "BP"} THEN 3 ELSE 0

\* Seeded bug: an entry the branch already has is not looked for.
EmptySlotOnly(btb, at) == FirstIndex({k \in BTBSlots : btb[k].branch_pc = 0})

\* establish_btb_entry and establish_btb_entry_bnz_bp: the slot they stop at.
SlotToEstablish(btb, at) ==
  FirstIndex({k \in BTBSlots : btb[k].branch_pc \in {0, at}})

\* The entry they write, and btb_is_full's, which takes the pc (and the hit flag)
\* from the dispatch latch, where the instruction before the branch is.
EstablishBTB(btb, counter, branch, inDispatch) ==
  LET k == SlotToEstablish(btb, branch.pc)
  IN  IF k # -1
      THEN IF branch.btb_hit THEN btb
           ELSE [btb EXCEPT ![k].branch_pc = branch.pc,
                            ![k].history = InitialHistory(branch.opcode)]
      ELSE IF inDispatch.btb_hit THEN btb
           ELSE [btb EXCEPT ![counter] = [branch_pc |-> inDispatch.pc, target_pc |-> 0,
                                          history |-> InitialHistory(branch.opcode)]]

NextCounter(btb, counter, branch, inDispatch) ==
  IF SlotToEstablish(btb, branch.pc) = -1 /\ ~inDispatch.btb_hit
  THEN (counter + 1) % BTB_SIZE ELSE counter

\* Seeded bug: decode stalls behind a branch that has an entry already.
StallsDecodeOnHit(btb, branch) == SlotToEstablish(btb, branch.pc) # -1

\* Decode stalls behind a branch it has just established an entry for.
StallsDecode(btb, branch) == SlotToEstablish(btb, branch.pc) # -1 /\ ~branch.btb_hit

(***************************************************************************)
(* branch_taken_flow and branch_not_taken_flow, for the branch in the BFU. *)
(***************************************************************************)
Trained(history, taken) ==
  IF taken THEN (IF history = 3 THEN 3 ELSE history + 1)
  ELSE (IF history = 0 THEN 0 ELSE history - 1)

ResolvedBTB(btb, branch, taken) ==
  LET k == LookUp(btb, branch.pc)
  IN  IF k = -1 THEN btb
      ELSE [btb EXCEPT ![k].target_pc = branch.target_address,
                       ![k].history = Trained(@, taken)]

\* Without an entry neither flow does anything, whatever the branch decided.
Redirects(btb, branch, taken) == LookUp(btb, branch.pc) # -1 /\ branch.taken # taken
\* Seeded bug: a branch that falls through is sent to its target.
RedirectToTarget(branch, taken) == branch.target_address

RedirectPc(branch, taken) ==
  IF taken THEN branch.target_address ELSE branch.pc + INCREMENTOR
=============================================================================
