--------------------------- MODULE ApexOrder_proof ---------------------------
(***************************************************************************)
(* Order in the execution core, for every program and every size: which    *)
(* entry of the BTB a branch gets, when memory is written and which        *)
(* instruction a function unit is given.                                   *)
(***************************************************************************)
EXTENDS ApexLSQ_proof

(***************************************************************************)
(* The branch target buffer is filled from its first slot, one branch to a *)
(* slot.                                                                   *)
(***************************************************************************)
\* A search loop passes over no index that satisfies its condition.
LEMMA FoundFirst ==
  ASSUME NEW S \in SUBSET Nat, NEW k \in S
  PROVE  FirstIndex(S) \in S /\ FirstIndex(S) <= k
<1>1. \E n \in S : \A j \in S : n <= j
  BY LeastElement
<1>2. FirstIndex(S) \in S /\ \A j \in S : FirstIndex(S) <= j
  BY <1>1 DEF FirstIndex
<1> QED
  BY <1>2

\* The empty slots come after all others, and no two others hold the same branch.
BTBOrdered(btb) ==
  /\ \A j, k \in BTBSlots : btb[j].branch_pc = 0 /\ j < k => btb[k].branch_pc = 0
  /\ \A j, k \in BTBSlots : btb[j].branch_pc = btb[k].branch_pc /\ j # k
                             => btb[j].branch_pc = 0

\* Entering a branch that finds a slot keeps the order.
LEMMA EstablishedInOrder ==
  ASSUME NEW btb \in BTBType, BTBOrdered(btb), NEW counter, NEW branch \in Instrs,
         NEW inDispatch, SlotToEstablish(btb, branch.pc) # -1
  PROVE  BTBOrdered(EstablishBTB(btb, counter, branch, inDispatch))
<1> DEFINE at == branch.pc
           S == {k \in BTBSlots : btb[k].branch_pc \in {0, at}}
           k == SlotToEstablish(btb, at)
           h == InitialHistory(branch.opcode)
           new == [btb EXCEPT ![k].branch_pc = at, ![k].history = h]
<1>1. S \in SUBSET Nat /\ BTBSlots \subseteq Nat
  BY SlotSets
<1>2. k \in S
  BY <1>1, Found DEF SlotToEstablish
<1>3. ASSUME NEW j \in BTBSlots, j < k PROVE btb[j].branch_pc # 0 /\ btb[j].branch_pc # at
  <2>1. j \in S => k <= j
    BY <1>1, FoundFirst DEF SlotToEstablish
  <2> QED
    BY <1>1, <1>2, <1>3, <2>1
<1>4. k \in BTBSlots /\ btb[k].branch_pc \in {0, at} /\ k \in Nat
  BY <1>1, <1>2
<1>5. EstablishBTB(btb, counter, branch, inDispatch) = IF branch.btb_hit THEN btb ELSE new
  BY DEF EstablishBTB
<1> HIDE DEF k, S, at, h
<1>6. \A j \in BTBSlots : new[j].branch_pc = IF j = k THEN at ELSE btb[j].branch_pc
  BY <1>4 DEF BTBType, BTBEntries
<1> HIDE DEF new
<1>7. \A j, m \in BTBSlots : btb[j].branch_pc = 0 /\ j < m => btb[m].branch_pc = 0
  BY DEF BTBOrdered
<1>8. \A j, m \in BTBSlots : btb[j].branch_pc = btb[m].branch_pc /\ j # m
                             => btb[j].branch_pc = 0
  BY DEF BTBOrdered
<1>9. ASSUME NEW j \in BTBSlots, NEW m \in BTBSlots, new[j].branch_pc = 0, j < m
      PROVE  new[m].branch_pc = 0
  <2>1. CASE j = k
    <3>1. at = 0 /\ btb[k].branch_pc = 0
      BY <1>4, <1>6, <1>9, <2>1
    <3> QED
      BY <1>4, <1>6, <1>7, <1>9, <2>1, <3>1
  <2>2. CASE j # k
    <3>1. btb[j].branch_pc = 0 /\ btb[m].branch_pc = 0
      BY <1>6, <1>7, <1>9, <2>2
    <3>2. j \in Nat /\ m \in Nat /\ ~(j < k)
      BY <1>1, <1>3, <3>1
    <3>3. m # k
      BY <1>4, <1>9, <3>2
    <3> QED
      BY <1>6, <3>1, <3>3
  <2> QED
    BY <2>1, <2>2
<1>10. ASSUME NEW m \in BTBSlots, m # k, btb[m].branch_pc = at PROVE at = 0
  <2>1. m \in Nat /\ ~(m < k)
    BY <1>1, <1>3, <1>10
  <2>2. k < m
    BY <1>4, <1>10, <2>1
  <2> QED
    BY <1>4, <1>7, <1>8, <1>10, <2>2
<1>11. ASSUME NEW j \in BTBSlots, NEW m \in BTBSlots,
              new[j].branch_pc = new[m].branch_pc, j # m
       PROVE  new[j].branch_pc = 0
  BY <1>6, <1>8, <1>10, <1>11
<1>12. BTBOrdered(new)
  BY <1>9, <1>11 DEF BTBOrdered
<1> QED
  BY <1>5, <1>12

\* Recording an outcome does not touch the branches' pcs.
LEMMA ResolvedInOrder ==
  ASSUME NEW btb \in BTBType, BTBOrdered(btb), NEW branch, NEW taken
  PROVE  BTBOrdered(ResolvedBTB(btb, branch, taken))
<1> DEFINE new == ResolvedBTB(btb, branch, taken)
<1>1. \A j \in BTBSlots : new[j].branch_pc = btb[j].branch_pc
  BY DEF ResolvedBTB, BTBType, BTBEntries
<1> HIDE DEF new
<1>2. BTBOrdered(new)
  BY <1>1 DEF BTBOrdered
<1> QED
  BY <1>2 DEF new

\* Picking operands up and looking sources up do not change which instruction it is.
LEMMA PcKept ==
  ASSUME NEW i \in Instrs, NEW lines \in BusType
  PROVE  PickUp(i, lines).pc = i.pc
<1>1. ASSUME NEW j \in Instrs PROVE PickUp1(j, lines).pc = j.pc
  BY DEF PickUp1, Instrs
<1>2. ASSUME NEW j \in Instrs PROVE PickUp2(j, lines).pc = j.pc
  BY DEF PickUp2, Instrs
<1>3. PickUp1(i, lines) \in Instrs
  BY MatchingBusType, Source1Type DEF PickUp1
<1> QED
  BY <1>1, <1>2, <1>3 DEF PickUp

\* Looking the sources up does not change which instruction it is.
LEMMA LookedUpKeepsPc == ASSUME NEW i \in Instrs PROVE LookedUp(i).pc = i.pc
BY DEF LookedUp, Instrs

\* Every step keeps the BTB's order, as long as decode finds an entry.
LEMMA BTBOrderedStep ==
  TypeInv /\ FindsEntry /\ BTBOrdered(BTBEntry) /\ [Next]_vars => BTBOrdered(BTBEntry)'
<1> SUFFICES ASSUME TypeInv, FindsEntry, BTBOrdered(BTBEntry), [Next]_vars
             PROVE  BTBOrdered(BTBEntry')
  BY DEF BTBOrdered
<1>1. BTBEntry \in BTBType /\ bus \in BusType /\ renameTable \in TableType
  BY DEF TypeInv, BTBTypes, ForwardingTypes, RenameTypes
<1>2. CASE DecodeStage /\ decode_rename1.has_insn
  <2> DEFINE i == PickUp(LookedUp(decode_rename1.instr), bus)
  <2>1. decode_rename1.instr \in Instrs
    BY DEF TypeInv, FrontTypes, StallLatches
  <2>2. /\ i \in Instrs /\ i.pc = decode_rename1.instr.pc
        /\ i.opcode = decode_rename1.instr.opcode
    BY <1>1, <2>1, LookedUpType, LookedUpKeepsPc, PickUpType, PcKept, PickUpKeepsOpcode
  <2>3. \/ /\ i.opcode \in ConditionalBranches
           /\ BTBEntry' = EstablishBTB(BTBEntry, btb_counter, i, rename2_dispatch.instr)
        \/ BTBEntry' = BTBEntry
    BY <1>2 DEF DecodeStage, DecodeInstruction, btbVars
  <2> HIDE DEF i
  <2>4. i.opcode \in ConditionalBranches => SlotToEstablish(BTBEntry, i.pc) # -1
    BY <1>2, <2>2 DEF FindsEntry, DecodeStage
  <2> QED
    BY <1>1, <2>2, <2>3, <2>4, EstablishedInOrder
<1>3. CASE BFUStage
  <2>1. \/ BTBEntry' = BTBEntry
        \/ \E taken \in BOOLEAN :
             BTBEntry' = ResolvedBTB(BTBEntry, execute_BFU.instr, taken)
    BY <1>3 DEF BFUStage, ResolveJump, ResolveConditional, ConditionHolds
  <2> QED
    BY <1>1, <2>1, ResolvedInOrder
<1>4. CASE UNCHANGED BTBEntry
  BY <1>4
<1>5. [Next]_vars => \/ (DecodeStage /\ decode_rename1.has_insn)
                     \/ BFUStage
                     \/ UNCHANGED BTBEntry
  BY DEF Next, vars, btbVars, CommitStage, CommitBelowZero, MAUStage, MAUOutOfBounds,
         MulFUStage, AFUStage, IntFUStage, IssueStage, DispatchStage, DecodeStage,
         DecodeOutOfBounds, FetchStage, FetchOutOfBounds, SquashTail, SquashEnds,
         BecomesUndefined
<1> QED
  BY <1>2, <1>3, <1>4, <1>5

\* No branch ever has two entries in the BTB, for any number of branches entered, hit,
\* resolved and squashed in any order, as long as establish_btb_entry and
\* establish_btb_entry_bnz_bp find a slot (behind a full BTB a wrong pc is entered).
THEOREM OneEntryEach ==
  ASSUME BitwiseIsInt PROVE Spec /\ []FindsEntry => []BTBUnique
<1>1. Init => BTBOrdered(BTBEntry)
  BY DEF Init, APEX_cpu_init, BTBOrdered, EmptyBTBEntry
<1>2. BTBOrdered(BTBEntry) => BTBUnique
  BY DEF BTBOrdered, BTBUnique
<1> QED
  BY <1>1, <1>2, BTBOrderedStep, TypeInvAlways, PTL DEF Spec

(***************************************************************************)
(* What is in the pipeline was fetched from the code memory.               *)
(***************************************************************************)
CodeOpcode(mem, at) == mem[CodeIndex(at) + 1].opcode
FromCode(mem, i) == i.opcode = CodeOpcode(mem, i.pc)

\* An established load-store entry is of a memory operation of the program, a STORE
\* exactly if that one is.
EntryFromCode(mem, e) ==
  e.established_bit => /\ CodeOpcode(mem, e.pc) \in MemoryOps
                       /\ e.LorS_bit = "STORE" <=> CodeOpcode(mem, e.pc) \in StoreOps

FrontFromCode ==
  /\ decode_rename1.has_insn => FromCode(code_memory, decode_rename1.instr)
  /\ rename2_dispatch.has_insn => FromCode(code_memory, rename2_dispatch.instr)
  /\ issue_queue.has_insn => FromCode(code_memory, issue_queue.instr)

RoBFromCode == \A k \in RoBSlots : k < ROB_size => FromCode(code_memory, RoB[k].instr)
LSQFromCode == \A k \in LSQSlots : EntryFromCode(code_memory, lsq[k])

CodeInv == FrontFromCode /\ RoBFromCode /\ LSQFromCode

\* Nothing writes to the code memory.
LEMMA CodeUnchanged == [Next]_vars => code_memory' = code_memory
BY DEF Next, vars, CommitStage, CommitBelowZero, MAUStage, MAUOutOfBounds, MulFUStage, BFUStage,
       AFUStage, IntFUStage, IssueStage, DispatchStage, DecodeStage, DecodeOutOfBounds,
       FetchStage, FetchOutOfBounds, SquashTail, SquashEnds, BecomesUndefined

\* Nothing is in flight at the start.
LEMMA CodeInvInit == Init => CodeInv
<1>1. \A k \in RoBSlots : ~(k < 0)
  BY SlotSets
<1> QED
  BY <1>1 DEF Init, APEX_cpu_init, CodeInv, FrontFromCode, RoBFromCode, LSQFromCode,
              EntryFromCode, EmptyStallLatch, EmptyLatch, EmptyLSQEntry

\* Operands change neither the operation nor the pc.
LEMMA ReadPRFKeeps ==
  ASSUME NEW i \in Instrs, NEW prf \in PRFType
  PROVE  ReadPRF(i, prf).pc = i.pc /\ ReadPRF(i, prf).opcode = i.opcode
<1>1. ASSUME NEW j \in Instrs
      PROVE  ReadPRF1(j, prf).pc = j.pc /\ ReadPRF1(j, prf).opcode = j.opcode
  BY DEF ReadPRF1, Instrs
<1>2. ASSUME NEW j \in Instrs
      PROVE  ReadPRF2(j, prf).pc = j.pc /\ ReadPRF2(j, prf).opcode = j.opcode
  BY DEF ReadPRF2, Instrs
<1>3. ReadPRF1(i, prf) \in Instrs
  <2>1. ASSUME PRFValid(prf, i.phyrs1) PROVE prf[i.phyrs1].data \in Int
    BY <2>1, InstrFields DEF PRFType, PRFValid, Tags
  <2> QED
    BY <2>1, Source1Type DEF ReadPRF1
<1> QED
  BY <1>1, <1>2, <1>3 DEF ReadPRF

\* Two instructions with the same pc and the same sources.
SameSources(i, j) == i.pc = j.pc /\ i.phyrs1 = j.phyrs1 /\ i.phyrs2 = j.phyrs2

\* Renaming a destination changes neither the pc nor the sources.
LEMMA RenamingKeepsPc ==
  ASSUME NEW r \in RenamingType
  PROVE  /\ SameSources(RenameDestination(r).instr, r.instr)
         /\ SameSources(RenamePointer(r).instr, r.instr)
<1>1. /\ r.instr \in Instrs /\ DOMAIN r = {"instr", "table", "list", "prf", "stall"}
  BY DEF RenamingType
<1>2. \A i, v, w : {"pc", "phyrs1", "phyrs2"} \subseteq DOMAIN i =>
        /\ SameSources([i EXCEPT !.prev_pd = v], i)
        /\ SameSources([i EXCEPT !.prev_prs = v], i)
        /\ SameSources([[i EXCEPT !.prev_pd = v] EXCEPT !.phyrd = w], i)
        /\ SameSources([[i EXCEPT !.prev_prs = v] EXCEPT !.phyrs3 = w], i)
  BY DEF SameSources
<1>3. {"pc", "phyrs1", "phyrs2"} \subseteq DOMAIN r.instr /\ SameSources(r.instr, r.instr)
  BY <1>1 DEF Instrs, SameSources
<1>4. ASSUME NEW s, NEW base, NEW p, DOMAIN s = {"instr", "table", "list", "prf", "stall"}
      PROVE  HandOut(s, base, p).instr = s.instr
  BY <1>4 DEF HandOut
<1>5. SameSources(RenameDestination(r).instr, r.instr)
  <2> DEFINE p == HeadOfFree(r.list)
             pd == r.table[r.instr.rd]
             noted == [r EXCEPT !.instr.prev_pd = pd]
             given == [noted EXCEPT !.instr.phyrd = p]
  <2> HIDE DEF p, pd
  <2>1. /\ noted.instr = [r.instr EXCEPT !.prev_pd = pd]
        /\ [noted EXCEPT !.stall = TRUE].instr = noted.instr
        /\ given.instr = [noted.instr EXCEPT !.phyrd = p]
        /\ DOMAIN given = {"instr", "table", "list", "prf", "stall"}
    BY <1>1
  <2> HIDE DEF noted, given
  <2>2. SameSources(noted.instr, r.instr) /\ SameSources(given.instr, r.instr)
    <3>1. given.instr = [[r.instr EXCEPT !.prev_pd = pd] EXCEPT !.phyrd = p]
      BY <2>1
    <3> QED
      BY <1>2, <1>3, <2>1, <3>1 DEF SameSources
  <2>3. RenameDestination(r) \in {r, noted, [noted EXCEPT !.stall = TRUE],
                                  HandOut(given, r.instr.rd, p)}
    BY DEF RenameDestination, noted, given, p, pd
  <2>4. HandOut(given, r.instr.rd, p).instr = given.instr
    BY <1>4, <2>1
  <2> QED
    BY <1>3, <2>1, <2>2, <2>3, <2>4
<1>6. SameSources(RenamePointer(r).instr, r.instr)
  <2> DEFINE p == HeadOfFree(r.list)
             base == IF r.instr.opcode = "LOADP" THEN r.instr.rs1 ELSE r.instr.rs2
             prs == r.table[base]
             noted == [r EXCEPT !.instr.prev_prs = prs]
             given == [noted EXCEPT !.instr.phyrs3 = p]
             taken == [noted EXCEPT !.instr.phyrs3 = -1]
  <2> HIDE DEF p, prs, base
  <2>1. /\ noted.instr = [r.instr EXCEPT !.prev_prs = prs]
        /\ [noted EXCEPT !.stall = TRUE].instr = noted.instr
        /\ given.instr = [noted.instr EXCEPT !.phyrs3 = p]
        /\ taken.instr = [noted.instr EXCEPT !.phyrs3 = -1]
        /\ [taken EXCEPT !.table[base] = -1].instr = taken.instr
        /\ DOMAIN given = {"instr", "table", "list", "prf", "stall"}
    BY <1>1
  <2>2. [noted EXCEPT !.instr.phyrs3 = -1, !.table[base] = -1]
          = [taken EXCEPT !.table[base] = -1]
    OBVIOUS
  <2> HIDE DEF noted, given, taken
  <2>3. /\ SameSources(noted.instr, r.instr) /\ SameSources(given.instr, r.instr)
        /\ SameSources(taken.instr, r.instr)
    <3>1. /\ given.instr = [[r.instr EXCEPT !.prev_prs = prs] EXCEPT !.phyrs3 = p]
          /\ taken.instr = [[r.instr EXCEPT !.prev_prs = prs] EXCEPT !.phyrs3 = -1]
      BY <2>1
    <3> QED
      BY <1>2, <1>3, <2>1, <3>1 DEF SameSources
  <2>4. RenamePointer(r) \in {r, HandOut(given, base, p), [noted EXCEPT !.stall = TRUE],
                              [taken EXCEPT !.table[base] = -1]}
    BY <2>2 DEF RenamePointer, noted, given, taken, p, prs, base
  <2>5. HandOut(given, base, p).instr = given.instr
    BY <1>4, <2>1
  <2> QED
    BY <1>3, <2>1, <2>3, <2>4, <2>5
<1> QED
  BY <1>5, <1>6

\* What decode sends on is what it was given, as far as the program is concerned.
LEMMA DecodeKeepsCode ==
  ASSUME TypeInv, DecodeStage
  PROVE  \A latch \in {decode_rename1', rename2_dispatch'} :
           latch.has_insn => \/ rename2_dispatch.has_insn /\ latch = rename2_dispatch
                             \/ /\ decode_rename1.has_insn
                                /\ latch.instr.pc = decode_rename1.instr.pc
                                /\ latch.instr.opcode = decode_rename1.instr.opcode
<1>1. CASE ~decode_rename1.has_insn
  BY <1>1 DEF DecodeStage
<1>2. CASE decode_rename1.has_insn
  <2> DEFINE i == PickUp(LookedUp(decode_rename1.instr), bus)
             stall == decode_rename1.stall \/ StallsBehind(i)
             r0 == Renaming(i, renameTable, freePhysicalRegList, physicalRegFile, stall)
             r1 == RenameDestination(r0)
             r2 == RenamePointer(r1)
             r == RenameFlags(r2)
             proceeds == ~rename2_dispatch.stall
  <2>1. /\ decode_rename1' = [has_insn |-> ~proceeds, stall |-> r.stall, instr |-> r.instr]
        /\ rename2_dispatch' = IF proceeds
                               THEN [has_insn |-> TRUE, stall |-> r.stall, instr |-> r.instr]
                               ELSE rename2_dispatch
    BY <1>2 DEF DecodeStage, DecodeInstruction
  <2>2. /\ decode_rename1 \in StallLatches /\ bus \in BusType /\ physicalRegFile \in PRFType
        /\ freePhysicalRegList \in ListType /\ renameTable \in TableType
    BY DEF TypeInv, FrontTypes, FileTypes, ForwardingTypes, RenameTypes
  <2>3. decode_rename1.instr \in Instrs /\ decode_rename1.stall \in BOOLEAN
    BY <2>2 DEF StallLatches
  <2>4. /\ i \in Instrs /\ i.pc = decode_rename1.instr.pc
        /\ i.opcode = decode_rename1.instr.opcode
    BY <2>2, <2>3, LookedUpType, LookedUpKeepsPc, PickUpType, PcKept, PickUpKeepsOpcode
  <2> HIDE DEF i
  <2>5. stall \in BOOLEAN
    BY <2>3 DEF StallsBehind, StallsDecode
  <2> HIDE DEF stall
  <2>6. r0 \in RenamingType /\ r0.instr = i
    BY <2>2, <2>4, <2>5 DEF Renaming, RenamingType, ListType
  <2> HIDE DEF r0
  <2>7. r1 \in RenamingType /\ r1.instr.pc = i.pc /\ r1.instr.opcode = i.opcode
    BY <2>6, RenameDestinationType, OpcodeKept, RenamingKeepsPc DEF SameSources
  <2> HIDE DEF r1
  <2>8. r2 \in RenamingType /\ r2.instr.pc = i.pc /\ r2.instr.opcode = i.opcode
    BY <2>7, RenamePointerType, OpcodeKept, RenamingKeepsPc DEF SameSources
  <2> HIDE DEF r2
  <2>9. r.instr.pc = r2.instr.pc /\ r.instr.opcode = r2.instr.opcode
    <3>1. r2.instr \in Instrs /\ DOMAIN r2 = {"instr", "table", "list", "prf", "stall"}
      BY <2>8 DEF RenamingType
    <3> QED
      BY <3>1 DEF RenameFlags, Instrs
  <2> HIDE DEF r
  <2> QED
    BY <1>2, <2>1, <2>4, <2>8, <2>9
<1> QED
  BY <1>1, <1>2

\* The latches of the front end carry instructions of the program.
LEMMA FrontFromCodeStep ==
  CodeInv /\ TypeInv /\ [Next]_vars => FrontFromCode'
<1> SUFFICES ASSUME CodeInv, TypeInv, [Next]_vars PROVE FrontFromCode'
  OBVIOUS
<1> DEFINE Of(i) == FromCode(code_memory, i)
<1>1. code_memory' = code_memory
  BY CodeUnchanged
<1>2. /\ decode_rename1.has_insn => Of(decode_rename1.instr)
      /\ rename2_dispatch.has_insn => Of(rename2_dispatch.instr)
      /\ issue_queue.has_insn => Of(issue_queue.instr)
  BY DEF CodeInv, FrontFromCode
<1>3. SUFFICES /\ decode_rename1'.has_insn => Of(decode_rename1'.instr)
               /\ rename2_dispatch'.has_insn => Of(rename2_dispatch'.instr)
               /\ issue_queue'.has_insn => Of(issue_queue'.instr)
  BY <1>1 DEF FrontFromCode
<1>4. /\ decode_rename1 \in StallLatches /\ rename2_dispatch \in StallLatches
      /\ issue_queue \in Latches
  BY DEF TypeInv, FrontTypes
<1>5. CASE DecodeStage
  <2>1. issue_queue' = issue_queue
    BY <1>5 DEF DecodeStage
  <2>2. \A latch \in {decode_rename1', rename2_dispatch'} :
          latch.has_insn => Of(latch.instr)
    BY <1>2, <1>5, DecodeKeepsCode DEF FromCode
  <2> HIDE DEF Of
  <2> QED
    BY <1>2, <2>1, <2>2
<1>6. CASE DispatchStage
  <2> DEFINE i == ReadPRF(PickUp(rename2_dispatch.instr, bus), physicalRegFile)
  <2>1. decode_rename1' = decode_rename1
    BY <1>6 DEF DispatchStage
  <2>2. rename2_dispatch.instr \in Instrs /\ bus \in BusType /\ physicalRegFile \in PRFType
    BY <1>4 DEF StallLatches, TypeInv, FileTypes, ForwardingTypes
  <2>3. i.pc = rename2_dispatch.instr.pc /\ i.opcode = rename2_dispatch.instr.opcode
    BY <2>2, PickUpType, PcKept, PickUpKeepsOpcode, ReadPRFKeeps
  <2>4. ~rename2_dispatch'.has_insn
    BY <1>4, <1>6 DEF DispatchStage, StallLatches
  <2>5. \/ issue_queue' = issue_queue
        \/ rename2_dispatch.has_insn /\ issue_queue' = [has_insn |-> TRUE, instr |-> i]
    BY <1>6 DEF DispatchStage
  <2>6. rename2_dispatch.has_insn => Of(i)
    BY <1>2, <2>3 DEF FromCode
  <2> HIDE DEF Of, i
  <2> QED
    BY <1>2, <2>1, <2>4, <2>5, <2>6
<1>7. CASE FetchStage
  <2>1. fetch => FetchedInstr.opcode = CodeOpcode(code_memory, pc) /\ FetchedInstr.pc = pc
    BY DEF FetchedInstr, Fetched, CodeOpcode
  <2>2. \/ UNCHANGED <<decode_rename1, rename2_dispatch, issue_queue>>
        \/ fetch /\ EmptyLatches
        \/ /\ fetch /\ decode_rename1' = DecodeAfterFetch
           /\ UNCHANGED <<rename2_dispatch, issue_queue>>
    BY <1>7 DEF FetchStage, frontVars
  <2>3. CASE UNCHANGED <<decode_rename1, rename2_dispatch, issue_queue>>
    BY <1>2, <2>3
  <2>4. CASE EmptyLatches
    <3>1. DecodeAfterFetch \in [has_insn : BOOLEAN, stall : BOOLEAN,
                                instr : {decode_rename1.instr, FetchedInstr}]
      BY <1>4 DEF DecodeAfterFetch, StallLatches
    <3> QED
      BY <1>4, <2>4, <3>1 DEF EmptyLatches, StallLatches, Latches
  <2>5. CASE /\ fetch /\ decode_rename1' = DecodeAfterFetch
             /\ UNCHANGED <<rename2_dispatch, issue_queue>>
    <3>1. decode_rename1' = decode_rename1 \/ decode_rename1'.instr = FetchedInstr
      BY <2>5 DEF DecodeAfterFetch
    <3>2. Of(FetchedInstr)
      BY <2>1, <2>5 DEF FromCode
    <3> HIDE DEF Of
    <3> QED
      BY <1>2, <2>5, <3>1, <3>2
  <2> QED
    BY <2>2, <2>3, <2>4, <2>5
<1>8. CASE IssueStage
  <2>1. ~issue_queue'.has_insn /\ UNCHANGED <<decode_rename1, rename2_dispatch>>
    BY <1>4, <1>8 DEF IssueStage, Latches
  <2> QED
    BY <1>2, <2>1
<1>9. CASE UNCHANGED <<decode_rename1, rename2_dispatch, issue_queue>>
  BY <1>2, <1>9
<1>10. \/ DecodeStage \/ DispatchStage \/ FetchStage \/ IssueStage
       \/ UNCHANGED <<decode_rename1, rename2_dispatch, issue_queue>>
  BY DEF Next, vars, frontVars, CommitStage, CommitBelowZero, MAUStage, MAUOutOfBounds,
         MulFUStage, BFUStage, AFUStage, IntFUStage, DecodeOutOfBounds, FetchOutOfBounds,
         SquashTail, SquashEnds, BecomesUndefined
<1> QED
  BY <1>5, <1>6, <1>7, <1>8, <1>9, <1>10

\* A step leaves the entries of the reorder buffer where they are, moves them down one
\* place or puts the dispatched instruction behind them.
LEMMA RoBSteps ==
  ASSUME TypeInv, RoBInv, [Next]_vars, NEW k \in RoBSlots, k < ROB_size'
  PROVE  \/ k < ROB_size /\ RoB'[k].instr = RoB[k].instr
         \/ /\ stage = "commit" /\ delete_ROB_head
            /\ k + 1 \in RoBSlots /\ k + 1 < ROB_size /\ RoB'[k].instr = RoB[k + 1].instr
         \/ /\ issue_queue.has_insn /\ stage = "issue" /\ k = ROB_size
            /\ RoB'[k].instr = issue_queue.instr
<1>1. RoB \in RoBType /\ ROB_size \in 0 .. ROB_SIZE /\ k \in Nat
  BY SlotSets DEF TypeInv, RoBTypes, RoBInv, RoBContiguous
<1>2. CASE CommitStage /\ delete_ROB_head
  <2>1. /\ ROB_size \in 1 .. ROB_SIZE /\ ROB_tail = ROB_size - 1 /\ ROB_tail \in RoBSlots
    BY <1>2, ROBNotEmpty DEF CommitStage, DeletesBelowZero, RoBInv, RoBContiguous, RoBSlots
  <2>2. RoB' = DeleteRoBHead(RoB, ROB_tail) /\ ROB_size' = ROB_size - 1 /\ stage = "commit"
    BY <1>2 DEF CommitStage, RoBAtCommit
  <2>3. k < ROB_tail /\ k # ROB_tail /\ k + 1 \in RoBSlots /\ k + 1 < ROB_size
    BY <1>1, <2>1, <2>2, ROBNotEmpty DEF RoBSlots
  <2>4. Shifted(RoB, ROB_tail)[k] = RoB[k + 1] /\ DOMAIN Shifted(RoB, ROB_tail) = RoBSlots
    BY <1>1, <2>3 DEF Shifted, RoBType
  <2>5. RoB'[k] = RoB[k + 1]
    BY <2>2, <2>3, <2>4 DEF DeleteRoBHead
  <2> QED
    BY <1>2, <2>2, <2>3, <2>5
<1>3. CASE CommitStage /\ ~delete_ROB_head
  BY <1>3 DEF CommitStage, RoBAtCommit
<1>4. CASE IssueStage
  <2>1. CASE issue_queue.has_insn
    <3>1. /\ ROB_size' = ROB_size + 1 /\ stage = "issue"
          /\ \E l : RoB' = EstablishRoB(RoB, Advance(ROB_tail, ROB_SIZE), issue_queue.instr, l)
      BY <1>4, <2>1 DEF IssueStage
    <3>2. Advance(ROB_tail, ROB_SIZE) = ROB_size /\ ROB_size \in RoBSlots
      BY <2>1, NextRoBSlot
    <3>3. PICK l : RoB' = EstablishRoB(RoB, ROB_size, issue_queue.instr, l)
      BY <3>1, <3>2
    <3>4. CASE k = ROB_size
      <4>1. RoB[k] \in RoBEntries
        BY <1>1 DEF RoBType
      <4>2. RoB'[k].instr = issue_queue.instr
        BY <1>1, <3>3, <3>4, <4>1 DEF EstablishRoB, RoBType, RoBEntries
      <4> QED
        BY <2>1, <3>1, <3>4, <4>2
    <3>5. CASE k # ROB_size
      <4>1. k < ROB_size
        BY <1>1, <3>1, <3>5
      <4>2. RoB'[k] = RoB[k]
        BY <1>1, <3>3, <3>5 DEF EstablishRoB, RoBType
      <4> QED
        BY <4>1, <4>2
    <3> QED
      BY <3>4, <3>5
  <2>2. CASE ~issue_queue.has_insn
    BY <1>4, <2>2 DEF IssueStage
  <2> QED
    BY <2>1, <2>2
<1>5. CASE SquashTail
  <2>1. RoB' = [RoB EXCEPT ![ROB_tail].established_bit = FALSE] /\ ROB_size' = ROB_size - 1
    BY <1>5 DEF SquashTail
  <2>2. RoB'[k].instr = RoB[k].instr
    <3>1. RoB[k] \in RoBEntries
      BY <1>1 DEF RoBType
    <3> QED
      BY <1>1, <2>1, <3>1 DEF RoBType, RoBEntries
  <2> QED
    BY <1>1, <2>1, <2>2
<1>6. CASE UNCHANGED <<RoB, ROB_size>>
  BY <1>6
<1>7. \/ CommitStage \/ IssueStage \/ SquashTail \/ UNCHANGED <<RoB, ROB_size>>
  BY DEF Next, vars, robVars, CommitBelowZero, MAUStage, MAUOutOfBounds,
         MulFUStage, BFUStage, AFUStage, IntFUStage, DispatchStage, DecodeStage,
         DecodeOutOfBounds, FetchStage, FetchOutOfBounds, SquashEnds, BecomesUndefined
<1> QED
  BY <1>2, <1>3, <1>4, <1>5, <1>6, <1>7

\* So does the reorder buffer.
LEMMA RoBFromCodeStep ==
  CodeInv /\ TypeInv /\ RoBInv /\ [Next]_vars => RoBFromCode'
<1> SUFFICES ASSUME CodeInv, TypeInv, RoBInv, [Next]_vars PROVE RoBFromCode'
  OBVIOUS
<1>1. code_memory' = code_memory
  BY CodeUnchanged
<1>2. SUFFICES ASSUME NEW k \in RoBSlots, k < ROB_size'
               PROVE  FromCode(code_memory, RoB'[k].instr)
  BY <1>1 DEF RoBFromCode
<1>3. /\ \A j \in RoBSlots : j < ROB_size => FromCode(code_memory, RoB[j].instr)
      /\ issue_queue.has_insn => FromCode(code_memory, issue_queue.instr)
  BY DEF CodeInv, FrontFromCode, RoBFromCode
<1>4. \/ k < ROB_size /\ RoB'[k].instr = RoB[k].instr
      \/ k + 1 \in RoBSlots /\ k + 1 < ROB_size /\ RoB'[k].instr = RoB[k + 1].instr
      \/ issue_queue.has_insn /\ RoB'[k].instr = issue_queue.instr
  BY <1>2, RoBSteps
<1> QED
  BY <1>2, <1>3, <1>4

\* Addresses and data do not change whether an entry is a load's or a store's, nor what it loads.
LEMMA UpdatedKeepsKind ==
  ASSUME NEW q \in LSQType, NEW tail, NEW address, NEW at, NEW lines, NEW k \in LSQSlots
  PROVE  /\ UpdatedLSQ(q, tail, address, at, lines)[k].LorS_bit = q[k].LorS_bit
         /\ UpdatedLSQ(q, tail, address, at, lines)[k].phyrd = q[k].phyrd
<1>1. ASSUME NEW e \in LSQEntries
      PROVE  /\ [e EXCEPT !.memory_address = address, !.memory_address_valid = TRUE].LorS_bit
                  = e.LorS_bit
             /\ [e EXCEPT !.memory_address = address, !.memory_address_valid = TRUE].phyrd
                  = e.phyrd
             /\ DOMAIN [e EXCEPT !.memory_address = address, !.memory_address_valid = TRUE]
                  = DOMAIN e
  BY DEF LSQEntries
<1>2. ASSUME NEW e, {"LorS_bit", "phyrd"} \subseteq DOMAIN e
      PROVE  /\ PickUpStoreData(e, lines).LorS_bit = e.LorS_bit
             /\ PickUpStoreData(e, lines).phyrd = e.phyrd
  BY <1>2 DEF PickUpStoreData
<1>3. q[k] \in LSQEntries /\ {"LorS_bit", "phyrd"} \subseteq DOMAIN q[k]
  BY DEF LSQType, LSQEntries
<1> DEFINE e == IF k = AddressedSlot(q, tail, address, at)
                THEN [q[k] EXCEPT !.memory_address = address, !.memory_address_valid = TRUE]
                ELSE q[k]
<1>4. UpdatedLSQ(q, tail, address, at, lines)[k] = IF k <= tail THEN PickUpStoreData(e, lines) ELSE e
  BY DEF UpdatedLSQ
<1>5. /\ e.LorS_bit = q[k].LorS_bit /\ e.phyrd = q[k].phyrd
      /\ {"LorS_bit", "phyrd"} \subseteq DOMAIN e
  BY <1>1, <1>3
<1> HIDE DEF e
<1> QED
  BY <1>2, <1>4, <1>5

\* Deleting the head leaves every established entry one of those there were.
LEMMA LSQDeletedEntries ==
  ASSUME NEW q \in LSQType, NEW tail \in LSQSlots, NEW k \in LSQSlots
  PROVE  \/ ~DeleteLSQHead(q, tail)[k].established_bit
         \/ \E j \in LSQSlots : DeleteLSQHead(q, tail)[k] = q[j]
<1> DEFINE s == Shifted(q, tail)
<1>1. /\ DOMAIN s = LSQSlots
      /\ \A j \in LSQSlots : s[j] = IF j < tail THEN q[j + 1] ELSE q[j]
  BY DEF Shifted, LSQType
<1>2. \A j \in LSQSlots : j < tail => j + 1 \in LSQSlots
  BY SlotSets DEF LSQSlots
<1>3. \A j \in LSQSlots : s[j] \in LSQEntries
  BY <1>1, <1>2 DEF LSQType
<1> HIDE DEF s
<1>4. CASE k = tail
  <2>1. {"established_bit", "src_data_valid", "pc"} \subseteq DOMAIN s[tail]
    BY <1>3 DEF LSQEntries
  <2>2. DeleteLSQHead(q, tail)[tail]
          = [s[tail] EXCEPT !.established_bit = FALSE, !.src_data_valid = FALSE, !.pc = 0]
    BY <1>1 DEF DeleteLSQHead, s
  <2> QED
    BY <1>4, <2>1, <2>2
<1>5. CASE k # tail
  <2>1. DeleteLSQHead(q, tail)[k] = s[k]
    BY <1>1, <1>5 DEF DeleteLSQHead, s
  <2> QED
    BY <1>1, <1>2, <2>1
<1> QED
  BY <1>4, <1>5

\* A step leaves each established load-store entry's pc, kind and register, or it is the
\* one the dispatched memory operation gets.
LEMMA LSQSteps ==
  ASSUME TypeInv, LSQInv, RoBInv, [Next]_vars, NEW k \in LSQSlots, lsq'[k].established_bit
  PROVE  \/ \E j \in LSQSlots : /\ lsq[j].established_bit
                                /\ lsq'[k].pc = lsq[j].pc
                                /\ lsq'[k].LorS_bit = lsq[j].LorS_bit
                                /\ lsq'[k].phyrd = lsq[j].phyrd
         \/ /\ issue_queue.has_insn /\ issue_queue.instr.opcode \in MemoryOps
            /\ lsq'[k].pc = issue_queue.instr.pc
            /\ lsq'[k].LorS_bit = "STORE" <=> issue_queue.instr.opcode \in StoreOps
            /\ issue_queue.instr.opcode \in LoadOps => lsq'[k].phyrd = issue_queue.instr.phyrd
<1>1. lsq \in LSQType
  BY DEF TypeInv, LSQTypes
<1>2. CASE CommitStage
  <2>1. lsq' = LSQAtCommit /\ ~DeletesBelowZero
    BY <1>2 DEF CommitStage
  <2>2. CASE ~delete_LSQ_head
    BY <2>1, <2>2 DEF LSQAtCommit
  <2>3. CASE delete_LSQ_head
    <3>1. LSQ_tail \in LSQSlots
      <4>1. ~(LSQ_tail < 0) /\ LSQ_tail \in -1 .. LSQ_SIZE - 1
        BY <2>1, <2>3, LSQBounds DEF DeletesBelowZero, LSQInv
      <4> QED
        BY <4>1, SlotSets DEF LSQSlots
    <3>2. lsq' = DeleteLSQHead(lsq, LSQ_tail)
      BY <2>1, <2>3 DEF LSQAtCommit
    <3>3. \E j \in LSQSlots : lsq'[k] = lsq[j]
      BY <1>1, <3>1, <3>2, LSQDeletedEntries
    <3> QED
      BY <3>3
  <2> QED
    BY <2>2, <2>3
<1>3. CASE IssueStage
  <2> DEFINE i == issue_queue.instr
             isMemory == issue_queue.has_insn /\ i.opcode \in MemoryOps
             lsqTail == IF isMemory THEN Advance(LSQ_tail, LSQ_SIZE) ELSE LSQ_tail
             newLSQ == IF isMemory THEN EstablishLSQ(lsq, lsqTail, i) ELSE lsq
  <2>1. lsq' = UpdatedLSQ(newLSQ, lsqTail, AFU_address, AFU_pc, bus)
    BY <1>3 DEF IssueStage, DeliverAddresses
  <2>2. isMemory => lsqTail = LSQ_size /\ LSQ_size \in LSQSlots
    BY NextLSQSlot
  <2>3. i \in Instrs
    BY DEF TypeInv, FrontTypes, Latches
  <2> HIDE DEF lsqTail
  <2>4. newLSQ \in LSQType
    BY <1>1, <2>2, <2>3, EstablishLSQType
  <2>5. /\ newLSQ[k].established_bit
        /\ lsq'[k].pc = newLSQ[k].pc /\ lsq'[k].LorS_bit = newLSQ[k].LorS_bit
        /\ lsq'[k].phyrd = newLSQ[k].phyrd
    BY <2>1, <2>4, UpdatedKeeps, UpdatedKeepsKind
  <2>6. CASE newLSQ[k] = lsq[k]
    BY <2>5, <2>6
  <2>7. CASE newLSQ[k] # lsq[k]
    <3>1. isMemory /\ newLSQ = EstablishLSQ(lsq, LSQ_size, i) /\ LSQ_size \in LSQSlots
      BY <2>2, <2>7
    <3>2. k = LSQ_size /\ newLSQ[k].pc = i.pc
      <4>1. /\ EstablishLSQ(lsq, LSQ_size, i)[LSQ_size].established_bit = TRUE
            /\ EstablishLSQ(lsq, LSQ_size, i)[LSQ_size].pc = i.pc
            /\ \A j \in LSQSlots \ {LSQ_size} : EstablishLSQ(lsq, LSQ_size, i)[j] = lsq[j]
        BY <1>1, <3>1, EstablishedLSQEntry
      <4> HIDE DEF newLSQ
      <4> QED
        BY <2>7, <3>1, <4>1
    <3>4. /\ newLSQ[k].LorS_bit = "STORE" <=> i.opcode \in StoreOps
          /\ i.opcode \in LoadOps => newLSQ[k].phyrd = i.phyrd
      <4> DEFINE fresh == [lsq[k] EXCEPT !.established_bit = TRUE, !.pc = i.pc,
                                         !.memory_address = 0, !.memory_address_valid = FALSE]
      <4>1. lsq[k] \in LSQEntries
        BY <1>1 DEF LSQType
      <4>2. DOMAIN fresh = DOMAIN lsq[k] /\ {"LorS_bit", "phyrd"} \subseteq DOMAIN lsq[k]
        BY <4>1 DEF LSQEntries
      <4>3. newLSQ[k] =
              IF i.opcode \in LoadOps
              THEN [fresh EXCEPT !.LorS_bit = "LOAD", !.src_data_valid = TRUE, !.phyrd = i.phyrd]
              ELSE [fresh EXCEPT !.LorS_bit = "STORE", !.src_tag = i.phyrs1,
                                 !.src_data_valid = i.phyrs1_valid,
                                 !.valueToStore = IF i.phyrs1_valid THEN i.phyrs1_value ELSE @]
        BY <1>1, <3>1, <3>2 DEF EstablishLSQ, LSQType
      <4> HIDE DEF fresh
      <4>4. newLSQ[k].LorS_bit = IF i.opcode \in LoadOps THEN "LOAD" ELSE "STORE"
        BY <4>2, <4>3
      <4>5. i.opcode \in LoadOps => newLSQ[k].phyrd = i.phyrd
        BY <4>2, <4>3
      <4> QED
        BY <3>1, <4>4, <4>5 DEF MemoryOps, LoadOps, StoreOps
    <3> QED
      BY <2>5, <3>1, <3>2, <3>4
  <2> QED
    BY <2>6, <2>7
<1>4. CASE SquashTail
  <2>1. \/ lsq' = lsq \/ \E index : lsq' = SquashLSQ(lsq, index)
    BY <1>4 DEF SquashTail
  <2>2. ASSUME NEW index, lsq' = SquashLSQ(lsq, index) PROVE lsq'[k] = lsq[k]
    <3>1. {"established_bit", "memory_address_valid"} \subseteq DOMAIN lsq[k]
      BY <1>1 DEF LSQType, LSQEntries
    <3>2. lsq'[k] = IF k = index
                    THEN [lsq[k] EXCEPT !.established_bit = FALSE, !.memory_address_valid = FALSE]
                    ELSE lsq[k]
      BY <1>1, <2>2 DEF SquashLSQ, LSQType
    <3> QED
      BY <3>1, <3>2
  <2>3. lsq'[k] = lsq[k]
    BY <2>1, <2>2
  <2> QED
    BY <2>3
<1>5. CASE lsq' = lsq
  BY <1>5
<1>6. \/ CommitStage \/ IssueStage \/ SquashTail \/ lsq' = lsq
  BY DEF Next, vars, lsqVars, CommitBelowZero, MAUStage, MAUOutOfBounds,
         MulFUStage, BFUStage, AFUStage, IntFUStage, DispatchStage, DecodeStage,
         DecodeOutOfBounds, FetchStage, FetchOutOfBounds, SquashEnds, BecomesUndefined
<1> QED
  BY <1>2, <1>3, <1>4, <1>5, <1>6

\* What is established in the load-store queue is of the program.
LEMMA LSQFromCodeStep ==
  CodeInv /\ TypeInv /\ LSQInv /\ RoBInv /\ [Next]_vars => LSQFromCode'
<1> SUFFICES ASSUME CodeInv, TypeInv, LSQInv, RoBInv, [Next]_vars PROVE LSQFromCode'
  OBVIOUS
<1>1. code_memory' = code_memory
  BY CodeUnchanged
<1> DEFINE Of(at) == CodeOpcode(code_memory, at)
<1>2. SUFFICES ASSUME NEW k \in LSQSlots, lsq'[k].established_bit
               PROVE  /\ Of(lsq'[k].pc) \in MemoryOps
                      /\ lsq'[k].LorS_bit = "STORE" <=> Of(lsq'[k].pc) \in StoreOps
  BY <1>1 DEF LSQFromCode, EntryFromCode
<1>3. \A j \in LSQSlots : lsq[j].established_bit =>
        /\ Of(lsq[j].pc) \in MemoryOps
        /\ lsq[j].LorS_bit = "STORE" <=> Of(lsq[j].pc) \in StoreOps
  BY DEF CodeInv, LSQFromCode, EntryFromCode
<1>4. issue_queue.has_insn => Of(issue_queue.instr.pc) = issue_queue.instr.opcode
  BY DEF CodeInv, FrontFromCode, FromCode
<1> HIDE DEF Of
<1>5. \/ \E j \in LSQSlots : /\ lsq[j].established_bit
                             /\ lsq'[k].pc = lsq[j].pc
                             /\ lsq'[k].LorS_bit = lsq[j].LorS_bit
      \/ /\ issue_queue.has_insn /\ issue_queue.instr.opcode \in MemoryOps
         /\ lsq'[k].pc = issue_queue.instr.pc
         /\ lsq'[k].LorS_bit = "STORE" <=> issue_queue.instr.opcode \in StoreOps
  BY <1>2, LSQSteps
<1> QED
  BY <1>3, <1>4, <1>5

\* Whatever is in flight has the opcode that the program has at its pc.
LEMMA CodeInvAlways == ASSUME BitwiseIsInt PROVE Spec => []CodeInv
<1>1. CodeInv /\ TypeInv /\ LSQInv /\ RoBInv /\ [Next]_vars => CodeInv'
  BY FrontFromCodeStep, RoBFromCodeStep, LSQFromCodeStep DEF CodeInv
<1> QED
  BY <1>1, CodeInvInit, TypeInvAlways, LSQInvAlways, RoBInvAlways, PTL DEF Spec

(***************************************************************************)
(* The BTB has an entry for every branch of a program that has no more     *)
(* conditional branches than the BTB has entries.                          *)
(***************************************************************************)
\* The program that runs is one of those the theorem is about.
InPrograms == code_memory \in Programs

\* The conditional branches of a program, by their index.
ConditionalAt(p) == {k \in DOMAIN p : p[k].opcode \in ConditionalBranches}

FewBranches == \A p \in Programs : Cardinality(ConditionalAt(p)) <= BTB_SIZE

\* Fetch stays on the boundaries of instructions.  Nothing in the code sees to that: the
\* index of an instruction is a quotient, so two pcs may name the same one.
FetchAligned == pc % 4 = 0

\* The pc of a conditional branch of the program.
OfBranch(mem, at) ==
  /\ at % 4 = 0 /\ CodeIndex(at) + 1 \in ConditionalAt(mem)

\* What decode works on and what the BTB holds are instructions of the program.
BranchesInv ==
  /\ \A latch \in {decode_rename1, rename2_dispatch} : latch.has_insn =>
       /\ latch.instr.pc % 4 = 0
       /\ CodeIndex(latch.instr.pc) + 1 \in DOMAIN code_memory
  /\ \A k \in BTBSlots : BTBEntry[k].branch_pc # 0 => OfBranch(code_memory, BTBEntry[k].branch_pc)
  /\ BTBOrdered(BTBEntry)

\* On the boundaries of instructions the index tells pcs apart.
LEMMA IndexTellsApart ==
  ASSUME NEW m \in Int, NEW n \in Int, m % 4 = 0, n % 4 = 0, CodeIndex(m) = CodeIndex(n)
  PROVE  m = n
<1>1. PICK x \in Int : m = 4 * x
  BY m = 4 * (m \div 4)
<1>2. PICK y \in Int : n = 4 * y
  BY n = 4 * (n \div 4)
<1>3. CodeIndex(4 * x) = x - 1000 /\ CodeIndex(4 * y) = y - 1000
  BY DEF CodeIndex, FIRST_PC
<1> QED
  BY <1>1, <1>2, <1>3

\* A branch without an entry of its own leaves one of the BTB's entries empty.
LEMMA EntryLeft ==
  ASSUME TypeInv, BranchesInv, NEW at \in Int, OfBranch(code_memory, at),
         Cardinality(ConditionalAt(code_memory)) <= BTB_SIZE
  PROVE  SlotToEstablish(BTBEntry, at) # -1
<1> SUFFICES ASSUME \A k \in BTBSlots : BTBEntry[k].branch_pc \notin {0, at}
             PROVE  FALSE
  <2>1. {k \in BTBSlots : BTBEntry[k].branch_pc \in {0, at}} \in SUBSET Nat
    BY SlotSets
  <2>2. ASSUME NEW k \in {j \in BTBSlots : BTBEntry[j].branch_pc \in {0, at}}
        PROVE  SlotToEstablish(BTBEntry, at) # -1
    BY <2>1, <2>2, FoundFirst DEF SlotToEstablish
  <2> QED
    BY <2>2
<1> DEFINE T == ConditionalAt(code_memory) \ {CodeIndex(at) + 1}
           f == [k \in BTBSlots |-> CodeIndex(BTBEntry[k].branch_pc) + 1]
<1>1. /\ IsFiniteSet(ConditionalAt(code_memory))
      /\ Cardinality(ConditionalAt(code_memory)) \in Nat
  <2>1. Len(code_memory) \in Nat /\ DOMAIN code_memory = 1 .. Len(code_memory)
    BY DEF TypeInv, ProgramTypes
  <2>2. IsFiniteSet(DOMAIN code_memory)
    BY <2>1, FS_Interval
  <2>3. ConditionalAt(code_memory) \in SUBSET DOMAIN code_memory
    BY DEF ConditionalAt
  <2> QED
    BY <2>2, <2>3, FS_Subset, FS_CardinalityType
<1>2. IsFiniteSet(T) /\ Cardinality(T) = Cardinality(ConditionalAt(code_memory)) - 1
  BY <1>1, FS_RemoveElement DEF OfBranch
<1>3. \A k \in BTBSlots : BTBEntry[k].branch_pc \in Int /\ OfBranch(code_memory, BTBEntry[k].branch_pc)
  BY DEF BranchesInv, TypeInv, BTBTypes, BTBType, BTBEntries
<1>4. \A k \in BTBSlots : f[k] \in T
  <2> SUFFICES ASSUME NEW k \in BTBSlots, CodeIndex(BTBEntry[k].branch_pc) + 1 = CodeIndex(at) + 1
               PROVE  FALSE
    BY <1>3 DEF OfBranch
  <2>1. CodeIndex(BTBEntry[k].branch_pc) \in Int /\ CodeIndex(at) \in Int
    BY <1>3 DEF CodeIndex, FIRST_PC
  <2>2. BTBEntry[k].branch_pc = at
    BY <1>3, <2>1, IndexTellsApart DEF OfBranch
  <2> QED
    BY <2>2
<1>5. ASSUME NEW j \in BTBSlots, NEW k \in BTBSlots, f[j] = f[k] PROVE j = k
  <2>1. CodeIndex(BTBEntry[j].branch_pc) \in Int /\ CodeIndex(BTBEntry[k].branch_pc) \in Int
    BY <1>3 DEF CodeIndex, FIRST_PC
  <2>2. CodeIndex(BTBEntry[j].branch_pc) = CodeIndex(BTBEntry[k].branch_pc)
    BY <1>5, <2>1
  <2>3. BTBEntry[j].branch_pc = BTBEntry[k].branch_pc
    BY <1>3, <2>2, IndexTellsApart DEF OfBranch
  <2> QED
    BY <2>3 DEF BranchesInv, BTBOrdered
<1> HIDE DEF T
<1>6. f \in Injection(BTBSlots, T)
  BY <1>4, <1>5 DEF Injection, IsInjective
<1>7. Cardinality(BTBSlots) <= Cardinality(T)
  BY <1>2, <1>6, FS_Injection
<1>8. Cardinality(BTBSlots) = BTB_SIZE
  BY FS_Interval, SizesAssumption DEF BTBSlots
<1> QED
  BY <1>1, <1>2, <1>7, <1>8, SizesAssumption

\* Decode, dispatch and fetch keep the latches on instructions of the program.
LEMMA AlignedStep ==
  ASSUME TypeInv, BranchesInv, FetchAligned, [Next]_vars,
         NEW latch, latch \in {decode_rename1', rename2_dispatch'}, latch.has_insn
  PROVE  latch.instr.pc % 4 = 0 /\ CodeIndex(latch.instr.pc) + 1 \in DOMAIN code_memory
<1>1. \A l \in {decode_rename1, rename2_dispatch} : l.has_insn =>
        l.instr.pc % 4 = 0 /\ CodeIndex(l.instr.pc) + 1 \in DOMAIN code_memory
  BY DEF BranchesInv
<1>2. decode_rename1 \in StallLatches /\ rename2_dispatch \in StallLatches
  BY DEF TypeInv, FrontTypes
<1>3. CASE DecodeStage
  <2>1. \/ rename2_dispatch.has_insn /\ latch = rename2_dispatch
        \/ decode_rename1.has_insn /\ latch.instr.pc = decode_rename1.instr.pc
    BY <1>3, DecodeKeepsCode
  <2> QED
    BY <1>1, <2>1
<1>4. CASE DispatchStage
  <2>1. decode_rename1' = decode_rename1 /\ ~rename2_dispatch'.has_insn
    BY <1>2, <1>4 DEF DispatchStage, StallLatches
  <2> QED
    BY <1>1, <2>1
<1>5. CASE FetchStage
  <2>1. \/ latch = decode_rename1 \/ latch = rename2_dispatch
        \/ fetch /\ latch = DecodeAfterFetch
    BY <1>2, <1>5 DEF FetchStage, EmptyLatches, DecodeAfterFetch, frontVars, StallLatches
  <2>2. ASSUME fetch, latch = DecodeAfterFetch, latch # decode_rename1
        PROVE  latch.instr.pc = pc /\ CodeIndex(pc) + 1 \in DOMAIN code_memory
    <3>1. latch.instr.pc = pc
      BY <2>2 DEF DecodeAfterFetch, FetchedInstr, Fetched
    <3>2. InCode(pc)
      BY <1>5, <2>2 DEF FetchStage
    <3> QED
      BY <3>1, <3>2 DEF InCode, TypeInv, ProgramTypes
  <2> QED
    BY <1>1, <2>1, <2>2 DEF FetchAligned
<1>6. CASE UNCHANGED <<decode_rename1, rename2_dispatch>>
  BY <1>1, <1>6
<1>7. \/ DecodeStage \/ DispatchStage \/ FetchStage
      \/ UNCHANGED <<decode_rename1, rename2_dispatch>>
  BY DEF Next, vars, frontVars, CommitStage, CommitBelowZero, MAUStage, MAUOutOfBounds,
         MulFUStage, BFUStage, AFUStage, IntFUStage, IssueStage, DecodeOutOfBounds,
         FetchOutOfBounds, SquashTail, SquashEnds, BecomesUndefined
<1> QED
  BY <1>3, <1>4, <1>5, <1>6, <1>7

\* The branches of the BTB are those that decode entered.
LEMMA BranchEntered ==
  ASSUME TypeInv, FindsEntry, [Next]_vars, NEW k \in BTBSlots
  PROVE  \/ BTBEntry'[k].branch_pc = BTBEntry[k].branch_pc
         \/ /\ decode_rename1.has_insn /\ decode_rename1.instr.opcode \in ConditionalBranches
            /\ BTBEntry'[k].branch_pc = decode_rename1.instr.pc
<1>1. BTBEntry \in BTBType /\ bus \in BusType /\ renameTable \in TableType
  BY DEF TypeInv, BTBTypes, ForwardingTypes, RenameTypes
<1>2. CASE DecodeStage /\ decode_rename1.has_insn
  <2> DEFINE i == PickUp(LookedUp(decode_rename1.instr), bus)
             s == SlotToEstablish(BTBEntry, i.pc)
             h == InitialHistory(i.opcode)
  <2>1. decode_rename1.instr \in Instrs
    BY DEF TypeInv, FrontTypes, StallLatches
  <2>2. /\ i \in Instrs /\ i.pc = decode_rename1.instr.pc
        /\ i.opcode = decode_rename1.instr.opcode
    BY <1>1, <2>1, LookedUpType, LookedUpKeepsPc, PickUpType, PcKept, PickUpKeepsOpcode
  <2>3. \/ /\ i.opcode \in ConditionalBranches
           /\ BTBEntry' = EstablishBTB(BTBEntry, btb_counter, i, rename2_dispatch.instr)
        \/ BTBEntry' = BTBEntry
    BY <1>2 DEF DecodeStage, DecodeInstruction, btbVars
  <2> HIDE DEF i
  <2>4. i.opcode \in ConditionalBranches => s # -1
    BY <1>2, <2>2 DEF FindsEntry, DecodeStage
  <2>5. i.opcode \in ConditionalBranches =>
          EstablishBTB(BTBEntry, btb_counter, i, rename2_dispatch.instr)
            = IF i.btb_hit THEN BTBEntry
              ELSE [BTBEntry EXCEPT ![s].branch_pc = i.pc, ![s].history = h]
    BY <2>4 DEF EstablishBTB
  <2> HIDE DEF s, h
  <2>6. LET new == [BTBEntry EXCEPT ![s].branch_pc = i.pc, ![s].history = h]
        IN  new[k].branch_pc \in {BTBEntry[k].branch_pc, i.pc}
    BY <1>1 DEF BTBType, BTBEntries
  <2> QED
    BY <1>2, <2>2, <2>3, <2>5, <2>6
<1>3. CASE BFUStage
  <2>1. \/ BTBEntry' = BTBEntry
        \/ \E taken \in BOOLEAN :
             BTBEntry' = ResolvedBTB(BTBEntry, execute_BFU.instr, taken)
    BY <1>3 DEF BFUStage, ResolveJump, ResolveConditional, ConditionHolds
  <2>2. ASSUME NEW taken
        PROVE  ResolvedBTB(BTBEntry, execute_BFU.instr, taken)[k].branch_pc = BTBEntry[k].branch_pc
    BY <1>1 DEF ResolvedBTB, BTBType, BTBEntries
  <2> QED
    BY <2>1, <2>2
<1>4. CASE UNCHANGED BTBEntry
  BY <1>4
<1>5. [Next]_vars => \/ (DecodeStage /\ decode_rename1.has_insn)
                     \/ BFUStage
                     \/ UNCHANGED BTBEntry
  BY DEF Next, vars, btbVars, CommitStage, CommitBelowZero, MAUStage, MAUOutOfBounds,
         MulFUStage, AFUStage, IntFUStage, IssueStage, DispatchStage, DecodeStage,
         DecodeOutOfBounds, FetchStage, FetchOutOfBounds, SquashTail, SquashEnds,
         BecomesUndefined
<1> QED
  BY <1>2, <1>3, <1>4, <1>5

\* A branch in decode is a conditional branch of the program, so an entry is left for it.
LEMMA BranchesFindEntry ==
  ASSUME TypeInv, CodeInv, BranchesInv, FewBranches, InPrograms
  PROVE  FindsEntry
<1> SUFFICES ASSUME decode_rename1.has_insn, decode_rename1.instr.opcode \in ConditionalBranches
             PROVE  SlotToEstablish(BTBEntry, decode_rename1.instr.pc) # -1
  BY DEF FindsEntry
<1>1. decode_rename1.instr.pc \in Int
  BY DEF TypeInv, FrontTypes, StallLatches, Instrs
<1>2. OfBranch(code_memory, decode_rename1.instr.pc)
  BY DEF CodeInv, FrontFromCode, FromCode, CodeOpcode, BranchesInv, OfBranch, ConditionalAt
<1> QED
  BY <1>1, <1>2, EntryLeft DEF FewBranches, InPrograms

\* Every step keeps the entries those of branches of the program, each in one entry.
LEMMA BranchesInvStep ==
  ASSUME TypeInv, CodeInv, BranchesInv, FindsEntry, FetchAligned, [Next]_vars
  PROVE  BranchesInv'
<1>1. code_memory' = code_memory
  BY CodeUnchanged
<1>2. BTBOrdered(BTBEntry)'
  BY BTBOrderedStep DEF BranchesInv
<1>3. \A latch \in {decode_rename1', rename2_dispatch'} : latch.has_insn =>
        latch.instr.pc % 4 = 0 /\ CodeIndex(latch.instr.pc) + 1 \in DOMAIN code_memory
  BY AlignedStep
<1>4. ASSUME NEW k \in BTBSlots, BTBEntry'[k].branch_pc # 0
      PROVE  OfBranch(code_memory, BTBEntry'[k].branch_pc)
  <2>1. CASE BTBEntry'[k].branch_pc = BTBEntry[k].branch_pc
    BY <1>4, <2>1 DEF BranchesInv
  <2>2. CASE /\ decode_rename1.has_insn /\ decode_rename1.instr.opcode \in ConditionalBranches
             /\ BTBEntry'[k].branch_pc = decode_rename1.instr.pc
    BY <2>2 DEF CodeInv, FrontFromCode, FromCode, CodeOpcode, BranchesInv, OfBranch, ConditionalAt
  <2> QED
    BY <2>1, <2>2, BranchEntered
<1> QED
  BY <1>1, <1>2, <1>3, <1>4 DEF BranchesInv, OfBranch

LEMMA BranchesInvInit == Init => BranchesInv
<1>1. Init => BTBOrdered(BTBEntry)
  BY DEF Init, APEX_cpu_init, BTBOrdered, EmptyBTBEntry
<1> QED
  BY <1>1 DEF Init, APEX_cpu_init, BranchesInv, EmptyBTBEntry, EmptyStallLatch

\* establish_btb_entry and establish_btb_entry_bnz_bp always find the branch's own entry or
\* an empty one, and no branch gets two, when the program has no more conditional branches
\* than the BTB has entries: btb_is_full, which enters the pc of another instruction, is
\* not reached, whatever is predicted, squashed and executed again.
THEOREM EveryBranchEnters ==
  ASSUME BitwiseIsInt, FewBranches
  PROVE  Spec /\ []FetchAligned => []FindsEntry /\ []BTBUnique
<1>1. Init => InPrograms
  BY DEF Init, InPrograms
<1>2. InPrograms /\ [Next]_vars => InPrograms'
  BY CodeUnchanged DEF InPrograms
<1>3. TypeInv /\ CodeInv /\ InPrograms /\ BranchesInv => FindsEntry
  BY BranchesFindEntry
<1>4. TypeInv /\ CodeInv /\ BranchesInv /\ FindsEntry /\ FetchAligned /\ [Next]_vars
      => BranchesInv'
  BY BranchesInvStep
<1>5. Spec /\ []FetchAligned => []FindsEntry
  BY <1>1, <1>2, <1>3, <1>4, BranchesInvInit, TypeInvAlways, CodeInvAlways, PTL DEF Spec
<1> QED
  BY <1>5, OneEntryEach, PTL

(***************************************************************************)
(* The memory unit works for the head of the reorder buffer.               *)
(***************************************************************************)
\* The head is the memory operation whose pc the MAU holds.
HeadIsInMAU ==
  /\ ROB_size > 0
  /\ RoB[0].instr.opcode \in MemoryOps
  /\ RoB[0].instr.pc = execute_MAU.pc

\* A STORE commits a cycle before the MAU writes it, and the head stays where it is until
\* the next cycle's commit.
MAUInv ==
  /\ execute_MAU.has_insn => HeadIsInMAU
  /\ stored_in_memory => HeadIsInMAU /\ ~delete_ROB_head
  /\ execute_MAU.has_insn /\ delete_ROB_head => stage \in {"MAU", "stopped", "undefined"}
  /\ delete_ROB_head /\ ROB_size > 0 /\ RoB[0].instr.opcode \in MemoryOps
       => RoB[0].instr.pc = execute_MAU.pc
  /\ delete_ROB_head /\ stage \notin {"squash", "commit", "undefined", "stopped"}
       => ROB_size > 0

\* The MAU starts empty.
LEMMA MAUInvInit == Init => MAUInv
BY DEF Init, APEX_cpu_init, MAUInv

\* A memory operation at the head of the reorder buffer is at the head of the LSQ.
LEMMA MemoryHeads ==
  ASSUME TypeInv, LSQInv, ROB_size > 0, RoB[0].instr.opcode \in MemoryOps
  PROVE  lsq[0].established_bit /\ lsq[0].pc = RoB[0].instr.pc
<1>1. 0 \in MemoryEntries
  BY SlotSets DEF MemoryEntries
<1>2. {j \in MemoryEntries : j < 0} = {}
  <2>1. \A j \in RoBSlots : ~(j < 0)
    BY SlotSets
  <2> QED
    BY <2>1 DEF MemoryEntries
<1>3. Rank(MemoryEntries, 0) = 0
  BY <1>2, FS_EmptySet DEF Rank
<1> QED
  BY <1>1, <1>3 DEF LSQInv, LSQContents

\* What the MAU starts is the head of the reorder buffer, a memory operation.
LEMMA StartsTheHead ==
  ASSUME CodeInv, RoBInv, StartsInFlight, stage = "MAU", MAUStarts
  PROVE  /\ ROB_size > 0 /\ RoB[0].instr.opcode \in MemoryOps
         /\ RoB[0].instr.pc = lsq[0].pc /\ lsq[0].pc # execute_MAU.pc
<1>1. ROB_size > 0
  BY SlotSets DEF StartsInFlight, RoBInv, RoBContiguous
<1>2. RoB[0].instr.pc = lsq[0].pc /\ lsq[0].pc # execute_MAU.pc /\ lsq[0].established_bit
  BY DEF MAUStarts, HeadsMatch
<1>3. RoB[0].instr.opcode \in MemoryOps
  BY <1>1, <1>2, SlotSets
     DEF CodeInv, RoBFromCode, LSQFromCode, FromCode, EntryFromCode
<1> QED
  BY <1>1, <1>2, <1>3

\* The MAU finishes its operation in its second cycle and starts none that has committed.
LEMMA MAUInvMAU ==
  ASSUME MAUInv, CodeInv, TypeInv, LSQInv, RoBInv, StartsInFlight, MAUStage
  PROVE  MAUInv'
<1>1. /\ stage = "MAU" /\ stage' = "MulFU"
      /\ stored_in_memory' = (stored_in_memory \/ MAUStarts)
      /\ execute_MAU' = [has_insn |-> MAUBusy /\ ~MAUCompletes,
                         pc |-> IF MAUStarts THEN lsq[0].pc ELSE execute_MAU.pc]
      /\ UNCHANGED <<RoB, ROB_size, delete_ROB_head>>
  BY DEF MAUStage, robVars
<1>2. CASE MAUStarts
  <2>1. /\ ROB_size > 0 /\ RoB[0].instr.opcode \in MemoryOps
        /\ RoB[0].instr.pc = lsq[0].pc /\ lsq[0].pc # execute_MAU.pc
    BY <1>1, <1>2, StartsTheHead
  <2>2. ~delete_ROB_head
    BY <2>1 DEF MAUInv
  <2>3. HeadIsInMAU'
    BY <1>1, <1>2, <2>1 DEF HeadIsInMAU
  <2> QED
    BY <1>1, <2>2, <2>3 DEF MAUInv
<1>3. CASE ~MAUStarts
  <2>1. ~execute_MAU'.has_insn
    <3>1. CASE execute_MAU.has_insn
      <4>1. HeadIsInMAU
        BY <3>1 DEF MAUInv
      <4>2. lsq[0].pc = RoB[0].instr.pc
        BY <4>1, MemoryHeads DEF HeadIsInMAU
      <4>3. MAULatency = 1
        BY <1>3, <4>1, <4>2 DEF MAULatency, HeadsMatch, HeadIsInMAU
      <4> QED
        BY <1>1, <4>3, <3>1 DEF MAUCompletes, MAUBusy
    <3>2. CASE ~execute_MAU.has_insn
      BY <1>1, <1>3, <3>2 DEF MAUBusy
    <3> QED
      BY <3>1, <3>2
  <2>2. execute_MAU'.pc = execute_MAU.pc /\ stored_in_memory' = stored_in_memory
    BY <1>1, <1>3 DEF TypeInv, MAUTypes
  <2>3. HeadIsInMAU => HeadIsInMAU'
    BY <1>1, <2>2 DEF HeadIsInMAU
  <2> QED
    BY <1>1, <2>1, <2>2, <2>3 DEF MAUInv
<1> QED
  BY <1>2, <1>3

\* A stage that leaves the reorder buffer and the MAU alone keeps the invariant.
LEMMA MAUInvUnchanged ==
  ASSUME MAUInv,
         UNCHANGED <<RoB, ROB_size, delete_ROB_head, execute_MAU, stored_in_memory>>,
         \/ stage' \in {stage, "undefined"}
         \/ stage \notin {"MAU", "stopped", "undefined", "squash", "commit"}
         \/ stage = "squash" /\ stage' = "commit"
  PROVE  MAUInv'
<1>1. HeadIsInMAU' <=> HeadIsInMAU
  BY DEF HeadIsInMAU
<1> QED
  BY <1>1 DEF MAUInv

\* A memory operation commits only once the MAU has it, and then it has no other.
LEMMA MAUInvCommit == ASSUME MAUInv, RoBInv, RoBInv', CommitStage PROVE MAUInv'
<1> DEFINE op == RoB'[0].instr.opcode
<1>1. /\ stage = "commit" /\ execute_MAU' = execute_MAU /\ RoB' = RoBAtCommit
      /\ ~delete_ROB_head => ROB_size' = ROB_size
  BY DEF CommitStage
<1>2. execute_MAU.has_insn \/ stored_in_memory => ~delete_ROB_head
  BY <1>1 DEF MAUInv
<1>3. ~delete_ROB_head => RoB' = RoB /\ ROB_size' = ROB_size
  BY <1>1 DEF RoBAtCommit
<1>4. /\ delete_ROB_head' => /\ RoB'[0].established_bit
                             /\ op \in MemoryOps => stored_in_memory
                             /\ stage' \in {"MAU", "stopped"}
      /\ stored_in_memory' => /\ stored_in_memory
                              /\ delete_ROB_head' => op \notin MemoryOps
  <2>1. CASE RoB'[0].established_bit
    <3> DEFINE i == RoBAtCommit[0].instr
               match == RoBAtCommit[0].instr.pc = LSQAtCommit[0].pc
    <3>1. CommitHead(i, match) /\ op = i.opcode
      BY <1>1, <2>1 DEF CommitStage
    <3> HIDE DEF i, match
    <3>2. i.opcode \in MemoryOps /\ CanCommit(i, match) => stored_in_memory
      BY DEF CanCommit, MemoryOps, LoadOps, StoreOps, Alu2Ops, AluLiteralOps
    <3>3. CASE CanCommit(i, match)
      BY <2>1, <3>1, <3>2, <3>3 DEF CommitHead, AfterCommit
    <3>4. CASE ~CanCommit(i, match)
      BY <3>1, <3>4 DEF CommitHead
    <3> QED
      BY <3>3, <3>4
  <2>2. CASE ~RoB'[0].established_bit
    BY <1>1, <2>2 DEF CommitStage
  <2> QED
    BY <2>1, <2>2
<1>5. delete_ROB_head' => ROB_size' > 0
  BY <1>4, SlotSets DEF RoBInv, RoBContiguous
<1>6. HeadIsInMAU /\ ~delete_ROB_head => HeadIsInMAU'
  BY <1>1, <1>3 DEF HeadIsInMAU
<1>7. stored_in_memory => op \in MemoryOps /\ RoB'[0].instr.pc = execute_MAU'.pc
  BY <1>1, <1>2, <1>3 DEF MAUInv, HeadIsInMAU
<1>8. execute_MAU'.has_insn => HeadIsInMAU'
  BY <1>1, <1>2, <1>6 DEF MAUInv
<1>9. stored_in_memory' => HeadIsInMAU' /\ ~delete_ROB_head'
  BY <1>2, <1>4, <1>6, <1>7 DEF MAUInv
<1> QED
  BY <1>4, <1>5, <1>7, <1>8, <1>9 DEF MAUInv

\* Dispatch leaves the head where it is.
LEMMA MAUInvIssue == ASSUME MAUInv, TypeInv, RoBInv, IssueStage, [Next]_vars PROVE MAUInv'
<1>1. /\ stage = "issue" /\ UNCHANGED <<execute_MAU, stored_in_memory, delete_ROB_head>>
      /\ ROB_size' \in {ROB_size, ROB_size + 1}
  BY DEF IssueStage, memVars
<1>2. ROB_size \in Nat
  BY DEF RoBInv, RoBContiguous
<1>3. ROB_size > 0 => ROB_size' > 0 /\ RoB'[0].instr = RoB[0].instr
  <2>1. ROB_size > 0 => ROB_size' > 0 /\ 0 # ROB_size
    BY <1>1, <1>2
  <2>2. 0 \in RoBSlots
    BY SlotSets
  <2> QED
    BY <1>1, <2>1, <2>2, RoBSteps
<1>4. HeadIsInMAU => HeadIsInMAU'
  BY <1>1, <1>3 DEF HeadIsInMAU
<1>5. delete_ROB_head => ROB_size > 0 /\ ~execute_MAU.has_insn
  BY <1>1 DEF MAUInv
<1> QED
  BY <1>1, <1>3, <1>4, <1>5 DEF MAUInv

\* The squash spares what the MAU has started.
LEMMA MAUInvSquash ==
  ASSUME MAUInv, TypeInv, RoBInv, SparesStarted, SquashTail, [Next]_vars PROVE MAUInv'
<1>1. /\ stage = "squash" /\ stage' = "squash"
      /\ UNCHANGED <<execute_MAU, stored_in_memory, delete_ROB_head>>
      /\ ROB_size' = ROB_size - 1 /\ SquashContinues
  BY DEF SquashTail, memVars
<1>2. ROB_size \in Nat
  BY DEF RoBInv, RoBContiguous
<1>3. ROB_size' > 0 => ROB_size > 0 /\ RoB'[0].instr = RoB[0].instr
  <2>1. ROB_size' > 0 => ROB_size > 0
    BY <1>1, <1>2
  <2>2. 0 \in RoBSlots
    BY SlotSets
  <2> QED
    BY <1>1, <2>1, <2>2, RoBSteps
<1>4. stored_in_memory \/ execute_MAU.has_insn => ROB_size' > 0
  BY <1>1, <1>2 DEF SparesStarted
<1>5. HeadIsInMAU /\ ROB_size' > 0 => HeadIsInMAU'
  BY <1>1, <1>3 DEF HeadIsInMAU
<1>6. ~(execute_MAU.has_insn /\ delete_ROB_head)
  BY <1>1 DEF MAUInv
<1> QED
  BY <1>1, <1>3, <1>4, <1>5, <1>6 DEF MAUInv

\* Every step keeps the invariant, as long as mispredictions leave the MAU undisturbed.
LEMMA MAUInvStep ==
  /\ MAUInv /\ CodeInv /\ TypeInv /\ LSQInv /\ RoBInv /\ MAUUndisturbed
  /\ RoBInv' /\ [Next]_vars
  => MAUInv'
<1> SUFFICES ASSUME MAUInv, CodeInv, TypeInv, LSQInv, RoBInv, MAUUndisturbed, RoBInv',
                    [Next]_vars
             PROVE  MAUInv'
  OBVIOUS
<1> DEFINE same == UNCHANGED <<RoB, ROB_size, delete_ROB_head, execute_MAU, stored_in_memory>>
<1>1. CASE CommitStage
  BY <1>1, MAUInvCommit
<1>2. CASE MAUStage
  BY <1>2, MAUInvMAU DEF MAUUndisturbed
<1>3. CASE IssueStage
  BY <1>3, MAUInvIssue
<1>4. CASE SquashTail
  BY <1>4, MAUInvSquash DEF MAUUndisturbed
<1>5. CASE CommitBelowZero \/ MAUOutOfBounds \/ DecodeOutOfBounds \/ FetchOutOfBounds
  <2>1. same /\ stage' = "undefined"
    BY <1>5 DEF CommitBelowZero, MAUOutOfBounds, DecodeOutOfBounds, FetchOutOfBounds,
                BecomesUndefined, robVars, memVars
  <2> QED
    BY <2>1, MAUInvUnchanged
<1>6. CASE MulFUStage \/ BFUStage \/ AFUStage \/ IntFUStage \/ DispatchStage \/ DecodeStage
             \/ FetchStage
  <2>1. same /\ stage \in {"MulFU", "BFU", "AFU", "IntFU", "dispatch", "decode", "fetch"}
    BY <1>6 DEF MulFUStage, BFUStage, AFUStage, IntFUStage, DispatchStage, DecodeStage,
                FetchStage, robVars, memVars
  <2> QED
    BY <2>1, MAUInvUnchanged
<1>7. CASE SquashEnds
  <2>1. same /\ stage = "squash" /\ stage' = "commit"
    BY <1>7 DEF SquashEnds, robVars, memVars
  <2> QED
    BY <2>1, MAUInvUnchanged
<1>8. CASE UNCHANGED vars
  <2>1. same /\ stage' = stage
    BY <1>8 DEF vars, robVars, memVars
  <2> QED
    BY <2>1, MAUInvUnchanged
<1> QED
  BY <1>1, <1>2, <1>3, <1>4, <1>5, <1>6, <1>7, <1>8 DEF Next

\* A step that writes the memory writes it for the STORE at the head of both queues.
LEMMA StoresStep ==
  /\ MAUInv /\ CodeInv /\ TypeInv /\ LSQInv /\ RoBInv /\ [Next]_vars
  => (data_memory' # data_memory =>
        /\ RoB[0].established_bit /\ RoB[0].instr.opcode \in StoreOps
        /\ RoB[0].instr.pc = lsq[0].pc)
<1> SUFFICES ASSUME MAUInv, CodeInv, TypeInv, LSQInv, RoBInv, [Next]_vars,
                    data_memory' # data_memory
             PROVE  /\ RoB[0].established_bit /\ RoB[0].instr.opcode \in StoreOps
                    /\ RoB[0].instr.pc = lsq[0].pc
  OBVIOUS
<1>1. MAUStage
  BY DEF Next, vars, memVars, CommitStage, CommitBelowZero, MAUOutOfBounds, MulFUStage,
         BFUStage, AFUStage, IntFUStage, IssueStage, DispatchStage, DecodeStage,
         DecodeOutOfBounds, FetchStage, FetchOutOfBounds, SquashTail, SquashEnds,
         BecomesUndefined
<1>2. MAUAccesses /\ lsq[0].LorS_bit = "STORE"
  BY <1>1 DEF MAUStage
<1>3. execute_MAU.has_insn
  BY <1>2 DEF MAUAccesses, MAUCompletes, MAUBusy, MAULatency
<1>4. HeadIsInMAU
  BY <1>3 DEF MAUInv
<1>5. lsq[0].established_bit /\ lsq[0].pc = RoB[0].instr.pc
  BY <1>4, MemoryHeads DEF HeadIsInMAU
<1>6. RoB[0].instr.opcode \in StoreOps
  BY <1>2, <1>4, <1>5, SlotSets
     DEF CodeInv, RoBFromCode, LSQFromCode, FromCode, EntryFromCode, HeadIsInMAU
<1>7. RoB[0].established_bit
  BY <1>4, SlotSets DEF RoBInv, RoBContiguous, HeadIsInMAU
<1> QED
  BY <1>5, <1>6, <1>7

\* Memory is written in program order, for every interleaving of dispatch, commit and
\* squash with the MAU's two cycles, as long as no squash takes what the MAU has started
\* and the MAU starts nothing that was squashed.
THEOREM StoresInOrder ==
  ASSUME BitwiseIsInt PROVE Spec /\ []MAUUndisturbed => StoresInProgramOrder
<1> DEFINE InOrder == data_memory' # data_memory =>
                       /\ RoB[0].established_bit /\ RoB[0].instr.opcode \in StoreOps
                       /\ RoB[0].instr.pc = lsq[0].pc
<1>1. MAUInv /\ CodeInv /\ TypeInv /\ LSQInv /\ RoBInv /\ [Next]_vars => [InOrder]_vars
  BY StoresStep
<1> QED
  BY <1>1, MAUInvInit, MAUInvStep, CodeInvAlways, TypeInvAlways, LSQInvAlways, RoBInvAlways,
     PTL DEF Spec, StoresInProgramOrder

(***************************************************************************)
(* Dispatch times.                                                         *)
(***************************************************************************)
\* What the wakeup loop of the IntFU counts whether it is waiting or not.
Counted(e) == e.valid_bit \/ e.instr.opcode \in NoSourceOps

\* Times are below the counter, and a waiting instruction's is no other counted one's.
TimesOK(q, counter) ==
  /\ \A k \in IQSlots : Counted(q[k]) => q[k].dispatch_time < counter
  /\ \A j, k \in IQSlots : q[j].valid_bit /\ Counted(q[k]) /\ j # k
                             => q[j].dispatch_time # q[k].dispatch_time

\* Two queues agree on what the selection looks at, up to what was issued in between.
SameTimes(p, q) ==
  \A k \in IQSlots : /\ q[k].dispatch_time = p[k].dispatch_time
                     /\ q[k].instr.opcode = p[k].instr.opcode
                     /\ q[k].instr.pc = p[k].instr.pc
                     /\ q[k].valid_bit => p[k].valid_bit

\* Dispatch times stay ordered when waiting instructions only get fewer.
LEMMA TimesKept ==
  ASSUME NEW p, NEW q, NEW counter, TimesOK(p, counter), SameTimes(p, q)
  PROVE  TimesOK(q, counter)
BY DEF TimesOK, SameTimes, Counted

\* Waking up changes neither times nor what is waiting.
LEMMA WokenTimes ==
  ASSUME NEW q \in IQType, NEW lines \in BusType
  PROVE  /\ SameTimes(q, WokenIQ(q, lines))
         /\ \A k \in IQSlots : WokenIQ(q, lines)[k].valid_bit = q[k].valid_bit
<1> SUFFICES ASSUME NEW k \in IQSlots
             PROVE  /\ WokenIQ(q, lines)[k].dispatch_time = q[k].dispatch_time
                    /\ WokenIQ(q, lines)[k].instr.opcode = q[k].instr.opcode
                    /\ WokenIQ(q, lines)[k].instr.pc = q[k].instr.pc
                    /\ WokenIQ(q, lines)[k].valid_bit = q[k].valid_bit
  BY DEF SameTimes
<1>1. q[k] \in IQEntries /\ q[k].instr \in Instrs
  BY DEF IQType, IQEntries
<1>2. WokenIQ(q, lines)[k] = IF q[k].valid_bit THEN [q[k] EXCEPT !.instr = PickUp(@, lines)]
                             ELSE q[k]
  BY DEF WokenIQ
<1>3. /\ PickUp(q[k].instr, lines).opcode = q[k].instr.opcode
      /\ PickUp(q[k].instr, lines).pc = q[k].instr.pc
  BY <1>1, PcKept, PickUpKeepsOpcode
<1> QED
  BY <1>1, <1>2, <1>3 DEF IQEntries

\* Issuing takes one instruction away from those that wait.
LEMMA IssuedTimes ==
  ASSUME NEW q \in IQType, NEW s \in IQSlots \cup {-1}
  PROVE  /\ SameTimes(q, Issued(q, s))
         /\ \A k \in IQSlots : k # s => Issued(q, s)[k] = q[k]
         /\ s = -1 => Issued(q, s) = q
         /\ s # -1 => ~Issued(q, s)[s].valid_bit
<1>1. CASE s = -1
  BY <1>1 DEF Issued, SameTimes
<1>2. CASE s # -1
  <2>1. q[s] \in IQEntries /\ q[s].instr \in Instrs /\ s \in IQSlots
    BY <1>2 DEF IQType, IQEntries
  <2> DEFINE i1 == [q[s].instr EXCEPT !.phyrs1_valid = FALSE]
             i2 == [i1 EXCEPT !.phyrs2_valid = FALSE]
             e == [q[s] EXCEPT !.valid_bit = FALSE, !.instr.phyrs1_valid = FALSE,
                               !.instr.phyrs2_valid = FALSE]
  <2>2. Issued(q, s) = [q EXCEPT ![s] = e]
    BY <1>2, <2>1 DEF Issued, IQType
  <2>3. i2.opcode = q[s].instr.opcode /\ i2.pc = q[s].instr.pc
    BY <2>1 DEF Instrs
  <2>4. e.dispatch_time = q[s].dispatch_time /\ e.instr = i2 /\ e.valid_bit = FALSE
    BY <2>1 DEF IQEntries
  <2> HIDE DEF e, i2
  <2>5. \A k \in IQSlots : Issued(q, s)[k] = IF k = s THEN e ELSE q[k]
    BY <2>1, <2>2 DEF IQType
  <2> QED
    BY <1>2, <2>1, <2>3, <2>4, <2>5 DEF SameTimes
<1> QED
  BY <1>1, <1>2

\* The slot that a dispatched instruction gets was not waiting, and its time is the newest.
LEMMA EstablishedTimes ==
  ASSUME NEW q \in IQType, NEW i \in Instrs, NEW counter \in Nat, TimesOK(q, counter)
  PROVE  /\ TimesOK(EstablishIQ(q, i, counter),
                    IF FreeIQSlot(q, i.pc) # -1 THEN counter + 1 ELSE counter)
         /\ \A k \in IQSlots : \/ EstablishIQ(q, i, counter)[k] = q[k]
                               \/ /\ ~q[k].valid_bit
                                  /\ EstablishIQ(q, i, counter)[k].dispatch_time = counter
<1> DEFINE s == FreeIQSlot(q, i.pc)
           e == [valid_bit |-> TRUE, dispatch_time |-> counter, instr |-> i]
           new == EstablishIQ(q, i, counter)
<1>1. s \in IQSlots \cup {-1} /\ (s # -1 => ~q[s].valid_bit)
  <2> DEFINE S == {k \in IQSlots : ~q[k].valid_bit /\ q[k].instr.pc # i.pc}
  <2>1. FirstIndex(S) \in S \cup {-1}
    BY Found, SlotSets
  <2> QED
    BY <2>1 DEF FreeIQSlot
<1>2. CASE s = -1
  BY <1>2 DEF EstablishIQ
<1>3. CASE s # -1
  <2>1. new = [q EXCEPT ![s] = e] /\ s \in IQSlots
    BY <1>1, <1>3 DEF EstablishIQ
  <2>2. \A k \in IQSlots : new[k] = IF k = s THEN e ELSE q[k]
    BY <2>1 DEF IQType
  <2>3. e.dispatch_time = counter
    OBVIOUS
  <2> HIDE DEF e, new, s
  <2>4. \A k \in IQSlots : Counted(q[k]) => q[k].dispatch_time < counter
    BY DEF TimesOK
  <2>5. \A k \in IQSlots : q[k].dispatch_time \in Nat
    BY DEF IQType, IQEntries
  <2>6. \A k \in IQSlots : Counted(new[k]) => new[k].dispatch_time < counter + 1
    <3>1. \A t \in Nat : t < counter => t < counter + 1
      OBVIOUS
    <3>2. counter < counter + 1
      OBVIOUS
    <3> QED
      BY <2>2, <2>3, <2>4, <2>5, <3>1, <3>2, Zenon
  <2>7. ASSUME NEW j \in IQSlots, NEW k \in IQSlots, new[j].valid_bit, Counted(new[k]), j # k
        PROVE  new[j].dispatch_time # new[k].dispatch_time
    <3>1. CASE j = s
      BY <2>2, <2>3, <2>4, <2>5, <2>7, <3>1
    <3>2. CASE j # s
      <4>1. CASE k = s
        <5>1. Counted(new[j])
          BY <2>7 DEF Counted
        <5> QED
          BY <2>2, <2>3, <2>4, <2>5, <2>7, <3>2, <4>1, <5>1
      <4>2. CASE k # s
        BY <2>2, <2>7, <3>2, <4>2 DEF TimesOK
      <4> QED
        BY <4>1, <4>2
    <3> QED
      BY <3>1, <3>2
  <2>8. TimesOK(new, counter + 1)
    BY <2>6, <2>7 DEF TimesOK
  <2>9. \A k \in IQSlots : \/ new[k] = q[k]
                            \/ /\ ~q[k].valid_bit
                               /\ new[k].dispatch_time = counter
    BY <1>1, <1>3, <2>2, <2>3
  <2> QED
    BY <1>3, <2>8, <2>9 DEF new, s
<1> QED
  BY <1>2, <1>3

\* The slot taken is a candidate itself, and the oldest of them.
LEMMA SelectedIsOldest ==
  ASSUME NEW q \in IQType, NEW counter \in Nat, TimesOK(q, counter),
         counter <= MIN_COUNTER_START,
         NEW C \in SUBSET IQSlots, \A k \in C : Counted(q[k]),
         NEW s, s = SelectedSlot(q, {q[k].dispatch_time : k \in C}), s # -1
  PROVE  s \in C /\ \A k \in C : q[s].dispatch_time <= q[k].dispatch_time
<1> DEFINE times == {q[k].dispatch_time : k \in C}
           all == times \cup {MIN_COUNTER_START}
           min == MinCounter(times)
           S == {k \in IQSlots : q[k].valid_bit /\ q[k].dispatch_time = min}
<1>1. s \in S
  <2>1. S \in SUBSET Nat
    BY SlotSets
  <2>2. FirstIndex(S) \in S \cup {-1}
    BY <2>1, Found
  <2>3. s = FirstIndex(S)
    BY DEF SelectedSlot
  <2> QED
    BY <2>2, <2>3
<1>2. \A k \in IQSlots : q[k].dispatch_time \in Nat
  BY DEF IQType, IQEntries
<1>3. min \in all /\ \A t \in all : min <= t
  <2>1. all \in SUBSET Nat /\ all # {}
    BY <1>2, SizesAssumption
  <2>2. \E t \in all : \A u \in all : t <= u
    BY <2>1, LeastElement
  <2> QED
    BY <2>2 DEF MinCounter
<1>4. s \in IQSlots /\ q[s].valid_bit /\ q[s].dispatch_time = min
  BY <1>1
<1>5. min # MIN_COUNTER_START
  <2>1. q[s].dispatch_time < counter
    BY <1>4 DEF TimesOK, Counted
  <2> HIDE DEF min
  <2> QED
    BY <1>2, <1>4, <2>1, SizesAssumption
<1>6. PICK k \in C : q[k].dispatch_time = min
  BY <1>3, <1>5
<1> HIDE DEF min
<1>7. k = s
  BY <1>4, <1>6 DEF TimesOK
<1> QED
  BY <1>3, <1>4, <1>6, <1>7

\* What waits in a queue of the issue stage waited before it, or is what it has established.
OldOrNew(q) ==
  \A j \in IQSlots : q[j].valid_bit
                     => \/ /\ issueQueue[j].valid_bit
                           /\ q[j].dispatch_time = issueQueue[j].dispatch_time
                           /\ q[j].instr.pc = issueQueue[j].instr.pc
                        \/ q[j].dispatch_time = issue_counter

\* A choice of slots that hold instructions of the given kinds.
Candidates(q, C, kinds) ==
  C \in SUBSET IQSlots /\ \A k \in C : Counted(q[k]) /\ q[k].instr.opcode \in kinds

\* What was ready before the issue stage is among them, older than what it has established.
ReadyAmong(q, C, kinds) ==
  \A k \in IQSlots :
    /\ WokenIQ(issueQueue, bus)[k].valid_bit
    /\ WokenIQ(issueQueue, bus)[k].instr.opcode \in kinds
    /\ SourcesValid(WokenIQ(issueQueue, bus)[k].instr)
    => /\ k \in C
       /\ q[k].dispatch_time = issueQueue[k].dispatch_time
       /\ issueQueue[k].dispatch_time < issue_counter

\* The candidates' times.
TimesOf(q, C) == {q[k].dispatch_time : k \in C}

\* A unit that is offered a queue receives the oldest of the instructions it may take.  Those
\* that were ready before the stage are among them, with an older time than the one that
\* the stage has just established.
LEMMA SelectedInOrder ==
  ASSUME NEW q \in IQType, NEW counter \in Nat, TimesOK(q, counter),
         counter <= MIN_COUNTER_START, issue_counter \in Nat,
         NEW C, NEW kinds, Candidates(q, C, kinds), ReadyAmong(q, C, kinds), OldOrNew(q),
         NEW latch
  PROVE  LET s == SelectedSlot(q, TimesOf(q, C))
         IN  /\ ReceivesOldest(latch, Received(latch, q, s), kinds)
             /\ s # -1 => s \in C
             /\ s \in IQSlots \cup {-1}
<1> DEFINE s == SelectedSlot(q, TimesOf(q, C))
           next == Received(latch, q, s)
<1> SUFFICES /\ ReceivesOldest(latch, next, kinds)
             /\ s # -1 => s \in C
             /\ s \in IQSlots \cup {-1}
  OBVIOUS
<1>a. s = SelectedSlot(q, {q[k].dispatch_time : k \in C}) /\ next = Received(latch, q, s)
  BY DEF TimesOf
<1> HIDE DEF s, next
<1>b. C \in SUBSET IQSlots /\ \A k \in C : Counted(q[k]) /\ q[k].instr.opcode \in kinds
  BY DEF Candidates
<1>c. \A k \in IQSlots :
        /\ WokenIQ(issueQueue, bus)[k].valid_bit
        /\ WokenIQ(issueQueue, bus)[k].instr.opcode \in kinds
        /\ SourcesValid(WokenIQ(issueQueue, bus)[k].instr)
        => /\ k \in C
           /\ q[k].dispatch_time = issueQueue[k].dispatch_time
           /\ issueQueue[k].dispatch_time < issue_counter
  BY DEF ReadyAmong
<1>d. \A j \in IQSlots : q[j].valid_bit
         => \/ /\ q[j].dispatch_time = issueQueue[j].dispatch_time
               /\ q[j].instr.pc = issueQueue[j].instr.pc
            \/ q[j].dispatch_time = issue_counter
  BY DEF OldOrNew
<1>1. CASE s = -1
  BY <1>1, <1>a DEF ReceivesOldest, Received
<1>2. CASE s # -1
  <2>1. s \in C /\ \A k \in C : q[s].dispatch_time <= q[k].dispatch_time
    BY <1>2, <1>a, <1>b, SelectedIsOldest
  <2>2. q[s].valid_bit
    <3> DEFINE S == {k \in IQSlots : /\ q[k].valid_bit
                                     /\ q[k].dispatch_time =
                                          MinCounter({q[n].dispatch_time : n \in C})}
    <3>1. FirstIndex(S) \in S \cup {-1}
      BY SlotSets, Found
    <3>2. s = FirstIndex(S)
      BY <1>a DEF SelectedSlot
    <3> QED
      BY <1>2, <3>1, <3>2
  <2>3. \A k \in IQSlots : q[k].dispatch_time \in Nat
    BY DEF IQType, IQEntries
  <2>4. /\ next.instr.pc = q[s].instr.pc
        /\ next.instr.opcode = q[s].instr.opcode
    <3>1. next = [has_insn |-> TRUE, instr |-> Issued(q, s)[s].instr]
      BY <1>2, <1>a DEF Received
    <3>2. SameTimes(q, Issued(q, s))
      BY <1>b, <2>1, IssuedTimes
    <3> QED
      BY <1>b, <2>1, <3>1, <3>2 DEF SameTimes
  <2> DEFINE woken == WokenIQ(issueQueue, bus)
             ready == {k \in IQSlots : /\ woken[k].valid_bit /\ woken[k].instr.opcode \in kinds
                                       /\ SourcesValid(woken[k].instr)}
  <2>5. ASSUME NEW k \in ready
        PROVE  /\ issueQueue[s].instr.pc = next.instr.pc
               /\ issueQueue[s].dispatch_time <= issueQueue[k].dispatch_time
    <3>1. /\ k \in C /\ k \in IQSlots /\ q[k].dispatch_time = issueQueue[k].dispatch_time
          /\ issueQueue[k].dispatch_time < issue_counter
      BY <1>b, <1>c
    <3>2. q[s].dispatch_time <= issueQueue[k].dispatch_time
      BY <2>1, <3>1
    <3>3. q[s].dispatch_time # issue_counter
      BY <1>b, <2>1, <2>3, <3>1, <3>2
    <3>4. /\ q[s].dispatch_time = issueQueue[s].dispatch_time
          /\ q[s].instr.pc = issueQueue[s].instr.pc
      BY <1>b, <1>d, <2>1, <2>2, <3>3
    <3> QED
      BY <2>4, <3>2, <3>4
  <2>6. next.instr.opcode \in kinds
    BY <1>b, <2>1, <2>4
  <2> HIDE DEF ready
  <2>7. \A k \in ready : \E j \in IQSlots :
           /\ issueQueue[j].instr.pc = next.instr.pc
           /\ issueQueue[j].dispatch_time <= issueQueue[k].dispatch_time
    BY <1>b, <2>1, <2>5
  <2>8. ReceivesOldest(latch, next, kinds)
    BY <2>6, <2>7 DEF ReceivesOldest, ready
  <2> QED
    BY <1>b, <2>1, <2>8
<1> QED
  BY <1>1, <1>2

\* Nor does issuing bring in an instruction from elsewhere.
LEMMA OldOrNewKept ==
  ASSUME NEW p, NEW q, OldOrNew(p), SameTimes(p, q) PROVE OldOrNew(q)
BY DEF OldOrNew, SameTimes

\* A slot that is selected holds a waiting instruction.
LEMMA SelectedIsValid ==
  ASSUME NEW q, NEW times, SelectedSlot(q, times) # -1 PROVE q[SelectedSlot(q, times)].valid_bit
<1> DEFINE S == {k \in IQSlots : q[k].valid_bit /\ q[k].dispatch_time = MinCounter(times)}
<1>1. SelectedSlot(q, times) = FirstIndex(S)
  BY DEF SelectedSlot
<1>2. S \in SUBSET Nat
  BY SlotSets
<1>3. S # {}
  BY <1>1 DEF FirstIndex
<1>4. FirstIndex(S) \in S
  BY <1>2, <1>3, FoundFirst
<1> QED
  BY <1>1, <1>4

\* What a unit receives is the instruction of the slot, its operands no longer marked valid.
LEMMA IssuedInstr ==
  ASSUME NEW q \in IQType, NEW latch, NEW k \in IQSlots
  PROVE  Received(latch, q, k)
           = [has_insn |-> TRUE,
              instr |-> [q[k].instr EXCEPT !.phyrs1_valid = FALSE, !.phyrs2_valid = FALSE]]
<1>1. k # -1 /\ k \in DOMAIN q /\ q[k] \in IQEntries
  BY SlotSets DEF IQType
<1>2. Issued(q, k)[k].instr = [q[k].instr EXCEPT !.phyrs1_valid = FALSE, !.phyrs2_valid = FALSE]
  BY <1>1 DEF Issued, IQEntries
<1> QED
  BY <1>1, <1>2 DEF Received

\* A unit's latch keeps what it has, or takes the instruction of a slot whose sources are there.
Takes(latch, next, q, s, kinds) ==
  IF s = -1 THEN next = latch
  ELSE /\ q[s].valid_bit /\ q[s].instr.opcode \in kinds /\ SourcesValid(q[s].instr)
       /\ next = [has_insn |-> TRUE,
                  instr |-> [q[s].instr EXCEPT !.phyrs1_valid = FALSE, !.phyrs2_valid = FALSE]]

\* Each unit takes one slot of the queue at most, and nobody else leaves it.
UnitsTake(q) ==
  \E a, b, c \in IQSlots \cup {-1} :
    /\ Takes(execute_IntFU, execute_IntFU', q, a, IntFUSourceOps \cup NoSourceOps)
    /\ Takes(execute_MulFU, execute_MulFU', q, b, {"MUL"})
    /\ Takes(execute_AFU, execute_AFU', q, c, AFUOps)
    /\ mulcycle_counter' = IF b = -1 THEN mulcycle_counter ELSE 3
    /\ b # -1 => MulFUFree
    /\ \A k \in IQSlots : /\ issueQueue'[k].instr.pc = q[k].instr.pc
                           /\ IF k \in {a, b, c} THEN ~issueQueue'[k].valid_bit
                              ELSE issueQueue'[k] = q[k]

\* The issue queue with the instruction of this cycle's dispatch.
Established ==
  IF issue_queue.has_insn THEN EstablishIQ(issueQueue, issue_queue.instr, issue_counter)
  ELSE issueQueue

\* The three wakeups: each unit gets the oldest of its kind.
LEMMA WakeUpInOrder ==
  ASSUME TypeInv, TimesOK(issueQueue, issue_counter),
         NEW established \in IQType, NEW counter \in Nat, TimesOK(established, counter),
         counter <= MIN_COUNTER_START, OldOrNew(established),
         \A k \in IQSlots : issueQueue[k].valid_bit => established[k] = issueQueue[k],
         WakeUp(established)
  PROVE  /\ ReceivesOldest(execute_IntFU, execute_IntFU', IntFUSourceOps \cup NoSourceOps)
         /\ ReceivesOldest(execute_MulFU, execute_MulFU', {"MUL"})
         /\ ReceivesOldest(execute_AFU, execute_AFU', AFUOps)
         /\ TimesOK(issueQueue', counter) /\ OldOrNew(issueQueue')
         /\ issueQueue' \in IQType
         /\ UnitsTake(WokenIQ(established, bus))
<1>1. bus \in BusType /\ issueQueue \in IQType /\ issue_counter \in Nat
  BY DEF TypeInv, ForwardingTypes, QueueTypes
<1> DEFINE ready == WokenIQ(issueQueue, bus)
           IntC(q) == {s \in IQSlots : \/ q[s].instr.opcode \in NoSourceOps
                                       \/ /\ q[s].instr.opcode \in IntFUSourceOps
                                          /\ q[s].valid_bit
                                          /\ SourcesValid(q[s].instr)}
           MulC(q) == {s \in IQSlots : q[s].instr.opcode = "MUL" /\ q[s].valid_bit
                                         /\ SourcesValid(q[s].instr)}
           AFUC(q) == {s \in IQSlots : q[s].instr.opcode \in AFUOps /\ q[s].valid_bit
                                         /\ SourcesValid(q[s].instr)}
           woken == WokenIQ(established, bus)
           intSlot == SelectedSlot(woken, IntFUTimes(woken))
           afterInt == Issued(woken, intSlot)
           mulSlot == IF MulFUFree THEN SelectedSlot(afterInt, MulFUTimes(afterInt)) ELSE -1
           afterMul == Issued(afterInt, mulSlot)
           afuSlot == SelectedSlot(afterMul, AFUTimes(afterMul))
<1>2. /\ execute_IntFU' = Received(execute_IntFU, woken, intSlot)
      /\ execute_MulFU' = Received(execute_MulFU, afterInt, mulSlot)
      /\ execute_AFU' = Received(execute_AFU, afterMul, afuSlot)
      /\ issueQueue' = Issued(afterMul, afuSlot)
  BY DEF WakeUp
<1>3. \A k \in IQSlots : ready[k].valid_bit => /\ woken[k] = ready[k]
                                               /\ established[k] = issueQueue[k]
                                               /\ issueQueue[k].valid_bit
  BY <1>1, WokenTimes DEF WokenIQ
<1>4. \A k \in IQSlots : ready[k].valid_bit =>
         /\ woken[k].dispatch_time = issueQueue[k].dispatch_time
         /\ issueQueue[k].dispatch_time < issue_counter
  <2>1. SameTimes(issueQueue, ready)
    BY <1>1, WokenTimes
  <2>2. \A k \in IQSlots : issueQueue[k].valid_bit => issueQueue[k].dispatch_time < issue_counter
    BY DEF TimesOK, Counted
  <2> QED
    BY <1>3, <2>1, <2>2 DEF SameTimes
<1>5. woken \in IQType /\ SameTimes(established, woken)
  BY <1>1, WokenIQType, WokenTimes
<1>6. IntFUTimes(woken) = {woken[k].dispatch_time : k \in IntC(woken)}
  BY DEF IntFUTimes
<1>7. intSlot = SelectedSlot(woken, {woken[k].dispatch_time : k \in IntC(woken)})
  BY <1>6
<1> HIDE DEF woken, intSlot, ready
<1>8. TimesOK(woken, counter) /\ OldOrNew(woken)
  BY <1>5, TimesKept, OldOrNewKept
<1>9. /\ ReceivesOldest(execute_IntFU, execute_IntFU', IntFUSourceOps \cup NoSourceOps)
      /\ intSlot # -1 => intSlot \in IntC(woken)
      /\ intSlot \in IQSlots \cup {-1}
  <2> DEFINE C == IntC(woken)
             kinds == IntFUSourceOps \cup NoSourceOps
  <2>1. \A k \in C : Counted(woken[k]) /\ woken[k].instr.opcode \in kinds
    BY DEF Counted
  <2>2. \A k \in IQSlots :
          ready[k].valid_bit /\ ready[k].instr.opcode \in kinds /\ SourcesValid(ready[k].instr)
          => k \in C
    BY <1>3
  <2>3. C \in SUBSET IQSlots
    OBVIOUS
  <2> HIDE DEF C, kinds
  <2>4. \A k \in IQSlots :
           /\ WokenIQ(issueQueue, bus)[k].valid_bit
           /\ WokenIQ(issueQueue, bus)[k].instr.opcode \in kinds
           /\ SourcesValid(WokenIQ(issueQueue, bus)[k].instr)
           => /\ k \in C
              /\ woken[k].dispatch_time = issueQueue[k].dispatch_time
              /\ issueQueue[k].dispatch_time < issue_counter
    BY <1>4, <2>2 DEF ready
  <2>5. intSlot = SelectedSlot(woken, TimesOf(woken, C))
    BY <1>7 DEF C, TimesOf
  <2>6. Candidates(woken, C, kinds) /\ ReadyAmong(woken, C, kinds)
    BY <2>1, <2>3, <2>4 DEF Candidates, ReadyAmong
  <2>7. /\ ReceivesOldest(execute_IntFU, execute_IntFU', kinds)
        /\ intSlot # -1 => intSlot \in C
        /\ intSlot \in IQSlots \cup {-1}
    BY <1>1, <1>2, <1>5, <1>8, <2>5, <2>6, SelectedInOrder
  <2> QED
    BY <2>7 DEF C, kinds
<1>10. /\ afterInt \in IQType /\ SameTimes(woken, afterInt)
       /\ \A k \in IQSlots : k # intSlot => afterInt[k] = woken[k]
  BY <1>5, <1>9, IssuedType, IssuedTimes
<1>11. \A k \in IQSlots : woken[k].instr.opcode \in {"MUL"} \cup AFUOps => afterInt[k] = woken[k]
  <2>1. intSlot # -1 => woken[intSlot].instr.opcode \notin {"MUL"} \cup AFUOps
    BY <1>9 DEF IntFUSourceOps, NoSourceOps, AFUOps, Alu2Ops, AluLiteralOps, MemoryOps, LoadOps,
                StoreOps, BranchOps, ConditionalBranches, JumpOps
  <2> QED
    BY <1>10, <2>1, SlotSets
<1>12. MulFUTimes(afterInt) = {afterInt[k].dispatch_time : k \in MulC(afterInt)}
  BY DEF MulFUTimes
<1>13. \/ mulSlot = -1
       \/ mulSlot = SelectedSlot(afterInt, {afterInt[k].dispatch_time : k \in MulC(afterInt)})
  BY <1>12
<1> HIDE DEF afterInt, mulSlot
<1>14. TimesOK(afterInt, counter) /\ OldOrNew(afterInt)
  BY <1>8, <1>10, TimesKept, OldOrNewKept
<1>15. /\ ReceivesOldest(execute_MulFU, execute_MulFU', {"MUL"})
       /\ mulSlot # -1 => mulSlot \in MulC(afterInt)
       /\ mulSlot \in IQSlots \cup {-1}
  <2>1. CASE mulSlot = -1
    BY <1>2, <2>1 DEF ReceivesOldest, Received
  <2>2. CASE mulSlot = SelectedSlot(afterInt, {afterInt[k].dispatch_time : k \in MulC(afterInt)})
    <3> DEFINE C == MulC(afterInt)
    <3>1. \A k \in C : Counted(afterInt[k]) /\ afterInt[k].instr.opcode \in {"MUL"}
      BY DEF Counted
    <3>2. \A k \in IQSlots :
            ready[k].valid_bit /\ ready[k].instr.opcode \in {"MUL"} /\ SourcesValid(ready[k].instr)
            => k \in C /\ afterInt[k] = woken[k]
      BY <1>3, <1>11
    <3>3. C \in SUBSET IQSlots
      OBVIOUS
    <3> HIDE DEF C
    <3>4. \A k \in IQSlots :
             /\ WokenIQ(issueQueue, bus)[k].valid_bit
             /\ WokenIQ(issueQueue, bus)[k].instr.opcode \in {"MUL"}
             /\ SourcesValid(WokenIQ(issueQueue, bus)[k].instr)
             => /\ k \in C
                /\ afterInt[k].dispatch_time = issueQueue[k].dispatch_time
                /\ issueQueue[k].dispatch_time < issue_counter
      BY <1>4, <3>2 DEF ready
    <3>5. mulSlot = SelectedSlot(afterInt, TimesOf(afterInt, C))
      BY <2>2 DEF C, TimesOf
    <3>6. Candidates(afterInt, C, {"MUL"}) /\ ReadyAmong(afterInt, C, {"MUL"})
      BY <3>1, <3>3, <3>4 DEF Candidates, ReadyAmong
    <3>7. /\ ReceivesOldest(execute_MulFU, execute_MulFU', {"MUL"})
          /\ mulSlot # -1 => mulSlot \in C
          /\ mulSlot \in IQSlots \cup {-1}
      BY <1>1, <1>2, <1>10, <1>14, <3>5, <3>6, SelectedInOrder
    <3> QED
      BY <3>7 DEF C
  <2> QED
    BY <1>13, <2>1, <2>2
<1>16. /\ afterMul \in IQType /\ SameTimes(afterInt, afterMul)
       /\ \A k \in IQSlots : k # mulSlot => afterMul[k] = afterInt[k]
  BY <1>10, <1>15, IssuedType, IssuedTimes
<1>17. \A k \in IQSlots : woken[k].instr.opcode \in AFUOps => afterMul[k] = woken[k]
  <2>1. mulSlot # -1 => afterInt[mulSlot].instr.opcode \notin AFUOps
    BY <1>15 DEF AFUOps, MemoryOps, LoadOps, StoreOps, BranchOps, ConditionalBranches, JumpOps
  <2> QED
    BY <1>11, <1>16, <2>1, SlotSets
<1>18. AFUTimes(afterMul) = {afterMul[k].dispatch_time : k \in AFUC(afterMul)}
  BY DEF AFUTimes
<1>19. afuSlot = SelectedSlot(afterMul, {afterMul[k].dispatch_time : k \in AFUC(afterMul)})
  BY <1>18
<1> HIDE DEF afterMul, afuSlot
<1>20. TimesOK(afterMul, counter) /\ OldOrNew(afterMul)
  BY <1>14, <1>16, TimesKept, OldOrNewKept
<1>21. /\ ReceivesOldest(execute_AFU, execute_AFU', AFUOps)
       /\ afuSlot # -1 => afuSlot \in AFUC(afterMul)
       /\ afuSlot \in IQSlots \cup {-1}
  <2> DEFINE C == AFUC(afterMul)
  <2>1. \A k \in C : Counted(afterMul[k]) /\ afterMul[k].instr.opcode \in AFUOps
    BY DEF Counted
  <2>2. \A k \in IQSlots :
          ready[k].valid_bit /\ ready[k].instr.opcode \in AFUOps /\ SourcesValid(ready[k].instr)
          => k \in C /\ afterMul[k] = woken[k]
    BY <1>3, <1>17
  <2>3. C \in SUBSET IQSlots
    OBVIOUS
  <2> HIDE DEF C
  <2>4. \A k \in IQSlots :
           /\ WokenIQ(issueQueue, bus)[k].valid_bit
           /\ WokenIQ(issueQueue, bus)[k].instr.opcode \in AFUOps
           /\ SourcesValid(WokenIQ(issueQueue, bus)[k].instr)
           => /\ k \in C
              /\ afterMul[k].dispatch_time = issueQueue[k].dispatch_time
              /\ issueQueue[k].dispatch_time < issue_counter
    BY <1>4, <2>2 DEF ready
  <2>5. afuSlot = SelectedSlot(afterMul, TimesOf(afterMul, C))
    BY <1>19 DEF C, TimesOf
  <2>6. Candidates(afterMul, C, AFUOps) /\ ReadyAmong(afterMul, C, AFUOps)
    BY <2>1, <2>3, <2>4 DEF Candidates, ReadyAmong
  <2>7. /\ ReceivesOldest(execute_AFU, execute_AFU', AFUOps)
        /\ afuSlot # -1 => afuSlot \in C
        /\ afuSlot \in IQSlots \cup {-1}
    BY <1>1, <1>2, <1>16, <1>20, <2>5, <2>6, SelectedInOrder
  <2> QED
    BY <2>7 DEF C
<1>22. TimesOK(issueQueue', counter) /\ OldOrNew(issueQueue') /\ issueQueue' \in IQType
  BY <1>2, <1>16, <1>20, <1>21, IssuedTimes, IssuedType, TimesKept, OldOrNewKept
<1>24. \A k \in IQSlots : k # -1
  BY SlotSets
<1>25. Takes(execute_IntFU, execute_IntFU', woken, intSlot, IntFUSourceOps \cup NoSourceOps)
  <2>1. CASE intSlot = -1
    BY <1>2, <2>1 DEF Takes, Received
  <2>2. CASE intSlot # -1
    <3>1. intSlot \in IntC(woken) /\ intSlot \in IQSlots
      BY <1>9, <2>2
    <3>2. woken[intSlot].valid_bit
      BY <1>7, <2>2, SelectedIsValid
    <3>3. NoSourceOps \cap (Source1Ops \cup Source2Ops) = {}
      BY DEF NoSourceOps, Source1Ops, Source2Ops, Alu2Ops, AluLiteralOps, MemoryOps, LoadOps,
             StoreOps, JumpOps
    <3>4. SourcesValid(woken[intSlot].instr)
      BY <3>1, <3>3 DEF SourcesValid
    <3> QED
      BY <1>2, <1>5, <2>2, <3>1, <3>2, <3>4, IssuedInstr DEF Takes
  <2> QED
    BY <2>1, <2>2
<1>26. Takes(execute_MulFU, execute_MulFU', woken, mulSlot, {"MUL"})
  <2>1. CASE mulSlot = -1
    BY <1>2, <2>1 DEF Takes, Received
  <2>2. CASE mulSlot # -1
    <3>1. mulSlot \in MulC(afterInt) /\ mulSlot \in IQSlots
      BY <1>15, <2>2
    <3>2. afterInt[mulSlot] = woken[mulSlot]
      BY <1>10, <1>11, <3>1 DEF SameTimes
    <3>3. /\ woken[mulSlot].valid_bit /\ woken[mulSlot].instr.opcode \in {"MUL"}
          /\ SourcesValid(woken[mulSlot].instr)
      BY <3>1, <3>2
    <3>4. execute_MulFU' = Received(execute_MulFU, afterInt, mulSlot)
      BY <1>2
    <3>5. Received(execute_MulFU, afterInt, mulSlot)
            = [has_insn |-> TRUE,
               instr |-> [woken[mulSlot].instr EXCEPT !.phyrs1_valid = FALSE, !.phyrs2_valid = FALSE]]
      <4>1. afterInt \in IQType /\ mulSlot \in IQSlots
        BY <1>10, <3>1
      <4>2. Received(execute_MulFU, afterInt, mulSlot)
              = [has_insn |-> TRUE,
                 instr |-> [afterInt[mulSlot].instr EXCEPT !.phyrs1_valid = FALSE, !.phyrs2_valid = FALSE]]
        BY <4>1, IssuedInstr
      <4> QED
        BY <3>2, <4>2, Zenon
    <3> QED
      BY <2>2, <3>3, <3>4, <3>5 DEF Takes
  <2> QED
    BY <2>1, <2>2
<1>27. Takes(execute_AFU, execute_AFU', woken, afuSlot, AFUOps)
  <2>1. CASE afuSlot = -1
    BY <1>2, <2>1 DEF Takes, Received
  <2>2. CASE afuSlot # -1
    <3>1. afuSlot \in AFUC(afterMul) /\ afuSlot \in IQSlots
      BY <1>21, <2>2
    <3>2. afterMul[afuSlot] = woken[afuSlot]
      BY <1>10, <1>16, <1>17, <3>1 DEF SameTimes
    <3>3. /\ woken[afuSlot].valid_bit /\ woken[afuSlot].instr.opcode \in AFUOps
          /\ SourcesValid(woken[afuSlot].instr)
      BY <3>1, <3>2
    <3>4. execute_AFU' = Received(execute_AFU, afterMul, afuSlot)
      BY <1>2
    <3>5. Received(execute_AFU, afterMul, afuSlot)
            = [has_insn |-> TRUE,
               instr |-> [woken[afuSlot].instr EXCEPT !.phyrs1_valid = FALSE, !.phyrs2_valid = FALSE]]
      <4>1. afterMul \in IQType /\ afuSlot \in IQSlots
        BY <1>16, <3>1
      <4>2. Received(execute_AFU, afterMul, afuSlot)
              = [has_insn |-> TRUE,
                 instr |-> [afterMul[afuSlot].instr EXCEPT !.phyrs1_valid = FALSE, !.phyrs2_valid = FALSE]]
        BY <4>1, IssuedInstr
      <4> QED
        BY <3>2, <4>2, Zenon
    <3> QED
      BY <2>2, <3>3, <3>4, <3>5 DEF Takes
  <2> QED
    BY <2>1, <2>2
<1>28. mulcycle_counter' = (IF mulSlot = -1 THEN mulcycle_counter ELSE 3)
       /\ (mulSlot # -1 => MulFUFree)
  BY DEF WakeUp, woken, intSlot, afterInt, mulSlot
<1>29. ASSUME NEW k \in IQSlots
       PROVE  /\ issueQueue'[k].instr.pc = woken[k].instr.pc
              /\ IF k \in {intSlot, mulSlot, afuSlot} THEN ~issueQueue'[k].valid_bit
                 ELSE issueQueue'[k] = woken[k]
  <2>1. afuSlot # -1 => ~Issued(afterMul, afuSlot)[afuSlot].valid_bit
    BY <1>16, <1>21, IssuedTimes
  <2>2. k # afuSlot => issueQueue'[k] = afterMul[k]
    BY <1>2, <1>16, <1>21, IssuedTimes
  <2>3. SameTimes(afterMul, issueQueue') /\ SameTimes(afterInt, afterMul)
    BY <1>2, <1>16, <1>21, IssuedTimes
  <2>4. mulSlot # -1 => ~afterMul[mulSlot].valid_bit
    BY <1>10, <1>15, IssuedTimes DEF afterMul
  <2>5. intSlot # -1 => ~afterInt[intSlot].valid_bit
    BY <1>5, <1>9, IssuedTimes DEF afterInt
  <2>6. k # -1
    BY <1>24
  <2> QED
    BY <1>2, <1>10, <1>16, <2>1, <2>2, <2>3, <2>4, <2>5, <2>6 DEF SameTimes
<1>30. UnitsTake(WokenIQ(established, bus))
  <2>1. intSlot \in IQSlots \cup {-1} /\ mulSlot \in IQSlots \cup {-1} /\ afuSlot \in IQSlots \cup {-1}
    BY <1>9, <1>15, <1>21
  <2>2. UnitsTake(woken)
    BY <1>25, <1>26, <1>27, <1>28, <1>29, <2>1 DEF UnitsTake
  <2> QED
    BY <2>2 DEF woken
<1> QED
  BY <1>9, <1>15, <1>21, <1>22, <1>30

(***************************************************************************)
(* The first instruction to be dispatched depends on nothing: it is        *)
(* issued in the stage that establishes it, so no instruction ever waits   *)
(* with dispatch time 0, the time that a squashed entry is left with.      *)
(***************************************************************************)
IsFirst(i) ==
  /\ i.opcode \in Source1Ops => i.phyrs1 = -1
  /\ i.opcode \in Source2Ops => i.phyrs2 = -1
  /\ i.opcode # "DIV" /\ i.pc # 0

QueuesEmpty ==
  /\ \A k \in IQSlots : ~issueQueue[k].valid_bit /\ issueQueue[k].instr.pc = 0
  /\ \A k \in BQSlots : ~branchQueue[k].valid_bit
  /\ \A k \in LSQSlots : ~lsq[k].established_bit
  /\ ROB_size = 0 /\ LSQ_size = 0 /\ ~delete_ROB_head /\ ~delete_LSQ_head

UnitsIdle ==
  /\ ~execute_IntFU.has_insn /\ ~execute_MulFU.has_insn /\ ~execute_AFU.has_insn
  /\ ~execute_BFU.has_insn /\ ~execute_MAU.has_insn
  /\ mulcycle_counter = 0 /\ BFU_pc = -1
  /\ \A b \in Buses : bus[b].tag = -1

\* Only a DIV, which dispatch drops, may be before the first one.
FirstOnTheWay ==
  IF issue_queue.has_insn THEN IsFirst(issue_queue.instr) /\ stage # "dispatch"
  ELSE IF rename2_dispatch.has_insn /\ rename2_dispatch.instr.opcode # "DIV"
  THEN IsFirst(rename2_dispatch.instr)
  ELSE /\ \A r \in Registers : renameTable[r] = NOT_RENAMED
       /\ ~rename2_dispatch.stall
       /\ decode_rename1.has_insn => ~decode_rename1.stall /\ decode_rename1.instr.pc # 0

FirstInv ==
  issue_counter = 0 =>
    /\ QueuesEmpty /\ UnitsIdle /\ FirstOnTheWay
    /\ stage # "squash"
    /\ stage = "decode" => ~rename2_dispatch.has_insn

TimesInv ==
  /\ TimesOK(issueQueue, issue_counter)
  /\ \A k \in IQSlots : issueQueue[k].valid_bit => issueQueue[k].dispatch_time > 0
  /\ FirstInv

\* At the start nothing waits.
LEMMA TimesInvInit == Init => TimesInv
<1> SUFFICES ASSUME Init PROVE TimesInv
  OBVIOUS
<1>1. /\ issueQueue = [k \in IQSlots |-> EmptyIQEntry] /\ issue_counter = 0
      /\ branchQueue = [k \in BQSlots |-> EmptyBQEntry]
      /\ lsq = [k \in LSQSlots |-> EmptyLSQEntry]
      /\ ROB_size = 0 /\ LSQ_size = 0 /\ ~delete_ROB_head /\ ~delete_LSQ_head
  BY DEF Init, APEX_cpu_init
<1>2. \A k \in IQSlots : /\ ~issueQueue[k].valid_bit /\ issueQueue[k].instr.pc = 0
                         /\ issueQueue[k].instr.opcode = "ADD"
  BY <1>1 DEF EmptyIQEntry, NoInstr, Fetched
<1>3. QueuesEmpty
  BY <1>1, <1>2 DEF QueuesEmpty, EmptyBQEntry, EmptyLSQEntry
<1>4. UnitsIdle
  BY DEF Init, APEX_cpu_init, UnitsIdle, EmptyLatch, IdleBus
<1>5. FirstOnTheWay /\ stage = "commit"
  BY DEF Init, APEX_cpu_init, FirstOnTheWay, EmptyLatch, EmptyStallLatch
<1>6. FirstInv
  BY <1>3, <1>4, <1>5 DEF FirstInv
<1>7. TimesOK(issueQueue, issue_counter)
  BY <1>2 DEF TimesOK, Counted, NoSourceOps
<1> QED
  BY <1>2, <1>6, <1>7 DEF TimesInv

firstVars == <<issueQueue, issue_counter, branchQueue, lsq, ROB_size, LSQ_size, issue_queue,
               rename2_dispatch, decode_rename1, renameTable>>

\* Steps that leave the queues and the front end alone, and the units idle.
LEMMA FirstInvUnchanged ==
  ASSUME FirstInv, UNCHANGED firstVars, stage' \notin {"squash", "decode", "dispatch"},
         issue_counter = 0 => /\ UnitsIdle' /\ ~delete_ROB_head' /\ ~delete_LSQ_head'
  PROVE  FirstInv'
BY DEF FirstInv, firstVars, QueuesEmpty, FirstOnTheWay

\* With empty queues commit only drains the buses, which carry nothing.
LEMMA FirstInvCommit ==
  ASSUME TypeInv, RoBInv, FirstInv, CommitStage PROVE FirstInv'
<1>1. CASE issue_counter # 0
  BY <1>1 DEF CommitStage, iqVars, FirstInv
<1>2. CASE issue_counter = 0
  <2>1. QueuesEmpty /\ UnitsIdle
    BY <1>2 DEF FirstInv
  <2>2. RoBAtCommit = RoB /\ LSQAtCommit = lsq
    BY <2>1 DEF QueuesEmpty, RoBAtCommit, LSQAtCommit
  <2>3. ~RoB[0].established_bit
    BY <2>1, SlotSets, ROBNotEmpty DEF QueuesEmpty, RoBInv, RoBContiguous, RoBSlots
  <2>4. /\ ~delete_ROB_head' /\ ~delete_LSQ_head' /\ stage' \in {"MAU", "stopped"}
        /\ bus' = Drained(bus) /\ lsq' = lsq /\ ROB_size' = ROB_size /\ LSQ_size' = LSQ_size
        /\ UNCHANGED <<issueQueue, issue_counter, branchQueue, issue_queue, rename2_dispatch,
                       decode_rename1, renameTable, execute_IntFU, execute_MulFU, execute_AFU,
                       execute_BFU, execute_MAU, mulcycle_counter, BFU_pc>>
    BY <2>1, <2>2, <2>3 DEF CommitStage, WriteBack, AfterCommit, QueuesEmpty, iqVars, frontVars,
                            exVars, redirectVars
  <2>5. \A b \in Buses : bus'[b].tag = -1
    BY <2>4 DEF Drained, TypeInv, ForwardingTypes, BusType
  <2>6. UnitsIdle'
    BY <2>1, <2>4, <2>5 DEF UnitsIdle
  <2> QED
    BY <2>4, <2>6, FirstInvUnchanged DEF firstVars
<1> QED
  BY <1>1, <1>2

\* The function units have nothing to work on.
LEMMA FirstInvUnits ==
  ASSUME TypeInv, FirstInv, MAUStage \/ MulFUStage \/ BFUStage \/ AFUStage \/ IntFUStage
  PROVE  FirstInv'
<1>1. CASE issue_counter # 0
  BY <1>1 DEF MAUStage, MulFUStage, BFUStage, AFUStage, IntFUStage, iqVars, FirstInv
<1>2. CASE issue_counter = 0
  <2>1. QueuesEmpty /\ UnitsIdle
    BY <1>2 DEF FirstInv
  <2>2. ~MAUBusy
    BY <2>1, SlotSets DEF QueuesEmpty, UnitsIdle, MAUBusy, MAUStarts
  <2>3. /\ UNCHANGED <<bus, BFU_pc, branchQueue, mulcycle_counter, delete_ROB_head,
                       delete_LSQ_head, execute_IntFU, execute_MulFU, execute_AFU, execute_BFU>>
        /\ ~execute_MAU'.has_insn
    <3>1. /\ ~execute_IntFU.has_insn /\ ~execute_MulFU.has_insn /\ ~execute_AFU.has_insn
          /\ ~execute_BFU.has_insn /\ ~execute_MAU.has_insn
      BY <2>1 DEF UnitsIdle
    <3>2. CASE MAUStage
      <4>1. ~MAUAccesses
        BY <2>2 DEF MAUAccesses, MAUCompletes
      <4> QED
        BY <2>2, <3>2, <4>1 DEF MAUStage, exVars, redirectVars, iqVars, lsqVars, robVars
    <3>3. CASE MulFUStage
      BY <3>1, <3>3 DEF MulFUStage, redirectVars, iqVars, lsqVars, robVars, memVars
    <3>4. CASE BFUStage
      BY <3>1, <3>4 DEF BFUStage, redirectVars, iqVars, lsqVars, robVars, memVars
    <3>5. CASE AFUStage
      BY <3>1, <3>5 DEF AFUStage, redirectVars, iqVars, lsqVars, robVars, memVars
    <3>6. CASE IntFUStage
      BY <3>1, <3>6 DEF IntFUStage, redirectVars, iqVars, lsqVars, robVars, memVars
    <3> QED
      BY <3>2, <3>3, <3>4, <3>5, <3>6
  <2>4. UnitsIdle'
    BY <2>1, <2>3 DEF UnitsIdle
  <2>5. /\ UNCHANGED firstVars /\ stage' \in {"MulFU", "BFU", "AFU", "IntFU", "issue"}
    BY <2>3 DEF MAUStage, MulFUStage, BFUStage, AFUStage, IntFUStage, firstVars, iqVars, lsqVars,
                robVars, frontVars
  <2> QED
    BY <2>1, <2>3, <2>4, <2>5, FirstInvUnchanged DEF QueuesEmpty
<1> QED
  BY <1>1, <1>2

\* Fetch brings an instruction of the program.
LEMMA FirstInvFetch == ASSUME TypeInv, FirstInv, FetchStage PROVE FirstInv'
<1>1. CASE issue_counter # 0
  BY <1>1 DEF FetchStage, iqVars, FirstInv
<1>2. CASE issue_counter = 0
  <2>1. QueuesEmpty /\ UnitsIdle /\ FirstOnTheWay
    BY <1>2 DEF FirstInv
  <2>2. /\ stage = "fetch" /\ stage' = "commit"
        /\ UNCHANGED <<issueQueue, issue_counter, branchQueue, lsq, ROB_size, LSQ_size,
                       issue_queue, rename2_dispatch, renameTable, execute_IntFU, execute_MulFU,
                       execute_AFU, execute_BFU, execute_MAU, mulcycle_counter, BFU_pc, bus,
                       delete_ROB_head, delete_LSQ_head>>
        /\ decode_rename1' \in {decode_rename1, DecodeAfterFetch}
        /\ decode_rename1' = decode_rename1 \/ InCode(pc)
    BY <2>1 DEF FetchStage, UnitsIdle, iqVars, lsqVars, robVars, busVars, memVars, frontVars
  <2>3. InCode(pc) => pc # 0
    BY DEF InCode, CodeIndex, FIRST_PC
  <2>4. FetchedInstr.pc = pc
    BY DEF FetchedInstr, Fetched
  <2>5. decode_rename1'.has_insn
          => \/ decode_rename1' = decode_rename1
             \/ ~decode_rename1'.stall /\ decode_rename1'.instr.pc # 0
    BY <2>2, <2>3, <2>4 DEF DecodeAfterFetch
  <2>6. FirstOnTheWay'
    BY <2>1, <2>2, <2>5 DEF FirstOnTheWay
  <2>7. QueuesEmpty' /\ UnitsIdle'
    BY <2>1, <2>2 DEF QueuesEmpty, UnitsIdle
  <2> QED
    BY <2>2, <2>6, <2>7 DEF FirstInv
<1> QED
  BY <1>1, <1>2

\* Picking operands up and reading registers leaves the sources' names alone.
LEMMA OperandsKeepSources ==
  ASSUME NEW i \in Instrs, NEW lines \in BusType, NEW prf \in PRFType
  PROVE  SameSources(PickUp(i, lines), i) /\ SameSources(ReadPRF(i, prf), i)
<1>1. \A j \in Instrs : PickUp1(j, lines) \in Instrs /\ SameSources(PickUp1(j, lines), j)
  <2> SUFFICES ASSUME NEW j \in Instrs
               PROVE  PickUp1(j, lines) \in Instrs /\ SameSources(PickUp1(j, lines), j)
    OBVIOUS
  <2>1. PickUp1(j, lines) \in Instrs
    BY MatchingBusType, Source1Type DEF PickUp1
  <2> QED
    BY <2>1 DEF PickUp1, SameSources, Instrs
<1>2. \A j \in Instrs : SameSources(PickUp2(j, lines), j)
  BY DEF PickUp2, SameSources, Instrs
<1>3. \A j \in Instrs : ReadPRF1(j, prf) \in Instrs /\ SameSources(ReadPRF1(j, prf), j)
  <2> SUFFICES ASSUME NEW j \in Instrs
               PROVE  ReadPRF1(j, prf) \in Instrs /\ SameSources(ReadPRF1(j, prf), j)
    OBVIOUS
  <2>1. ASSUME PRFValid(prf, j.phyrs1) PROVE prf[j.phyrs1].data \in Int
    BY <2>1, InstrFields DEF PRFType, PRFValid, Tags
  <2>2. ReadPRF1(j, prf) \in Instrs
    BY <2>1, Source1Type DEF ReadPRF1
  <2> QED
    BY <2>2 DEF ReadPRF1, SameSources, Instrs
<1>4. \A j \in Instrs : SameSources(ReadPRF2(j, prf), j)
  BY DEF ReadPRF2, SameSources, Instrs
<1> QED
  BY <1>1, <1>2, <1>3, <1>4 DEF PickUp, ReadPRF, SameSources

\* The empty queues have room for the first instruction.
LEMMA RoomForFirst ==
  ASSUME QueuesEmpty, NEW op PROVE RoomFor(op, issueQueue, ROB_size, LSQ_size)
<1>1. 0 \in IQSlots /\ 0 \in IQSlots \cap BQSlots
  BY SizesAssumption DEF IQSlots, BQSlots
<1> QED
  BY <1>1, SizesAssumption DEF QueuesEmpty, RoomFor, IsIssueQueueFull, IsBranchQueueFull,
                               IsROBFull, IsLSQFull

\* Dispatch finds the queues empty, so the first instruction gets through.
LEMMA FirstInvDispatch == ASSUME TypeInv, FirstInv, DispatchStage PROVE FirstInv'
<1>1. CASE issue_counter # 0
  BY <1>1 DEF DispatchStage, iqVars, FirstInv
<1>2. CASE issue_counter = 0
  <2>1. QueuesEmpty /\ UnitsIdle /\ FirstOnTheWay
    BY <1>2 DEF FirstInv
  <2> DEFINE i == ReadPRF(PickUp(rename2_dispatch.instr, bus), physicalRegFile)
  <2>2. /\ stage = "dispatch" /\ stage' = "decode"
        /\ UNCHANGED <<issueQueue, issue_counter, branchQueue, lsq, ROB_size, LSQ_size,
                       decode_rename1, renameTable, execute_IntFU, execute_MulFU,
                       execute_AFU, execute_BFU, execute_MAU, mulcycle_counter, BFU_pc, bus,
                       delete_ROB_head, delete_LSQ_head>>
    BY DEF DispatchStage, iqVars, lsqVars, robVars, busVars, memVars, exVars, redirectVars
  <2>3. QueuesEmpty' /\ UnitsIdle'
    BY <2>1, <2>2 DEF QueuesEmpty, UnitsIdle
  <2>4. ~issue_queue.has_insn
    BY <2>1, <2>2 DEF FirstOnTheWay
  <2>5. rename2_dispatch \in StallLatches /\ bus \in BusType /\ physicalRegFile \in PRFType
    BY DEF TypeInv, FrontTypes, ForwardingTypes, FileTypes
  <2>6. /\ SameSources(i, rename2_dispatch.instr)
        /\ i.opcode = rename2_dispatch.instr.opcode
    <3>1. rename2_dispatch.instr \in Instrs
      BY <2>5 DEF StallLatches
    <3>2. PickUp(rename2_dispatch.instr, bus) \in Instrs
      BY <2>5, <3>1, PickUpType
    <3>3. /\ SameSources(PickUp(rename2_dispatch.instr, bus), rename2_dispatch.instr)
          /\ SameSources(i, PickUp(rename2_dispatch.instr, bus))
      BY <2>5, <3>1, <3>2, OperandsKeepSources
    <3> QED
      BY <2>5, <3>1, <3>2, <3>3, PickUpKeepsOpcode, ReadPRFKeeps DEF SameSources
  <2>7. RoomFor(i.opcode, issueQueue, ROB_size, LSQ_size)
    BY <2>1, RoomForFirst
  <2> HIDE DEF i
  <2>8. CASE ~rename2_dispatch.has_insn
    <3>1. UNCHANGED <<rename2_dispatch, issue_queue>>
      BY <2>8 DEF DispatchStage
    <3> QED
      BY <2>1, <2>2, <2>3, <2>4, <2>8, <3>1 DEF FirstInv, FirstOnTheWay
  <2>9. CASE rename2_dispatch.has_insn /\ rename2_dispatch.instr.opcode = "DIV"
    <3>1. /\ rename2_dispatch' = [rename2_dispatch EXCEPT !.has_insn = FALSE]
          /\ issue_queue' = issue_queue
      BY <2>6, <2>9 DEF DispatchStage, i
    <3>2. ~rename2_dispatch'.has_insn /\ rename2_dispatch'.stall = rename2_dispatch.stall
      BY <2>5, <3>1 DEF StallLatches
    <3> QED
      BY <2>1, <2>2, <2>3, <2>4, <2>9, <3>1, <3>2 DEF FirstInv, FirstOnTheWay
  <2>10. CASE rename2_dispatch.has_insn /\ rename2_dispatch.instr.opcode # "DIV"
    <3>1. /\ ~rename2_dispatch'.has_insn
          /\ issue_queue' = [has_insn |-> TRUE, instr |-> i]
      BY <2>6, <2>7, <2>10 DEF DispatchStage, i
    <3>2. IsFirst(i)
      BY <2>1, <2>4, <2>6, <2>10 DEF FirstOnTheWay, IsFirst, SameSources
    <3> QED
      BY <2>2, <2>3, <3>1, <3>2 DEF FirstInv, FirstOnTheWay
  <2> QED
    BY <2>8, <2>9, <2>10
<1> QED
  BY <1>1, <1>2

\* As long as nothing is renamed, decode sends on an instruction without producers.
LEMMA FirstDecoded ==
  ASSUME TypeInv, DecodeStage, decode_rename1.has_insn, ~rename2_dispatch.stall,
         ~decode_rename1.stall, decode_rename1.instr.pc # 0,
         \A r \in Registers : renameTable[r] = NOT_RENAMED
  PROVE  /\ rename2_dispatch'.has_insn /\ ~decode_rename1'.has_insn
         /\ rename2_dispatch'.instr.opcode # "DIV" => IsFirst(rename2_dispatch'.instr)
         /\ rename2_dispatch'.instr.opcode = "DIV"
              => ~rename2_dispatch'.stall /\ renameTable' = renameTable
<1> DEFINE l == LookedUp(decode_rename1.instr)
           i == PickUp(l, bus)
           stall == decode_rename1.stall \/ StallsBehind(i)
           r0 == Renaming(i, renameTable, freePhysicalRegList, physicalRegFile, stall)
           r1 == RenameDestination(r0)
           r2 == RenamePointer(r1)
           r == RenameFlags(r2)
<1>1. /\ decode_rename1' = [has_insn |-> FALSE, stall |-> r.stall, instr |-> r.instr]
      /\ rename2_dispatch' = [has_insn |-> TRUE, stall |-> r.stall, instr |-> r.instr]
      /\ renameTable' = r.table
  <2>1. /\ decode_rename1' = [has_insn |-> ~(~rename2_dispatch.stall), stall |-> r.stall,
                              instr |-> r.instr]
        /\ rename2_dispatch' = IF ~rename2_dispatch.stall
                               THEN [has_insn |-> TRUE, stall |-> r.stall, instr |-> r.instr]
                               ELSE rename2_dispatch
        /\ renameTable' = r.table
    BY DEF DecodeStage, DecodeInstruction
  <2>2. (~(~rename2_dispatch.stall)) = FALSE
    OBVIOUS
  <2> HIDE DEF r
  <2> QED
    BY <2>1, <2>2
<1>2. /\ decode_rename1 \in StallLatches /\ bus \in BusType /\ physicalRegFile \in PRFType
      /\ freePhysicalRegList \in ListType /\ renameTable \in TableType
  BY DEF TypeInv, FrontTypes, FileTypes, ForwardingTypes, RenameTypes
<1>3. decode_rename1.instr \in Instrs
  BY <1>2 DEF StallLatches
<1>4. /\ l \in Instrs /\ l.pc # 0
      /\ l.opcode \in Source1Ops => l.phyrs1 = -1
      /\ l.opcode \in Source2Ops => l.phyrs2 = -1
  <2>1. l \in Instrs /\ l.pc = decode_rename1.instr.pc /\ l.opcode = decode_rename1.instr.opcode
    BY <1>2, <1>3, LookedUpType, LookedUpKeepsPc
  <2>2. decode_rename1.instr.rs1 \in Registers /\ decode_rename1.instr.rs2 \in Registers
    BY <1>3, InstrFields, RegisterIndices
  <2>3. /\ l.opcode \in Source1Ops => l.phyrs1 = renameTable[decode_rename1.instr.rs1]
        /\ l.opcode \in Source2Ops => l.phyrs2 = renameTable[decode_rename1.instr.rs2]
    BY <1>3, <2>1 DEF LookedUp, Instrs
  <2> QED
    BY <2>1, <2>2, <2>3 DEF NOT_RENAMED
<1> HIDE DEF l
<1>5. i \in Instrs /\ SameSources(i, l) /\ i.opcode = l.opcode
  BY <1>2, <1>4, PickUpType, PickUpKeepsOpcode, OperandsKeepSources
<1> HIDE DEF i
<1>6. stall \in BOOLEAN /\ (i.opcode = "DIV" => stall = FALSE)
  BY DEF StallsBehind, StallsDecode, JumpOps, ConditionalBranches
<1> HIDE DEF stall
<1>7. /\ r0 \in RenamingType /\ r0.instr = i /\ r0.stall = stall /\ r0.table = renameTable
  BY <1>2, <1>5, <1>6 DEF Renaming, RenamingType, ListType
<1> HIDE DEF r0
<1>8. /\ r1 \in RenamingType /\ SameSources(r1.instr, i) /\ r1.instr.opcode = i.opcode
      /\ i.opcode = "DIV" => r1 = r0
  <2>1. "DIV" \notin DestinationOps
    BY DEF DestinationOps, Alu2Ops, AluLiteralOps, LoadOps
  <2> QED
    BY <1>7, <2>1, RenameDestinationType, OpcodeKept, RenamingKeepsPc DEF RenameDestination
<1> HIDE DEF r1
<1>9. /\ r2 \in RenamingType /\ SameSources(r2.instr, r1.instr) /\ r2.instr.opcode = i.opcode
      /\ i.opcode = "DIV" => r2 = r1
  BY <1>8, RenamePointerType, OpcodeKept, RenamingKeepsPc DEF RenamePointer, PointerOps
<1> HIDE DEF r2
<1>10. /\ SameSources(r.instr, r2.instr) /\ r.instr.opcode = i.opcode
       /\ i.opcode = "DIV" => r = r2
  <2>1. r2.instr \in Instrs /\ DOMAIN r2 = {"instr", "table", "list", "prf", "stall"}
    BY <1>9 DEF RenamingType
  <2>2. "DIV" \notin FlagOps
    BY DEF FlagOps, Alu2Ops, AluLiteralOps
  <2>3. r.instr.opcode = i.opcode /\ SameSources(r.instr, r2.instr)
    BY <1>9, <2>1 DEF RenameFlags, Instrs, SameSources
  <2> QED
    BY <1>9, <2>2, <2>3 DEF RenameFlags
<1> HIDE DEF r
<1>11. SameSources(r.instr, l) /\ r.instr.opcode = l.opcode
  BY <1>5, <1>8, <1>9, <1>10 DEF SameSources
<1>12. r.instr.opcode # "DIV" => IsFirst(r.instr)
  BY <1>4, <1>11 DEF IsFirst, SameSources
<1>13. i.opcode = "DIV" => r.stall = FALSE /\ r.table = renameTable
  BY <1>6, <1>7, <1>8, <1>9, <1>10
<1> QED
  BY <1>1, <1>10, <1>12, <1>13

\* What decode adds while nothing is renamed is the first instruction, or a DIV.
LEMMA FirstInvDecode == ASSUME TypeInv, FirstInv, DecodeStage PROVE FirstInv'
<1>1. CASE issue_counter # 0
  BY <1>1 DEF DecodeStage, iqVars, FirstInv
<1>2. CASE issue_counter = 0
  <2>1. QueuesEmpty /\ UnitsIdle /\ FirstOnTheWay /\ ~rename2_dispatch.has_insn
    BY <1>2 DEF FirstInv, DecodeStage
  <2>2. /\ stage = "decode" /\ stage' = "fetch"
        /\ UNCHANGED <<issueQueue, issue_counter, branchQueue, lsq, ROB_size, LSQ_size,
                       issue_queue, execute_IntFU, execute_MulFU,
                       execute_AFU, execute_BFU, execute_MAU, mulcycle_counter, BFU_pc, bus,
                       delete_ROB_head, delete_LSQ_head>>
    BY DEF DecodeStage, iqVars, lsqVars, robVars, busVars, memVars, exVars, redirectVars
  <2>3. QueuesEmpty' /\ UnitsIdle'
    BY <2>1, <2>2 DEF QueuesEmpty, UnitsIdle
  <2>4. FirstOnTheWay'
    <3>1. CASE issue_queue.has_insn
      BY <2>1, <2>2, <3>1 DEF FirstOnTheWay
    <3>2. CASE ~issue_queue.has_insn /\ ~decode_rename1.has_insn
      <4>1. UNCHANGED <<renameTable, decode_rename1, rename2_dispatch>>
        BY <3>2 DEF DecodeStage
      <4> QED
        BY <2>1, <2>2, <3>2, <4>1 DEF FirstOnTheWay
    <3>3. CASE ~issue_queue.has_insn /\ decode_rename1.has_insn
      <4>1. /\ \A r \in Registers : renameTable[r] = NOT_RENAMED
            /\ ~rename2_dispatch.stall /\ ~decode_rename1.stall
            /\ decode_rename1.instr.pc # 0
        BY <2>1, <3>3 DEF FirstOnTheWay
      <4>2. /\ rename2_dispatch'.has_insn /\ ~decode_rename1'.has_insn
            /\ rename2_dispatch'.instr.opcode # "DIV" => IsFirst(rename2_dispatch'.instr)
            /\ rename2_dispatch'.instr.opcode = "DIV"
                 => ~rename2_dispatch'.stall /\ renameTable' = renameTable
        BY <3>3, <4>1, FirstDecoded
      <4> QED
        BY <2>2, <3>3, <4>1, <4>2 DEF FirstOnTheWay, IsFirst
    <3> QED
      BY <3>1, <3>2, <3>3
  <2> QED
    BY <2>2, <2>3, <2>4 DEF FirstInv
<1> QED
  BY <1>1, <1>2

\* When one instruction waits, with time 0, a wakeup takes it or nothing, and takes it
\* if it is a candidate.
LEMMA OnlyOneWaits ==
  ASSUME NEW q \in IQType, NEW only \in IQSlots,
         \A k \in IQSlots : q[k].valid_bit => k = only /\ q[k].dispatch_time = 0,
         NEW times \in SUBSET Nat
  PROVE  /\ SelectedSlot(q, times) \in {only, -1}
         /\ 0 \in times /\ q[only].valid_bit => SelectedSlot(q, times) = only
<1> DEFINE all == times \cup {MIN_COUNTER_START}
           min == MinCounter(times)
           S == {k \in IQSlots : q[k].valid_bit /\ q[k].dispatch_time = min}
<1>1. FirstIndex(S) \in S \cup {-1} /\ SelectedSlot(q, times) = FirstIndex(S)
  BY SlotSets, Found DEF SelectedSlot
<1>2. S \subseteq {only}
  OBVIOUS
<1>3. min \in all /\ \A t \in all : min <= t
  <2>1. all \in SUBSET Nat /\ all # {}
    BY SizesAssumption
  <2>2. \E t \in all : \A u \in all : t <= u
    BY <2>1, LeastElement
  <2> QED
    BY <2>2 DEF MinCounter
<1>4. 0 \in times => min = 0
  <2>1. min \in Nat
    BY <1>3, SizesAssumption
  <2>2. 0 \in times => min <= 0
    BY <1>3
  <2> HIDE DEF min
  <2> QED
    BY <2>1, <2>2
<1>5. 0 \in times /\ q[only].valid_bit => only \in S
  BY <1>4
<1>6. S # {} => FirstIndex(S) \in S
  <2>1. S \in SUBSET Nat
    BY SlotSets
  <2> HIDE DEF S
  <2> QED
    BY <2>1, FoundFirst
<1> QED
  BY <1>1, <1>2, <1>5, <1>6

\* Every operation but DIV has a function unit.
LEMMA EveryKind ==
  \A op \in Opcodes \ {"DIV"} : op \in NoSourceOps \cup IntFUSourceOps \cup {"MUL"} \cup AFUOps
BY DEF Opcodes, NoSourceOps, IntFUSourceOps, AFUOps, Alu2Ops, AluLiteralOps, MemoryOps, LoadOps,
       StoreOps, BranchOps, ConditionalBranches, JumpOps

\* An idle bus carries the tag of a source that was never renamed.
LEMMA FirstIsReady ==
  ASSUME NEW i \in Instrs, NEW lines \in BusType, \A b \in Buses : lines[b].tag = -1, IsFirst(i)
  PROVE  SourcesValid(PickUp(i, lines))
<1>1. MatchingBus(lines, -1) # -1
  <2> DEFINE S == {b \in Buses : lines[b].tag = -1}
  <2>1. S \in SUBSET Nat /\ 1 \in S
    BY DEF Buses
  <2> HIDE DEF S
  <2>2. FirstIndex(S) \in Nat
    BY <2>1, FoundFirst
  <2>3. MatchingBus(lines, -1) = FirstIndex(S)
    BY DEF S, MatchingBus
  <2> QED
    BY <2>2, <2>3
<1> DEFINE j == PickUp1(i, lines)
           k == PickUp2(j, lines)
<1>2. /\ j \in Instrs /\ j.opcode = i.opcode /\ j.phyrs2 = i.phyrs2
      /\ i.opcode \in Source1Ops => j.phyrs1_valid
  <2>1. j \in Instrs
    BY MatchingBusType, Source1Type DEF PickUp1
  <2> QED
    BY <1>1, <2>1 DEF PickUp1, IsFirst, Instrs
<1> HIDE DEF j
<1>3. /\ k.opcode = i.opcode /\ k.phyrs1_valid = j.phyrs1_valid
      /\ i.opcode \in Source2Ops => k.phyrs2_valid
  BY <1>1, <1>2 DEF PickUp2, IsFirst, Instrs
<1> HIDE DEF k
<1>4. PickUp(i, lines) = k
  BY DEF PickUp, k, j
<1> QED
  BY <1>2, <1>3, <1>4 DEF SourcesValid

\* The first instruction leaves the issue queue in the stage that has established it.
LEMMA FirstIssued ==
  ASSUME TypeInv, QueuesEmpty, UnitsIdle, issue_counter = 0, NEW i \in Instrs, IsFirst(i),
         WakeUp(EstablishIQ(issueQueue, i, issue_counter))
  PROVE  /\ FreeIQSlot(issueQueue, i.pc) # -1
         /\ \A k \in IQSlots : ~issueQueue'[k].valid_bit
<1>1. bus \in BusType /\ issueQueue \in IQType
  BY DEF TypeInv, ForwardingTypes, QueueTypes
<1> DEFINE only == FreeIQSlot(issueQueue, i.pc)
           e == [valid_bit |-> TRUE, dispatch_time |-> 0, instr |-> i]
           established == EstablishIQ(issueQueue, i, issue_counter)
<1>2. only \in IQSlots
  <2> DEFINE S == {k \in IQSlots : ~issueQueue[k].valid_bit /\ issueQueue[k].instr.pc # i.pc}
  <2>1. S \in SUBSET Nat /\ 0 \in S
    BY SlotSets, SizesAssumption DEF IQSlots, QueuesEmpty, IsFirst
  <2>2. FirstIndex(S) \in S
    BY <2>1, FoundFirst
  <2> QED
    BY <2>2 DEF FreeIQSlot
<1>3. only # -1
  BY <1>2, SlotSets
<1>4. established = [issueQueue EXCEPT ![only] = e] /\ established \in IQType
  BY <1>1, <1>3, EstablishIQType DEF EstablishIQ
<1> HIDE DEF only, established
<1>5. \A k \in IQSlots : established[k] = IF k = only THEN e ELSE issueQueue[k]
  BY <1>1, <1>4 DEF IQType
<1> DEFINE woken == WokenIQ(established, bus)
           intSlot == SelectedSlot(woken, IntFUTimes(woken))
           afterInt == Issued(woken, intSlot)
           mulSlot == IF MulFUFree THEN SelectedSlot(afterInt, MulFUTimes(afterInt)) ELSE -1
           afterMul == Issued(afterInt, mulSlot)
           afuSlot == SelectedSlot(afterMul, AFUTimes(afterMul))
           Waits(q) == /\ q \in IQType
                       /\ \A k \in IQSlots : q[k].valid_bit => k = only /\ q[k].dispatch_time = 0
<1>6. issueQueue' = Issued(afterMul, afuSlot)
  BY DEF WakeUp, established
<1>7. /\ Waits(woken) /\ woken[only].valid_bit /\ woken[only].dispatch_time = 0
      /\ woken[only].instr = PickUp(i, bus)
  <2>1. woken \in IQType /\ SameTimes(established, woken)
    BY <1>1, <1>4, WokenIQType, WokenTimes
  <2>2. \A k \in IQSlots : ~issueQueue[k].valid_bit
    BY DEF QueuesEmpty
  <2>3. woken[only].instr = PickUp(i, bus) /\ woken[only].valid_bit
    <3>1. established[only].valid_bit /\ established[only].instr = i
      BY <1>2, <1>5
    <3>2. woken[only] = [established[only] EXCEPT !.instr = PickUp(@, bus)]
      BY <1>2, <3>1 DEF WokenIQ
    <3>3. established[only] \in IQEntries
      BY <1>2, <1>4 DEF IQType
    <3> HIDE DEF woken
    <3> QED
      BY <3>1, <3>2, <3>3 DEF IQEntries
  <2> HIDE DEF woken
  <2> QED
    BY <1>2, <1>5, <2>1, <2>2, <2>3 DEF SameTimes
<1>8. woken[only].instr.opcode = i.opcode /\ SourcesValid(woken[only].instr)
  BY <1>1, <1>7, PickUpKeepsOpcode, FirstIsReady DEF UnitsIdle
<1> HIDE DEF woken
<1>9. ASSUME NEW q, Waits(q), NEW times \in SUBSET Nat, NEW s, s = SelectedSlot(q, times)
      PROVE  /\ s \in {only, -1} /\ Waits(Issued(q, s))
             /\ s = -1 => Issued(q, s) = q
             /\ s = only => \A k \in IQSlots : ~Issued(q, s)[k].valid_bit
             /\ 0 \in times /\ q[only].valid_bit => s = only
  <2>1. s \in {only, -1} /\ (0 \in times /\ q[only].valid_bit => s = only)
    BY <1>2, <1>9, OnlyOneWaits
  <2>2. s \in IQSlots \cup {-1}
    BY <1>2, <2>1
  <2>3. /\ Issued(q, s) \in IQType /\ SameTimes(q, Issued(q, s))
        /\ s = -1 => Issued(q, s) = q
        /\ s # -1 => ~Issued(q, s)[s].valid_bit
    BY <1>9, <2>2, IssuedType, IssuedTimes
  <2>4. Waits(Issued(q, s))
    BY <1>9, <2>3 DEF SameTimes
  <2>5. s = only => ~Issued(q, s)[only].valid_bit
    BY <1>3, <2>3
  <2> QED
    BY <2>1, <2>3, <2>4, <2>5
<1>10. \A q \in IQType : /\ IntFUTimes(q) \in SUBSET Nat /\ MulFUTimes(q) \in SUBSET Nat
                         /\ AFUTimes(q) \in SUBSET Nat
  BY DEF IntFUTimes, MulFUTimes, AFUTimes, IQType, IQEntries
<1>11. /\ Waits(afterInt)
       /\ intSlot = only => \A k \in IQSlots : ~afterInt[k].valid_bit
       /\ intSlot # only => afterInt = woken
       /\ i.opcode \in NoSourceOps \cup IntFUSourceOps => intSlot = only
  <2>1. i.opcode \in NoSourceOps \cup IntFUSourceOps => 0 \in IntFUTimes(woken)
    BY <1>2, <1>7, <1>8 DEF IntFUTimes
  <2>2. IntFUTimes(woken) \in SUBSET Nat
    BY <1>7, <1>10
  <2> QED
    BY <1>7, <1>9, <2>1, <2>2
<1> HIDE DEF afterInt, intSlot
<1>12. /\ Waits(afterMul)
       /\ mulSlot = only => \A k \in IQSlots : ~afterMul[k].valid_bit
       /\ mulSlot # only => afterMul = afterInt
       /\ i.opcode = "MUL" /\ intSlot # only => mulSlot = only
  <2>1. i.opcode = "MUL" /\ intSlot # only => 0 \in MulFUTimes(afterInt)
    BY <1>2, <1>7, <1>8, <1>11 DEF MulFUTimes
  <2>2. MulFUTimes(afterInt) \in SUBSET Nat
    BY <1>10, <1>11
  <2>3. MulFUFree
    BY DEF MulFUFree, UnitsIdle
  <2> QED
    BY <1>7, <1>9, <1>11, <2>1, <2>2, <2>3
<1> HIDE DEF afterMul, mulSlot
<1>13. /\ Waits(issueQueue')
       /\ afuSlot = only => \A k \in IQSlots : ~issueQueue'[k].valid_bit
       /\ afuSlot # only => issueQueue' = afterMul
       /\ i.opcode \in AFUOps /\ intSlot # only /\ mulSlot # only => afuSlot = only
  <2>1. i.opcode \in AFUOps /\ intSlot # only /\ mulSlot # only => 0 \in AFUTimes(afterMul)
    BY <1>2, <1>7, <1>8, <1>11, <1>12 DEF AFUTimes
  <2>2. AFUTimes(afterMul) \in SUBSET Nat
    BY <1>10, <1>12
  <2> QED
    BY <1>6, <1>7, <1>9, <1>11, <1>12, <2>1, <2>2
<1> HIDE DEF afuSlot
<1>14. i.opcode \in NoSourceOps \cup IntFUSourceOps \cup {"MUL"} \cup AFUOps
  BY EveryKind DEF IsFirst, Instrs
<1>15. intSlot = only \/ mulSlot = only \/ afuSlot = only
  BY <1>11, <1>12, <1>13, <1>14
<1>16. ASSUME NEW q, Waits(q), NEW s, \A k \in IQSlots : ~q[k].valid_bit,
              NEW t \in SUBSET Nat, s = SelectedSlot(q, t)
       PROVE  \A k \in IQSlots : ~Issued(q, s)[k].valid_bit
  BY <1>9, <1>16
<1> QED
  BY <1>2, <1>3, <1>6, <1>11, <1>12, <1>13, <1>15, <1>16 DEF only

\* Without anything dispatched no unit receives anything.
LEMMA NothingIssued ==
  ASSUME TypeInv, QueuesEmpty, WakeUp(issueQueue)
  PROVE  /\ UNCHANGED <<execute_IntFU, execute_MulFU, execute_AFU, mulcycle_counter>>
         /\ \A k \in IQSlots : ~issueQueue'[k].valid_bit /\ issueQueue'[k].instr.pc = 0
<1>1. bus \in BusType /\ issueQueue \in IQType
  BY DEF TypeInv, ForwardingTypes, QueueTypes
<1> DEFINE woken == WokenIQ(issueQueue, bus)
           intSlot == SelectedSlot(woken, IntFUTimes(woken))
           afterInt == Issued(woken, intSlot)
           mulSlot == IF MulFUFree THEN SelectedSlot(afterInt, MulFUTimes(afterInt)) ELSE -1
           afterMul == Issued(afterInt, mulSlot)
           afuSlot == SelectedSlot(afterMul, AFUTimes(afterMul))
<1>2. /\ execute_IntFU' = Received(execute_IntFU, woken, intSlot)
      /\ execute_MulFU' = Received(execute_MulFU, afterInt, mulSlot)
      /\ mulcycle_counter' = IF mulSlot = -1 THEN mulcycle_counter ELSE 3
      /\ execute_AFU' = Received(execute_AFU, afterMul, afuSlot)
      /\ issueQueue' = Issued(afterMul, afuSlot)
  BY DEF WakeUp
<1>3. /\ \A k \in IQSlots : ~woken[k].valid_bit /\ woken[k].instr.pc = 0
      /\ woken \in IQType
  BY <1>1, WokenIQType DEF QueuesEmpty, WokenIQ
<1> HIDE DEF woken
<1>4. \A t : SelectedSlot(woken, t) = -1
  BY <1>3 DEF SelectedSlot, FirstIndex
<1>5. \A s : s = -1 => Issued(woken, s) = woken
  BY <1>3, IssuedTimes
<1>6. intSlot = -1
  BY <1>4
<1>7. afterInt = woken
  BY <1>5, <1>6
<1> HIDE DEF intSlot, afterInt
<1>8. mulSlot = -1
  BY <1>4, <1>7
<1>9. afterMul = woken
  BY <1>5, <1>7, <1>8
<1> HIDE DEF mulSlot, afterMul
<1>10. afuSlot = -1
  BY <1>4, <1>9
<1> HIDE DEF afuSlot
<1>11. issueQueue' = woken
  BY <1>2, <1>5, <1>9, <1>10
<1> QED
  BY <1>2, <1>3, <1>6, <1>8, <1>10, <1>11 DEF Received

\* Nor does the BFU, and no entry is made.
LEMMA NothingDelivered ==
  ASSUME TypeInv, QueuesEmpty, DeliverAddresses(branchQueue, lsq, LSQ_tail)
  PROVE  /\ execute_BFU' = execute_BFU
         /\ \A k \in BQSlots : ~branchQueue'[k].valid_bit
         /\ \A k \in LSQSlots : ~lsq'[k].established_bit
<1> DEFINE addressed == AddressedSlot(lsq, LSQ_tail, AFU_address, AFU_pc)
           address == IF addressed = -1 THEN AFU_address ELSE -1
           targeted == TargetedBQ(branchQueue, address, AFU_pc)
           bfuSlot == BFUSlot(targeted)
<1>1. /\ lsq' = UpdatedLSQ(lsq, LSQ_tail, AFU_address, AFU_pc, bus)
      /\ execute_BFU' = IF bfuSlot = -1 THEN execute_BFU
                        ELSE [has_insn |-> TRUE, instr |-> targeted[bfuSlot].instr]
      /\ branchQueue' = IF bfuSlot = -1 THEN targeted
                        ELSE [targeted EXCEPT ![bfuSlot].issuedToBFU = TRUE]
  BY DEF DeliverAddresses
<1> HIDE DEF address
<1>2. \A k \in BQSlots : ~targeted[k].valid_bit
  BY DEF QueuesEmpty, TargetedBQ
<1> HIDE DEF targeted
<1>3. bfuSlot = -1
  BY <1>2 DEF BFUSlot, FirstIndex
<1> HIDE DEF bfuSlot
<1>4. \A k \in LSQSlots : ~lsq'[k].established_bit
  BY <1>1, UpdatedKeeps DEF TypeInv, LSQTypes, QueuesEmpty
<1> QED
  BY <1>1, <1>2, <1>3, <1>4

\* The first instruction is issued at once, and with it the counter leaves 0.
LEMMA FirstInvIssue == ASSUME TypeInv, FirstInv, IssueStage PROVE FirstInv'
<1>1. CASE issue_counter # 0
  <2>1. issue_counter' \in {issue_counter, issue_counter + 1} /\ issue_counter \in Nat
    BY DEF IssueStage, TypeInv, QueueTypes
  <2>2. issue_counter' # 0
    BY <1>1, <2>1
  <2> QED
    BY <2>2 DEF FirstInv
<1>2. CASE issue_counter = 0
  <2>1. QueuesEmpty /\ UnitsIdle /\ FirstOnTheWay
    BY <1>2 DEF FirstInv
  <2>2. CASE issue_queue.has_insn
    <3> DEFINE i == issue_queue.instr
    <3>1. /\ issue_counter' = IF FreeIQSlot(issueQueue, i.pc) # -1
                              THEN issue_counter + 1 ELSE issue_counter
          /\ WakeUp(EstablishIQ(issueQueue, i, issue_counter))
      BY <2>2 DEF IssueStage
    <3>2. IsFirst(i) /\ i \in Instrs
      BY <2>1, <2>2 DEF FirstOnTheWay, TypeInv, FrontTypes, Latches
    <3> HIDE DEF i
    <3>3. FreeIQSlot(issueQueue, i.pc) # -1
      BY <1>2, <2>1, <3>1, <3>2, FirstIssued
    <3>4. issue_counter' = 1
      BY <1>2, <3>1, <3>3
    <3> QED
      BY <3>4 DEF FirstInv
  <2>3. CASE ~issue_queue.has_insn
    <3>1. /\ stage' = "dispatch" /\ WakeUp(issueQueue)
          /\ DeliverAddresses(branchQueue, lsq, LSQ_tail)
          /\ issue_queue' = [issue_queue EXCEPT !.has_insn = FALSE]
          /\ UNCHANGED <<issue_counter, ROB_size, LSQ_size, decode_rename1, rename2_dispatch,
                         renameTable, delete_ROB_head, delete_LSQ_head, execute_MAU, bus, BFU_pc>>
      BY <2>3 DEF IssueStage, busVars, memVars, redirectVars
    <3>2. ~issue_queue'.has_insn
      BY <3>1 DEF TypeInv, FrontTypes, Latches
    <3>3. QueuesEmpty' /\ UnitsIdle'
      BY <2>1, <3>1, NothingIssued, NothingDelivered DEF QueuesEmpty, UnitsIdle
    <3>4. FirstOnTheWay'
      BY <2>1, <2>3, <3>1, <3>2 DEF FirstOnTheWay, IsFirst
    <3> QED
      BY <3>1, <3>3, <3>4 DEF FirstInv
  <2> QED
    BY <2>2, <2>3
<1> QED
  BY <1>1, <1>2

\* What the issue stage gives the units, and the order of what goes on waiting.
LEMMA TimesAtIssue ==
  ASSUME TypeInv, TimesInv, FirstInv', IssueStage, issue_counter' <= MIN_COUNTER_START
  PROVE  /\ TimesInv'
         /\ ReceivesOldest(execute_IntFU, execute_IntFU', IntFUSourceOps \cup NoSourceOps)
         /\ ReceivesOldest(execute_MulFU, execute_MulFU', {"MUL"})
         /\ ReceivesOldest(execute_AFU, execute_AFU', AFUOps)
         /\ UnitsTake(WokenIQ(Established, bus))
<1> DEFINE i == issue_queue.instr
           has == issue_queue.has_insn
           counter == IF has /\ FreeIQSlot(issueQueue, i.pc) # -1
                      THEN issue_counter + 1 ELSE issue_counter
           established == IF has THEN EstablishIQ(issueQueue, i, issue_counter) ELSE issueQueue
<1>1. issue_counter' = counter /\ WakeUp(established)
  BY DEF IssueStage
<1>2. /\ issueQueue \in IQType /\ issue_counter \in Nat /\ i \in Instrs
      /\ TimesOK(issueQueue, issue_counter)
      /\ \A k \in IQSlots : issueQueue[k].valid_bit => issueQueue[k].dispatch_time > 0
  BY DEF TypeInv, QueueTypes, FrontTypes, Latches, TimesInv
<1>3. counter \in Nat /\ counter >= issue_counter
  BY <1>2
<1>4. /\ established \in IQType /\ TimesOK(established, counter)
      /\ \A k \in IQSlots : \/ established[k] = issueQueue[k]
                            \/ /\ ~issueQueue[k].valid_bit
                               /\ established[k].dispatch_time = issue_counter
  <2>1. CASE has
    BY <1>2, <2>1, EstablishIQType, EstablishedTimes
  <2>2. CASE ~has
    BY <1>2, <2>2
  <2> QED
    BY <2>1, <2>2
<1> HIDE DEF established, counter
<1>5. OldOrNew(established)
  BY <1>4 DEF OldOrNew
<1>6. \A k \in IQSlots : issueQueue[k].valid_bit => established[k] = issueQueue[k]
  BY <1>4
<1>7. counter <= MIN_COUNTER_START
  BY <1>1
<1>8. /\ ReceivesOldest(execute_IntFU, execute_IntFU', IntFUSourceOps \cup NoSourceOps)
      /\ ReceivesOldest(execute_MulFU, execute_MulFU', {"MUL"})
      /\ ReceivesOldest(execute_AFU, execute_AFU', AFUOps)
      /\ TimesOK(issueQueue', counter) /\ OldOrNew(issueQueue')
      /\ issueQueue' \in IQType
      /\ UnitsTake(WokenIQ(established, bus))
  BY <1>1, <1>2, <1>3, <1>4, <1>5, <1>6, <1>7, WakeUpInOrder
<1>9. TimesOK(issueQueue, issue_counter)'
  BY <1>1, <1>8
<1>10. ASSUME NEW k \in IQSlots, issueQueue'[k].valid_bit
       PROVE  issueQueue'[k].dispatch_time > 0
  <2>1. \/ issueQueue[k].valid_bit /\ issueQueue'[k].dispatch_time = issueQueue[k].dispatch_time
        \/ issueQueue'[k].dispatch_time = issue_counter
    BY <1>8, <1>10 DEF OldOrNew
  <2>2. CASE issueQueue[k].valid_bit /\ issueQueue'[k].dispatch_time = issueQueue[k].dispatch_time
    BY <1>2, <2>2
  <2>3. CASE issueQueue'[k].dispatch_time = issue_counter /\ issue_counter # 0
    BY <1>2, <2>3
  <2>4. CASE issue_counter = 0
    <3>1. issue_counter' # 0
      BY <1>10 DEF FirstInv, QueuesEmpty
    <3>2. has
      BY <1>1, <2>4, <3>1 DEF counter
    <3>3. QueuesEmpty /\ UnitsIdle /\ IsFirst(i)
      BY <2>4, <3>2 DEF TimesInv, FirstInv, FirstOnTheWay
    <3>4. WakeUp(EstablishIQ(issueQueue, i, issue_counter))
      BY <1>1, <3>2 DEF established
    <3> HIDE DEF i
    <3>5. ~issueQueue'[k].valid_bit
      BY <1>2, <2>4, <3>3, <3>4, FirstIssued
    <3> QED
      BY <1>10, <3>5
  <2> QED
    BY <2>1, <2>2, <2>3, <2>4
<1> QED
  BY <1>8, <1>9, <1>10 DEF TimesInv, established, Established

\* A squash takes an instruction from those that wait and leaves time 0 behind.
LEMMA TimesAtSquash ==
  ASSUME TypeInv, TimesInv, FirstInv', SquashTail PROVE TimesInv'
<1> DEFINE at == RoB[ROB_tail].instr.pc
           k == FirstIndex({s \in IQSlots : issueQueue[s].instr.pc = at})
<1>1. /\ issueQueue' = RemoveIQ(issueQueue, at) /\ issue_counter' = issue_counter
      /\ issue_counter # 0
  BY DEF SquashTail, TimesInv, FirstInv
<1>2. /\ issueQueue \in IQType /\ issue_counter \in Nat
      /\ TimesOK(issueQueue, issue_counter)
      /\ \A s \in IQSlots : issueQueue[s].valid_bit => issueQueue[s].dispatch_time > 0
  BY DEF TypeInv, QueueTypes, TimesInv
<1>3. k \in IQSlots \cup {-1}
  BY Found, SlotSets
<1>4. CASE k = -1
  <2>1. issueQueue' = issueQueue
    BY <1>1, <1>4 DEF RemoveIQ
  <2> QED
    BY <1>1, <1>2, <2>1 DEF TimesInv
<1>5. CASE k # -1
  <2> DEFINE e == [issueQueue[k] EXCEPT !.valid_bit = FALSE, !.dispatch_time = 0, !.instr.pc = 0]
  <2>1. issueQueue' = [issueQueue EXCEPT ![k] = e] /\ k \in IQSlots
    BY <1>1, <1>2, <1>3, <1>5 DEF RemoveIQ, IQType
  <2>2. issueQueue[k] \in IQEntries
    BY <1>2, <2>1 DEF IQType
  <2>3. ~e.valid_bit /\ e.dispatch_time = 0
    BY <2>2 DEF IQEntries
  <2> HIDE DEF e, k
  <2>4. \A s \in IQSlots : issueQueue'[s] = IF s = k THEN e ELSE issueQueue[s]
    BY <1>2, <2>1 DEF IQType
  <2>5. \A s \in IQSlots : Counted(issueQueue'[s]) => issueQueue'[s].dispatch_time < issue_counter
    BY <1>1, <1>2, <2>3, <2>4 DEF TimesOK
  <2>6. ASSUME NEW r \in IQSlots, NEW s \in IQSlots, issueQueue'[r].valid_bit,
               Counted(issueQueue'[s]), r # s
        PROVE  issueQueue'[r].dispatch_time # issueQueue'[s].dispatch_time
    <3>1. r # k /\ issueQueue'[r] = issueQueue[r]
      BY <2>3, <2>4, <2>6
    <3>2. CASE s = k
      BY <1>2, <2>3, <2>4, <2>6, <3>1, <3>2
    <3>3. CASE s # k
      BY <1>2, <2>4, <2>6, <3>1, <3>3 DEF TimesOK
    <3> QED
      BY <3>2, <3>3
  <2>7. \A s \in IQSlots : issueQueue'[s].valid_bit => issueQueue'[s].dispatch_time > 0
    BY <1>2, <2>3, <2>4
  <2>8. TimesOK(issueQueue, issue_counter)'
    BY <1>1, <2>5, <2>6 DEF TimesOK
  <2> QED
    BY <2>7, <2>8 DEF TimesInv
<1> QED
  BY <1>4, <1>5

\* Every step keeps the first instruction ready to be issued at once.
LEMMA FirstInvStep == TypeInv /\ RoBInv /\ FirstInv /\ [Next]_vars => FirstInv'
<1> SUFFICES ASSUME TypeInv, RoBInv, FirstInv, [Next]_vars PROVE FirstInv'
  OBVIOUS
<1>1. CASE CommitStage
  BY <1>1, FirstInvCommit
<1>2. CASE MAUStage \/ MulFUStage \/ BFUStage \/ AFUStage \/ IntFUStage
  BY <1>2, FirstInvUnits
<1>3. CASE IssueStage
  BY <1>3, FirstInvIssue
<1>4. CASE DispatchStage
  BY <1>4, FirstInvDispatch
<1>5. CASE DecodeStage
  BY <1>5, FirstInvDecode
<1>6. CASE FetchStage
  BY <1>6, FirstInvFetch
<1>7. CASE SquashTail \/ SquashEnds
  <2>1. issue_counter' = issue_counter /\ issue_counter # 0
    BY <1>7 DEF SquashTail, SquashEnds, FirstInv, iqVars
  <2> QED
    BY <2>1 DEF FirstInv
<1>8. CASE CommitBelowZero \/ MAUOutOfBounds \/ DecodeOutOfBounds \/ FetchOutOfBounds
             \/ UNCHANGED vars
  <2>1. /\ UNCHANGED firstVars
        /\ UNCHANGED <<delete_ROB_head, delete_LSQ_head, execute_IntFU, execute_MulFU,
                       execute_AFU, execute_BFU, execute_MAU, mulcycle_counter, BFU_pc, bus>>
        /\ stage' = stage \/ stage' = "undefined"
    BY <1>8 DEF CommitBelowZero, MAUOutOfBounds, DecodeOutOfBounds, FetchOutOfBounds,
                BecomesUndefined, vars, firstVars, iqVars, lsqVars, robVars, frontVars, exVars,
                memVars, busVars, redirectVars
  <2> QED
    BY <2>1 DEF FirstInv, firstVars, QueuesEmpty, UnitsIdle, FirstOnTheWay, IsFirst
<1> QED
  BY <1>1, <1>2, <1>3, <1>4, <1>5, <1>6, <1>7, <1>8 DEF Next

\* Every step keeps the order of what waits, up to the dispatch that uses the counter up.
LEMMA TimesInvStep ==
  /\ TypeInv /\ RoBInv /\ TimesInv /\ (issue_counter <= MIN_COUNTER_START)' /\ [Next]_vars
  => TimesInv'
<1> SUFFICES ASSUME TypeInv, RoBInv, TimesInv, (issue_counter <= MIN_COUNTER_START)', [Next]_vars
             PROVE  TimesInv'
  OBVIOUS
<1>1. FirstInv'
  BY FirstInvStep DEF TimesInv
<1>2. CASE IssueStage
  BY <1>1, <1>2, TimesAtIssue
<1>3. CASE SquashTail
  BY <1>1, <1>3, TimesAtSquash
<1>4. CASE ~IssueStage /\ ~SquashTail
  <2>1. UNCHANGED <<issueQueue, issue_counter>>
    BY <1>4 DEF Next, vars, iqVars, CommitStage, CommitBelowZero, MAUStage, MAUOutOfBounds,
         MulFUStage, BFUStage, AFUStage, IntFUStage, DispatchStage, DecodeStage,
         DecodeOutOfBounds, FetchStage, FetchOutOfBounds, SquashEnds, BecomesUndefined
  <2> QED
    BY <1>1, <2>1 DEF TimesInv
<1> QED
  BY <1>2, <1>3, <1>4

\* A unit never passes over an instruction of its kind that is ready and has waited longer,
\* whatever is dispatched, issued or squashed in between, as long as no more instructions are
\* dispatched than the comparison with the literal 999 allows for.
THEOREM OldestFirst ==
  ASSUME BitwiseIsInt PROVE Spec /\ [](issue_counter <= MIN_COUNTER_START) => EarliestIssued
<1> DEFINE Oldest == stage = "issue" =>
                       /\ ReceivesOldest(execute_IntFU, execute_IntFU',
                                         IntFUSourceOps \cup NoSourceOps)
                       /\ ReceivesOldest(execute_MulFU, execute_MulFU', {"MUL"})
                       /\ ReceivesOldest(execute_AFU, execute_AFU', AFUOps)
<1>1. TypeInv /\ RoBInv /\ TimesInv /\ (issue_counter <= MIN_COUNTER_START)' /\ [Next]_vars
      => [Oldest]_vars
  <2> SUFFICES ASSUME TypeInv, RoBInv, TimesInv, (issue_counter <= MIN_COUNTER_START)',
                      Next, stage = "issue"
               PROVE  Oldest
    OBVIOUS
  <2>1. IssueStage
    BY DEF Next, CommitStage, CommitBelowZero, MAUStage, MAUOutOfBounds, MulFUStage, BFUStage,
           AFUStage, IntFUStage, DispatchStage, DecodeStage, DecodeOutOfBounds, FetchStage,
           FetchOutOfBounds, SquashTail, SquashEnds
  <2>2. FirstInv'
    BY FirstInvStep DEF TimesInv
  <2> QED
    BY <2>1, <2>2, TimesAtIssue
<1> QED
  BY <1>1, TimesInvInit, TimesInvStep, TypeInvAlways, RoBInvAlways, PTL DEF Spec, EarliestIssued

(***************************************************************************)
(* Programs without branches.                                              *)
(***************************************************************************)
StraightLine == \A p \in Programs : \A k \in DOMAIN p : p[k].opcode \notin BranchOps

\* Nothing on the way to the BFU, hence no redirect, and no entry left behind in the LSQ.
QuietInv ==
  /\ \A k \in DOMAIN code_memory : code_memory[k].opcode \notin BranchOps
  /\ decode_rename1.has_insn => decode_rename1.instr.opcode \notin BranchOps
  /\ rename2_dispatch.has_insn => rename2_dispatch.instr.opcode \notin BranchOps
  /\ issue_queue.has_insn => issue_queue.instr.opcode \notin BranchOps
  /\ \A k \in BQSlots : ~branchQueue[k].valid_bit
  /\ ~execute_BFU.has_insn /\ BFU_pc = -1 /\ stage # "squash"
  /\ \A k \in LSQSlots : lsq[k].established_bit => k < LSQ_size

\* Nothing is in flight at the start.
LEMMA QuietInvInit == StraightLine /\ Init => QuietInv
BY DEF StraightLine, Init, APEX_cpu_init, QuietInv, EmptyStallLatch, EmptyLatch, EmptyBQEntry,
       EmptyLSQEntry

\* A fetched instruction is one of the program's.
LEMMA FetchedFromCode ==
  ASSUME TypeInv, InCode(pc)
  PROVE  \E k \in DOMAIN code_memory : FetchedInstr.opcode = code_memory[k].opcode
<1>1. /\ code_memory \in Seq(Insns) /\ DOMAIN code_memory = 1 .. Len(code_memory)
      /\ Len(code_memory) \in Nat
  BY DEF TypeInv, ProgramTypes
<1>2. CodeIndex(pc) + 1 \in DOMAIN code_memory
  BY <1>1 DEF InCode
<1>3. FetchedInstr.opcode = code_memory[CodeIndex(pc) + 1].opcode
  BY DEF FetchedInstr, Fetched
<1> QED
  BY <1>2, <1>3

\* The front end carries no branch.
LEMMA QuietFront ==
  ASSUME QuietInv, TypeInv, [Next]_vars
  PROVE  /\ decode_rename1'.has_insn => decode_rename1'.instr.opcode \notin BranchOps
         /\ rename2_dispatch'.has_insn => rename2_dispatch'.instr.opcode \notin BranchOps
         /\ issue_queue'.has_insn => issue_queue'.instr.opcode \notin BranchOps
<1>1. /\ decode_rename1 \in StallLatches /\ rename2_dispatch \in StallLatches
      /\ issue_queue \in Latches
  BY DEF TypeInv, FrontTypes
<1>2. /\ decode_rename1.has_insn => decode_rename1.instr.opcode \notin BranchOps
      /\ rename2_dispatch.has_insn => rename2_dispatch.instr.opcode \notin BranchOps
      /\ issue_queue.has_insn => issue_queue.instr.opcode \notin BranchOps
  BY DEF QuietInv
<1>3. CASE DecodeStage
  <2>1. issue_queue' = issue_queue
    BY <1>3 DEF DecodeStage
  <2>2. \A latch \in {decode_rename1', rename2_dispatch'} :
          latch.has_insn => latch.instr.opcode \notin BranchOps
    BY <1>2, <1>3, DecodeKeepsCode
  <2> QED
    BY <1>2, <2>1, <2>2
<1>4. CASE DispatchStage
  <2> DEFINE i == ReadPRF(PickUp(rename2_dispatch.instr, bus), physicalRegFile)
  <2>1. decode_rename1' = decode_rename1
    BY <1>4 DEF DispatchStage
  <2>2. rename2_dispatch.instr \in Instrs /\ bus \in BusType /\ physicalRegFile \in PRFType
    BY <1>1 DEF StallLatches, TypeInv, FileTypes, ForwardingTypes
  <2>3. i.opcode = rename2_dispatch.instr.opcode
    BY <2>2, PickUpType, PickUpKeepsOpcode, ReadPRFKeeps
  <2>4. ~rename2_dispatch'.has_insn
    BY <1>1, <1>4 DEF DispatchStage, StallLatches
  <2>5. \/ issue_queue' = issue_queue
        \/ rename2_dispatch.has_insn /\ issue_queue' = [has_insn |-> TRUE, instr |-> i]
    BY <1>4 DEF DispatchStage
  <2> HIDE DEF i
  <2> QED
    BY <1>2, <2>1, <2>3, <2>4, <2>5
<1>5. CASE FetchStage
  <2>1. /\ UNCHANGED <<rename2_dispatch, issue_queue>>
        /\ \/ decode_rename1' = decode_rename1
           \/ InCode(pc) /\ decode_rename1' = DecodeAfterFetch
    BY <1>5 DEF FetchStage, frontVars, QuietInv
  <2>2. InCode(pc) => FetchedInstr.opcode \notin BranchOps
    BY FetchedFromCode DEF QuietInv
  <2> QED
    BY <1>2, <2>1, <2>2 DEF DecodeAfterFetch
<1>6. CASE IssueStage
  <2>1. ~issue_queue'.has_insn /\ UNCHANGED <<decode_rename1, rename2_dispatch>>
    BY <1>1, <1>6 DEF IssueStage, Latches
  <2> QED
    BY <1>2, <2>1
<1>7. CASE UNCHANGED <<decode_rename1, rename2_dispatch, issue_queue>>
  BY <1>2, <1>7
<1>8. \/ DecodeStage \/ DispatchStage \/ FetchStage \/ IssueStage
      \/ UNCHANGED <<decode_rename1, rename2_dispatch, issue_queue>>
  BY DEF Next, vars, frontVars, CommitStage, CommitBelowZero, MAUStage, MAUOutOfBounds,
         MulFUStage, BFUStage, AFUStage, IntFUStage, DecodeOutOfBounds, FetchOutOfBounds,
         SquashTail, SquashEnds, BecomesUndefined
<1> QED
  BY <1>3, <1>4, <1>5, <1>6, <1>7, <1>8

\* Without branches the branch queue stays empty and the BFU idle, and nothing redirects.
LEMMA QuietBranches ==
  ASSUME QuietInv, TypeInv, [Next]_vars
  PROVE  /\ \A k \in BQSlots : ~branchQueue'[k].valid_bit
         /\ ~execute_BFU'.has_insn /\ BFU_pc' = -1 /\ stage' # "squash"
<1>1. /\ \A k \in BQSlots : ~branchQueue[k].valid_bit
      /\ ~execute_BFU.has_insn /\ BFU_pc = -1 /\ stage # "squash"
      /\ issue_queue.has_insn => issue_queue.instr.opcode \notin BranchOps
  BY DEF QuietInv
<1>2. CASE IssueStage
  <2>1. PICK address : \E bfuSlot \in {BFUSlot(TargetedBQ(branchQueue, address, AFU_pc))} :
          /\ execute_BFU' = IF bfuSlot = -1 THEN execute_BFU
                ELSE [has_insn |-> TRUE,
                      instr |-> TargetedBQ(branchQueue, address, AFU_pc)[bfuSlot].instr]
          /\ branchQueue' = IF bfuSlot = -1 THEN TargetedBQ(branchQueue, address, AFU_pc)
                ELSE [TargetedBQ(branchQueue, address, AFU_pc)
                        EXCEPT ![bfuSlot].issuedToBFU = TRUE]
    <3>1. ~(issue_queue.has_insn /\ issue_queue.instr.opcode \in BranchOps)
      BY <1>1
    <3> QED
      BY <1>2, <3>1 DEF IssueStage, DeliverAddresses
  <2> DEFINE bq == TargetedBQ(branchQueue, address, AFU_pc)
  <2>2. \A k \in BQSlots : ~bq[k].valid_bit
    BY <1>1 DEF TargetedBQ
  <2>3. BFUSlot(bq) = -1
    BY <2>2 DEF BFUSlot, FirstIndex
  <2> HIDE DEF bq
  <2>4. execute_BFU' = execute_BFU /\ branchQueue' = bq
    BY <2>1, <2>3 DEF bq
  <2>5. BFU_pc' = BFU_pc /\ stage' # "squash"
    BY <1>2 DEF IssueStage, redirectVars
  <2> QED
    BY <1>1, <2>2, <2>4, <2>5
<1>3. CASE UNCHANGED <<branchQueue, execute_BFU, BFU_pc>> /\ stage' # "squash"
  BY <1>1, <1>3
<1>4. CASE UNCHANGED vars
  BY <1>1, <1>4 DEF vars, exVars, iqVars, redirectVars
<1>5. BFUStage => UNCHANGED <<branchQueue, execute_BFU, BFU_pc>> /\ stage' # "squash"
  BY <1>1 DEF BFUStage, redirectVars
<1>6. FetchStage => UNCHANGED <<branchQueue, execute_BFU, BFU_pc>> /\ stage' # "squash"
  BY <1>1 DEF FetchStage, iqVars
<1>7. ~SquashTail /\ ~SquashEnds
  BY <1>1 DEF SquashTail, SquashEnds
<1>8. CASE CommitStage
  <2>1. UNCHANGED <<branchQueue, execute_BFU, BFU_pc>>
    BY <1>8 DEF CommitStage, iqVars, exVars, redirectVars
  <2>2. stage' # "squash"
    BY <1>8 DEF CommitStage, CommitHead, AfterCommit
  <2> QED
    BY <1>3, <2>1, <2>2
<1>9. CASE \/ CommitBelowZero \/ MAUStage \/ MAUOutOfBounds \/ MulFUStage \/ AFUStage
           \/ IntFUStage \/ DispatchStage \/ DecodeStage \/ DecodeOutOfBounds
           \/ FetchOutOfBounds
  <2>1. UNCHANGED <<branchQueue, execute_BFU, BFU_pc>> /\ stage' # "squash"
    BY <1>9 DEF CommitBelowZero, MAUStage, MAUOutOfBounds, MulFUStage, AFUStage, IntFUStage,
       DispatchStage, DecodeStage, DecodeOutOfBounds, FetchOutOfBounds, BecomesUndefined,
       iqVars, exVars, redirectVars
  <2> QED
    BY <1>3, <2>1
<1> QED
  BY <1>2, <1>3, <1>4, <1>5, <1>6, <1>7, <1>8, <1>9 DEF Next

\* Deleting the head clears the slot at the tail and leaves those behind it alone.
LEMMA DeletedEntry ==
  ASSUME NEW q \in LSQType, NEW tail \in LSQSlots, NEW k \in LSQSlots,
         DeleteLSQHead(q, tail)[k].established_bit
  PROVE  k # tail /\ (k < tail \/ q[k].established_bit)
<1> DEFINE s == Shifted(q, tail)
<1>1. /\ DOMAIN s = LSQSlots
      /\ \A j \in LSQSlots : s[j] = IF j < tail THEN q[j + 1] ELSE q[j]
  BY DEF Shifted, LSQType
<1>2. \A j \in LSQSlots : s[j] \in LSQEntries
  BY <1>1, SlotSets DEF LSQType, LSQSlots
<1> HIDE DEF s
<1>3. k # tail
  <2>1. {"established_bit", "src_data_valid", "pc"} \subseteq DOMAIN s[tail]
    BY <1>2 DEF LSQEntries
  <2>2. DeleteLSQHead(q, tail)[tail]
          = [s[tail] EXCEPT !.established_bit = FALSE, !.src_data_valid = FALSE, !.pc = 0]
    BY <1>1 DEF DeleteLSQHead, s
  <2> QED
    BY <2>1, <2>2
<1>4. DeleteLSQHead(q, tail)[k] = s[k]
  BY <1>1, <1>3 DEF DeleteLSQHead, s
<1> QED
  BY <1>1, <1>3, <1>4

\* Nor does anything leave an established entry behind the tail of the LSQ: commit clears the
\* one it moves down, and dispatch fills the next.
LEMMA QuietLSQ ==
  ASSUME QuietInv, TypeInv, LSQInv, RoBInv, [Next]_vars
  PROVE  \A k \in LSQSlots : lsq'[k].established_bit => k < LSQ_size'
<1>1. /\ lsq \in LSQType /\ LSQ_size \in 0 .. LSQ_SIZE /\ LSQ_tail \in -1 .. LSQ_SIZE - 1
      /\ \A k \in LSQSlots : lsq[k].established_bit => k < LSQ_size
  BY LSQBounds DEF TypeInv, LSQTypes, LSQInv, QuietInv
<1>2. CASE CommitStage
  <2>1. /\ lsq' = LSQAtCommit /\ ~DeletesBelowZero
        /\ LSQ_size' = IF delete_LSQ_head THEN LSQ_size - 1 ELSE LSQ_size
    BY <1>2 DEF CommitStage
  <2>2. CASE ~delete_LSQ_head
    BY <1>1, <2>1, <2>2 DEF LSQAtCommit
  <2>3. CASE delete_LSQ_head
    <3>1. LSQ_tail \in LSQSlots
      BY <1>1, <2>1, <2>3, SlotSets DEF DeletesBelowZero, LSQSlots
    <3>2. LSQ_tail = LSQ_size - 1
      <4>1. 0 \in MemoryEntries
        <5>1. delete_ROB_head /\ 0 < ROB_size
          BY <1>2, <2>3, ROBNotEmpty, SlotSets
             DEF CommitStage, DeletesBelowZero, RoBInv, RoBContiguous, LSQInv, HeadsDeleted
        <5> QED
          BY <2>3, <5>1, SlotSets DEF LSQInv, HeadsDeleted, MemoryEntries
      <4>2. Cardinality(MemoryEntries) # 0
        BY <4>1, FiniteSlots, MemoryEntriesType, FS_Subset, FS_EmptySet
      <4> QED
        BY <1>1, <4>2, SlotSets DEF LSQInv, LSQSizes
    <3>3. lsq' = DeleteLSQHead(lsq, LSQ_tail)
      BY <2>1, <2>3 DEF LSQAtCommit
    <3>4. \A k \in LSQSlots : lsq'[k].established_bit =>
            k # LSQ_tail /\ (k < LSQ_tail \/ lsq[k].established_bit)
      BY <1>1, <3>1, <3>3, DeletedEntry
    <3> QED
      BY <1>1, <2>1, <2>3, <3>1, <3>2, <3>4, SlotSets DEF LSQSlots
  <2> QED
    BY <2>2, <2>3
<1>3. CASE IssueStage
  <2> DEFINE i == issue_queue.instr
             isMemory == issue_queue.has_insn /\ i.opcode \in MemoryOps
             lsqTail == IF isMemory THEN Advance(LSQ_tail, LSQ_SIZE) ELSE LSQ_tail
             newLSQ == IF isMemory THEN EstablishLSQ(lsq, lsqTail, i) ELSE lsq
  <2>1. /\ lsq' = UpdatedLSQ(newLSQ, lsqTail, AFU_address, AFU_pc, bus)
        /\ LSQ_size' = IF isMemory THEN LSQ_size + 1 ELSE LSQ_size
    BY <1>3 DEF IssueStage, DeliverAddresses
  <2>2. isMemory => lsqTail = LSQ_size /\ LSQ_size \in LSQSlots
    BY NextLSQSlot
  <2>3. i \in Instrs
    BY DEF TypeInv, FrontTypes, Latches
  <2> HIDE DEF lsqTail
  <2>4. newLSQ \in LSQType
    BY <1>1, <2>2, <2>3, EstablishLSQType
  <2>5. \A k \in LSQSlots : lsq'[k].established_bit = newLSQ[k].established_bit
    BY <2>1, <2>4, UpdatedKeeps
  <2>6. isMemory => \A k \in LSQSlots \ {LSQ_size} : newLSQ[k] = lsq[k]
    <3>1. isMemory => newLSQ = EstablishLSQ(lsq, LSQ_size, i)
      BY <2>2
    <3>2. isMemory =>
            \A k \in LSQSlots \ {LSQ_size} : EstablishLSQ(lsq, LSQ_size, i)[k] = lsq[k]
      BY <1>1, <2>2, EstablishedLSQEntry
    <3> HIDE DEF newLSQ
    <3> QED
      BY <3>1, <3>2
  <2> HIDE DEF newLSQ
  <2>7. ~isMemory => newLSQ = lsq
    BY DEF newLSQ
  <2> QED
    BY <1>1, <2>1, <2>2, <2>5, <2>6, <2>7, SlotSets DEF LSQSlots
<1>4. CASE UNCHANGED lsqVars
  BY <1>1, <1>4 DEF lsqVars
<1>5. ~SquashTail
  BY DEF SquashTail, QuietInv
<1>6. CommitStage \/ IssueStage \/ SquashTail \/ UNCHANGED lsqVars
  BY DEF Next, vars, CommitBelowZero, MAUStage, MAUOutOfBounds,
         MulFUStage, BFUStage, AFUStage, IntFUStage, DispatchStage, DecodeStage,
         DecodeOutOfBounds, FetchStage, FetchOutOfBounds, SquashEnds, BecomesUndefined
<1> QED
  BY <1>2, <1>3, <1>4, <1>5, <1>6

\* Every step keeps it quiet.
LEMMA QuietInvStep ==
  QuietInv /\ TypeInv /\ LSQInv /\ RoBInv /\ [Next]_vars => QuietInv'
<1> SUFFICES ASSUME QuietInv, TypeInv, LSQInv, RoBInv, [Next]_vars PROVE QuietInv'
  OBVIOUS
<1>1. \A k \in DOMAIN code_memory' : code_memory'[k].opcode \notin BranchOps
  BY CodeUnchanged DEF QuietInv
<1> QED
  BY <1>1, QuietFront, QuietBranches, QuietLSQ DEF QuietInv

\* A program without branches is never squashed and its flags never tested.
LEMMA QuietInvAlways == ASSUME BitwiseIsInt, StraightLine PROVE Spec => []QuietInv
BY QuietInvInit, QuietInvStep, TypeInvAlways, LSQInvAlways, RoBInvAlways, PTL DEF Spec

\* In a program without branches, of any length, the MAU is never disturbed: what it starts
\* is in flight, since every established entry of the LSQ is one of the reorder buffer's.
THEOREM StraightLineUndisturbed ==
  ASSUME BitwiseIsInt, StraightLine PROVE Spec => []MAUUndisturbed
<1>1. QuietInv /\ TypeInv /\ LSQInv /\ RoBInv => MAUUndisturbed
  <2> SUFFICES ASSUME QuietInv, TypeInv, LSQInv, RoBInv, stage = "MAU", MAUStarts
               PROVE  RoB[0].established_bit
    BY DEF MAUUndisturbed, StartsInFlight, SparesStarted, QuietInv
  <2>1. 0 < LSQ_size
    BY SlotSets DEF MAUStarts, QuietInv
  <2>2. MemoryEntries # {}
    BY <2>1, FS_EmptySet DEF LSQInv, LSQSizes
  <2>3. 0 < ROB_size
    BY <2>2, SlotSets DEF MemoryEntries, RoBSlots, RoBInv, RoBContiguous
  <2> QED
    BY <2>3, SlotSets DEF RoBInv, RoBContiguous
<1> QED
  BY <1>1, QuietInvAlways, TypeInvAlways, LSQInvAlways, RoBInvAlways, PTL

\* Hence memory is written in program order by every program without branches.
THEOREM StraightLineStores ==
  ASSUME BitwiseIsInt, StraightLine PROVE Spec => StoresInProgramOrder
BY StraightLineUndisturbed, StoresInOrder

=============================================================================
