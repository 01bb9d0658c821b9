------------------------ MODULE ApexForwarding_proof ------------------------
(***************************************************************************)
(* What travels between the units, for programs without branches that fit  *)
(* into the queues: instructions and their operands from decode to commit, *)
(* results on the forwarding buses.                                        *)
(***************************************************************************)
EXTENDS ApexRenaming_proof

(***************************************************************************)
(* Where an instruction is between decode and commit.                      *)
(***************************************************************************)
\* The reorder buffer, the latches behind decode, the issue queue and the units hold it.
Placed(i) ==
  \/ \E k \in RoBSlots : k < ROB_size /\ i = RoB[k].instr
  \/ \E k \in IQSlots : issueQueue[k].valid_bit /\ i = issueQueue[k].instr
  \/ rename2_dispatch.has_insn /\ i = rename2_dispatch.instr
  \/ issue_queue.has_insn /\ i = issue_queue.instr
  \/ execute_IntFU.has_insn /\ i = execute_IntFU.instr
  \/ execute_MulFU.has_insn /\ i = execute_MulFU.instr
  \/ execute_AFU.has_insn /\ i = execute_AFU.instr

\* One and the same instruction, up to the operands it has picked up.
SameInstr(i, j) == NamesOf(i) = NamesOf(j) /\ i.pc = j.pc /\ i.imm = j.imm

\* A forwarding bus or the physical register file offers value v for register p.
Offered(p, v) ==
  \/ \E b \in Buses : bus[b].tag = p /\ bus[b].value = v
  \/ PRFValid(physicalRegFile, p) /\ physicalRegFile[p].data = v

\* Each operand of i is one that j had already, or one that is on offer.
OperandsFrom(i, j) ==
  /\ i.opcode \in Source1Ops /\ i.phyrs1_valid =>
       \/ j.phyrs1_valid /\ i.phyrs1_value = j.phyrs1_value
       \/ Offered(i.phyrs1, i.phyrs1_value)
  /\ i.opcode \in Source2Ops /\ i.phyrs2_valid =>
       \/ j.phyrs2_valid /\ i.phyrs2_value = j.phyrs2_value
       \/ Offered(i.phyrs2, i.phyrs2_value)

Carried(i, j) == SameInstr(i, j) /\ OperandsFrom(i, j)

\* An instruction carries what it has.
LEMMA CarriedSame == \A i : Carried(i, i)
BY DEF Carried, SameInstr, OperandsFrom

\* What is not marked valid may be carried by anything.
LEMMA CarriedUnmarked ==
  ASSUME NEW i \in Instrs
  PROVE  Carried([i EXCEPT !.phyrs1_valid = FALSE, !.phyrs2_valid = FALSE], i)
BY DEF Carried, SameInstr, OperandsFrom, NamesOf, Instrs

\* Taking a value on offer as the first operand changes no more than that operand.
LEMMA OperandTaken1 ==
  ASSUME NEW i \in Instrs, NEW v \in Int, Offered(i.phyrs1, v)
  PROVE  LET j == [i EXCEPT !.phyrs1_valid = TRUE, !.phyrs1_value = v]
         IN  j \in Instrs /\ Carried(j, i)
<1> DEFINE j == [i EXCEPT !.phyrs1_valid = TRUE, !.phyrs1_value = v]
<1>1. j \in Instrs
  BY DEF Instrs
<1>2. /\ j.phyrs1 = i.phyrs1 /\ j.phyrs1_value = v
      /\ j.phyrs2_valid = i.phyrs2_valid /\ j.phyrs2_value = i.phyrs2_value
  BY DEF Instrs
<1>3. SameInstr(j, i)
  BY DEF SameInstr, NamesOf, Instrs
<1> HIDE DEF j
<1>4. Carried(j, i)
  BY <1>2, <1>3 DEF Carried, OperandsFrom
<1> QED
  BY <1>1, <1>4 DEF j

\* Taking a value on offer as the second operand changes no more than that operand.
LEMMA OperandTaken2 ==
  ASSUME NEW i \in Instrs, NEW v \in Int, Offered(i.phyrs2, v)
  PROVE  LET j == [i EXCEPT !.phyrs2_valid = TRUE, !.phyrs2_value = v]
         IN  j \in Instrs /\ Carried(j, i)
<1> DEFINE j == [i EXCEPT !.phyrs2_valid = TRUE, !.phyrs2_value = v]
<1>1. j \in Instrs
  BY DEF Instrs
<1>2. /\ j.phyrs2 = i.phyrs2 /\ j.phyrs2_value = v
      /\ j.phyrs1_valid = i.phyrs1_valid /\ j.phyrs1_value = i.phyrs1_value
  BY DEF Instrs
<1>3. SameInstr(j, i)
  BY DEF SameInstr, NamesOf, Instrs
<1> HIDE DEF j
<1>4. Carried(j, i)
  BY <1>2, <1>3 DEF Carried, OperandsFrom
<1> QED
  BY <1>1, <1>4 DEF j

\* An operand picked up from the buses is on offer.
LEMMA PickedUp1 ==
  ASSUME bus \in BusType, NEW i \in Instrs
  PROVE  PickUp1(i, bus) \in Instrs /\ Carried(PickUp1(i, bus), i)
<1> DEFINE b == MatchingBus(bus, i.phyrs1)
<1>1. CASE i.opcode \in Source1Ops /\ ~i.phyrs1_valid /\ b # -1
  <2>1. b \in Buses /\ bus[b].tag = i.phyrs1 /\ bus[b].value \in Int
    <3>1. {n \in Buses : bus[n].tag = i.phyrs1} \in SUBSET Nat
      BY DEF Buses
    <3>2. {n \in Buses : bus[n].tag = i.phyrs1} # {}
      BY <1>1 DEF MatchingBus, FirstIndex
    <3>3. b \in {n \in Buses : bus[n].tag = i.phyrs1}
      BY <3>1, <3>2, FoundFirst DEF MatchingBus
    <3> QED
      BY <3>3 DEF BusType
  <2> HIDE DEF b
  <2>2. PickUp1(i, bus) = [i EXCEPT !.phyrs1_valid = TRUE, !.phyrs1_value = bus[b].value]
    BY <1>1 DEF PickUp1, b
  <2>3. Offered(i.phyrs1, bus[b].value)
    BY <2>1 DEF Offered
  <2> DEFINE v == bus[b].value
  <2>4. v \in Int /\ Offered(i.phyrs1, v) /\ PickUp1(i, bus) = [i EXCEPT !.phyrs1_valid = TRUE, !.phyrs1_value = v]
    BY <2>1, <2>2, <2>3
  <2> HIDE DEF v
  <2> QED
    BY <2>4, OperandTaken1
<1>2. CASE ~(i.opcode \in Source1Ops /\ ~i.phyrs1_valid /\ b # -1)
  <2>1. PickUp1(i, bus) = i
    BY <1>2 DEF PickUp1
  <2> QED
    BY <2>1, CarriedSame
<1> QED
  BY <1>1, <1>2

\* The pickup of the second source changes no more than that operand, to a value on offer.
LEMMA PickedUp2 ==
  ASSUME bus \in BusType, NEW i \in Instrs
  PROVE  PickUp2(i, bus) \in Instrs /\ Carried(PickUp2(i, bus), i)
<1> DEFINE b == MatchingBus(bus, i.phyrs2)
<1>1. CASE i.opcode \in Source2Ops /\ ~i.phyrs2_valid /\ b # -1
  <2>1. b \in Buses /\ bus[b].tag = i.phyrs2 /\ bus[b].value \in Int
    <3>1. {n \in Buses : bus[n].tag = i.phyrs2} \in SUBSET Nat
      BY DEF Buses
    <3>2. {n \in Buses : bus[n].tag = i.phyrs2} # {}
      BY <1>1 DEF MatchingBus, FirstIndex
    <3>3. b \in {n \in Buses : bus[n].tag = i.phyrs2}
      BY <3>1, <3>2, FoundFirst DEF MatchingBus
    <3> QED
      BY <3>3 DEF BusType
  <2> HIDE DEF b
  <2> DEFINE v == bus[b].value
  <2>2. v \in Int /\ Offered(i.phyrs2, v)
    BY <2>1 DEF Offered
  <2>3. PickUp2(i, bus) = [i EXCEPT !.phyrs2_valid = TRUE, !.phyrs2_value = v]
    BY <1>1 DEF PickUp2, b
  <2> HIDE DEF v
  <2> QED
    BY <2>2, <2>3, OperandTaken2
<1>2. CASE ~(i.opcode \in Source2Ops /\ ~i.phyrs2_valid /\ b # -1)
  <2>1. PickUp2(i, bus) = i
    BY <1>2 DEF PickUp2
  <2> QED
    BY <2>1, CarriedSame
<1> QED
  BY <1>1, <1>2

\* What carries what carried an instruction carries that instruction.
LEMMA CarriedTwice ==
  ASSUME NEW i, NEW j, NEW k, Carried(i, j), Carried(j, k) PROVE Carried(i, k)
<1>1. i.opcode = j.opcode /\ i.phyrs1 = j.phyrs1 /\ i.phyrs2 = j.phyrs2
  BY DEF Carried, SameInstr, NamesOf
<1> QED
  BY <1>1 DEF Carried, SameInstr, OperandsFrom

\* Decode's and dispatch's pickup change nothing but operands, to values on offer.
LEMMA PickedUp ==
  ASSUME bus \in BusType, NEW i \in Instrs
  PROVE  PickUp(i, bus) \in Instrs /\ Carried(PickUp(i, bus), i)
BY PickedUp1, PickedUp2, CarriedTwice DEF PickUp

\* So is an operand read from the physical register file.
LEMMA ReadFromPRF ==
  ASSUME physicalRegFile \in PRFType, NEW i \in Instrs
  PROVE  ReadPRF(i, physicalRegFile) \in Instrs /\ Carried(ReadPRF(i, physicalRegFile), i)
<1> DEFINE prf == physicalRegFile
<1>1. ASSUME NEW j \in Instrs PROVE ReadPRF1(j, prf) \in Instrs /\ Carried(ReadPRF1(j, prf), j)
  <2>1. CASE j.opcode \in Source1Ops /\ ~j.phyrs1_valid /\ PRFValid(prf, j.phyrs1)
    <3> DEFINE v == prf[j.phyrs1].data
    <3>1. v \in Int /\ Offered(j.phyrs1, v)
      BY <2>1 DEF Offered, PRFType, PRFValid, Instrs
    <3>2. ReadPRF1(j, prf) = [j EXCEPT !.phyrs1_valid = TRUE, !.phyrs1_value = v]
      BY <2>1 DEF ReadPRF1
    <3> HIDE DEF v
    <3> QED
      BY <3>1, <3>2, OperandTaken1
  <2>2. CASE ~(j.opcode \in Source1Ops /\ ~j.phyrs1_valid /\ PRFValid(prf, j.phyrs1))
    BY <2>2, CarriedSame DEF ReadPRF1
  <2> QED
    BY <2>1, <2>2
<1>2. ASSUME NEW j \in Instrs PROVE ReadPRF2(j, prf) \in Instrs /\ Carried(ReadPRF2(j, prf), j)
  <2>1. CASE j.opcode \in Source2Ops /\ ~j.phyrs2_valid /\ PRFValid(prf, j.phyrs2)
    <3> DEFINE v == prf[j.phyrs2].data
    <3>1. v \in Int /\ Offered(j.phyrs2, v)
      BY <2>1 DEF Offered, PRFType, PRFValid, Instrs
    <3>2. ReadPRF2(j, prf) = [j EXCEPT !.phyrs2_valid = TRUE, !.phyrs2_value = v]
      BY <2>1 DEF ReadPRF2
    <3> HIDE DEF v
    <3> QED
      BY <3>1, <3>2, OperandTaken2
  <2>2. CASE ~(j.opcode \in Source2Ops /\ ~j.phyrs2_valid /\ PRFValid(prf, j.phyrs2))
    BY <2>2, CarriedSame DEF ReadPRF2
  <2> QED
    BY <2>1, <2>2
<1> QED
  BY <1>1, <1>2, CarriedTwice DEF ReadPRF

(***************************************************************************)
(* Programs without branches that fit: what always holds while they run.   *)
(***************************************************************************)
\* A queue's worth of dispatch times stays below the literal 999.
TimesFit == ISSUE_QUEUE_SIZE <= MIN_COUNTER_START

\* What has been dispatched and what is on its way to dispatch has been fetched.
CounterInv == issue_counter + OnTheWay(Opcodes) <= Seen(Opcodes)

\* How many instructions of some kind the step establishes.
Establishing(ops) == IF IssueStage THEN Held(issue_queue, ops) ELSE 0

\* No step adds to what is on its way more than it adds to what has been seen.
LEMMA CountsStep ==
  ASSUME TypeInv, QuietInv, OwnInv, FlowLatches, BudgetInv, Undisturbed, [Next]_vars
  PROVE  \A ops :
           /\ Seen(ops) \in Nat /\ Seen(ops)' \in Nat
           /\ OnTheWay(ops) \in Nat /\ OnTheWay(ops)' \in Nat /\ Establishing(ops) \in Nat
           /\ Held(decode_rename1, ops)' - Seen(ops)' <= Held(decode_rename1, ops) - Seen(ops)
           /\ OnTheWay(ops)' - Seen(ops)' <= OnTheWay(ops) - Seen(ops) - Establishing(ops)
<1> SUFFICES ASSUME NEW ops
             PROVE  /\ Seen(ops) \in Nat /\ Seen(ops)' \in Nat
                    /\ OnTheWay(ops) \in Nat /\ OnTheWay(ops)' \in Nat /\ Establishing(ops) \in Nat
                    /\ Held(decode_rename1, ops)' - Seen(ops)' <= Held(decode_rename1, ops) - Seen(ops)
                    /\ OnTheWay(ops)' - Seen(ops)' <= OnTheWay(ops) - Seen(ops) - Establishing(ops)
  OBVIOUS
<1>1. /\ Seen(ops) \in Nat
      /\ Held(decode_rename1, ops) \in {0, 1} /\ Held(decode_rename1, ops)' \in {0, 1}
      /\ Held(rename2_dispatch, ops) \in {0, 1} /\ Held(rename2_dispatch, ops)' \in {0, 1}
      /\ Held(issue_queue, ops) \in {0, 1} /\ Held(issue_queue, ops)' \in {0, 1}
  <2>1. CodeIndex(pc) \in Int
    BY DEF CodeIndex, FIRST_PC, TypeInv, FrontTypes
  <2> QED
    BY <2>1, SeenBounds, HeldBit DEF Seen
<1>2. PICK d \in Nat : d = Held(decode_rename1, ops)'
  BY <1>1
<1>3. PICK b \in Nat : b = Behind(ops)'
  BY <1>1 DEF Behind
<1>4. PICK e \in Nat : e = Establishing(ops)
  BY <1>1 DEF Establishing
<1>5. Behind(ops) \in Nat /\ Held(decode_rename1, ops) \in Nat
  BY <1>1 DEF Behind
<1>6. ASSUME NEW s \in Nat, s = Seen(ops)', d - s <= Held(decode_rename1, ops) - Seen(ops),
             b + d - s <= Behind(ops) + Held(decode_rename1, ops) - Seen(ops) - e
      PROVE  /\ Seen(ops) \in Nat /\ Seen(ops)' \in Nat
             /\ OnTheWay(ops) \in Nat /\ OnTheWay(ops)' \in Nat /\ Establishing(ops) \in Nat
             /\ Held(decode_rename1, ops)' - Seen(ops)' <= Held(decode_rename1, ops) - Seen(ops)
             /\ OnTheWay(ops)' - Seen(ops)' <= OnTheWay(ops) - Seen(ops) - Establishing(ops)
  <2>1. OnTheWay(ops)' = b + d
    BY <1>2, <1>3 DEF OnTheWay
  <2>2. OnTheWay(ops) = Behind(ops) + Held(decode_rename1, ops)
    BY DEF OnTheWay
  <2> QED
    BY <1>1, <1>2, <1>4, <1>5, <1>6, <2>1, <2>2
<1>7. pc' = pc => Seen(ops)' = Seen(ops)
  BY CodeUnchanged DEF Seen, SeenAt, CodeIndex
<1>8. CASE FetchStage
  <2>1. PICK s \in Nat : s = Seen(ops)'
    BY <1>8, FetchCounts
  <2>2. d - s <= Held(decode_rename1, ops) - Seen(ops)
    BY <1>2, <1>8, <2>1, FetchCounts
  <2>3. UNCHANGED <<rename2_dispatch, issue_queue>> /\ ~IssueStage
    BY <1>8 DEF FetchStage, IssueStage, QuietInv, frontVars
  <2>4. b = Behind(ops) /\ e = 0
    BY <1>3, <1>4, <2>3 DEF Behind, Establishing
  <2> QED
    BY <1>1, <1>5, <1>6, <2>1, <2>2, <2>4
<1>9. CASE DecodeStage /\ decode_rename1.has_insn
  <2>1. PICK i \in Instrs : Enters(i)
    BY <1>9, DecodeRenames DEF OwnInv, Undisturbed
  <2>2. /\ ~decode_rename1'.has_insn
        /\ Behind(ops)' <= Behind(ops) + Held(decode_rename1, ops)
    BY <1>9, <2>1, DecodeCounts DEF OwnInv
  <2>3. pc' = pc /\ ~IssueStage
    BY <1>9 DEF DecodeStage, IssueStage
  <2>4. d = 0 /\ e = 0
    BY <1>2, <1>4, <2>2, <2>3 DEF Held, Establishing
  <2>5. b <= Behind(ops) + Held(decode_rename1, ops)
    BY <1>3, <2>2
  <2> QED
    BY <1>1, <1>5, <1>6, <1>7, <2>3, <2>4, <2>5
<1>10. CASE DispatchStage
  <2>1. Behind(ops)' <= Behind(ops)
    BY <1>10, DispatchCounts DEF OwnInv
  <2>2. UNCHANGED <<pc, decode_rename1>> /\ ~IssueStage
    BY <1>10 DEF DispatchStage, IssueStage
  <2>3. d = Held(decode_rename1, ops) /\ e = 0 /\ b <= Behind(ops)
    BY <1>2, <1>3, <1>4, <2>1, <2>2 DEF Establishing
  <2> QED
    BY <1>1, <1>5, <1>6, <1>7, <2>2, <2>3
<1>11. CASE IssueStage
  <2>1. UNCHANGED <<pc, decode_rename1, rename2_dispatch>>
    BY <1>11 DEF IssueStage
  <2>2. issue_queue \in Latches /\ ~issue_queue'.has_insn
    BY <1>11 DEF TypeInv, FrontTypes, IssueStage, Latches
  <2>3. b = Held(rename2_dispatch, ops)
    BY <1>1, <1>3, <2>1, <2>2 DEF Behind, Held
  <2>4. Behind(ops) = Held(rename2_dispatch, ops) + Held(issue_queue, ops)
    BY DEF Behind
  <2>5. e = Held(issue_queue, ops) /\ d = Held(decode_rename1, ops)
    BY <1>2, <1>4, <1>11, <2>1 DEF Establishing
  <2>6. /\ b + d - Seen(ops) <= Behind(ops) + Held(decode_rename1, ops) - Seen(ops) - e
        /\ d - Seen(ops) <= Held(decode_rename1, ops) - Seen(ops)
    <3>1. PICK q \in Nat : q = Held(issue_queue, ops)
      BY <1>1
    <3>2. PICK r \in Nat : r = Held(rename2_dispatch, ops)
      BY <1>1
    <3>3. Behind(ops) = r + q /\ e = q /\ b = r
      BY <2>3, <2>4, <2>5, <3>1, <3>2
    <3> QED
      BY <1>1, <2>5, <3>3
  <2> QED
    BY <1>1, <1>6, <1>7, <2>1, <2>6
<1>12. CASE UNCHANGED <<pc, decode_rename1, rename2_dispatch, issue_queue>> /\ ~IssueStage
  <2>1. d = Held(decode_rename1, ops) /\ b = Behind(ops) /\ e = 0
    BY <1>2, <1>3, <1>4, <1>12 DEF Behind, Establishing
  <2> QED
    BY <1>1, <1>5, <1>6, <1>7, <1>12, <2>1
<1>13. \/ FetchStage \/ (DecodeStage /\ decode_rename1.has_insn) \/ DispatchStage \/ IssueStage
       \/ UNCHANGED <<pc, decode_rename1, rename2_dispatch, issue_queue>> /\ ~IssueStage
  BY DEF Next, vars, IssueStage, CommitStage, CommitBelowZero, MAUStage, MAUOutOfBounds, MulFUStage, BFUStage,
         AFUStage, IntFUStage, DecodeStage, DecodeOutOfBounds, FetchOutOfBounds, SquashTail,
         SquashEnds, QuietInv, BecomesUndefined, frontVars
<1> QED
  BY <1>8, <1>9, <1>10, <1>11, <1>12, <1>13

\* The counter starts at zero.
LEMMA CounterInvInit == TypeInv /\ Init => CounterInv
<1> SUFFICES ASSUME TypeInv, Init PROVE CounterInv
  OBVIOUS
<1>1. OnTheWay(Opcodes) = 0 /\ issue_counter = 0
  BY DEF Init, APEX_cpu_init, EmptyStallLatch, EmptyLatch, OnTheWay, Behind, Held
<1>2. Seen(Opcodes) \in Nat
  <2>1. CodeIndex(pc) \in Int
    BY DEF CodeIndex, FIRST_PC, TypeInv, FrontTypes
  <2> QED
    BY <2>1, SeenBounds DEF Seen
<1> QED
  BY <1>1, <1>2 DEF CounterInv

\* A dispatch time is counted for an instruction that issue establishes.
LEMMA CounterInvStep ==
  ASSUME TypeInv, TypeInv', QuietInv, OwnInv, FlowLatches, BudgetInv, Undisturbed, CounterInv,
         [Next]_vars
  PROVE  CounterInv'
<1> DEFINE ops == Opcodes
<1>1. /\ issue_counter \in Nat /\ issue_counter' \in Nat
      /\ issue_counter + OnTheWay(ops) <= Seen(ops)
  BY DEF TypeInv, QueueTypes, CounterInv
<1>2. /\ Seen(ops) \in Nat /\ Seen(ops)' \in Nat
      /\ OnTheWay(ops) \in Nat /\ OnTheWay(ops)' \in Nat /\ Establishing(ops) \in Nat
      /\ OnTheWay(ops)' - Seen(ops)' <= OnTheWay(ops) - Seen(ops) - Establishing(ops)
  BY CountsStep
<1>3. issue_counter' <= issue_counter + Establishing(ops)
  <2>1. CASE IssueStage
    <3>1. issue_counter' <= issue_counter + (IF issue_queue.has_insn THEN 1 ELSE 0)
      BY <1>1, <2>1 DEF IssueStage
    <3>2. issue_queue \in Latches
      BY DEF TypeInv, FrontTypes
    <3>3. Establishing(ops) = IF issue_queue.has_insn THEN 1 ELSE 0
      BY <2>1, <3>2 DEF Establishing, Held, Latches, Instrs
    <3> QED
      BY <3>1, <3>3
  <2>2. CASE ~IssueStage
    <3>1. issue_counter' = issue_counter
      BY <2>2 DEF Next, vars, CommitStage, CommitBelowZero, MAUStage, MAUOutOfBounds, MulFUStage,
           BFUStage, AFUStage, IntFUStage, DispatchStage, DecodeStage, DecodeOutOfBounds,
           FetchStage, FetchOutOfBounds, SquashTail, SquashEnds, BecomesUndefined, iqVars
    <3> QED
      BY <1>1, <1>2, <3>1
  <2> QED
    BY <2>1, <2>2
<1>4. PICK c \in Nat : c = issue_counter'
  BY <1>1
<1>5. PICK w \in Nat : w = OnTheWay(ops)'
  BY <1>2
<1>6. PICK s \in Nat : s = Seen(ops)'
  BY <1>2
<1> HIDE DEF ops
<1>7. c + w <= s
  BY <1>1, <1>2, <1>3, <1>4, <1>5, <1>6
<1> QED
  BY <1>4, <1>5, <1>6, <1>7 DEF CounterInv, ops

RunInv ==
  /\ TypeInv /\ RoBInv /\ LSQInv /\ CodeInv /\ QuietInv /\ OwnInv /\ FlowInv
  /\ BudgetInv /\ InPrograms /\ Undisturbed /\ CounterInv /\ TimesInv

\* The counter counts dispatches, and a program that fits has too few to reach the literal.
LEMMA EarlyEnough ==
  ASSUME TypeInv, CounterInv, InPrograms, Fits, TimesFit
  PROVE  issue_counter <= MIN_COUNTER_START
<1>1. CodeIndex(pc) \in Int /\ issue_counter \in Nat
  BY DEF CodeIndex, FIRST_PC, TypeInv, FrontTypes, QueueTypes
<1>2. /\ Seen(Opcodes) \in Nat /\ Seen(Opcodes) <= HowMany(code_memory, Opcodes)
      /\ HowMany(code_memory, Opcodes) <= Len(code_memory)
      /\ HowMany(code_memory, Opcodes) \in Nat
  BY <1>1, SeenBounds DEF Seen
<1>3. Len(code_memory) <= ISSUE_QUEUE_SIZE /\ Len(code_memory) \in Nat
  BY LenProperties DEF InPrograms, Fits, TypeInv, ProgramTypes
<1>4. OnTheWay(Opcodes) \in Nat
  BY HeldBit DEF OnTheWay, Behind
<1> QED
  BY <1>1, <1>2, <1>3, <1>4, SizesAssumption DEF CounterInv, TimesFit

\* A program without branches that fits always runs this way.
LEMMA RunAlways ==
  ASSUME BitwiseIsInt, StraightLine, Fits, TimesFit PROVE Spec => []RunInv
<1>1. Init => InPrograms
  BY DEF Init, InPrograms
<1>2. InPrograms /\ [Next]_vars => InPrograms'
  BY CodeUnchanged DEF InPrograms
<1>3. TypeInv /\ RoBInv /\ Init => OwnInv /\ FlowInv /\ BudgetInv /\ CounterInv
  BY OwnInvInit, FlowInvInit, BudgetInvInit, CounterInvInit
<1>4. /\ TypeInv /\ RoBInv /\ LSQInv /\ QuietInv /\ TypeInv' /\ RoBInv'
      /\ Undisturbed /\ Undisturbed'
      /\ OwnInv /\ FlowInv /\ BudgetInv /\ CounterInv /\ [Next]_vars
      => OwnInv' /\ FlowInv' /\ BudgetInv' /\ CounterInv'
  <2> SUFFICES ASSUME TypeInv, RoBInv, LSQInv, QuietInv, TypeInv', RoBInv',
                      Undisturbed, Undisturbed', OwnInv, FlowInv, BudgetInv, CounterInv, [Next]_vars
               PROVE  OwnInv' /\ FlowInv' /\ BudgetInv' /\ CounterInv'
    OBVIOUS
  <2>1. FlowLatches
    BY DEF FlowInv
  <2>2. OwnInv' /\ FlowInv'
    BY FlowInvStep
  <2> QED
    BY <2>1, <2>2, BudgetInvStep, CounterInvStep
<1>5. TypeInv /\ CounterInv /\ InPrograms => issue_counter <= MIN_COUNTER_START
  BY EarlyEnough
<1>6. /\ TypeInv /\ RoBInv /\ LSQInv /\ CodeInv /\ QuietInv /\ OwnInv /\ FlowInv
      /\ BudgetInv /\ InPrograms /\ Undisturbed /\ CounterInv /\ TimesInv
      => RunInv
  BY DEF RunInv
<1> QED
  BY <1>1, <1>2, <1>3, <1>4, <1>5, <1>6, TypeInvAlways, RoBInvAlways, LSQInvAlways, CodeInvAlways,
     QuietInvAlways, FittingUndisturbed, TimesInvInit, TimesInvStep, PTL DEF Spec

\* i comes from an instruction that was placed already.
ComesFromPlaced(i) == \E j \in Instrs : Placed(j) /\ Carried(i, j)

\* What is somewhere is an instruction.
LEMMA PlacedType == ASSUME TypeInv, RoBInv, NEW i, Placed(i) PROVE i \in Instrs
<1>1. RoB \in RoBType /\ issueQueue \in IQType
  BY DEF TypeInv, RoBTypes, QueueTypes
<1>2. /\ rename2_dispatch.instr \in Instrs /\ issue_queue.instr \in Instrs
      /\ execute_IntFU.instr \in Instrs /\ execute_MulFU.instr \in Instrs
      /\ execute_AFU.instr \in Instrs
  BY DEF TypeInv, FrontTypes, UnitTypes, Latches, StallLatches
<1> QED
  BY <1>1, <1>2 DEF Placed, RoBType, RoBEntries, IQType, IQEntries

\* What is somewhere comes from where it is.
LEMMA PlacedComes == ASSUME TypeInv, RoBInv, NEW i, Placed(i) PROVE ComesFromPlaced(i)
BY PlacedType, CarriedSame DEF ComesFromPlaced

\* What waits in the issue queue when the units are offered an instruction was placed.
LEMMA WokenFrom ==
  ASSUME TypeInv, RoBInv, NEW k \in IQSlots, WokenIQ(Established, bus)[k].valid_bit
  PROVE  /\ WokenIQ(Established, bus)[k].instr \in Instrs
         /\ ComesFromPlaced(WokenIQ(Established, bus)[k].instr)
<1>1. issueQueue \in IQType /\ bus \in BusType /\ issue_counter \in Nat /\ issue_queue.instr \in Instrs
  BY DEF TypeInv, QueueTypes, ForwardingTypes, FrontTypes, Latches
<1>2. Established \in IQType
  BY <1>1, EstablishIQType DEF Established
<1> DEFINE q == Established
<1> HIDE DEF q
<1>3. q[k].valid_bit /\ WokenIQ(q, bus)[k].instr = PickUp(q[k].instr, bus)
  BY DEF WokenIQ, q
<1>4. q[k].instr \in Instrs /\ Placed(q[k].instr)
  <2>1. q[k].instr \in Instrs
    BY <1>2 DEF IQType, IQEntries, q
  <2>2. CASE q[k] = issueQueue[k]
    BY <1>3, <2>1, <2>2 DEF Placed
  <2>3. CASE issue_queue.has_insn /\ q[k].instr = issue_queue.instr
    BY <2>1, <2>3 DEF Placed
  <2>4. q[k] = issueQueue[k] \/ (issue_queue.has_insn /\ q[k].instr = issue_queue.instr)
    <3>1. CASE issue_queue.has_insn
      BY <1>1, <3>1 DEF Established, EstablishIQ, IQType, q
    <3>2. CASE ~issue_queue.has_insn
      BY <3>2 DEF Established, q
    <3> QED
      BY <3>1, <3>2
  <2> QED
    BY <2>2, <2>3, <2>4
<1>5. PickUp(q[k].instr, bus) \in Instrs /\ Carried(PickUp(q[k].instr, bus), q[k].instr)
  BY <1>1, <1>4, PickedUp
<1> QED
  BY <1>3, <1>4, <1>5 DEF ComesFromPlaced, q

\* The same in the next state.
LEMMA EarlyEnoughNext ==
  ASSUME Fits, TimesFit
  PROVE  (TypeInv /\ CounterInv /\ InPrograms => issue_counter <= MIN_COUNTER_START)'
<1>1. TypeInv /\ CounterInv /\ InPrograms => issue_counter <= MIN_COUNTER_START
  BY EarlyEnough
<1> QED
  BY <1>1, PTL

\* What a unit receives has its operands, and they are carried from a placed instruction.
ReceivesFrom(latch, next, kinds) ==
  \/ next = latch
  \/ \E j \in Instrs :
       /\ ComesFromPlaced(j) /\ j.opcode \in kinds /\ SourcesValid(j)
       /\ next = [has_insn |-> TRUE,
                  instr |-> [j EXCEPT !.phyrs1_valid = FALSE, !.phyrs2_valid = FALSE]]

\* The three wakeups of an issue stage.
LEMMA TakenAtIssue ==
  ASSUME RunInv, RunInv', Fits, TimesFit, IssueStage PROVE UnitsTake(WokenIQ(Established, bus))
<1>1. (issue_counter <= MIN_COUNTER_START)'
  <2>1. /\ TypeInv' /\ CounterInv' /\ InPrograms'
    BY DEF RunInv
  <2> QED
    BY <2>1, EarlyEnoughNext
<1>2. FirstInv'
  BY DEF RunInv, TimesInv
<1>3. TypeInv /\ TimesInv
  BY DEF RunInv
<1> QED
  BY <1>1, <1>2, <1>3, TimesAtIssue

\* At issue a unit keeps its instruction or receives one of its kind that was placed.
LEMMA UnitsReceive ==
  ASSUME RunInv, RunInv', Fits, TimesFit, IssueStage, [Next]_vars
  PROVE  /\ ReceivesFrom(execute_IntFU, execute_IntFU', IntFUSourceOps \cup NoSourceOps)
         /\ ReceivesFrom(execute_MulFU, execute_MulFU', {"MUL"})
         /\ ReceivesFrom(execute_AFU, execute_AFU', AFUOps)
         /\ execute_MulFU' # execute_MulFU => MulFUFree
         /\ \A k \in IQSlots : issueQueue'[k].valid_bit => ComesFromPlaced(issueQueue'[k].instr)
<1>1. UnitsTake(WokenIQ(Established, bus))
  BY TakenAtIssue
<1>2. PICK a \in IQSlots \cup {-1}, b \in IQSlots \cup {-1}, c \in IQSlots \cup {-1} :
        /\ Takes(execute_IntFU, execute_IntFU', WokenIQ(Established, bus), a, IntFUSourceOps \cup NoSourceOps)
        /\ Takes(execute_MulFU, execute_MulFU', WokenIQ(Established, bus), b, {"MUL"})
        /\ Takes(execute_AFU, execute_AFU', WokenIQ(Established, bus), c, AFUOps)
        /\ b # -1 => MulFUFree
        /\ \A k \in IQSlots : IF k \in {a, b, c} THEN ~issueQueue'[k].valid_bit
                              ELSE issueQueue'[k] = WokenIQ(Established, bus)[k]
  BY <1>1 DEF UnitsTake
<1> DEFINE q == WokenIQ(Established, bus)
<1> HIDE DEF q
<1>3. \A k \in IQSlots : q[k].valid_bit => q[k].instr \in Instrs /\ ComesFromPlaced(q[k].instr)
  BY WokenFrom DEF RunInv, q
<1>4. ASSUME NEW latch, NEW next, NEW s \in IQSlots \cup {-1}, NEW kinds, Takes(latch, next, q, s, kinds)
      PROVE  ReceivesFrom(latch, next, kinds)
  BY <1>3, <1>4 DEF Takes, ReceivesFrom
<1>5. execute_MulFU' # execute_MulFU => b # -1
  BY <1>2 DEF Takes
<1>6. \A k \in IQSlots : issueQueue'[k].valid_bit => ComesFromPlaced(issueQueue'[k].instr)
  BY <1>2, <1>3 DEF q
<1> QED
  BY <1>2, <1>4, <1>5, <1>6 DEF q

\* A unit's instruction comes from a placed one too.
LEMMA ReceivedComes ==
  ASSUME NEW latch, NEW next, NEW kinds, ReceivesFrom(latch, next, kinds), next # latch
  PROVE  ComesFromPlaced(next.instr)
<1>1. PICK j \in Instrs :
        /\ ComesFromPlaced(j)
        /\ next = [has_insn |-> TRUE,
                   instr |-> [j EXCEPT !.phyrs1_valid = FALSE, !.phyrs2_valid = FALSE]]
  BY DEF ReceivesFrom
<1>2. Carried(next.instr, j)
  BY <1>1, CarriedUnmarked
<1> QED
  BY <1>1, <1>2, CarriedTwice DEF ComesFromPlaced

\* The reorder buffer's entries come from placed instructions.
LEMMA BufferComes ==
  ASSUME TypeInv, RoBInv, LatchInv, [Next]_vars, NEW k \in RoBSlots, k < ROB_size'
  PROVE  ComesFromPlaced(RoB'[k].instr)
<1>1. CASE k < ROB_size /\ RoB'[k].instr = RoB[k].instr
  <2>1. Placed(RoB[k].instr)
    BY <1>1 DEF Placed
  <2> QED
    BY <1>1, <2>1, PlacedComes
<1>2. CASE k + 1 \in RoBSlots /\ k + 1 < ROB_size /\ RoB'[k].instr = RoB[k + 1].instr
  <2>1. Placed(RoB[k + 1].instr)
    BY <1>2 DEF Placed
  <2> QED
    BY <1>2, <2>1, PlacedComes
<1>3. CASE issue_queue.has_insn /\ RoB'[k].instr = issue_queue.instr
  <2>1. Placed(issue_queue.instr)
    BY <1>3 DEF Placed
  <2> QED
    BY <1>3, <2>1, PlacedComes
<1> QED
  BY <1>1, <1>2, <1>3, RoBSteps

\* Everything placed after a step was placed before it, or has just been renamed.
LEMMA PlacesStep ==
  ASSUME RunInv, RunInv', Fits, TimesFit, [Next]_vars, NEW i, Placed(i)'
  PROVE  \/ ComesFromPlaced(i)
         \/ DecodeStage /\ decode_rename1.has_insn /\ i = decode_rename1'.instr
<1> USE DEF RunInv
<1> DEFINE Goal == \/ ComesFromPlaced(i)
                   \/ DecodeStage /\ decode_rename1.has_insn /\ i = decode_rename1'.instr
<1>1. \A j : Placed(j) => ComesFromPlaced(j)
  BY PlacedComes
<1>2. CASE \E k \in RoBSlots : k < ROB_size' /\ i = RoB'[k].instr
  BY <1>2, BufferComes DEF OwnInv
<1>3. CASE IssueStage
  <2>1. /\ UNCHANGED rename2_dispatch /\ ~issue_queue'.has_insn
    BY <1>3 DEF IssueStage, TypeInv, FrontTypes, Latches
  <2>2. rename2_dispatch'.has_insn /\ i = rename2_dispatch'.instr => Goal
    BY <1>1, <2>1 DEF Placed
  <2>3. \A k \in IQSlots : issueQueue'[k].valid_bit => ComesFromPlaced(issueQueue'[k].instr)
    BY <1>3, UnitsReceive
  <2>4. ASSUME NEW latch, NEW next, NEW kinds, ReceivesFrom(latch, next, kinds),
               next.has_insn, i = next.instr, latch.has_insn => Placed(latch.instr)
        PROVE  Goal
    BY <1>1, <2>4, ReceivedComes
  <2>5. /\ execute_IntFU.has_insn => Placed(execute_IntFU.instr)
        /\ execute_MulFU.has_insn => Placed(execute_MulFU.instr)
        /\ execute_AFU.has_insn => Placed(execute_AFU.instr)
    BY DEF Placed
  <2>6. /\ execute_IntFU'.has_insn /\ i = execute_IntFU'.instr => Goal
        /\ execute_MulFU'.has_insn /\ i = execute_MulFU'.instr => Goal
        /\ execute_AFU'.has_insn /\ i = execute_AFU'.instr => Goal
    <3>1. /\ ReceivesFrom(execute_IntFU, execute_IntFU', IntFUSourceOps \cup NoSourceOps)
          /\ ReceivesFrom(execute_MulFU, execute_MulFU', {"MUL"})
          /\ ReceivesFrom(execute_AFU, execute_AFU', AFUOps)
      BY <1>3, UnitsReceive
    <3> QED
      BY <2>4, <2>5, <3>1
  <2> HIDE DEF Goal
  <2> QED
    BY <1>2, <2>1, <2>2, <2>3, <2>6 DEF Placed, Goal
<1>4. ASSUME ~IssueStage
      PROVE  /\ \A k \in IQSlots : issueQueue'[k].valid_bit => issueQueue'[k] = issueQueue[k]
             /\ \A l \in {<<execute_IntFU, execute_IntFU'>>, <<execute_MulFU, execute_MulFU'>>,
                          <<execute_AFU, execute_AFU'>>} :
                  l[2].has_insn => l[1].has_insn /\ l[2].instr = l[1].instr
  <2>1. stage' # "squash" /\ stage # "squash" /\ BFU_pc = -1
    BY DEF QuietInv
  <2>2. UNCHANGED issueQueue
    BY <1>4, <2>1 DEF Next, vars, CommitStage, CommitBelowZero, MAUStage, MAUOutOfBounds, MulFUStage,
       BFUStage, AFUStage, IntFUStage, DispatchStage, DecodeStage, DecodeOutOfBounds,
       FetchStage, FetchOutOfBounds, SquashTail, SquashEnds, BecomesUndefined, iqVars
  <2>3. execute_IntFU'.has_insn => execute_IntFU.has_insn /\ execute_IntFU'.instr = execute_IntFU.instr
    BY <1>4, <2>1 DEF Next, vars, CommitStage, CommitBelowZero, MAUStage, MAUOutOfBounds, MulFUStage,
       BFUStage, AFUStage, IntFUStage, DispatchStage, DecodeStage, DecodeOutOfBounds, exVars,
       FetchStage, FetchOutOfBounds, SquashTail, SquashEnds, BecomesUndefined, TypeInv, UnitTypes, Latches
  <2>4. execute_MulFU'.has_insn => execute_MulFU.has_insn /\ execute_MulFU'.instr = execute_MulFU.instr
    BY <1>4, <2>1 DEF Next, vars, CommitStage, CommitBelowZero, MAUStage, MAUOutOfBounds, MulFUStage,
       BFUStage, AFUStage, IntFUStage, DispatchStage, DecodeStage, DecodeOutOfBounds, exVars,
       FetchStage, FetchOutOfBounds, SquashTail, SquashEnds, BecomesUndefined, TypeInv, UnitTypes, Latches
  <2>5. execute_AFU'.has_insn => execute_AFU.has_insn /\ execute_AFU'.instr = execute_AFU.instr
    BY <1>4, <2>1 DEF Next, vars, CommitStage, CommitBelowZero, MAUStage, MAUOutOfBounds, MulFUStage,
       BFUStage, AFUStage, IntFUStage, DispatchStage, DecodeStage, DecodeOutOfBounds, exVars,
       FetchStage, FetchOutOfBounds, SquashTail, SquashEnds, BecomesUndefined, TypeInv, UnitTypes, Latches
  <2> QED
    BY <2>2, <2>3, <2>4, <2>5
<1>5. ASSUME ~IssueStage,
             \/ \E k \in IQSlots : issueQueue'[k].valid_bit /\ i = issueQueue'[k].instr
             \/ execute_IntFU'.has_insn /\ i = execute_IntFU'.instr
             \/ execute_MulFU'.has_insn /\ i = execute_MulFU'.instr
             \/ execute_AFU'.has_insn /\ i = execute_AFU'.instr
      PROVE  Placed(i)
  BY <1>4, <1>5 DEF Placed
<1>6. ASSUME ~IssueStage, \/ rename2_dispatch'.has_insn /\ i = rename2_dispatch'.instr
                          \/ issue_queue'.has_insn /\ i = issue_queue'.instr
      PROVE  Goal
  <2>1. CASE DispatchStage
    <3> DEFINE r == rename2_dispatch.instr
               d == ReadPRF(PickUp(r, bus), physicalRegFile)
    <3>1. /\ ~rename2_dispatch'.has_insn
          /\ issue_queue'.has_insn => \/ issue_queue' = issue_queue
                                      \/ rename2_dispatch.has_insn /\ issue_queue'.instr = d
      BY <2>1 DEF DispatchStage, TypeInv, FrontTypes, StallLatches, Latches
    <3>2. Carried(d, r)
      <4>1. r \in Instrs /\ bus \in BusType /\ physicalRegFile \in PRFType
        BY DEF TypeInv, FrontTypes, ForwardingTypes, FileTypes, StallLatches
      <4> QED
        BY <4>1, PickedUp, ReadFromPRF, CarriedTwice
    <3> HIDE DEF d
    <3>3. rename2_dispatch.has_insn => Placed(r)
      BY DEF Placed
    <3>4. issue_queue.has_insn => Placed(issue_queue.instr)
      BY DEF Placed
    <3>5. r \in Instrs
      BY DEF TypeInv, FrontTypes, StallLatches
    <3>6. rename2_dispatch.has_insn => ComesFromPlaced(d)
      BY <3>2, <3>3, <3>5 DEF ComesFromPlaced
    <3> QED
      BY <1>1, <1>6, <3>1, <3>4, <3>6
  <2>2. CASE DecodeStage /\ decode_rename1.has_insn
    <3>1. PICK e \in Instrs : Enters(e)
      BY <2>2, DecodeRenames DEF OwnInv, Undisturbed
    <3>2. issue_queue' = issue_queue
      BY <2>2 DEF DecodeStage
    <3>3. CASE rename2_dispatch.stall
      <4>1. rename2_dispatch' = rename2_dispatch
        BY <3>1, <3>3 DEF Enters
      <4> QED
        BY <1>1, <1>6, <3>2, <4>1 DEF Placed
    <3>4. CASE ~rename2_dispatch.stall
      <4>1. rename2_dispatch'.instr = decode_rename1'.instr
        BY <3>1, <3>4 DEF Enters
      <4> QED
        BY <1>1, <1>6, <2>2, <3>2, <4>1 DEF Placed
    <3> QED
      BY <3>3, <3>4
  <2>3. CASE UNCHANGED <<rename2_dispatch, issue_queue>>
    BY <1>1, <1>6, <2>3 DEF Placed
  <2>4. \/ DispatchStage
        \/ DecodeStage /\ decode_rename1.has_insn
        \/ UNCHANGED <<rename2_dispatch, issue_queue>>
    <3>1. stage' # "squash" /\ stage # "squash" /\ BFU_pc = -1
      BY DEF QuietInv
    <3> QED
      BY <1>6, <3>1 DEF Next, vars, CommitStage, CommitBelowZero, MAUStage, MAUOutOfBounds, MulFUStage,
         BFUStage, AFUStage, IntFUStage, DecodeStage, DecodeOutOfBounds, frontVars,
         FetchStage, FetchOutOfBounds, SquashTail, SquashEnds, BecomesUndefined
  <2> QED
    BY <2>1, <2>2, <2>3, <2>4
<1> QED
  <2>1. CASE ~IssueStage
    <3> HIDE DEF Goal
    <3>1. Placed(i) => Goal
      BY <1>1 DEF Goal
    <3> QED
      BY <1>2, <1>5, <1>6, <2>1, <3>1 DEF Placed, Goal
  <2> QED
    BY <1>3, <2>1

(***************************************************************************)
(* What the buses carry.                                                   *)
(***************************************************************************)
\* A unit's latch puts what it computes on a bus.
Delivers(b, tag, value) == bus'[b].tag = tag /\ bus'[b].value = value

\* Who puts what on the buses, in a step of a program without branches.
BusFilled(b) ==
  \/ /\ b = IntBus /\ execute_IntFU.has_insn
     /\ execute_IntFU.instr.opcode \in DestinationOps
     /\ Delivers(b, execute_IntFU.instr.phyrd, IntResult(execute_IntFU.instr))
  \/ /\ b = MulBus /\ execute_MulFU.has_insn
     /\ Delivers(b, execute_MulFU.instr.phyrd,
                 execute_MulFU.instr.phyrs1_value * execute_MulFU.instr.phyrs2_value)
  \/ /\ b = AFUBus /\ execute_AFU.has_insn
     /\ execute_AFU.instr.opcode \in PointerOps
     /\ bus'[b].tag = execute_AFU.instr.phyrs3
  \/ /\ b = MAUBus /\ MAUStage /\ MAUBusy
     /\ lsq[0].LorS_bit # "STORE"
     /\ bus'[b].tag = lsq[0].phyrd

\* Each stage changes the bus of its own unit only, to what its latch delivers.
LEMMA BusSteps ==
  ASSUME TypeInv, QuietInv, [Next]_vars, NEW b \in Buses
  PROVE  bus'[b].tag = -1 \/ bus'[b] = bus[b] \/ BusFilled(b)
<1>1. bus \in BusType /\ DOMAIN bus = Buses
  BY DEF TypeInv, ForwardingTypes, BusType
<1>2. CASE CommitStage
  <2>1. bus' = Drained(bus) \/ bus' = bus
    BY <1>2 DEF CommitStage, WriteBack, busVars
  <2> QED
    BY <1>1, <2>1 DEF Drained, BusType
<1>3. CASE MAUStage
  <2>1. CASE MAUAccesses /\ lsq[0].LorS_bit # "STORE"
    <3>1. bus' = [bus EXCEPT ![MAUBus] = [tag |-> lsq[0].phyrd,
                                          value |-> data_memory[lsq[0].memory_address]]]
      BY <1>3, <2>1 DEF MAUStage
    <3>2. MAUBusy
      BY <2>1 DEF MAUAccesses, MAUCompletes
    <3> QED
      BY <1>1, <1>3, <2>1, <3>1, <3>2 DEF BusFilled
  <2>2. CASE ~(MAUAccesses /\ lsq[0].LorS_bit # "STORE")
    BY <1>3, <2>2 DEF MAUStage
  <2> QED
    BY <2>1, <2>2
<1>4. CASE MulFUStage
  <2> DEFINE i == execute_MulFU.instr
             full == [bus EXCEPT ![MulBus] = [tag |-> i.phyrd, value |-> i.phyrs1_value * i.phyrs2_value]]
  <2>1. bus' = bus \/ (execute_MulFU.has_insn /\ bus' = full)
    BY <1>4 DEF MulFUStage
  <2> QED
    BY <1>1, <2>1 DEF BusFilled, Delivers
<1>5. CASE BFUStage
  BY <1>5 DEF BFUStage, QuietInv
<1>6. CASE AFUStage
  <2> DEFINE i == execute_AFU.instr
             full == [bus EXCEPT ![AFUBus] = [tag |-> i.phyrs3, value |-> BaseValue(i) + INCREMENTOR]]
  <2>1. bus' = bus \/ (execute_AFU.has_insn /\ i.opcode \in PointerOps /\ bus' = full)
    BY <1>6 DEF AFUStage
  <2> QED
    BY <1>1, <2>1 DEF BusFilled
<1>7. CASE IntFUStage
  <2> DEFINE i == execute_IntFU.instr
             full == [bus EXCEPT ![IntBus] = [tag |-> i.phyrd, value |-> IntResult(i)]]
  <2>1. bus' = bus \/ (execute_IntFU.has_insn /\ i.opcode \in DestinationOps /\ bus' = full)
    BY <1>7 DEF IntFUStage
  <2> QED
    BY <1>1, <2>1 DEF BusFilled, Delivers
<1>8. CASE bus' = bus
  BY <1>8
<1>9. \/ CommitStage \/ MAUStage \/ MulFUStage \/ BFUStage \/ AFUStage \/ IntFUStage \/ bus' = bus
  BY DEF Next, vars, busVars, CommitBelowZero, MAUOutOfBounds, IssueStage, DispatchStage,
     DecodeStage, DecodeOutOfBounds, FetchStage, FetchOutOfBounds, SquashTail, SquashEnds,
     BecomesUndefined
<1> QED
  BY <1>2, <1>3, <1>4, <1>5, <1>6, <1>7, <1>8, <1>9

(***************************************************************************)
(* Registers that have never been handed out.                              *)
(***************************************************************************)
\* Registers h, h + 1, ... are the first of the list, as they were put there.
Untouched(list, h, size) ==
  \A k \in Nat : 1 <= k /\ k <= size - h => k <= Len(list) /\ list[k] = h + k - 1

\* Taking the head of the free list touches one register more.
LEMMA UntouchedHead ==
  ASSUME NEW S, NEW list \in Seq(S), NEW size \in Nat, NEW h \in Nat, h < size,
         Untouched(list, h, size)
  PROVE  list # << >> /\ Head(list) = h /\ Tail(list) \in Seq(S)
         /\ Untouched(Tail(list), h + 1, size)
<1>1. Len(list) \in Nat /\ 1 <= Len(list) /\ list[1] = h
  <2>1. 1 \in Nat /\ 1 <= 1 /\ 1 <= size - h
    OBVIOUS
  <2>2. 1 <= Len(list) /\ list[1] = h + 1 - 1
    BY <2>1 DEF Untouched
  <2> QED
    BY <2>2
<1>2. list # << >> /\ Head(list) = h
  BY <1>1
<1>3. /\ Tail(list) \in Seq(S) /\ Len(Tail(list)) = Len(list) - 1
      /\ \A k \in 1 .. Len(list) - 1 : Tail(list)[k] = list[k + 1]
  BY <1>2, HeadTailProperties
<1>4. ASSUME NEW k \in Nat, 1 <= k, k <= size - (h + 1)
      PROVE  k <= Len(Tail(list)) /\ Tail(list)[k] = (h + 1) + k - 1
  <2>1. k + 1 \in Nat /\ 1 <= k + 1 /\ k + 1 <= size - h
    BY <1>4
  <2>2. k + 1 <= Len(list) /\ list[k + 1] = h + (k + 1) - 1
    BY <2>1 DEF Untouched
  <2>3. k \in 1 .. Len(list) - 1
    BY <1>1, <1>4, <2>2
  <2> QED
    BY <1>1, <1>3, <1>4, <2>2, <2>3
<1> QED
  BY <1>2, <1>3, <1>4 DEF Untouched

\* Giving a register back touches none.
LEMMA UntouchedBack ==
  ASSUME NEW S, NEW list \in Seq(S), NEW size, NEW h, Untouched(list, h, size),
         NEW r \in S, NEW n
  PROVE  AddBack(list, r, n) \in Seq(S) /\ Untouched(AddBack(list, r, n), h, size)
<1>1. /\ Append(list, r) \in Seq(S) /\ Len(Append(list, r)) = Len(list) + 1 /\ Len(list) \in Nat
      /\ \A k \in 1 .. Len(list) : Append(list, r)[k] = list[k]
  BY AppendProperties
<1>2. Untouched(Append(list, r), h, size)
  <2> SUFFICES ASSUME NEW k \in Nat, 1 <= k, k <= size - h
               PROVE  k <= Len(Append(list, r)) /\ Append(list, r)[k] = h + k - 1
    BY DEF Untouched
  <2>1. k <= Len(list) /\ list[k] = h + k - 1
    BY DEF Untouched
  <2>2. k \in 1 .. Len(list)
    BY <1>1, <2>1
  <2> QED
    BY <1>1, <2>1, <2>2
<1> QED
  BY <1>1, <1>2 DEF AddBack

\* Each unit holds instructions of its own kind.
UnitKinds ==
  /\ execute_IntFU.has_insn => execute_IntFU.instr.opcode \in IntFUSourceOps \cup NoSourceOps
  /\ execute_MulFU.has_insn => execute_MulFU.instr.opcode = "MUL"
  /\ execute_AFU.has_insn => execute_AFU.instr.opcode \in AFUOps

MachineInv == RunInv /\ MAUInv /\ UnitKinds

\* Outside issue a unit's latch keeps its instruction or loses it.
LEMMA UnitsKeep ==
  ASSUME TypeInv, QuietInv, QuietInv', ~IssueStage, [Next]_vars
  PROVE  /\ execute_IntFU'.has_insn => execute_IntFU.has_insn /\ execute_IntFU'.instr = execute_IntFU.instr
         /\ execute_MulFU'.has_insn => execute_MulFU.has_insn /\ execute_MulFU'.instr = execute_MulFU.instr
         /\ execute_AFU'.has_insn => execute_AFU.has_insn /\ execute_AFU'.instr = execute_AFU.instr
<1>1. stage' # "squash" /\ stage # "squash" /\ BFU_pc = -1
  BY DEF QuietInv
<1>2. execute_IntFU'.has_insn => execute_IntFU.has_insn /\ execute_IntFU'.instr = execute_IntFU.instr
  BY <1>1 DEF Next, vars, CommitStage, CommitBelowZero, MAUStage, MAUOutOfBounds, MulFUStage,
     BFUStage, AFUStage, IntFUStage, DispatchStage, DecodeStage, DecodeOutOfBounds, exVars,
     FetchStage, FetchOutOfBounds, SquashTail, SquashEnds, BecomesUndefined, TypeInv, UnitTypes, Latches
<1>3. execute_MulFU'.has_insn => execute_MulFU.has_insn /\ execute_MulFU'.instr = execute_MulFU.instr
  BY <1>1 DEF Next, vars, CommitStage, CommitBelowZero, MAUStage, MAUOutOfBounds, MulFUStage,
     BFUStage, AFUStage, IntFUStage, DispatchStage, DecodeStage, DecodeOutOfBounds, exVars,
     FetchStage, FetchOutOfBounds, SquashTail, SquashEnds, BecomesUndefined, TypeInv, UnitTypes, Latches
<1>4. execute_AFU'.has_insn => execute_AFU.has_insn /\ execute_AFU'.instr = execute_AFU.instr
  BY <1>1 DEF Next, vars, CommitStage, CommitBelowZero, MAUStage, MAUOutOfBounds, MulFUStage,
     BFUStage, AFUStage, IntFUStage, DispatchStage, DecodeStage, DecodeOutOfBounds, exVars,
     FetchStage, FetchOutOfBounds, SquashTail, SquashEnds, BecomesUndefined, TypeInv, UnitTypes, Latches
<1> QED
  BY <1>2, <1>3, <1>4

\* Every step keeps the kinds of the units.
LEMMA UnitKindsStep ==
  ASSUME RunInv, RunInv', UnitKinds, Fits, TimesFit, [Next]_vars
  PROVE  UnitKinds'
<1>1. CASE IssueStage
  <2>1. /\ ReceivesFrom(execute_IntFU, execute_IntFU', IntFUSourceOps \cup NoSourceOps)
        /\ ReceivesFrom(execute_MulFU, execute_MulFU', {"MUL"})
        /\ ReceivesFrom(execute_AFU, execute_AFU', AFUOps)
    BY <1>1, UnitsReceive
  <2>2. ASSUME NEW latch, NEW next, NEW kinds, ReceivesFrom(latch, next, kinds), next # latch
        PROVE  next.instr.opcode \in kinds
    <3>1. PICK j \in Instrs :
            /\ j.opcode \in kinds
            /\ next = [has_insn |-> TRUE,
                       instr |-> [j EXCEPT !.phyrs1_valid = FALSE, !.phyrs2_valid = FALSE]]
      BY <2>2 DEF ReceivesFrom
    <3> QED
      BY <3>1 DEF Instrs
  <2> QED
    BY <2>1, <2>2 DEF UnitKinds
<1>2. CASE ~IssueStage
  BY <1>2, UnitsKeep DEF UnitKinds, RunInv
<1> QED
  BY <1>1, <1>2

\* A program that fits always runs with units and MAU in this state.
LEMMA MachineAlways ==
  ASSUME BitwiseIsInt, StraightLine, Fits, TimesFit PROVE Spec => []MachineInv
<1>1. Init => MAUInv /\ UnitKinds
  <2>1. Init => UnitKinds
    BY DEF Init, APEX_cpu_init, UnitKinds, EmptyLatch
  <2> QED
    BY <2>1, MAUInvInit
<1>2. RunInv /\ RunInv' /\ MAUUndisturbed /\ MAUInv /\ UnitKinds /\ [Next]_vars => MAUInv' /\ UnitKinds'
  <2> SUFFICES ASSUME RunInv, RunInv', MAUUndisturbed, MAUInv, UnitKinds, [Next]_vars
               PROVE  MAUInv' /\ UnitKinds'
    OBVIOUS
  <2>1. UnitKinds'
    BY UnitKindsStep
  <2>2. MAUInv'
    BY MAUInvStep DEF RunInv
  <2> QED
    BY <2>1, <2>2
<1>3. RunInv /\ MAUInv /\ UnitKinds => MachineInv
  BY DEF MachineInv
<1> QED
  BY <1>1, <1>2, <1>3, RunAlways, StraightLineUndisturbed, PTL DEF Spec

\* What the MAU works on is an entry of the load-store queue.
LEMMA MAUBusyEstablished ==
  ASSUME MachineInv, MAUStage, MAUBusy PROVE lsq[0].established_bit
<1>1. CASE MAUStarts
  BY <1>1 DEF MAUStarts
<1>2. CASE execute_MAU.has_insn
  BY <1>2, MemoryHeads DEF MachineInv, RunInv, MAUInv, HeadIsInMAU
<1> QED
  BY <1>1, <1>2 DEF MAUBusy

(***************************************************************************)
(* Nothing uses a register before it is handed out.                        *)
(***************************************************************************)
SourcesOf(i) ==
  (IF i.opcode \in Source1Ops THEN {i.phyrs1} ELSE {})
    \cup (IF i.opcode \in Source2Ops THEN {i.phyrs2} ELSE {})
UsedBy(i) == Given(i) \cup SourcesOf(i)

\* Entry k of the load-store queue waits for a load.
Loads(k) == lsq[k].established_bit /\ lsq[k].LorS_bit # "STORE"

NoneUsedFrom(h) ==
  /\ \A i \in Instrs : Placed(i) => \A p \in UsedBy(i) : p < h
  /\ \A r \in ProgramRegisters : renameTable[r] < h
  /\ \A b \in Buses : bus[b].tag < h
  /\ \A p \in PhysicalRegs : physicalRegFile[p].valid => p < h
  /\ \A k \in LSQSlots : Loads(k) => lsq[k].phyrd < h

\* Carrying operands along changes no register's name.
LEMMA CarriedUses == ASSUME NEW i, NEW j, Carried(i, j) PROVE UsedBy(i) = UsedBy(j)
<1>1. NamesOf(i) = NamesOf(j)
  BY DEF Carried, SameInstr
<1>2. /\ i.opcode = j.opcode /\ i.phyrd = j.phyrd /\ i.phyrs1 = j.phyrs1
      /\ i.phyrs2 = j.phyrs2 /\ i.phyrs3 = j.phyrs3
  BY <1>1 DEF NamesOf
<1> QED
  BY <1>2 DEF UsedBy, Given, SourcesOf

\* A step lets no register be used that was not, but those decode hands out.
LEMMA UsesStep ==
  ASSUME MachineInv, MachineInv', Fits, TimesFit, [Next]_vars,
         NEW h \in Nat, NEW g \in Nat, h <= g, NoneUsedFrom(h),
         DecodeStage /\ decode_rename1.has_insn =>
           \E e \in Instrs : Enters(e) /\ Arrives(e) /\ \A p \in Given(e) : p < g
  PROVE  NoneUsedFrom(g)'
<1> USE DEF MachineInv, RunInv
<1>1. PICK tags \in SUBSET Int : tags = Tags
  <2>1. Tags \in SUBSET Int
    BY RegisterIndices DEF Tags
  <2> QED
    BY <2>1
<1>2. /\ \A i \in Instrs : UsedBy(i) \subseteq tags
      /\ \A b \in Buses : bus[b].tag \in tags /\ bus'[b].tag \in tags
      /\ \A r \in ProgramRegisters : renameTable[r] \in tags
      /\ \A k \in LSQSlots : lsq[k].phyrd \in tags
      /\ PhysicalRegs \subseteq tags
  BY <1>1 DEF UsedBy, Given, SourcesOf, Instrs, TypeInv, ForwardingTypes, BusType, RenameTypes,
     TableType, LSQTypes, LSQType, LSQEntries, Tags
<1> HIDE DEF MachineInv, RunInv
<1>3. ASSUME NEW p \in tags, p < h PROVE p < g
  BY <1>3
<1>4. ASSUME NEW i \in Instrs, Placed(i) PROVE \A p \in UsedBy(i) : p < g
  BY <1>2, <1>3, <1>4 DEF NoneUsedFrom
<1>5. \A i \in Instrs : Placed(i)' => \A p \in UsedBy(i) : p < g
  <2> SUFFICES ASSUME NEW i \in Instrs, Placed(i)' PROVE \A p \in UsedBy(i) : p < g
    OBVIOUS
  <2>1. CASE ComesFromPlaced(i)
    <3>1. PICK j \in Instrs : Placed(j) /\ Carried(i, j)
      BY <2>1 DEF ComesFromPlaced
    <3> QED
      BY <1>4, <3>1, CarriedUses
  <2>2. CASE DecodeStage /\ decode_rename1.has_insn /\ i = decode_rename1'.instr
    <3>1. PICK e \in Instrs : Enters(e) /\ Arrives(e) /\ \A p \in Given(e) : p < g
      BY <2>2
    <3>2. e = i
      BY <2>2, <3>1 DEF Enters
    <3>3. \A p \in SourcesOf(e) : p \in {renameTable[r] : r \in ProgramRegisters}
      BY <3>1 DEF Enters, SourcesOf, Instrs
    <3>4. \A p \in {renameTable[r] : r \in ProgramRegisters} : p < g
      BY <1>2, <1>3 DEF NoneUsedFrom
    <3> QED
      BY <3>1, <3>2, <3>3, <3>4 DEF UsedBy
  <2> QED
    BY <2>1, <2>2, PlacesStep DEF MachineInv
<1>6. \A r \in ProgramRegisters : renameTable'[r] < g
  <2> SUFFICES ASSUME NEW r \in ProgramRegisters PROVE renameTable'[r] < g
    OBVIOUS
  <2>1. CASE DecodeStage /\ decode_rename1.has_insn
    <3>1. PICK e \in Instrs : Enters(e) /\ Arrives(e) /\ \A p \in Given(e) : p < g
      BY <2>1
    <3>2. renameTable'[r] = IF Writes(e, r) THEN RegisterFor(e, r) ELSE renameTable[r]
      BY <3>1 DEF Enters
    <3>3. Writes(e, r) => RegisterFor(e, r) \in Given(e)
      BY DEF Writes, RegisterFor, Given, Advances
    <3> QED
      BY <1>2, <1>3, <3>1, <3>2, <3>3 DEF NoneUsedFrom
  <2>2. CASE ~(DecodeStage /\ decode_rename1.has_insn)
    <3>1. renameTable' = renameTable
      BY <2>2 DEF Next, vars, CommitStage, CommitBelowZero, MAUStage, MAUOutOfBounds, MulFUStage,
         BFUStage, AFUStage, IntFUStage, IssueStage, DispatchStage, DecodeStage, DecodeOutOfBounds,
         FetchStage, FetchOutOfBounds, SquashTail, SquashEnds, BecomesUndefined, MachineInv, RunInv,
         QuietInv
    <3> QED
      BY <1>2, <1>3, <3>1 DEF NoneUsedFrom
  <2> QED
    BY <2>1, <2>2
<1>7. \A b \in Buses : bus'[b].tag < g
  <2> SUFFICES ASSUME NEW b \in Buses PROVE bus'[b].tag < g
    OBVIOUS
  <2>1. CASE bus'[b].tag = -1
    BY <2>1
  <2>2. CASE bus'[b] = bus[b]
    BY <1>2, <1>3, <2>2 DEF NoneUsedFrom
  <2>3. CASE BusFilled(b)
    <3>1. ASSUME NEW latch \in {execute_IntFU, execute_MulFU, execute_AFU}, latch.has_insn,
                 bus'[b].tag \in Given(latch.instr)
          PROVE  bus'[b].tag < g
      <4>1. Placed(latch.instr) /\ latch.instr \in Instrs
        BY <3>1 DEF Placed, MachineInv, RunInv, TypeInv, UnitTypes, Latches
      <4> QED
        BY <1>4, <3>1, <4>1 DEF UsedBy
    <3>2. ASSUME MAUStage, MAUBusy, lsq[0].LorS_bit # "STORE", bus'[b].tag = lsq[0].phyrd
          PROVE  bus'[b].tag < g
      <4>1. Loads(0) /\ 0 \in LSQSlots
        BY <3>2, MAUBusyEstablished, SlotSets DEF Loads
      <4> QED
        BY <1>2, <1>3, <3>2, <4>1 DEF NoneUsedFrom
    <3>3. execute_MulFU.has_insn => execute_MulFU.instr.opcode \in DestinationOps
      BY DEF MachineInv, UnitKinds, DestinationOps, Alu2Ops
    <3> QED
      BY <2>3, <3>1, <3>2, <3>3 DEF BusFilled, Delivers, Given
  <2> QED
    BY <2>1, <2>2, <2>3, BusSteps DEF MachineInv, RunInv
<1>8. \A p \in PhysicalRegs : physicalRegFile'[p].valid => p < g
  <2> SUFFICES ASSUME NEW p \in PhysicalRegs, physicalRegFile'[p].valid PROVE p < g
    OBVIOUS
  <2>1. CASE physicalRegFile[p].valid
    BY <1>2, <1>3, <2>1 DEF NoneUsedFrom
  <2>2. CASE CommitStage /\ \E b \in Buses : bus[b].tag = p
    BY <1>2, <1>3, <2>2 DEF NoneUsedFrom
  <2>3. physicalRegFile[p].valid \/ (CommitStage /\ \E b \in Buses : bus[b].tag = p)
    <3>1. CASE CommitStage
      <4>1. physicalRegFile' = physicalRegFile \/ physicalRegFile' = WrittenPRF(physicalRegFile, bus)
        BY <3>1 DEF CommitStage, WriteBack, prfVars
      <4> QED
        BY <3>1, <4>1 DEF WrittenPRF
    <3>2. CASE DecodeStage /\ decode_rename1.has_insn
      BY <3>2 DEF Arrives
    <3>3. CASE physicalRegFile' = physicalRegFile
      BY <3>3
    <3>4. \/ CommitStage
          \/ DecodeStage /\ decode_rename1.has_insn
          \/ physicalRegFile' = physicalRegFile
      BY DEF Next, vars, CommitBelowZero, MAUStage, MAUOutOfBounds, MulFUStage,
         BFUStage, AFUStage, IntFUStage, IssueStage, DispatchStage, DecodeStage, DecodeOutOfBounds,
         FetchStage, FetchOutOfBounds, SquashTail, SquashEnds, BecomesUndefined, prfVars
    <3> QED
      BY <3>1, <3>2, <3>3, <3>4
  <2> QED
    BY <2>1, <2>2, <2>3
<1>9. \A k \in LSQSlots : Loads(k)' => lsq'[k].phyrd < g
  <2> SUFFICES ASSUME NEW k \in LSQSlots, Loads(k)' PROVE lsq'[k].phyrd < g
    OBVIOUS
  <2>1. lsq'[k].established_bit /\ lsq'[k].LorS_bit # "STORE"
    BY DEF Loads
  <2>2. CASE \E j \in LSQSlots : Loads(j) /\ lsq'[k].phyrd = lsq[j].phyrd
    BY <1>2, <1>3, <2>2 DEF NoneUsedFrom
  <2>3. CASE issue_queue.has_insn /\ issue_queue.instr.opcode \in LoadOps
             /\ lsq'[k].phyrd = issue_queue.instr.phyrd
    <3>1. Placed(issue_queue.instr) /\ issue_queue.instr \in Instrs
      BY <2>3 DEF Placed, MachineInv, RunInv, TypeInv, FrontTypes, Latches
    <3>2. issue_queue.instr.phyrd \in UsedBy(issue_queue.instr)
      BY <2>3 DEF UsedBy, Given, DestinationOps
    <3> QED
      BY <1>4, <2>3, <3>1, <3>2
  <2> QED
    BY <2>1, <2>2, <2>3, LSQSteps DEF Loads, MachineInv, RunInv, MemoryOps
<1> QED
  BY <1>5, <1>6, <1>7, <1>8, <1>9 DEF NoneUsedFrom

FreshFrom(h) ==
  /\ Untouched(freePhysicalRegList, h, PHYSICAL_REG_FILE_SIZE)
  /\ h + Taking <= SeenResults
  /\ NoneUsedFrom(h)

FreshRegs == \E h \in 0 .. PHYSICAL_REG_FILE_SIZE : FreshFrom(h)

\* The number of results seen never exceeds the physical registers.
LEMMA ResultsFit ==
  ASSUME TypeInv, InPrograms, Fits
  PROVE  /\ SeenResults \in Nat /\ Taking \in Nat /\ SeenResults <= PHYSICAL_REG_FILE_SIZE
         /\ Held(decode_rename1, DestinationOps) \in {0, 1}
         /\ Held(decode_rename1, PointerOps) \in {0, 1}
<1>1. CodeIndex(pc) \in Int
  BY DEF CodeIndex, FIRST_PC, TypeInv, FrontTypes
<1>2. /\ Seen(DestinationOps) \in Nat /\ Seen(PointerOps) \in Nat
      /\ Seen(DestinationOps) <= HowMany(code_memory, DestinationOps)
      /\ Seen(PointerOps) <= HowMany(code_memory, PointerOps)
      /\ HowMany(code_memory, DestinationOps) \in Nat /\ HowMany(code_memory, PointerOps) \in Nat
  BY <1>1, SeenBounds DEF Seen
<1>3. HowMany(code_memory, DestinationOps) + HowMany(code_memory, PointerOps) <= PHYSICAL_REG_FILE_SIZE
  BY DEF InPrograms, Fits
<1>4. Held(decode_rename1, DestinationOps) \in {0, 1} /\ Held(decode_rename1, PointerOps) \in {0, 1}
  BY HeldBit
<1> QED
  BY <1>2, <1>3, <1>4, SizesAssumption DEF SeenResults, Taking

\* Decode hands out the first registers that nothing uses.
LEMMA HandedOut ==
  ASSUME TypeInv, InPrograms, Fits, decode_rename1.has_insn,
         NEW h \in 0 .. PHYSICAL_REG_FILE_SIZE, FreshFrom(h),
         NEW e \in Instrs, Enters(e), Arrives(e), NEW g, g = h + Taking
  PROVE  /\ g \in 0 .. PHYSICAL_REG_FILE_SIZE /\ h <= g
         /\ \A p \in Given(e) : h <= p /\ p < g
         /\ Untouched(freePhysicalRegList', g, PHYSICAL_REG_FILE_SIZE)
<1> DEFINE size == PHYSICAL_REG_FILE_SIZE
           list == freePhysicalRegList
           left == LeftByDestination(e)
           m == IF e.opcode \in DestinationOps THEN h + 1 ELSE h
<1>1. /\ list \in Seq(PhysicalRegs) /\ size \in Nat /\ h \in Nat
      /\ Untouched(list, h, size)
  BY SizesAssumption DEF TypeInv, RenameTypes, ListType, FreshFrom
<1>2. /\ g = m + (IF e.opcode \in PointerOps THEN 1 ELSE 0) /\ g <= size
  <2>1. e.opcode = decode_rename1.instr.opcode
    BY DEF Enters
  <2>2. /\ Held(decode_rename1, DestinationOps) = IF e.opcode \in DestinationOps THEN 1 ELSE 0
        /\ Held(decode_rename1, PointerOps) = IF e.opcode \in PointerOps THEN 1 ELSE 0
    BY <2>1 DEF Held
  <2>3. g = m + (IF e.opcode \in PointerOps THEN 1 ELSE 0)
    BY <1>1, <2>2 DEF Taking
  <2>4. g <= size
    BY <1>1, ResultsFit DEF FreshFrom
  <2> QED
    BY <2>3, <2>4
<1>3. /\ left \in Seq(PhysicalRegs) /\ Untouched(left, m, size)
      /\ e.opcode \in DestinationOps => e.phyrd = h
  <2>1. CASE e.opcode \in DestinationOps
    <3>1. h < size
      BY <1>1, <1>2, <2>1
    <3>2. list # << >> /\ Head(list) = h /\ Tail(list) \in Seq(PhysicalRegs)
          /\ Untouched(Tail(list), h + 1, size)
      BY <1>1, <3>1, UntouchedHead
    <3> QED
      BY <2>1, <3>2 DEF LeftByDestination, Arrives
  <2>2. CASE e.opcode \notin DestinationOps
    BY <1>1, <2>2 DEF LeftByDestination
  <2> QED
    BY <2>1, <2>2
<1>4. m \in Nat /\ h <= m /\ m <= g /\ g \in Nat
  BY <1>1, <1>2
<1>5. freePhysicalRegList' = IF e.opcode \in PointerOps THEN Tail(left) ELSE left
  BY DEF Arrives
<1>6. e.opcode \in PointerOps => e.phyrs3 = Head(left)
  BY DEF Arrives
<1>7. Given(e) \subseteq (IF e.opcode \in DestinationOps THEN {e.phyrd} ELSE {})
                          \cup (IF e.opcode \in PointerOps THEN {e.phyrs3} ELSE {})
  BY DEF Given
<1>8. e.opcode \in DestinationOps => e.phyrd = h /\ m = h + 1
  BY <1>3
<1> HIDE DEF left, m
<1>9. CASE e.opcode \in PointerOps
  <2>1. m < size /\ g = m + 1
    BY <1>1, <1>2, <1>4, <1>9
  <2>2. Head(left) = m /\ Untouched(Tail(left), m + 1, size)
    BY <1>1, <1>3, <1>4, <2>1, UntouchedHead
  <2> QED
    BY <1>1, <1>2, <1>4, <1>5, <1>6, <1>7, <1>8, <1>9, <2>1, <2>2
<1>10. CASE e.opcode \notin PointerOps
  <2>1. g = m
    BY <1>2, <1>4, <1>10
  <2> QED
    BY <1>1, <1>2, <1>3, <1>4, <1>5, <1>7, <1>8, <1>10, <2>1
<1> QED
  BY <1>9, <1>10

\* Outside decode the list only grows, at its end.
LEMMA ListGrows ==
  ASSUME TypeInv, TypeInv', QuietInv, [Next]_vars, ~(DecodeStage /\ decode_rename1.has_insn),
         NEW h, Untouched(freePhysicalRegList, h, PHYSICAL_REG_FILE_SIZE)
  PROVE  Untouched(freePhysicalRegList', h, PHYSICAL_REG_FILE_SIZE)
<1> DEFINE size == PHYSICAL_REG_FILE_SIZE
<1>1. freePhysicalRegList \in Seq(Tags)
  <2>1. freePhysicalRegList \in Seq(PhysicalRegs)
    BY DEF TypeInv, RenameTypes, ListType
  <2> QED
    BY <2>1 DEF Tags
<1>2. ASSUME NEW i \in Instrs, NEW list \in Seq(Tags), Untouched(list, h, size)
      PROVE  Untouched(FreedPhysicalRegs(i, list), h, size)
  <2> DEFINE a == IF i.opcode \in DestinationOps THEN AddBack(list, i.phyrd, size) ELSE list
  <2>1. i.phyrd \in Tags /\ i.phyrs3 \in Tags
    BY DEF Instrs, Tags
  <2>2. a \in Seq(Tags) /\ Untouched(a, h, size)
    BY <1>2, <2>1, UntouchedBack
  <2>3. FreedPhysicalRegs(i, list) = IF i.opcode \in PointerOps THEN AddBack(a, i.phyrs3, size) ELSE a
    BY DEF FreedPhysicalRegs
  <2> HIDE DEF a
  <2> QED
    BY <2>1, <2>2, <2>3, UntouchedBack
<1>3. CASE CommitStage
  <2>1. \/ freePhysicalRegList' = freePhysicalRegList
        \/ /\ RoBAtCommit[0].established_bit
           /\ freePhysicalRegList' = FreedPhysicalRegs(RoBAtCommit[0].instr, freePhysicalRegList)
    BY <1>3 DEF CommitStage, CommitHead, freeVars
  <2>2. RoBAtCommit[0].established_bit => RoBAtCommit[0].instr \in Instrs
    <3>1. RoBAtCommit \in RoBType
      BY <1>3 DEF CommitStage, TypeInv, RoBTypes
    <3> QED
      BY <3>1, SlotSets DEF RoBType, RoBEntries
  <2> QED
    BY <1>1, <1>2, <2>1, <2>2
<1>4. CASE freePhysicalRegList' = freePhysicalRegList
  BY <1>4
<1>5. CommitStage \/ freePhysicalRegList' = freePhysicalRegList
  BY DEF Next, vars, CommitBelowZero, MAUStage, MAUOutOfBounds, MulFUStage, BFUStage, AFUStage,
     IntFUStage, IssueStage, DispatchStage, DecodeStage, DecodeOutOfBounds, FetchStage,
     FetchOutOfBounds, SquashTail, SquashEnds, BecomesUndefined, QuietInv, freeVars
<1> QED
  BY <1>3, <1>4, <1>5

\* Decode empties its latch.
LEMMA DecodeEmpties ==
  ASSUME RunInv, DecodeStage, decode_rename1.has_insn PROVE ~decode_rename1'.has_insn
<1>1. PICK i \in Instrs : Enters(i)
  BY DecodeRenames DEF RunInv, OwnInv, Undisturbed
<1> QED
  BY <1>1, DecodeCounts DEF RunInv, OwnInv, FlowInv

\* After every step there is a first fresh register again.
LEMMA FreshStep ==
  ASSUME MachineInv, MachineInv', Fits, TimesFit, [Next]_vars,
         NEW h \in 0 .. PHYSICAL_REG_FILE_SIZE, FreshFrom(h)
  PROVE  FreshRegs'
<1> USE DEF MachineInv
<1>1. /\ TypeInv /\ TypeInv' /\ InPrograms /\ QuietInv /\ OwnInv /\ FlowLatches
      /\ BudgetInv /\ Undisturbed
  BY DEF RunInv, FlowInv
<1>2. h \in Nat /\ SeenResults \in Nat /\ Taking \in Nat /\ h + Taking <= SeenResults
  BY <1>1, ResultsFit DEF FreshFrom
<1>3. CASE DecodeStage /\ decode_rename1.has_insn
  <2>1. PICK g : g = h + Taking
    OBVIOUS
  <2>2. PICK e \in Instrs : Enters(e) /\ Arrives(e)
    BY <1>1, <1>3, DecodeRenames DEF OwnInv, Undisturbed
  <2>3. /\ g \in 0 .. PHYSICAL_REG_FILE_SIZE /\ h <= g /\ g \in Nat
        /\ \A p \in Given(e) : h <= p /\ p < g
        /\ Untouched(freePhysicalRegList', g, PHYSICAL_REG_FILE_SIZE)
    BY <1>1, <1>3, <2>1, <2>2, HandedOut
  <2>4. NoneUsedFrom(g)'
    BY <1>2, <2>2, <2>3, UsesStep DEF FreshFrom
  <2>5. (g + Taking <= SeenResults)'
    <3>1. Taking' = 0
      BY <1>3, DecodeEmpties DEF Taking, Held
    <3>2. SeenResults' = SeenResults
      <4>1. pc' = pc /\ code_memory' = code_memory
        BY <1>3 DEF DecodeStage
      <4> QED
        BY <4>1 DEF SeenResults, Seen, SeenAt, CodeIndex
    <3> QED
      BY <1>2, <2>1, <2>3, <3>1, <3>2
  <2>6. FreshFrom(g)'
    BY <2>3, <2>4, <2>5 DEF FreshFrom
  <2> QED
    BY <2>3, <2>6 DEF FreshRegs
<1>4. CASE ~(DecodeStage /\ decode_rename1.has_insn)
  <2>1. Untouched(freePhysicalRegList', h, PHYSICAL_REG_FILE_SIZE)
    BY <1>1, <1>4, ListGrows DEF FreshFrom
  <2>2. NoneUsedFrom(h)'
    BY <1>2, <1>4, UsesStep DEF FreshFrom
  <2>3. (h + Taking <= SeenResults)'
    <3> DEFINE D == DestinationOps
               P == PointerOps
    <3>1. /\ Held(decode_rename1, D)' - Seen(D)' <= Held(decode_rename1, D) - Seen(D)
          /\ Held(decode_rename1, P)' - Seen(P)' <= Held(decode_rename1, P) - Seen(P)
          /\ Seen(D) \in Nat /\ Seen(D)' \in Nat /\ Seen(P) \in Nat /\ Seen(P)' \in Nat
      BY <1>1, CountsStep
    <3>2. /\ Held(decode_rename1, D) \in Nat /\ Held(decode_rename1, D)' \in Nat
          /\ Held(decode_rename1, P) \in Nat /\ Held(decode_rename1, P)' \in Nat
      BY HeldBit
    <3>3. PICK a \in Nat, b \in Nat, s \in Nat, t \in Nat :
            /\ a = Held(decode_rename1, D)' /\ b = Held(decode_rename1, P)'
            /\ s = Seen(D)' /\ t = Seen(P)'
      BY <3>1, <3>2
    <3>4. h + (a + b) <= s + t
      BY <1>2, <3>1, <3>2, <3>3 DEF Taking, SeenResults
    <3> QED
      BY <3>3, <3>4 DEF Taking, SeenResults
  <2>4. FreshFrom(h)'
    BY <2>1, <2>2, <2>3 DEF FreshFrom
  <2> QED
    BY <2>4 DEF FreshRegs
<1> QED
  BY <1>3, <1>4

\* At the start every register is fresh.
LEMMA FreshInit == ASSUME TypeInv, Init PROVE FreshFrom(0)
<1>1. /\ PHYSICAL_REG_FILE_SIZE \in Nat
      /\ freePhysicalRegList = [k \in 1 .. PHYSICAL_REG_FILE_SIZE |-> k - 1]
  BY SizesAssumption DEF Init, APEX_cpu_init
<1>2. Untouched(freePhysicalRegList, 0, PHYSICAL_REG_FILE_SIZE)
  <2>1. Len(freePhysicalRegList) = PHYSICAL_REG_FILE_SIZE
    BY <1>1
  <2>2. ASSUME NEW k \in Nat, 1 <= k, k <= PHYSICAL_REG_FILE_SIZE - 0
        PROVE  k <= Len(freePhysicalRegList) /\ freePhysicalRegList[k] = 0 + k - 1
    <3>1. k \in 1 .. PHYSICAL_REG_FILE_SIZE
      BY <1>1, <2>2
    <3> QED
      BY <1>1, <2>1, <3>1
  <2> QED
    BY <2>2 DEF Untouched
<1>3. Taking = 0 /\ SeenResults \in Nat
  <2>1. Taking = 0
    BY DEF Init, APEX_cpu_init, EmptyStallLatch, Taking, Held
  <2>2. CodeIndex(pc) \in Int
    BY DEF CodeIndex, FIRST_PC, TypeInv, FrontTypes
  <2> QED
    BY <2>1, <2>2, SeenBounds DEF SeenResults, Seen
<1>4. NoneUsedFrom(0)
  <2>1. \A i : ~Placed(i)
    BY DEF Init, APEX_cpu_init, Placed, EmptyStallLatch, EmptyLatch, EmptyIQEntry, RoBSlots
  <2>2. \A r \in ProgramRegisters : renameTable[r] < 0
    BY RegisterIndices DEF Init, APEX_cpu_init, NOT_RENAMED
  <2>3. \A b \in Buses : bus[b].tag < 0
    BY DEF Init, APEX_cpu_init, IdleBus
  <2>4. \A p \in PhysicalRegs : ~physicalRegFile[p].valid
    BY DEF Init, APEX_cpu_init
  <2>5. \A k \in LSQSlots : ~Loads(k)
    BY DEF Init, APEX_cpu_init, EmptyLSQEntry, Loads
  <2> QED
    BY <2>1, <2>2, <2>3, <2>4, <2>5 DEF NoneUsedFrom
<1> QED
  BY <1>2, <1>3, <1>4 DEF FreshFrom

\* At every time there is a first fresh register.
LEMMA FreshAlways ==
  ASSUME BitwiseIsInt, StraightLine, Fits, TimesFit PROVE Spec => []FreshRegs
<1>1. MachineInv /\ Init => FreshRegs
  <2>1. 0 \in 0 .. PHYSICAL_REG_FILE_SIZE
    BY SizesAssumption
  <2> QED
    BY <2>1, FreshInit DEF FreshRegs, MachineInv, RunInv
<1>2. MachineInv /\ MachineInv' /\ FreshRegs /\ [Next]_vars => FreshRegs'
  <2> SUFFICES ASSUME MachineInv, MachineInv', FreshRegs, [Next]_vars PROVE FreshRegs'
    OBVIOUS
  <2>1. PICK h \in 0 .. PHYSICAL_REG_FILE_SIZE : FreshFrom(h)
    BY DEF FreshRegs
  <2> QED
    BY <2>1, FreshStep
<1> QED
  BY <1>1, <1>2, MachineAlways, PTL DEF Spec

(***************************************************************************)
(* Which bus delivers a register.                                          *)
(***************************************************************************)
BusFor(op) == IF op = "MUL" THEN MulBus ELSE IF op \in LoadOps THEN MAUBus ELSE IntBus

\* Instruction i's registers come over the buses that from says.
ResultsCome(from, i) ==
  /\ i.opcode \in DestinationOps => from[i.phyrd] = BusFor(i.opcode)
  /\ i.opcode \in PointerOps => i.phyrs3 \in PhysicalRegs /\ from[i.phyrs3] = AFUBus

\* Each register in use comes over one bus.
Delivered(from) ==
  /\ \A i \in Instrs : Placed(i) => ResultsCome(from, i)
  /\ \A k \in LSQSlots : Loads(k) => from[lsq[k].phyrd] = MAUBus
  /\ \A b \in Buses : bus[b].tag # -1 => from[bus[b].tag] = b

BusesAssigned == \E from : Delivered(from)

\* The registers that e is given are assigned as well.
Assigned(from, e) ==
  [p \in PhysicalRegs |-> IF e.opcode \in DestinationOps /\ p = e.phyrd THEN BusFor(e.opcode)
                          ELSE IF p \in Given(e) THEN AFUBus ELSE from[p]]

\* Operands carried along change neither an instruction's destination nor its pointer.
LEMMA ComesOver ==
  ASSUME NEW i, NEW j, Carried(i, j), NEW from, ResultsCome(from, j) PROVE ResultsCome(from, i)
<1>1. NamesOf(i) = NamesOf(j)
  BY DEF Carried, SameInstr
<1>2. i.opcode = j.opcode /\ i.phyrd = j.phyrd /\ i.phyrs3 = j.phyrs3
  BY <1>1 DEF NamesOf
<1> QED
  BY <1>2 DEF ResultsCome

\* Decode's step: the registers it hands out were fresh, so nobody delivers them.
LEMMA DeliveredAtDecode ==
  ASSUME MachineInv, MachineInv', Fits, TimesFit, [Next]_vars, FreshRegs,
         DecodeStage, decode_rename1.has_insn, NEW from, Delivered(from)
  PROVE  BusesAssigned'
<1> USE DEF MachineInv
<1>1. PICK h \in 0 .. PHYSICAL_REG_FILE_SIZE : FreshFrom(h)
  BY DEF FreshRegs
<1>2. PICK e \in Instrs : Enters(e) /\ Arrives(e)
  BY DecodeRenames DEF RunInv, OwnInv, Undisturbed
<1>3. \A p \in Given(e) : h <= p
  <2>1. TypeInv /\ InPrograms
    BY DEF RunInv
  <2> QED
    BY <1>1, <1>2, <2>1, HandedOut
<1>4. Given(e) \subseteq PhysicalRegs /\ PhysicalRegs \subseteq Int
  <2>1. Given(e) \subseteq Elements(freePhysicalRegList)
    BY <1>2 DEF Enters
  <2>2. freePhysicalRegList \in Seq(PhysicalRegs)
    BY DEF RunInv, TypeInv, RenameTypes, ListType
  <2> QED
    BY <2>1, <2>2, RegisterIndices DEF Elements
<1>5. ASSUME NEW p \in PhysicalRegs, p < h PROVE Assigned(from, e)[p] = from[p]
  <2>1. p \notin Given(e)
    BY <1>3, <1>4, <1>5
  <2>2. e.opcode \in DestinationOps => e.phyrd \in Given(e)
    BY DEF Given
  <2> QED
    BY <2>1, <2>2 DEF Assigned
<1>6. ASSUME NEW i \in Instrs, Placed(i)' PROVE ResultsCome(Assigned(from, e), i)
  <2>1. CASE ComesFromPlaced(i)
    <3>1. PICK j \in Instrs : Placed(j) /\ Carried(i, j)
      BY <2>1 DEF ComesFromPlaced
    <3>2. \A p \in UsedBy(j) : p < h
      BY <1>1, <3>1 DEF FreshFrom, NoneUsedFrom
    <3>3. /\ j.opcode \in DestinationOps => j.phyrd \in PhysicalRegs /\ j.phyrd < h
          /\ j.opcode \in PointerOps => j.phyrs3 \in PhysicalRegs /\ j.phyrs3 < h
      <4>1. /\ j.opcode \in DestinationOps => j.phyrd \in PhysicalRegs
            /\ j.opcode \in PointerOps => j.phyrs3 \in PhysicalRegs
        BY <3>1 DEF Instrs, Delivered, ResultsCome
      <4>2. /\ j.opcode \in DestinationOps => j.phyrd \in Given(j)
            /\ j.opcode \in PointerOps => j.phyrs3 \in Given(j)
        BY DEF Given
      <4> QED
        BY <3>2, <4>1, <4>2 DEF UsedBy
    <3>4. ResultsCome(from, j)
      BY <3>1 DEF Delivered
    <3>5. ResultsCome(Assigned(from, e), j)
      BY <1>5, <3>3, <3>4 DEF ResultsCome
    <3> QED
      BY <3>1, <3>5, ComesOver
  <2>2. CASE i = decode_rename1'.instr
    <3>1. i = e
      BY <1>2, <2>2 DEF Enters
    <3>2. e.opcode \in DestinationOps => e.phyrd \in PhysicalRegs
      BY DEF Instrs
    <3>3. e.opcode \in PointerOps => e.phyrs3 \in Given(e) /\ e.phyrs3 \in PhysicalRegs
      BY <1>4 DEF Given
    <3>4. e.opcode \in DestinationOps /\ e.opcode \in PointerOps => e.phyrd # e.phyrs3
      BY <1>2 DEF Enters, PointerOps, DestinationOps, Alu2Ops, AluLiteralOps, LoadOps
    <3> QED
      BY <3>1, <3>2, <3>3, <3>4 DEF ResultsCome, Assigned
  <2> QED
    BY <1>6, <2>1, <2>2, PlacesStep
<1>7. UNCHANGED <<bus, lsq>>
  BY DEF DecodeStage, busVars, lsqVars
<1>8. \A k \in LSQSlots : Loads(k)' => Assigned(from, e)[lsq'[k].phyrd] = MAUBus
  <2> SUFFICES ASSUME NEW k \in LSQSlots, Loads(k)
               PROVE  Assigned(from, e)[lsq[k].phyrd] = MAUBus
    BY <1>7 DEF Loads
  <2>1. lsq[k].phyrd \in PhysicalRegs
    BY DEF RunInv, TypeInv, LSQTypes, LSQType, LSQEntries
  <2>2. lsq[k].phyrd < h /\ from[lsq[k].phyrd] = MAUBus
    BY <1>1 DEF FreshFrom, NoneUsedFrom, Delivered
  <2> QED
    BY <1>5, <2>1, <2>2
<1>9. \A b \in Buses : bus'[b].tag # -1 => Assigned(from, e)[bus'[b].tag] = b
  <2> SUFFICES ASSUME NEW b \in Buses, bus[b].tag # -1
               PROVE  Assigned(from, e)[bus[b].tag] = b
    BY <1>7
  <2>1. bus[b].tag \in PhysicalRegs
    BY DEF RunInv, TypeInv, ForwardingTypes, BusType, Tags
  <2>2. bus[b].tag < h /\ from[bus[b].tag] = b
    BY <1>1 DEF FreshFrom, NoneUsedFrom, Delivered
  <2> QED
    BY <1>5, <2>1, <2>2
<1> QED
  <2>1. Delivered(Assigned(from, e))'
    <3>1. PICK to : to = Assigned(from, e)
      OBVIOUS
    <3> QED
      BY <1>6, <1>8, <1>9 DEF Delivered
  <2> QED
    BY <2>1 DEF BusesAssigned

\* Every other step: what is placed afterwards was placed before, with the same results.
LEMMA DeliveredElsewhere ==
  ASSUME MachineInv, MachineInv', Fits, TimesFit, [Next]_vars,
         ~(DecodeStage /\ decode_rename1.has_insn), NEW from, Delivered(from)
  PROVE  Delivered(from)'
<1>1. /\ TypeInv /\ QuietInv /\ LSQInv /\ RoBInv /\ UnitKinds /\ RunInv /\ RunInv'
  BY DEF MachineInv, RunInv
<1>2. \A i \in Instrs : Placed(i)' => ResultsCome(from, i)
  <2> SUFFICES ASSUME NEW i \in Instrs, Placed(i)' PROVE ResultsCome(from, i)
    OBVIOUS
  <2>1. ComesFromPlaced(i)
    BY <1>1, PlacesStep
  <2>2. PICK j \in Instrs : Placed(j) /\ Carried(i, j)
    BY <2>1 DEF ComesFromPlaced
  <2> QED
    BY <2>2, ComesOver DEF Delivered
<1>3. \A k \in LSQSlots : Loads(k)' => from[lsq'[k].phyrd] = MAUBus
  <2> SUFFICES ASSUME NEW k \in LSQSlots, Loads(k)' PROVE from[lsq'[k].phyrd] = MAUBus
    OBVIOUS
  <2>1. lsq'[k].established_bit /\ lsq'[k].LorS_bit # "STORE"
    BY DEF Loads
  <2>2. CASE \E j \in LSQSlots : Loads(j) /\ lsq'[k].phyrd = lsq[j].phyrd
    BY <2>2 DEF Delivered
  <2>3. CASE issue_queue.has_insn /\ issue_queue.instr.opcode \in LoadOps
             /\ lsq'[k].phyrd = issue_queue.instr.phyrd
    <3>1. Placed(issue_queue.instr) /\ issue_queue.instr \in Instrs
      BY <1>1, <2>3 DEF Placed, TypeInv, FrontTypes, Latches
    <3>2. from[issue_queue.instr.phyrd] = BusFor(issue_queue.instr.opcode)
      BY <2>3, <3>1 DEF Delivered, ResultsCome, DestinationOps
    <3> QED
      BY <2>3, <3>2 DEF BusFor, LoadOps
  <2> QED
    BY <1>1, <2>1, <2>2, <2>3, LSQSteps DEF Loads, MemoryOps
<1>4. \A b \in Buses : bus'[b].tag # -1 => from[bus'[b].tag] = b
  <2> SUFFICES ASSUME NEW b \in Buses, bus'[b].tag # -1 PROVE from[bus'[b].tag] = b
    OBVIOUS
  <2>1. CASE bus'[b] = bus[b]
    BY <2>1 DEF Delivered
  <2>2. CASE BusFilled(b)
    <3>1. ASSUME NEW latch \in {execute_IntFU, execute_MulFU, execute_AFU}, latch.has_insn
          PROVE  ResultsCome(from, latch.instr)
      <4>1. Placed(latch.instr) /\ latch.instr \in Instrs
        BY <1>1, <3>1 DEF Placed, TypeInv, UnitTypes, Latches
      <4> QED
        BY <4>1 DEF Delivered
    <3>2. CASE b = IntBus /\ execute_IntFU.has_insn
               /\ execute_IntFU.instr.opcode \in DestinationOps
               /\ bus'[b].tag = execute_IntFU.instr.phyrd
      <4>1. from[bus'[b].tag] = BusFor(execute_IntFU.instr.opcode)
        BY <3>1, <3>2 DEF ResultsCome
      <4>2. execute_IntFU.instr.opcode \in IntFUSourceOps \cup NoSourceOps
        BY <1>1, <3>2 DEF UnitKinds
      <4>3. execute_IntFU.instr.opcode # "MUL" /\ execute_IntFU.instr.opcode \notin LoadOps
        BY <4>2 DEF IntFUSourceOps, NoSourceOps, Alu2Ops, AluLiteralOps, LoadOps
      <4> QED
        BY <3>2, <4>1, <4>3 DEF BusFor
    <3>3. CASE b = MulBus /\ execute_MulFU.has_insn /\ bus'[b].tag = execute_MulFU.instr.phyrd
      <4>1. execute_MulFU.instr.opcode = "MUL"
        BY <1>1, <3>3 DEF UnitKinds
      <4> QED
        BY <3>1, <3>3, <4>1 DEF ResultsCome, BusFor, DestinationOps, Alu2Ops
    <3>4. CASE b = AFUBus /\ execute_AFU.has_insn /\ execute_AFU.instr.opcode \in PointerOps
               /\ bus'[b].tag = execute_AFU.instr.phyrs3
      BY <3>1, <3>4 DEF ResultsCome
    <3>5. CASE b = MAUBus /\ MAUStage /\ MAUBusy /\ lsq[0].LorS_bit # "STORE"
               /\ bus'[b].tag = lsq[0].phyrd
      <4>1. Loads(0) /\ 0 \in LSQSlots
        BY <3>5, MAUBusyEstablished, SlotSets DEF Loads
      <4> QED
        BY <3>5, <4>1 DEF Delivered
    <3> QED
      BY <2>2, <3>2, <3>3, <3>4, <3>5 DEF BusFilled, Delivers
  <2> QED
    BY <1>1, <2>1, <2>2, BusSteps
<1> QED
  BY <1>2, <1>3, <1>4 DEF Delivered

\* At the start nothing is delivered.
LEMMA DeliveredInit ==
  ASSUME TypeInv, Init, NEW from PROVE Delivered(from)
<1>1. \A i : ~Placed(i)
  BY DEF Init, APEX_cpu_init, Placed, EmptyStallLatch, EmptyLatch, EmptyIQEntry, RoBSlots
<1>2. \A k \in LSQSlots : ~Loads(k)
  BY DEF Init, APEX_cpu_init, EmptyLSQEntry, Loads
<1>3. \A b \in Buses : bus[b].tag = -1
  BY DEF Init, APEX_cpu_init, IdleBus
<1> QED
  BY <1>1, <1>2, <1>3 DEF Delivered

\* A bus always delivers the register of one instruction.
LEMMA BusesAssignedAlways ==
  ASSUME BitwiseIsInt, StraightLine, Fits, TimesFit PROVE Spec => []BusesAssigned
<1>1. MachineInv /\ Init => BusesAssigned
  <2> SUFFICES ASSUME MachineInv, Init PROVE BusesAssigned
    OBVIOUS
  <2>1. PICK from : from = [p \in PhysicalRegs |-> IntBus]
    OBVIOUS
  <2> QED
    BY DeliveredInit DEF BusesAssigned, MachineInv, RunInv
<1>2. /\ MachineInv /\ MachineInv' /\ FreshRegs /\ BusesAssigned /\ [Next]_vars
      => BusesAssigned'
  <2> SUFFICES ASSUME MachineInv, MachineInv', FreshRegs, BusesAssigned, [Next]_vars
               PROVE  BusesAssigned'
    OBVIOUS
  <2>1. PICK from : Delivered(from)
    BY DEF BusesAssigned
  <2>2. CASE DecodeStage /\ decode_rename1.has_insn
    BY <2>1, <2>2, DeliveredAtDecode
  <2>3. CASE ~(DecodeStage /\ decode_rename1.has_insn)
    <3>1. Delivered(from)'
      BY <2>1, <2>3, DeliveredElsewhere
    <3> QED
      BY <3>1 DEF BusesAssigned
  <2> QED
    BY <2>2, <2>3
<1> QED
  BY <1>1, <1>2, MachineAlways, FreshAlways, PTL DEF Spec

\* Programs without branches that fit never put one register on two buses in a cycle.
THEOREM OneBusEach ==
  ASSUME BitwiseIsInt, StraightLine, Fits, TimesFit PROVE Spec => []BusesDistinct
<1>1. BusesAssigned => BusesDistinct
  <2> SUFFICES ASSUME BusesAssigned,
                      NEW a \in Buses, NEW b \in Buses, a # b, bus[a].tag = bus[b].tag
               PROVE  bus[a].tag = -1
    BY DEF BusesDistinct
  <2> QED
    BY DEF BusesAssigned, Delivered
<1> QED
  BY <1>1, BusesAssignedAlways, PTL

(***************************************************************************)
(* Program counters ascend towards the front of the pipeline.              *)
(***************************************************************************)
\* The instruction at program counter at is older than the latches in front of the queues.
OlderThanDispatch(at) ==
  /\ at < pc
  /\ decode_rename1.has_insn => at < decode_rename1.instr.pc
  /\ rename2_dispatch.has_insn => at < rename2_dispatch.instr.pc

PcOrder ==
  /\ decode_rename1.has_insn => decode_rename1.instr.pc < pc
  /\ rename2_dispatch.has_insn =>
       /\ rename2_dispatch.instr.pc < pc
       /\ decode_rename1.has_insn => rename2_dispatch.instr.pc < decode_rename1.instr.pc
  /\ issue_queue.has_insn => OlderThanDispatch(issue_queue.instr.pc)
  /\ \A k \in IQSlots :
       /\ OlderThanDispatch(issueQueue[k].instr.pc)
       /\ issue_queue.has_insn => issueQueue[k].instr.pc < issue_queue.instr.pc

\* Fetch stands still, or goes on to the next instruction.
LEMMA FetchMoves ==
  ASSUME TypeInv, QuietInv, FlowLatches, BudgetInv, FetchStage
  PROVE  \/ UNCHANGED <<pc, decode_rename1>>
         \/ /\ fetch /\ InCode(pc) /\ pc' = pc + 4
            /\ decode_rename1'.has_insn /\ decode_rename1'.instr = FetchedInstr
            /\ FetchedInstr = Fetched(pc, code_memory[CodeIndex(pc) + 1], FALSE, FALSE)
            /\ CodeIndex(pc) + 1 \in DOMAIN code_memory
<1>1. /\ pc \in Int /\ pc >= FIRST_PC /\ code_memory' = code_memory
      /\ decode_rename1 \in StallLatches /\ BFU_pc = -1
  BY DEF TypeInv, FrontTypes, FetchStage, BudgetInv, QuietInv
<1>5. CASE ~UNCHANGED <<pc, decode_rename1>>
  <2>1. /\ fetch /\ InCode(pc) /\ decode_rename1' = DecodeAfterFetch
        /\ pc' = IF decode_rename1.stall THEN pc ELSE PredictedPc(FetchedInstr)
    BY <1>1, <1>5 DEF FetchStage, frontVars
  <2>2. ~decode_rename1.stall
    BY <1>5, <2>1 DEF DecodeAfterFetch
  <2>3. LookUp(BTBEntry, pc) = -1
    <3>1. {k \in BTBSlots : BTBEntry[k].branch_pc = pc} = {}
      BY <1>1 DEF BudgetInv, FIRST_PC
    <3> QED
      BY <3>1 DEF LookUp, FirstIndex
  <2>4. CodeIndex(pc) + 1 \in DOMAIN code_memory
    <3>1. CodeIndex(pc) \in 0 .. Len(code_memory) - 1
      BY <2>1 DEF InCode
    <3>2. code_memory \in Seq(Insns)
      BY DEF TypeInv, ProgramTypes
    <3> QED
      BY <3>1, <3>2
  <2>5. FetchedInstr = Fetched(pc, code_memory[CodeIndex(pc) + 1], FALSE, FALSE)
    BY <2>3 DEF FetchedInstr
  <2>6. pc' = pc + 4
    <3>1. ~FetchedInstr.taken
      BY <2>5 DEF Fetched
    <3> QED
      BY <2>1, <2>2, <3>1 DEF PredictedPc
  <2>7. decode_rename1'.has_insn /\ decode_rename1'.instr = FetchedInstr
    BY <2>1, <2>2 DEF DecodeAfterFetch
  <2> QED
    BY <2>1, <2>4, <2>5, <2>6, <2>7
<1> QED
  BY <1>5

\* In a step no stage but the front ones touches the front latches or the pc.
LEMMA FrontKept ==
  ASSUME QuietInv, QuietInv', [Next]_vars, ~IssueStage, ~DispatchStage,
         ~(DecodeStage /\ decode_rename1.has_insn), ~FetchStage
  PROVE  UNCHANGED <<pc, decode_rename1, rename2_dispatch, issue_queue, issueQueue>>
<1>1. stage' # "squash" /\ stage # "squash"
  BY DEF QuietInv
<1> QED
  BY <1>1 DEF Next, vars, CommitStage, CommitBelowZero, MAUStage, MAUOutOfBounds, MulFUStage,
     BFUStage, AFUStage, IntFUStage, DecodeStage, DecodeOutOfBounds, frontVars, iqVars,
     FetchOutOfBounds, SquashTail, SquashEnds, BecomesUndefined

\* The latch of the issue stage after dispatch.
LEMMA DispatchMoves ==
  ASSUME RunInv, DispatchStage
  PROVE  /\ UNCHANGED <<pc, decode_rename1, issueQueue, RoB, ROB_size, delete_ROB_head>>
         /\ ~issue_queue.has_insn /\ ~rename2_dispatch'.has_insn
         /\ IF rename2_dispatch.has_insn /\ rename2_dispatch.instr.opcode # "DIV"
            THEN /\ issue_queue'.has_insn
                 /\ Carried(issue_queue'.instr, rename2_dispatch.instr)
            ELSE ~issue_queue'.has_insn
<1> USE DEF RunInv
<1> DEFINE r == rename2_dispatch.instr
           d == ReadPRF(PickUp(r, bus), physicalRegFile)
<1>1. r \in Instrs /\ bus \in BusType /\ physicalRegFile \in PRFType
      /\ rename2_dispatch \in StallLatches /\ issue_queue \in Latches
  BY DEF TypeInv, FrontTypes, ForwardingTypes, FileTypes, StallLatches
<1>2. Carried(d, r)
  BY <1>1, PickedUp, ReadFromPRF, CarriedTwice
<1>3. d.opcode = r.opcode
  BY <1>2 DEF Carried, SameInstr, NamesOf
<1>4. ~issue_queue.has_insn
  BY DEF DispatchStage, OwnInv, LatchInv
<1>5. rename2_dispatch.has_insn /\ r.opcode # "DIV"
      => RoomFor(r.opcode, issueQueue, ROB_size, LSQ_size)
  BY DEF DispatchStage, Undisturbed, FindsRoom
<1>6. /\ ~rename2_dispatch'.has_insn
      /\ IF rename2_dispatch.has_insn /\ d.opcode # "DIV"
         THEN IF RoomFor(d.opcode, issueQueue, ROB_size, LSQ_size)
              THEN issue_queue' = [has_insn |-> TRUE, instr |-> d] ELSE issue_queue' = issue_queue
         ELSE issue_queue' = issue_queue
  BY <1>1 DEF DispatchStage, StallLatches
<1>7. UNCHANGED <<pc, decode_rename1, issueQueue, RoB, ROB_size, delete_ROB_head>>
  BY DEF DispatchStage, iqVars, robVars
<1> HIDE DEF d
<1> QED
  BY <1>2, <1>3, <1>4, <1>5, <1>6, <1>7

\* Decode hands its instruction to dispatch.
LEMMA DecodeMoves ==
  ASSUME RunInv, DecodeStage, decode_rename1.has_insn
  PROVE  /\ UNCHANGED <<pc, issue_queue, issueQueue, RoB, ROB_size, delete_ROB_head>>
         /\ ~decode_rename1'.has_insn /\ ~rename2_dispatch.has_insn
         /\ rename2_dispatch'.has_insn
         /\ Enters(rename2_dispatch'.instr) /\ Arrives(rename2_dispatch'.instr)
         /\ rename2_dispatch'.instr \in Instrs
         /\ rename2_dispatch'.instr = decode_rename1'.instr
<1>1. PICK i \in Instrs : Enters(i) /\ Arrives(i)
  BY DecodeRenames DEF RunInv, OwnInv, Undisturbed
<1>2. ~rename2_dispatch.has_insn /\ ~rename2_dispatch.stall
  BY DEF RunInv, OwnInv, LatchInv, FlowInv, FlowLatches, DecodeStage
<1>3. rename2_dispatch'.has_insn /\ rename2_dispatch'.instr = i /\ decode_rename1'.instr = i
  BY <1>1, <1>2 DEF Enters
<1>4. UNCHANGED <<pc, issue_queue, issueQueue, RoB, ROB_size, delete_ROB_head>>
  BY DEF DecodeStage, iqVars, robVars
<1> QED
  BY <1>1, <1>2, <1>3, <1>4, DecodeEmpties

\* What arrives has the pc and the literal of decode's latch.
LEMMA ArrivesAt ==
  ASSUME TypeInv, NEW i, Arrives(i)
  PROVE  i.pc = decode_rename1.instr.pc /\ i.imm = decode_rename1.instr.imm
<1> DEFINE d == decode_rename1.instr
           l == LookedUp(d)
<1>1. d \in Instrs /\ bus \in BusType
  BY DEF TypeInv, FrontTypes, StallLatches, ForwardingTypes
<1>2. l \in Instrs
  <2>1. renameTable \in TableType
    BY DEF TypeInv, RenameTypes
  <2> QED
    BY <1>1, <2>1, LookedUpType
<1>3. l.pc = d.pc /\ l.imm = d.imm
  BY <1>1 DEF LookedUp, Instrs
<1>4. Rest(i) = Rest(PickUp(l, bus))
  BY DEF Arrives
<1>5. SameInstr(PickUp(l, bus), l)
  BY <1>1, <1>2, PickedUp DEF Carried
<1> HIDE DEF l
<1> QED
  BY <1>3, <1>4, <1>5 DEF Rest, SameInstr

\* At the start nothing is on its way.
LEMMA PcOrderInit == Init => PcOrder
BY DEF Init, APEX_cpu_init, PcOrder, EmptyStallLatch, EmptyLatch, EmptyIQEntry, NoInstr, Fetched,
   OlderThanDispatch, FIRST_PC

\* The slots of the issue queue after an issue stage hold the pcs they held or the latch's.
LEMMA SlotPcs ==
  ASSUME RunInv, RunInv', Fits, TimesFit, IssueStage, NEW k \in IQSlots
  PROVE  \/ issueQueue'[k].instr.pc = issueQueue[k].instr.pc
         \/ issue_queue.has_insn /\ issueQueue'[k].instr.pc = issue_queue.instr.pc
<1>1. TypeInv /\ issueQueue \in IQType /\ bus \in BusType /\ issue_queue \in Latches
  BY DEF RunInv, TypeInv, QueueTypes, ForwardingTypes, FrontTypes
<1>2. Established \in IQType
  BY <1>1, EstablishIQType DEF Established, Latches, TypeInv, QueueTypes
<1>3. WokenIQ(Established, bus)[k].instr.pc = Established[k].instr.pc
  BY <1>1, <1>2, WokenTimes DEF SameTimes
<1>4. issueQueue'[k].instr.pc = WokenIQ(Established, bus)[k].instr.pc
  BY TakenAtIssue DEF UnitsTake
<1>5. \/ Established[k] = issueQueue[k]
      \/ issue_queue.has_insn /\ Established[k].instr = issue_queue.instr
  <2>1. CASE issue_queue.has_insn
    <3>1. Established = EstablishIQ(issueQueue, issue_queue.instr, issue_counter)
      BY <2>1 DEF Established
    <3> QED
      BY <1>1, <2>1, <3>1 DEF EstablishIQ, IQType
  <2>2. CASE ~issue_queue.has_insn
    BY <2>2 DEF Established
  <2> QED
    BY <2>1, <2>2
<1> QED
  BY <1>3, <1>4, <1>5

\* Every step keeps the order of the pcs.
LEMMA PcOrderStep ==
  ASSUME RunInv, RunInv', Fits, TimesFit, PcOrder, [Next]_vars PROVE PcOrder'
<1> USE DEF RunInv
<1>1. /\ pc \in Int /\ decode_rename1.instr.pc \in Int /\ rename2_dispatch.instr.pc \in Int
      /\ issue_queue.instr.pc \in Int /\ \A k \in IQSlots : issueQueue[k].instr.pc \in Int
  BY DEF TypeInv, FrontTypes, QueueTypes, IQType, IQEntries, StallLatches, Latches, Instrs
<1> HIDE DEF RunInv
<1>2. CASE IssueStage
  <2>1. /\ ~issue_queue'.has_insn /\ UNCHANGED <<pc, decode_rename1, rename2_dispatch>>
    BY <1>2 DEF IssueStage, RunInv, TypeInv, FrontTypes, Latches
  <2>2. \A k \in IQSlots : OlderThanDispatch(issueQueue'[k].instr.pc)
    BY <1>2, SlotPcs DEF PcOrder
  <2> QED
    BY <2>1, <2>2 DEF PcOrder, OlderThanDispatch
<1>3. CASE DispatchStage
  <2>1. /\ UNCHANGED <<pc, decode_rename1, issueQueue>>
        /\ ~rename2_dispatch'.has_insn
        /\ issue_queue'.has_insn => /\ rename2_dispatch.has_insn
                                    /\ issue_queue'.instr.pc = rename2_dispatch.instr.pc
    BY <1>3, DispatchMoves DEF Carried, SameInstr
  <2> QED
    BY <1>1, <2>1 DEF PcOrder, OlderThanDispatch
<1>4. CASE DecodeStage /\ decode_rename1.has_insn
  <2>1. /\ UNCHANGED <<pc, issue_queue, issueQueue>>
        /\ ~decode_rename1'.has_insn /\ rename2_dispatch'.instr.pc = decode_rename1.instr.pc
    BY <1>4, DecodeMoves, ArrivesAt DEF RunInv
  <2> QED
    BY <1>1, <1>4, <2>1 DEF PcOrder, OlderThanDispatch
<1>5. CASE FetchStage
  <2>1. UNCHANGED <<rename2_dispatch, issue_queue, issueQueue>>
    <3>1. BFU_pc = -1
      BY DEF RunInv, QuietInv
    <3> QED
      BY <1>5, <3>1 DEF FetchStage, frontVars, iqVars
  <2>2. TypeInv /\ QuietInv /\ FlowLatches /\ BudgetInv
    BY DEF RunInv, FlowInv
  <2>3. CASE UNCHANGED <<pc, decode_rename1>>
    BY <2>1, <2>3 DEF PcOrder, OlderThanDispatch
  <2>4. CASE pc' = pc + 4 /\ decode_rename1'.instr.pc = pc
    BY <1>1, <2>1, <2>4 DEF PcOrder, OlderThanDispatch
  <2>5. FetchedInstr.pc = pc
    BY DEF FetchedInstr, Fetched
  <2> QED
    BY <1>5, <2>2, <2>3, <2>4, <2>5, FetchMoves
<1>6. CASE UNCHANGED <<pc, decode_rename1, rename2_dispatch, issue_queue, issueQueue>>
  BY <1>6 DEF PcOrder, OlderThanDispatch
<1> QED
  BY <1>2, <1>3, <1>4, <1>5, <1>6, FrontKept DEF RunInv

\* Some slot of the issue queue is free for what dispatch has handed over.
LEMMA SlotFound ==
  ASSUME RunInv, Fits, PcOrder, issue_queue.has_insn
  PROVE  FreeIQSlot(issueQueue, issue_queue.instr.pc) \in
           {k \in IQSlots : ~issueQueue[k].valid_bit}
<1> USE DEF RunInv
<1>1. /\ Seen(Opcodes) \in Nat /\ Seen(Opcodes) <= ISSUE_QUEUE_SIZE
  <2>1. CodeIndex(pc) \in Int
    BY DEF CodeIndex, FIRST_PC, TypeInv, FrontTypes
  <2>2. /\ Seen(Opcodes) \in Nat /\ HowMany(code_memory, Opcodes) \in Nat
        /\ Seen(Opcodes) <= HowMany(code_memory, Opcodes)
        /\ HowMany(code_memory, Opcodes) <= Len(code_memory)
    BY <2>1, SeenBounds DEF Seen
  <2>3. Len(code_memory) \in Nat /\ Len(code_memory) <= ISSUE_QUEUE_SIZE
    BY DEF TypeInv, ProgramTypes, InPrograms, Fits
  <2> QED
    BY <2>2, <2>3, SizesAssumption
<1>2. OnTheWay(Opcodes) \in Nat /\ OnTheWay(Opcodes) >= 1
  <2>1. issue_queue.instr.opcode \in Opcodes
    BY DEF TypeInv, FrontTypes, Latches, Instrs
  <2>2. Held(issue_queue, Opcodes) = 1
    BY <2>1 DEF Held
  <2> QED
    BY <2>2, HeldBit DEF OnTheWay, Behind
<1>3. IsFiniteSet(IQSlots) /\ Cardinality(IQSlots) = ISSUE_QUEUE_SIZE
  BY FS_Interval, SizesAssumption DEF IQSlots
<1>4. IsFiniteSet(ValidSlots(issueQueue)) /\ Cardinality(ValidSlots(issueQueue)) \in Nat
  BY <1>3, FS_Subset, FS_CardinalityType DEF ValidSlots
<1>5. Cardinality(ValidSlots(issueQueue)) < ISSUE_QUEUE_SIZE
  BY <1>1, <1>2, <1>4, SizesAssumption DEF BudgetInv
<1>6. ValidSlots(issueQueue) # IQSlots
  BY <1>3, <1>4, <1>5, SizesAssumption
<1>7. PICK k \in IQSlots : ~issueQueue[k].valid_bit
  BY <1>6 DEF ValidSlots
<1> DEFINE S == {s \in IQSlots : ~issueQueue[s].valid_bit /\ issueQueue[s].instr.pc # issue_queue.instr.pc}
<1>8. k \in S
  <2>1. issueQueue[k].instr.pc < issue_queue.instr.pc
    BY DEF PcOrder
  <2>2. issueQueue[k].instr.pc \in Int /\ issue_queue.instr.pc \in Int
    BY DEF TypeInv, FrontTypes, QueueTypes, IQType, IQEntries, Latches, Instrs
  <2> QED
    BY <1>7, <2>1, <2>2
<1>9. FirstIndex(S) \in S
  <2>1. S \in SUBSET Nat
    BY SizesAssumption DEF IQSlots
  <2>2. \E m \in S : \A n \in S : m <= n
    BY <1>8, <2>1, LeastElement
  <2>3. FirstIndex(S) = CHOOSE m \in S : \A n \in S : m <= n
    BY <1>8 DEF FirstIndex
  <2> QED
    BY <2>2, <2>3
<1> QED
  BY <1>9 DEF FreeIQSlot

(***************************************************************************)
(* An instruction of a function unit is worked on until it has its result. *)
(***************************************************************************)
\* What the IntFU and the MulFU give a physical register to.
ResultOps == Alu2Ops \cup AluLiteralOps \cup {"MOVC"}

WorkedOn(i) ==
  \/ \E k \in IQSlots : issueQueue[k].valid_bit /\ SameInstr(issueQueue[k].instr, i)
  \/ execute_IntFU.has_insn /\ SameInstr(execute_IntFU.instr, i)
  \/ execute_MulFU.has_insn /\ SameInstr(execute_MulFU.instr, i)
  \/ \E b \in Buses : bus[b].tag = i.phyrd
  \/ physicalRegFile[i.phyrd].valid

\* Each unit finds its bus drained and the issue stage finds the IntFU empty.
UnitsReady ==
  /\ stage = "MAU" => \A b \in Buses : bus[b].tag = -1
  /\ stage \in {"MAU", "MulFU"} => bus[MulBus].tag = -1
  /\ stage \in {"MAU", "MulFU", "BFU", "AFU"} => bus[AFUBus].tag = -1
  /\ stage \in {"MAU", "MulFU", "BFU", "AFU", "IntFU"} => bus[IntBus].tag = -1
  /\ stage = "issue" => ~execute_IntFU.has_insn

\* Every step keeps the buses as ready as the unit that comes next needs them.
LEMMA UnitsReadyStep ==
  ASSUME TypeInv, QuietInv, UnitsReady, [Next]_vars PROVE UnitsReady'
<1>1. bus \in BusType /\ DOMAIN bus = Buses /\ execute_IntFU \in Latches
  BY DEF TypeInv, ForwardingTypes, BusType, UnitTypes
<1>2. CASE CommitStage
  <2>1. /\ stage' \in {"MAU", "done", "stopped"}
        /\ stage' # "done" => bus' = Drained(bus)
    BY <1>2 DEF CommitStage, WriteBack, CommitHead, AfterCommit
  <2> QED
    BY <1>1, <2>1 DEF UnitsReady, Drained, BusType, Buses, IntBus, MulBus, AFUBus
<1>3. CASE MAUStage
  <2>1. stage' = "MulFU" /\ \A b \in Buses : b # MAUBus => bus'[b] = bus[b]
    BY <1>1, <1>3 DEF MAUStage
  <2> QED
    BY <1>3, <2>1 DEF UnitsReady, Buses, IntBus, MulBus, AFUBus, MAUBus, MAUStage
<1>4. CASE MulFUStage
  <2>1. stage' = "BFU" /\ \A b \in Buses : b # MulBus => bus'[b] = bus[b]
    BY <1>1, <1>4 DEF MulFUStage
  <2> QED
    BY <1>4, <2>1 DEF UnitsReady, Buses, IntBus, MulBus, AFUBus, MAUBus, MulFUStage
<1>5. CASE BFUStage
  <2>1. stage' = "AFU" /\ bus' = bus
    BY <1>1, <1>5 DEF BFUStage, QuietInv
  <2> QED
    BY <1>5, <2>1 DEF UnitsReady, BFUStage
<1>6. CASE AFUStage
  <2>1. stage' = "IntFU" /\ \A b \in Buses : b # AFUBus => bus'[b] = bus[b]
    BY <1>1, <1>6 DEF AFUStage
  <2> QED
    BY <1>6, <2>1 DEF UnitsReady, Buses, IntBus, MulBus, AFUBus, MAUBus, AFUStage
<1>7. CASE IntFUStage
  <2>1. stage' = "issue" /\ ~execute_IntFU'.has_insn
    BY <1>1, <1>7 DEF IntFUStage, Latches
  <2> QED
    BY <1>7, <2>1 DEF UnitsReady
<1>8. CASE stage' \notin {"MAU", "MulFU", "BFU", "AFU", "IntFU", "issue"}
  BY <1>8 DEF UnitsReady
<1>9. CASE UNCHANGED vars
  BY <1>9 DEF UnitsReady, vars, busVars, exVars
<1>10. \/ CommitStage \/ MAUStage \/ MulFUStage \/ BFUStage \/ AFUStage \/ IntFUStage
       \/ UNCHANGED vars
       \/ stage' \notin {"MAU", "MulFU", "BFU", "AFU", "IntFU", "issue"}
  BY DEF Next, CommitBelowZero, MAUOutOfBounds, IssueStage, DispatchStage, DecodeStage,
     DecodeOutOfBounds, FetchStage, FetchOutOfBounds, SquashTail, SquashEnds, BecomesUndefined,
     QuietInv
<1> QED
  BY <1>2, <1>3, <1>4, <1>5, <1>6, <1>7, <1>8, <1>9, <1>10

\* Being the same instruction is transitive.
LEMMA SameTwice ==
  ASSUME NEW i, NEW j, NEW k, SameInstr(i, j), SameInstr(j, k) PROVE SameInstr(i, k)
BY DEF SameInstr

\* The same instruction has the same parts.
LEMMA SameParts ==
  ASSUME NEW i, NEW j, SameInstr(i, j)
  PROVE  /\ i.opcode = j.opcode /\ i.phyrd = j.phyrd /\ i.pc = j.pc
         /\ i.rd = j.rd /\ i.rs1 = j.rs1 /\ i.rs2 = j.rs2
         /\ i.phyrs1 = j.phyrs1 /\ i.phyrs2 = j.phyrs2 /\ i.phyrs3 = j.phyrs3
         /\ i.flag = j.flag /\ i.imm = j.imm
BY DEF SameInstr, NamesOf

\* What waits in the issue queue still waits, or a unit has it.
LEMMA QueuedStays ==
  ASSUME RunInv, RunInv', Fits, TimesFit, IssueStage, NEW i, i.opcode \in ResultOps,
         NEW k \in IQSlots, Established[k].valid_bit, SameInstr(Established[k].instr, i)
  PROVE  WorkedOn(i)'
<1>1. TypeInv /\ issueQueue \in IQType /\ bus \in BusType /\ issue_queue \in Latches
  BY DEF RunInv, TypeInv, QueueTypes, ForwardingTypes, FrontTypes
<1>2. Established \in IQType
  BY <1>1, EstablishIQType DEF Established, Latches, TypeInv, QueueTypes
<1> DEFINE q == WokenIQ(Established, bus)
<1>3. q[k].valid_bit /\ q[k].instr = PickUp(Established[k].instr, bus) /\ Established[k].instr \in Instrs
  BY <1>2 DEF WokenIQ, IQType, IQEntries
<1>4. q[k].instr \in Instrs /\ SameInstr(q[k].instr, i)
  <2>1. SameInstr(PickUp(Established[k].instr, bus), Established[k].instr)
        /\ PickUp(Established[k].instr, bus) \in Instrs
    BY <1>1, <1>3, PickedUp DEF Carried
  <2>2. SameInstr(PickUp(Established[k].instr, bus), i)
    BY <2>1, SameTwice
  <2> QED
    BY <1>3, <2>1, <2>2
<1>5. PICK a \in IQSlots \cup {-1}, b \in IQSlots \cup {-1}, c \in IQSlots \cup {-1} :
        /\ Takes(execute_IntFU, execute_IntFU', q, a, IntFUSourceOps \cup NoSourceOps)
        /\ Takes(execute_MulFU, execute_MulFU', q, b, {"MUL"})
        /\ Takes(execute_AFU, execute_AFU', q, c, AFUOps)
        /\ IF k \in {a, b, c} THEN ~issueQueue'[k].valid_bit ELSE issueQueue'[k] = q[k]
  BY TakenAtIssue DEF UnitsTake
<1> HIDE DEF q
<1>6. [q[k].instr EXCEPT !.phyrs1_valid = FALSE, !.phyrs2_valid = FALSE].opcode = i.opcode
      /\ SameInstr([q[k].instr EXCEPT !.phyrs1_valid = FALSE, !.phyrs2_valid = FALSE], i)
  <2>1. SameInstr([q[k].instr EXCEPT !.phyrs1_valid = FALSE, !.phyrs2_valid = FALSE], q[k].instr)
    BY <1>4, CarriedUnmarked DEF Carried
  <2> QED
    BY <1>4, <2>1, SameTwice, SameParts
<1>7. k # -1
  BY SlotSets
<1>8. CASE k = a
  BY <1>5, <1>6, <1>7, <1>8 DEF Takes, WorkedOn
<1>9. CASE k = b
  BY <1>5, <1>6, <1>7, <1>9 DEF Takes, WorkedOn
<1>10. k # c
  <2>1. q[k].instr.opcode = i.opcode
    BY <1>4, SameParts
  <2>2. ResultOps \cap AFUOps = {}
    BY DEF ResultOps, Alu2Ops, AluLiteralOps, AFUOps, MemoryOps, LoadOps, StoreOps, BranchOps,
       ConditionalBranches, JumpOps
  <2> QED
    BY <1>5, <1>7, <2>1, <2>2 DEF Takes
<1>11. CASE k \notin {a, b, c}
  BY <1>3, <1>4, <1>5, <1>11 DEF WorkedOn
<1> QED
  BY <1>8, <1>9, <1>10, <1>11

\* An instruction that is worked on stays so, or has its result in its register.
LEMMA WorkedOnStays ==
  ASSUME MachineInv, MachineInv', FreshRegs, UnitsReady, MulFUInv, Fits, TimesFit, [Next]_vars,
         NEW i \in Instrs, Placed(i), i.opcode \in ResultOps, WorkedOn(i)
  PROVE  WorkedOn(i)'
<1> USE DEF MachineInv
<1>1. /\ TypeInv /\ QuietInv /\ RunInv /\ RunInv'
      /\ bus \in BusType /\ DOMAIN bus = Buses /\ physicalRegFile \in PRFType
      /\ i.phyrd \in PhysicalRegs
      /\ execute_IntFU \in Latches /\ execute_MulFU \in Latches
  BY DEF RunInv, TypeInv, ForwardingTypes, FileTypes, BusType, Instrs, UnitTypes
<1>2. stage # "squash" /\ BFU_pc = -1 /\ ~execute_BFU.has_insn
  BY <1>1 DEF QuietInv
<1>3. i.opcode \in DestinationOps
  BY DEF ResultOps, DestinationOps
<1>4. CASE CommitStage
  <2>1. UNCHANGED <<issueQueue, execute_IntFU, execute_MulFU>>
    BY <1>4 DEF CommitStage, iqVars, exVars
  <2>2. CASE stage' = "done"
    <3>1. UNCHANGED <<bus, physicalRegFile>>
      BY <1>4, <2>2 DEF CommitStage, WriteBack, prfVars, busVars
    <3> QED
      BY <2>1, <3>1 DEF WorkedOn
  <2>3. CASE stage' # "done"
    <3>1. physicalRegFile' = WrittenPRF(physicalRegFile, bus)
      BY <1>4, <2>3 DEF CommitStage, WriteBack
    <3>2. (\E b \in Buses : bus[b].tag = i.phyrd) \/ physicalRegFile[i.phyrd].valid
          => physicalRegFile'[i.phyrd].valid
      BY <1>1, <3>1 DEF WrittenPRF
    <3> QED
      BY <2>1, <3>2 DEF WorkedOn
  <2> QED
    BY <2>2, <2>3
<1>5. CASE MAUStage
  <2>1. UNCHANGED <<issueQueue, execute_IntFU, execute_MulFU, physicalRegFile>>
    BY <1>5 DEF MAUStage, iqVars, exVars, prfVars
  <2>2. \A b \in Buses : bus[b].tag = -1
    BY <1>5 DEF UnitsReady, MAUStage
  <2>3. i.phyrd # -1
    BY <1>1, RegisterIndices
  <2> QED
    BY <2>1, <2>2, <2>3 DEF WorkedOn
<1>6. CASE MulFUStage
  <2>1. UNCHANGED <<issueQueue, execute_IntFU, physicalRegFile>> /\ stage = "MulFU"
    BY <1>6 DEF MulFUStage, iqVars, exVars, prfVars
  <2>2. \/ execute_MulFU' = execute_MulFU /\ bus' = bus
        \/ /\ \A b \in Buses : b # MulBus => bus'[b] = bus[b]
           /\ bus'[MulBus].tag = execute_MulFU.instr.phyrd
    BY <1>1, <1>6 DEF MulFUStage, Buses, MulBus
  <2>3. bus[MulBus].tag = -1 /\ i.phyrd # -1
    BY <1>1, <2>1, RegisterIndices DEF UnitsReady
  <2>4. SameInstr(execute_MulFU.instr, i) => execute_MulFU.instr.phyrd = i.phyrd
    BY SameParts
  <2>5. MulBus \in Buses
    BY DEF Buses, MulBus
  <2> QED
    BY <2>1, <2>2, <2>3, <2>4, <2>5 DEF WorkedOn
<1>7. CASE AFUStage
  <2>1. UNCHANGED <<issueQueue, execute_IntFU, execute_MulFU, physicalRegFile>> /\ stage = "AFU"
    BY <1>7 DEF AFUStage, iqVars, prfVars
  <2>2. \A b \in Buses : b # AFUBus => bus'[b] = bus[b]
    BY <1>1, <1>7 DEF AFUStage
  <2>3. bus[AFUBus].tag = -1 /\ i.phyrd # -1
    BY <1>1, <2>1, RegisterIndices DEF UnitsReady
  <2> QED
    BY <2>1, <2>2, <2>3 DEF WorkedOn
<1>8. CASE IntFUStage
  <2>1. UNCHANGED <<issueQueue, execute_MulFU, physicalRegFile>> /\ stage = "IntFU"
    BY <1>8 DEF IntFUStage, iqVars, prfVars
  <2>0. execute_IntFU.has_insn => execute_IntFU.instr.opcode \in IntFUOps
    BY DEF UnitKinds, IntFUOps
  <2>2. /\ \A b \in Buses : b # IntBus => bus'[b] = bus[b]
        /\ execute_IntFU.has_insn /\ execute_IntFU.instr.opcode \in DestinationOps
           => bus'[IntBus].tag = execute_IntFU.instr.phyrd
    BY <1>1, <1>8, <2>0 DEF IntFUStage, Buses, IntBus
  <2>3. bus[IntBus].tag = -1 /\ i.phyrd # -1
    BY <1>1, <2>1, RegisterIndices DEF UnitsReady
  <2>4. SameInstr(execute_IntFU.instr, i) =>
          execute_IntFU.instr.phyrd = i.phyrd /\ execute_IntFU.instr.opcode = i.opcode
    BY SameParts
  <2>5. IntBus \in Buses
    BY DEF Buses, IntBus
  <2> QED
    BY <1>3, <2>1, <2>2, <2>3, <2>4, <2>5 DEF WorkedOn
<1>9. CASE IssueStage
  <2>1. UNCHANGED <<bus, physicalRegFile>>
    BY <1>9 DEF IssueStage, busVars, prfVars
  <2>2. CASE \E k \in IQSlots : issueQueue[k].valid_bit /\ SameInstr(issueQueue[k].instr, i)
    <3>1. PICK k \in IQSlots : issueQueue[k].valid_bit /\ SameInstr(issueQueue[k].instr, i)
      BY <2>2
    <3>2. Established[k] = issueQueue[k]
      <4>1. CASE issue_queue.has_insn
        <5>1. FreeIQSlot(issueQueue, issue_queue.instr.pc) # k
          <6>1. FreeIQSlot(issueQueue, issue_queue.instr.pc)
                  \in {s \in IQSlots : ~issueQueue[s].valid_bit} \cup {-1}
            <7>1. {s \in IQSlots : ~issueQueue[s].valid_bit
                                     /\ issueQueue[s].instr.pc # issue_queue.instr.pc} \in SUBSET Nat
              BY SizesAssumption DEF IQSlots
            <7> QED
              BY <7>1, Found DEF FreeIQSlot
          <6> QED
            BY <3>1, <6>1, SlotSets
        <5>2. issueQueue \in IQType
          BY <1>1 DEF TypeInv, QueueTypes
        <5> QED
          BY <4>1, <5>1, <5>2 DEF Established, EstablishIQ, IQType
      <4>2. CASE ~issue_queue.has_insn
        BY <4>2 DEF Established
      <4> QED
        BY <4>1, <4>2
    <3> QED
      BY <1>1, <1>9, <3>1, <3>2, QueuedStays
  <2>3. CASE execute_MulFU.has_insn /\ SameInstr(execute_MulFU.instr, i)
    <3>1. ~MulFUFree
      BY <2>3 DEF MulFUInv, MulFUFree
    <3>2. execute_MulFU' = execute_MulFU
      BY <1>1, <1>9, <3>1, UnitsReceive
    <3> QED
      BY <2>3, <3>2 DEF WorkedOn
  <2>4. ~execute_IntFU.has_insn
    BY <1>9 DEF UnitsReady, IssueStage
  <2> QED
    BY <2>1, <2>2, <2>3, <2>4 DEF WorkedOn
<1>10. CASE DecodeStage /\ decode_rename1.has_insn
  <2>1. UNCHANGED <<issueQueue, execute_IntFU, execute_MulFU, bus>>
    BY <1>10 DEF DecodeStage, iqVars, exVars, busVars
  <2>2. PICK h \in 0 .. PHYSICAL_REG_FILE_SIZE : FreshFrom(h)
    BY DEF FreshRegs
  <2>3. i.phyrd < h
    BY <1>3, <2>2 DEF FreshFrom, NoneUsedFrom, UsedBy, Given
  <2>4. PICK e \in Instrs : Enters(e) /\ Arrives(e)
    BY <1>1, <1>10, DecodeRenames DEF RunInv, OwnInv, Undisturbed
  <2>5. \A p \in Given(e) : h <= p
    BY <1>1, <1>10, <2>2, <2>4, HandedOut DEF RunInv
  <2>6. i.phyrd \notin Given(e)
    <3>1. i.phyrd \in Int
      BY <1>1, RegisterIndices
    <3> QED
      BY <2>3, <2>5, <3>1
  <2>7. physicalRegFile'[i.phyrd].valid = physicalRegFile[i.phyrd].valid
    <3>1. physicalRegFile'[i.phyrd].valid \in BOOLEAN /\ physicalRegFile[i.phyrd].valid \in BOOLEAN
      BY <1>1 DEF RunInv, TypeInv, FileTypes, PRFType
    <3> QED
      BY <1>1, <2>4, <2>6, <3>1 DEF Arrives
  <2> QED
    BY <2>1, <2>7 DEF WorkedOn
<1>11. CASE UNCHANGED <<issueQueue, execute_IntFU, execute_MulFU, bus, physicalRegFile>>
  BY <1>11 DEF WorkedOn
<1>12. \/ CommitStage \/ MAUStage \/ MulFUStage \/ AFUStage \/ IntFUStage \/ IssueStage
       \/ DecodeStage /\ decode_rename1.has_insn
       \/ UNCHANGED <<issueQueue, execute_IntFU, execute_MulFU, bus, physicalRegFile>>
  BY <1>2 DEF Next, vars, CommitBelowZero, MAUOutOfBounds, BFUStage, DispatchStage, DecodeStage,
     DecodeOutOfBounds, FetchStage, FetchOutOfBounds, SquashTail, SquashEnds, BecomesUndefined,
     iqVars, exVars, busVars, prfVars
<1> QED
  BY <1>4, <1>5, <1>6, <1>7, <1>8, <1>9, <1>10, <1>11, <1>12

\* What is in the reorder buffer is no branch, and is worked on or has its result.
Remembered ==
  \A k \in RoBSlots : k < ROB_size =>
    /\ RoB[k].instr.opcode \notin BranchOps
    /\ RoB[k].instr.opcode \in ResultOps => WorkedOn(RoB[k].instr)

\* Every step keeps the reorder buffer's instructions worked on.
LEMMA RememberedStep ==
  ASSUME MachineInv, MachineInv', FreshRegs, UnitsReady, MulFUInv, PcOrder, Remembered,
         Fits, TimesFit, [Next]_vars
  PROVE  Remembered'
<1> SUFFICES ASSUME NEW k \in RoBSlots, k < ROB_size', NEW i, i = RoB'[k].instr
             PROVE  i.opcode \notin BranchOps /\ (i.opcode \in ResultOps => WorkedOn(i)')
  BY DEF Remembered
<1>1. /\ RunInv /\ RunInv' /\ TypeInv /\ RoBInv /\ QuietInv
  BY DEF MachineInv, RunInv
<1>5. i.opcode \notin BranchOps
  BY <1>1, RoBSteps DEF Remembered, QuietInv
<1> SUFFICES ASSUME i.opcode \in ResultOps PROVE WorkedOn(i)'
  BY <1>5
<1>2. ASSUME NEW j \in RoBSlots, j < ROB_size, i = RoB[j].instr PROVE WorkedOn(i)'
  <2>1. i \in Instrs /\ Placed(i)
    BY <1>1, <1>2 DEF TypeInv, RoBTypes, RoBType, RoBEntries, Placed
  <2>2. WorkedOn(i)
    BY <1>2 DEF Remembered
  <2> QED
    BY <2>1, <2>2, WorkedOnStays
<1>3. CASE issue_queue.has_insn /\ stage = "issue" /\ i = issue_queue.instr
  <2>0. CASE UNCHANGED vars
    <3>1. RoB' = RoB /\ ROB_size' = ROB_size
      BY <2>0 DEF vars, robVars
    <3> QED
      BY <1>2, <3>1
  <2>1. ~UNCHANGED vars => IssueStage
    BY <1>3 DEF Next, CommitStage, CommitBelowZero, MAUStage, MAUOutOfBounds, MulFUStage,
       BFUStage, AFUStage, IntFUStage, DispatchStage, DecodeStage, DecodeOutOfBounds,
       FetchStage, FetchOutOfBounds, SquashTail, SquashEnds
  <2> DEFINE s == FreeIQSlot(issueQueue, issue_queue.instr.pc)
  <2>2. s \in IQSlots
    BY <1>1, <1>3, SlotFound
  <2>3. Established[s].valid_bit /\ Established[s].instr = i
    <3>1. issueQueue \in IQType
      BY <1>1 DEF TypeInv, QueueTypes
    <3> QED
      BY <1>3, <2>2, <3>1, SlotSets DEF Established, EstablishIQ, IQType
  <2>4. SameInstr(i, i)
    BY DEF SameInstr
  <2> QED
    BY <1>1, <2>0, <2>1, <2>2, <2>3, <2>4, QueuedStays
<1> QED
  BY <1>1, <1>2, <1>3, RoBSteps

\* At the start the reorder buffer is empty.
LEMMA RememberedInit == TypeInv /\ Init => UnitsReady /\ Remembered
<1> SUFFICES ASSUME TypeInv, Init PROVE UnitsReady /\ Remembered
  OBVIOUS
<1>1. stage = "commit" /\ ROB_size = 0
  BY DEF Init, APEX_cpu_init
<1> QED
  BY <1>1 DEF UnitsReady, Remembered, RoBSlots

\* What is in the reorder buffer of a fitting program is always worked on or done.
LEMMA RememberedAlways ==
  ASSUME BitwiseIsInt, StraightLine, Fits, TimesFit
  PROVE  Spec => [](PcOrder /\ UnitsReady /\ Remembered)
<1> DEFINE Inv == PcOrder /\ UnitsReady /\ Remembered
<1>1. MachineInv /\ Init => Inv
  BY RememberedInit, PcOrderInit DEF MachineInv, RunInv
<1>2. MachineInv /\ MachineInv' /\ FreshRegs /\ MulFUInv /\ Inv /\ [Next]_vars => Inv'
  <2> SUFFICES ASSUME MachineInv, MachineInv', FreshRegs, MulFUInv, Inv, [Next]_vars PROVE Inv'
    OBVIOUS
  <2>1. RunInv /\ RunInv' /\ TypeInv /\ QuietInv
    BY DEF MachineInv, RunInv
  <2>2. PcOrder'
    BY <2>1, PcOrderStep
  <2>3. UnitsReady'
    BY <2>1, UnitsReadyStep
  <2>4. Remembered'
    BY RememberedStep
  <2> QED
    BY <2>2, <2>3, <2>4
<1> QED
  BY <1>1, <1>2, MachineAlways, FreshAlways, MulFUInvAlways, PTL DEF Spec

\* No instruction in the reorder buffer is forgotten before its result is there.
THEOREM NoneForgotten ==
  ASSUME BitwiseIsInt, StraightLine, Fits, TimesFit PROVE Spec => []NoInstructionForgotten
<1>1. MachineInv /\ Remembered => NoInstructionForgotten
  <2> SUFFICES ASSUME MachineInv, Remembered, NEW k \in 1 .. ROB_size,
                      InFlight[k].opcode \in DestinationOps,
                      ~PRFValid(physicalRegFile, InFlight[k].phyrd)
               PROVE  BeingWorkedOn(InFlight[k])
    BY DEF NoInstructionForgotten
  <2>1. /\ TypeInv /\ RoBInv /\ LSQInv /\ QuietInv
    BY DEF MachineInv, RunInv
  <2>2. ROB_size \in 0 .. ROB_SIZE /\ ROB_SIZE \in Nat
    BY <2>1, SizesAssumption DEF RoBInv, RoBContiguous
  <2>3. PICK j \in RoBSlots : j < ROB_size /\ InFlight[k] = RoB[j].instr
    <3>1. k - 1 \in RoBSlots /\ k - 1 < ROB_size
      BY <2>2 DEF RoBSlots
    <3> QED
      BY <2>2, <3>1 DEF InFlight
  <2> DEFINE i == RoB[j].instr
  <2>4. i \in Instrs /\ i.phyrd \in PhysicalRegs
    BY <2>1 DEF TypeInv, RoBTypes, RoBType, RoBEntries, Instrs
  <2>5. CASE i.opcode \in ResultOps
    <3>1. WorkedOn(i)
      BY <2>3, <2>5 DEF Remembered
    <3>2. ~physicalRegFile[i.phyrd].valid
      BY <2>3, <2>4, RegisterIndices DEF PRFValid
    <3>3. \A x : SameInstr(x, i) => x.pc = i.pc
      BY SameParts
    <3> QED
      BY <2>3, <3>1, <3>2, <3>3 DEF WorkedOn, BeingWorkedOn
  <2>6. CASE i.opcode \in LoadOps
    <3>1. j \in MemoryEntries
      BY <2>3, <2>6 DEF MemoryEntries, MemoryOps
    <3>2. lsq[PlaceInLSQ(j)].established_bit /\ lsq[PlaceInLSQ(j)].pc = i.pc
      BY <2>1, <3>1 DEF LSQInv, LSQContents, PlaceInLSQ, Rank
    <3>3. PlaceInLSQ(j) \in LSQSlots
      BY <2>1, <3>1, LSQBounds DEF LSQInv, PlaceInLSQ, Rank
    <3> QED
      BY <2>3, <3>2, <3>3 DEF BeingWorkedOn
  <2>7. i.opcode # "JALR"
    BY <2>3 DEF Remembered, BranchOps, JumpOps
  <2>8. i.opcode \in DestinationOps
    BY <2>3
  <2> QED
    BY <2>5, <2>6, <2>7, <2>8 DEF DestinationOps, ResultOps
<1> QED
  BY <1>1, MachineAlways, RememberedAlways, PTL

\* With programs that fit, the counter of the issue queue never passes the value the search
\* for the oldest instruction starts from, and the unit takes the one that waited longest.
THEOREM FittingIssuesOldest ==
  ASSUME BitwiseIsInt, StraightLine, Fits, TimesFit PROVE Spec => EarliestIssued
<1>1. RunInv => issue_counter <= MIN_COUNTER_START
  BY EarlyEnough DEF RunInv
<1> QED
  BY <1>1, RunAlways, OldestFirst, PTL

(***************************************************************************)
(* Flags registers that nothing uses yet.                                  *)
(***************************************************************************)
DeliversFlag(b, tag, flag) == ccBus'[b].tag = tag /\ ccBus'[b].flag = flag

\* Who puts what on the flags buses.
CCBusFilled(b) ==
  \/ /\ b = IntBus /\ execute_IntFU.has_insn
     /\ execute_IntFU.instr.opcode \in FlagOps
     /\ DeliversFlag(b, execute_IntFU.instr.flag, FlagOf(IntResult(execute_IntFU.instr)))
  \/ /\ b = MulBus /\ execute_MulFU.has_insn
     /\ DeliversFlag(b, execute_MulFU.instr.flag,
                     FlagOf(execute_MulFU.instr.phyrs1_value * execute_MulFU.instr.phyrs2_value))

\* Each stage changes the flags bus of its own unit only, to what its latch delivers.
LEMMA CCBusSteps ==
  ASSUME TypeInv, QuietInv, [Next]_vars, NEW b \in CCBuses
  PROVE  ccBus'[b].tag = -1 \/ ccBus'[b] = ccBus[b] \/ CCBusFilled(b)
<1>1. ccBus \in CCBusType /\ DOMAIN ccBus = CCBuses
  BY DEF TypeInv, ForwardingTypes, CCBusType
<1>2. CASE CommitStage
  <2>1. ccBus' = Drained(ccBus) \/ ccBus' = ccBus
    BY <1>2 DEF CommitStage, WriteBack, busVars
  <2> QED
    BY <1>1, <2>1 DEF Drained, CCBusType
<1>3. CASE MulFUStage
  <2> DEFINE i == execute_MulFU.instr
             full == [ccBus EXCEPT ![MulBus] =
                        [tag |-> i.flag, flag |-> FlagOf(i.phyrs1_value * i.phyrs2_value)]]
  <2>1. ccBus' = ccBus \/ (execute_MulFU.has_insn /\ ccBus' = full)
    BY <1>3 DEF MulFUStage
  <2> QED
    BY <1>1, <2>1 DEF CCBusFilled, DeliversFlag
<1>4. CASE IntFUStage
  <2> DEFINE i == execute_IntFU.instr
             full == [ccBus EXCEPT ![IntBus] = [tag |-> i.flag, flag |-> FlagOf(IntResult(i))]]
  <2>1. ccBus' = ccBus \/ (execute_IntFU.has_insn /\ i.opcode \in FlagOps /\ ccBus' = full)
    BY <1>4 DEF IntFUStage
  <2> QED
    BY <1>1, <2>1 DEF CCBusFilled, DeliversFlag
<1>5. CASE ccBus' = ccBus
  BY <1>5
<1>6. CommitStage \/ MulFUStage \/ IntFUStage \/ ccBus' = ccBus
  BY DEF Next, vars, CommitBelowZero, MAUStage, MAUOutOfBounds, BFUStage, AFUStage, IssueStage,
     DispatchStage, DecodeStage, DecodeOutOfBounds, FetchStage, FetchOutOfBounds, SquashTail,
     SquashEnds, BecomesUndefined, busVars
<1> QED
  BY <1>2, <1>3, <1>4, <1>5, <1>6

\* A flags register becomes valid only when a bus delivers it, and decode marks the one it
\* hands out as not yet written.
LEMMA CCFileSteps ==
  ASSUME TypeInv, QuietInv, [Next]_vars, NEW c \in CCRegs, ccRegFile'[c].valid
  PROVE  \/ /\ ccRegFile[c].valid /\ ccRegFile'[c].flag = ccRegFile[c].flag
            /\ \A e \in Instrs : DecodeStage /\ decode_rename1.has_insn /\ Arrives(e)
                                 => ~(e.opcode \in FlagOps /\ c = e.flag)
         \/ CommitStage /\ \E b \in CCBuses : ccBus[b].tag = c /\ ccRegFile'[c].flag = ccBus[b].flag
<1>1. ccBus \in CCBusType /\ ccRegFile \in CCFileType
  BY DEF TypeInv, ForwardingTypes, FileTypes
<1>2. CASE CommitStage
  <2>1. ccRegFile' = ccRegFile \/ ccRegFile' = WrittenCC(ccRegFile, ccBus)
    BY <1>2 DEF CommitStage, WriteBack, prfVars
  <2>2. ~DecodeStage
    BY <1>2 DEF CommitStage, DecodeStage
  <2>3. CASE ccRegFile' = ccRegFile
    BY <2>2, <2>3
  <2>4. CASE ccRegFile' = WrittenCC(ccRegFile, ccBus)
    <3>1. ccRegFile'[c] = IF ccBus[MulBus].tag = c
                          THEN [valid |-> TRUE, flag |-> ccBus[MulBus].flag]
                          ELSE IF ccBus[IntBus].tag = c
                          THEN [valid |-> TRUE, flag |-> ccBus[IntBus].flag]
                          ELSE ccRegFile[c]
      BY <2>4 DEF WrittenCC
    <3> QED
      BY <1>2, <2>2, <3>1 DEF CCBuses
  <2> QED
    BY <2>1, <2>3, <2>4
<1>3. CASE DecodeStage /\ decode_rename1.has_insn
  <2>1. \/ ccRegFile' = ccRegFile
        \/ \E f : ccRegFile' = [ccRegFile EXCEPT ![f].valid = FALSE]
    BY <1>3 DEF DecodeStage, DecodeInstruction
  <2>2. ccRegFile[c].valid /\ ccRegFile'[c].flag = ccRegFile[c].flag
    BY <1>1, <2>1 DEF CCFileType
  <2> QED
    BY <2>2 DEF Arrives
<1>4. CASE ccRegFile' = ccRegFile /\ ~(DecodeStage /\ decode_rename1.has_insn)
  BY <1>4
<1>5. \/ CommitStage \/ (DecodeStage /\ decode_rename1.has_insn)
      \/ ccRegFile' = ccRegFile /\ ~(DecodeStage /\ decode_rename1.has_insn)
  BY DEF Next, vars, CommitBelowZero, MAUStage, MAUOutOfBounds, MulFUStage, BFUStage, AFUStage,
     IntFUStage, IssueStage, DispatchStage, DecodeStage, DecodeOutOfBounds, FetchStage,
     FetchOutOfBounds, SquashTail, SquashEnds, BecomesUndefined, prfVars
<1> QED
  BY <1>2, <1>3, <1>4, <1>5

\* No flags register from g on is named by an instruction, on a bus or valid.
NoFlagUsedFrom(g) ==
  /\ \A i \in Instrs : Placed(i) /\ i.opcode \in FlagOps => i.flag < g
  /\ \A b \in CCBuses : ccBus[b].tag < g
  /\ \A c \in CCRegs : ccRegFile[c].valid => c < g

\* A step uses no flags register but those that were used and the one decode hands out.
LEMMA FlagUsesStep ==
  ASSUME MachineInv, MachineInv', Fits, TimesFit, [Next]_vars,
         NEW h \in Nat, NEW g \in Nat, h <= g, NoFlagUsedFrom(h),
         DecodeStage /\ decode_rename1.has_insn =>
           \E e \in Instrs : Enters(e) /\ Arrives(e) /\ (e.opcode \in FlagOps => e.flag < g)
  PROVE  NoFlagUsedFrom(g)'
<1>1. /\ TypeInv /\ TypeInv' /\ QuietInv /\ RunInv /\ RunInv' /\ UnitKinds
  BY DEF MachineInv, RunInv
<1>2. PICK tags \in SUBSET Int : tags = CCRegs \cup {-1}
  <2>1. CCRegs \cup {-1} \in SUBSET Int
    BY SizesAssumption DEF CCRegs
  <2> QED
    BY <2>1
<1>3. /\ \A i \in Instrs : i.flag \in tags
      /\ \A b \in CCBuses : ccBus[b].tag \in tags
      /\ CCRegs \subseteq tags
  BY <1>1, <1>2 DEF Instrs, TypeInv, ForwardingTypes, CCBusType
<1>4. ASSUME NEW p \in tags, p < h PROVE p < g
  BY <1>4
<1>5. ASSUME NEW i \in Instrs, Placed(i), i.opcode \in FlagOps PROVE i.flag < g
  BY <1>3, <1>4, <1>5 DEF NoFlagUsedFrom
<1>6. \A i \in Instrs : Placed(i)' /\ i.opcode \in FlagOps => i.flag < g
  <2> SUFFICES ASSUME NEW i \in Instrs, Placed(i)', i.opcode \in FlagOps PROVE i.flag < g
    OBVIOUS
  <2>1. CASE ComesFromPlaced(i)
    <3>1. PICK j \in Instrs : Placed(j) /\ Carried(i, j)
      BY <2>1 DEF ComesFromPlaced
    <3>2. i.opcode = j.opcode /\ i.flag = j.flag
      BY <3>1, SameParts DEF Carried
    <3> QED
      BY <1>5, <3>1, <3>2
  <2>2. CASE DecodeStage /\ decode_rename1.has_insn /\ i = decode_rename1'.instr
    <3>1. PICK e \in Instrs : Enters(e) /\ Arrives(e) /\ (e.opcode \in FlagOps => e.flag < g)
      BY <2>2
    <3>2. e = i
      BY <2>2, <3>1 DEF Enters
    <3> QED
      BY <3>1, <3>2
  <2> QED
    BY <1>1, <2>1, <2>2, PlacesStep
<1>7. \A b \in CCBuses : ccBus'[b].tag < g
  <2> SUFFICES ASSUME NEW b \in CCBuses PROVE ccBus'[b].tag < g
    OBVIOUS
  <2>1. CASE ccBus'[b].tag = -1
    BY <2>1
  <2>2. CASE ccBus'[b] = ccBus[b]
    BY <1>3, <1>4, <2>2 DEF NoFlagUsedFrom
  <2>3. CASE CCBusFilled(b)
    <3>1. ASSUME NEW latch \in {execute_IntFU, execute_MulFU}, latch.has_insn,
                 latch.instr.opcode \in FlagOps, ccBus'[b].tag = latch.instr.flag
          PROVE  ccBus'[b].tag < g
      <4>1. Placed(latch.instr) /\ latch.instr \in Instrs
        BY <1>1, <3>1 DEF Placed, TypeInv, UnitTypes, Latches
      <4> QED
        BY <1>5, <3>1, <4>1
    <3>2. execute_MulFU.has_insn => execute_MulFU.instr.opcode \in FlagOps
      BY <1>1 DEF UnitKinds, FlagOps, Alu2Ops
    <3> QED
      BY <2>3, <3>1, <3>2 DEF CCBusFilled, DeliversFlag
  <2> QED
    BY <1>1, <2>1, <2>2, <2>3, CCBusSteps
<1>8. \A c \in CCRegs : ccRegFile'[c].valid => c < g
  <2> SUFFICES ASSUME NEW c \in CCRegs, ccRegFile'[c].valid PROVE c < g
    OBVIOUS
  <2>1. ccRegFile[c].valid \/ \E b \in CCBuses : ccBus[b].tag = c
    BY <1>1, CCFileSteps
  <2> QED
    BY <1>3, <1>4, <2>1 DEF NoFlagUsedFrom
<1> QED
  BY <1>6, <1>7, <1>8 DEF NoFlagUsedFrom

\* The same for the flags registers: those from g on are free in order and unused.
FreshFlagsFrom(g) ==
  /\ Untouched(freeCCFlagsRegList, g, CC_REG_FILE_SIZE)
  /\ g + Held(decode_rename1, FlagOps) <= Seen(FlagOps)
  /\ NoFlagUsedFrom(g)

\* There is a first unused flags register.
FreshFlags == \E g \in 0 .. CC_REG_FILE_SIZE : FreshFlagsFrom(g)

\* The number of flag setting instructions seen never exceeds the flags registers.
LEMMA FlagsFitting ==
  ASSUME TypeInv, InPrograms, FlagsFit
  PROVE  /\ Seen(FlagOps) \in Nat /\ Seen(FlagOps) <= CC_REG_FILE_SIZE
         /\ Held(decode_rename1, FlagOps) \in {0, 1}
<1>1. CodeIndex(pc) \in Int
  BY DEF CodeIndex, FIRST_PC, TypeInv, FrontTypes
<1>2. /\ Seen(FlagOps) \in Nat /\ Seen(FlagOps) <= HowMany(code_memory, FlagOps)
      /\ HowMany(code_memory, FlagOps) \in Nat
  BY <1>1, SeenBounds DEF Seen
<1>3. HowMany(code_memory, FlagOps) <= CC_REG_FILE_SIZE
  BY DEF InPrograms, FlagsFit
<1> QED
  BY <1>2, <1>3, HeldBit, SizesAssumption

\* Decode hands out the first flags register that nothing uses.
LEMMA FlagHandedOut ==
  ASSUME TypeInv, InPrograms, FlagsFit, decode_rename1.has_insn,
         NEW h \in 0 .. CC_REG_FILE_SIZE, FreshFlagsFrom(h),
         NEW e \in Instrs, Enters(e), NEW g, g = h + Held(decode_rename1, FlagOps)
  PROVE  /\ g \in 0 .. CC_REG_FILE_SIZE /\ h <= g
         /\ e.opcode \in FlagOps => h <= e.flag /\ e.flag < g
         /\ Untouched(freeCCFlagsRegList', g, CC_REG_FILE_SIZE)
<1>1. /\ freeCCFlagsRegList \in Seq(CCRegs) /\ CC_REG_FILE_SIZE \in Nat /\ h \in Nat
      /\ Untouched(freeCCFlagsRegList, h, CC_REG_FILE_SIZE)
      /\ h + Held(decode_rename1, FlagOps) <= Seen(FlagOps)
  BY SizesAssumption DEF TypeInv, RenameTypes, CCListType, FreshFlagsFrom
<1>2. /\ e.opcode = decode_rename1.instr.opcode
      /\ Held(decode_rename1, FlagOps) = IF e.opcode \in FlagOps THEN 1 ELSE 0
  BY DEF Enters, Held
<1>3. g \in Nat /\ h <= g /\ g <= CC_REG_FILE_SIZE
  BY <1>1, <1>2, FlagsFitting
<1>4. CASE e.opcode \in FlagOps
  <2>1. g = h + 1 /\ h < CC_REG_FILE_SIZE
    BY <1>1, <1>2, <1>3, <1>4
  <2>2. Head(freeCCFlagsRegList) = h /\ Untouched(Tail(freeCCFlagsRegList), h + 1, CC_REG_FILE_SIZE)
    BY <1>1, <2>1, UntouchedHead
  <2>3. e.flag = h /\ freeCCFlagsRegList' = Tail(freeCCFlagsRegList)
    BY <1>4, <2>2 DEF Enters
  <2> QED
    BY <1>1, <1>3, <2>1, <2>2, <2>3
<1>5. CASE e.opcode \notin FlagOps
  <2>1. g = h /\ freeCCFlagsRegList' = freeCCFlagsRegList
    BY <1>1, <1>2, <1>5 DEF Enters
  <2> QED
    BY <1>1, <1>3, <1>5, <2>1
<1> QED
  BY <1>4, <1>5

\* Outside decode the list of flags registers only grows, at its end.
LEMMA FlagsListGrows ==
  ASSUME TypeInv, TypeInv', QuietInv, [Next]_vars, ~(DecodeStage /\ decode_rename1.has_insn),
         NEW h, Untouched(freeCCFlagsRegList, h, CC_REG_FILE_SIZE)
  PROVE  Untouched(freeCCFlagsRegList', h, CC_REG_FILE_SIZE)
<1>1. freeCCFlagsRegList \in Seq(CCRegs)
  BY DEF TypeInv, RenameTypes, CCListType
<1>2. ASSUME NEW i \in Instrs PROVE Untouched(FreedCC(i, freeCCFlagsRegList), h, CC_REG_FILE_SIZE)
  <2>1. i.flag \in CCRegs
    BY DEF Instrs
  <2> QED
    BY <1>1, <2>1, UntouchedBack DEF FreedCC
<1>3. CASE CommitStage
  <2>1. \/ freeCCFlagsRegList' = freeCCFlagsRegList
        \/ /\ RoBAtCommit[0].established_bit
           /\ freeCCFlagsRegList' = FreedCC(RoBAtCommit[0].instr, freeCCFlagsRegList)
    BY <1>3 DEF CommitStage, CommitHead, freeVars
  <2>2. RoBAtCommit[0].established_bit => RoBAtCommit[0].instr \in Instrs
    <3>1. RoBAtCommit \in RoBType
      BY <1>3 DEF CommitStage, TypeInv, RoBTypes
    <3> QED
      BY <3>1, SlotSets DEF RoBType, RoBEntries
  <2> QED
    BY <1>2, <2>1, <2>2
<1>4. CASE freeCCFlagsRegList' = freeCCFlagsRegList
  BY <1>4
<1>5. CommitStage \/ freeCCFlagsRegList' = freeCCFlagsRegList
  BY DEF Next, vars, CommitBelowZero, MAUStage, MAUOutOfBounds, MulFUStage, BFUStage, AFUStage,
     IntFUStage, IssueStage, DispatchStage, DecodeStage, DecodeOutOfBounds, FetchStage,
     FetchOutOfBounds, SquashTail, SquashEnds, BecomesUndefined, QuietInv, freeVars
<1> QED
  BY <1>3, <1>4, <1>5

\* After every step there is a first fresh flags register again.
LEMMA FreshFlagsStep ==
  ASSUME MachineInv, MachineInv', Fits, TimesFit, FlagsFit, [Next]_vars,
         NEW h \in 0 .. CC_REG_FILE_SIZE, FreshFlagsFrom(h)
  PROVE  FreshFlags'
<1>0. RunInv
  BY DEF MachineInv
<1>1. /\ TypeInv /\ TypeInv' /\ InPrograms /\ QuietInv /\ OwnInv /\ FlowLatches
      /\ BudgetInv /\ Undisturbed
  BY DEF MachineInv, RunInv, FlowInv
<1>2. /\ h \in Nat /\ Seen(FlagOps) \in Nat /\ Held(decode_rename1, FlagOps) \in Nat
      /\ h + Held(decode_rename1, FlagOps) <= Seen(FlagOps)
  BY <1>1, FlagsFitting DEF FreshFlagsFrom
<1>3. CASE DecodeStage /\ decode_rename1.has_insn
  <2>1. PICK g : g = h + Held(decode_rename1, FlagOps)
    OBVIOUS
  <2>2. PICK e \in Instrs : Enters(e) /\ Arrives(e)
    BY <1>1, <1>3, DecodeRenames DEF OwnInv, Undisturbed
  <2>3. /\ g \in 0 .. CC_REG_FILE_SIZE /\ h <= g /\ g \in Nat
        /\ e.opcode \in FlagOps => e.flag < g
        /\ Untouched(freeCCFlagsRegList', g, CC_REG_FILE_SIZE)
    BY <1>1, <1>3, <2>1, <2>2, FlagHandedOut
  <2>4. NoFlagUsedFrom(g)'
    BY <1>2, <2>2, <2>3, FlagUsesStep DEF FreshFlagsFrom
  <2>5. (g + Held(decode_rename1, FlagOps) <= Seen(FlagOps))'
    <3>1. Held(decode_rename1, FlagOps)' = 0
      BY <1>0, <1>3, DecodeEmpties DEF Held
    <3>2. Seen(FlagOps)' = Seen(FlagOps)
      <4>1. pc' = pc /\ code_memory' = code_memory
        BY <1>3 DEF DecodeStage
      <4> QED
        BY <4>1 DEF Seen, SeenAt, CodeIndex
    <3> QED
      BY <1>2, <2>1, <2>3, <3>1, <3>2
  <2>6. FreshFlagsFrom(g)'
    BY <2>3, <2>4, <2>5 DEF FreshFlagsFrom
  <2> QED
    BY <2>3, <2>6 DEF FreshFlags
<1>4. CASE ~(DecodeStage /\ decode_rename1.has_insn)
  <2>1. Untouched(freeCCFlagsRegList', h, CC_REG_FILE_SIZE)
    BY <1>1, <1>4, FlagsListGrows DEF FreshFlagsFrom
  <2>2. NoFlagUsedFrom(h)'
    BY <1>2, <1>4, FlagUsesStep DEF FreshFlagsFrom
  <2>3. (h + Held(decode_rename1, FlagOps) <= Seen(FlagOps))'
    <3> DEFINE D == FlagOps
    <3>1. /\ Held(decode_rename1, D)' - Seen(D)' <= Held(decode_rename1, D) - Seen(D)
          /\ Seen(D)' \in Nat
      BY <1>1, CountsStep
    <3>2. Held(decode_rename1, D)' \in Nat
      BY HeldBit
    <3>3. PICK a \in Nat, s \in Nat : a = Held(decode_rename1, D)' /\ s = Seen(D)'
      BY <3>1, <3>2
    <3>4. h + a <= s
      BY <1>2, <3>1, <3>3
    <3> QED
      BY <3>3, <3>4
  <2>4. FreshFlagsFrom(h)'
    BY <2>1, <2>2, <2>3 DEF FreshFlagsFrom
  <2> QED
    BY <2>4 DEF FreshFlags
<1> QED
  BY <1>3, <1>4

\* At the start every flags register is fresh.
LEMMA FreshFlagsInit == ASSUME TypeInv, Init PROVE FreshFlags
<1>1. /\ CC_REG_FILE_SIZE \in Nat
      /\ freeCCFlagsRegList = [k \in 1 .. CC_REG_FILE_SIZE |-> k - 1]
  BY SizesAssumption DEF Init, APEX_cpu_init
<1>2. Untouched(freeCCFlagsRegList, 0, CC_REG_FILE_SIZE)
  <2>1. Len(freeCCFlagsRegList) = CC_REG_FILE_SIZE
    BY <1>1
  <2>2. ASSUME NEW k \in Nat, 1 <= k, k <= CC_REG_FILE_SIZE - 0
        PROVE  k <= Len(freeCCFlagsRegList) /\ freeCCFlagsRegList[k] = 0 + k - 1
    <3>1. k \in 1 .. CC_REG_FILE_SIZE
      BY <1>1, <2>2
    <3> QED
      BY <1>1, <2>1, <3>1
  <2> QED
    BY <2>2 DEF Untouched
<1>3. Held(decode_rename1, FlagOps) = 0 /\ Seen(FlagOps) \in Nat
  <2>1. Held(decode_rename1, FlagOps) = 0
    BY DEF Init, APEX_cpu_init, EmptyStallLatch, Held
  <2>2. CodeIndex(pc) \in Int
    BY DEF CodeIndex, FIRST_PC, TypeInv, FrontTypes
  <2> QED
    BY <2>1, <2>2, SeenBounds DEF Seen
<1>4. NoFlagUsedFrom(0)
  <2>1. \A i : ~Placed(i)
    BY DEF Init, APEX_cpu_init, Placed, EmptyStallLatch, EmptyLatch, EmptyIQEntry, RoBSlots
  <2>2. \A b \in CCBuses : ccBus[b].tag < 0
    BY DEF Init, APEX_cpu_init, IdleCCBus
  <2>3. \A c \in CCRegs : ~ccRegFile[c].valid
    BY DEF Init, APEX_cpu_init
  <2> QED
    BY <2>1, <2>2, <2>3 DEF NoFlagUsedFrom
<1>5. FreshFlagsFrom(0) /\ 0 \in 0 .. CC_REG_FILE_SIZE
  BY <1>1, <1>2, <1>3, <1>4 DEF FreshFlagsFrom
<1> QED
  BY <1>5 DEF FreshFlags

\* At every time there is a first fresh flags register.
LEMMA FreshFlagsAlways ==
  ASSUME BitwiseIsInt, StraightLine, Fits, TimesFit, FlagsFit PROVE Spec => []FreshFlags
<1>1. MachineInv /\ Init => FreshFlags
  BY FreshFlagsInit DEF MachineInv, RunInv
<1>2. MachineInv /\ MachineInv' /\ FreshFlags /\ [Next]_vars => FreshFlags'
  BY FreshFlagsStep DEF FreshFlags
<1> QED
  BY <1>1, <1>2, MachineAlways, PTL DEF Spec

(***************************************************************************)
(* Programs that only use registers: no memory, no branch, and neither CMP *)
(* (commit leaves the flags alone) nor DIV (dispatch drops it).            *)
(***************************************************************************)
RegisterOps == Alu2Ops \cup AluLiteralOps \cup {"MOVC", "CML", "NOP", "HALT"}
RegisterPrograms == \A p \in Programs : \A k \in DOMAIN p : p[k].opcode \in RegisterOps

\* An earlier instruction of the program than the k-th writes r.
WrittenBefore(p, k, r) ==
  \E j \in DOMAIN p : j < k /\ p[j].opcode \in DestinationOps /\ p[j].rd = r

\* A register that was never renamed is -1 in the table, as the tag of an idle bus is.
SourcesWritten ==
  \A p \in Programs : \A k \in DOMAIN p :
    /\ p[k].opcode \in Source1Ops => WrittenBefore(p, k, p[k].rs1)
    /\ p[k].opcode \in Source2Ops => WrittenBefore(p, k, p[k].rs2)

(***************************************************************************)
(* What sequential execution computes: R[n] are the program's registers    *)
(* after its first n instructions.                                         *)
(***************************************************************************)
Result(op, a, b, imm) ==
  CASE op = "ADD" -> a + b
    [] op = "SUB" -> a - b
    [] op = "ADDL" -> a + imm
    [] op \in {"SUBL", "CML"} -> a - imm
    [] op = "MUL" -> a * b
    [] op \in {"AND", "OR", "XOR"} -> BitwiseResult(op, a, b)
    [] OTHER -> imm

\* What the n-th instruction computes from what the ones before it left.
ResultAt(R, n) ==
  Result(code_memory[n].opcode, R[n - 1][code_memory[n].rs1], R[n - 1][code_memory[n].rs2],
         code_memory[n].imm)

\* R is what the first D instructions do, one after the other.
Runs(R, D) ==
  /\ D \in Nat /\ D <= Len(code_memory)
  /\ R \in [0 .. D -> [ProgramRegisters -> Int]]
  /\ R[0] = [r \in ProgramRegisters |-> 0]
  /\ \A n \in 1 .. D :
       R[n] = IF code_memory[n].opcode \in DestinationOps
              THEN [R[n - 1] EXCEPT ![code_memory[n].rd] = ResultAt(R, n)] ELSE R[n - 1]

(***************************************************************************)
(* V[p] is the value physical register p was handed out for, F[c] the      *)
(* flags of flags register c.                                              *)
(***************************************************************************)
IsNth(i, n) ==
  /\ i.pc = FIRST_PC + 4 * (n - 1)
  /\ i.opcode = code_memory[n].opcode /\ i.imm = code_memory[n].imm
  /\ i.rd = code_memory[n].rd /\ i.rs1 = code_memory[n].rs1 /\ i.rs2 = code_memory[n].rs2

\* Instruction i is the program's n-th, and its registers stand for the right values.
Explained(V, F, R, i, n) ==
  /\ IsNth(i, n)
  /\ i.opcode \in Source1Ops =>
       /\ i.phyrs1 \in PhysicalRegs /\ V[i.phyrs1] = R[n - 1][i.rs1]
       /\ i.phyrs1_valid => i.phyrs1_value = V[i.phyrs1]
  /\ i.opcode \in Source2Ops =>
       /\ i.phyrs2 \in PhysicalRegs /\ V[i.phyrs2] = R[n - 1][i.rs2]
       /\ i.phyrs2_valid => i.phyrs2_value = V[i.phyrs2]
  /\ i.opcode \in DestinationOps => V[i.phyrd] = R[n][i.rd]
  /\ i.opcode \in FlagOps => F[i.flag] = FlagOf(ResultAt(R, n))

\* What the buses and the register files hold is what was meant.
Agree(V, F) ==
  /\ \A b \in Buses : bus[b].tag # -1 => bus[b].value = V[bus[b].tag]
  /\ \A p \in PhysicalRegs : physicalRegFile[p].valid => physicalRegFile[p].data = V[p]
  /\ \A b \in CCBuses : ccBus[b].tag # -1 => ccBus[b].flag = F[ccBus[b].tag]
  /\ \A c \in CCRegs : ccRegFile[c].valid => ccRegFile[c].flag = F[c]

\* An issued instruction keeps its operands, though they are no longer marked as valid.
HasOperands(V, unit) ==
  unit.has_insn =>
    /\ unit.instr.opcode \in Source1Ops => unit.instr.phyrs1_value = V[unit.instr.phyrs1]
    /\ unit.instr.opcode \in Source2Ops => unit.instr.phyrs2_value = V[unit.instr.phyrs2]

\* Everything on the buses, in the files, the units and the queues is what was meant.
Values(V, F, R, D) ==
  /\ Agree(V, F)
  /\ HasOperands(V, execute_IntFU) /\ HasOperands(V, execute_MulFU)
  /\ \A i \in Instrs : Placed(i) => \E n \in 1 .. D : Explained(V, F, R, i, n)

\* What an instruction picks up on its way is what its sources stand for.
LEMMA OperandsExplained ==
  ASSUME NEW V, NEW F, NEW R, NEW n, NEW i, NEW j,
         Agree(V, F), Explained(V, F, R, j, n), Carried(i, j)
  PROVE  Explained(V, F, R, i, n)
<1>1. /\ i.opcode = j.opcode /\ i.phyrd = j.phyrd /\ i.pc = j.pc
      /\ i.rd = j.rd /\ i.rs1 = j.rs1 /\ i.rs2 = j.rs2
      /\ i.phyrs1 = j.phyrs1 /\ i.phyrs2 = j.phyrs2
      /\ i.flag = j.flag /\ i.imm = j.imm
  BY SameParts DEF Carried
<1>2. ASSUME NEW p \in PhysicalRegs, NEW v, Offered(p, v) PROVE v = V[p]
  <2>1. p # -1
    BY RegisterIndices
  <2> QED
    BY <1>2, <2>1 DEF Offered, Agree, PRFValid
<1>3. i.opcode \in Source1Ops /\ i.phyrs1_valid => i.phyrs1_value = V[i.phyrs1]
  BY <1>1, <1>2 DEF Carried, OperandsFrom, Explained
<1>4. i.opcode \in Source2Ops /\ i.phyrs2_valid => i.phyrs2_value = V[i.phyrs2]
  BY <1>1, <1>2 DEF Carried, OperandsFrom, Explained
<1> QED
  BY <1>1, <1>3, <1>4 DEF Explained, IsNth

\* The units compute the results of sequential execution.
LEMMA UnitResults ==
  ASSUME NEW V, NEW F, NEW R, NEW n, NEW i, Explained(V, F, R, i, n), i.opcode \in RegisterOps,
         i.opcode \in Source1Ops => i.phyrs1_value = V[i.phyrs1],
         i.opcode \in Source2Ops => i.phyrs2_value = V[i.phyrs2]
  PROVE  /\ i.opcode # "MUL" => IntResult(i) = ResultAt(R, n)
         /\ i.opcode = "MUL" => i.phyrs1_value * i.phyrs2_value = ResultAt(R, n)
<1>1. ResultAt(R, n) = Result(i.opcode, R[n - 1][i.rs1], R[n - 1][i.rs2], i.imm)
  BY DEF ResultAt, Explained, IsNth
<1>2. /\ i.opcode \in Source1Ops => i.phyrs1_value = R[n - 1][i.rs1]
      /\ i.opcode \in Source2Ops => i.phyrs2_value = R[n - 1][i.rs2]
  BY DEF Explained
<1>3. CASE i.opcode \in Alu2Ops
  <2>1. i.phyrs1_value = R[n - 1][i.rs1] /\ i.phyrs2_value = R[n - 1][i.rs2]
    BY <1>2, <1>3 DEF Source1Ops, Source2Ops
  <2> QED
    BY <1>1, <1>3, <2>1 DEF Result, IntResult, Alu2Ops
<1>4. CASE i.opcode \in AluLiteralOps \cup {"CML"}
  <2>1. i.phyrs1_value = R[n - 1][i.rs1]
    BY <1>2, <1>4 DEF Source1Ops
  <2> QED
    BY <1>1, <1>4, <2>1 DEF Result, IntResult, AluLiteralOps
<1>5. CASE i.opcode \in {"MOVC", "NOP", "HALT"}
  BY <1>1, <1>5 DEF Result, IntResult
<1> QED
  BY <1>3, <1>4, <1>5 DEF RegisterOps

\* What is placed is an instruction of the program.
LEMMA PlacedOps ==
  ASSUME InPrograms, RegisterPrograms, code_memory \in Seq(Insns), NEW V, NEW F, NEW R, NEW D,
         Runs(R, D), Values(V, F, R, D), NEW i \in Instrs, Placed(i)
  PROVE  i.opcode \in RegisterOps
<1>1. PICK n \in 1 .. D : Explained(V, F, R, i, n)
  BY DEF Values
<1>2. n \in DOMAIN code_memory
  BY DEF Runs
<1> QED
  BY <1>1, <1>2 DEF Explained, IsNth, InPrograms, RegisterPrograms

\* Nothing is established in the load-store queue.
LEMMA NoMemoryOps ==
  ASSUME RunInv, RegisterPrograms, NEW V, NEW F, NEW R, NEW D, Runs(R, D), Values(V, F, R, D)
  PROVE  LSQ_size = 0 /\ \A k \in LSQSlots : ~lsq[k].established_bit
<1>1. TypeInv /\ RoBInv /\ LSQInv /\ QuietInv /\ InPrograms /\ code_memory \in Seq(Insns)
  BY DEF RunInv, TypeInv, ProgramTypes
<1>2. ASSUME NEW k \in MemoryEntries PROVE FALSE
  <2>1. k \in RoBSlots /\ k < ROB_size /\ RoB[k].instr.opcode \in MemoryOps
    BY <1>2 DEF MemoryEntries
  <2>2. Placed(RoB[k].instr) /\ RoB[k].instr \in Instrs
    BY <1>1, <2>1, PlacedType DEF Placed
  <2>3. RoB[k].instr.opcode \in RegisterOps
    BY <1>1, <2>2, PlacedOps
  <2> QED
    BY <2>1, <2>3 DEF RegisterOps, MemoryOps, LoadOps, StoreOps, Alu2Ops, AluLiteralOps
<1>3. MemoryEntries = {}
  BY <1>2
<1>4. LSQ_size = 0
  BY <1>1, <1>3, FS_EmptySet DEF LSQInv, LSQSizes
<1> QED
  BY <1>1, <1>4, SlotSets DEF QuietInv

\* The program does not change, nor does what an instruction of it stands for.
LEMMA ExplainedStays ==
  ASSUME [Next]_vars, NEW V, NEW F, NEW R, NEW i, NEW n
  PROVE  Explained(V, F, R, i, n)' <=> Explained(V, F, R, i, n)
<1>1. code_memory' = code_memory
  BY CodeUnchanged
<1> QED
  BY <1>1 DEF Explained, IsNth, ResultAt

\* What is placed after a step is explained.
LEMMA PlacedExplained ==
  ASSUME RunInv, RunInv', Fits, TimesFit, [Next]_vars,
         NEW V, NEW F, NEW R, NEW D, Values(V, F, R, D),
         DecodeStage /\ decode_rename1.has_insn =>
           \E n \in 1 .. D : Explained(V, F, R, decode_rename1'.instr, n),
         NEW i \in Instrs, Placed(i)'
  PROVE  \E n \in 1 .. D : Explained(V, F, R, i, n)
<1>1. CASE ComesFromPlaced(i)
  <2>1. PICK j \in Instrs : Placed(j) /\ Carried(i, j)
    BY <1>1 DEF ComesFromPlaced
  <2>2. PICK n \in 1 .. D : Explained(V, F, R, j, n)
    BY <2>1 DEF Values
  <2> QED
    BY <2>1, <2>2, OperandsExplained DEF Values
<1> QED
  BY <1>1, PlacesStep

\* An instruction that a unit receives has its operands.
LEMMA OperandsKept ==
  ASSUME MachineInv, MachineInv', Fits, TimesFit, [Next]_vars,
         NEW V, NEW F, NEW R, NEW D, Values(V, F, R, D)
  PROVE  HasOperands(V, execute_IntFU)' /\ HasOperands(V, execute_MulFU)'
<1>1. RunInv /\ RunInv' /\ TypeInv /\ QuietInv /\ QuietInv'
  BY DEF MachineInv, RunInv
<1>2. CASE IssueStage
  <2>1. ASSUME NEW latch, NEW next, NEW kinds, HasOperands(V, latch),
               ReceivesFrom(latch, next, kinds)
        PROVE  HasOperands(V, next)
    <3>1. CASE next = latch
      BY <2>1, <3>1
    <3>2. CASE next # latch
      <4>1. PICK j \in Instrs :
              /\ ComesFromPlaced(j) /\ SourcesValid(j)
              /\ next = [has_insn |-> TRUE,
                         instr |-> [j EXCEPT !.phyrs1_valid = FALSE, !.phyrs2_valid = FALSE]]
        BY <2>1, <3>2 DEF ReceivesFrom
      <4>2. PICK k \in Instrs : Placed(k) /\ Carried(j, k)
        BY <4>1 DEF ComesFromPlaced
      <4>3. PICK n \in 1 .. D : Explained(V, F, R, k, n)
        BY <4>2 DEF Values
      <4>4. Explained(V, F, R, j, n)
        BY <4>2, <4>3, OperandsExplained DEF Values
      <4>5. /\ j.opcode \in Source1Ops => j.phyrs1_value = V[j.phyrs1]
            /\ j.opcode \in Source2Ops => j.phyrs2_value = V[j.phyrs2]
        BY <4>1, <4>4 DEF Explained, SourcesValid
      <4>6. /\ next.instr.opcode = j.opcode
            /\ next.instr.phyrs1 = j.phyrs1 /\ next.instr.phyrs1_value = j.phyrs1_value
            /\ next.instr.phyrs2 = j.phyrs2 /\ next.instr.phyrs2_value = j.phyrs2_value
        BY <4>1 DEF Instrs
      <4> QED
        BY <4>5, <4>6 DEF HasOperands
    <3> QED
      BY <3>1, <3>2
  <2>2. /\ HasOperands(V, execute_IntFU')
        /\ HasOperands(V, execute_MulFU')
    BY <1>1, <1>2, <2>1, UnitsReceive DEF Values
  <2> QED
    BY <2>2 DEF HasOperands
<1>3. CASE ~IssueStage
  BY <1>1, <1>3, UnitsKeep DEF Values, HasOperands
<1> QED
  BY <1>2, <1>3

\* A unit's latch holds a placed instruction with its operands: its result is the right one.
LEMMA UnitExplained ==
  ASSUME TypeInv, InPrograms, RegisterPrograms,
         NEW V, NEW F, NEW R, NEW D, Runs(R, D), Values(V, F, R, D),
         NEW unit \in {execute_IntFU, execute_MulFU}, unit.has_insn
  PROVE  LET i == unit.instr
             value == IF i.opcode = "MUL" THEN i.phyrs1_value * i.phyrs2_value ELSE IntResult(i)
         IN  /\ i \in Instrs /\ i.opcode \in RegisterOps
             /\ i.opcode \in DestinationOps => V[i.phyrd] = value
             /\ i.opcode \in FlagOps => F[i.flag] = FlagOf(value)
<1> DEFINE i == unit.instr
           value == IF i.opcode = "MUL" THEN i.phyrs1_value * i.phyrs2_value ELSE IntResult(i)
<1>1. Placed(i) /\ i \in Instrs
  BY DEF Placed, TypeInv, UnitTypes, Latches
<1>2. code_memory \in Seq(Insns)
  BY DEF TypeInv, ProgramTypes
<1>3. i.opcode \in RegisterOps
  BY <1>1, <1>2, PlacedOps
<1>4. PICK n \in 1 .. D : Explained(V, F, R, i, n)
  BY <1>1 DEF Values
<1>5. /\ i.opcode \in Source1Ops => i.phyrs1_value = V[i.phyrs1]
      /\ i.opcode \in Source2Ops => i.phyrs2_value = V[i.phyrs2]
  BY DEF Values, HasOperands
<1>6. value = ResultAt(R, n)
  BY <1>3, <1>4, <1>5, UnitResults
<1>7. ASSUME i.opcode \in DestinationOps PROVE R[n][i.rd] = ResultAt(R, n)
  <2>1. n \in Nat /\ n - 1 \in 0 .. D /\ code_memory[n].opcode \in DestinationOps
        /\ code_memory[n].rd = i.rd
    BY <1>4, <1>7 DEF Explained, IsNth, Runs
  <2>2. R[n] = [R[n - 1] EXCEPT ![code_memory[n].rd] = ResultAt(R, n)]
    BY <2>1 DEF Runs
  <2>3. i.rd \in ProgramRegisters /\ R[n - 1] \in [ProgramRegisters -> Int]
    BY <1>1, <2>1, InstrFields DEF Runs
  <2> QED
    BY <2>1, <2>2, <2>3
<1>8. /\ i.opcode \in DestinationOps => V[i.phyrd] = value
      /\ i.opcode \in FlagOps => F[i.flag] = FlagOf(value)
  BY <1>4, <1>6, <1>7 DEF Explained
<1> QED
  BY <1>1, <1>3, <1>8

\* Buses deliver, and files keep, what was meant.
LEMMA AgreeStep ==
  ASSUME MachineInv, [Next]_vars, RegisterPrograms,
         NEW V, NEW F, NEW R, NEW D, Runs(R, D), Values(V, F, R, D)
  PROVE  Agree(V, F)'
<1>1. /\ TypeInv /\ QuietInv /\ InPrograms /\ RunInv /\ UnitKinds
  BY DEF MachineInv, RunInv
<1>2. ASSUME NEW b \in Buses, bus'[b].tag # -1 PROVE bus'[b].value = V[bus'[b].tag]
  <2>1. CASE bus'[b] = bus[b]
    BY <1>2, <2>1 DEF Values, Agree
  <2>2. CASE BusFilled(b)
    <3>1. ~(execute_AFU.has_insn /\ execute_AFU.instr.opcode \in PointerOps)
      <4>1. execute_AFU.has_insn => execute_AFU.instr \in Instrs /\ Placed(execute_AFU.instr)
        BY <1>1 DEF Placed, TypeInv, UnitTypes, Latches
      <4>2. execute_AFU.has_insn => execute_AFU.instr.opcode \in RegisterOps
        BY <1>1, <4>1, PlacedOps DEF TypeInv, ProgramTypes
      <4> QED
        BY <4>2 DEF RegisterOps, PointerOps, Alu2Ops, AluLiteralOps
    <3>2. ~(MAUStage /\ MAUBusy)
      <4>1. ~lsq[0].established_bit
        BY <1>1, NoMemoryOps, SlotSets
      <4> QED
        BY <4>1, MAUBusyEstablished
    <3>3. /\ execute_IntFU.has_insn => execute_IntFU.instr.opcode # "MUL"
          /\ execute_MulFU.has_insn => execute_MulFU.instr.opcode = "MUL"
      BY <1>1 DEF UnitKinds, IntFUSourceOps, NoSourceOps, AluLiteralOps
    <3>4. /\ execute_IntFU.has_insn /\ execute_IntFU.instr.opcode \in DestinationOps
               => V[execute_IntFU.instr.phyrd] = IntResult(execute_IntFU.instr)
          /\ execute_MulFU.has_insn
               => V[execute_MulFU.instr.phyrd]
                    = execute_MulFU.instr.phyrs1_value * execute_MulFU.instr.phyrs2_value
      BY <1>1, <3>3, UnitExplained DEF DestinationOps, Alu2Ops
    <3> QED
      BY <2>2, <3>1, <3>2, <3>4 DEF BusFilled, Delivers
  <2> QED
    BY <1>1, <1>2, <2>1, <2>2, BusSteps
<1>3. ASSUME NEW p \in PhysicalRegs, physicalRegFile'[p].valid
      PROVE  physicalRegFile'[p].data = V[p]
  <2>1. \/ physicalRegFile[p].valid /\ physicalRegFile'[p].data = physicalRegFile[p].data
        \/ \E b \in Buses : bus[b].tag = p /\ physicalRegFile'[p].data = bus[b].value
    <3>1. CASE CommitStage
      <4>1. physicalRegFile' = physicalRegFile \/ physicalRegFile' = WrittenPRF(physicalRegFile, bus)
        BY <3>1 DEF CommitStage, WriteBack, prfVars
      <4>2. CASE physicalRegFile' = WrittenPRF(physicalRegFile, bus)
        <5>1. CASE \E b \in Buses : bus[b].tag = p
          <6> DEFINE S == {b \in Buses : bus[b].tag = p}
                     last == CHOOSE b \in Buses : /\ bus[b].tag = p
                                                  /\ \A c \in Buses : bus[c].tag = p => c <= b
          <6>1. physicalRegFile'[p] = [valid |-> TRUE, data |-> bus[last].value]
            BY <4>2, <5>1 DEF WrittenPRF
          <6>2. S \in SUBSET (1 .. 5) /\ S # {}
            BY <5>1 DEF Buses
          <6>3. \E b \in S : \A c \in S : c <= b
            BY <6>2, GreatestElement
          <6>4. last \in Buses /\ bus[last].tag = p
            BY <6>3
          <6> HIDE DEF last
          <6> QED
            BY <6>1, <6>4
        <5>2. CASE ~\E b \in Buses : bus[b].tag = p
          BY <1>3, <4>2, <5>2 DEF WrittenPRF
        <5> QED
          BY <5>1, <5>2
      <4> QED
        BY <1>3, <4>1, <4>2
    <3>2. CASE DecodeStage /\ decode_rename1.has_insn
      <4>1. PICK e \in Instrs : Enters(e) /\ Arrives(e)
        BY <1>1, <3>2, DecodeRenames DEF RunInv, OwnInv, Undisturbed
      <4> QED
        BY <1>3, <4>1 DEF Arrives
    <3>3. CASE physicalRegFile' = physicalRegFile
      BY <1>3, <3>3
    <3>4. \/ CommitStage \/ (DecodeStage /\ decode_rename1.has_insn)
          \/ physicalRegFile' = physicalRegFile
      BY DEF Next, vars, CommitBelowZero, MAUStage, MAUOutOfBounds, MulFUStage, BFUStage, AFUStage,
         IntFUStage, IssueStage, DispatchStage, DecodeStage, DecodeOutOfBounds, FetchStage,
         FetchOutOfBounds, SquashTail, SquashEnds, BecomesUndefined, prfVars
    <3> QED
      BY <3>1, <3>2, <3>3, <3>4
  <2>2. p # -1
    BY RegisterIndices
  <2> QED
    BY <2>1, <2>2 DEF Values, Agree
<1>4. ASSUME NEW b \in CCBuses, ccBus'[b].tag # -1 PROVE ccBus'[b].flag = F[ccBus'[b].tag]
  <2>1. CASE ccBus'[b] = ccBus[b]
    BY <1>4, <2>1 DEF Values, Agree
  <2>2. CASE CCBusFilled(b)
    <3>1. /\ execute_IntFU.has_insn => execute_IntFU.instr.opcode # "MUL"
          /\ execute_MulFU.has_insn => execute_MulFU.instr.opcode = "MUL"
      BY <1>1 DEF UnitKinds, IntFUSourceOps, NoSourceOps, AluLiteralOps
    <3>2. /\ execute_IntFU.has_insn /\ execute_IntFU.instr.opcode \in FlagOps
               => F[execute_IntFU.instr.flag] = FlagOf(IntResult(execute_IntFU.instr))
          /\ execute_MulFU.has_insn
               => F[execute_MulFU.instr.flag]
                    = FlagOf(execute_MulFU.instr.phyrs1_value * execute_MulFU.instr.phyrs2_value)
      BY <1>1, <3>1, UnitExplained DEF FlagOps, Alu2Ops
    <3> QED
      BY <2>2, <3>2 DEF CCBusFilled, DeliversFlag
  <2> QED
    BY <1>1, <1>4, <2>1, <2>2, CCBusSteps
<1>5. ASSUME NEW c \in CCRegs, ccRegFile'[c].valid PROVE ccRegFile'[c].flag = F[c]
  <2>1. c # -1
    BY RegisterIndices
  <2> QED
    BY <1>1, <1>5, <2>1, CCFileSteps DEF Values, Agree
<1> QED
  BY <1>2, <1>3, <1>4, <1>5 DEF Agree

\* One step of any stage, with what decode renamed explained.
LEMMA ValuesStep ==
  ASSUME MachineInv, MachineInv', Fits, TimesFit, RegisterPrograms, [Next]_vars,
         NEW V, NEW F, NEW R, NEW D, Runs(R, D), Values(V, F, R, D),
         DecodeStage /\ decode_rename1.has_insn =>
           \E n \in 1 .. D : Explained(V, F, R, decode_rename1'.instr, n)
  PROVE  Values(V, F, R, D)'
<1>1. RunInv /\ RunInv'
  BY DEF MachineInv
<1>2. \A i \in Instrs : Placed(i)' => \E n \in 1 .. D : Explained(V, F, R, i, n)'
  BY <1>1, PlacedExplained, ExplainedStays
<1> QED
  BY <1>2, AgreeStep, OperandsKept DEF Values

(***************************************************************************)
(* Fetch, the latches and the reorder buffer are one line of instructions: *)
(* D of them have been renamed.                                            *)
(***************************************************************************)
\* The number of instructions before the reorder buffer's head.
HeadAt(D) == D - Waiting(rename2_dispatch) - Waiting(issue_queue) - ROB_size

\* The pcs of the line follow each other; decode's instruction is as fetch made it.
InLine(D) ==
  /\ D \in Nat
  /\ pc = FIRST_PC + 4 * (D + Waiting(decode_rename1))
  /\ stage = "fetch" => ~decode_rename1.has_insn
  /\ decode_rename1.has_insn =>
       /\ D + 1 \in DOMAIN code_memory
       /\ decode_rename1.instr = Fetched(FIRST_PC + 4 * D, code_memory[D + 1], FALSE, FALSE)
  /\ rename2_dispatch.has_insn => rename2_dispatch.instr.pc = FIRST_PC + 4 * (D - 1)
  /\ issue_queue.has_insn =>
       issue_queue.instr.pc = FIRST_PC + 4 * (D - 1 - Waiting(rename2_dispatch))
  /\ \A k \in RoBSlots : k < ROB_size => RoB[k].instr.pc = FIRST_PC + 4 * (HeadAt(D) + k)

\* Commit takes the head it has committed before off the line.
LEMMA LineAtCommit ==
  ASSUME RunInv, RunInv', CommitStage, NEW D, InLine(D)
  PROVE  InLine(D)' /\ HeadAt(D)' = HeadAt(D) + Committed
<1> USE DEF RunInv
<1>1. /\ UNCHANGED <<pc, decode_rename1, rename2_dispatch, issue_queue, code_memory>>
      /\ stage' \in {"MAU", "stopped", "done"}
  BY DEF CommitStage, CommitHead, AfterCommit, frontVars
<1>2. ROB_size \in Int /\ D \in Int /\ Committed \in Int
      /\ Waiting(rename2_dispatch) \in Int /\ Waiting(issue_queue) \in Int
  BY DEF RoBInv, RoBContiguous, InLine, Committed, Waiting
<1>3. RoB' = RoBAtCommit /\ ROB_size' = ROB_size - Committed
  BY <1>2 DEF CommitStage, Committed
<1>4. HeadAt(D)' = HeadAt(D) + Committed
  BY <1>1, <1>2, <1>3 DEF HeadAt, Waiting
<1>5. ASSUME NEW k \in RoBSlots, k < ROB_size'
      PROVE  RoB'[k].instr.pc = FIRST_PC + 4 * (HeadAt(D)' + k)
  <2>1. k \in Int /\ k + Committed < ROB_size /\ k + Committed \in RoBSlots
    BY <1>2, <1>3, <1>5, SlotSets DEF RoBSlots, Committed, RoBInv, RoBContiguous
  <2>2. RoB'[k].instr = RoB[k + Committed].instr
    BY <1>3, <2>1, DeletedHeadMoves DEF OwnInv
  <2>3. RoB[k + Committed].instr.pc = FIRST_PC + 4 * (HeadAt(D) + (k + Committed))
    BY <2>1 DEF InLine
  <2>4. HeadAt(D) \in Int
    BY <1>2 DEF HeadAt
  <2> QED
    BY <1>2, <1>4, <2>1, <2>2, <2>3, <2>4
<1> QED
  BY <1>1, <1>4, <1>5 DEF InLine, Waiting

\* Issue moves the instruction of its latch behind those of the reorder buffer.
LEMMA LineAtIssue ==
  ASSUME RunInv, RunInv', IssueStage, NEW D, InLine(D)
  PROVE  InLine(D)' /\ HeadAt(D)' = HeadAt(D)
<1> USE DEF RunInv
<1>1. /\ UNCHANGED <<pc, decode_rename1, rename2_dispatch, code_memory>>
      /\ stage' = "dispatch" /\ ~issue_queue'.has_insn
  BY DEF IssueStage, TypeInv, FrontTypes, Latches
<1>2. ROB_size \in Int /\ D \in Int /\ Waiting(rename2_dispatch) \in Int
  BY DEF RoBInv, RoBContiguous, InLine, Waiting
<1>3. RoB \in RoBType
  BY DEF TypeInv, RoBTypes
<1>4. CASE issue_queue.has_insn
  <2>1. /\ ROB_size' = ROB_size + 1 /\ ROB_size \in RoBSlots
        /\ \E l : RoB' = EstablishRoB(RoB, ROB_size, issue_queue.instr, l)
    BY <1>4, NextRoBSlot DEF IssueStage
  <2>2. HeadAt(D)' = HeadAt(D)
    BY <1>1, <1>2, <1>4, <2>1 DEF HeadAt, Waiting
  <2>3. ASSUME NEW k \in RoBSlots, k < ROB_size'
        PROVE  RoB'[k].instr.pc = FIRST_PC + 4 * (HeadAt(D) + k)
    <3>1. k \in Int
      BY SlotSets
    <3>2. CASE k = ROB_size
      <4>1. RoB'[k].instr = issue_queue.instr
        BY <1>3, <2>1, <3>2 DEF EstablishRoB, RoBType, RoBEntries
      <4>2. issue_queue.instr.pc = FIRST_PC + 4 * (D - 1 - Waiting(rename2_dispatch))
        BY <1>4 DEF InLine
      <4>3. HeadAt(D) + k = D - 1 - Waiting(rename2_dispatch)
        BY <1>2, <1>4, <3>2 DEF HeadAt, Waiting
      <4> QED
        BY <4>1, <4>2, <4>3
    <3>3. CASE k # ROB_size
      <4>1. RoB'[k].instr = RoB[k].instr
        BY <1>3, <2>1, <3>3 DEF EstablishRoB, RoBType, RoBEntries
      <4>2. k < ROB_size
        BY <1>2, <2>1, <2>3, <3>1, <3>3
      <4> QED
        BY <4>1, <4>2 DEF InLine
    <3> QED
      BY <3>2, <3>3
  <2> QED
    BY <1>1, <2>2, <2>3 DEF InLine, Waiting
<1>5. CASE ~issue_queue.has_insn
  <2>1. UNCHANGED <<RoB, ROB_size>>
    BY <1>5 DEF IssueStage
  <2>2. Waiting(issue_queue)' = Waiting(issue_queue)
    BY <1>1, <1>5 DEF Waiting
  <2>3. HeadAt(D)' = HeadAt(D)
    BY <1>1, <2>1, <2>2 DEF HeadAt, Waiting
  <2> QED
    BY <1>1, <2>1, <2>3 DEF InLine, Waiting
<1> QED
  BY <1>4, <1>5

\* Dispatch moves the instruction on, unless it is a DIV.
LEMMA LineAtDispatch ==
  ASSUME RunInv, RunInv', DispatchStage, NEW D, InLine(D),
         rename2_dispatch.has_insn => rename2_dispatch.instr.opcode # "DIV"
  PROVE  InLine(D)' /\ HeadAt(D)' = HeadAt(D)
<1>1. /\ UNCHANGED <<pc, decode_rename1, RoB, ROB_size, code_memory>>
      /\ stage' = "decode"
  BY DispatchMoves DEF DispatchStage
<1>2. ~issue_queue.has_insn /\ ~rename2_dispatch'.has_insn
  BY DispatchMoves
<1>3. ROB_size \in Int /\ D \in Int
  BY DEF RunInv, RoBInv, RoBContiguous, InLine
<1>4. CASE rename2_dispatch.has_insn
  <2>1. issue_queue'.has_insn /\ issue_queue'.instr.pc = rename2_dispatch.instr.pc
    BY <1>4, DispatchMoves, SameParts DEF Carried
  <2>2. HeadAt(D)' = HeadAt(D)
    BY <1>1, <1>2, <1>3, <1>4, <2>1 DEF HeadAt, Waiting
  <2>3. issue_queue'.instr.pc = FIRST_PC + 4 * (D - 1 - 0)
    BY <1>3, <1>4, <2>1 DEF InLine
  <2> QED
    BY <1>1, <1>2, <2>1, <2>2, <2>3 DEF InLine, Waiting
<1>5. CASE ~rename2_dispatch.has_insn
  <2>1. ~issue_queue'.has_insn
    BY <1>5, DispatchMoves
  <2>2. HeadAt(D)' = HeadAt(D)
    BY <1>1, <1>2, <1>3, <1>5, <2>1 DEF HeadAt, Waiting
  <2> QED
    BY <1>1, <1>2, <2>1, <2>2 DEF InLine, Waiting
<1> QED
  BY <1>4, <1>5

\* Decode makes the line longer by the instruction it renames.
LEMMA LineAtDecode ==
  ASSUME RunInv, RunInv', DecodeStage, decode_rename1.has_insn, NEW D, InLine(D)
  PROVE  InLine(D + 1)' /\ HeadAt(D + 1)' = HeadAt(D)
<1>1. /\ UNCHANGED <<pc, issue_queue, RoB, ROB_size, code_memory>>
      /\ ~decode_rename1'.has_insn /\ ~rename2_dispatch.has_insn /\ rename2_dispatch'.has_insn
  BY DecodeMoves DEF DecodeStage
<1>2. rename2_dispatch'.instr.pc = FIRST_PC + 4 * D
  <2>1. rename2_dispatch'.instr.pc = decode_rename1.instr.pc
    BY DecodeMoves, ArrivesAt DEF RunInv
  <2> QED
    BY <2>1 DEF InLine, Fetched
<1>3. ROB_size \in Int /\ D \in Nat /\ Waiting(issue_queue) \in Int
  BY DEF RunInv, RoBInv, RoBContiguous, InLine, Waiting
<1>4. HeadAt(D + 1)' = HeadAt(D)
  BY <1>1, <1>3 DEF HeadAt, Waiting
<1>5. PICK E \in Nat : E = D + 1
  BY <1>3
<1>6. pc' = FIRST_PC + 4 * (E + 0)
  BY <1>1, <1>3, <1>5 DEF InLine, Waiting
<1>7. /\ rename2_dispatch'.instr.pc = FIRST_PC + 4 * (E - 1)
      /\ issue_queue'.has_insn => issue_queue'.instr.pc = FIRST_PC + 4 * (E - 1 - 1)
  BY <1>1, <1>2, <1>3, <1>5 DEF InLine, Waiting
<1>8. ASSUME NEW k \in RoBSlots, k < ROB_size'
      PROVE  RoB'[k].instr.pc = FIRST_PC + 4 * (HeadAt(E)' + k)
  BY <1>1, <1>4, <1>5, <1>8 DEF InLine
<1>9. InLine(E)'
  BY <1>1, <1>5, <1>6, <1>7, <1>8 DEF InLine, Waiting
<1> QED
  BY <1>4, <1>5, <1>9

\* Fetch puts the next instruction of the program behind the line.
LEMMA LineAtFetch ==
  ASSUME RunInv, RunInv', FetchStage, NEW D, InLine(D)
  PROVE  InLine(D)' /\ HeadAt(D)' = HeadAt(D)
<1> USE DEF RunInv, FlowInv
<1>0. TypeInv /\ QuietInv /\ FlowLatches /\ BudgetInv /\ QuietInv'
  OBVIOUS
<1>1. /\ UNCHANGED <<code_memory, RoB, ROB_size>> /\ stage' # "fetch"
      /\ UNCHANGED <<rename2_dispatch, issue_queue>>
  BY <1>0 DEF FetchStage, robVars, QuietInv, frontVars
<1>2. HeadAt(D)' = HeadAt(D)
  BY <1>1 DEF HeadAt, Waiting
<1>3. ~decode_rename1.has_insn /\ D \in Nat
  BY DEF InLine, FetchStage
<1>4. pc = FIRST_PC + 4 * D
  BY <1>3 DEF InLine, Waiting
<1>5. CASE UNCHANGED <<pc, decode_rename1>>
  BY <1>1, <1>2, <1>5 DEF InLine, Waiting
<1>6. CASE /\ InCode(pc) /\ pc' = pc + 4
           /\ decode_rename1'.has_insn
           /\ decode_rename1'.instr = Fetched(pc, code_memory[CodeIndex(pc) + 1], FALSE, FALSE)
           /\ CodeIndex(pc) + 1 \in DOMAIN code_memory
  <2>1. CodeIndex(pc) = D
    BY <1>3, <1>4 DEF CodeIndex, FIRST_PC
  <2>2. pc' = FIRST_PC + 4 * (D + 1)
    BY <1>3, <1>4, <1>6 DEF FIRST_PC
  <2> QED
    BY <1>1, <1>2, <1>3, <1>4, <1>6, <2>1, <2>2 DEF InLine, Waiting
<1> QED
  BY <1>0, <1>5, <1>6, FetchMoves

\* The stages of the units leave the line alone.
LEMMA LineElsewhere ==
  ASSUME RunInv, RunInv', [Next]_vars, ~CommitStage, ~IssueStage, ~DispatchStage,
         ~(DecodeStage /\ decode_rename1.has_insn), ~FetchStage, NEW D, InLine(D)
  PROVE  InLine(D)' /\ HeadAt(D)' = HeadAt(D) /\ delete_ROB_head' = delete_ROB_head
<1>1. UNCHANGED <<pc, decode_rename1, rename2_dispatch, issue_queue, code_memory>>
  BY FrontKept, CodeUnchanged DEF RunInv
<1>2. UNCHANGED <<RoB, ROB_size, delete_ROB_head>>
  BY DEF Next, vars, CommitBelowZero, MAUStage, MAUOutOfBounds, MulFUStage, BFUStage, AFUStage,
     IntFUStage, DecodeStage, DecodeOutOfBounds, FetchOutOfBounds, SquashTail, SquashEnds,
     BecomesUndefined, robVars, RunInv, QuietInv
<1>3. HeadAt(D)' = HeadAt(D)
  BY <1>1, <1>2 DEF HeadAt, Waiting
<1>4. stage' = "fetch" => (DecodeStage /\ ~decode_rename1.has_insn) \/ stage = "fetch"
  BY DEF Next, vars, CommitBelowZero, MAUStage, MAUOutOfBounds, MulFUStage, BFUStage, AFUStage,
     IntFUStage, DecodeStage, DecodeOutOfBounds, FetchOutOfBounds, SquashTail, SquashEnds,
     BecomesUndefined, RunInv, QuietInv
<1> QED
  BY <1>1, <1>2, <1>3, <1>4 DEF InLine, Waiting

\* The line before a step and after it.
LEMMA LineStep ==
  ASSUME RunInv, RunInv', [Next]_vars, NEW D, InLine(D),
         rename2_dispatch.has_insn => rename2_dispatch.instr.opcode # "DIV"
  PROVE  /\ IF DecodeStage /\ decode_rename1.has_insn
            THEN InLine(D + 1)' /\ HeadAt(D + 1)' = HeadAt(D)
            ELSE InLine(D)' /\ (~CommitStage => HeadAt(D)' = HeadAt(D))
         /\ CommitStage => HeadAt(D)' = HeadAt(D) + Committed
         /\ ~CommitStage => Committed' = Committed
<1>1. CASE CommitStage
  <2>1. ~DecodeStage
    BY <1>1 DEF CommitStage, DecodeStage
  <2> QED
    BY <1>1, <2>1, LineAtCommit
<1>2. ASSUME IssueStage \/ DispatchStage \/ DecodeStage \/ FetchStage
      PROVE  delete_ROB_head' = delete_ROB_head /\ ~CommitStage
  BY <1>2 DEF IssueStage, DispatchStage, DecodeStage, FetchStage, robVars, CommitStage
<1>3. CASE IssueStage \/ DispatchStage \/ FetchStage
  <2>1. ~DecodeStage
    BY <1>3 DEF IssueStage, DispatchStage, DecodeStage, FetchStage
  <2> QED
    BY <1>2, <1>3, <2>1, LineAtIssue, LineAtDispatch, LineAtFetch DEF Committed
<1>4. CASE DecodeStage /\ decode_rename1.has_insn
  BY <1>2, <1>4, LineAtDecode DEF Committed
<1>5. CASE ~CommitStage /\ ~IssueStage /\ ~DispatchStage
           /\ ~(DecodeStage /\ decode_rename1.has_insn) /\ ~FetchStage
  BY <1>5, LineElsewhere DEF Committed
<1> QED
  BY <1>1, <1>3, <1>4, <1>5

(***************************************************************************)
(* Decode extends the run by one instruction.                              *)
(***************************************************************************)
Extended(R, D) ==
  [n \in 0 .. D + 1 |->
     IF n <= D THEN R[n]
     ELSE IF code_memory[n].opcode \in DestinationOps
     THEN [R[n - 1] EXCEPT ![code_memory[n].rd] = ResultAt(R, n)] ELSE R[n - 1]]

\* The registers' meanings with the destination's of e, the flags' with those e sets.
WithResult(V, e, v) == IF e.opcode \in DestinationOps THEN [V EXCEPT ![e.phyrd] = v] ELSE V
WithFlags(F, e, v) == IF e.opcode \in FlagOps THEN [F EXCEPT ![e.flag] = FlagOf(v)] ELSE F

\* The instructions compute integers from integers.
LEMMA ResultIsInt ==
  ASSUME BitwiseIsInt, NEW op \in RegisterOps, NEW a \in Int, NEW b \in Int, NEW imm \in Int
  PROVE  Result(op, a, b, imm) \in Int
<1>1. a + b \in Int /\ a - b \in Int /\ a + imm \in Int /\ a - imm \in Int /\ a * b \in Int
  OBVIOUS
<1>2. op \in {"AND", "OR", "XOR"} => BitwiseResult(op, a, b) \in Int
  BY DEF BitwiseIsInt
<1> QED
  BY <1>1, <1>2 DEF Result

\* The run with one more instruction is a run of the program.
LEMMA RunExtended ==
  ASSUME BitwiseIsInt, InPrograms, RegisterPrograms, code_memory \in Seq(Insns),
         NEW R, NEW D, Runs(R, D), D + 1 \in DOMAIN code_memory
  PROVE  /\ Runs(Extended(R, D), D + 1)
         /\ \A n \in 0 .. D : Extended(R, D)[n] = R[n]
         /\ \A n \in 1 .. D + 1 : ResultAt(Extended(R, D), n) = ResultAt(R, n)
         /\ ResultAt(R, D + 1) \in Int
<1> DEFINE S == Extended(R, D)
           c == code_memory[D + 1]
<1>1. /\ D \in Nat /\ D + 1 \in Nat /\ D + 1 <= Len(code_memory) /\ D + 1 - 1 = D
      /\ D \in 0 .. D /\ D + 1 \in 1 .. D + 1
  BY DEF Runs
<1>2. \A n \in 0 .. D : n \in 0 .. D + 1 /\ n <= D /\ S[n] = R[n]
  BY <1>1 DEF Extended
<1>3. ASSUME NEW n \in 1 .. D + 1 PROVE n - 1 \in 0 .. D /\ ResultAt(S, n) = ResultAt(R, n)
  <2>1. n - 1 \in 0 .. D
    BY <1>1, <1>3
  <2> QED
    BY <1>2, <2>1 DEF ResultAt
<1>4. R[D] \in [ProgramRegisters -> Int]
  BY <1>1 DEF Runs
<1>5. c \in Insns
  <2>1. \A k \in DOMAIN code_memory : code_memory[k] \in Insns
    OBVIOUS
  <2> QED
    BY <2>1
<1>6. c.opcode \in RegisterOps
  BY DEF InPrograms, RegisterPrograms
<1>7. ResultAt(R, D + 1) \in Int
  <2>1. /\ c.rs1 \in ProgramRegisters /\ c.rs2 \in ProgramRegisters /\ c.imm \in Int
        /\ c.rd \in ProgramRegisters
    BY <1>5 DEF Insns
  <2>2. R[D][c.rs1] \in Int /\ R[D][c.rs2] \in Int
    BY <1>4, <2>1
  <2>3. Result(c.opcode, R[D][c.rs1], R[D][c.rs2], c.imm) \in Int
    BY <1>6, <2>1, <2>2, ResultIsInt
  <2> QED
    BY <1>1, <2>3 DEF ResultAt
<1>8. S[D + 1] = IF c.opcode \in DestinationOps
                 THEN [R[D] EXCEPT ![c.rd] = ResultAt(R, D + 1)] ELSE R[D]
  BY <1>1 DEF Extended
<1>9. S[D + 1] \in [ProgramRegisters -> Int]
  BY <1>4, <1>7, <1>8
<1>10. S \in [0 .. D + 1 -> [ProgramRegisters -> Int]]
  <2>1. ASSUME NEW n \in 0 .. D + 1 PROVE S[n] \in [ProgramRegisters -> Int]
    <3>1. n = D + 1 \/ n \in 0 .. D
      BY <1>1, <2>1
    <3>2. n \in 0 .. D => R[n] \in [ProgramRegisters -> Int]
      BY DEF Runs
    <3> QED
      BY <1>2, <1>9, <3>1, <3>2
  <2>2. S = [n \in 0 .. D + 1 |-> S[n]]
    BY DEF Extended
  <2> HIDE DEF S
  <2> QED
    BY <2>1, <2>2
<1>11. S[0] = [r \in ProgramRegisters |-> 0]
  BY <1>1, <1>2 DEF Runs
<1>12. ASSUME NEW n \in 1 .. D + 1
       PROVE  S[n] = IF code_memory[n].opcode \in DestinationOps
                     THEN [S[n - 1] EXCEPT ![code_memory[n].rd] = ResultAt(S, n)] ELSE S[n - 1]
  <2>1. ResultAt(S, n) = ResultAt(R, n) /\ S[n - 1] = R[n - 1]
    BY <1>2, <1>3, <1>12
  <2>2. CASE n = D + 1
    BY <1>1, <1>8, <2>1, <2>2
  <2>3. CASE n \in 1 .. D
    <3>1. S[n] = R[n]
      BY <1>1, <1>2, <2>3
    <3>2. R[n] = IF code_memory[n].opcode \in DestinationOps
                 THEN [R[n - 1] EXCEPT ![code_memory[n].rd] = ResultAt(R, n)] ELSE R[n - 1]
      BY <2>3 DEF Runs
    <3> HIDE DEF S
    <3> QED
      BY <2>1, <3>1, <3>2
  <2> QED
    BY <1>1, <1>12, <2>2, <2>3
<1> HIDE DEF S
<1>13. Runs(S, D + 1)
  BY <1>1, <1>10, <1>11, <1>12 DEF Runs
<1> QED
  BY <1>2, <1>3, <1>7, <1>13 DEF S

\* What is in use stands for the same when an unused register gets its meaning.
LEMMA ValuesExtended ==
  ASSUME TypeInv, RoBInv, NEW h \in Nat, NoneUsedFrom(h), NEW g \in Nat, NoFlagUsedFrom(g),
         NEW V, NEW F, NEW R, NEW D \in Nat, Values(V, F, R, D),
         NEW W, NEW G, NEW S, NEW E \in Nat, D <= E,
         \A p \in PhysicalRegs : p < h => W[p] = V[p],
         \A c \in CCRegs : c < g => G[c] = F[c],
         \A n \in 0 .. D : S[n] = R[n],
         \A n \in 1 .. D : ResultAt(S, n) = ResultAt(R, n)
  PROVE  Values(W, G, S, E)
<1>1. ASSUME NEW i \in Instrs, Placed(i)
      PROVE  /\ i.opcode \in Source1Ops => i.phyrs1 < h
             /\ i.opcode \in Source2Ops => i.phyrs2 < h
             /\ i.opcode \in DestinationOps => i.phyrd < h /\ i.phyrd \in PhysicalRegs
             /\ i.opcode \in FlagOps => i.flag < g /\ i.flag \in CCRegs
  <2>1. \A p \in UsedBy(i) : p < h
    BY <1>1 DEF NoneUsedFrom
  <2>2. i.opcode \in FlagOps => i.flag < g
    BY <1>1 DEF NoFlagUsedFrom
  <2> QED
    BY <2>1, <2>2, InstrFields DEF UsedBy, Given, SourcesOf
<1>2. ASSUME NEW i \in Instrs, Placed(i) PROVE \E n \in 1 .. E : Explained(W, G, S, i, n)
  <2>1. PICK n \in 1 .. D : Explained(V, F, R, i, n)
    BY <1>2 DEF Values
  <2>2. n \in 1 .. E /\ n \in 0 .. D /\ n - 1 \in 0 .. D
    BY <2>1
  <2>3. S[n] = R[n] /\ S[n - 1] = R[n - 1] /\ ResultAt(S, n) = ResultAt(R, n)
    BY <2>2
  <2>4. /\ i.opcode \in Source1Ops => i.phyrs1 \in PhysicalRegs /\ W[i.phyrs1] = V[i.phyrs1]
        /\ i.opcode \in Source2Ops => i.phyrs2 \in PhysicalRegs /\ W[i.phyrs2] = V[i.phyrs2]
        /\ i.opcode \in DestinationOps => W[i.phyrd] = V[i.phyrd]
        /\ i.opcode \in FlagOps => G[i.flag] = F[i.flag]
    BY <1>1, <1>2, <2>1 DEF Explained
  <2>5. Explained(W, G, S, i, n)
    BY <2>1, <2>3, <2>4 DEF Explained
  <2> QED
    BY <2>2, <2>5
<1>3. Agree(W, G)
  <2>1. \A b \in Buses : bus[b].tag # -1 => bus[b].tag \in PhysicalRegs
    BY DEF TypeInv, ForwardingTypes, BusType, Tags
  <2>2. \A b \in CCBuses : ccBus[b].tag # -1 => ccBus[b].tag \in CCRegs
    BY DEF TypeInv, ForwardingTypes, CCBusType
  <2> QED
    BY <2>1, <2>2 DEF Values, Agree, NoneUsedFrom, NoFlagUsedFrom
<1>4. ASSUME NEW unit \in {execute_IntFU, execute_MulFU} PROVE HasOperands(W, unit)
  <2> SUFFICES ASSUME unit.has_insn PROVE HasOperands(W, unit)
    BY DEF HasOperands
  <2>1. Placed(unit.instr) /\ unit.instr \in Instrs
    BY DEF Placed, TypeInv, UnitTypes, Latches
  <2>2. HasOperands(V, unit)
    BY DEF Values
  <2>3. PICK n \in 1 .. D : Explained(V, F, R, unit.instr, n)
    BY <2>1 DEF Values
  <2>4. /\ unit.instr.opcode \in Source1Ops => W[unit.instr.phyrs1] = V[unit.instr.phyrs1]
        /\ unit.instr.opcode \in Source2Ops => W[unit.instr.phyrs2] = V[unit.instr.phyrs2]
    BY <1>1, <2>1, <2>3 DEF Explained
  <2> QED
    BY <2>2, <2>4 DEF HasOperands
<1> QED
  BY <1>2, <1>3, <1>4 DEF Values

(***************************************************************************)
(* The rename table and the architectural registers.                       *)
(***************************************************************************)
\* The table leads to the value the last of the D renamed instructions left.
TableValues(V, R, D) ==
  \A r \in ProgramRegisters : WrittenBefore(code_memory, D + 1, r) =>
    renameTable[r] \in PhysicalRegs /\ V[renameTable[r]] = R[D][r]

\* The ARF is where the sequential machine is after C instructions.
ArchAt(R, D, C) ==
  /\ C \in 0 .. D
  /\ regs[LAST_PC] = IF C = 0 THEN 0 ELSE FIRST_PC + 4 * (C - 1)
  /\ \A r \in ProgramRegisters : regs[r] = R[C][r]

\* The state of the machine stands for a run of D renamed instructions.
Represents(D, V, F, R) ==
  /\ InLine(D) /\ Runs(R, D)
  /\ V \in [PhysicalRegs -> Int] /\ F \in [CCRegs -> Flags]
  /\ Values(V, F, R, D) /\ TableValues(V, R, D)
  /\ stage # "done" => ArchAt(R, D, HeadAt(D) + Committed)

\* There is such a run.
Represented == \E D, V, F, R : Represents(D, V, F, R)

\* The instruction that decode renames is the next one of the run.
LEMMA RenamedExplained ==
  ASSUME RunInv, RegisterPrograms, SourcesWritten, NEW D, InLine(D),
         decode_rename1.has_insn, NEW e \in Instrs, Enters(e), Arrives(e),
         NEW V, NEW F, NEW R, Runs(R, D), Agree(V, F), TableValues(V, R, D),
         NEW W, NEW G, NEW S, NEW h \in Nat, NoneUsedFrom(h),
         \A p \in PhysicalRegs : p < h => W[p] = V[p],
         S[D] = R[D],
         e.opcode \in DestinationOps => W[e.phyrd] = S[D + 1][e.rd],
         e.opcode \in FlagOps => G[e.flag] = FlagOf(ResultAt(S, D + 1))
  PROVE  IsNth(e, D + 1) /\ Explained(W, G, S, e, D + 1)
<1> DEFINE d == decode_rename1.instr
           l == LookedUp(d)
           j == PickUp(l, bus)
<1>1. /\ TypeInv /\ InPrograms /\ code_memory \in Seq(Insns) /\ d \in Instrs
      /\ bus \in BusType /\ renameTable \in TableType
  BY DEF RunInv, TypeInv, ProgramTypes, FrontTypes, StallLatches, ForwardingTypes, RenameTypes
<1>2. /\ D \in Nat /\ D + 1 \in DOMAIN code_memory
      /\ d = Fetched(FIRST_PC + 4 * D, code_memory[D + 1], FALSE, FALSE)
  BY DEF InLine
<1>19. D + 1 - 1 = D
  BY <1>2
<1>3. /\ e.pc = FIRST_PC + 4 * D
      /\ e.opcode = code_memory[D + 1].opcode /\ e.imm = code_memory[D + 1].imm
      /\ e.rd = code_memory[D + 1].rd /\ e.rs1 = code_memory[D + 1].rs1
      /\ e.rs2 = code_memory[D + 1].rs2
  <2>1. e.pc = d.pc /\ e.imm = d.imm
    BY <1>1, ArrivesAt
  <2>2. e.opcode = d.opcode /\ e.rd = d.rd /\ e.rs1 = d.rs1 /\ e.rs2 = d.rs2
    BY DEF Enters, Arrives
  <2>3. /\ d.pc = FIRST_PC + 4 * D
        /\ d.opcode = code_memory[D + 1].opcode /\ d.imm = code_memory[D + 1].imm
        /\ d.rd = code_memory[D + 1].rd /\ d.rs1 = code_memory[D + 1].rs1
        /\ d.rs2 = code_memory[D + 1].rs2
    BY <1>2 DEF Fetched
  <2> QED
    BY <2>1, <2>2, <2>3
<1>4. IsNth(e, D + 1)
  BY <1>2, <1>19, <1>3 DEF IsNth
<1>5. /\ e.phyrs1_valid = j.phyrs1_valid /\ e.phyrs1_value = j.phyrs1_value
      /\ e.phyrs2_valid = j.phyrs2_valid /\ e.phyrs2_value = j.phyrs2_value
  BY DEF Arrives, Rest
<1>6. l \in Instrs /\ l.opcode = d.opcode
  BY <1>1, LookedUpType
<1>7. ~l.phyrs1_valid /\ ~l.phyrs2_valid
  <2>1. ~d.phyrs1_valid /\ ~d.phyrs2_valid
    BY <1>2 DEF Fetched
  <2>2. l.phyrs1_valid = d.phyrs1_valid /\ l.phyrs2_valid = d.phyrs2_valid
    BY <1>1 DEF LookedUp, Instrs
  <2> QED
    BY <2>1, <2>2
<1>8. Carried(j, l)
  BY <1>1, <1>6, PickedUp
<1>9. /\ j.opcode = d.opcode /\ j.rs1 = d.rs1 /\ j.rs2 = d.rs2
      /\ j.opcode \in Source1Ops => j.phyrs1 = renameTable[j.rs1]
      /\ j.opcode \in Source2Ops => j.phyrs2 = renameTable[j.rs2]
  BY <1>1, LookedUpNames
<1>10. e.opcode = d.opcode /\ e.rs1 = d.rs1 /\ e.rs2 = d.rs2
  BY DEF Enters, Arrives
<1>11. /\ e.opcode \in Source1Ops => e.phyrs1 = renameTable[e.rs1] /\ j.phyrs1 = e.phyrs1
       /\ e.opcode \in Source2Ops => e.phyrs2 = renameTable[e.rs2] /\ j.phyrs2 = e.phyrs2
  BY <1>9, <1>10 DEF Enters
<1>12. /\ e.opcode \in Source1Ops /\ e.phyrs1_valid => Offered(e.phyrs1, e.phyrs1_value)
       /\ e.opcode \in Source2Ops /\ e.phyrs2_valid => Offered(e.phyrs2, e.phyrs2_value)
  <2> HIDE DEF j, l
  <2> QED
    BY <1>5, <1>7, <1>8, <1>9, <1>10, <1>11 DEF Carried, OperandsFrom
<1>13. /\ e.opcode \in Source1Ops => WrittenBefore(code_memory, D + 1, e.rs1)
       /\ e.opcode \in Source2Ops => WrittenBefore(code_memory, D + 1, e.rs2)
  BY <1>1, <1>2, <1>3 DEF InPrograms, SourcesWritten
<1>14. e.rs1 \in ProgramRegisters /\ e.rs2 \in ProgramRegisters
  BY InstrFields
<1>15. ASSUME NEW r \in ProgramRegisters, WrittenBefore(code_memory, D + 1, r)
       PROVE  /\ renameTable[r] \in PhysicalRegs /\ V[renameTable[r]] = R[D][r]
              /\ W[renameTable[r]] = R[D][r] /\ renameTable[r] # -1
  <2>1. renameTable[r] \in PhysicalRegs /\ V[renameTable[r]] = R[D][r]
    BY <1>15 DEF TableValues
  <2>2. renameTable[r] < h
    BY DEF NoneUsedFrom
  <2> QED
    BY <2>1, <2>2, RegisterIndices
<1>16. ASSUME NEW p \in PhysicalRegs, p # -1, NEW v, Offered(p, v) PROVE v = V[p]
  BY <1>16 DEF Offered, Agree, PRFValid
<1>17. e.opcode \in Source1Ops =>
         /\ e.phyrs1 \in PhysicalRegs /\ W[e.phyrs1] = S[D][e.rs1]
         /\ e.phyrs1_valid => e.phyrs1_value = W[e.phyrs1]
  BY <1>11, <1>12, <1>13, <1>14, <1>15, <1>16
<1>18. e.opcode \in Source2Ops =>
         /\ e.phyrs2 \in PhysicalRegs /\ W[e.phyrs2] = S[D][e.rs2]
         /\ e.phyrs2_valid => e.phyrs2_value = W[e.phyrs2]
  BY <1>11, <1>12, <1>13, <1>14, <1>15, <1>16
<1> QED
  <2>1. PICK n \in Nat : n = D + 1
    BY ONLY <1>2
  <2>2. n - 1 = D
    BY ONLY <1>2, <2>1
  <2>3. IsNth(e, n)
    BY <1>4, <2>1
  <2>4. /\ e.opcode \in DestinationOps => W[e.phyrd] = S[n][e.rd]
        /\ e.opcode \in FlagOps => G[e.flag] = FlagOf(ResultAt(S, n))
    BY <2>1
  <2>5. Explained(W, G, S, e, n)
    BY ONLY <1>17, <1>18, <2>2, <2>3, <2>4 DEF Explained
  <2> QED
    BY ONLY <1>4, <2>1, <2>5

\* A program's run does not change.
LEMMA RunStays ==
  ASSUME code_memory' = code_memory, NEW R, NEW D
  PROVE  /\ Runs(R, D)' <=> Runs(R, D)
         /\ \A k, r : WrittenBefore(code_memory, k, r)' <=> WrittenBefore(code_memory, k, r)
BY DEF Runs, ResultAt, Result, WrittenBefore

\* The instructions that only use registers name one of them as their destination.
LEMMA RegisterOpsFacts ==
  /\ RegisterOps \cap PointerOps = {} /\ RegisterOps \cap MemoryOps = {}
  /\ RegisterOps \cap StoreOps = {} /\ RegisterOps \cap BranchOps = {}
  /\ RegisterOps \cap JumpOps = {} /\ RegisterOps \cap LoadOps = {}
  /\ "DIV" \notin RegisterOps /\ "CMP" \notin RegisterOps /\ "JALR" \notin RegisterOps
<1> SUFFICES ASSUME NEW op \in RegisterOps
             PROVE  /\ op \notin PointerOps /\ op \notin MemoryOps /\ op \notin StoreOps
                    /\ op \notin BranchOps /\ op \notin JumpOps /\ op \notin LoadOps
                    /\ op # "DIV" /\ op # "CMP" /\ op # "JALR"
  OBVIOUS
<1>1. op \in {"ADD", "SUB", "AND", "OR", "XOR", "MUL", "ADDL", "SUBL", "MOVC", "CML", "NOP", "HALT"}
  BY DEF RegisterOps, Alu2Ops, AluLiteralOps
<1> QED
  BY <1>1 DEF PointerOps, MemoryOps, StoreOps, BranchOps, JumpOps, LoadOps,
                 ConditionalBranches

\* After decode the table leads to what the run has with the new instruction.
LEMMA TableAtDecode ==
  ASSUME TypeInv, code_memory' = code_memory, NEW D \in Nat, D + 1 \in DOMAIN code_memory,
         NEW e \in Instrs, Enters(e), IsNth(e, D + 1), e.opcode \in RegisterOps,
         NEW V, NEW W, NEW R, NEW S, NEW E, E = D + 1, NEW h \in Nat, NoneUsedFrom(h),
         TableValues(V, R, D),
         \A p \in PhysicalRegs : p < h => W[p] = V[p],
         e.opcode \in DestinationOps => e.phyrd \in PhysicalRegs /\ W[e.phyrd] = S[E][e.rd],
         \A r \in ProgramRegisters :
           e.opcode \notin DestinationOps \/ e.rd # r => S[E][r] = R[D][r]
  PROVE  TableValues(W, S, E)'
<1> SUFFICES ASSUME NEW r \in ProgramRegisters, WrittenBefore(code_memory, E + 1, r)
             PROVE  renameTable'[r] \in PhysicalRegs /\ W[renameTable'[r]] = S[E][r]
  BY DEF TableValues, WrittenBefore
<1>1. renameTable'[r] = IF Writes(e, r) THEN RegisterFor(e, r) ELSE renameTable[r]
  BY DEF Enters
<1>2. /\ Writes(e, r) <=> e.opcode \in DestinationOps /\ e.rd = r
      /\ Writes(e, r) => RegisterFor(e, r) = e.phyrd
  BY RegisterOpsFacts DEF Writes, RegisterFor, Advances
<1>3. CASE Writes(e, r)
  BY <1>1, <1>2, <1>3
<1>4. CASE ~Writes(e, r)
  <2>1. PICK j \in DOMAIN code_memory :
          j < E + 1 /\ code_memory[j].opcode \in DestinationOps /\ code_memory[j].rd = r
    BY DEF WrittenBefore
  <2>2. D + 1 - 1 = D /\ e.opcode = code_memory[D + 1].opcode /\ e.rd = code_memory[D + 1].rd
    BY DEF IsNth
  <2>3. j # D + 1
    BY <1>2, <1>4, <2>1, <2>2
  <2>4. j \in Int
    BY DEF TypeInv, ProgramTypes
  <2>5. j < D + 1
    BY <2>1, <2>3, <2>4
  <2>6. WrittenBefore(code_memory, D + 1, r)
    BY <2>1, <2>5 DEF WrittenBefore
  <2>7. renameTable[r] \in PhysicalRegs /\ V[renameTable[r]] = R[D][r] /\ renameTable[r] < h
    BY <2>6 DEF TableValues, NoneUsedFrom
  <2>8. S[E][r] = R[D][r]
    BY <1>2, <1>4
  <2> QED
    BY <1>1, <1>4, <2>7, <2>8
<1> QED
  BY <1>3, <1>4

\* Decode renames the next instruction of the run.
LEMMA RepresentedAtDecode ==
  ASSUME BitwiseIsInt, MachineInv, MachineInv', FreshRegs, FreshFlags, Fits, TimesFit, FlagsFit,
         RegisterPrograms, SourcesWritten, [Next]_vars, DecodeStage, decode_rename1.has_insn,
         NEW D, NEW V, NEW F, NEW R, Represents(D, V, F, R)
  PROVE  Represented'
<1>1. /\ RunInv /\ RunInv' /\ TypeInv /\ RoBInv /\ InPrograms /\ code_memory \in Seq(Insns)
      /\ code_memory' = code_memory
  BY CodeUnchanged DEF MachineInv, RunInv, TypeInv, ProgramTypes
<1>2. PICK e \in Instrs : Enters(e) /\ Arrives(e) /\ e = decode_rename1'.instr
  BY <1>1, DecodeMoves
<1>3. /\ InLine(D) /\ Runs(R, D) /\ Values(V, F, R, D) /\ TableValues(V, R, D) /\ Agree(V, F)
      /\ V \in [PhysicalRegs -> Int] /\ F \in [CCRegs -> Flags]
  BY DEF Represents, Values
<1>4. D \in Nat /\ D + 1 \in DOMAIN code_memory /\ D \in 0 .. D
  BY <1>3 DEF InLine
<1>5. PICK h \in 0 .. PHYSICAL_REG_FILE_SIZE : FreshFrom(h)
  BY DEF FreshRegs
<1>6. PICK g \in 0 .. CC_REG_FILE_SIZE : FreshFlagsFrom(g)
  BY DEF FreshFlags
<1>7. /\ h \in Nat /\ g \in Nat /\ NoneUsedFrom(h) /\ NoFlagUsedFrom(g)
  BY <1>5, <1>6, SizesAssumption DEF FreshFrom, FreshFlagsFrom
<1>8. PICK E \in Nat : E = D + 1
  BY <1>4
<1>9. PICK S : S = Extended(R, D)
  OBVIOUS
<1>10. PICK v \in Int : v = ResultAt(R, D + 1)
  BY <1>1, <1>3, <1>4, RunExtended
<1>11. PICK W : W = WithResult(V, e, v)
  OBVIOUS
<1>12. PICK G : G = WithFlags(F, e, v)
  OBVIOUS
<1>13. /\ Runs(S, E) /\ \A n \in 0 .. D : S[n] = R[n]
       /\ \A n \in 1 .. E : ResultAt(S, n) = ResultAt(R, n)
  BY <1>1, <1>3, <1>4, <1>8, <1>9, RunExtended
<1>14. /\ e.opcode \in DestinationOps => e.phyrd \in PhysicalRegs /\ h <= e.phyrd
       /\ e.opcode \in FlagOps => e.flag \in CCRegs /\ g <= e.flag
  <2>1. \A p \in Given(e) : h <= p
    BY <1>1, <1>2, <1>5, HandedOut
  <2>2. e.opcode \in FlagOps => g <= e.flag
    BY <1>1, <1>2, <1>6, FlagHandedOut
  <2> QED
    BY <1>2, <2>1, <2>2, InstrFields DEF Given
<1>15. /\ W \in [PhysicalRegs -> Int] /\ \A p \in PhysicalRegs : p < h => W[p] = V[p]
       /\ e.opcode \in DestinationOps => W[e.phyrd] = v
  BY <1>3, <1>7, <1>11, <1>14, SizesAssumption DEF WithResult, PhysicalRegs
<1>16. FlagOf(v) \in Flags
  BY DEF FlagOf, Flags
<1>17. /\ G \in [CCRegs -> Flags] /\ \A c \in CCRegs : c < g => G[c] = F[c]
       /\ e.opcode \in FlagOps => G[e.flag] = FlagOf(v)
  BY <1>3, <1>7, <1>12, <1>14, <1>16, SizesAssumption DEF WithFlags, CCRegs
<1>18. D \in 0 .. E /\ E - 1 = D /\ E \in 1 .. E /\ D <= E /\ \A n \in 1 .. D : n \in 1 .. E
  BY <1>4, <1>8
<1>19. Values(W, G, S, E)
  BY <1>1, <1>3, <1>4, <1>7, <1>13, <1>15, <1>17, <1>18, ValuesExtended
<1>20. /\ e.opcode = code_memory[E].opcode /\ e.rd = code_memory[E].rd
  <2>1. decode_rename1.instr = Fetched(FIRST_PC + 4 * D, code_memory[D + 1], FALSE, FALSE)
    BY <1>3 DEF InLine
  <2>2. decode_rename1.instr.opcode = code_memory[D + 1].opcode
        /\ decode_rename1.instr.rd = code_memory[D + 1].rd
    BY <2>1 DEF Fetched
  <2> QED
    BY <1>2, <1>8, <2>2 DEF Enters, Arrives
<1>21. S[D] = R[D] /\ R[D] \in [ProgramRegisters -> Int] /\ ResultAt(S, E) = v
  BY <1>3, <1>4, <1>8, <1>10, <1>13, <1>18 DEF Runs
<1>22. S[E] = IF e.opcode \in DestinationOps
              THEN [R[D] EXCEPT ![e.rd] = ResultAt(S, E)] ELSE R[D]
  BY <1>13, <1>18, <1>20, <1>21 DEF Runs
<1>23. e.rd \in ProgramRegisters
  BY <1>2, InstrFields
<1>24. e.opcode \in DestinationOps => W[e.phyrd] = S[E][e.rd]
  BY <1>15, <1>21, <1>22, <1>23
<1>25. IsNth(e, E) /\ Explained(W, G, S, e, E)
  <2>1. /\ e.opcode \in DestinationOps => W[e.phyrd] = S[D + 1][e.rd]
        /\ e.opcode \in FlagOps => G[e.flag] = FlagOf(ResultAt(S, D + 1))
    BY <1>8, <1>17, <1>21, <1>24
  <2>2. IsNth(e, D + 1) /\ Explained(W, G, S, e, D + 1)
    BY <1>1, <1>2, <1>3, <1>7, <1>15, <1>21, <2>1, RenamedExplained, SMTT(60)
  <2> QED
    BY <1>8, <2>2
<1>26. Values(W, G, S, E)'
  <2>1. \E n \in 1 .. E : Explained(W, G, S, decode_rename1'.instr, n)
    BY <1>2, <1>18, <1>25
  <2> QED
    BY <1>13, <1>19, <2>1, ValuesStep
<1>27. TableValues(W, S, E)'
  <2>1. e.opcode \in RegisterOps
    BY <1>1, <1>4, <1>8, <1>20 DEF InPrograms, RegisterPrograms
  <2>2. IsNth(e, D + 1)
    BY <1>8, <1>25
  <2>3. /\ TypeInv /\ code_memory' = code_memory /\ D \in Nat /\ D + 1 \in DOMAIN code_memory
        /\ e \in Instrs /\ Enters(e) /\ IsNth(e, D + 1) /\ e.opcode \in RegisterOps
        /\ E = D + 1 /\ h \in Nat /\ NoneUsedFrom(h) /\ TableValues(V, R, D)
    BY <1>1, <1>2, <1>3, <1>4, <1>7, <1>8, <2>1, <2>2
  <2>4. /\ \A p \in PhysicalRegs : p < h => W[p] = V[p]
        /\ e.opcode \in DestinationOps => e.phyrd \in PhysicalRegs /\ W[e.phyrd] = S[E][e.rd]
    BY <1>14, <1>15, <1>24
  <2>5. \A r \in ProgramRegisters :
          e.opcode \notin DestinationOps \/ e.rd # r => S[E][r] = R[D][r]
    BY <1>21, <1>22, <1>23
  <2> QED
    BY ONLY <2>3, <2>4, <2>5, TableAtDecode
<1>28. ~rename2_dispatch.has_insn
  BY <1>1, DecodeMoves
<1>29. InLine(E)' /\ HeadAt(E)' = HeadAt(D) /\ Committed' = Committed
  <2>1. InLine(D + 1)' /\ HeadAt(D + 1)' = HeadAt(D)
    BY <1>1, <1>3, <1>28, LineStep
  <2>2. ~CommitStage
    BY DEF CommitStage, DecodeStage
  <2> QED
    BY <1>1, <1>3, <1>8, <1>28, <2>1, <2>2, LineStep
<1>30. stage' # "done" => ArchAt(S, E, HeadAt(E) + Committed)'
  <2>1. regs' = regs /\ stage = "decode"
    BY DEF DecodeStage, archVars
  <2>2. PICK C : C = HeadAt(D) + Committed
    OBVIOUS
  <2>3. ArchAt(R, D, C)
    BY <2>1, <2>2 DEF Represents
  <2>4. C \in 0 .. D /\ C \in 0 .. E /\ S[C] = R[C]
    BY <1>13, <1>18, <2>3 DEF ArchAt
  <2>5. ArchAt(S, E, C)'
    BY <2>1, <2>3, <2>4 DEF ArchAt
  <2>6. C = (HeadAt(E) + Committed)'
    BY <1>29, <2>2
  <2> QED
    BY <2>5, <2>6
<1>31. Runs(S, E)'
  BY <1>1, <1>13, RunStays
<1>32. Represents(E, W, G, S)'
  BY <1>15, <1>17, <1>26, <1>27, <1>29, <1>30, <1>31 DEF Represents
<1> QED
  BY <1>32 DEF Represented

(***************************************************************************)
(* The sequential machine goes through the same run.                       *)
(***************************************************************************)
\* The instance speaks of the same opcodes and registers.
LEMMA IsaVocabulary ==
  /\ ISA!DestinationOps = DestinationOps /\ ISA!FlagOps = FlagOps /\ ISA!LoadOps = LoadOps
  /\ ISA!StoreOps = StoreOps /\ ISA!JumpOps = JumpOps /\ ISA!Source2Ops = Source2Ops
  /\ ISA!FIRST_PC = FIRST_PC /\ ISA!LAST_PC = LAST_PC /\ ISA!Registers = Registers
<1>1. /\ ISA!Alu2Ops = Alu2Ops /\ ISA!AluLiteralOps = AluLiteralOps
      /\ ISA!LoadOps = LoadOps /\ ISA!StoreOps = StoreOps /\ ISA!JumpOps = JumpOps
  BY DEF ISA!Alu2Ops, Alu2Ops, ISA!AluLiteralOps, AluLiteralOps, ISA!LoadOps, LoadOps,
         ISA!StoreOps, StoreOps, ISA!JumpOps, JumpOps
<1>2. ISA!FIRST_PC = FIRST_PC /\ ISA!LAST_PC = LAST_PC /\ ISA!Registers = Registers
  BY DEF ISA!FIRST_PC, FIRST_PC, ISA!LAST_PC, LAST_PC, ISA!Registers, Registers
<1> QED
  BY <1>1, <1>2 DEF ISA!DestinationOps, DestinationOps, ISA!FlagOps, FlagOps, ISA!Source2Ops,
                    Source2Ops

\* Without branches the next instruction is the one behind the last committed one.
LEMMA NextOfRun ==
  ASSUME InPrograms, RegisterPrograms, code_memory \in Seq(Insns), NEW R, NEW D, NEW C \in Nat,
         ArchAt(R, D, C), C + 1 \in DOMAIN code_memory
  PROVE  /\ ISA!NextPc = FIRST_PC + 4 * C
         /\ ISA!InstructionAt(FIRST_PC + 4 * C) = code_memory[C + 1]
<1>1. /\ ISA!FIRST_PC = FIRST_PC /\ ISA!LAST_PC = LAST_PC /\ ISA!JumpOps = JumpOps
      /\ FIRST_PC = 4000
  BY IsaVocabulary DEF FIRST_PC
<1>2. ASSUME NEW n \in Nat PROVE ISA!InstructionAt(FIRST_PC + 4 * n) = code_memory[n + 1]
  <2>1. (FIRST_PC + 4 * n - FIRST_PC) \div 4 + 1 = n + 1
    BY <1>1
  <2> QED
    BY <1>1, <2>1 DEF ISA!InstructionAt
<1>3. C = 0 => ISA!NextPc = FIRST_PC + 4 * C
  <2> SUFFICES ASSUME C = 0 PROVE ISA!NextPc = FIRST_PC
    BY <1>1
  <2>1. regs[LAST_PC] = 0
    BY DEF ArchAt
  <2> QED
    BY <1>1, <2>1 DEF ISA!NextPc
<1>4. C # 0 => ISA!NextPc = FIRST_PC + 4 * C
  <2> SUFFICES ASSUME C # 0 PROVE ISA!NextPc = FIRST_PC + 4 * C
    OBVIOUS
  <2>1. PICK n \in Nat : C = n + 1
    <3>1. C - 1 \in Nat /\ C = C - 1 + 1
      OBVIOUS
    <3> QED
      BY <3>1
  <2>2. PICK last : last = FIRST_PC + 4 * n
    OBVIOUS
  <2>3. regs[LAST_PC] = last /\ last # 0 /\ last + 4 = FIRST_PC + 4 * C
    BY <1>1, <2>1, <2>2 DEF ArchAt
  <2>4. ISA!InstructionAt(last) = code_memory[C]
    BY <1>2, <2>1, <2>2
  <2>5. code_memory[C].opcode \in RegisterOps
    <3>1. C \in DOMAIN code_memory
      BY <2>1
    <3> QED
      BY <3>1 DEF InPrograms, RegisterPrograms
  <2>6. code_memory[C].opcode \notin ISA!JumpOps
    BY <1>1, <2>5, RegisterOpsFacts
  <2>7. ~ISA!BranchTaken(code_memory[C].opcode)
    BY <2>5 DEF ISA!BranchTaken, RegisterOps, Alu2Ops, AluLiteralOps
  <2> QED
    BY <1>1, <2>3, <2>4, <2>6, <2>7 DEF ISA!NextPc
<1> QED
  BY <1>2, <1>3, <1>4

\* The registers once instruction c at pc at has written this value.
RegsWith(c, value, at) ==
  [(IF c.opcode \in DestinationOps THEN [regs EXCEPT ![c.rd] = value] ELSE regs)
     EXCEPT ![LAST_PC] = at]

\* What the sequential machine computes is what the run says.
LEMMA IsaResults ==
  ASSUME InPrograms, RegisterPrograms, code_memory \in Seq(Insns), NEW R, NEW D, NEW C \in Nat,
         ArchAt(R, D, C), C + 1 \in DOMAIN code_memory, NEW c, c = code_memory[C + 1], NEW at
  PROVE  /\ c.opcode \in FlagOps => ISA!AluResult(c) = ResultAt(R, C + 1)
         /\ ISA!RegsAfter(c, at) = RegsWith(c, ResultAt(R, C + 1), at)
<1>1. c.opcode \in RegisterOps /\ c \in Insns
  BY DEF InPrograms, RegisterPrograms
<1>2. c.rs1 \in ProgramRegisters /\ c.rs2 \in ProgramRegisters
  BY <1>1 DEF Insns
<1>3. regs[c.rs1] = R[C][c.rs1] /\ regs[c.rs2] = R[C][c.rs2] /\ C + 1 - 1 = C
  BY <1>2 DEF ArchAt
<1>4. ResultAt(R, C + 1) = Result(c.opcode, regs[c.rs1], regs[c.rs2], c.imm)
  BY <1>3 DEF ResultAt
<1>5. c.opcode \in Alu2Ops => ISA!AluResult(c) = ResultAt(R, C + 1)
  <2> SUFFICES ASSUME c.opcode \in Alu2Ops PROVE ISA!AluResult(c) = ResultAt(R, C + 1)
    OBVIOUS
  <2>1. c.opcode \in ISA!Source2Ops
    BY IsaVocabulary DEF Source2Ops
  <2> QED
    BY <1>4, <2>1 DEF ISA!AluResult, Result, Alu2Ops
<1>6. c.opcode \in AluLiteralOps \cup {"CML"} => ISA!AluResult(c) = ResultAt(R, C + 1)
  <2> SUFFICES ASSUME c.opcode \in AluLiteralOps \cup {"CML"}
               PROVE  ISA!AluResult(c) = ResultAt(R, C + 1)
    OBVIOUS
  <2>1. c.opcode \notin ISA!Source2Ops
    BY IsaVocabulary DEF Source2Ops, AluLiteralOps, Alu2Ops, StoreOps
  <2> QED
    BY <1>4, <2>1 DEF ISA!AluResult, Result, AluLiteralOps
<1>7. c.opcode \in FlagOps => ISA!AluResult(c) = ResultAt(R, C + 1)
  BY <1>1, <1>5, <1>6, RegisterOpsFacts DEF FlagOps
<1>8. c.opcode = "MOVC" => ResultAt(R, C + 1) = c.imm
  BY <1>4 DEF Result
<1>9. c.opcode \in DestinationOps => c.opcode = "MOVC" \/ c.opcode \in FlagOps
  BY <1>1, RegisterOpsFacts DEF DestinationOps, FlagOps
<1>10. /\ c.opcode \notin ISA!LoadOps /\ c.opcode # "JALR" /\ c.opcode # "LOADP"
       /\ c.opcode # "STOREP" /\ (c.opcode = "MOVC" => c.opcode \notin FlagOps)
  BY <1>1, IsaVocabulary DEF RegisterOps, LoadOps, FlagOps, Alu2Ops, AluLiteralOps
<1> QED
  BY <1>7, <1>8, <1>9, <1>10, IsaVocabulary DEF ISA!RegsAfter, RegsWith

(***************************************************************************)
(* The head of the reorder buffer.                                         *)
(***************************************************************************)
\* The established head is the first instruction of the run that has not committed.
LEMMA HeadIsNext ==
  ASSUME RunInv, RegisterPrograms, stage = "commit", RoBAtCommit[0].established_bit,
         NEW D, NEW V, NEW F, NEW R, Represents(D, V, F, R),
         NEW C, C = HeadAt(D) + Committed, NEW i, i = RoBAtCommit[0].instr
  PROVE  /\ C \in Nat /\ C + 1 \in 1 .. D /\ C + 1 \in DOMAIN code_memory
         /\ i.pc = FIRST_PC + 4 * C /\ i \in Instrs /\ i.opcode \in RegisterOps
         /\ Explained(V, F, R, i, C + 1) /\ ArchAt(R, D, C)
<1>1. /\ TypeInv /\ RoBInv /\ LatchInv /\ InPrograms /\ code_memory \in Seq(Insns)
      /\ InLine(D) /\ Runs(R, D) /\ Values(V, F, R, D) /\ ArchAt(R, D, C)
  BY DEF RunInv, OwnInv, TypeInv, ProgramTypes, Represents
<1>2. Committed \in RoBSlots /\ Committed < ROB_size
  <2>1. CASE delete_ROB_head
    <3>1. ROB_size > 0
      BY <2>1, ROBNotEmpty, <1>1 DEF LatchInv
    <3>2. \A k \in RoBSlots : RoBAtCommit[k].established_bit <=> k < ROB_size - 1
      BY <1>1, <2>1, <3>1, DeletedHead DEF RoBInv, RoBAtCommit
    <3>3. ROB_size \in 0 .. ROB_SIZE /\ ROB_SIZE \in Nat \ {0} /\ 0 \in RoBSlots
      BY <1>1, SizesAssumption DEF RoBInv, RoBContiguous, RoBSlots
    <3> QED
      BY <2>1, <3>2, <3>3 DEF Committed, RoBSlots
  <2>2. CASE ~delete_ROB_head
    <3>1. 0 \in RoBSlots
      BY SizesAssumption DEF RoBSlots
    <3> QED
      BY <1>1, <2>2, <3>1 DEF Committed, RoBAtCommit, RoBInv, RoBContiguous
  <2> QED
    BY <2>1, <2>2
<1>3. i = RoB[Committed].instr
  <2>1. 0 \in RoBSlots /\ 0 + Committed = Committed
    BY SizesAssumption DEF RoBSlots, Committed
  <2> QED
    BY <1>1, <1>2, <2>1, DeletedHeadMoves
<1>4. Placed(i) /\ i \in Instrs
  BY <1>1, <1>2, <1>3, PlacedType DEF Placed
<1>5. i.pc = FIRST_PC + 4 * C
  BY <1>1, <1>2, <1>3 DEF InLine
<1>6. PICK n \in 1 .. D : Explained(V, F, R, i, n)
  BY <1>1, <1>4 DEF Values
<1>7. C \in 0 .. D /\ D \in Nat /\ D <= Len(code_memory)
  BY <1>1 DEF ArchAt, Runs
<1>8. n = C + 1
  <2>1. i.pc = FIRST_PC + 4 * (n - 1)
    BY <1>6 DEF Explained, IsNth
  <2> QED
    BY <1>5, <1>7, <2>1 DEF FIRST_PC
<1>9. i.opcode \in RegisterOps
  BY <1>1, <1>4, PlacedOps
<1>10. C + 1 \in DOMAIN code_memory
  BY <1>1, <1>6, <1>7, <1>8
<1> QED
  BY <1>1, <1>4, <1>5, <1>6, <1>7, <1>8, <1>9, <1>10

\* What it may commit is what it computes in the run.
LEMMA CommitsResult ==
  ASSUME NEW V, NEW F, NEW R, NEW n, NEW i \in Instrs, Explained(V, F, R, i, n), Agree(V, F),
         i.opcode \in RegisterOps, NEW m, CanCommit(i, m)
  PROVE  /\ CommittedRegs(i) = RegsWith(i, R[n][i.rd], i.pc)
         /\ CommittedFlags(i) = IF i.opcode \in FlagOps THEN FlagOf(ResultAt(R, n)) ELSE flags
<1>1. i.phyrd \in PhysicalRegs /\ i.opcode \in DestinationOps => V[i.phyrd] = R[n][i.rd]
  BY InstrFields DEF Explained
<1>2. i.opcode \in DestinationOps =>
        i.phyrd \in PhysicalRegs /\ physicalRegFile[i.phyrd].valid
  <2> SUFFICES ASSUME i.opcode \in DestinationOps
               PROVE  i.phyrd \in PhysicalRegs /\ physicalRegFile[i.phyrd].valid
    OBVIOUS
  <2>1. i.opcode \in Alu2Ops \cup AluLiteralOps \cup {"MOVC"}
    BY DEF RegisterOps, DestinationOps, Alu2Ops, AluLiteralOps, LoadOps
  <2>2. PRFValid(physicalRegFile, i.phyrd)
    BY <2>1 DEF CanCommit, Alu2Ops, AluLiteralOps
  <2> QED
    BY <2>2, InstrFields DEF PRFValid
<1>3. i.opcode \in FlagOps => i.flag \in CCRegs /\ ccRegFile[i.flag].valid
  <2> SUFFICES ASSUME i.opcode \in FlagOps PROVE i.flag \in CCRegs /\ ccRegFile[i.flag].valid
    OBVIOUS
  <2>1. i.opcode \in Alu2Ops \cup AluLiteralOps \cup {"CML"}
    BY RegisterOpsFacts DEF FlagOps
  <2> QED
    BY <2>1, InstrFields DEF CanCommit, Alu2Ops, AluLiteralOps
<1>4. i.opcode \in DestinationOps => physicalRegFile[i.phyrd].data = R[n][i.rd]
  BY <1>2 DEF Agree, Explained
<1>5. i.opcode \in FlagOps => ccRegFile[i.flag].flag = FlagOf(ResultAt(R, n))
  BY <1>3 DEF Agree, Explained
<1>6. i.opcode \notin PointerOps /\ i.opcode # "CMP"
  BY RegisterOpsFacts
<1> QED
  BY <1>4, <1>5, <1>6 DEF CommittedRegs, CommittedFlags, RegsWith

\* No store is on its way to the memory, and the MAU has nothing to do.
LEMMA MemoryIsCommitted ==
  ASSUME MachineInv, RegisterPrograms, NEW D, NEW V, NEW F, NEW R, Represents(D, V, F, R)
  PROVE  CommittedMemory = data_memory /\ (MAUStage => ~MAUBusy)
<1>1. /\ RunInv /\ MAUInv /\ TypeInv /\ RoBInv /\ InPrograms /\ code_memory \in Seq(Insns)
      /\ HeadsDeleted /\ Runs(R, D) /\ Values(V, F, R, D)
  BY DEF MachineInv, RunInv, TypeInv, ProgramTypes, LSQInv, Represents
<1>2. MAUStage => ~MAUBusy
  <2>1. \A k \in LSQSlots : ~lsq[k].established_bit
    BY <1>1, NoMemoryOps
  <2> QED
    BY <2>1, MAUBusyEstablished, SlotSets
<1>3. ~StoreBeingWritten
  <2> SUFFICES ASSUME stage = "MAU", delete_LSQ_head PROVE FALSE
    BY DEF StoreBeingWritten
  <2>1. delete_ROB_head /\ ROB_size > 0 /\ RoB[0].instr.opcode \in MemoryOps
    BY <1>1 DEF HeadsDeleted, MAUInv
  <2>2. 0 \in RoBSlots /\ 0 < ROB_size
    BY <1>1, <2>1, SizesAssumption DEF RoBSlots, RoBInv, RoBContiguous
  <2>3. Placed(RoB[0].instr) /\ RoB[0].instr \in Instrs
    BY <1>1, <2>2, PlacedType DEF Placed
  <2> QED
    BY <1>1, <2>1, <2>3, PlacedOps, RegisterOpsFacts
<1> QED
  BY <1>2, <1>3 DEF CommittedMemory

\* What a commit does to the registers is the sequential machine's next instruction.
LEMMA ExecutesNext ==
  ASSUME MachineInv, RegisterPrograms, NEW D, NEW V, NEW F, NEW R, Represents(D, V, F, R),
         CommitStage, RoBAtCommit[0].established_bit,
         NEW C, C = HeadAt(D) + Committed, NEW i, i = RoBAtCommit[0].instr, NEW m,
         CanCommit(i, m), regs' = CommittedRegs(i), flags' = CommittedFlags(i),
         stage' = "done" <=> i.opcode = "HALT",
         CommittedMemory' = data_memory, code_memory' = code_memory
  PROVE  ISA!ISANext /\ C + 1 \in 0 .. D /\ ArchAt(R, D, C + 1)'
<1>0. PICK c, at : c = code_memory[C + 1] /\ at = FIRST_PC + 4 * C
  OBVIOUS
<1>1. /\ RunInv /\ TypeInv /\ InPrograms /\ code_memory \in Seq(Insns) /\ stage = "commit"
      /\ Runs(R, D) /\ Agree(V, F) /\ regs \in [Registers -> Int]
  BY DEF MachineInv, RunInv, TypeInv, ProgramTypes, Represents, Values, CommitStage, ArchTypes,
         RegsType
<1>2. /\ C \in Nat /\ C + 1 \in 1 .. D /\ C + 1 \in DOMAIN code_memory /\ C + 1 - 1 = C
      /\ i.pc = at /\ i \in Instrs /\ i.opcode \in RegisterOps
      /\ Explained(V, F, R, i, C + 1) /\ ArchAt(R, D, C)
  BY <1>0, <1>1, HeadIsNext
<1>3. i.opcode = c.opcode /\ i.rd = c.rd
  BY <1>0, <1>2 DEF Explained, IsNth
<1>4. i.rd \in ProgramRegisters
  BY <1>2, InstrFields
<1>5. /\ R[C] \in [ProgramRegisters -> Int]
      /\ R[C + 1] = IF c.opcode \in DestinationOps
                    THEN [R[C] EXCEPT ![c.rd] = ResultAt(R, C + 1)] ELSE R[C]
  <2>1. C \in 0 .. D
    BY <1>2 DEF ArchAt
  <2>2. R \in [0 .. D -> [ProgramRegisters -> Int]]
    BY <1>1 DEF Runs
  <2>3. PICK n \in 1 .. D : n = C + 1
    BY <1>2
  <2>4. R[n] = IF code_memory[n].opcode \in DestinationOps
               THEN [R[n - 1] EXCEPT ![code_memory[n].rd] = ResultAt(R, n)] ELSE R[n - 1]
    BY <1>1 DEF Runs
  <2>5. n - 1 = C /\ c = code_memory[n]
    BY <1>0, <1>2, <2>3
  <2> QED
    BY <2>1, <2>2, <2>3, <2>4, <2>5
<1>6. /\ regs' = RegsWith(c, ResultAt(R, C + 1), at)
      /\ flags' = IF c.opcode \in FlagOps THEN FlagOf(ResultAt(R, C + 1)) ELSE flags
  <2>1. i.opcode \in DestinationOps => R[C + 1][i.rd] = ResultAt(R, C + 1)
    BY <1>3, <1>4, <1>5
  <2>2. /\ regs' = RegsWith(i, R[C + 1][i.rd], i.pc)
        /\ flags' = IF i.opcode \in FlagOps THEN FlagOf(ResultAt(R, C + 1)) ELSE flags
    BY <1>1, <1>2, CommitsResult
  <2>3. RegsWith(i, R[C + 1][i.rd], i.pc) = RegsWith(c, ResultAt(R, C + 1), at)
    BY <1>2, <1>3, <2>1 DEF RegsWith
  <2> QED
    BY <1>3, <2>2, <2>3
<1>7. ISA!NextPc = at /\ ISA!InstructionAt(at) = c
  BY <1>0, <1>1, <1>2, NextOfRun
<1>8. /\ c.opcode \in FlagOps => ISA!AluResult(c) = ResultAt(R, C + 1)
      /\ ISA!RegsAfter(c, at) = regs'
  BY <1>0, <1>1, <1>2, <1>6, IsaResults
<1>9. c.opcode \notin StoreOps
  BY <1>2, <1>3, RegisterOpsFacts
<1>10. CommittedMemory' = CommittedMemory
  BY MemoryIsCommitted
<1>11. ISA!FlagOps = FlagOps /\ ISA!StoreOps = StoreOps
  BY IsaVocabulary
<1>12. ISA!Execute(at)
  <2>1. flags' = IF c.opcode \in ISA!FlagOps THEN ISA!FlagsOf(ISA!AluResult(c)) ELSE flags
    BY <1>6, <1>8, <1>11 DEF ISA!FlagsOf, FlagOf
  <2>2. (stage' = "done") = (c.opcode = "HALT") /\ ~(stage = "done")
    BY <1>1, <1>3
  <2> QED
    BY <1>7, <1>8, <1>9, <1>10, <1>11, <2>1, <2>2 DEF ISA!Execute
<1>13. ISA!ISANext
  BY <1>7, <1>12 DEF ISA!ISANext
<1>14. C + 1 \in 0 .. D
  BY <1>2
<1>15. ASSUME NEW r \in ProgramRegisters PROVE regs'[r] = R[C + 1][r]
  <2>1. r # LAST_PC /\ r \in Registers
    BY SizesAssumption, RegisterIndices DEF ProgramRegisters, LAST_PC
  <2>2. regs[r] = R[C][r]
    BY <1>2 DEF ArchAt
  <2>3. regs'[r] = IF c.opcode \in DestinationOps /\ r = c.rd THEN ResultAt(R, C + 1) ELSE regs[r]
    BY <1>1, <1>6, <2>1 DEF RegsWith
  <2>4. R[C + 1][r] = IF c.opcode \in DestinationOps /\ r = c.rd THEN ResultAt(R, C + 1)
                      ELSE R[C][r]
    BY <1>5
  <2> QED
    BY <2>2, <2>3, <2>4
<1>16. ArchAt(R, D, C + 1)'
  <2>1. PICK n \in Nat : n = C + 1
    BY ONLY <1>2
  <2>2. n \in 0 .. D
    BY ONLY <1>14, <2>1
  <2>3. regs'[LAST_PC] = IF n = 0 THEN 0 ELSE FIRST_PC + 4 * (n - 1)
    <3>1. n - 1 = C /\ n # 0
      BY ONLY <1>2, <2>1
    <3>2. regs'[LAST_PC] = at
      BY <1>1, <1>6, RegisterIndices DEF RegsWith
    <3> QED
      BY ONLY <1>0, <3>1, <3>2, Zenon
  <2>4. \A r \in ProgramRegisters : regs'[r] = R[n][r]
    BY ONLY <1>15, <2>1, Zenon
  <2>5. ArchAt(R, D, n)'
    BY ONLY <2>2, <2>3, <2>4 DEF ArchAt
  <2> QED
    BY ONLY <2>1, <2>5
<1> QED
  BY <1>13, <1>14, <1>16

\* The commit stage executes one instruction of the sequential machine or none.
LEMMA ArchAtCommit ==
  ASSUME MachineInv, RegisterPrograms, NEW D, NEW V, NEW F, NEW R, Represents(D, V, F, R),
         CommitStage, HeadAt(D)' = HeadAt(D) + Committed
  PROVE  /\ [ISA!ISANext]_(ISA!isaVars)
         /\ stage' # "done" => ArchAt(R, D, HeadAt(D) + Committed)'
<1>1. PICK C : C = HeadAt(D) + Committed
  OBVIOUS
<1>2. /\ stage = "commit" /\ code_memory' = code_memory /\ data_memory' = data_memory
      /\ ArchAt(R, D, C) /\ C \in Int /\ TypeInv /\ HeadAt(D)' = C
  BY <1>1 DEF CommitStage, Represents, ArchAt, MachineInv, RunInv
<1>3. PICK i : i = RoBAtCommit[0].instr
  OBVIOUS
<1>4. PICK m : m = (i.pc = LSQAtCommit[0].pc)
  OBVIOUS
<1>5. CASE RoBAtCommit[0].established_bit /\ CanCommit(i, m)
  <2>1. i.opcode \in RegisterOps
    BY <1>1, <1>2, <1>3, <1>5, HeadIsNext DEF MachineInv
  <2>2. CommitHead(i, m)
    BY <1>3, <1>4, <1>5 DEF CommitStage
  <2>3. /\ regs' = CommittedRegs(i) /\ flags' = CommittedFlags(i)
        /\ delete_LSQ_head' = (i.opcode \in MemoryOps)
        /\ stage' = IF i.opcode = "HALT" THEN "done" ELSE AfterCommit
        /\ delete_ROB_head' = (i.opcode # "HALT")
    BY <1>5, <2>2 DEF CommitHead
  <2>4. AfterCommit # "done"
    BY DEF AfterCommit
  <2>5. CommittedMemory' = data_memory
    BY <1>2, <2>1, <2>3, RegisterOpsFacts DEF CommittedMemory, StoreBeingWritten
  <2>6. ISA!ISANext /\ C + 1 \in 0 .. D /\ ArchAt(R, D, C + 1)'
    BY <1>1, <1>2, <1>3, <1>5, <2>3, <2>4, <2>5, ExecutesNext
  <2>7. stage' # "done" => Committed' = 1
    BY <2>3 DEF Committed
  <2> QED
    BY <1>2, <2>6, <2>7
<1>6. CASE ~(RoBAtCommit[0].established_bit /\ CanCommit(i, m))
  <2>1. /\ regs' = regs /\ flags' = flags /\ delete_LSQ_head' = FALSE
        /\ delete_ROB_head' = FALSE /\ stage' = AfterCommit
    BY <1>3, <1>4, <1>6 DEF CommitStage, CommitHead, archVars
  <2>2. AfterCommit # "done"
    BY DEF AfterCommit
  <2>3. CommittedMemory' = data_memory
    BY <1>2, <2>1 DEF CommittedMemory, StoreBeingWritten
  <2>4. CommittedMemory' = CommittedMemory
    BY <2>3, MemoryIsCommitted
  <2>5. UNCHANGED ISA!isaVars
    BY <1>2, <2>1, <2>2, <2>4 DEF ISA!isaVars
  <2>6. Committed' = 0
    BY <2>1 DEF Committed
  <2>7. ArchAt(R, D, C)'
    BY <1>2, <2>1 DEF ArchAt
  <2>8. C = (HeadAt(D) + Committed)'
    BY <1>2, <2>6
  <2> QED
    BY <2>5, <2>7, <2>8
<1> QED
  BY <1>5, <1>6

\* No other stage changes anything the sequential machine has.
LEMMA ArchElsewhere ==
  ASSUME MachineInv, RegisterPrograms, NEW D, NEW V, NEW F, NEW R, Represents(D, V, F, R),
         [Next]_vars, ~CommitStage
  PROVE  /\ UNCHANGED <<regs, ISA!isaVars>> /\ (stage' = "done" <=> stage = "done")
         /\ ~(DecodeStage /\ decode_rename1.has_insn) => UNCHANGED renameTable
<1>1. CommittedMemory = data_memory /\ (MAUStage => ~MAUBusy) /\ code_memory' = code_memory
      /\ stage # "squash"
  BY MemoryIsCommitted, CodeUnchanged DEF MachineInv, RunInv, QuietInv
<1>2. UNCHANGED <<regs, flags>>
  BY DEF Next, vars, CommitBelowZero, MAUStage, MAUOutOfBounds, MulFUStage, BFUStage, AFUStage,
         IntFUStage, IssueStage, DispatchStage, DecodeStage, DecodeOutOfBounds, FetchStage,
         FetchOutOfBounds, SquashTail, SquashEnds, BecomesUndefined, archVars
<1>3. data_memory' = data_memory
  <2>1. CASE MAUStage
    BY <1>1, <2>1 DEF MAUStage, MAUAccesses, MAUCompletes
  <2> QED
    BY <2>1 DEF Next, vars, CommitBelowZero, MAUOutOfBounds, MulFUStage, BFUStage, AFUStage,
           IntFUStage, IssueStage, DispatchStage, DecodeStage, DecodeOutOfBounds, FetchStage,
           FetchOutOfBounds, SquashTail, SquashEnds, BecomesUndefined, memVars
<1>4. UNCHANGED vars \/ (stage' \notin {"MAU", "done"} /\ stage # "done")
  BY <1>1 DEF Next, CommitBelowZero, MAUStage, MAUOutOfBounds, MulFUStage, BFUStage, AFUStage,
         IntFUStage, IssueStage, DispatchStage, DecodeStage, DecodeOutOfBounds, FetchStage,
         FetchOutOfBounds, SquashTail, SquashEnds, BecomesUndefined
<1>5. CommittedMemory' = CommittedMemory
  <2>1. CASE UNCHANGED vars
    BY <2>1 DEF vars, memVars, lsqVars, CommittedMemory, StoreBeingWritten
  <2>2. CASE stage' # "MAU"
    BY <1>1, <1>3, <2>2 DEF CommittedMemory, StoreBeingWritten
  <2> QED
    BY <1>4, <2>1, <2>2
<1>6. stage' = "done" <=> stage = "done"
  BY <1>4 DEF vars
<1>7. UNCHANGED ISA!isaVars
  BY <1>1, <1>2, <1>5, <1>6 DEF ISA!isaVars
<1>8. ~(DecodeStage /\ decode_rename1.has_insn) => UNCHANGED renameTable
  BY <1>1 DEF Next, vars, CommitBelowZero, MAUStage, MAUOutOfBounds, MulFUStage, BFUStage,
         AFUStage, IntFUStage, IssueStage, DispatchStage, DecodeStage, DecodeOutOfBounds,
         FetchStage, FetchOutOfBounds, SquashTail, SquashEnds, BecomesUndefined
<1> QED
  BY <1>2, <1>6, <1>7, <1>8

\* At the start nothing has been renamed.
LEMMA RepresentedInit == ASSUME TypeInv, Init PROVE Represented
<1> DEFINE V == [p \in PhysicalRegs |-> 0]
           F == [c \in CCRegs |-> "none"]
           R == [n \in 0 .. 0 |-> [r \in ProgramRegisters |-> 0]]
<1>1. ROB_size = 0 /\ ~decode_rename1.has_insn /\ ~rename2_dispatch.has_insn
      /\ ~issue_queue.has_insn /\ pc = FIRST_PC /\ ~delete_ROB_head
  BY DEF Init, APEX_cpu_init, EmptyStallLatch, EmptyLatch
<1>2. InLine(0) /\ HeadAt(0) = 0 /\ Committed = 0
  <2>1. Waiting(decode_rename1) = 0 /\ Waiting(rename2_dispatch) = 0 /\ Waiting(issue_queue) = 0
        /\ Committed = 0
    BY <1>1 DEF Waiting, Committed
  <2>2. HeadAt(0) = 0
    BY <1>1, <2>1 DEF HeadAt
  <2>3. pc = FIRST_PC + 4 * (0 + Waiting(decode_rename1))
    BY <1>1, <2>1 DEF FIRST_PC
  <2>4. \A k \in RoBSlots : ~(k < ROB_size)
    BY <1>1, SlotSets
  <2> QED
    BY <1>1, <2>1, <2>2, <2>3, <2>4 DEF InLine
<1>3. Runs(R, 0)
  <2>1. Len(code_memory) \in Nat
    BY DEF TypeInv, ProgramTypes
  <2>2. R \in [0 .. 0 -> [ProgramRegisters -> Int]] /\ R[0] = [r \in ProgramRegisters |-> 0]
    OBVIOUS
  <2>3. 1 .. 0 = {}
    OBVIOUS
  <2> HIDE DEF R
  <2> QED
    BY <2>1, <2>2, <2>3 DEF Runs
<1>4. \A i : ~Placed(i)
  BY DEF Init, APEX_cpu_init, Placed, EmptyStallLatch, EmptyLatch, EmptyIQEntry, RoBSlots
<1>5. Values(V, F, R, 0)
  <2>1. Agree(V, F)
    BY DEF Agree, Init, APEX_cpu_init, IdleBus, IdleCCBus
  <2>2. HasOperands(V, execute_IntFU) /\ HasOperands(V, execute_MulFU)
    BY DEF HasOperands, Init, APEX_cpu_init, EmptyLatch
  <2> QED
    BY <1>4, <2>1, <2>2 DEF Values
<1>6. TableValues(V, R, 0)
  <2>1. ASSUME NEW r \in ProgramRegisters PROVE ~WrittenBefore(code_memory, 0 + 1, r)
    <3>1. \A j \in DOMAIN code_memory : ~(j < 0 + 1)
      BY DEF TypeInv, ProgramTypes
    <3> QED
      BY <3>1 DEF WrittenBefore
  <2> QED
    BY <2>1 DEF TableValues
<1>7. ArchAt(R, 0, 0)
  <2>1. \A r \in Registers : regs[r] = 0
    BY DEF Init, APEX_cpu_init
  <2>2. \A r \in ProgramRegisters : R[0][r] = 0
    OBVIOUS
  <2> QED
    BY <2>1, <2>2, RegisterIndices DEF ArchAt
<1>8. V \in [PhysicalRegs -> Int] /\ F \in [CCRegs -> Flags]
  BY DEF Flags
<1>9. HeadAt(0) + Committed = 0
  BY <1>2
<1> HIDE DEF V, F, R
<1>10. Represents(0, V, F, R)
  BY <1>2, <1>3, <1>5, <1>6, <1>7, <1>8, <1>9 DEF Represents
<1> QED
  BY <1>10 DEF Represented

\* Every step either executes the next instruction of the sequential machine or leaves what
\* the machine has alone.
LEMMA RepresentedStep ==
  ASSUME BitwiseIsInt, MachineInv, MachineInv', FreshRegs, FreshFlags, Fits, TimesFit, FlagsFit,
         RegisterPrograms, SourcesWritten, [Next]_vars, Represented
  PROVE  Represented' /\ [ISA!ISANext]_(ISA!isaVars)
<1>1. PICK D, V, F, R : Represents(D, V, F, R)
  BY DEF Represented
<1>2. /\ RunInv /\ RunInv' /\ TypeInv /\ InPrograms /\ code_memory \in Seq(Insns)
      /\ code_memory' = code_memory
      /\ InLine(D) /\ Runs(R, D) /\ Values(V, F, R, D) /\ TableValues(V, R, D)
      /\ V \in [PhysicalRegs -> Int] /\ F \in [CCRegs -> Flags]
  BY <1>1, CodeUnchanged DEF MachineInv, RunInv, TypeInv, ProgramTypes, Represents
<1>3. rename2_dispatch.has_insn => rename2_dispatch.instr.opcode # "DIV"
  <2> SUFFICES ASSUME rename2_dispatch.has_insn PROVE rename2_dispatch.instr.opcode # "DIV"
    OBVIOUS
  <2>1. Placed(rename2_dispatch.instr) /\ rename2_dispatch.instr \in Instrs
    BY <1>2 DEF Placed, TypeInv, FrontTypes, StallLatches
  <2> QED
    BY <1>2, <2>1, PlacedOps, RegisterOpsFacts
<1>4. CASE DecodeStage /\ decode_rename1.has_insn
  <2>1. ~CommitStage
    BY <1>4 DEF CommitStage, DecodeStage
  <2>2. UNCHANGED ISA!isaVars
    BY <1>1, <2>1, ArchElsewhere
  <2>3. Represented'
    BY <1>1, <1>4, RepresentedAtDecode
  <2> QED
    BY <2>2, <2>3
<1>5. CASE ~(DecodeStage /\ decode_rename1.has_insn)
  <2>1. InLine(D)' /\ (~CommitStage => HeadAt(D)' = HeadAt(D) /\ Committed' = Committed)
        /\ (CommitStage => HeadAt(D)' = HeadAt(D) + Committed)
    BY <1>2, <1>3, <1>5, LineStep
  <2>2. Values(V, F, R, D)'
    BY <1>2, <1>5, ValuesStep
  <2>3. Runs(R, D)'
    BY <1>2, RunStays
  <2>4. /\ [ISA!ISANext]_(ISA!isaVars)
        /\ stage' # "done" => ArchAt(R, D, HeadAt(D) + Committed)'
        /\ renameTable' = renameTable
    <3>1. CASE CommitStage
      <4>1. renameTable' = renameTable
        BY <3>1 DEF CommitStage
      <4> QED
        BY <1>1, <2>1, <3>1, <4>1, ArchAtCommit
    <3>2. CASE ~CommitStage
      <4>1. /\ UNCHANGED <<regs, ISA!isaVars, renameTable>>
            /\ stage' = "done" <=> stage = "done"
        BY <1>1, <1>5, <3>2, ArchElsewhere
      <4>2. PICK C : C = HeadAt(D) + Committed
        OBVIOUS
      <4>3. stage' # "done" => ArchAt(R, D, C)
        BY <1>1, <4>1, <4>2 DEF Represents
      <4>4. stage' # "done" => ArchAt(R, D, C)'
        BY <4>1, <4>3 DEF ArchAt
      <4>5. C = (HeadAt(D) + Committed)'
        BY <2>1, <3>2, <4>2
      <4> QED
        BY <4>1, <4>4, <4>5
    <3> QED
      BY <3>1, <3>2
  <2>5. TableValues(V, R, D)'
    BY <1>2, <2>4 DEF TableValues, WrittenBefore
  <2>6. Represents(D, V, F, R)'
    BY <1>2, <2>1, <2>2, <2>3, <2>4, <2>5 DEF Represents
  <2> QED
    BY <2>4, <2>6 DEF Represented
<1> QED
  BY <1>4, <1>5

\* A program of register operations without branches, whose sources have been written
\* before, shows at the ARF exactly what executing it one instruction after the other does:
\* issue out of order, renaming and forwarding cannot be seen there.
THEOREM RegisterProgramsRefineISA ==
  ASSUME BitwiseIsInt, Fits, TimesFit, FlagsFit, RegisterPrograms, SourcesWritten
  PROVE  Spec => RefinesISA
<1>1. StraightLine
  BY RegisterOpsFacts DEF StraightLine, RegisterPrograms
<1>2. MachineInv /\ Init => Represented
  BY RepresentedInit DEF MachineInv, RunInv
<1>3. /\ MachineInv /\ MachineInv' /\ FreshRegs /\ FreshFlags /\ Represented /\ [Next]_vars
      => Represented' /\ [ISA!ISANext]_(ISA!isaVars)
  BY RepresentedStep
<1>4. Init => ISA!ISAInit
  <2>1. Init => CommittedMemory = InitialMemory
    BY DEF Init, APEX_cpu_init, CommittedMemory, StoreBeingWritten
  <2> QED
    BY <2>1, IsaVocabulary DEF Init, APEX_cpu_init, ISA!ISAInit
<1>5. Spec => []MachineInv /\ []FreshRegs /\ []FreshFlags
  BY <1>1, MachineAlways, FreshAlways, FreshFlagsAlways, PTL
<1> QED
  BY <1>2, <1>3, <1>4, <1>5, PTL DEF Spec, RefinesISA, ISA!ISASpec
=============================================================================
