------------------------------ MODULE ApexIssue ------------------------------
(***************************************************************************)
(* Wakeup and selection: which instruction each function unit receives,    *)
(* and the pickup of addresses and store data by the queues                *)
(* (apex_issue.c).                                                         *)
(***************************************************************************)
EXTENDS ApexSources, ApexQueues

SourcesValid(i) ==
  /\ i.opcode \in Source1Ops => i.phyrs1_valid
  /\ i.opcode \in Source2Ops => i.phyrs2_valid

\* Every waiting entry listens to the buses before the selections look at it.
WokenIQ(iq, bus) ==
  [k \in IQSlots |-> IF iq[k].valid_bit THEN [iq[k] EXCEPT !.instr = PickUp(@, bus)]
                     ELSE iq[k]]

(***************************************************************************)
(* The dispatch times the three loops of issueWakeup* take the minimum of. *)
(* The IntFU loop counts a MOVC, NOP or HALT whether its slot is valid or  *)
(* not, so the remains of an issued one are candidates too.                *)
(***************************************************************************)
IntFUTimes(iq) ==
  {iq[k].dispatch_time : k \in
     {s \in IQSlots : \/ iq[s].instr.opcode \in NoSourceOps
                      \/ /\ iq[s].instr.opcode \in IntFUSourceOps
                         /\ iq[s].valid_bit
                         /\ SourcesValid(iq[s].instr)}}

MulFUTimes(iq) ==
  {iq[k].dispatch_time : k \in
     {s \in IQSlots : iq[s].instr.opcode = "MUL" /\ iq[s].valid_bit
                        /\ SourcesValid(iq[s].instr)}}

AFUTimes(iq) ==
  {iq[k].dispatch_time : k \in
     {s \in IQSlots : iq[s].instr.opcode \in AFUOps /\ iq[s].valid_bit
                        /\ SourcesValid(iq[s].instr)}}

\* Seeded bug: the comparison is the wrong way round.
MaxCounter(times) ==
  IF times = {} THEN MIN_COUNTER_START ELSE CHOOSE t \in times : \A u \in times : t >= u

\* min_counter starts at 999 and the first valid slot with that time is taken.
MinCounter(times) ==
  LET all == times \cup {MIN_COUNTER_START}
  IN  CHOOSE t \in all : \A u \in all : t <= u

SelectedSlot(iq, times) ==
  FirstIndex({k \in IQSlots : iq[k].valid_bit
                                /\ iq[k].dispatch_time = MinCounter(times)})

\* Seeded bug: the slot stays taken.
IssuedInPlace(iq, k) ==
  IF k = -1 THEN iq
  ELSE [iq EXCEPT ![k].instr.phyrs1_valid = FALSE, ![k].instr.phyrs2_valid = FALSE]

Issued(iq, k) ==
  IF k = -1 THEN iq
  ELSE [iq EXCEPT ![k].valid_bit = FALSE, ![k].instr.phyrs1_valid = FALSE,
                  ![k].instr.phyrs2_valid = FALSE]

(***************************************************************************)
(* updateLSQentrywithForwardedBus and updateBranchQueue.                   *)
(***************************************************************************)
\* The entry that takes the AFU's address: the first unaddressed one with its pc.
AddressedSlot(q, tail, address, at) ==
  FirstIndex({k \in 0 .. tail : /\ address # -1
                                /\ q[k].established_bit
                                /\ ~q[k].memory_address_valid
                                /\ q[k].pc = at})

\* Seeded bug: the IntFU's bus is forgotten.
StoreDataBusWithoutInt(bus, tag) == FirstIndex({b \in {MulBus, AFUBus} : bus[b].tag = tag})

\* A store's data is looked for on the IntFU, MulFU and AFU buses only.
StoreDataBus(bus, tag) == FirstIndex({b \in {IntBus, MulBus, AFUBus} : bus[b].tag = tag})

PickUpStoreData(entry, bus) ==
  LET b == StoreDataBus(bus, entry.src_tag)
  IN  IF entry.LorS_bit = "STORE" /\ ~entry.src_data_valid /\ b # -1
      THEN [entry EXCEPT !.valueToStore = bus[b].value, !.src_data_valid = TRUE]
      ELSE entry

UpdatedLSQ(q, tail, address, at, bus) ==
  LET a == AddressedSlot(q, tail, address, at)
      addressed == [k \in LSQSlots |->
                      IF k = a THEN [q[k] EXCEPT !.memory_address = address,
                                                 !.memory_address_valid = TRUE]
                      ELSE q[k]]
  IN  [k \in LSQSlots |-> IF k <= tail THEN PickUpStoreData(addressed[k], bus)
                          ELSE addressed[k]]

TargetedBQ(bq, address, at) ==
  [k \in BQSlots |->
     IF /\ bq[k].valid_bit
        /\ bq[k].instr.opcode \in BranchOps
        /\ address # -1
        /\ bq[k].instr.pc = at
        /\ ~bq[k].instr.target_address_valid
     THEN [bq[k] EXCEPT !.instr.target_address = address,
                        !.instr.target_address_valid = TRUE]
     ELSE bq[k]]

\* The branch handed to the BFU: the first with a target that was not handed yet.
\* No condition code is waited for.
BFUSlot(bq) ==
  FirstIndex({k \in BQSlots : /\ bq[k].valid_bit
                              /\ bq[k].instr.target_address_valid
                              /\ ~bq[k].issuedToBFU})
=============================================================================
