----------------------------- MODULE ApexSources -----------------------------
(***************************************************************************)
(* Forwarding buses: tag match and pickup by the latches and the issue     *)
(* queue, and the write of the buses into the physical registers           *)
(* (apex_sources.c, apex_flags.c).                                         *)
(***************************************************************************)
EXTENDS ApexTypes

\* The buses in the order every consumer tests them and the PRF is written.
IntBus == 1
MulBus == 2
AFUBus == 3
MAUBus == 4
BFUBus == 5
Buses == 1 .. 5

IdleBus == [tag |-> -1, value |-> -1]

\* The first bus carrying tag; an idle bus carries -1, as an unrenamed source does.
MatchingBus(bus, tag) == FirstIndex({b \in Buses : bus[b].tag = tag})

\* set_*_physical_source1 and source2, for the sources the opcode has.
PickUp1(i, bus) ==
  LET b == MatchingBus(bus, i.phyrs1)
  IN  IF i.opcode \in Source1Ops /\ ~i.phyrs1_valid /\ b # -1
      THEN [i EXCEPT !.phyrs1_valid = TRUE, !.phyrs1_value = bus[b].value]
      ELSE i

PickUp2(i, bus) ==
  LET b == MatchingBus(bus, i.phyrs2)
  IN  IF i.opcode \in Source2Ops /\ ~i.phyrs2_valid /\ b # -1
      THEN [i EXCEPT !.phyrs2_valid = TRUE, !.phyrs2_value = bus[b].value]
      ELSE i

\* Seeded bug: second sources never listen to the buses.
PickUpFirstOnly(i, bus) == PickUp1(i, bus)

PickUp(i, bus) == PickUp2(PickUp1(i, bus), bus)

\* physicalRegFile[-1].valid_bit lies over p_flag, which is always 0.
PRFValid(prf, tag) == tag # -1 /\ prf[tag].valid

\* The last lines of set_dispatch_physical_source1 and source2.
ReadPRF1(i, prf) ==
  IF i.opcode \in Source1Ops /\ ~i.phyrs1_valid /\ PRFValid(prf, i.phyrs1)
  THEN [i EXCEPT !.phyrs1_valid = TRUE, !.phyrs1_value = prf[i.phyrs1].data]
  ELSE i

ReadPRF2(i, prf) ==
  IF i.opcode \in Source2Ops /\ ~i.phyrs2_valid /\ PRFValid(prf, i.phyrs2)
  THEN [i EXCEPT !.phyrs2_valid = TRUE, !.phyrs2_value = prf[i.phyrs2].data]
  ELSE i

ReadPRF(i, prf) == ReadPRF2(ReadPRF1(i, prf), prf)

\* update_physical_register_file: a later bus overwrites an earlier one.
WrittenPRF(prf, bus) ==
  [p \in PhysicalRegs |->
     IF \E b \in Buses : bus[b].tag = p
     THEN LET last == CHOOSE b \in Buses : /\ bus[b].tag = p
                                           /\ \A c \in Buses : bus[c].tag = p => c <= b
          IN  [valid |-> TRUE, data |-> bus[last].value]
     ELSE prf[p]]

Drained(lines) == [b \in DOMAIN lines |-> [lines[b] EXCEPT !.tag = -1]]

\* set_flag_values, set_flag_values_mul, set_flag_values_cmpAndcml
FlagOf(value) == IF value = 0 THEN "zero" ELSE "positive"

CCBuses == {IntBus, MulBus}
IdleCCBus == [tag |-> -1, flag |-> "none"]

\* update_CCphysical_register_file: IntFU's flags first, then MulFU's.
WrittenCC(cc, ccBus) ==
  [c \in CCRegs |->
     IF ccBus[MulBus].tag = c THEN [valid |-> TRUE, flag |-> ccBus[MulBus].flag]
     ELSE IF ccBus[IntBus].tag = c THEN [valid |-> TRUE, flag |-> ccBus[IntBus].flag]
     ELSE cc[c]]

WrittenCCHead(head, ccBus) ==
  IF ccBus[MulBus].tag # -1 THEN ccBus[MulBus].flag
  ELSE IF ccBus[IntBus].tag # -1 THEN ccBus[IntBus].flag ELSE head
=============================================================================
