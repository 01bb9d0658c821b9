------------------------------ MODULE ApexNames ------------------------------
(***************************************************************************)
(* What renaming is about: which physical registers an instruction was     *)
(* given, and which of a sequence of instructions produces what another    *)
(* one reads.                                                              *)
(***************************************************************************)
EXTENDS ApexTypes, FiniteSets

\* An instruction as far as renaming goes.
NamesOf(i) ==
  [opcode |-> i.opcode, rd |-> i.rd, rs1 |-> i.rs1, rs2 |-> i.rs2,
   phyrd |-> i.phyrd, phyrs1 |-> i.phyrs1, phyrs2 |-> i.phyrs2, phyrs3 |-> i.phyrs3,
   flag |-> i.flag]

\* The physical registers an instruction was given.
Given(i) ==
  (IF i.opcode \in DestinationOps THEN {i.phyrd} ELSE {})
    \cup (IF i.opcode \in PointerOps THEN {i.phyrs3} ELSE {})

HeldBy(renamed) == UNION {Given(renamed[k]) : k \in DOMAIN renamed}

\* The base register of LOADP or STOREP, which the instruction advances.
PointerOf(i) == IF i.opcode = "LOADP" THEN i.rs1 ELSE i.rs2
Advances(i, r) == i.opcode \in PointerOps /\ PointerOf(i) = r
Writes(i, r) == Advances(i, r) \/ (i.opcode \in DestinationOps /\ i.rd = r)

\* The physical register i was given for r; the base is renamed after the destination.
RegisterFor(i, r) == IF Advances(i, r) THEN i.phyrs3 ELSE i.phyrd

\* The last instruction of a sequence to write r, 0 if none does.
LastWriter(instrs, r) ==
  LET writers == {k \in DOMAIN instrs : Writes(instrs[k], r)}
  IN  IF writers = {} THEN 0 ELSE CHOOSE k \in writers : \A j \in writers : j <= k

\* Register p is what the last writer of r was given, if there is one.
NamesLastWriter(instrs, r, p) ==
  LET k == LastWriter(instrs, r)
  IN  k # 0 => p = RegisterFor(instrs[k], r)

\* The sources of i name the last writers among the older instructions.
NamesItsProducers(i, older) ==
  /\ i.opcode \in Source1Ops => NamesLastWriter(older, i.rs1, i.phyrs1)
  /\ i.opcode \in Source2Ops => NamesLastWriter(older, i.rs2, i.phyrs2)
=============================================================================
