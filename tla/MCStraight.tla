----------------------------- MODULE MCStraight -----------------------------
(***************************************************************************)
(* Straight-line programs: two initialisations, three instructions that    *)
(* may depend on each other in every way through two registers, a base     *)
(* register and memory, and HALT.                                          *)
(***************************************************************************)
EXTENDS ApexPipeline

I(op, rd, rs1, rs2, imm) ==
  [opcode |-> op, rd |-> rd, rs1 |-> rs1, rs2 |-> rs2, imm |-> imm]

Prefix == <<I("MOVC", 0, 0, 0, 1), I("MOVC", 1, 0, 0, 3)>>
Suffix == <<I("HALT", 0, 0, 0, 0)>>

Alphabet ==
  {I("ADD", 1, 0, 1, 0), I("SUBL", 1, 1, 0, 1), I("MUL", 0, 0, 1, 0),
   I("MOVC", 1, 0, 0, 3), I("LOAD", 0, 1, 0, 5), I("LOADP", 1, 0, 0, 5),
   I("STORE", 0, 1, 0, 5), I("STOREP", 0, 1, 0, 5), I("CML", 0, 0, 0, 2),
   I("NOP", 0, 0, 0, 0)}

\* A store whose data register was last written by a load.
StoresALoadedValue(p) ==
  \E s, l \in 1 .. Len(p) :
    /\ l < s /\ p[s].opcode \in StoreOps /\ p[l].opcode \in LoadOps
    /\ p[l].rd = p[s].rs1
    /\ \A k \in l + 1 .. s - 1 : p[k].opcode \in DestinationOps => p[k].rd # p[s].rs1

MCPrograms ==
  {p \in {Prefix \o <<a, b, c>> \o Suffix : a, b, c \in Alphabet} :
     ~StoresALoadedValue(p)}
MCBitwise(op, a, b) == 0
=============================================================================
