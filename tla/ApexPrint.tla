------------------------------ MODULE ApexPrint ------------------------------
(***************************************************************************)
(* What the simulator shows (apex_print.c): instructions with the names or *)
(* the physical registers of their operands, the queues from their head to *)
(* their tail pointer, and the history of a BTB entry.                     *)
(***************************************************************************)
EXTENDS ApexTypes

Reg(r) == [sigil |-> "R", value |-> r]
Literal(v) == [sigil |-> "#", value |-> v]
Phy(p) == [sigil |-> "P", value |-> p]

\* print_instruction_arch: the operands in the order they are shown.
ShownOperands(i) ==
  CASE i.opcode \in Alu2Ops \cup {"DIV"} -> <<Reg(i.rd), Reg(i.rs1), Reg(i.rs2)>>
    [] i.opcode = "MOVC" -> <<Reg(i.rd), Literal(i.imm)>>
    [] i.opcode \in LoadOps \cup AluLiteralOps \cup {"JALR"} ->
         <<Reg(i.rd), Reg(i.rs1), Literal(i.imm)>>
    [] i.opcode \in StoreOps -> <<Reg(i.rs1), Reg(i.rs2), Literal(i.imm)>>
    [] i.opcode \in ConditionalBranches -> <<Literal(i.imm)>>
    [] i.opcode \in {"CML", "JUMP"} -> <<Reg(i.rs1), Literal(i.imm)>>
    [] i.opcode = "CMP" -> <<Reg(i.rs1), Reg(i.rs2)>>
    [] OTHER -> << >>

\* print_instruction_physical: LOADP and STOREP show the register their base gets.
ShownPhysical(i) ==
  CASE i.opcode \in Alu2Ops \cup {"DIV"} -> <<Phy(i.phyrd), Phy(i.phyrs1), Phy(i.phyrs2)>>
    [] i.opcode = "MOVC" -> <<Phy(i.phyrd), Literal(i.imm)>>
    [] i.opcode \in {"LOAD", "JALR"} \cup AluLiteralOps ->
         <<Phy(i.phyrd), Phy(i.phyrs1), Literal(i.imm)>>
    [] i.opcode = "LOADP" -> <<Phy(i.phyrd), Phy(i.phyrs3), Literal(i.imm)>>
    [] i.opcode = "STORE" -> <<Phy(i.phyrs1), Phy(i.phyrs2), Literal(i.imm)>>
    [] i.opcode = "STOREP" -> <<Phy(i.phyrs1), Phy(i.phyrs3), Literal(i.imm)>>
    [] i.opcode \in ConditionalBranches -> <<Literal(i.imm)>>
    [] i.opcode \in {"CML", "JUMP"} -> <<Phy(i.phyrs1), Literal(i.imm)>>
    [] i.opcode = "CMP" -> <<Phy(i.phyrs1), Phy(i.phyrs2)>>
    [] OTHER -> << >>

(***************************************************************************)
(* The queues.  A list is shown as the sequence of its entries' pcs.       *)
(***************************************************************************)
\* Seeded bug: the entry at the tail pointer is left out.
BeforeTail(tail) == [k \in 1 .. tail |-> k - 1]

\* The indices from a head, which is always 0, to a tail pointer.
UpToTail(tail) == [k \in 1 .. tail + 1 |-> k - 1]

Established(q, tail) == SelectSeq(UpToTail(tail), LAMBDA k : q[k].established_bit)

\* print_ROB and print_LSQ
ShownRoB(q, tail) == [k \in DOMAIN Established(q, tail) |->
                        q[Established(q, tail)[k]].instr.pc]
ShownLSQ(q, tail) == [k \in DOMAIN Established(q, tail) |->
                        q[Established(q, tail)[k]].pc]

\* print_issueQueue and print_BQ show every valid slot.
ShownWaiting(q) == {q[k].instr.pc : k \in {s \in DOMAIN q : q[s].valid_bit}}

\* print_BTB shows the first outcome bit twice.
ShownPrediction(entry) == <<entry.history \div 2, entry.history \div 2>>
=============================================================================
