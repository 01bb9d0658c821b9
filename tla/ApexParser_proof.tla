-------------------------- MODULE ApexParser_proof --------------------------
(***************************************************************************)
(* Proofs about the parser: for every file, the instructions are the lines *)
(* as they are written.  PInv says of every instruction made so far that   *)
(* it comes from its line and from some content of the operand buffers;    *)
(* the lemmas show that this content reaches no field.                     *)
(***************************************************************************)
EXTENDS ApexAssembler, TLAPS

Buffers == [1 .. MAX_TOKENS -> Tokens]

MadeFrom(insn, l) ==
  \E held \in Buffers : insn = InstructionFrom(OpcodeOf(l), Overwritten(held, l))

PInv ==
  /\ file \in Files
  /\ outcome \in Outcomes
  /\ tokens \in Buffers
  /\ current_instruction \in 0 .. Len(file)
  /\ outcome = "opening" => current_instruction = 0
  /\ outcome = "loaded" => current_instruction = Len(file)
  /\ outcome \in {"reading", "loaded", "aborted", "undefined"} =>
       code_memory = [k \in 1 .. Len(file) |-> code_memory[k]]
  /\ \A k \in Parsed : KnownMnemonic(file[k]) /\ MadeFrom(code_memory[k], file[k])

(***************************************************************************)
(* The table of fields.                                                    *)
(***************************************************************************)
LEMMA FieldAt ==
  ASSUME NEW op, NEW words, NEW k \in DOMAIN Fields(op),
         \A j \in DOMAIN Fields(op) : Fields(op)[j] = Fields(op)[k] => j = k
  PROVE  FieldValue(op, Fields(op)[k], words) = NumberOf(words[k])
<1> DEFINE n == CHOOSE j \in DOMAIN Fields(op) : Fields(op)[j] = Fields(op)[k]
<1>1. n \in DOMAIN Fields(op) /\ Fields(op)[n] = Fields(op)[k]
  OBVIOUS
<1>2. n = k
  BY <1>1
<1> QED
  BY <1>2 DEF FieldValue

LEMMA FieldAbsent ==
  ASSUME NEW op, NEW words, NEW f, \A j \in DOMAIN Fields(op) : Fields(op)[j] # f
  PROVE  FieldValue(op, f, words) = 0
  BY DEF FieldValue

\* The groups of opcodes that have the same operands.
LEMMA FieldsByGroup ==
  ASSUME NEW op \in Opcodes
  PROVE  /\ op \in Alu2Ops \cup {"DIV"} => Fields(op) = <<"rd", "rs1", "rs2">>
         /\ op = "MOVC" => Fields(op) = <<"rd", "imm">>
         /\ op \in LoadOps \cup AluLiteralOps \cup {"JALR"} =>
              Fields(op) = <<"rd", "rs1", "imm">>
         /\ op \in StoreOps => Fields(op) = <<"rs1", "rs2", "imm">>
         /\ op \in ConditionalBranches => Fields(op) = <<"imm">>
         /\ op \in {"CML", "JUMP"} => Fields(op) = <<"rs1", "imm">>
         /\ op = "CMP" => Fields(op) = <<"rs1", "rs2">>
         /\ op \in {"NOP", "HALT"} => Fields(op) = << >>
  BY DEF Opcodes, Fields, LoadFields, StoreFields, Alu2Ops, AluLiteralOps, LoadOps, StoreOps,
         MemoryOps, ConditionalBranches, JumpOps, BranchOps, NoSourceOps

LEMMA ThreeFields ==
  ASSUME NEW op, NEW words, NEW a, NEW b, NEW c, a # b, a # c, b # c,
         Fields(op) = <<a, b, c>>
  PROVE  /\ FieldValue(op, a, words) = NumberOf(words[1])
         /\ FieldValue(op, b, words) = NumberOf(words[2])
         /\ FieldValue(op, c, words) = NumberOf(words[3])
         /\ \A f : f \notin {a, b, c} => FieldValue(op, f, words) = 0
<1>1. DOMAIN Fields(op) = {1, 2, 3}
  OBVIOUS
<1>2. Fields(op)[1] = a /\ Fields(op)[2] = b /\ Fields(op)[3] = c
  OBVIOUS
<1>3. FieldValue(op, Fields(op)[1], words) = NumberOf(words[1])
  BY <1>1, <1>2, FieldAt
<1>4. FieldValue(op, Fields(op)[2], words) = NumberOf(words[2])
  BY <1>1, <1>2, FieldAt
<1>5. FieldValue(op, Fields(op)[3], words) = NumberOf(words[3])
  BY <1>1, <1>2, FieldAt
<1>6. ASSUME NEW f, f \notin {a, b, c} PROVE FieldValue(op, f, words) = 0
  BY <1>1, <1>2, <1>6, FieldAbsent
<1> QED
  BY <1>2, <1>3, <1>4, <1>5, <1>6

LEMMA TwoFields ==
  ASSUME NEW op, NEW words, NEW a, NEW b, a # b, Fields(op) = <<a, b>>
  PROVE  /\ FieldValue(op, a, words) = NumberOf(words[1])
         /\ FieldValue(op, b, words) = NumberOf(words[2])
         /\ \A f : f \notin {a, b} => FieldValue(op, f, words) = 0
<1>1. DOMAIN Fields(op) = {1, 2}
  OBVIOUS
<1>2. Fields(op)[1] = a /\ Fields(op)[2] = b
  OBVIOUS
<1>3. FieldValue(op, Fields(op)[1], words) = NumberOf(words[1])
  BY <1>1, <1>2, FieldAt
<1>4. FieldValue(op, Fields(op)[2], words) = NumberOf(words[2])
  BY <1>1, <1>2, FieldAt
<1>5. ASSUME NEW f, f \notin {a, b} PROVE FieldValue(op, f, words) = 0
  BY <1>1, <1>2, <1>5, FieldAbsent
<1> QED
  BY <1>2, <1>3, <1>4, <1>5

LEMMA OneField ==
  ASSUME NEW op, NEW words, NEW a, Fields(op) = <<a>>
  PROVE  /\ FieldValue(op, a, words) = NumberOf(words[1])
         /\ \A f : f # a => FieldValue(op, f, words) = 0
<1>1. DOMAIN Fields(op) = {1}
  OBVIOUS
<1>2. Fields(op)[1] = a
  OBVIOUS
<1>3. FieldValue(op, Fields(op)[1], words) = NumberOf(words[1])
  BY <1>1, <1>2, FieldAt
<1>4. ASSUME NEW f, f # a PROVE FieldValue(op, f, words) = 0
  BY <1>1, <1>2, <1>4, FieldAbsent
<1> QED
  BY <1>2, <1>3, <1>4

LEMMA NoField ==
  ASSUME NEW op, NEW words, Fields(op) = << >>
  PROVE  \A f : FieldValue(op, f, words) = 0
<1>1. DOMAIN Fields(op) = {}
  OBVIOUS
<1> QED
  BY <1>1, FieldAbsent

(***************************************************************************)
(* What a well written line becomes.                                       *)
(***************************************************************************)
Made(l, held) == InstructionFrom(OpcodeOf(l), Overwritten(held, l))

LEMMA OpcodeOfLine ==
  ASSUME NEW l \in Lines, WellWritten(l)
  PROVE  OpcodeOf(l) \in Opcodes
<1>1. "XOR" \in Opcodes
  BY DEF Opcodes, Alu2Ops
<1> QED
  BY <1>1 DEF WellWritten, OpcodeOf, Mnemonics

\* The operands the listing has, by group.
LEMMA SyntaxByGroup ==
  ASSUME NEW op \in Opcodes
  PROVE  /\ op \in Alu2Ops \cup {"DIV"} => Syntax(op) = <<Reg(0), Reg(0), Reg(0)>>
         /\ op = "MOVC" => Syntax(op) = <<Reg(0), Literal(0)>>
         /\ op \in LoadOps \cup AluLiteralOps \cup {"JALR"} =>
              Syntax(op) = <<Reg(0), Reg(0), Literal(0)>>
         /\ op \in StoreOps => Syntax(op) = <<Reg(0), Reg(0), Literal(0)>>
         /\ op \in ConditionalBranches => Syntax(op) = <<Literal(0)>>
         /\ op \in {"CML", "JUMP"} => Syntax(op) = <<Reg(0), Literal(0)>>
         /\ op = "CMP" => Syntax(op) = <<Reg(0), Reg(0)>>
         /\ op \in {"NOP", "HALT"} => Syntax(op) = << >>
  BY DEF Opcodes, Syntax, NoInsn, ShownOperands, Alu2Ops, AluLiteralOps, LoadOps, StoreOps,
         MemoryOps, ConditionalBranches, JumpOps, BranchOps, NoSourceOps

LEMMA ShownByGroup ==
  ASSUME NEW i, i.opcode \in Opcodes
  PROVE  /\ i.opcode \in Alu2Ops \cup {"DIV"} =>
              ShownOperands(i) = <<Reg(i.rd), Reg(i.rs1), Reg(i.rs2)>>
         /\ i.opcode = "MOVC" => ShownOperands(i) = <<Reg(i.rd), Literal(i.imm)>>
         /\ i.opcode \in LoadOps \cup AluLiteralOps \cup {"JALR"} =>
              ShownOperands(i) = <<Reg(i.rd), Reg(i.rs1), Literal(i.imm)>>
         /\ i.opcode \in StoreOps =>
              ShownOperands(i) = <<Reg(i.rs1), Reg(i.rs2), Literal(i.imm)>>
         /\ i.opcode \in ConditionalBranches => ShownOperands(i) = <<Literal(i.imm)>>
         /\ i.opcode \in {"CML", "JUMP"} => ShownOperands(i) = <<Reg(i.rs1), Literal(i.imm)>>
         /\ i.opcode = "CMP" => ShownOperands(i) = <<Reg(i.rs1), Reg(i.rs2)>>
         /\ i.opcode \in {"NOP", "HALT"} => ShownOperands(i) = << >>
  BY DEF Opcodes, ShownOperands, Alu2Ops, AluLiteralOps, LoadOps, StoreOps,
         MemoryOps, ConditionalBranches, JumpOps, BranchOps, NoSourceOps

\* Every opcode is in one of the groups.
LEMMA Groups ==
  ASSUME NEW op \in Opcodes
  PROVE  \/ op \in Alu2Ops \cup {"DIV"}
         \/ op = "MOVC"
         \/ op \in LoadOps \cup AluLiteralOps \cup {"JALR"}
         \/ op \in StoreOps
         \/ op \in ConditionalBranches
         \/ op \in {"CML", "JUMP"}
         \/ op = "CMP"
         \/ op \in {"NOP", "HALT"}
  BY DEF Opcodes, Alu2Ops, AluLiteralOps, LoadOps, StoreOps, MemoryOps, ConditionalBranches,
         JumpOps, BranchOps, NoSourceOps

\* A well written line overwrites every buffer that one of its fields is read from, and
\* the number of an operand is the one behind its R or #.
LEMMA OwnOperands ==
  ASSUME NEW l \in Lines, WellWritten(l), NEW held \in Buffers
  PROVE  \A k \in DOMAIN l.operands :
           /\ Overwritten(held, l)[k] = l.operands[k]
           /\ NumberOf(Overwritten(held, l)[k]) = l.operands[k].value
           /\ l.operands[k] = [sigil |-> Syntax(OpcodeOf(l))[k].sigil,
                               value |-> l.operands[k].value]
<1> DEFINE op == OpcodeOf(l)
<1>1. op \in Opcodes
  BY OpcodeOfLine
<1>2. DOMAIN Syntax(op) \in {{}, {1}, {1, 2}, {1, 2, 3}}
      /\ \A k \in DOMAIN Syntax(op) : Syntax(op)[k].sigil \in {"R", "#"}
  <2>1. \A a, b, c : /\ DOMAIN <<a, b, c>> = {1, 2, 3} /\ DOMAIN <<a, b>> = {1, 2}
                    /\ DOMAIN <<a>> = {1} /\ DOMAIN << >> = {}
    OBVIOUS
  <2>2. Reg(0).sigil = "R" /\ Literal(0).sigil = "#"
    BY DEF Reg, Literal
  <2> QED
    BY <1>1, <2>1, <2>2, Groups, SyntaxByGroup
<1>3. DOMAIN l.operands = DOMAIN Syntax(op)
  BY DEF WellWritten
<1> SUFFICES ASSUME NEW k \in DOMAIN l.operands
             PROVE  /\ Overwritten(held, l)[k] = l.operands[k]
                    /\ NumberOf(Overwritten(held, l)[k]) = l.operands[k].value
                    /\ l.operands[k] = [sigil |-> Syntax(OpcodeOf(l))[k].sigil,
                                        value |-> l.operands[k].value]
  OBVIOUS
<1>4. l.operands \in Seq(Tokens)
  BY DEF Lines
<1>5. l.operands # << >> /\ k \in {1, 2, 3} /\ k <= Len(l.operands)
  BY <1>2, <1>3, <1>4
<1>6. Overwritten(held, l)[k] = l.operands[k]
  BY <1>5 DEF Overwritten, OperandTokens, MAX_TOKENS
<1>7. l.operands[k] \in Tokens
  BY <1>4, <1>5
<1>8. l.operands[k].sigil = Syntax(op)[k].sigil /\ l.operands[k].sigil # "none"
  BY <1>2, <1>3 DEF WellWritten
<1> QED
  BY <1>6, <1>7, <1>8 DEF Tokens, NumberOf

\* The fields of the instruction, by group: each is an operand's value or 0.
LEMMA MadeFields ==
  ASSUME NEW l \in Lines, WellWritten(l), NEW held \in Buffers
  PROVE  LET i == Made(l, held)
             op == OpcodeOf(l)
             v(k) == l.operands[k].value
         IN  /\ i = [opcode |-> op, rd |-> i.rd, rs1 |-> i.rs1, rs2 |-> i.rs2, imm |-> i.imm]
             /\ op \in Alu2Ops \cup {"DIV"} =>
                  i.rd = v(1) /\ i.rs1 = v(2) /\ i.rs2 = v(3) /\ i.imm = 0
             /\ op = "MOVC" => i.rd = v(1) /\ i.rs1 = 0 /\ i.rs2 = 0 /\ i.imm = v(2)
             /\ op \in LoadOps \cup AluLiteralOps \cup {"JALR"} =>
                  i.rd = v(1) /\ i.rs1 = v(2) /\ i.rs2 = 0 /\ i.imm = v(3)
             /\ op \in StoreOps => i.rd = 0 /\ i.rs1 = v(1) /\ i.rs2 = v(2) /\ i.imm = v(3)
             /\ op \in ConditionalBranches =>
                  i.rd = 0 /\ i.rs1 = 0 /\ i.rs2 = 0 /\ i.imm = v(1)
             /\ op \in {"CML", "JUMP"} =>
                  i.rd = 0 /\ i.rs1 = v(1) /\ i.rs2 = 0 /\ i.imm = v(2)
             /\ op = "CMP" => i.rd = 0 /\ i.rs1 = v(1) /\ i.rs2 = v(2) /\ i.imm = 0
             /\ op \in {"NOP", "HALT"} => i.rd = 0 /\ i.rs1 = 0 /\ i.rs2 = 0 /\ i.imm = 0
<1> DEFINE i == Made(l, held)
           op == OpcodeOf(l)
           w == Overwritten(held, l)
           v(k) == l.operands[k].value
<1>1. op \in Opcodes
  BY OpcodeOfLine
<1>2. /\ i = [opcode |-> op, rd |-> i.rd, rs1 |-> i.rs1, rs2 |-> i.rs2, imm |-> i.imm]
      /\ i.rd = FieldValue(op, "rd", w) /\ i.rs1 = FieldValue(op, "rs1", w)
      /\ i.rs2 = FieldValue(op, "rs2", w) /\ i.imm = FieldValue(op, "imm", w)
  BY DEF Made, InstructionFrom
<1>3. DOMAIN l.operands = DOMAIN Syntax(op) /\ \A k \in DOMAIN l.operands : NumberOf(w[k]) = v(k)
  BY OwnOperands DEF WellWritten
<1>4. ASSUME NEW a, NEW b, NEW c, Syntax(op) = <<a, b, c>>
      PROVE  NumberOf(w[1]) = v(1) /\ NumberOf(w[2]) = v(2) /\ NumberOf(w[3]) = v(3)
  <2>1. DOMAIN l.operands = {1, 2, 3}
    BY <1>3, <1>4
  <2> QED
    BY <1>3, <2>1
<1>5. ASSUME NEW a, NEW b, Syntax(op) = <<a, b>>
      PROVE  NumberOf(w[1]) = v(1) /\ NumberOf(w[2]) = v(2)
  <2>1. DOMAIN l.operands = {1, 2}
    BY <1>3, <1>5
  <2> QED
    BY <1>3, <2>1
<1>6. ASSUME NEW a, Syntax(op) = <<a>> PROVE NumberOf(w[1]) = v(1)
  <2>1. DOMAIN l.operands = {1}
    BY <1>3, <1>6
  <2> QED
    BY <1>3, <2>1
<1>7. op \in Alu2Ops \cup {"DIV"} =>
        i.rd = v(1) /\ i.rs1 = v(2) /\ i.rs2 = v(3) /\ i.imm = 0
  <2> SUFFICES ASSUME op \in Alu2Ops \cup {"DIV"}
               PROVE  i.rd = v(1) /\ i.rs1 = v(2) /\ i.rs2 = v(3) /\ i.imm = 0
    OBVIOUS
  <2>1. Fields(op) = <<"rd", "rs1", "rs2">> /\ Syntax(op) = <<Reg(0), Reg(0), Reg(0)>>
    BY <1>1, FieldsByGroup, SyntaxByGroup
  <2>2. /\ FieldValue(op, "rd", w) = NumberOf(w[1]) /\ FieldValue(op, "rs1", w) = NumberOf(w[2])
        /\ FieldValue(op, "rs2", w) = NumberOf(w[3]) /\ FieldValue(op, "imm", w) = 0
    BY <2>1, ThreeFields
  <2> QED
    BY <1>2, <1>4, <2>1, <2>2
<1>8. op = "MOVC" => i.rd = v(1) /\ i.rs1 = 0 /\ i.rs2 = 0 /\ i.imm = v(2)
  <2> SUFFICES ASSUME op = "MOVC"
               PROVE  i.rd = v(1) /\ i.rs1 = 0 /\ i.rs2 = 0 /\ i.imm = v(2)
    OBVIOUS
  <2>1. Fields(op) = <<"rd", "imm">> /\ Syntax(op) = <<Reg(0), Literal(0)>>
    BY <1>1, FieldsByGroup, SyntaxByGroup
  <2>2. /\ FieldValue(op, "rd", w) = NumberOf(w[1]) /\ FieldValue(op, "imm", w) = NumberOf(w[2])
        /\ FieldValue(op, "rs1", w) = 0 /\ FieldValue(op, "rs2", w) = 0
    BY <2>1, TwoFields
  <2> QED
    BY <1>2, <1>5, <2>1, <2>2
<1>9. op \in LoadOps \cup AluLiteralOps \cup {"JALR"} =>
        i.rd = v(1) /\ i.rs1 = v(2) /\ i.rs2 = 0 /\ i.imm = v(3)
  <2> SUFFICES ASSUME op \in LoadOps \cup AluLiteralOps \cup {"JALR"}
               PROVE  i.rd = v(1) /\ i.rs1 = v(2) /\ i.rs2 = 0 /\ i.imm = v(3)
    OBVIOUS
  <2>1. Fields(op) = <<"rd", "rs1", "imm">> /\ Syntax(op) = <<Reg(0), Reg(0), Literal(0)>>
    BY <1>1, FieldsByGroup, SyntaxByGroup
  <2>2. /\ FieldValue(op, "rd", w) = NumberOf(w[1]) /\ FieldValue(op, "rs1", w) = NumberOf(w[2])
        /\ FieldValue(op, "imm", w) = NumberOf(w[3]) /\ FieldValue(op, "rs2", w) = 0
    BY <2>1, ThreeFields
  <2> QED
    BY <1>2, <1>4, <2>1, <2>2
<1>10. op \in StoreOps => i.rd = 0 /\ i.rs1 = v(1) /\ i.rs2 = v(2) /\ i.imm = v(3)
  <2> SUFFICES ASSUME op \in StoreOps
               PROVE  i.rd = 0 /\ i.rs1 = v(1) /\ i.rs2 = v(2) /\ i.imm = v(3)
    OBVIOUS
  <2>1. Fields(op) = <<"rs1", "rs2", "imm">> /\ Syntax(op) = <<Reg(0), Reg(0), Literal(0)>>
    BY <1>1, FieldsByGroup, SyntaxByGroup
  <2>2. /\ FieldValue(op, "rs1", w) = NumberOf(w[1]) /\ FieldValue(op, "rs2", w) = NumberOf(w[2])
        /\ FieldValue(op, "imm", w) = NumberOf(w[3]) /\ FieldValue(op, "rd", w) = 0
    BY <2>1, ThreeFields
  <2> QED
    BY <1>2, <1>4, <2>1, <2>2
<1>11. op \in ConditionalBranches => i.rd = 0 /\ i.rs1 = 0 /\ i.rs2 = 0 /\ i.imm = v(1)
  <2> SUFFICES ASSUME op \in ConditionalBranches
               PROVE  i.rd = 0 /\ i.rs1 = 0 /\ i.rs2 = 0 /\ i.imm = v(1)
    OBVIOUS
  <2>1. Fields(op) = <<"imm">> /\ Syntax(op) = <<Literal(0)>>
    BY <1>1, FieldsByGroup, SyntaxByGroup
  <2>2. /\ FieldValue(op, "imm", w) = NumberOf(w[1]) /\ FieldValue(op, "rd", w) = 0
        /\ FieldValue(op, "rs1", w) = 0 /\ FieldValue(op, "rs2", w) = 0
    BY <2>1, OneField
  <2> QED
    BY <1>2, <1>6, <2>1, <2>2
<1>12. op \in {"CML", "JUMP"} => i.rd = 0 /\ i.rs1 = v(1) /\ i.rs2 = 0 /\ i.imm = v(2)
  <2> SUFFICES ASSUME op \in {"CML", "JUMP"}
               PROVE  i.rd = 0 /\ i.rs1 = v(1) /\ i.rs2 = 0 /\ i.imm = v(2)
    OBVIOUS
  <2>1. Fields(op) = <<"rs1", "imm">> /\ Syntax(op) = <<Reg(0), Literal(0)>>
    BY <1>1, FieldsByGroup, SyntaxByGroup
  <2>2. /\ FieldValue(op, "rs1", w) = NumberOf(w[1]) /\ FieldValue(op, "imm", w) = NumberOf(w[2])
        /\ FieldValue(op, "rd", w) = 0 /\ FieldValue(op, "rs2", w) = 0
    BY <2>1, TwoFields
  <2> QED
    BY <1>2, <1>5, <2>1, <2>2
<1>13. op = "CMP" => i.rd = 0 /\ i.rs1 = v(1) /\ i.rs2 = v(2) /\ i.imm = 0
  <2> SUFFICES ASSUME op = "CMP"
               PROVE  i.rd = 0 /\ i.rs1 = v(1) /\ i.rs2 = v(2) /\ i.imm = 0
    OBVIOUS
  <2>1. Fields(op) = <<"rs1", "rs2">> /\ Syntax(op) = <<Reg(0), Reg(0)>>
    BY <1>1, FieldsByGroup, SyntaxByGroup
  <2>2. /\ FieldValue(op, "rs1", w) = NumberOf(w[1]) /\ FieldValue(op, "rs2", w) = NumberOf(w[2])
        /\ FieldValue(op, "rd", w) = 0 /\ FieldValue(op, "imm", w) = 0
    BY <2>1, TwoFields
  <2> QED
    BY <1>2, <1>5, <2>1, <2>2
<1>14. op \in {"NOP", "HALT"} => i.rd = 0 /\ i.rs1 = 0 /\ i.rs2 = 0 /\ i.imm = 0
  BY <1>1, <1>2, FieldsByGroup, NoField
<1> QED
  BY <1>2, <1>7, <1>8, <1>9, <1>10, <1>11, <1>12, <1>13, <1>14

\* A sequence without indices is empty.
LEMMA EmptyDomain ==
  ASSUME NEW S, NEW s \in Seq(S), DOMAIN s = {}
  PROVE  s = << >>
<1>1. Len(s) \in Nat /\ DOMAIN s = 1 .. Len(s)
  OBVIOUS
<1>2. Len(s) = 0
  BY <1>1
<1> QED
  BY <1>2

\* The listing of the instruction shows the operands of its line.
LEMMA ListedAsWritten ==
  ASSUME NEW l \in Lines, WellWritten(l), NEW held \in Buffers
  PROVE  /\ Made(l, held).opcode = OpcodeOf(l)
         /\ ShownOperands(Made(l, held)) = l.operands
<1> DEFINE i == Made(l, held)
           op == OpcodeOf(l)
           v(k) == l.operands[k].value
<1>1. op \in Opcodes /\ i.opcode = op
  BY OpcodeOfLine DEF Made, InstructionFrom
<1>2. l.operands \in Seq(Tokens) /\ DOMAIN l.operands = DOMAIN Syntax(op)
  BY DEF Lines, WellWritten
<1>3. \A k \in DOMAIN l.operands : l.operands[k] = [sigil |-> Syntax(op)[k].sigil, value |-> v(k)]
  BY OwnOperands
<1>4. ASSUME NEW a, NEW b, NEW c, Syntax(op) = <<a, b, c>>
      PROVE  l.operands = <<[sigil |-> a.sigil, value |-> v(1)], [sigil |-> b.sigil, value |-> v(2)],
                            [sigil |-> c.sigil, value |-> v(3)]>>
  <2>1. DOMAIN l.operands = 1 .. 3 /\ Len(l.operands) = 3
    BY <1>2, <1>4
  <2>2. /\ l.operands[1] = [sigil |-> a.sigil, value |-> v(1)]
        /\ l.operands[2] = [sigil |-> b.sigil, value |-> v(2)]
        /\ l.operands[3] = [sigil |-> c.sigil, value |-> v(3)]
    BY <1>3, <1>4, <2>1
  <2> HIDE DEF v
  <2> QED
    BY <1>2, <2>1, <2>2
<1>5. ASSUME NEW a, NEW b, Syntax(op) = <<a, b>>
      PROVE  l.operands = <<[sigil |-> a.sigil, value |-> v(1)], [sigil |-> b.sigil, value |-> v(2)]>>
  <2>1. DOMAIN l.operands = 1 .. 2 /\ Len(l.operands) = 2
    BY <1>2, <1>5
  <2>2. /\ l.operands[1] = [sigil |-> a.sigil, value |-> v(1)]
        /\ l.operands[2] = [sigil |-> b.sigil, value |-> v(2)]
    BY <1>3, <1>5, <2>1
  <2> HIDE DEF v
  <2> QED
    BY <1>2, <2>1, <2>2
<1>6. ASSUME NEW a, Syntax(op) = <<a>>
      PROVE  l.operands = <<[sigil |-> a.sigil, value |-> v(1)]>>
  <2>1. DOMAIN l.operands = 1 .. 1 /\ Len(l.operands) = 1
    BY <1>2, <1>6
  <2>2. l.operands[1] = [sigil |-> a.sigil, value |-> v(1)]
    BY <1>3, <1>6, <2>1
  <2> HIDE DEF v
  <2> QED
    BY <1>2, <2>1, <2>2
<1>7. \A n : /\ Reg(n) = [sigil |-> "R", value |-> n] /\ Reg(n).sigil = "R"
             /\ Literal(n) = [sigil |-> "#", value |-> n] /\ Literal(n).sigil = "#"
  BY DEF Reg, Literal
<1>8. CASE op \in Alu2Ops \cup {"DIV"}
  <2>1. Syntax(op) = <<Reg(0), Reg(0), Reg(0)>>
    BY <1>1, <1>8, SyntaxByGroup
  <2>2. l.operands = <<[sigil |-> Reg(0).sigil, value |-> v(1)],
                        [sigil |-> Reg(0).sigil, value |-> v(2)],
                        [sigil |-> Reg(0).sigil, value |-> v(3)]>>
    BY <1>4, <2>1
  <2>3. l.operands = <<Reg(v(1)), Reg(v(2)), Reg(v(3))>>
    BY <1>7, <2>2
  <2> QED
    BY <1>1, <1>8, <2>3, MadeFields, ShownByGroup
<1>9. CASE op = "MOVC"
  <2>1. Syntax(op) = <<Reg(0), Literal(0)>>
    BY <1>1, <1>9, SyntaxByGroup
  <2>2. l.operands = <<[sigil |-> Reg(0).sigil, value |-> v(1)],
                        [sigil |-> Literal(0).sigil, value |-> v(2)]>>
    BY <1>5, <2>1
  <2>3. l.operands = <<Reg(v(1)), Literal(v(2))>>
    BY <1>7, <2>2
  <2> QED
    BY <1>1, <1>9, <2>3, MadeFields, ShownByGroup
<1>10. CASE op \in LoadOps \cup AluLiteralOps \cup {"JALR"}
  <2>1. Syntax(op) = <<Reg(0), Reg(0), Literal(0)>>
    BY <1>1, <1>10, SyntaxByGroup
  <2>2. l.operands = <<[sigil |-> Reg(0).sigil, value |-> v(1)],
                        [sigil |-> Reg(0).sigil, value |-> v(2)],
                        [sigil |-> Literal(0).sigil, value |-> v(3)]>>
    BY <1>4, <2>1
  <2>3. l.operands = <<Reg(v(1)), Reg(v(2)), Literal(v(3))>>
    BY <1>7, <2>2
  <2> QED
    BY <1>1, <1>10, <2>3, MadeFields, ShownByGroup
<1>11. CASE op \in StoreOps
  <2>1. Syntax(op) = <<Reg(0), Reg(0), Literal(0)>>
    BY <1>1, <1>11, SyntaxByGroup
  <2>2. l.operands = <<[sigil |-> Reg(0).sigil, value |-> v(1)],
                        [sigil |-> Reg(0).sigil, value |-> v(2)],
                        [sigil |-> Literal(0).sigil, value |-> v(3)]>>
    BY <1>4, <2>1
  <2>3. l.operands = <<Reg(v(1)), Reg(v(2)), Literal(v(3))>>
    BY <1>7, <2>2
  <2> QED
    BY <1>1, <1>11, <2>3, MadeFields, ShownByGroup
<1>12. CASE op \in ConditionalBranches
  <2>1. Syntax(op) = <<Literal(0)>>
    BY <1>1, <1>12, SyntaxByGroup
  <2>2. l.operands = <<[sigil |-> Literal(0).sigil, value |-> v(1)]>>
    BY <1>6, <2>1
  <2>3. l.operands = <<Literal(v(1))>>
    BY <1>7, <2>2
  <2> QED
    BY <1>1, <1>12, <2>3, MadeFields, ShownByGroup
<1>13. CASE op \in {"CML", "JUMP"}
  <2>1. Syntax(op) = <<Reg(0), Literal(0)>>
    BY <1>1, <1>13, SyntaxByGroup
  <2>2. l.operands = <<[sigil |-> Reg(0).sigil, value |-> v(1)],
                        [sigil |-> Literal(0).sigil, value |-> v(2)]>>
    BY <1>5, <2>1
  <2>3. l.operands = <<Reg(v(1)), Literal(v(2))>>
    BY <1>7, <2>2
  <2> QED
    BY <1>1, <1>13, <2>3, MadeFields, ShownByGroup
<1>14. CASE op = "CMP"
  <2>1. Syntax(op) = <<Reg(0), Reg(0)>>
    BY <1>1, <1>14, SyntaxByGroup
  <2>2. l.operands = <<[sigil |-> Reg(0).sigil, value |-> v(1)],
                        [sigil |-> Reg(0).sigil, value |-> v(2)]>>
    BY <1>5, <2>1
  <2>3. l.operands = <<Reg(v(1)), Reg(v(2))>>
    BY <1>7, <2>2
  <2> QED
    BY <1>1, <1>14, <2>3, MadeFields, ShownByGroup
<1>15. CASE op \in {"NOP", "HALT"}
  <2>1. Syntax(op) = << >>
    BY <1>1, <1>15, SyntaxByGroup
  <2>2. DOMAIN l.operands = {}
    BY <1>2, <2>1
  <2>3. l.operands = << >>
    BY <1>2, <2>2, EmptyDomain
  <2> QED
    BY <1>1, <1>15, <2>3, ShownByGroup
<1> QED
  BY <1>1, <1>8, <1>9, <1>10, <1>11, <1>12, <1>13, <1>14, <1>15, Groups

\* Whatever the buffers held, the instruction is the same.
LEMMA MadeAlike ==
  ASSUME NEW l \in Lines, WellWritten(l), NEW h \in Buffers, NEW g \in Buffers
  PROVE  Made(l, h) = Made(l, g)
<1>1. OpcodeOf(l) \in Opcodes
  BY OpcodeOfLine
<1>2. /\ Made(l, h).rd = Made(l, g).rd /\ Made(l, h).rs1 = Made(l, g).rs1
      /\ Made(l, h).rs2 = Made(l, g).rs2 /\ Made(l, h).imm = Made(l, g).imm
  BY <1>1, MadeFields, Groups
<1>3. /\ Made(l, h) = [opcode |-> OpcodeOf(l), rd |-> Made(l, h).rd, rs1 |-> Made(l, h).rs1,
                       rs2 |-> Made(l, h).rs2, imm |-> Made(l, h).imm]
      /\ Made(l, g) = [opcode |-> OpcodeOf(l), rd |-> Made(l, g).rd, rs1 |-> Made(l, g).rs1,
                       rs2 |-> Made(l, g).rs2, imm |-> Made(l, g).imm]
  BY MadeFields
<1> QED
  BY <1>2, <1>3

\* A line on a program's registers becomes an instruction on them.
LEMMA MadeInsn ==
  ASSUME NEW l \in Lines, WellWritten(l), InProgramRegisters(l), NEW held \in Buffers
  PROVE  Made(l, held) \in Insns
<1> DEFINE i == Made(l, held)
           op == OpcodeOf(l)
           v(k) == l.operands[k].value
<1>1. op \in Opcodes /\ 0 \in ProgramRegisters /\ 0 \in Int
  BY OpcodeOfLine, SizesAssumption DEF ProgramRegisters
<1>2. /\ l.operands \in Seq(Tokens) /\ DOMAIN l.operands = DOMAIN Syntax(op)
      /\ \A k \in DOMAIN l.operands : l.operands[k].sigil = Syntax(op)[k].sigil
  BY DEF Lines, WellWritten
<1>3. \A k \in DOMAIN Syntax(op) :
        v(k) \in Int /\ (Syntax(op)[k].sigil = "R" => v(k) \in ProgramRegisters)
  <2>1. ASSUME NEW k \in DOMAIN l.operands PROVE l.operands[k] \in Tokens
    BY <1>2
  <2>2. ASSUME NEW k \in DOMAIN l.operands PROVE v(k) \in Int
    BY <2>1 DEF Tokens
  <2>3. ASSUME NEW k \in DOMAIN l.operands, l.operands[k].sigil = "R"
        PROVE  v(k) \in ProgramRegisters
    BY <2>3 DEF InProgramRegisters
  <2> QED
    BY <1>2, <2>2, <2>3
<1>4. \A n : Reg(n).sigil = "R"
  BY DEF Reg
<1>5. i = [opcode |-> op, rd |-> i.rd, rs1 |-> i.rs1, rs2 |-> i.rs2, imm |-> i.imm]
  BY MadeFields
<1> HIDE DEF i, op, v
<1>6. ASSUME NEW a, NEW b, NEW c, Syntax(op) = <<a, b, c>>
      PROVE  /\ v(1) \in Int /\ v(2) \in Int /\ v(3) \in Int
             /\ a.sigil = "R" => v(1) \in ProgramRegisters
             /\ b.sigil = "R" => v(2) \in ProgramRegisters
             /\ c.sigil = "R" => v(3) \in ProgramRegisters
  BY <1>3, <1>6
<1>7. ASSUME NEW a, NEW b, Syntax(op) = <<a, b>>
      PROVE  /\ v(1) \in Int /\ v(2) \in Int
             /\ a.sigil = "R" => v(1) \in ProgramRegisters
             /\ b.sigil = "R" => v(2) \in ProgramRegisters
  BY <1>3, <1>7
<1>8. ASSUME NEW a, Syntax(op) = <<a>> PROVE v(1) \in Int
  BY <1>3, <1>8
<1>9. /\ i.rd \in ProgramRegisters /\ i.rs1 \in ProgramRegisters
      /\ i.rs2 \in ProgramRegisters /\ i.imm \in Int
  <2>1. CASE op \in Alu2Ops \cup {"DIV"}
    <3>1. Syntax(op) = <<Reg(0), Reg(0), Reg(0)>>
      BY <1>1, <2>1, SyntaxByGroup
    <3>2. i.rd = v(1) /\ i.rs1 = v(2) /\ i.rs2 = v(3) /\ i.imm = 0
      BY <2>1, MadeFields DEF i, op, v
    <3> QED
      BY <1>1, <1>4, <1>6, <3>1, <3>2
  <2>2. CASE op = "MOVC"
    <3>1. Syntax(op) = <<Reg(0), Literal(0)>>
      BY <1>1, <2>2, SyntaxByGroup
    <3>2. i.rd = v(1) /\ i.rs1 = 0 /\ i.rs2 = 0 /\ i.imm = v(2)
      BY <2>2, MadeFields DEF i, op, v
    <3> QED
      BY <1>1, <1>4, <1>7, <3>1, <3>2
  <2>3. CASE op \in LoadOps \cup AluLiteralOps \cup {"JALR"}
    <3>1. Syntax(op) = <<Reg(0), Reg(0), Literal(0)>>
      BY <1>1, <2>3, SyntaxByGroup
    <3>2. i.rd = v(1) /\ i.rs1 = v(2) /\ i.rs2 = 0 /\ i.imm = v(3)
      BY <2>3, MadeFields DEF i, op, v
    <3> QED
      BY <1>1, <1>4, <1>6, <3>1, <3>2
  <2>4. CASE op \in StoreOps
    <3>1. Syntax(op) = <<Reg(0), Reg(0), Literal(0)>>
      BY <1>1, <2>4, SyntaxByGroup
    <3>2. i.rd = 0 /\ i.rs1 = v(1) /\ i.rs2 = v(2) /\ i.imm = v(3)
      BY <2>4, MadeFields DEF i, op, v
    <3> QED
      BY <1>1, <1>4, <1>6, <3>1, <3>2
  <2>5. CASE op \in ConditionalBranches
    <3>1. Syntax(op) = <<Literal(0)>>
      BY <1>1, <2>5, SyntaxByGroup
    <3>2. i.rd = 0 /\ i.rs1 = 0 /\ i.rs2 = 0 /\ i.imm = v(1)
      BY <2>5, MadeFields DEF i, op, v
    <3> QED
      BY <1>1, <1>8, <3>1, <3>2
  <2>6. CASE op \in {"CML", "JUMP"}
    <3>1. Syntax(op) = <<Reg(0), Literal(0)>>
      BY <1>1, <2>6, SyntaxByGroup
    <3>2. i.rd = 0 /\ i.rs1 = v(1) /\ i.rs2 = 0 /\ i.imm = v(2)
      BY <2>6, MadeFields DEF i, op, v
    <3> QED
      BY <1>1, <1>4, <1>7, <3>1, <3>2
  <2>7. CASE op = "CMP"
    <3>1. Syntax(op) = <<Reg(0), Reg(0)>>
      BY <1>1, <2>7, SyntaxByGroup
    <3>2. i.rd = 0 /\ i.rs1 = v(1) /\ i.rs2 = v(2) /\ i.imm = 0
      BY <2>7, MadeFields DEF i, op, v
    <3> QED
      BY <1>1, <1>4, <1>7, <3>1, <3>2
  <2>8. CASE op \in {"NOP", "HALT"}
    <3>1. i.rd = 0 /\ i.rs1 = 0 /\ i.rs2 = 0 /\ i.imm = 0
      BY <2>8, MadeFields DEF i, op, v
    <3> QED
      BY <1>1, <3>1
  <2> QED
    BY <1>1, <2>1, <2>2, <2>3, <2>4, <2>5, <2>6, <2>7, <2>8, Groups
<1>10. i \in Insns
  BY <1>1, <1>5, <1>9 DEF Insns
<1> QED
  BY <1>10 DEF i

(***************************************************************************)
(* The invariant.                                                          *)
(***************************************************************************)
LEMMA FileTypes ==
  ASSUME PInv
  PROVE  /\ file \in Seq(Lines) /\ Len(file) \in Nat
         /\ \A k \in 1 .. Len(file) : file[k] \in Lines
  BY FilesAssumption DEF PInv

LEMMA ParserInitInv ==
  ASSUME ParserInit
  PROVE  PInv
<1>1. file \in Seq(Lines) /\ Len(file) \in Nat /\ tokens \in Buffers
  BY FilesAssumption DEF ParserInit, Buffers
<1> QED
  BY <1>1 DEF ParserInit, PInv, Outcomes, Parsed

\* Overwriting keeps six tokens in the buffers.
LEMMA OverwrittenType ==
  ASSUME NEW l \in Lines, NEW held \in Buffers
  PROVE  Overwritten(held, l) \in Buffers
<1>1. OperandTokens(l) \in Seq(Tokens)
  <2>1. NewlineToken \in Tokens
    BY DEF NewlineToken, Tokens, Sigils
  <2>2. <<NewlineToken>> \in Seq(Tokens)
    BY <2>1
  <2>3. l.operands \in Seq(Tokens)
    BY DEF Lines
  <2> QED
    BY <2>2, <2>3 DEF OperandTokens
<1>2. ASSUME NEW k \in 1 .. MAX_TOKENS
      PROVE  (IF k <= Len(OperandTokens(l)) THEN OperandTokens(l)[k] ELSE held[k]) \in Tokens
  BY <1>1, <1>2 DEF Buffers, MAX_TOKENS
<1> QED
  BY <1>2 DEF Overwritten, Buffers

LEMMA ParserStepInv ==
  ASSUME PInv, [ParserNext]_parserVars
  PROVE  PInv'
<1> USE FileTypes
<1>1. CASE ReturnNULL
  BY <1>1 DEF PInv, ReturnNULL, Outcomes, Parsed, MadeFrom
<1>2. CASE CountLines
  BY <1>2 DEF PInv, CountLines, Outcomes, Parsed, MadeFrom
<1>3. CASE CreateInstruction
  <2> DEFINE n == current_instruction + 1
  <2>1. PICK held \in {tokens} \cup [1 .. MAX_TOKENS -> StackContents] :
          tokens' = Overwritten(held, ThisLine)
    BY <1>3 DEF CreateInstruction
  <2>2. held \in Buffers
    BY FilesAssumption DEF PInv, Buffers
  <2>3. n \in 1 .. Len(file) /\ ThisLine = file[n] /\ ThisLine \in Lines
    BY <1>3 DEF PInv, CreateInstruction, LineLeft, ThisLine
  <2>4. tokens' \in Buffers
    BY <2>1, <2>2, <2>3, OverwrittenType
  <2>5. /\ file' = file /\ outcome' = outcome /\ outcome = "reading"
        /\ current_instruction' = n
        /\ KnownMnemonic(file[n])
        /\ code_memory' = [code_memory EXCEPT ![n] = InstructionFrom(OpcodeOf(file[n]), tokens')]
    BY <1>3, <2>3 DEF CreateInstruction, LineLeft
  <2>6. code_memory = [k \in 1 .. Len(file) |-> code_memory[k]]
    BY <2>5 DEF PInv
  <2>7. DOMAIN code_memory = 1 .. Len(file)
    BY <2>6
  <2>8. code_memory' = [k \in 1 .. Len(file') |-> code_memory'[k]]
    BY <2>5, <2>7
  <2>9. MadeFrom(code_memory'[n], file[n])
    BY <2>1, <2>2, <2>3, <2>5, <2>7 DEF MadeFrom
  <2>10. \A k \in 1 .. current_instruction : code_memory'[k] = code_memory[k]
    BY <2>5, <2>7 DEF PInv
  <2>11. \A k \in Parsed' : KnownMnemonic(file'[k]) /\ MadeFrom(code_memory'[k], file'[k])
    BY <2>3, <2>5, <2>9, <2>10 DEF PInv, Parsed
  <2> QED
    BY <2>3, <2>4, <2>5, <2>8, <2>11 DEF PInv
<1>4. CASE InvalidOpcode
  BY <1>4 DEF PInv, InvalidOpcode, LineLeft, Outcomes, Parsed, MadeFrom
<1>5. CASE CopiedOutOfBounds
  BY <1>5 DEF PInv, CopiedOutOfBounds, LineLeft, Outcomes, Parsed, MadeFrom
<1>6. CASE ReturnCodeMemory
  BY <1>6 DEF PInv, ReturnCodeMemory, Outcomes, Parsed, MadeFrom
<1>7. CASE UNCHANGED parserVars
  BY <1>7 DEF PInv, parserVars, Parsed, MadeFrom
<1> QED
  BY <1>1, <1>2, <1>3, <1>4, <1>5, <1>6, <1>7 DEF ParserNext

LEMMA ParserInvariant == ParserSpec => []PInv
<1>1. ParserInit => PInv
  BY ParserInitInv
<1>2. PInv /\ [ParserNext]_parserVars => PInv'
  BY ParserStepInv
<1> QED
  BY <1>1, <1>2, PTL DEF ParserSpec

(***************************************************************************)
(* The theorems.                                                           *)
(***************************************************************************)
\* For every file, whatever its other lines are, the listing of an instruction shows the
\* operands its line has: create_APEX_instruction and print_instruction_arch agree on the
\* place of every operand of every opcode.
THEOREM InstructionsAsWritten == ParserSpec => []PrintedAsWritten
<1>1. PInv => PrintedAsWritten
  <2> SUFFICES ASSUME PInv, NEW k \in Parsed, WellWritten(file[k])
               PROVE  /\ code_memory[k].opcode = OpcodeOf(file[k])
                      /\ ShownOperands(code_memory[k]) = file[k].operands
    BY DEF PrintedAsWritten
  <2>1. file[k] \in Lines /\ MadeFrom(code_memory[k], file[k])
    BY FileTypes DEF PInv, Parsed
  <2>2. PICK held \in Buffers : code_memory[k] = Made(file[k], held)
    BY <2>1 DEF MadeFrom, Made
  <2> QED
    BY <2>1, <2>2, ListedAsWritten
<1> QED
  BY <1>1, ParserInvariant, PTL

\* No operand of an earlier line, still in the buffers on the stack, reaches an instruction
\* whose line has its own operands.
THEOREM NoOperandStays == ParserSpec => []LinesStandAlone
<1>1. PInv => LinesStandAlone
  <2> SUFFICES ASSUME PInv, NEW j \in Parsed, NEW k \in Parsed, file[j] = file[k],
                      WellWritten(file[k])
               PROVE  code_memory[j] = code_memory[k]
    BY DEF LinesStandAlone
  <2>1. /\ file[k] \in Lines
        /\ MadeFrom(code_memory[j], file[k]) /\ MadeFrom(code_memory[k], file[k])
    BY FileTypes DEF PInv, Parsed
  <2>2. PICK h \in Buffers : code_memory[j] = Made(file[k], h)
    BY <2>1 DEF MadeFrom, Made
  <2>3. PICK g \in Buffers : code_memory[k] = Made(file[k], g)
    BY <2>1 DEF MadeFrom, Made
  <2> QED
    BY <2>1, <2>2, <2>3, MadeAlike
<1> QED
  BY <1>1, ParserInvariant, PTL

\* What the parser returns for a file of well written lines on a program's registers is a
\* code memory the pipeline's other theorems take for granted.
THEOREM LoadedAreInsns == ParserSpec => []LoadsPrograms
<1>1. PInv => LoadsPrograms
  <2> SUFFICES ASSUME PInv, outcome = "loaded",
                      \A k \in DOMAIN file : WellWritten(file[k]) /\ InProgramRegisters(file[k])
               PROVE  code_memory \in Seq(Insns)
    BY DEF LoadsPrograms
  <2>1. /\ code_memory = [k \in 1 .. Len(file) |-> code_memory[k]]
        /\ Parsed = 1 .. Len(file) /\ DOMAIN file = 1 .. Len(file) /\ Len(file) \in Nat
    BY FileTypes DEF PInv, Parsed
  <2>2. ASSUME NEW k \in 1 .. Len(file) PROVE code_memory[k] \in Insns
    <3>1. file[k] \in Lines /\ MadeFrom(code_memory[k], file[k])
      BY <2>1, FileTypes DEF PInv
    <3>2. PICK held \in Buffers : code_memory[k] = Made(file[k], held)
      BY <3>1 DEF MadeFrom, Made
    <3> QED
      BY <2>1, <3>1, <3>2, MadeInsn
  <2>3. code_memory \in [1 .. Len(file) -> Insns]
    BY <2>1, <2>2
  <2> QED
    BY <2>1, <2>3
<1> QED
  BY <1>1, ParserInvariant, PTL
=============================================================================
