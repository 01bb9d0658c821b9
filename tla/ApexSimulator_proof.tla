-------------------------- MODULE ApexSimulator_proof --------------------------
(***************************************************************************)
(* Proofs about the whole program: whatever instruction sequence is        *)
(* written to a file, the pipeline runs on that sequence, and the program  *)
(* implements the pipeline's module on it.  RoundTrip is the fact about    *)
(* text behind it; SimInv carries it through the parser's loop, and no     *)
(* stage of the pipeline writes the code memory.                           *)
(***************************************************************************)
EXTENDS ApexSimulator, TLAPS

SimInv ==
  /\ file \in {TextOf(p) : p \in Programs}
  /\ current_instruction \in 0 .. Len(MeantProgram)
  /\ outcome = "opening" => current_instruction = 0
  /\ outcome = "loaded" => current_instruction = Len(MeantProgram)
  /\ outcome \in {"reading", "loaded"} =>
       /\ code_memory = [k \in 1 .. Len(MeantProgram) |-> code_memory[k]]
       /\ \A k \in 1 .. current_instruction : code_memory[k] = MeantProgram[k]
  /\ main \in {"running", "prompt"} => outcome = "loaded"

(***************************************************************************)
(* Text and instructions.                                                  *)
(***************************************************************************)
LEMMA FieldAt ==
  ASSUME NEW op, NEW words, NEW k \in DOMAIN Parser!Fields(op),
         \A j \in DOMAIN Parser!Fields(op) : Parser!Fields(op)[j] = Parser!Fields(op)[k] => j = k
  PROVE  Parser!FieldValue(op, Parser!Fields(op)[k], words) = Parser!NumberOf(words[k])
<1> DEFINE n == CHOOSE j \in DOMAIN Parser!Fields(op) : Parser!Fields(op)[j] = Parser!Fields(op)[k]
<1>1. n \in DOMAIN Parser!Fields(op) /\ Parser!Fields(op)[n] = Parser!Fields(op)[k]
  OBVIOUS
<1>2. n = k
  BY <1>1
<1> QED
  BY <1>2 DEF Parser!FieldValue

LEMMA FieldAbsent ==
  ASSUME NEW op, NEW words, NEW f, \A j \in DOMAIN Parser!Fields(op) : Parser!Fields(op)[j] # f
  PROVE  Parser!FieldValue(op, f, words) = 0
  BY DEF Parser!FieldValue

\* The numbers of operands that have their R or #.
LEMMA NumbersShown ==
  \A v : Parser!NumberOf(Reg(v)) = v /\ Parser!NumberOf(Literal(v)) = v
BY DEF Parser!NumberOf, Reg, Literal

\* The fields of an instruction made from three, two, one or no operands.
LEMMA ThreeFields ==
  ASSUME NEW op, NEW words, NEW f, NEW g, NEW h, f # g, g # h, f # h,
         Parser!Fields(op) = <<f, g, h>>
  PROVE  /\ Parser!FieldValue(op, f, words) = Parser!NumberOf(words[1])
         /\ Parser!FieldValue(op, g, words) = Parser!NumberOf(words[2])
         /\ Parser!FieldValue(op, h, words) = Parser!NumberOf(words[3])
         /\ \A e : e # f /\ e # g /\ e # h => Parser!FieldValue(op, e, words) = 0
<1>1. /\ DOMAIN Parser!Fields(op) = {1, 2, 3} /\ Parser!Fields(op)[1] = f
      /\ Parser!Fields(op)[2] = g /\ Parser!Fields(op)[3] = h
  OBVIOUS
<1>2. /\ \A j \in DOMAIN Parser!Fields(op) : Parser!Fields(op)[j] = f => j = 1
      /\ \A j \in DOMAIN Parser!Fields(op) : Parser!Fields(op)[j] = g => j = 2
      /\ \A j \in DOMAIN Parser!Fields(op) : Parser!Fields(op)[j] = h => j = 3
  BY <1>1
<1> QED
  BY <1>1, <1>2, FieldAt, FieldAbsent

LEMMA TwoFields ==
  ASSUME NEW op, NEW words, NEW f, NEW g, f # g, Parser!Fields(op) = <<f, g>>
  PROVE  /\ Parser!FieldValue(op, f, words) = Parser!NumberOf(words[1])
         /\ Parser!FieldValue(op, g, words) = Parser!NumberOf(words[2])
         /\ \A e : e # f /\ e # g => Parser!FieldValue(op, e, words) = 0
<1>1. /\ DOMAIN Parser!Fields(op) = {1, 2} /\ Parser!Fields(op)[1] = f
      /\ Parser!Fields(op)[2] = g
  OBVIOUS
<1>2. /\ \A j \in DOMAIN Parser!Fields(op) : Parser!Fields(op)[j] = f => j = 1
      /\ \A j \in DOMAIN Parser!Fields(op) : Parser!Fields(op)[j] = g => j = 2
  BY <1>1
<1> QED
  BY <1>1, <1>2, FieldAt, FieldAbsent

LEMMA OneField ==
  ASSUME NEW op, NEW words, NEW f, Parser!Fields(op) = <<f>>
  PROVE  /\ Parser!FieldValue(op, f, words) = Parser!NumberOf(words[1])
         /\ \A e : e # f => Parser!FieldValue(op, e, words) = 0
<1>1. DOMAIN Parser!Fields(op) = {1} /\ Parser!Fields(op)[1] = f
  OBVIOUS
<1> QED
  BY <1>1, FieldAt, FieldAbsent

LEMMA NoField ==
  ASSUME NEW op, NEW words, Parser!Fields(op) = << >>
  PROVE  \A e : Parser!FieldValue(op, e, words) = 0
<1>1. DOMAIN Parser!Fields(op) = {}
  OBVIOUS
<1> QED
  BY <1>1, FieldAbsent

\* The groups of opcodes that have the same operands: what the listing shows, and what the
\* parser takes.
LEMMA ShownByGroup ==
  ASSUME NEW i, i.opcode \in Opcodes
  PROVE  /\ i.opcode \in Alu2Ops \cup {"DIV"} =>
              ShownOperands(i) = <<Reg(i.rd), Reg(i.rs1), Reg(i.rs2)>>
         /\ i.opcode = "MOVC" => ShownOperands(i) = <<Reg(i.rd), Literal(i.imm)>>
         /\ i.opcode \in LoadOps \cup AluLiteralOps \cup {"JALR"} =>
              ShownOperands(i) = <<Reg(i.rd), Reg(i.rs1), Literal(i.imm)>>
         /\ i.opcode \in StoreOps =>
              ShownOperands(i) = <<Reg(i.rs1), Reg(i.rs2), Literal(i.imm)>>
         /\ i.opcode \in ConditionalBranches => ShownOperands(i) = <<Literal(i.imm)>>
         /\ i.opcode \in {"CML", "JUMP"} =>
              ShownOperands(i) = <<Reg(i.rs1), Literal(i.imm)>>
         /\ i.opcode = "CMP" => ShownOperands(i) = <<Reg(i.rs1), Reg(i.rs2)>>
         /\ i.opcode \in {"NOP", "HALT"} => ShownOperands(i) = << >>
  BY DEF ShownOperands, Opcodes, Alu2Ops, AluLiteralOps, LoadOps, StoreOps, MemoryOps,
         ConditionalBranches, JumpOps, BranchOps, NoSourceOps

LEMMA FieldsByGroup ==
  ASSUME NEW op \in Opcodes
  PROVE  /\ op \in Alu2Ops \cup {"DIV"} => Parser!Fields(op) = <<"rd", "rs1", "rs2">>
         /\ op = "MOVC" => Parser!Fields(op) = <<"rd", "imm">>
         /\ op \in LoadOps \cup AluLiteralOps \cup {"JALR"} =>
              Parser!Fields(op) = <<"rd", "rs1", "imm">>
         /\ op \in StoreOps => Parser!Fields(op) = <<"rs1", "rs2", "imm">>
         /\ op \in ConditionalBranches => Parser!Fields(op) = <<"imm">>
         /\ op \in {"CML", "JUMP"} => Parser!Fields(op) = <<"rs1", "imm">>
         /\ op = "CMP" => Parser!Fields(op) = <<"rs1", "rs2">>
         /\ op \in {"NOP", "HALT"} => Parser!Fields(op) = << >>
<1>1. /\ Parser!LoadFields = <<"rd", "rs1", "imm">> /\ Parser!StoreFields = <<"rs1", "rs2", "imm">>
  BY DEF Parser!LoadFields, Parser!StoreFields
<1>2. /\ Parser!Alu2Ops = Alu2Ops /\ Parser!AluLiteralOps = AluLiteralOps
      /\ Parser!LoadOps = LoadOps /\ Parser!StoreOps = StoreOps
      /\ Parser!ConditionalBranches = ConditionalBranches
  BY DEF Parser!Alu2Ops, Alu2Ops, Parser!AluLiteralOps, AluLiteralOps, Parser!LoadOps, LoadOps,
         Parser!StoreOps, StoreOps, Parser!ConditionalBranches, ConditionalBranches
<1> QED
  BY <1>1, <1>2 DEF Parser!Fields, Opcodes, Alu2Ops, AluLiteralOps, LoadOps, StoreOps, MemoryOps,
         ConditionalBranches, JumpOps, BranchOps, NoSourceOps

\* A field that is not among the operands is 0 in a program's instruction.
LEMMA PlainByGroup ==
  ASSUME NEW i, i.opcode \in Opcodes, Plain(i)
  PROVE  /\ i.opcode \in Alu2Ops \cup {"DIV"} => i.imm = 0
         /\ i.opcode = "MOVC" => i.rs1 = 0 /\ i.rs2 = 0
         /\ i.opcode \in LoadOps \cup AluLiteralOps \cup {"JALR"} => i.rs2 = 0
         /\ i.opcode \in StoreOps => i.rd = 0
         /\ i.opcode \in ConditionalBranches => i.rd = 0 /\ i.rs1 = 0 /\ i.rs2 = 0
         /\ i.opcode \in {"CML", "JUMP"} => i.rd = 0 /\ i.rs2 = 0
         /\ i.opcode = "CMP" => i.rd = 0 /\ i.imm = 0
         /\ i.opcode \in {"NOP", "HALT"} => i.rd = 0 /\ i.rs1 = 0 /\ i.rs2 = 0 /\ i.imm = 0
BY DEF Plain, Opcodes, Alu2Ops, AluLiteralOps, LoadOps, StoreOps, MemoryOps, DestinationOps,
       Source1Ops, Source2Ops, ConditionalBranches, JumpOps, BranchOps, NoSourceOps

LEMMA Groups ==
  ASSUME NEW op \in Opcodes
  PROVE  \/ op \in Alu2Ops \cup {"DIV"}
         \/ op = "MOVC"
         \/ op \in LoadOps \cup AluLiteralOps \cup {"JALR"}
         \/ op \in StoreOps
         \/ op \in ConditionalBranches
         \/ op \in {"CML", "JUMP"}
         \/ op = "CMP"
         \/ op \in {"NOP", "HALT"}
  BY DEF Opcodes, Alu2Ops, AluLiteralOps, LoadOps, StoreOps, MemoryOps, ConditionalBranches,
         JumpOps, BranchOps, NoSourceOps

\* An instruction read back from the operands its listing shows is the same instruction.
LEMMA RoundTrip ==
  ASSUME NEW i \in Insns, Plain(i), NEW words,
         \A k \in DOMAIN ShownOperands(i) : words[k] = ShownOperands(i)[k]
  PROVE  Parser!InstructionFrom(i.opcode, words) = i
<1> DEFINE F(f) == Parser!FieldValue(i.opcode, f, words)
<1>1. i.opcode \in Opcodes
  BY DEF Insns
<1>2. i = [opcode |-> i.opcode, rd |-> i.rd, rs1 |-> i.rs1, rs2 |-> i.rs2, imm |-> i.imm]
  BY DEF Insns
<1>3. Parser!InstructionFrom(i.opcode, words) =
        [opcode |-> i.opcode, rd |-> F("rd"), rs1 |-> F("rs1"), rs2 |-> F("rs2"), imm |-> F("imm")]
  BY DEF Parser!InstructionFrom
<1>4. ASSUME NEW a, NEW b, NEW c, ShownOperands(i) = <<a, b, c>>
      PROVE  words[1] = a /\ words[2] = b /\ words[3] = c
  BY <1>4
<1>5. ASSUME NEW a, NEW b, ShownOperands(i) = <<a, b>> PROVE words[1] = a /\ words[2] = b
  BY <1>5
<1>6. ASSUME NEW a, ShownOperands(i) = <<a>> PROVE words[1] = a
  BY <1>6
<1> HIDE DEF F
<1>7. F("rd") = i.rd /\ F("rs1") = i.rs1 /\ F("rs2") = i.rs2 /\ F("imm") = i.imm
  <2>1. CASE i.opcode \in Alu2Ops \cup {"DIV"}
    <3>1. words[1] = Reg(i.rd) /\ words[2] = Reg(i.rs1) /\ words[3] = Reg(i.rs2)
      BY <1>1, <1>4, <2>1, ShownByGroup, FieldsByGroup
    <3>2. Parser!Fields(i.opcode) = <<"rd", "rs1", "rs2">>
      BY <1>1, <2>1, ShownByGroup, FieldsByGroup
    <3>3. /\ F("rd") = Parser!NumberOf(words[1]) /\ F("rs1") = Parser!NumberOf(words[2])
          /\ F("rs2") = Parser!NumberOf(words[3]) /\ F("imm") = 0
      BY <3>2, ThreeFields DEF F
    <3> QED
      BY <1>1, <2>1, <3>1, <3>3, NumbersShown, PlainByGroup
  <2>2. CASE i.opcode = "MOVC"
    <3>1. words[1] = Reg(i.rd) /\ words[2] = Literal(i.imm)
      BY <1>1, <1>5, <2>2, ShownByGroup, FieldsByGroup
    <3>2. Parser!Fields(i.opcode) = <<"rd", "imm">>
      BY <1>1, <2>2, ShownByGroup, FieldsByGroup
    <3>3. /\ F("rd") = Parser!NumberOf(words[1]) /\ F("imm") = Parser!NumberOf(words[2])
          /\ F("rs1") = 0 /\ F("rs2") = 0
      BY <3>2, TwoFields DEF F
    <3> QED
      BY <1>1, <2>2, <3>1, <3>3, NumbersShown, PlainByGroup
  <2>3. CASE i.opcode \in LoadOps \cup AluLiteralOps \cup {"JALR"}
    <3>1. words[1] = Reg(i.rd) /\ words[2] = Reg(i.rs1) /\ words[3] = Literal(i.imm)
      BY <1>1, <1>4, <2>3, ShownByGroup, FieldsByGroup
    <3>2. Parser!Fields(i.opcode) = <<"rd", "rs1", "imm">>
      BY <1>1, <2>3, ShownByGroup, FieldsByGroup
    <3>3. /\ F("rd") = Parser!NumberOf(words[1]) /\ F("rs1") = Parser!NumberOf(words[2])
          /\ F("imm") = Parser!NumberOf(words[3]) /\ F("rs2") = 0
      BY <3>2, ThreeFields DEF F
    <3> QED
      BY <1>1, <2>3, <3>1, <3>3, NumbersShown, PlainByGroup
  <2>4. CASE i.opcode \in StoreOps
    <3>1. words[1] = Reg(i.rs1) /\ words[2] = Reg(i.rs2) /\ words[3] = Literal(i.imm)
      BY <1>1, <1>4, <2>4, ShownByGroup, FieldsByGroup
    <3>2. Parser!Fields(i.opcode) = <<"rs1", "rs2", "imm">>
      BY <1>1, <2>4, ShownByGroup, FieldsByGroup
    <3>3. /\ F("rs1") = Parser!NumberOf(words[1]) /\ F("rs2") = Parser!NumberOf(words[2])
          /\ F("imm") = Parser!NumberOf(words[3]) /\ F("rd") = 0
      BY <3>2, ThreeFields DEF F
    <3> QED
      BY <1>1, <2>4, <3>1, <3>3, NumbersShown, PlainByGroup
  <2>5. CASE i.opcode \in ConditionalBranches
    <3>1. words[1] = Literal(i.imm)
      BY <1>1, <1>6, <2>5, ShownByGroup, FieldsByGroup
    <3>2. Parser!Fields(i.opcode) = <<"imm">>
      BY <1>1, <2>5, ShownByGroup, FieldsByGroup
    <3>3. F("imm") = Parser!NumberOf(words[1]) /\ F("rd") = 0 /\ F("rs1") = 0 /\ F("rs2") = 0
      BY <3>2, OneField DEF F
    <3> QED
      BY <1>1, <2>5, <3>1, <3>3, NumbersShown, PlainByGroup
  <2>6. CASE i.opcode \in {"CML", "JUMP"}
    <3>1. words[1] = Reg(i.rs1) /\ words[2] = Literal(i.imm)
      BY <1>1, <1>5, <2>6, ShownByGroup, FieldsByGroup
    <3>2. Parser!Fields(i.opcode) = <<"rs1", "imm">>
      BY <1>1, <2>6, ShownByGroup, FieldsByGroup
    <3>3. /\ F("rs1") = Parser!NumberOf(words[1]) /\ F("imm") = Parser!NumberOf(words[2])
          /\ F("rd") = 0 /\ F("rs2") = 0
      BY <3>2, TwoFields DEF F
    <3> QED
      BY <1>1, <2>6, <3>1, <3>3, NumbersShown, PlainByGroup
  <2>7. CASE i.opcode = "CMP"
    <3>1. words[1] = Reg(i.rs1) /\ words[2] = Reg(i.rs2)
      BY <1>1, <1>5, <2>7, ShownByGroup, FieldsByGroup
    <3>2. Parser!Fields(i.opcode) = <<"rs1", "rs2">>
      BY <1>1, <2>7, ShownByGroup, FieldsByGroup
    <3>3. /\ F("rs1") = Parser!NumberOf(words[1]) /\ F("rs2") = Parser!NumberOf(words[2])
          /\ F("rd") = 0 /\ F("imm") = 0
      BY <3>2, TwoFields DEF F
    <3> QED
      BY <1>1, <2>7, <3>1, <3>3, NumbersShown, PlainByGroup
  <2>8. CASE i.opcode \in {"NOP", "HALT"}
    <3>1. Parser!Fields(i.opcode) = << >>
      BY <1>1, <2>8, ShownByGroup, FieldsByGroup
    <3>2. F("rd") = 0 /\ F("rs1") = 0 /\ F("rs2") = 0 /\ F("imm") = 0
      BY <3>1, NoField DEF F
    <3> QED
      BY <1>1, <2>8, <3>2, PlainByGroup
  <2> QED
    BY <1>1, <2>1, <2>2, <2>3, <2>4, <2>5, <2>6, <2>7, <2>8, Groups
<1> QED
  BY <1>2, <1>3, <1>7

(***************************************************************************)
(* The file and the program it is of.                                      *)
(***************************************************************************)
LEMMA LenOfFunction ==
  ASSUME NEW n \in Nat, NEW f, f = [k \in 1 .. n |-> f[k]]
  PROVE  Len(f) = n
  OBVIOUS

LEMMA MeantByFile ==
  ASSUME SimInv
  PROVE  /\ MeantProgram \in Programs /\ TextOf(MeantProgram) = file
         /\ MeantProgram \in Seq(Insns) /\ Len(MeantProgram) \in Nat
         /\ Len(file) = Len(MeantProgram)
         /\ \A k \in 1 .. Len(MeantProgram) :
              /\ MeantProgram[k] \in Insns /\ Plain(MeantProgram[k])
              /\ file[k] = LineOf(MeantProgram[k], k = Len(MeantProgram))
<1> DEFINE p == MeantProgram
<1>1. p \in Programs /\ TextOf(p) = file
  BY DEF SimInv, MeantProgram
<1> HIDE DEF p
<1>2. p \in Seq(Insns)
  BY <1>1, ProgramsAssumption
<1>3. Len(p) \in Nat /\ DOMAIN p = 1 .. Len(p) /\ \A k \in 1 .. Len(p) : p[k] \in Insns
  BY <1>2
<1>4. file = [k \in 1 .. Len(p) |-> LineOf(p[k], k = Len(p))]
  BY <1>1, <1>3 DEF TextOf
<1>5. Len(file) = Len(p)
  <2>1. file = [k \in 1 .. Len(p) |-> file[k]]
    BY <1>4
  <2> QED
    BY <1>3, <2>1, LenOfFunction
<1>6. \A k \in 1 .. Len(p) : Plain(p[k])
  BY <1>1, <1>3, PlainAssumption
<1> QED
  BY <1>1, <1>2, <1>3, <1>4, <1>5, <1>6 DEF p

LEMMA OperandsAreList ==
  ASSUME NEW i \in Insns
  PROVE  /\ DOMAIN ShownOperands(i) = 1 .. Len(ShownOperands(i))
         /\ Len(ShownOperands(i)) \in 0 .. 3
         /\ Len(ShownOperands(i)) = 0 => ShownOperands(i) = << >>
<1>1. i.opcode \in Opcodes
  BY DEF Insns
<1>2. \/ \E a, b, c : ShownOperands(i) = <<a, b, c>>
      \/ \E a, b : ShownOperands(i) = <<a, b>>
      \/ \E a : ShownOperands(i) = <<a>>
      \/ ShownOperands(i) = << >>
  BY <1>1, Groups, ShownByGroup
<1>3. CASE \E a, b, c : ShownOperands(i) = <<a, b, c>>
  BY <1>3
<1>4. CASE \E a, b : ShownOperands(i) = <<a, b>>
  BY <1>4
<1>5. CASE \E a : ShownOperands(i) = <<a>>
  BY <1>5
<1>6. CASE ShownOperands(i) = << >>
  BY <1>6
<1> QED
  BY <1>2, <1>3, <1>4, <1>5, <1>6

\* The line of an instruction becomes that instruction, whatever the buffers held.
LEMMA LineMakesInstruction ==
  ASSUME NEW i \in Insns, Plain(i), NEW last \in BOOLEAN, NEW held,
         Parser!FitsBuffers(LineOf(i, last))
  PROVE  Parser!InstructionFrom(Parser!OpcodeOf(LineOf(i, last)),
                                Parser!Overwritten(held, LineOf(i, last))) = i
<1> DEFINE l == LineOf(i, last)
           n == Len(ShownOperands(i))
<1>1. l.operands = ShownOperands(i) /\ l.mnemonic = IF i.opcode = "XOR" THEN "EX-OR" ELSE i.opcode
  BY DEF LineOf
<1>2. Parser!OpcodeOf(l) = i.opcode
  <2>1. i.opcode \in Opcodes
    BY DEF Insns
  <2>2. i.opcode # "EX-OR"
    BY <2>1 DEF Opcodes, Alu2Ops, AluLiteralOps, LoadOps, StoreOps, MemoryOps,
                ConditionalBranches, JumpOps, BranchOps, NoSourceOps
  <2> QED
    BY <1>1, <2>2 DEF Parser!OpcodeOf
<1>3. /\ DOMAIN ShownOperands(i) = 1 .. n /\ n \in 0 .. 3
      /\ n = 0 => ShownOperands(i) = << >>
  BY OperandsAreList
<1> HIDE DEF l, n
<1>4. ASSUME NEW k \in 1 .. n
      PROVE  Parser!Overwritten(held, l)[k] = ShownOperands(i)[k]
  <2>1. ShownOperands(i) # << >>
    BY <1>3, <1>4 DEF n
  <2>2. Parser!OperandTokens(l) = ShownOperands(i)
    BY <1>1, <2>1 DEF Parser!OperandTokens
  <2>3. k \in 1 .. Parser!MAX_TOKENS /\ k <= Len(Parser!OperandTokens(l))
    BY <1>3, <2>2 DEF n, Parser!MAX_TOKENS
  <2> QED
    BY <2>2, <2>3 DEF Parser!Overwritten
<1>5. Parser!InstructionFrom(i.opcode, Parser!Overwritten(held, l)) = i
  BY <1>3, <1>4, RoundTrip
<1> QED
  BY <1>2, <1>5 DEF l

(***************************************************************************)
(* The invariant.                                                          *)
(***************************************************************************)
LEMMA SimInitInv ==
  ASSUME SimInit
  PROVE  SimInv
<1>1. /\ file \in {TextOf(p) : p \in Programs} /\ outcome = "opening"
      /\ current_instruction = 0 /\ main = "started"
  BY DEF SimInit, Parser!ParserInit
<1>2. PICK p \in Programs : file = TextOf(p)
  BY <1>1
<1>3. MeantProgram \in Programs
  BY <1>2 DEF MeantProgram
<1>4. Len(MeantProgram) \in Nat
  BY <1>3, ProgramsAssumption
<1> QED
  BY <1>1, <1>4 DEF SimInv

\* No stage of the pipeline writes the code memory.
LEMMA CodeStays ==
  ASSUME Next
  PROVE  code_memory' = code_memory
<1>1. CASE CommitStage \/ CommitBelowZero
  BY <1>1 DEF CommitStage, CommitBelowZero, BecomesUndefined
<1>2. CASE MAUStage \/ MAUOutOfBounds
  BY <1>2 DEF MAUStage, MAUOutOfBounds, BecomesUndefined
<1>3. CASE MulFUStage \/ BFUStage
  BY <1>3 DEF MulFUStage, BFUStage
<1>4. CASE AFUStage \/ IntFUStage
  BY <1>4 DEF AFUStage, IntFUStage
<1>5. CASE IssueStage \/ DispatchStage
  BY <1>5 DEF IssueStage, DispatchStage
<1>6. CASE DecodeStage \/ DecodeOutOfBounds
  BY <1>6 DEF DecodeStage, DecodeOutOfBounds, BecomesUndefined
<1>7. CASE FetchStage \/ FetchOutOfBounds
  BY <1>7 DEF FetchStage, FetchOutOfBounds, BecomesUndefined
<1>8. CASE SquashTail \/ SquashEnds
  BY <1>8 DEF SquashTail, SquashEnds
<1> QED
  BY <1>1, <1>2, <1>3, <1>4, <1>5, <1>6, <1>7, <1>8 DEF Next

LEMMA LoadInv ==
  ASSUME SimInv, Load
  PROVE  SimInv'
<1> DEFINE p == MeantProgram
<1>1. /\ Len(p) \in Nat /\ Len(file) = Len(p)
      /\ \A k \in 1 .. Len(p) : /\ p[k] \in Insns /\ Plain(p[k])
                                /\ file[k] = LineOf(p[k], k = Len(p))
  BY MeantByFile
<1>2. file' = file
  BY DEF Load, Parser!ParserNext, Parser!ReturnNULL, Parser!CountLines, Parser!CreateInstruction,
         Parser!InvalidOpcode, Parser!CopiedOutOfBounds, Parser!ReturnCodeMemory
<1>3. p' = p
  BY <1>2 DEF MeantProgram
<1>4. /\ main = "loading" /\ Parser!ParserNext
      /\ main' = CASE outcome' = "NULL" -> "exit 1"
                   [] outcome' = "loaded" -> "running"
                   [] outcome' \in {"aborted", "undefined"} -> outcome'
                   [] OTHER -> main
  BY DEF Load
<1>5. main' \in {"running", "prompt"} => outcome' = "loaded"
  BY <1>4
<1>6. /\ file \in {TextOf(q) : q \in Programs} /\ current_instruction \in 0 .. Len(p)
      /\ outcome = "opening" => current_instruction = 0
      /\ outcome = "loaded" => current_instruction = Len(p)
      /\ outcome \in {"reading", "loaded"} =>
           /\ code_memory = [k \in 1 .. Len(p) |-> code_memory[k]]
           /\ \A k \in 1 .. current_instruction : code_memory[k] = p[k]
  BY DEF SimInv
<1>7. file' \in {TextOf(q) : q \in Programs}
  BY <1>2, <1>6
<1> HIDE DEF p
<1>8. /\ current_instruction' \in 0 .. Len(p)
      /\ outcome' = "opening" => current_instruction' = 0
      /\ outcome' = "loaded" => current_instruction' = Len(p)
      /\ outcome' \in {"reading", "loaded"} =>
           /\ code_memory' = [k \in 1 .. Len(p) |-> code_memory'[k]]
           /\ \A k \in 1 .. current_instruction' : code_memory'[k] = p[k]
  <2>1. CASE Parser!ReturnNULL
    BY <1>6, <2>1 DEF Parser!ReturnNULL
  <2>2. CASE Parser!CountLines
    BY <1>1, <1>6, <2>2 DEF Parser!CountLines
  <2>3. CASE Parser!CreateInstruction
    <3> DEFINE n == current_instruction + 1
               l == LineOf(p[n], n = Len(p))
    <3>1. /\ outcome = "reading" /\ outcome' = "reading" /\ current_instruction' = n
          /\ current_instruction < Len(file)
      BY <2>3 DEF Parser!CreateInstruction, Parser!LineLeft
    <3>2. n \in 1 .. Len(p) /\ Parser!ThisLine = l
      BY <1>1, <1>6, <3>1 DEF Parser!ThisLine
    <3>3. Parser!FitsBuffers(l)
      BY <2>3, <3>2 DEF Parser!CreateInstruction
    <3>4. PICK held : tokens' = Parser!Overwritten(held, l)
      BY <2>3, <3>2 DEF Parser!CreateInstruction
    <3>5. Parser!InstructionFrom(Parser!OpcodeOf(l), tokens') = p[n]
      BY <1>1, <3>2, <3>3, <3>4, LineMakesInstruction
    <3>6. code_memory' = [code_memory EXCEPT ![n] = p[n]]
      BY <2>3, <3>2, <3>5 DEF Parser!CreateInstruction
    <3>7. DOMAIN code_memory = 1 .. Len(p)
      BY <1>6, <3>1
    <3>8. code_memory' = [k \in 1 .. Len(p) |-> code_memory'[k]]
      BY <3>6, <3>7
    <3>9. \A k \in 1 .. n : code_memory'[k] = p[k]
      BY <1>6, <3>1, <3>2, <3>6, <3>7
    <3> QED
      BY <1>1, <3>1, <3>2, <3>8, <3>9
  <2>4. CASE Parser!InvalidOpcode
    BY <1>6, <2>4 DEF Parser!InvalidOpcode
  <2>5. CASE Parser!CopiedOutOfBounds
    BY <1>6, <2>5 DEF Parser!CopiedOutOfBounds
  <2>6. CASE Parser!ReturnCodeMemory
    BY <1>1, <1>6, <2>6 DEF Parser!ReturnCodeMemory
  <2> QED
    BY <1>4, <2>1, <2>2, <2>3, <2>4, <2>5, <2>6 DEF Parser!ParserNext
<1> QED
  BY <1>3, <1>5, <1>7, <1>8 DEF SimInv, p

LEMMA SimStepInv ==
  ASSUME SimInv, [SimNext]_simVars
  PROVE  SimInv'
<1>1. ASSUME UNCHANGED loaderVars, code_memory' = code_memory,
             main' \in {"running", "prompt"} => main \in {"running", "prompt"}
      PROVE  SimInv'
  BY <1>1 DEF SimInv, MeantProgram, loaderVars
<1>2. CASE Usage
  BY <1>1, <1>2 DEF Usage, vars
<1>3. CASE CallInit
  BY <1>1, <1>3 DEF CallInit, vars
<1>4. CASE Load
  BY <1>4, LoadInv
<1>5. CASE RunStage
  <2>1. UNCHANGED loaderVars /\ main = "running" /\ Next
    BY <1>5 DEF RunStage
  <2> QED
    BY <1>1, <2>1, CodeStays
<1>6. CASE PressKey
  BY <1>1, <1>6 DEF PressKey, vars
<1>7. CASE Quit
  BY <1>1, <1>7 DEF Quit, vars
<1>8. CASE UNCHANGED simVars
  BY <1>1, <1>8 DEF simVars, vars
<1> QED
  BY <1>2, <1>3, <1>4, <1>5, <1>6, <1>7, <1>8 DEF SimNext

(***************************************************************************)
(* The theorem.                                                            *)
(***************************************************************************)
\* What the parser has loaded when main lets the pipeline run is the program meant.
LEMMA CodeIsMeant == ASSUME SimInv PROVE RunsWhatIsWritten
<1> SUFFICES ASSUME main \in {"running", "prompt"} PROVE code_memory = MeantProgram
  BY DEF RunsWhatIsWritten
<1> DEFINE p == MeantProgram
<1>1. /\ code_memory = [k \in 1 .. Len(p) |-> code_memory[k]]
      /\ \A k \in 1 .. Len(p) : code_memory[k] = p[k]
  BY DEF SimInv
<1>2. p \in Seq(Insns) /\ Len(p) \in Nat
  BY MeantByFile
<1> HIDE DEF p
<1>3. p = [k \in 1 .. Len(p) |-> p[k]]
  BY <1>2
<1>4. code_memory = p
  BY <1>1, <1>3
<1> QED
  BY <1>4 DEF p

\* Whatever program is written to the file, with whatever arguments and keys, the pipeline
\* runs on exactly that program: create_code_memory reads back what print_instruction_arch
\* shows, and no stage of APEX_cpu_run writes the code memory.
THEOREM RunsTheFile == SimSpec => []RunsWhatIsWritten
BY SimInitInv, SimStepInv, CodeIsMeant, PTL DEF SimSpec

(***************************************************************************)
(* The refinement.  Cpu is an instance of the pipeline's module, so its    *)
(* operators have names of their own; those that do not read the code      *)
(* memory are shown to be the same operators, from the smallest up, and    *)
(* then the stages, of which fetch alone reads it.                         *)
(***************************************************************************)
\* Tuples of variables, of which the instance replaces none.
USE DEF archVars, memVars, freeVars, prfVars, iqVars, lsqVars, robVars, btbVars, busVars, afuVars,
        redirectVars, frontVars, exVars,
        Cpu!archVars, Cpu!memVars, Cpu!freeVars, Cpu!prfVars, Cpu!iqVars, Cpu!lsqVars, Cpu!robVars,
        Cpu!btbVars, Cpu!busVars, Cpu!afuVars, Cpu!redirectVars, Cpu!frontVars, Cpu!exVars

\* Sets of opcodes, registers and slots, and the numbers with a name.
LEMMA SameSets ==
  /\ Cpu!Alu2Ops = Alu2Ops
  /\ Cpu!AluLiteralOps = AluLiteralOps
  /\ Cpu!LoadOps = LoadOps
  /\ Cpu!StoreOps = StoreOps
  /\ Cpu!MemoryOps = MemoryOps
  /\ Cpu!ConditionalBranches = ConditionalBranches
  /\ Cpu!JumpOps = JumpOps
  /\ Cpu!BranchOps = BranchOps
  /\ Cpu!NoSourceOps = NoSourceOps
  /\ Cpu!Source1Ops = Source1Ops
  /\ Cpu!Source2Ops = Source2Ops
  /\ Cpu!DestinationOps = DestinationOps
  /\ Cpu!PointerOps = PointerOps
  /\ Cpu!FlagOps = FlagOps
  /\ Cpu!IntFUSourceOps = IntFUSourceOps
  /\ Cpu!AFUOps = AFUOps
  /\ Cpu!IQSlots = IQSlots
  /\ Cpu!BQSlots = BQSlots
  /\ Cpu!LSQSlots = LSQSlots
  /\ Cpu!RoBSlots = RoBSlots
  /\ Cpu!BTBSlots = BTBSlots
  /\ Cpu!PhysicalRegs = PhysicalRegs
  /\ Cpu!CCRegs = CCRegs
  /\ Cpu!Registers = Registers
  /\ Cpu!Addresses = Addresses
  /\ Cpu!Buses = Buses
  /\ Cpu!CC = CC
  /\ Cpu!LAST_PC = LAST_PC
  /\ Cpu!FIRST_PC = FIRST_PC
  /\ Cpu!INCREMENTOR = INCREMENTOR
  /\ Cpu!IntBus = IntBus
  /\ Cpu!MulBus = MulBus
  /\ Cpu!AFUBus = AFUBus
  /\ Cpu!MAUBus = MAUBus
  /\ Cpu!BFUBus = BFUBus
BY DEF Alu2Ops, AluLiteralOps, LoadOps, StoreOps, MemoryOps, ConditionalBranches, JumpOps,
       BranchOps, NoSourceOps, Source1Ops, Source2Ops, DestinationOps, PointerOps, FlagOps,
       IntFUSourceOps, AFUOps, IQSlots, BQSlots, LSQSlots, RoBSlots, BTBSlots, PhysicalRegs,
       CCRegs, Registers, Addresses, Buses, CC, LAST_PC, FIRST_PC, INCREMENTOR, IntBus, MulBus,
       AFUBus, MAUBus, BFUBus, Cpu!Alu2Ops, Cpu!AluLiteralOps, Cpu!LoadOps, Cpu!StoreOps,
       Cpu!MemoryOps, Cpu!ConditionalBranches, Cpu!JumpOps, Cpu!BranchOps, Cpu!NoSourceOps,
       Cpu!Source1Ops, Cpu!Source2Ops, Cpu!DestinationOps, Cpu!PointerOps, Cpu!FlagOps,
       Cpu!IntFUSourceOps, Cpu!AFUOps, Cpu!IQSlots, Cpu!BQSlots, Cpu!LSQSlots, Cpu!RoBSlots,
       Cpu!BTBSlots, Cpu!PhysicalRegs, Cpu!CCRegs, Cpu!Registers, Cpu!Addresses, Cpu!Buses,
       Cpu!CC, Cpu!LAST_PC, Cpu!FIRST_PC, Cpu!INCREMENTOR, Cpu!IntBus, Cpu!MulBus, Cpu!AFUBus,
       Cpu!MAUBus, Cpu!BFUBus

\* Search loops, buses and the pickup of sources.
LEMMA SameFirstIndex == \A S : Cpu!FirstIndex(S) = FirstIndex(S)
BY DEF FirstIndex, Cpu!FirstIndex

LEMMA SameMatchingBus == \A lines, tag : Cpu!MatchingBus(lines, tag) = MatchingBus(lines, tag)
BY SameSets, SameFirstIndex DEF MatchingBus, Cpu!MatchingBus

LEMMA SamePickUp1 == \A i, lines : Cpu!PickUp1(i, lines) = PickUp1(i, lines)
BY SameSets, SameMatchingBus DEF PickUp1, Cpu!PickUp1

LEMMA SamePickUp2 == \A i, lines : Cpu!PickUp2(i, lines) = PickUp2(i, lines)
BY SameSets, SameMatchingBus DEF PickUp2, Cpu!PickUp2

LEMMA SamePickUp == \A i, lines : Cpu!PickUp(i, lines) = PickUp(i, lines)
BY SamePickUp1, SamePickUp2 DEF PickUp, Cpu!PickUp

LEMMA SameReadPRF == \A i, prf : Cpu!ReadPRF(i, prf) = ReadPRF(i, prf)
BY SameSets
   DEF ReadPRF, PRFValid, ReadPRF1, ReadPRF2, Cpu!ReadPRF, Cpu!PRFValid, Cpu!ReadPRF1,
       Cpu!ReadPRF2

\* Establishing an instruction in the queues.
LEMMA SameRoomFor ==
  \A op, iq, robSize, lsqSize :
    Cpu!RoomFor(op, iq, robSize, lsqSize)
      = RoomFor(op, iq, robSize, lsqSize)
BY SameSets
   DEF RoomFor, IsIssueQueueFull, IsBranchQueueFull, IsROBFull, IsLSQFull, Cpu!RoomFor,
       Cpu!IsIssueQueueFull, Cpu!IsBranchQueueFull, Cpu!IsROBFull, Cpu!IsLSQFull

LEMMA SameFreeIQSlot == \A iq, at : Cpu!FreeIQSlot(iq, at) = FreeIQSlot(iq, at)
BY SameSets, SameFirstIndex DEF FreeIQSlot, Cpu!FreeIQSlot

LEMMA SameEstablishIQ == \A iq, i, time : Cpu!EstablishIQ(iq, i, time) = EstablishIQ(iq, i, time)
BY SameFreeIQSlot DEF EstablishIQ, Cpu!EstablishIQ

LEMMA SameEstablishBQ == \A bq, i : Cpu!EstablishBQ(bq, i) = EstablishBQ(bq, i)
BY SameSets, SameFirstIndex DEF EstablishBQ, FreeBQSlot, Cpu!EstablishBQ, Cpu!FreeBQSlot

LEMMA SameEstablishLSQ == \A q, t, i : Cpu!EstablishLSQ(q, t, i) = EstablishLSQ(q, t, i)
BY SameSets DEF EstablishLSQ, Cpu!EstablishLSQ

LEMMA SameEstablishRoB ==
  \A q, t, i, lsqTail :
    Cpu!EstablishRoB(q, t, i, lsqTail)
      = EstablishRoB(q, t, i, lsqTail)
BY SameSets DEF EstablishRoB, Cpu!EstablishRoB

\* Wakeup, selection and the pickup of addresses and store data.
LEMMA SameWokenIQ == \A iq, lines : Cpu!WokenIQ(iq, lines) = WokenIQ(iq, lines)
BY SameSets, SamePickUp DEF WokenIQ, Cpu!WokenIQ

LEMMA SameSelectedSlot == \A iq, times : Cpu!SelectedSlot(iq, times) = SelectedSlot(iq, times)
BY SameSets, SameFirstIndex DEF SelectedSlot, MinCounter, Cpu!SelectedSlot, Cpu!MinCounter

LEMMA SameIntFUTimes == \A iq : Cpu!IntFUTimes(iq) = IntFUTimes(iq)
BY SameSets DEF IntFUTimes, SourcesValid, Cpu!IntFUTimes, Cpu!SourcesValid

LEMMA SameMulFUTimes == \A iq : Cpu!MulFUTimes(iq) = MulFUTimes(iq)
BY SameSets DEF MulFUTimes, SourcesValid, Cpu!MulFUTimes, Cpu!SourcesValid

LEMMA SameAFUTimes == \A iq : Cpu!AFUTimes(iq) = AFUTimes(iq)
BY SameSets DEF AFUTimes, SourcesValid, Cpu!AFUTimes, Cpu!SourcesValid

LEMMA SameIssued == \A iq, k : Cpu!Issued(iq, k) = Issued(iq, k)
BY DEF Issued, Cpu!Issued

LEMMA SameReceived ==
  \A latch, queue, k : Cpu!Received(latch, queue, k) = Received(latch, queue, k)
BY SameIssued DEF Received, Cpu!Received

LEMMA SameAddressedSlot ==
  \A q, tail, address, at :
    Cpu!AddressedSlot(q, tail, address, at)
      = AddressedSlot(q, tail, address, at)
BY SameFirstIndex DEF AddressedSlot, Cpu!AddressedSlot

LEMMA SameUpdatedLSQ ==
  \A q, tail, address, at, lines :
    Cpu!UpdatedLSQ(q, tail, address, at, lines) = UpdatedLSQ(q, tail, address, at, lines)
BY DEF UpdatedLSQ, LSQSlots, FirstIndex, IntBus, MulBus, AFUBus, AddressedSlot, StoreDataBus,
       PickUpStoreData, Cpu!UpdatedLSQ, Cpu!LSQSlots, Cpu!FirstIndex, Cpu!IntBus, Cpu!MulBus,
       Cpu!AFUBus, Cpu!AddressedSlot, Cpu!StoreDataBus, Cpu!PickUpStoreData

LEMMA SameTargetedBQ ==
  \A bq, address, at :
    Cpu!TargetedBQ(bq, address, at)
      = TargetedBQ(bq, address, at)
BY SameSets DEF TargetedBQ, Cpu!TargetedBQ

LEMMA SameBFUSlot == \A bq : Cpu!BFUSlot(bq) = BFUSlot(bq)
BY SameSets, SameFirstIndex DEF BFUSlot, Cpu!BFUSlot

\* Renaming, and the BTB's part of decode.
LEMMA SameLookedUp == \A i : Cpu!LookedUp(i) = LookedUp(i)
BY SameSets DEF LookedUp, Cpu!LookedUp

LEMMA SameRenaming ==
  \A i, table, list, prf, stall :
    Cpu!Renaming(i, table, list, prf, stall)
      = Renaming(i, table, list, prf, stall)
BY DEF Renaming, Cpu!Renaming

LEMMA SameRenameDestination == \A r : Cpu!RenameDestination(r) = RenameDestination(r)
BY SameSets
   DEF RenameDestination, HeadOfFree, WithoutHead, HandOut, Cpu!RenameDestination,
       Cpu!HeadOfFree, Cpu!WithoutHead, Cpu!HandOut

LEMMA SameRenamePointer == \A r : Cpu!RenamePointer(r) = RenamePointer(r)
BY SameSets
   DEF RenamePointer, HeadOfFree, WithoutHead, HandOut, Cpu!RenamePointer, Cpu!HeadOfFree,
       Cpu!WithoutHead, Cpu!HandOut

LEMMA SameRenameFlags == \A r : Cpu!RenameFlags(r) = RenameFlags(r)
BY SameSets DEF RenameFlags, HeadOfFree, Cpu!RenameFlags, Cpu!HeadOfFree

LEMMA SameSlotToEstablish == \A btb, at : Cpu!SlotToEstablish(btb, at) = SlotToEstablish(btb, at)
BY SameSets, SameFirstIndex DEF SlotToEstablish, Cpu!SlotToEstablish

LEMMA SameEstablishBTB ==
  \A btb, counter, branch, inDispatch :
    Cpu!EstablishBTB(btb, counter, branch, inDispatch)
      = EstablishBTB(btb, counter, branch, inDispatch)
BY DEF EstablishBTB, BTBSlots, FirstIndex, InitialHistory, SlotToEstablish, Cpu!EstablishBTB,
       Cpu!BTBSlots, Cpu!FirstIndex, Cpu!InitialHistory, Cpu!SlotToEstablish

LEMMA SameNextCounter ==
  \A btb, counter, branch, inDispatch :
    Cpu!NextCounter(btb, counter, branch, inDispatch)
      = NextCounter(btb, counter, branch, inDispatch)
BY SameSlotToEstablish DEF NextCounter, Cpu!NextCounter

LEMMA SameStallsBehind == \A i : Cpu!StallsBehind(i) = StallsBehind(i)
BY SameSets, SameSlotToEstablish
   DEF StallsBehind, StallsDecode, Cpu!StallsBehind, Cpu!StallsDecode

\* What the issue and the decode stage do to the variables.
LEMMA SameWakeUp == \A established : WakeUp(established) <=> Cpu!WakeUp(established)
BY SameWokenIQ, SameSelectedSlot, SameIntFUTimes, SameMulFUTimes, SameAFUTimes, SameReceived,
   SameIssued
   DEF WakeUp, MulFUFree, Cpu!WakeUp, Cpu!MulFUFree

LEMMA SameDeliverAddresses ==
  \A bq, q, tail : DeliverAddresses(bq, q, tail) <=> Cpu!DeliverAddresses(bq, q, tail)
<1> SUFFICES ASSUME NEW bq, NEW q, NEW tail
             PROVE  DeliverAddresses(bq, q, tail) <=> Cpu!DeliverAddresses(bq, q, tail)
  OBVIOUS
<1>1. /\ Cpu!AddressedSlot(q, tail, AFU_address, AFU_pc)
           = AddressedSlot(q, tail, AFU_address, AFU_pc)
      /\ Cpu!UpdatedLSQ(q, tail, AFU_address, AFU_pc, bus)
           = UpdatedLSQ(q, tail, AFU_address, AFU_pc, bus)
      /\ \A a : Cpu!TargetedBQ(bq, a, AFU_pc) = TargetedBQ(bq, a, AFU_pc)
  BY SameAddressedSlot, SameUpdatedLSQ, SameTargetedBQ
<1> QED
  BY <1>1, SameBFUSlot, Zenon DEF DeliverAddresses, Cpu!DeliverAddresses

LEMMA SameDecodeInstruction == DecodeInstruction <=> Cpu!DecodeInstruction
BY SameSets, SameLookedUp, SamePickUp, SameRenaming, SameRenameDestination, SameRenamePointer,
   SameRenameFlags, SameEstablishBTB, SameNextCounter, SameStallsBehind
   DEF DecodeInstruction, WithoutHead, Cpu!DecodeInstruction, Cpu!WithoutHead

\* The code memory holds the program meant, before a step and after it.
OnItsProgram == code_memory = MeantProgram /\ code_memory' = MeantProgram'

LEMMA SameBecomesUndefined == ASSUME OnItsProgram PROVE BecomesUndefined => Cpu!BecomesUndefined
BY DEF BecomesUndefined, OnItsProgram, Cpu!BecomesUndefined

\* Fetch reads the program meant.
LEMMA SameFetched ==
  ASSUME OnItsProgram
  PROVE  FetchedInstr = Cpu!FetchedInstr /\ \A at : InCode(at) <=> Cpu!InCode(at)
BY SameSets, SameFirstIndex
   DEF FetchedInstr, Fetched, LookUp, PredictsTaken, CodeIndex, InCode, CodeIndex, OnItsProgram,
       Cpu!FetchedInstr, Cpu!Fetched, Cpu!LookUp, Cpu!PredictsTaken, Cpu!CodeIndex, Cpu!InCode,
       Cpu!CodeIndex

\* What commit frees and writes back.
LEMMA SameAddBack == \A list, r, size : Cpu!AddBack(list, r, size) = AddBack(list, r, size)
BY DEF AddBack, Cpu!AddBack

LEMMA SameWrittenPRF == \A prf, lines : Cpu!WrittenPRF(prf, lines) = WrittenPRF(prf, lines)
BY SameSets DEF WrittenPRF, Cpu!WrittenPRF

LEMMA SameWrittenCC == \A cc, lines : Cpu!WrittenCC(cc, lines) = WrittenCC(cc, lines)
BY SameSets DEF WrittenCC, Cpu!WrittenCC

LEMMA SameWrittenCCHead ==
  \A head, lines : Cpu!WrittenCCHead(head, lines) = WrittenCCHead(head, lines)
BY SameSets DEF WrittenCCHead, Cpu!WrittenCCHead

LEMMA SameFreedPhysicalRegs ==
  \A i, list : Cpu!FreedPhysicalRegs(i, list) = FreedPhysicalRegs(i, list)
BY SameSets, SameAddBack DEF FreedPhysicalRegs, Cpu!FreedPhysicalRegs

LEMMA SameFreedCC == \A i, list : Cpu!FreedCC(i, list) = FreedCC(i, list)
BY SameSets, SameAddBack DEF FreedCC, Cpu!FreedCC

LEMMA SameCommitHead ==
  \A i, heads_match : CommitHead(i, heads_match) <=> Cpu!CommitHead(i, heads_match)
BY SameSets, SameFreedPhysicalRegs, SameFreedCC
   DEF CommitHead, PRFValid, CanCommit, CommittedRegs, CommittedFlags, AfterCommit,
       Cpu!CommitHead, Cpu!PRFValid, Cpu!CanCommit, Cpu!CommittedRegs, Cpu!CommittedFlags,
       Cpu!AfterCommit

LEMMA SameWriteBack == WriteBack <=> Cpu!WriteBack
BY SameWrittenPRF, SameWrittenCC, SameWrittenCCHead
   DEF WriteBack, Drained, Cpu!WriteBack, Cpu!Drained

\* The stages, in the order of the loop.
LEMMA SameCommitStage == ASSUME OnItsProgram PROVE CommitStage => Cpu!CommitStage
BY SameCommitHead, SameWriteBack
   DEF CommitStage, Shifted, DeleteRoBHead, DeleteLSQHead, Retreat, RoBAtCommit, LSQAtCommit,
       DeletesBelowZero, AfterCommit, OnItsProgram, Cpu!CommitStage, Cpu!Shifted,
       Cpu!DeleteRoBHead, Cpu!DeleteLSQHead, Cpu!Retreat, Cpu!RoBAtCommit, Cpu!LSQAtCommit,
       Cpu!DeletesBelowZero, Cpu!AfterCommit

LEMMA SameCommitBelowZero == ASSUME OnItsProgram PROVE CommitBelowZero => Cpu!CommitBelowZero
BY SameBecomesUndefined
   DEF CommitBelowZero, DeletesBelowZero, OnItsProgram, Cpu!CommitBelowZero,
       Cpu!DeletesBelowZero

LEMMA SameMAUStage == ASSUME OnItsProgram PROVE MAUStage => Cpu!MAUStage
BY SameSets
   DEF MAUStage, HeadsMatch, MAUStarts, MAULatency, MAUBusy, MAUCompletes, MAUAccesses,
       OnItsProgram, Cpu!MAUStage, Cpu!HeadsMatch, Cpu!MAUStarts, Cpu!MAULatency, Cpu!MAUBusy,
       Cpu!MAUCompletes, Cpu!MAUAccesses

LEMMA SameMAUOutOfBounds == ASSUME OnItsProgram PROVE MAUOutOfBounds => Cpu!MAUOutOfBounds
BY SameSets, SameBecomesUndefined
   DEF MAUOutOfBounds, HeadsMatch, MAUStarts, MAULatency, MAUBusy, MAUCompletes, MAUAccesses,
       OnItsProgram, Cpu!MAUOutOfBounds, Cpu!HeadsMatch, Cpu!MAUStarts, Cpu!MAULatency,
       Cpu!MAUBusy, Cpu!MAUCompletes, Cpu!MAUAccesses

LEMMA SameMulFUStage == ASSUME OnItsProgram PROVE MulFUStage => Cpu!MulFUStage
BY SameSets DEF MulFUStage, FlagOf, OnItsProgram, Cpu!MulFUStage, Cpu!FlagOf

LEMMA SameBFUStage == ASSUME OnItsProgram PROVE BFUStage => Cpu!BFUStage
BY SameSets, SameFirstIndex
   DEF BFUStage, RemoveBQ, LookUp, Trained, ResolvedBTB, Redirects, RedirectPc, ConditionHolds,
       ResolveConditional, ResolveJump, OnItsProgram, Cpu!BFUStage, Cpu!RemoveBQ, Cpu!LookUp,
       Cpu!Trained, Cpu!ResolvedBTB, Cpu!Redirects, Cpu!RedirectPc, Cpu!ConditionHolds,
       Cpu!ResolveConditional, Cpu!ResolveJump

LEMMA SameAFUStage == ASSUME OnItsProgram PROVE AFUStage => Cpu!AFUStage
BY SameSets DEF AFUStage, BaseValue, OnItsProgram, Cpu!AFUStage, Cpu!BaseValue

LEMMA SameIntFUStage == ASSUME OnItsProgram PROVE IntFUStage => Cpu!IntFUStage
BY SameSets
   DEF IntFUStage, FlagOf, IntResult, IntFUOps, OnItsProgram, Cpu!IntFUStage, Cpu!FlagOf,
       Cpu!IntResult, Cpu!IntFUOps

LEMMA SameIssueStage == ASSUME OnItsProgram PROVE IssueStage => Cpu!IssueStage
BY SameSets, SameWakeUp, SameDeliverAddresses, SameFreeIQSlot, SameEstablishIQ, SameEstablishBQ,
   SameEstablishLSQ, SameEstablishRoB
   DEF IssueStage, Advance, OnItsProgram, Cpu!IssueStage, Cpu!Advance

LEMMA SameDispatchStage == ASSUME OnItsProgram PROVE DispatchStage => Cpu!DispatchStage
BY SamePickUp, SameReadPRF, SameRoomFor DEF DispatchStage, OnItsProgram, Cpu!DispatchStage

LEMMA SameDecodeStage == ASSUME OnItsProgram PROVE DecodeStage => Cpu!DecodeStage
BY SameSets, SameDecodeInstruction
   DEF DecodeStage, NoFreeCC, OnItsProgram, Cpu!DecodeStage, Cpu!NoFreeCC

LEMMA SameDecodeOutOfBounds ==
  ASSUME OnItsProgram PROVE DecodeOutOfBounds => Cpu!DecodeOutOfBounds
BY SameSets, SameBecomesUndefined
   DEF DecodeOutOfBounds, NoFreeCC, OnItsProgram, Cpu!DecodeOutOfBounds, Cpu!NoFreeCC

LEMMA SameFetchStage == ASSUME OnItsProgram PROVE FetchStage => Cpu!FetchStage
BY SameSets, SameFetched, SameFirstIndex
   DEF FetchStage, LookUp, PredictedPc, DecodeAfterFetch, EmptyLatches, Ticked, OnItsProgram,
       Cpu!FetchStage, Cpu!LookUp, Cpu!PredictedPc, Cpu!DecodeAfterFetch, Cpu!EmptyLatches,
       Cpu!Ticked

LEMMA SameFetchOutOfBounds == ASSUME OnItsProgram PROVE FetchOutOfBounds => Cpu!FetchOutOfBounds
BY SameFetched, SameBecomesUndefined DEF FetchOutOfBounds, OnItsProgram, Cpu!FetchOutOfBounds

LEMMA SameSquashTail == ASSUME OnItsProgram PROVE SquashTail => Cpu!SquashTail
BY SameSets, SameFirstIndex
   DEF SquashTail, AddBack, RemoveIQ, RemoveBQ, SquashLSQ, Retreat, SquashContinues,
       SquashedPhysicalRegs, SquashedCC, RestoredTable, OnItsProgram, Cpu!SquashTail,
       Cpu!AddBack, Cpu!RemoveIQ, Cpu!RemoveBQ, Cpu!SquashLSQ, Cpu!Retreat, Cpu!SquashContinues,
       Cpu!SquashedPhysicalRegs, Cpu!SquashedCC, Cpu!RestoredTable

LEMMA SameSquashEnds == ASSUME OnItsProgram PROVE SquashEnds => Cpu!SquashEnds
BY DEF SquashEnds, Ticked, SquashContinues, OnItsProgram, Cpu!SquashEnds, Cpu!Ticked,
       Cpu!SquashContinues

\* Every stage of the pipeline on the code memory is the same stage on the program meant.
LEMMA SameNext == ASSUME OnItsProgram PROVE Next => Cpu!Next
BY SameCommitStage, SameCommitBelowZero, SameMAUStage, SameMAUOutOfBounds, SameMulFUStage,
   SameBFUStage, SameAFUStage, SameIntFUStage, SameIssueStage, SameDispatchStage,
   SameDecodeStage, SameDecodeOutOfBounds, SameFetchStage, SameFetchOutOfBounds,
   SameSquashTail, SameSquashEnds
   DEF Next, Cpu!Next

\* The processor starts as the instance's does, on a program of the set.
LEMMA SameInit == SimInit => Cpu!Init
<1> SUFFICES ASSUME SimInit PROVE Cpu!Init
  OBVIOUS
<1>1. PICK p \in Programs : TextOf(p) = file
  BY DEF SimInit, Parser!ParserInit
<1>2. MeantProgram \in Programs
  BY <1>1 DEF MeantProgram
<1>3. APEX_cpu_init => Cpu!APEX_cpu_init
  BY DEF APEX_cpu_init, Registers, PhysicalRegs, CCRegs, IQSlots, BQSlots, LSQSlots, RoBSlots,
         BTBSlots, Addresses, NOT_RENAMED, FIRST_PC, Fetched, NoInstr, IntBus, MulBus, Buses,
         IdleBus, CCBuses, IdleCCBus, EmptyIQEntry, EmptyBQEntry, EmptyLSQEntry, EmptyRoBEntry,
         EmptyBTBEntry, EmptyLatch, EmptyStallLatch, InitialMemory, Cpu!APEX_cpu_init,
         Cpu!Registers, Cpu!PhysicalRegs, Cpu!CCRegs, Cpu!IQSlots, Cpu!BQSlots, Cpu!LSQSlots,
         Cpu!RoBSlots, Cpu!BTBSlots, Cpu!Addresses, Cpu!NOT_RENAMED, Cpu!FIRST_PC, Cpu!Fetched,
         Cpu!NoInstr, Cpu!IntBus, Cpu!MulBus, Cpu!Buses, Cpu!IdleBus, Cpu!CCBuses,
         Cpu!IdleCCBus, Cpu!EmptyIQEntry, Cpu!EmptyBQEntry, Cpu!EmptyLSQEntry,
         Cpu!EmptyRoBEntry, Cpu!EmptyBTBEntry, Cpu!EmptyLatch, Cpu!EmptyStallLatch,
         Cpu!InitialMemory
<1> QED
  BY <1>2, <1>3 DEF SimInit, Cpu!Init

\* The file, hence the program meant, stays; and while main lets the pipeline step, that
\* program is in the code memory.
LEMMA SimulatesCpu ==
  ASSUME SimInv, [SimNext]_simVars
  PROVE  [Cpu!Next]_(Cpu!vars)
<1>1. CASE RunStage
  <2>1. code_memory = MeantProgram
    BY <1>1, CodeIsMeant DEF RunStage, RunsWhatIsWritten
  <2>2. Next /\ code_memory' = code_memory /\ file' = file
    BY <1>1, CodeStays DEF RunStage, loaderVars
  <2>3. OnItsProgram
    BY <2>1, <2>2 DEF OnItsProgram, MeantProgram
  <2> QED
    BY <2>2, <2>3, SameNext
<1>2. ASSUME UNCHANGED <<cpuVars, file>> PROVE UNCHANGED Cpu!vars
  BY <1>2 DEF cpuVars, Cpu!vars, MeantProgram
<1>3. Usage \/ CallInit \/ PressKey \/ Quit \/ UNCHANGED simVars => UNCHANGED <<cpuVars, file>>
  BY DEF Usage, CallInit, PressKey, Quit, simVars, vars, loaderVars, cpuVars
<1>4. Load => UNCHANGED <<cpuVars, file>>
  BY DEF Load, Parser!ParserNext, Parser!ReturnNULL, Parser!CountLines, Parser!CreateInstruction,
         Parser!InvalidOpcode, Parser!CopiedOutOfBounds, Parser!ReturnCodeMemory
<1> QED
  BY <1>1, <1>2, <1>3, <1>4 DEF SimNext

\* The whole program implements the processor: whatever is written to the file, whatever the
\* command line and the keys, what happens to the processor's state is a behaviour of the
\* pipeline of module ApexCpu on the program as it was written.  The parser's loop, the
\* prompt and main are stutters, and neither the loading nor the counting touches it.
THEOREM SimulatorImplementsCpu == SimSpec => ImplementsCpu
BY SimInitInv, SimStepInv, SameInit, SimulatesCpu, PTL DEF SimSpec, ImplementsCpu, Cpu!Spec
=============================================================================
