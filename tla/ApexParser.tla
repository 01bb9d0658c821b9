------------------------------ MODULE ApexParser ------------------------------
(***************************************************************************)
(* create_code_memory (file_parser.c): the assembler file is read twice,   *)
(* once to count its lines and once to turn each into an instruction.      *)
(* A line is cut at its blanks into a mnemonic and the operands, these at  *)
(* their commas; the newline stays at the end of the last word.  Words fit *)
(* the buffers, and the file does not change while it is read.             *)
(***************************************************************************)
EXTENDS ApexTypes

CONSTANTS Files,          \* the files the parser may be given, sequences of lines
          StackContents   \* what the frame of create_APEX_instruction may hold unwritten

\* What set_opcode_str knows; any other word is "unknown", the empty one included.
Mnemonics == (Opcodes \ {"XOR"}) \cup {"EX-OR"}
Words == Mnemonics \cup {"unknown"}

\* An operand: a character and what atoi makes of the rest, or a number alone.
Sigils == {"R", "#", "none"}
Tokens == [sigil : Sigils, value : Int]

\* blank: the line's last word is followed by one; more: there is a word behind the
\* operands, a comment or an operand after a blank.
Lines == [mnemonic : Words, operands : Seq(Tokens), blank : BOOLEAN,
          more : BOOLEAN, newline : BOOLEAN]

MAX_WORDS == 2
MAX_TOKENS == 6

\* getline ends a line at its newline, which only the last line may lack.
ASSUME FilesAssumption ==
  /\ Files \subseteq Seq(Lines)
  /\ \A f \in Files : \A k \in 1 .. Len(f) - 1 : f[k].newline
  /\ StackContents \subseteq Tokens /\ StackContents # {}

VARIABLES file,                 \* the input, chosen once
          outcome,              \* where create_code_memory is, or how it ended
          code_memory,
          current_instruction,
          tokens                \* the operand buffers on the stack, never initialised

parserVars == <<file, outcome, code_memory, current_instruction, tokens>>

Outcomes == {"opening", "reading", "loaded", "NULL", "aborted", "undefined"}

\* An element of the array calloc returns; OPCODE_ADD is 0.
NoInsn == [opcode |-> "ADD", rd |-> 0, rs1 |-> 0, rs2 |-> 0, imm |-> 0]

ParserInit ==
  /\ file \in Files
  /\ outcome = "opening"
  /\ code_memory = << >> /\ current_instruction = 0
  /\ tokens \in [1 .. MAX_TOKENS -> StackContents]

(***************************************************************************)
(* One line.                                                               *)
(***************************************************************************)
\* A newline behind a blank is a word of its own.
NewlineIsWord(l) == l.blank /\ l.newline

NumberOfWords(l) ==
  1 + (IF l.operands # << >> THEN 1 ELSE 0) + (IF l.more THEN 1 ELSE 0)
    + (IF NewlineIsWord(l) THEN 1 ELSE 0)

\* split_opcode_from_insn_string writes behind top_level_tokens.
TooManyWords(l) == NumberOfWords(l) > MAX_WORDS

\* A word that is only the newline: nothing follows its first character.
NewlineToken == [sigil |-> "none", value |-> 0]

OperandTokens(l) ==
  IF l.operands = << >> /\ NewlineIsWord(l) THEN <<NewlineToken>> ELSE l.operands

\* The comparison with set_opcode_str's words; a mnemonic alone on its line still
\* has its newline.
KnownMnemonic(l) == l.mnemonic \in Mnemonics /\ ~(l.newline /\ NumberOfWords(l) = 1)

OpcodeOf(l) == IF l.mnemonic = "EX-OR" THEN "XOR" ELSE l.mnemonic

Powers == {10, 100, 1000, 10000, 100000, 1000000, 10000000, 100000000, 1000000000}

\* The first character of a number alone is its first digit, or its minus sign.
WithoutFirstDigit(v) ==
  LET below == {p \in Powers : p <= v}
  IN  IF v < 0 THEN -v
      ELSE IF v < 10 THEN 0
      ELSE v % (CHOOSE p \in below : \A q \in below : q <= p)

\* get_num_from_string skips the first character, whatever it is.
NumberOf(t) == IF t.sigil = "none" THEN WithoutFirstDigit(t.value) ELSE t.value

\* Seeded bugs: a store's operands are taken in the order of a load's, a load's literal
\* before its base register.
StoreFieldsAsLoad == <<"rs2", "rs1", "imm">>
LoadFieldsLiteralFirst == <<"rd", "imm", "rs1">>

StoreFields == <<"rs1", "rs2", "imm">>
LoadFields == <<"rd", "rs1", "imm">>

\* The operands each case of the switch takes, in their order.
Fields(op) ==
  CASE op \in Alu2Ops \cup {"DIV"} -> <<"rd", "rs1", "rs2">>
    [] op = "MOVC" -> <<"rd", "imm">>
    [] op \in LoadOps \cup AluLiteralOps \cup {"JALR"} -> LoadFields
    [] op \in StoreOps -> StoreFields
    [] op \in ConditionalBranches -> <<"imm">>
    [] op \in {"CML", "JUMP"} -> <<"rs1", "imm">>
    [] op = "CMP" -> <<"rs1", "rs2">>
    [] OTHER -> << >>

\* Seeded bug: what the operand buffers hold goes into unused fields too.
UnusedFieldsToo(op, f, words) ==
  LET places == {k \in DOMAIN Fields(op) : Fields(op)[k] = f}
  IN  NumberOf(words[IF places = {} THEN 3 ELSE CHOOSE k \in places : TRUE])

\* The field f of an instruction zeroed by calloc.
FieldValue(op, f, words) ==
  IF \E k \in DOMAIN Fields(op) : Fields(op)[k] = f
  THEN NumberOf(words[CHOOSE k \in DOMAIN Fields(op) : Fields(op)[k] = f])
  ELSE 0

InstructionFrom(op, words) ==
  [opcode |-> op, rd |-> FieldValue(op, "rd", words), rs1 |-> FieldValue(op, "rs1", words),
   rs2 |-> FieldValue(op, "rs2", words), imm |-> FieldValue(op, "imm", words)]

\* The buffers after the operands of l have been copied over what they held.
Overwritten(held, l) ==
  [k \in 1 .. MAX_TOKENS |-> IF k <= Len(OperandTokens(l)) THEN OperandTokens(l)[k]
                             ELSE held[k]]

(***************************************************************************)
(* create_code_memory                                                      *)
(***************************************************************************)
\* No file name, no file, no line, or no memory.
ReturnNULL ==
  /\ outcome = "opening"
  /\ outcome' = "NULL"
  /\ UNCHANGED <<file, code_memory, current_instruction, tokens>>

\* The first pass, and the array for as many instructions as it has counted.
CountLines ==
  /\ outcome = "opening"
  /\ file # << >>
  /\ outcome' = "reading"
  /\ code_memory' = [k \in 1 .. Len(file) |-> NoInsn]
  /\ UNCHANGED <<file, current_instruction, tokens>>

ThisLine == file[current_instruction + 1]
LineLeft == outcome = "reading" /\ current_instruction < Len(file)
FitsBuffers(l) == ~TooManyWords(l) /\ Len(OperandTokens(l)) <= MAX_TOKENS

\* create_APEX_instruction.  An operand that is missing is read from a buffer this line
\* did not write: it holds what the last line left there or anything.
CreateInstruction ==
  /\ LineLeft
  /\ FitsBuffers(ThisLine) /\ KnownMnemonic(ThisLine)
  /\ \E held \in {tokens} \cup [1 .. MAX_TOKENS -> StackContents] :
       tokens' = Overwritten(held, ThisLine)
  /\ code_memory' = [code_memory EXCEPT ![current_instruction + 1] =
                       InstructionFrom(OpcodeOf(ThisLine), tokens')]
  /\ current_instruction' = current_instruction + 1
  /\ UNCHANGED <<file, outcome>>

\* The assertion behind set_opcode_str's comparisons.
InvalidOpcode ==
  /\ LineLeft
  /\ FitsBuffers(ThisLine) /\ ~KnownMnemonic(ThisLine)
  /\ outcome' = "aborted"
  /\ UNCHANGED <<file, code_memory, current_instruction, tokens>>

\* A word or an operand is copied behind its array.
CopiedOutOfBounds ==
  /\ LineLeft
  /\ ~FitsBuffers(ThisLine)
  /\ outcome' = "undefined"
  /\ UNCHANGED <<file, code_memory, current_instruction, tokens>>

ReturnCodeMemory ==
  /\ outcome = "reading"
  /\ current_instruction = Len(file)
  /\ outcome' = "loaded"
  /\ UNCHANGED <<file, code_memory, current_instruction, tokens>>

ParserNext ==
  \/ ReturnNULL
  \/ CountLines
  \/ CreateInstruction
  \/ InvalidOpcode
  \/ CopiedOutOfBounds
  \/ ReturnCodeMemory

ParserSpec == ParserInit /\ [][ParserNext]_parserVars /\ WF_parserVars(ParserNext)
=============================================================================
