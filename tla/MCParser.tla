------------------------------ MODULE MCParser ------------------------------
(***************************************************************************)
(* Files of up to three lines: every mnemonic with its operands, and lines *)
(* with operands missing, too many or without their # or R, with comments, *)
(* blanks, no mnemonic or an unknown one.                                  *)
(***************************************************************************)
EXTENDS ApexAssembler

Line(mnemonic, operands) ==
  [mnemonic |-> mnemonic, operands |-> operands, blank |-> FALSE, more |-> FALSE,
   newline |-> TRUE]

Bare(v) == [sigil |-> "none", value |-> v]

Proper ==
  {Line(m, Syntax(IF m = "EX-OR" THEN "XOR" ELSE m)) : m \in Mnemonics}

\* Distinct values, so that no two operands can be exchanged unnoticed; literals beyond
\* the registers.
Numbered(l, first) ==
  LET value(k) == IF l.operands[k].sigil = "#" THEN 20 + first ELSE first - k
  IN  [l EXCEPT !.operands = [k \in DOMAIN @ |-> [@[k] EXCEPT !.value = value(k)]]]

Malformed ==
  {Line("ADD", <<Reg(1)>>), Line("MOVC", <<Reg(1)>>), Line("STORE", << >>),
   Line("MOVC", <<Reg(1), Bare(15)>>), Line("MOVC", <<Reg(1), Bare(-3)>>),
   Line("ADD", <<Reg(2), Reg(1), Reg(0), Reg(3)>>),
   Line("ADD", [k \in 1 .. 7 |-> Reg(0)]),
   Line("unknown", << >>), Line("unknown", <<Reg(1)>>),
   [Line("MOVC", <<Reg(1), Literal(5)>>) EXCEPT !.blank = TRUE],
   [Line("MOVC", <<Reg(1)>>) EXCEPT !.more = TRUE],
   [Line("STORE", << >>) EXCEPT !.blank = TRUE],
   [Line("HALT", << >>) EXCEPT !.blank = TRUE],
   [Line("NOP", << >>) EXCEPT !.blank = TRUE],
   Line("JUMP", <<Reg(9), Literal(0)>>)}

AllLines == {Numbered(l, f) : l \in Proper, f \in {3, 4}} \cup Malformed

\* A last line may lack its newline.
LastLines == AllLines \cup {[l EXCEPT !.newline = FALSE] : l \in AllLines}

\* Lines that fill the buffers.
WellFilled == {l \in AllLines : Len(l.operands) \in 3 .. 4}

MCFiles == {<< >>} \cup {<<l>> : l \in LastLines}
                   \cup {<<k, l>> : k \in AllLines, l \in LastLines}
                   \cup {<<k, l, k>> : k \in AllLines, l \in WellFilled}
\* An unwritten buffer reads as 0.
MCStack == {NewlineToken}
=============================================================================
