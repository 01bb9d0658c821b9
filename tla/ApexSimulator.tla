---------------------------- MODULE ApexSimulator ----------------------------
(***************************************************************************)
(* The whole program: main checks its arguments, the parser reads the      *)
(* file into the code memory, APEX_cpu_run steps the pipeline, waits for a *)
(* key after every cycle and counts instructions, and main returns.        *)
(***************************************************************************)
EXTENDS ApexPipeline, ApexPrint

CONSTANTS argv2, argv3,     \* the command line's word and number behind the file name
          BIS_SIZE,
          MAX_COMPLETED     \* where the model stops counting, for programs that hang

VARIABLES main,             \* where main is, or how the program ended
          file, outcome, current_instruction, tokens,      \* the parser's
          insn_completed, BIStack

\* The assembler text of a program, as print_instruction_arch shows it.  A mnemonic
\* without operands has a blank behind it unless it ends the file.
LineOf(i, last) ==
  [mnemonic |-> IF i.opcode = "XOR" THEN "EX-OR" ELSE i.opcode,
   operands |-> ShownOperands(i),
   blank |-> ShownOperands(i) = << >> /\ ~last, more |-> FALSE, newline |-> ~last]

TextOf(p) == [k \in DOMAIN p |-> LineOf(p[k], k = Len(p))]

Parser == INSTANCE ApexParser WITH Files <- {TextOf(p) : p \in Programs},
                                   StackContents <- {[sigil |-> "none", value |-> 0]}

\* A field that print_instruction_arch does not show cannot be written down.
Plain(i) ==
  /\ i.opcode \notin DestinationOps \cup {"DIV"} => i.rd = 0
  /\ i.opcode \notin Source1Ops \cup {"DIV"} => i.rs1 = 0
  /\ i.opcode \notin Source2Ops \cup {"DIV"} => i.rs2 = 0
  /\ i.opcode \in Alu2Ops \cup {"DIV", "CMP", "NOP", "HALT"} => i.imm = 0

ASSUME PlainAssumption == \A p \in Programs : \A k \in DOMAIN p : Plain(p[k])

\* atoi(argv[3]) is the limit only when argv[2] is this word; calloc left a 0.
ASSUME ArgumentsAssumption ==
  /\ num_of_cycles_to_run = IF argv2 = "simulate" THEN argv3 ELSE 0
  /\ BIS_SIZE \in Nat \ {0} /\ MAX_COMPLETED \in Nat

\* Everything of the processor but its code memory.
cpuVars == <<stage, clock, frontVars, exVars, archVars, memVars, freeVars, prfVars, renameTable,
             iqVars, lsqVars, robVars, btbVars, busVars, afuVars, redirectVars>>

loaderVars == <<file, outcome, current_instruction, tokens>>
simVars == <<vars, loaderVars, main, insn_completed, BIStack>>

Ended == {"exit 0", "exit 1", "aborted", "undefined"}

EmptyBISEntry == [established_bit |-> FALSE, branch_tag |-> 0, rob_index |-> 0]

SimInit ==
  /\ main = "started"
  /\ Parser!ParserInit
  /\ APEX_cpu_init
  /\ insn_completed = 0
  /\ BIStack = [k \in 0 .. BIS_SIZE - 1 |-> EmptyBISEntry]

\* Fewer than three arguments.
Usage ==
  /\ main = "started"
  /\ main' = "exit 1"
  /\ UNCHANGED <<vars, loaderVars, insn_completed, BIStack>>

CallInit ==
  /\ main = "started"
  /\ main' = "loading"
  /\ UNCHANGED <<vars, loaderVars, insn_completed, BIStack>>

\* APEX_cpu_init's call of create_code_memory; without a code memory it returns NULL.
Load ==
  /\ main = "loading"
  /\ Parser!ParserNext
  /\ main' = CASE outcome' = "NULL" -> "exit 1"
               [] outcome' = "loaded" -> "running"
               [] outcome' \in {"aborted", "undefined"} -> outcome'
               [] OTHER -> main
  /\ UNCHANGED <<cpuVars, insn_completed, BIStack>>

\* The commit stage has looked at an established head and has not returned TRUE.
CountsHead ==
  /\ stage = "commit" /\ stage' \notin {"done", "undefined"}
  /\ RoBAtCommit[0].established_bit

\* One stage of APEX_cpu_run; the key is asked for when a cycle is over.
RunStage ==
  /\ main = "running"
  /\ Next
  /\ insn_completed' = IF CountsHead /\ insn_completed < MAX_COMPLETED
                       THEN insn_completed + 1 ELSE insn_completed
  /\ main' = CASE stage' \in {"done", "stopped"} -> "exit 0"
               [] stage' = "undefined" -> "undefined"
               [] stage # "commit" /\ stage' = "commit" -> "prompt"
               [] OTHER -> main
  /\ UNCHANGED <<loaderVars, BIStack>>

\* A key, or the end of the input, which leaves user_prompt_val as it was.
PressKey ==
  /\ main = "prompt"
  /\ main' = "running"
  /\ UNCHANGED <<vars, loaderVars, insn_completed, BIStack>>

\* q or Q
Quit ==
  /\ main = "prompt"
  /\ main' = "exit 0"
  /\ UNCHANGED <<vars, loaderVars, insn_completed, BIStack>>

SimNext == Usage \/ CallInit \/ Load \/ RunStage \/ PressKey \/ Quit

\* The program does not wait for anything but the keys, and they are pressed.
SimSpec == SimInit /\ [][SimNext]_simVars /\ WF_simVars(SimNext)

(***************************************************************************)
(* Properties.                                                             *)
(***************************************************************************)
MeantProgram == CHOOSE p \in Programs : TextOf(p) = file

\* Once the pipeline runs, the code memory holds the program whose text is in the file.
RunsWhatIsWritten == main \in {"running", "prompt"} => code_memory = MeantProgram

Cpu == INSTANCE ApexCpu WITH code_memory <- MeantProgram

\* The simulator's processor, whatever main and the parser do around it, is the pipeline
\* of module ApexCpu on the program as it is written in the file.
ImplementsCpu == Cpu!Spec

\* With a limit every run ends, on programs that hang the pipeline too.
AlwaysEnds == <>(main \in Ended)

\* print_LSQ lists, in print_ROB's order, the memory operations print_ROB lists.
LSQListed ==
  LET memory == {k \in RoBSlots : RoB[k].instr.opcode \in MemoryOps}
      inRoB == SelectSeq(Established(RoB, ROB_tail), LAMBDA k : k \in memory)
  IN  ShownLSQ(lsq, LSQ_tail) = [k \in DOMAIN inRoB |-> RoB[inRoB[k]].instr.pc]

\* print_issueQueue and print_BQ list no instruction that print_ROB does not list.
WaitingListed ==
  ShownWaiting(issueQueue) \cup ShownWaiting(branchQueue)
    \subseteq {ShownRoB(RoB, ROB_tail)[k] : k \in DOMAIN ShownRoB(RoB, ROB_tail)}

\* print_instruction_physical shows of a listed instruction the operands that
\* print_instruction_arch showed of it, a physical register for each register.
OperandsListed ==
  \A k \in RoBSlots :
    LET byName == ShownOperands(RoB[k].instr)
        renamed == ShownPhysical(RoB[k].instr)
    IN  RoB[k].established_bit =>
          /\ DOMAIN renamed = DOMAIN byName
          /\ \A o \in DOMAIN byName :
               IF byName[o].sigil = "R" THEN renamed[o].sigil = "P"
               ELSE renamed[o] = byName[o]

\* The lists printed in a cycle are of the same instructions.
ListingsAgree ==
  stage \notin {"squash", "undefined"} => LSQListed /\ WaitingListed /\ OperandsListed

\* print_BTB shows of every entry the "number of prediction bits" it has, 2.
HistoryShown ==
  \A k \in BTBSlots :
    BTBEntry[k].branch_pc # 0 =>
      ShownPrediction(BTBEntry[k]) = <<BTBEntry[k].history \div 2, BTBEntry[k].history % 2>>

\* "Instructions retired": the count only grows when an instruction commits.
CountsOnlyRetired == [][insn_completed' # insn_completed => delete_ROB_head']_simVars

\* "when branch instructions is encountered, we insert it in the top of the BIS": every
\* branch in the reorder buffer has an entry that points back to it.
BranchesInBIS ==
  \A k \in RoBSlots :
    RoB[k].established_bit /\ RoB[k].instr.opcode \in BranchOps =>
      \E b \in DOMAIN BIStack : BIStack[b].established_bit /\ BIStack[b].rob_index = k
=============================================================================
