# A TLA+ model of the APEX out-of-order pipeline simulator

The program is `src/Project_3`: a cycle-level simulator of a processor with register
renaming, an issue queue, a branch queue, a load-store queue (LSQ), a reorder buffer (ROB)
and a branch target buffer (BTB). It reads an assembler file, runs it one clock cycle after
the other and prints the state. This directory models it, checks it with TLC and proves
part of it with TLAPS.

The question behind the project is the one every such processor has to answer: instructions
are fetched on a guess, executed out of order and their results forwarded on buses; does the
architectural state still look as if they had been executed one after the other? Module
`ApexISA` is the sequential machine, `ApexPipeline!RefinesISA` says that the pipeline
implements it.

## 1. The system

One thread runs `APEX_cpu_run` (apex_cpu.c:1513). In each cycle it calls ten stage functions,
*last stage first*: commit, MAU, MulFU, BFU, AFU, IntFU, issue queue, dispatch (rename2),
decode (rename1), fetch. A stage reads and writes the latches, buses and queues of its
neighbours directly in one structure, so what one stage sees of another depends on this order.
That makes the hard behaviour of the program: not threads, but ten actors sharing state, of
which each sees half of the others' work of this cycle and half of the last one's.

| Component | State | Operations | Interacts with |
|---|---|---|---|
| Free lists (apex_cpu.c, apex_queues.c, apex_flags.c) | two arrays of register numbers, -1 = unused | take head, give back | decode takes; commit and squash give back |
| Forwarding buses and register files (apex_sources.c, apex_flags.c) | five value buses, two flag buses, the physical register file (PRF), the CC register file, `CCHead` | match a tag, pick up a value, write back | units write; decode, dispatch, the issue queue and the LSQ listen; commit drains |
| Queues (apex_queues.c) | issue queue, branch queue, LSQ, ROB | full test, establish, remove by pc or index, delete head, squash tail | dispatch tests; issue establishes; commit and fetch remove |
| Wakeup and selection (apex_issue.c) | dispatch times in the issue queue | choose the earliest ready instruction for IntFU, MulFU, AFU; hand addresses and targets to LSQ and branch queue; give a branch to the BFU | buses, queues, units' latches |
| BTB (apex_btb.c) | branch pc, two-bit history, target | look up, establish, train, redirect | fetch looks up; decode establishes and stalls; the BFU trains |
| Stages (apex_cpu.c) | latches, stalls, MulFU and MAU counters, HALT flag | the ten stage functions | all of the above |
| Run loop, initialisation (apex_cpu.c, main.c) | clock, cycle limit, `insn_completed` | check the arguments, initialise, stage order, wait for a key, return at HALT, at the limit or at `q` | parser, stages, user |
| Assembler input (file_parser.c) | the file's position, the code memory being filled, operand buffers on the stack | count the lines, make each an instruction | called by the initialisation |
| Printing (apex_print.c) | none | list an instruction's operands, the queues, the BTB | reads what the stages wrote |
| Branch instruction stack (apex_queues.c) | `BIStack` | `initializeBIS`; its only other call is commented out (apex_cpu.c:691) | nothing |
| Instruction set (apex_cpu.c, apex_macros.h) | ARF, flags, memory | one instruction at a time | what commits |

What is hard here, and what makes each part correct:

- *Renaming and forwarding.* An instruction may find its operand in decode, in dispatch, in
  the issue queue or in the PRF; a value is on a bus for one cycle. Correct: no source misses
  its value, no value is lost, and every source names the register of the instruction that
  sequential execution takes it from (`RefinesISA`, `NoInstructionForgotten`,
  `SourcesNameProducers`, `TableNamesYoungest`).
- *Register life cycle.* A register is taken in decode and given back at commit or at squash.
  Correct: none is leaked, freed twice or owned by two instructions (`RegistersConserved`,
  `CCConserved`; on both sides of a squash `NoRegisterShared`), and decode never runs out of
  flags registers (`FlagsRegisterGiven`).
- *Squash.* A misprediction, found several cycles after the wrong path was fetched, has to undo
  exactly what is younger than the branch. Correct: queues stay consistent (`RoBContiguous`,
  `LSQFollowsRoB`), nothing older is lost (`FlushSparesOlder`), architectural state is as if
  the wrong path had never been fetched (`RefinesISA` on the run Branches), and no queue keeps
  a squashed instruction (`WaitingIsInFlight`).
- *Memory order.* The MAU works on the head of the LSQ only when it is the head of the ROB
  (`StoresInProgramOrder`).
- *Stalls.* `decode.stall` and `dispatch.stall` are set in several places and cleared in few.
  Correct: every program reaches its HALT (`Terminates`).
- *Text and instructions.* The places of an opcode's operands are written down twice, in the
  parser's switch and in the listing's, and the parser's buffers are never cleared. Correct: a
  line becomes the instruction it spells and nothing else (`PrintedAsWritten`,
  `LinesStandAlone`, `RunsWhatIsWritten`).
- *Limits.* Each array can fill up. Dispatch tests for room in the reorder buffer, the issue queue
  and the LSQ, and one cycle later the instruction is put there untested: the room must still be
  there (`RoomWhenDispatched`). A free slot alone is not enough in the issue queue and the branch
  queue, where `establish_*` skips a slot that still has the instruction's own pc, nor does
  anything test the branch queue: that every instruction gets its slots, `FindsSlots`, does not
  hold (SlotRefused, section 5). Indices move up modulo the size and down with C's signed remainder.

`PROJECT.json` lists the hazards one by one, with their lines and the properties that cover
them.

## 2. Modules

| Module | Models |
|---|---|
| `ApexTypes` | sizes, opcode groups, the instruction record a latch carries |
| `ApexFreeList` | the free lists as the pipeline sees them: a queue |
| `ApexSources` | buses, tag match and pickup, writing the PRF and the CC registers |
| `ApexQueues` | issue queue, branch queue, LSQ, ROB: tests, establishing, removing |
| `ApexIssue` | wakeup, selection by dispatch time, delivery of addresses, targets and store data |
| `ApexBtb` | the BTB and the redirects |
| `ApexCpu` | **the system**: all variables, `Init`, one action per stage function, `Next`, `Spec`, `FairSpec` |
| `ApexISA` | the sequential machine (abstract specification) |
| `ApexNames` | which registers an instruction was given, which of a sequence of instructions produces what another reads |
| `ApexRenaming` | what register renaming promises (abstract specification): a window of instructions that are renamed and not committed |
| `ApexPipeline` | the properties; `ISA == INSTANCE ApexISA`, `Renamer == INSTANCE ApexRenaming` and the two refinement mappings |
| `ApexTypes_proof` | what each operator of the model returns, the inductive type invariant; theorems about the reorder buffer and the MulFU |
| `ApexLSQ_proof` | theorems about the load-store queue, and type correctness |
| `ApexOrder_proof` | theorems about order: the BTB's entries, the memory writes, the choice of the earliest instruction; programs without branches |
| `ApexRenaming_proof` | theorems about registers: nothing shared, nothing lost, sources and table name producers, the refinement of `ApexRenaming`; all of it from the text of programs that fit |
| `ApexForwarding_proof` | theorems about values: every instruction is worked on until its result is there, one bus per register, and the refinement of `ApexISA` for programs that use registers only |
| `ApexParser` | `create_code_memory`: files and lines, one action per outcome of a line |
| `ApexPrint` | what a listing shows of an instruction, of the queues and of the BTB |
| `ApexAssembler` | the parser's properties: parser against listing |
| `ApexSimulator` | **the program**: main, the parser and the run loop with its keys around `ApexCpu`; its properties |
| `ApexParser_proof`, `ApexSimulator_proof` | theorems about the parser and the whole program, with the refinement of `ApexCpu` |
| `FreeListFifo` | what a free list promises (abstract specification) |
| `FreeListArray` | the arrays with -1, as coded; implements `FreeListFifo` |
| `FreeListArray_proof` | the proof that it does |
| `MCStraight`, `MCBranches`, `MCLimits`, `MCFindings`, `MCFreeList`, `MCParser`, `MCSimulator` | programs and files for TLC |

`ApexSimulator` composes: it EXTENDS `ApexPipeline` (so `ApexCpu`'s `Next` is the body of its
action `RunStage`) and instantiates `ApexParser`, whose variables `code_memory`, `file`,
`outcome`, `current_instruction` and `tokens` it shares; the parser's steps are its action
`Load`. `ApexSimulator!ImplementsCpu` is the refinement back: what the whole program does to the
processor is a behaviour of `ApexCpu!Spec` with the file's program as code memory.

**State and actions.** A variable of `ApexCpu` has the name of the field of `APEX_CPU` it stands
for. The exceptions: `bus` and `ccBus` gather the `*_frwded_tag/value` and `*_ccTag/ccValue`
fields by unit, `AFU_address`, `AFU_pc` and `BFU_pc` are the `*_frwded_*` fields without a
tag, and `stage` is the program counter of the run loop. Each stage function is one action, with
everything it does: deleting heads, committing and draining the buses are one step, as they are
one call. `removeROBTail`'s loop is a stage of its own (`"squash"`), one step per entry, so that
its termination is part of liveness instead of being assumed; no other stage can run in between.
`stage = "done"` is the return after HALT, `"stopped"` the return at the cycle limit. In
`ApexSimulator` the variable `main` says where the program is: after every cycle it is at the
prompt, where a key (`PressKey`) or `q` (`Quit`) comes from the user. At the end of the input
`scanf` leaves the character uninitialised: both are possible then too.

**The parser.** A file is a sequence of lines, a line a record: its mnemonic, its operands, each
with its first character and the number behind it, and whether there is a blank at its end, a
further word, a newline. That is what the code's outcome depends on: it cuts at blanks and commas only
(so the newline stays on the last word), skips an operand's first character whatever it is, has
room for two words and six operands, and aborts on an unknown mnemonic. The operand buffers
(`tokens`) are on the stack: a line finds there what the last one left or anything else, and
`CreateInstruction` chooses.

**Out of bounds.** Where the code indexes an array outside its bounds, C promises nothing. Those
steps are actions of their own (`CommitBelowZero`, `MAUOutOfBounds`, `DecodeOutOfBounds`,
`FetchOutOfBounds`) that end in `stage = "undefined"`, a state that nothing leaves; the run
Limits takes all four. Two accesses outside an array have a known effect in this
structure and are modelled by it (the parser's copies behind its arrays are `CopiedOutOfBounds`,
with the outcome "undefined"): `physicalRegFile[-1].valid_bit` is the field `p_flag`, which is
0 and is only ever set to 0, and `renameTable[REG_FILE_SIZE]` is overwritten by
`initializeIssueQueue`.

**Abstractions.** Integers are unbounded (the programs of the runs use small values). `&`, `|`
and `^` are the constant operator `BitwiseResult`. LSQ entries keep the pc of their
instruction instead of all of it; the fields that no code reads (`branch_tag`, `cc_tag`,
`prediction`, `issuedToAFU`, `prev_renametable_entry`, the branch queue's dispatch time) are left
out. A slot of the issue queue that is not valid no longer listens to the buses: what it would
pick up is overwritten before it is read. `fetch_from_next_cycle` is never set and is left out.
The pair of outcome bits of a BTB entry is a number 0..3. The clock is
counted only when a cycle limit is set. `insn_completed` is counted in `ApexSimulator`, up to
`MAX_COMPLETED`, for programs that hang.

The model was compared with the simulator itself, built from these sources with smaller and
with the original array sizes: for several thousand programs the two agree cycle by cycle on
the registers, flags, memory, queue sizes and tails, free lists, rename table and BTB.

**Instructions used.** `ProgramRegisters` leaves out the last two registers (R17 and R18 of 19):
the code keeps the flags and the last committed pc there, and the rename entry of R18 is that of
the flags.

## 3. What TLC checks

Every run uses the configuration of the same name; `Init` chooses one program of a
family, and from there the machine is deterministic, so that the state graph is the set of
all runs of all programs of the family.

| Run | Question | Programs and bounds | States |
|---|---|---|---|
| Straight | do straight-line programs commit what the ISA says, halt, lose no register, and does the rename table follow? | two MOVC, every sequence of three out of ten instructions (all operand dependences through two registers, pointer updates, memory through the same address, flags), HALT; 952 programs | 133,544 |
| Branches | the same when wrong paths are fetched and squashed; do sources name their producers, do registers keep one owner, do four flags registers last, and do the queues keep nothing stale? | loops of two or three rounds with up to two instructions in the body, left on a mispredicted BNZ or BP, also with a read of what the last round still loads; taken forward branches of all six kinds over one or two wrong-path instructions, one of them a load from outside data_memory; loops with a JUMP or JALR whose target moves in each round | 208,552 |
| Limits | do the queues stay consistent, do the units get their instructions in the stated order? | ROB 5, IQ 2, BQ 2, LSQ 2, 8 physical and 6 CC registers, 50 cycles: every queue fills up and both free lists run empty; loops with loads, stores, multiplications, jumps and branches in every position, loops of dependent multiplications and NOPs; also programs that hang or leave the arrays | 540,113 |
| FreeList | is the array with -1 a FIFO queue? | four registers, every sequence of requests and returns | 1,705 |
| Parser | does each line become the instruction it spells, whatever is around it? | files of up to three lines: every mnemonic with two sets of operands, lines with operands missing, bare or too many, with comments and blanks, with unknown and empty mnemonics, the last line with and without its newline | 59,713 |
| Simulator | does the whole program run what the file says, print lists that agree, and end? | every instruction once behind two MOVC, two memory operations around a multiplication, a program that hangs; 30 cycles; a key or `q` after each | 10,437 |

Straight and Branches use arrays in which these programs find room, Limits arrays in which they
do not; the sizes of the simulator (25 physical registers, 16 CC registers, IQ 24, BQ 16, LSQ 16,
ROB 32, BTB 4) differ from both only in length. Three instructions are enough for every pair of a
producer and a consumer with one in between, at every distance at which a value can be in decode,
in dispatch, in the queue or on a bus; the MulFU's three and the MAU's two cycles fall between
them. The program families of Straight and Branches leave out what section 5 shows to be wrong,
so that a pass says something: no store of a just loaded value, no CMP, no more results than
registers, no branch that is not taken at its first meeting, flags there when a
branch tests them, no multiplication in a loop, no loop with a single memory operation (its
second execution never starts, because apex_cpu.c:1005 takes the pc left in the latch for its
own), no register read before it was written, no NOP at the start of a mispredicted branch's
wrong path when the branch can reach the head of the buffer unresolved, no HALT behind a jump,
not more branches than BTB entries. Limits has most of these, and asks only for the
structures' consistency. Its programs have no more conditional branches than the two BTB entries:
a branch that enters a full BTB gets an entry for a wrong pc (FullBTB, section 5), which is
`FindsEntry` violated, so the replacement in a full BTB is in no listed run. Branches has no
STOREP: of `SquashesCleanly` it exercises only the squash that meets a head already committed. Three lines are enough for the parser: what one line leaves to another is in
`tokens`, which every action but `CreateInstruction` leaves alone.

**Deadlock.** A program ends (done, stopped or undefined), so the pipeline's runs do not check for
deadlock; that an unfinished one never stops is `Terminates`. The run FreeList checks it.

**Fairness.** `FairSpec` is `Spec` with weak fairness of `StageReturns`, "some stage function
returns". It is justified by the code: one thread, no lock and no wait in any stage function, all
loops but one over the indices of an array, and that one, `removeROBTail`, takes an entry off a
finite buffer in each iteration (each iteration is a step here). No fairness is assumed of any
single stage: the run loop's order decides. `SimSpec` and `ParserSpec` are weakly fair in their
whole next-state relation: main and the parser are that same thread, and the one thing they wait for,
the key at the prompt, is assumed to be pressed sooner or later (which one is not assumed).

**Properties.** In `ApexPipeline`, stated there in words: `RefinesISA`, `Terminates`,
`RegistersConserved`, `CCConserved`, `NoRegisterShared`, `FlagsRegisterGiven`,
`NoInstructionForgotten`, `TableNamesYoungest`, `SourcesNameProducers`, `RenamesInOrder`,
`WaitingIsInFlight`, `TypeOK`, `RoBContiguous`, `LSQFollowsRoB`, `RoomWhenDispatched`, `BTBUnique`,
`BusesDistinct`, `EarliestIssued`, `StoresInProgramOrder`, `MulFUNotPipelined`, and what the code
relies on without testing it, which is also what the theorems of section 4 assume: `Undisturbed`,
`SquashesCleanly`, `FindsEntry`, `MAUUndisturbed` (and, violated, `FindsSlots`: SlotRefused, section 5); in `FreeListArray` `FreeAtFront` and `RefinesFifo`; in `ApexAssembler`
`PrintedAsWritten`, `LinesStandAlone`, `LoadsPrograms`; in `ApexSimulator` `RunsWhatIsWritten`,
`ImplementsCpu`, `ListingsAgree` and `AlwaysEnds` (with a limit every run ends, on programs that
hang the pipeline too).

**Seeded bugs.** Each property is known to be able to fail: next to a definition stands, marked
"Seeded bug", a plausible wrong version of it (`MaxCounter` next to `MinCounter`, `AnyHeadMatches`
next to `HeadsMatch`); with it in place of the right one TLC finds the property violated under
the same configuration. `PROJECT.json` pairs them.

**Refinement.** The mapping takes the ARF, the CC flags and memory as committed: a store commits
in the commit stage and the MAU, later in the same cycle, may still be about to write it, so
`CommittedMemory` already contains it in between. Every step of the pipeline must be a
stutter or exactly one instruction of the sequential machine.

`RenamesInOrder` is a second refinement, of renaming alone. `Renamed` (in `ApexPipeline`) lists
the instructions that have been renamed and have not committed, in program order: those of the
reorder buffer, then the latches behind decode. `ApexRenaming` knows this window
only: an instruction enters it with registers nobody else has and with its sources naming the
last writers before it, and leaves it as the oldest. How decode's lookups in the rename table, its
entries and the free lists bring that about is the implementation. The table is written in decode
and, entry by entry, in a squash; commit does not touch it, so it goes on naming the register of a
writer that has left the window.

**What is relied on.** Four properties are preconditions that the code neither tests nor handles.
`Undisturbed`: decode finds a free register whenever it renames (the stall it asks for comes a
cycle too late), dispatch finds room (it drops what it stalls with), and nothing is squashed; Straight
checks it. `SquashesCleanly`: squashes are allowed, but none meets a STOREP, whose base's register
`removeROBTail` mistakes, or a head that has committed already; Branches checks it. `FindsEntry`:
a branch that enters the BTB finds its own entry or an empty one. `MAUUndisturbed`: what the MAU
starts is in flight, and no squash reaches what it has started; Limits checks both.

## 4. What is proved

TLAPS proves, for every program, memory content and array size that satisfies
`SizesAssumption` and `ProgramsAssumption` (the reorder buffer and the LSQ have at least two slots:
with one, C's `(0 - 1) % 1` leaves the tail at 0 instead of -1 when the last entry goes):

- `RoBIsContiguous`: `Spec => []RoBContiguous`. `RoBContiguous` is not inductive: the
  deletion of a committed head is a flag in one cycle and happens in the next, and a squash may
  run in between. `RoBInv` adds what links the two: a pending deletion means that the
  buffer is not empty or its tail is already below zero (the case `CommitBelowZero` takes),
  that an instruction in the `issue_queue` latch finds room, and that the latch is empty in
  the stages where it must be. The lemmas `RoBInvCommit`, `RoBInvIssue`, ... treat
  one action each; the actions that touch none of it are one case.
- `MulFUIsNotPipelined`: `Spec => MulFUNotPipelined`, from `MulFUInv`, which ties the
  counter to the latch: a multiplication in the latch has one to three cycles left.
- `FreeListTypeOK`, `FreeListAtFront`, `FreeListRefines`: for every `SIZE`, the array holds
  registers or -1, its free registers are at the front, and it implements the FIFO queue the
  pipeline is modelled with. The argument is the number n of free registers: it is unique
  (`CountOfHoldsFirst`), a request lowers it by one, a return raises it.

- `LSQFollowsTheRoB`: `Spec => []LSQFollowsRoB`. The n-th memory operation of the reorder
  buffer has place n in the LSQ, so its place is a rank: the number of memory operations before
  it (`Rank`). Appending an entry leaves the ranks, deleting the head lowers each by one if
  the head was a memory operation, squashing the tail leaves those before it (`RankAppended`,
  `RankMovedDown`, `RankOfLast`). `LSQInv` strengthens the property by three facts. The two
  heads are deleted together: a pending deletion in the LSQ belongs to the instruction at the
  head of the reorder buffer, unless a squash emptied the buffer in between. The
  `lsq_index` an entry remembers is at or behind its place, which is why the stale index
  of a squash (StaleIndex, section 5) never clears an entry that is still needed. And an
  instruction in the `issue_queue` latch finds room.
- `RoomIsKept`: `Spec => []RoomWhenDispatched`, from `RoBInv`, `LSQInv` and `IQRoom`: between
  dispatch and the establishment nothing fills the issue queue, and a squash only frees slots.
- `TypesAreCorrect`: `Spec => []TypeOK`. The inductive part is `TypeInv`, one lemma per
  stage; it uses `RoBInv` (the index of the reorder buffer's tail) and also says that the rename
  table keeps flag registers apart from physical ones. The bounds of the queues' pointers
  follow from `RoBInv` and `LSQInv`.

The last three assume `BitwiseIsInt`, that `&`, `|` and `^` of two ints is an int: nothing else is
known of the constant `BitwiseResult`. It ranges over all integers, which TLC cannot enumerate, so
it stands as a hypothesis of the theorems and not as an `ASSUME` of `ApexCpu`.

About the parser, for every set of files and every content of the uninitialised stack:

- `InstructionsAsWritten`, `NoOperandStays`, `LoadedAreInsns`: `ParserSpec` implies
  `[]PrintedAsWritten`, `[]LinesStandAlone`, `[]LoadsPrograms`. `PInv` says of every instruction
  made so far that it comes from its line and from *some* content of the buffers; that the content
  does not matter is then a fact about text alone: opcodes fall into eight groups (`Groups`), in
  each the listing shows (`ShownByGroup`) and the parser takes (`FieldsByGroup`) the same places.

And about the whole program, for every set of programs whose hidden fields are 0
(`PlainAssumption`: a field the syntax has no place for is what `calloc` left), every command line
and every sequence of keys:

- `RunsTheFile`: `SimSpec => []RunsWhatIsWritten`. `RoundTrip` is the lemma behind it: an
  instruction read back from the operands its listing shows is the same instruction. `SimInv`
  carries it through the parser's loop, and `CodeStays` says that no stage writes the code memory.

- `SimulatorImplementsCpu`: `SimSpec => ImplementsCpu`. The program of `ApexCpu` is there when
  it starts, the simulator's is read from a file: the refinement maps the code memory to the
  program as written, so the parser's loop is a stutter, and by `SimInv` the code memory that
  `Fetch` reads is that program once it is loaded. `Cpu` is an instance of `ApexCpu` with operators of its own; that
  those which do not read the code memory are the same operators is shown from the smallest up
  (`SameFirstIndex`, ..., `SameNext`), and `FetchStage` is the only action where `OnItsProgram` is needed.

**Theorems with a hypothesis.** The remaining properties are false of some program, as
section 5 shows: registers leak at a flush, a full BTB enters a wrong pc, the dispatch counter passes 999,
a squash that comes too late reaches what the MAU works on. Their theorems state the exact condition,
as weak as the proof allows. A condition on the states is a property of a passing run (those on the
counter and on `pc`, `FetchAligned`, apart), so that it is known to hold in the states of many programs and to fail when the
code is wrong. Where the table names no property, the hypothesis is a condition on the program's text alone.

| Theorem | Conclusion | Hypothesis |
|---|---|---|
| `NoSharing` | `[]NoRegisterShared` | `[]SquashesCleanly` |
| `Conservation` | `[]RegistersConserved` | `[]Undisturbed` |
| `TableInOrder`, `SourcesInOrder` | `[]TableNamesYoungest`, `[]SourcesNameProducers` | `[]Undisturbed` |
| `RenamingImplemented` | `RenamesInOrder` | `[]Undisturbed` |
| `FlagsConservation` | `[]CCConserved` | `[]Undisturbed`, no CMP in the program |
| `OneEntryEach` | `[]BTBUnique` | `[]FindsEntry` |
| `StoresInOrder` | `StoresInProgramOrder` | `[]MAUUndisturbed` |
| `OldestFirst` | `EarliestIssued` | `[](issue_counter <= MIN_COUNTER_START)` |
| `StraightLineUndisturbed` | `[]MAUUndisturbed` | no branch in the program |
| `StraightLineStores` | `StoresInProgramOrder` | no branch in the program |
| `FittingUndisturbed` | `[]Undisturbed` | no branch in the program, and it fits |
| `FittingRenames` | `[]RegistersConserved`, `[]TableNamesYoungest`, `[]SourcesNameProducers`, `RenamesInOrder` | no branch in the program, and it fits |
| `FittingFlags` | `[]FlagsRegisterGiven` | the same, and no more instructions that set flags than flags registers |
| `EveryBranchEnters` | `[]FindsEntry`, `[]BTBUnique` | no more conditional branches in the program than BTB entries, `[]FetchAligned` |
| `OneBusEach`, `NoneForgotten` | `[]BusesDistinct`, `[]NoInstructionForgotten` | no branch in the program, it fits, and the issue queue has no more slots than 999 (`TimesFit`) |
| `FittingIssuesOldest` | `EarliestIssued` | the same |
| `RegisterProgramsRefineISA` | `RefinesISA` | `Fits`, `TimesFit`, `FlagsFit`, `RegisterPrograms`, `SourcesWritten` (below) |

- *Registers* (`ApexRenaming_proof`). `OwnInv`, for `NoSharing`: the free list has no register twice,
  and every instruction of `Window` owns its registers, apart from the other instructions and from
  the free list. It survives everything that may be squashed cleanly or lost in a latch, since
  losing an instruction only leaks. `LatchInv` adds which latch can hold what at which stage.
  `FlowInv`, for the other theorems, needs that nothing is lost: registers are free or in the window,
  the table names the last writer in the window, sources name the last writer before them. Commit
  leaves the table alone: what it changes is the window, which loses its oldest, and the free list,
  which gets that one's registers back; by `OwnInv` no other instruction of the window has them.
  `FlagsInv` is the same for the flags registers; CMP is excluded since commit never returns its register.
- *BTB*. `BTBOrdered` adds to `BTBUnique` that the entries in use are a prefix of the array: the
  search stops at the first empty slot, so it would otherwise miss an entry behind one.
- *Memory*. `CodeInv`: every instruction in a latch or queue comes from the code memory, so that
  instructions with the same pc are the same instruction. `MAUInv`: while the MAU works, in its
  second cycle too, the heads of both queues are the instruction it started. It reads the LSQ in
  the second cycle without comparing again.
- *Selection*. `TimesInv`: times in the issue queue are below the counter and distinct, and no instruction with the
  time 0, which the loops take for "none found", waits: `FirstInv` says that the
  first instruction dispatched is issued in its own issue stage.
- *Programs without branches*. `QuietInv`: nothing is squashed and no branch is in any
  latch or queue, so every established LSQ entry is one of the reorder buffer's by `LSQInv`.
- *Programs that fit* (`Fits`): with the simulator's sizes those of up to 24 instructions, 16 of them memory
  operations, and 25 results. `BudgetInv` counts: what a queue and the latches in front of it hold has been
  fetched, each instruction once, since without branches `pc` only grows; so each queue holds no more than
  has been seen of its kind, and the free list lacks no more registers than have been asked for. The
  same count for the flags registers is `FlagsBudgetInv` (at most 16 instructions that set flags). A longer
  program may find a full queue in dispatch or no free register in decode; for it `Undisturbed` stays
  a hypothesis.
- *Branches that enter*. The BTB's entries are pcs of conditional branches of the program and no two are
  equal, so with a full BTB every branch has its entry (the counting argument is
  `EntryLeft`). `FetchAligned`, that fetch stays on multiples of 4, is not enforced by the code:
  a jump may go to any pc, and the index of an instruction is a quotient, so that one branch could have
  two pcs and two entries.
- *Forwarding* (`ApexForwarding_proof`). `MachineInv` gathers what is proved of programs that fit.
  `Placed(i)`: a latch, a queue or a unit holds i. `FreshRegs`: such a program uses each physical
  register once, in order, so those from some number on have never been used. Hence a register stays
  with the instruction it was handed to, and the opcode of that instruction decides the
  bus its value comes on: `Delivered` is that assignment of buses, and `BusesDistinct`
  follows. `PcOrder`: what is behind is younger, so a pc names one slot of the
  issue queue and the removal by pc hits the right one. `Remembered`: an instruction of
  the reorder buffer is in the issue queue, a unit, the LSQ or on a bus, or its register is
  written; each stage hands it on before it clears it.
- *The sequential machine*. `RegisterProgramsRefineISA` shows of every cycle, however the stages
  overlap, that what commits is the next instruction of sequential execution with the result that
  execution gives it. `R[n]` are the registers after n instructions of sequential
  execution, and the proof carries three ghosts along: R for the D instructions renamed so far, and V
  and F, the value and the flags each physical and each flags register is *meant* to hold, chosen
  when it is handed out (`WithResult`, `WithFlags`). `Values` says that the state agrees
  with them: what is on a bus, in the register files or in a unit is what was meant, and every
  `Placed` instruction is `Explained`, that is, it is the n-th of the run for some n, its sources stand for
  `R[n - 1]` and its destination for `R[n]`. `TableValues` says the same of the rename table,
  `InLine` and `HeadAt` which n the head of the reorder buffer has, `ArchAt` that the ARF is `R` there.
  Together they are `Represented`, and every step keeps it (`RepresentedStep`): decode extends R, V and F, forwarding
  moves values that are right already (`Carried`), the units compute them (`UnitResults`),
  commit is one step of `ApexISA` (`ExecutesNext`), everything else a stutter.
  `FreshRegs` and `FreshFlags` are needed because of the run Reuse (section 5): a register that is handed out
  again while an older reader still waits for it has no one meaning.

  `RegisterPrograms`: the instructions are MOVC, the two-operand ALU instructions with MUL, those with a literal, CML, NOP
  and HALT. CMP is excluded because commit leaves the architectural flags alone for it, DIV because dispatch drops it, memory
  operations and branches because of the faults in section 5 (StoreData, WrongPathCommits) that a condition
  on the text would have to rule out. `SourcesWritten`: an instruction reads no register that no
  earlier one has written. Such a source has the name -1 in the rename table, which is also the tag of an
  idle bus, and takes whatever value that bus still has. A program that satisfies all five is, for example, any sequence of up
  to 24 of these instructions, at most 16 of which set flags, that loads the registers it reads before it reads them.

Only model-checked: liveness (`Terminates`, `AlwaysEnds`: out of the prover's reach); `RefinesISA`
for programs with memory operations, branches, or more instructions than fit;
`NoInstructionForgotten` and `BusesDistinct` for programs with branches or that do not fit (an instruction
may lose its slot to a stale one with the same pc); `WaitingIsInFlight` (a branch can commit unresolved, and
a NOP unissued, in a program without branches that fits too: NopStays) and `ListingsAgree`, which contains it; and the hypotheses `Undisturbed` (for programs with branches or
that do not fit) and `SquashesCleanly`, which depend on the program.

## 5. Where the code and its description differ

Each has a configuration with one program or file, for which TLC finds a property violated that
says what the README or a comment promises. Six are kept as runs of the project, one for each
kind of fault (what a flush leaves, what it takes, what a branch waits for, what a slot keeps,
what an index refers to, what the parser cuts); `PROJECT.json` quotes the promises.

| Run | Violated | What happens |
|---|---|---|
| LeakOnFlush | `RegistersConserved` | A wrong-path instruction still in the dispatch or issue latch at the flush keeps its physical register for ever. |
| FlushDropsOlder | `FlushSparesOlder` | The flush empties the MulFU of a multiplication older than the branch. |
| BranchFlags | `BranchWaitsForFlags` | A branch is resolved before the multiplication in front of it has set the flags. |
| StaleEntry | `IntFUNotIdle` | The remains of an issued NOP are chosen for the IntFU in every cycle; HALT never issues. |
| StaleIndex | `NoSquashedLSQEntry` | A squash clears the LSQ slot given at dispatch; after the head was deleted in between, that is another slot, and the squashed entry stays established. No wrong result was seen: the place counts as free and is overwritten. |
| MnemonicAlone | `OnlyInvalidOpcodesAbort` | NOP or HALT alone on a line keeps the newline; the parser aborts with "Invalid opcode". |

The others have a configuration too, to be run by hand
(`tlc -config StoreData.cfg MCFindings`):

| Configuration | Module | Violated | What happens |
|---|---|---|---|
| NotTaken | `MCFindings` | `Terminates` | A branch not taken at its first meeting leaves decode stalled; the program hangs. |
| StoreData | `MCFindings` | `RefinesISA` | A store does not listen to the MAU's bus; with data from a load it writes a stale value. |
| Reuse | `MCFindings` | `RefinesISA` | The register freed at commit is the current value's own; it is handed out while still mapped. |
| CounterRunsOut | `MCFindings` | `IntFUNotIdle` | The wakeup loops' minimum starts at 999 and the dispatch counter only grows: after 999 dispatches a ready instruction is never issued. |
| FlagsExhausted | `MCFindings` | `FlagsRegisterGiven` | CMP does not return its flags register; the seventeenth comparison is renamed to -1. |
| FullBTB | `MCFindings` | `RefinesISA` | With a full BTB the new entry gets the pc of another instruction; the branch has none, so a taken branch is not redirected. |
| WrongPathCommits | `MCFindings` | `RefinesISA` | A branch commits unresolved, and the wrong-path NOP behind it in the next cycle. |
| NopStays | `MCFindings` | `WaitingIsInFlight` | A NOP commits without having been issued; when the IntFU keeps choosing another one's remains (StaleEntry), it stays in the issue queue for ever. No document promises otherwise; it is why `WaitingIsInFlight` has no theorem. |
| HaltFetched | `MCFindings` | `Terminates` | A HALT fetched behind a JUMP turns fetch off, where the redirect would be taken; the program hangs. |
| LimitBeforeWrite | `MCFindings` | `RefinesISA` | At the limit a store can be committed and memory not yet written. |
| Retired | `MCSimulator` | `CountsOnlyRetired` | `insn_completed` counts every cycle with an instruction at the head. |
| LimitWord | `MCSimulator` | `AlwaysEnds` | The README's `./apex_sim <file> simulator <n>` does not match main.c's word `simulate`: no limit. |
| SlotRefused | `MCFindings` | `FindsSlots` | The only free slot of the issue queue still has the instruction's own pc from the last round of a loop and is skipped: the instruction enters the reorder buffer but not the issue queue and is never executed. Needs a nearly full issue queue; seen with two slots, in the simulator built with that size too. |
| BranchStack | `MCSimulator` | `BranchesInBIS`, `HistoryShown` (with `-continue`) | No branch is put on the branch instruction stack the README describes; the BTB's listing prints the same bit twice. |

Those of the pipeline, the limit and the newline were reproduced with the simulator.

## 6. Not modelled

The dumps of registers, flags, memory and forwarding tags (apex_print.c:212-328) and all layout:
they show fields as they are. A register number beyond the register file, which the parser lets through:
`Insns` has existing registers, and `LoadsPrograms` says which files give them. Words
too long for their buffers in the parser (counted are only words and operands), and numbers too
long for `atoi`. Integer overflow of C's `int`: the code has no comparison that depends on it but
the dispatch counter, and that meets the literal 999 first (`MIN_COUNTER_START`). A file that
changes between the parser's two passes.

## 7. Plan

Done: every component of section 1, the runs and theorems above. What is left:

1. `RefinesISA` for straight-line programs with memory operations: the ghosts of `Represented` need a
   memory per instruction, the LSQ's addresses and data as further values, and a condition
   that excludes a store whose data a load delivers (StoreData).
2. `WaitingIsInFlight` without branches, NOP and CMP (which commit at once), from `Remembered` and the converse
   that a written register's instruction has left the issue queue. `ListingsAgree` selects from sequences, so
   the rest of it is an induction over data.
3. Programs that do not fit: registers used more than once. `FreshRegs` has to become "no older reader
   waits for it", which the commit's early return of registers (Reuse) breaks for some programs.
