---------------------------- MODULE ApexRenaming ----------------------------
(***************************************************************************)
(* What register renaming promises the rest of the pipeline, whatever the  *)
(* free lists, the rename table and the latches do: the instructions that  *)
(* have been renamed and have not committed form a window, each of them    *)
(* enters it with registers nobody else has and with its sources naming    *)
(* those that produce them, and leaves it in program order.                *)
(***************************************************************************)
EXTENDS ApexNames

VARIABLE window    \* the names of the instructions, oldest first

RenamingInit == window = << >>

MayEnter(i, older) ==
  /\ Given(i) \subseteq PhysicalRegs \ HeldBy(older)
  /\ i.opcode = "LOADP" => i.phyrd # i.phyrs3
  /\ i.opcode \in FlagOps =>
       \A k \in DOMAIN older : older[k].opcode \in FlagOps => older[k].flag # i.flag
  /\ NamesItsProducers(i, older)

\* The next instruction is renamed.
Rename ==
  /\ Len(window') = Len(window) + 1
  /\ window = SubSeq(window', 1, Len(window))
  /\ MayEnter(window'[Len(window) + 1], window)

\* The oldest instruction commits.
Retire == window # << >> /\ window' = Tail(window)

\* DIV has no place to go after decode.
DropDIV ==
  /\ window # << >>
  /\ window[Len(window)].opcode = "DIV"
  /\ window' = SubSeq(window, 1, Len(window) - 1)

RenamingNext == Rename \/ Retire \/ DropDIV
RenamingSpec == RenamingInit /\ [][RenamingNext]_window
=============================================================================
