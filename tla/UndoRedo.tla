------------------------------ MODULE UndoRedo ------------------------------
(***************************************************************************)
(* What an undo/redo history promises: a line of states and a position on  *)
(* it.  Undo and redo move along the line and leave it as it is; a gesture *)
(* forgets what was undone and goes on from the position.  Implemented by  *)
(* CanvasHistory.                                                          *)
(***************************************************************************)
EXTENDS Naturals, Sequences

CONSTANTS
    Shows,   \* what may be shown
    Cap      \* steps that can be undone, at least one

VARIABLES line, at

vars == <<line, at>>

Init ==
    /\ \E s \in Shows : line = <<s>>
    /\ at = 1

\* The line up to the position, without the steps the cap forgets.
Kept == SubSeq(line, IF at > Cap THEN at - Cap + 1 ELSE 1, at)

Extend(s) ==
    /\ line' = Append(Kept, s)
    /\ at' = Len(Kept) + 1

\* The last state of the line is corrected; nothing was undone.
Amend(s) ==
    /\ at = Len(line)
    /\ line' = [line EXCEPT ![at] = s]
    /\ UNCHANGED at

Back == at > 1 /\ at' = at - 1 /\ UNCHANGED line

Forth == at < Len(line) /\ at' = at + 1 /\ UNCHANGED line

Next == Back \/ Forth \/ \E s \in Shows : Extend(s) \/ Amend(s)

Spec == Init /\ [][Next]_vars
=============================================================================
