---------------------------- MODULE CanvasHistory ----------------------------
(***************************************************************************)
(* Undo and redo of a canvas in one browser tab:                           *)
(* apps/frontend/src/features/schema/canvas/useHistoryStack.ts and         *)
(* useCanvasHistory.ts, with the handlers of the canvas that change what   *)
(* is shown (useCanvasActions.ts, useCanvasFrames.ts, useCanvasNodes.ts,   *)
(* useCanvasSelectionLasso.ts and the hydration of useCanvasSyncBridge.ts).*)
(*                                                                         *)
(* What is shown (positions, sizes, frames, hidden tables) is opaque.  An  *)
(* action is a handler, the commit of its batched updates and the effect   *)
(* that follows: React flushes the effects of a discrete event before it   *)
(* handles the next one.                                                   *)
(***************************************************************************)
EXTENDS Naturals, Sequences

CONSTANTS
    Shows,   \* what may be shown
    None,    \* no gesture is under way
    Cap      \* DEFAULT_MAX

ASSUME CanvasHistoryAssumption == None \notin Shows /\ Cap \in Nat \ {0}

VARIABLES
    shown,     \* positions, sizes, frames and hiddenIds after the last commit
    past,      \* stackRef.current.past
    future,    \* stackRef.current.future, its last element first
    prev,      \* prevRef.current
    pending,   \* pendingSyncRef.current
    start,     \* what the gesture under way started from
    loose      \* since the last gesture that changed something as it ended, undo or
               \* redo, the canvas was hydrated or a gesture ended without a change

vars == <<shown, past, future, prev, pending, start, loose>>

TypeOK ==
    /\ shown \in Shows /\ prev \in Shows
    /\ past \in Seq(Shows) /\ Len(past) <= Cap
    /\ future \in Seq(Shows) /\ Len(past) + Len(future) <= Cap
    /\ pending \in BOOLEAN /\ loose \in BOOLEAN
    /\ start \in Shows \cup {None}

\* prevRef is initialised by the first render.
Init ==
    /\ shown \in Shows
    /\ past = <<>> /\ future = <<>>
    /\ prev = shown
    /\ pending = FALSE
    /\ start = None
    /\ loose = FALSE

Top(s) == s[Len(s)]

\* Variant of LastOf without the cap.
LastOfAll(s, n) == s

LastOf(s, n) == SubSeq(s, IF Len(s) > n THEN Len(s) - n + 1 ELSE 1, Len(s))

\* What was shown when the gesture that ends now began.
Began == IF start = None THEN shown ELSE start

-----------------------------------------------------------------------------
(* The stack. *)

\* `push' leaves the stack alone when its top is the snapshot it would add.
Duplicate == past # <<>> /\ Top(past) = prev

\* `push' of the snapshot, which is prevRef.
Push ==
    IF Duplicate
    THEN UNCHANGED <<past, future>>
    ELSE /\ past' = LastOf(Append(past, prev), Cap)
         /\ future' = <<>>

\* Variant of Synced without the gate: prevRef follows every commit.
SyncedFreely(s, armed) == prev' = s /\ pending' = FALSE

\* The effect of useCanvasHistory after a commit that changed what is shown.
Synced(s, armed) ==
    /\ prev' = IF armed THEN s ELSE prev
    /\ pending' = FALSE

\* Variant of Restore that leaves the gate armed.
RestoreArmed(s) ==
    /\ shown' = s
    /\ prev' = s
    /\ UNCHANGED pending
    /\ start' = None
    /\ loose' = FALSE

\* The snapshot is shown and becomes prevRef, without the gate.
Restore(s) ==
    /\ shown' = s
    /\ prev' = s
    /\ pending' = FALSE
    /\ start' = None
    /\ loose' = FALSE

-----------------------------------------------------------------------------
(* Handlers. *)

\* A handler that changes what is shown and pushes: hide, unhide, rename,
\* create or remove a frame, add a table to it, lay out, resize a table, drop
\* a table, or a frame that has tables.
Gesture(s) ==
    /\ Push
    /\ shown' = s
    /\ Synced(s, TRUE)
    /\ start' = None
    /\ loose' = FALSE

\* One move of a frame that is dragged or resized.
Live(s) ==
    /\ shown' = s
    /\ Synced(s, pending)
    /\ start' = Began
    /\ UNCHANGED <<past, future, loose>>

\* A frame was resized, or dropped without a table: the handler pushes but
\* changes nothing, and the effect does not run.
Release ==
    /\ Push
    /\ pending' = TRUE
    /\ start' = None
    /\ loose' = TRUE
    /\ UNCHANGED <<shown, prev>>

\* The answer of the server replaces what is shown; so does a frame that is
\* fitted to its tables, or another canvas whose schema has the same key.
Hydrate(s) ==
    /\ shown' = s
    /\ Synced(s, pending)
    /\ loose' = TRUE
    /\ UNCHANGED <<past, future, start>>

Undo ==
    /\ past # <<>>
    /\ past' = SubSeq(past, 1, Len(past) - 1)
    /\ future' = <<prev>> \o future
    /\ Restore(Top(past))

Redo ==
    /\ future # <<>>
    /\ past' = Append(past, prev)
    /\ future' = Tail(future)
    /\ Restore(Head(future))

Next ==
    \/ \E s \in Shows : Gesture(s) \/ Live(s) \/ Hydrate(s)
    \/ Release \/ Undo \/ Redo

Spec == Init /\ [][Next]_vars

-----------------------------------------------------------------------------
(* Properties. *)

\* Whatever is hydrated, resized or undone half-way through a gesture, the
\* stack is a line of states on which undo and redo only move: no redo leads
\* to a branch a later gesture left (useHistoryStack.ts, `push' that returns
\* early without clearing `future'), and no state of the line is lost.
Line == past \o <<prev>> \o future

History == INSTANCE UndoRedo WITH line <- Line, at <- Len(past) + 1

ImplementsUndoRedo == History!Spec

\* Unless the canvas was hydrated or a gesture ended without a change since
\* the history was last in step, a gesture saves what was shown when it began,
\* however many commits it made, and an undo saves what it takes back
\* (useCanvasHistory.ts, the gate `pendingSyncRef').
SavesWhatWasShown ==
    [][~loose =>
         /\ (Release \/ \E s \in Shows : Gesture(s)) => past' # <<>> /\ Top(past') = Began
         /\ Undo /\ start = None => Head(future') = shown]_vars

\* Refuted after a hydration and after the resize of a frame: the entry a
\* gesture saves is the state before it, as useCanvasHistory.ts says.
UndoTakesBack ==
    [][(Release \/ \E s \in Shows : Gesture(s)) => past' # <<>> /\ Top(past') = Began]_vars
=============================================================================
