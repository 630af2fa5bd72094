----------------------------- MODULE CanvasSync -----------------------------
(***************************************************************************)
(* The synchronisation of a canvas with the server in one browser tab:     *)
(* apps/frontend/src/features/schema/canvas/useCanvasSync.ts, for a user   *)
(* who is logged in, with its client canvasStateClient.ts and, behind it,  *)
(* apps/backend/src/domains/canvas-state/{get, put}.ts.                    *)
(*                                                                         *)
(* The hook reads the layout of the canvas it shows once, pushes what the  *)
(* user draws after a delay, and flushes when it is unmounted or when the  *)
(* same instance is given another canvas.  The query cache and the PUTs in *)
(* flight outlive the hook.  Canvases have distinct tables, and PUTs are   *)
(* served in the order they were sent.                                     *)
(***************************************************************************)
EXTENDS Naturals, Sequences

CONSTANTS
    Canvases,      \* ids of db_connections
    Undo,          \* whether the user returns to a layout he had before
    Blank,         \* the layout with no override, EMPTY_SERIALIZED
    None,          \* null
    MaxStrokes,    \* bound: changes the user makes to a canvas
    MaxInFlight,   \* bound: PUTs in flight
    MaxFailures    \* bound: requests that fail

ASSUME CanvasAssumption ==
    /\ Canvases # {} /\ None \notin Canvases /\ Blank # None
    /\ Blank \notin Canvases \X Nat    \* values of their own
    /\ None \notin (Canvases \X Nat) \cup [to : Canvases, val : (Canvases \X Nat) \cup {Blank}]
    /\ Undo \in BOOLEAN
    /\ MaxStrokes \in Nat
    /\ MaxInFlight \in Nat /\ MaxFailures \in Nat

\* The n-th layout drawn on canvas c; 0: what the server has at first, if any.
LayoutsOf(c) == ({c} \X (0..MaxStrokes)) \cup {Blank}

Layouts == UNION { LayoutsOf(c) : c \in Canvases }

VARIABLES
    hook,       \* state and refs of the mounted instance
    cache,      \* query cache, per canvas
    fetching,   \* canvases whose GET is in flight
    puts,       \* PUTs in flight, in the order they were sent
    server,     \* canvas_state rows; None: no row
    last,       \* last layout drawn on a canvas; None: none, or one drawn before the
                \* hydration, while offline or whose PUT failed after the user left
    unsaved,    \* canvases whose last PUT failed
    drawn,      \* number of layouts drawn on a canvas
    strokes,    \* number of changes of a canvas
    failures

vars == <<hook, cache, fetching, puts, server, last, unsaved, drawn, strokes, failures>>

Push == [to : Canvases, val : Layouts]

Hook == [ on       : Canvases \cup {None},   \* connectionId; None: not mounted
          local    : Layouts,                \* currentSerialized
          hydrated : BOOLEAN,
          status   : {"idle", "saving", "error", "offline"},
          synced   : Layouts \cup {None},    \* lastSyncedSerializedRef
          pending  : Push \cup {None},       \* pendingPushRef, its timer armed
          start    : Layouts \cup {None},    \* fetchStartSerializedRef
          awaits   : Canvases \cup {None},   \* canvas of awaitedPush
          moved    : BOOLEAN ]               \* it showed another canvas before

Query == [state : {"absent", "error", "ok"}, data : Layouts \cup {None}]

TypeOK ==
    /\ hook \in Hook
    /\ cache \in [Canvases -> Query]
    /\ fetching \subseteq Canvases
    /\ puts \in Seq([to : Canvases, val : Layouts, mine : BOOLEAN, applied : BOOLEAN])
    /\ server \in [Canvases -> Layouts \cup {None}]
    /\ last \in [Canvases -> Layouts \cup {None}]
    /\ unsaved \subseteq Canvases
    /\ drawn \in [Canvases -> 0..MaxStrokes]
    /\ strokes \in [Canvases -> 0..MaxStrokes]
    /\ failures \in 0..MaxFailures

Absent == [state |-> "absent", data |-> None]

\* A hook just mounted on c, or not at all.
Mounted(c) == [on |-> c, local |-> Blank, hydrated |-> FALSE, status |-> "idle",
               synced |-> None, pending |-> None, start |-> None, awaits |-> None, moved |-> FALSE]

Init ==
    /\ hook = Mounted(None)
    /\ cache = [c \in Canvases |-> Absent]
    /\ fetching = {}
    /\ puts = <<>>
    /\ server \in { f \in [Canvases -> (Canvases \X {0}) \cup {None}] :
                    \A c \in Canvases : f[c] \in {None, <<c, 0>>} }
    /\ last = [c \in Canvases |-> None]
    /\ unsaved = {}
    /\ drawn = [c \in Canvases |-> 0]
    /\ strokes = [c \in Canvases |-> 0]
    /\ failures = 0

-----------------------------------------------------------------------------
(* Effects of the hook. *)

\* Variant of Armed whose effect does not depend on the status.
ArmedOnChange(old, new) ==
    LET ran == <<old.local, old.hydrated>> # <<new.local, new.hydrated>>
    IN  IF /\ ran /\ new.hydrated
           /\ new.status # "offline"
           /\ new.synced # None /\ new.synced # new.local
        THEN [new EXCEPT !.pending = [to |-> new.on, val |-> new.local]]
        ELSE new

\* The push effect after a render that took hook `old' to `new': it runs when
\* one of its dependencies changed, and arms the timer unless the layout is
\* the one known to be on the server.  A timer already armed is left alone.
Armed(old, new) ==
    LET ran == <<old.status, old.local, old.hydrated>> # <<new.status, new.local, new.hydrated>>
    IN  IF /\ ran /\ new.hydrated
           /\ new.status # "offline"
           /\ new.synced # None /\ new.synced # new.local
        THEN [new EXCEPT !.pending = [to |-> new.on, val |-> new.local]]
        ELSE new

\* `doPush' up to its request.
Sends(pending, mine) ==
    puts' = Append(puts, [to |-> pending.to, val |-> pending.val,
                          mine |-> mine, applied |-> FALSE])

\* An observer of canvas c fetches it unless the cache has data.
Fetches(c) == cache[c].state # "ok"

Observe(c) ==
    IF Fetches(c)
    THEN /\ fetching' = fetching \cup {c}
         /\ cache' = [cache EXCEPT ![c] = Absent]
    ELSE UNCHANGED <<fetching, cache>>

InFlight(c) == \E i \in DOMAIN puts : puts[i].to = c

SettledQuery(c) == c \notin fetching /\ cache[c].state # "absent"

\* Variant of Quiet that does not wait for the PUTs of an earlier instance.
QuietAtOnce(c) == SettledQuery(c)

\* The query has settled and no PUT hydration waits for is in flight.
Quiet(c) == SettledQuery(c) /\ ~InFlight(c) /\ ~InFlight(hook.awaits)

\* React runs the effects of a render before it handles another event.
Rendered == hook.on # None /\ (hook.hydrated \/ ~Quiet(hook.on))

-----------------------------------------------------------------------------
(* The user. *)

\* The canvas is opened from the gallery: a new instance.
Open(c) ==
    /\ hook.on = None
    /\ Observe(c)
    /\ hook' = [Mounted(c) EXCEPT !.start = IF Fetches(c) THEN Blank ELSE None]
    /\ UNCHANGED <<puts, server, last, unsaved, drawn, strokes, failures>>

\* The layout changes: a new one, or one the user gave it before.
Draw(l) ==
    LET c == hook.on
        new == <<c, drawn[c] + 1>>
        before == ({c} \X (1..drawn[c])) \cup {Blank}
    IN
    /\ Rendered
    /\ strokes[c] < MaxStrokes
    /\ l = new \/ (Undo /\ l \in before \ {hook.local})
    /\ hook' = Armed(hook, [hook EXCEPT !.local = l])
    /\ last' = [last EXCEPT ![c] = IF hook.hydrated /\ hook.status # "offline" THEN l ELSE None]
    /\ drawn' = [drawn EXCEPT ![c] = IF l = new THEN @ + 1 ELSE @]
    /\ strokes' = [strokes EXCEPT ![c] = @ + 1]
    /\ UNCHANGED <<cache, fetching, puts, server, unsaved, failures>>

\* The canvas is closed: the instance flushes and is gone.
Close ==
    /\ Rendered
    /\ LET dead == [i \in DOMAIN puts |-> [puts[i] EXCEPT !.mine = FALSE]] IN
       IF hook.pending = None THEN puts' = dead
       ELSE /\ Len(puts) < MaxInFlight
            /\ puts' = Append(dead, [to |-> hook.pending.to, val |-> hook.pending.val,
                                     mine |-> FALSE, applied |-> FALSE])
    /\ hook' = Mounted(None)
    /\ UNCHANGED <<cache, fetching, server, last, unsaved, drawn, strokes, failures>>

\* The snapshot taken when the instance moves on to c.  The effect takes it in
\* the next render after an hydrated canvas, at once -- hence of the layout of
\* the old canvas -- after one that was neither hydrated nor fetching, and not
\* at all after one that was fetching.
StartOn(c) ==
    CASE ~Fetches(c) -> None
      [] Fetches(c) /\ hook.hydrated -> Blank
      [] Fetches(c) /\ ~hook.hydrated ->
            IF hook.on \in fetching THEN None ELSE hook.local

\* The promise awaited before the move is still awaited after it.
AwaitedOn ==
    IF InFlight(hook.awaits) THEN hook.awaits
    ELSE IF ~hook.hydrated /\ SettledQuery(hook.on) THEN hook.on ELSE None

\* Variant of Flushed that reads the canvas when the push is sent.
FlushedTo(c) == [hook.pending EXCEPT !.to = c]

\* The push flushed when the instance moves on to c: the canvas is the one
\* captured when the timer was armed.
Flushed(c) == hook.pending

\* The same instance is given another canvas.
Navigate(c) ==
    /\ Rendered /\ hook.on # c
    /\ IF hook.pending = None THEN UNCHANGED puts
       ELSE Len(puts) < MaxInFlight /\ Sends(Flushed(c), TRUE)
    /\ Observe(c)
    /\ hook' = [Mounted(c) EXCEPT
                   !.status = IF hook.pending = None THEN hook.status ELSE "saving",
                   !.start = StartOn(c),
                   !.awaits = AwaitedOn,
                   !.moved = TRUE]
    /\ UNCHANGED <<server, last, unsaved, drawn, strokes, failures>>

-----------------------------------------------------------------------------
(* The hook. *)

\* The delay is over, or the tab is hidden.
PushPending ==
    /\ hook.pending # None
    /\ Len(puts) < MaxInFlight
    /\ Sends(hook.pending, TRUE)
    /\ hook' = Armed(hook, [hook EXCEPT !.pending = None, !.status = "saving"])
    /\ UNCHANGED <<cache, fetching, server, last, unsaved, drawn, strokes, failures>>

\* The user has drawn since the fetch started.
UserTouched == hook.start # None /\ hook.start # hook.local

Settlement == [hook EXCEPT !.hydrated = TRUE, !.pending = None]

\* Variant of HydratedHook that applies the null of a 404.
HydratedNull ==
    LET h == Settlement
        q == cache[hook.on]
    IN  IF q.state = "error" THEN [h EXCEPT !.status = "offline", !.synced = Blank]
        ELSE IF UserTouched THEN [h EXCEPT !.synced = Blank]
        ELSE [h EXCEPT !.local = q.data, !.synced = q.data, !.status = "idle"]

\* Variant of HydratedHook that takes what is local for what is saved.
HydratedLocal ==
    LET h == Settlement
        q == cache[hook.on]
    IN  IF q.state = "error" THEN [h EXCEPT !.status = "offline", !.synced = Blank]
        ELSE IF q.data = None \/ UserTouched THEN [h EXCEPT !.synced = hook.local]
        ELSE [h EXCEPT !.local = q.data, !.synced = q.data, !.status = "idle"]

\* The hook after its query settled: offline on an error; nothing to apply on
\* a 404 nor over what the user drew meanwhile; else the server's layout.
HydratedHook ==
    LET h == Settlement
        q == cache[hook.on]
    IN  IF q.state = "error" THEN [h EXCEPT !.status = "offline", !.synced = Blank]
        ELSE IF q.data = None \/ UserTouched THEN [h EXCEPT !.synced = Blank]
        ELSE [h EXCEPT !.local = q.data, !.synced = q.data, !.status = "idle"]

Hydrate ==
    /\ hook.on # None /\ ~hook.hydrated
    /\ Quiet(hook.on)
    /\ hook' = Armed(hook, HydratedHook)
    /\ UNCHANGED <<cache, fetching, puts, server, last, unsaved, drawn, strokes, failures>>

-----------------------------------------------------------------------------
(* The requests. *)

\* GET: the row, or 404.
GetAnswered(c) ==
    /\ c \in fetching
    /\ fetching' = fetching \ {c}
    /\ cache' = [cache EXCEPT ![c] = [state |-> "ok", data |-> server[c]]]
    /\ UNCHANGED <<hook, puts, server, last, unsaved, drawn, strokes, failures>>

GetFails(c) ==
    /\ c \in fetching
    /\ failures < MaxFailures
    /\ failures' = failures + 1
    /\ fetching' = fetching \ {c}
    /\ cache' = [cache EXCEPT ![c] = [state |-> "error", data |-> None]]
    /\ UNCHANGED <<hook, puts, server, last, unsaved, drawn, strokes>>

\* PUT on the server: insert or update.
PutApplied ==
    \E i \in DOMAIN puts :
        /\ ~puts[i].applied
        /\ \A j \in 1..(i - 1) : puts[j].applied
        /\ puts' = [puts EXCEPT ![i].applied = TRUE]
        /\ server' = [server EXCEPT ![puts[i].to] = puts[i].val]
        /\ UNCHANGED <<hook, cache, fetching, last, unsaved, drawn, strokes, failures>>

\* Variant of Cached without setQueryData.
CachedBefore(p) == cache

\* The cache after the success of PUT p.
Cached(p) == [cache EXCEPT ![p.to] = [state |-> "ok", data |-> p.val]]

\* The hook after the success of its PUT p, whatever canvas it now shows.
Saved(p) == [hook EXCEPT !.synced = p.val, !.status = "idle"]

PutAnswered ==
    LET p == Head(puts) IN
    /\ puts # <<>> /\ p.applied
    /\ puts' = Tail(puts)
    /\ cache' = Cached(p)
    /\ hook' = IF p.mine THEN Armed(hook, Saved(p)) ELSE hook
    /\ unsaved' = unsaved \ {p.to}
    /\ UNCHANGED <<fetching, server, last, drawn, strokes, failures>>

\* A PUT is lost, or its answer is.
PutFails ==
    LET p == Head(puts) IN
    /\ puts # <<>>
    /\ failures < MaxFailures
    /\ failures' = failures + 1
    /\ puts' = Tail(puts)
    /\ hook' = IF p.mine THEN Armed(hook, [hook EXCEPT !.status = "error"]) ELSE hook
    /\ unsaved' = unsaved \cup {p.to}
    /\ last' = IF p.mine /\ hook.on = p.to /\ hook.hydrated THEN last ELSE [last EXCEPT ![p.to] = None]
    /\ UNCHANGED <<cache, fetching, server, drawn, strokes>>

UserNext ==
    \/ \E c \in Canvases : Open(c) \/ Navigate(c)
    \/ \E l \in Layouts : Draw(l)
    \/ Close

Next ==
    \/ UserNext
    \/ PushPending
    \/ Hydrate
    \/ \E c \in Canvases : GetAnswered(c) \/ GetFails(c)
    \/ PutApplied
    \/ PutAnswered
    \/ PutFails

Spec == Init /\ [][Next]_vars

\* Timers fire, React renders, requests are answered or fail.
Fairness ==
    /\ WF_vars(PushPending)
    /\ WF_vars(Hydrate)
    /\ \A c \in Canvases : WF_vars(GetAnswered(c))
    /\ WF_vars(PutApplied)
    /\ WF_vars(PutAnswered)

FairSpec == Spec /\ Fairness

-----------------------------------------------------------------------------
(* Properties. *)

\* No layout reaches the row of another canvas: not through a push armed
\* before the instance moved on, not through an hydration or the cache.
OwnCanvasOnly ==
    /\ \A c \in Canvases : server[c] \in LayoutsOf(c) \cup {None}
    /\ \A i \in DOMAIN puts : puts[i].val \in LayoutsOf(puts[i].to)

Shown(c) == IF server[c] = None THEN Blank ELSE server[c]

\* "idle: up to date with the server": an instance that shows one canvas only,
\* has nothing to send and says idle shows what the server has.
IdleMeansSynced ==
    LET c == hook.on IN
    /\ hook.hydrated /\ ~hook.moved /\ hook.status = "idle"
    /\ hook.pending = None
    /\ c \notin unsaved /\ \A i \in DOMAIN puts : puts[i].to # c
    => hook.local = Shown(c)

\* An hydration that applies what it read shows what the server has, also when
\* the last instance flushed its layout a moment ago, unless that PUT failed.
ReopenShowsServer ==
    [][ LET c == hook.on IN
        /\ ~hook.hydrated /\ hook'.hydrated
        /\ cache[c].data # None /\ ~UserTouched
        /\ c \notin unsaved
        => hook'.local = Shown(c) ]_vars

\* The last layout drawn on a canvas reaches the server in the end, whether the
\* user stays or leaves, and a PUT that fails while he stays is retried.
DrawingsReachServer ==
    \A c \in Canvases : <>[](last[c] # None) => <>[](server[c] = last[c])

\* The flush is there so that leaving a canvas loses no change: a canvas comes
\* back with the last layout drawn on it, unless a PUT nobody retries failed.
ReopenShowsLatest ==
    [][ LET c == hook.on IN
        /\ ~hook.hydrated /\ hook'.hydrated
        /\ cache[c].data # None /\ ~UserTouched
        /\ last[c] # None
        => hook'.local = last[c] ]_vars

\* "offline: no push is attempted" until the next mount: a canvas whose
\* hydration failed is not written to.
OfflineNeverPushes ==
    \A i \in DOMAIN puts :
        puts[i].mine /\ puts[i].to = hook.on /\ hook.hydrated
            => cache[hook.on].state # "error"
=============================================================================
