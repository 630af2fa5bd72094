----------------------------- MODULE CanvasState -----------------------------
(***************************************************************************)
(* The layouts of one user as the backend keeps them: the table            *)
(* canvas_state, the lookup of a canvas in                                 *)
(* apps/backend/src/domains/canvas-state/resolve.ts, and the requests that *)
(* use it: PUT and DELETE of routes/api/teams/canvas-state.ts and the      *)
(* heartbeat of a CLI, domains/tunnels/heartbeat.ts.                       *)
(*                                                                         *)
(* Every statement is an action of its own.  A PUT is one transaction at   *)
(* READ COMMITTED under the advisory lock of the user; a DELETE and a      *)
(* heartbeat are not transactions and take no lock.  A db_connection is    *)
(* never deleted and never changes team.  The payload is opaque: a request *)
(* is told by the row it writes.                                           *)
(***************************************************************************)
EXTENDS Naturals, FiniteSets, Sequences

CONSTANTS
    Requests,     \* requests the backend serves at the same time
    Conns,        \* db_connections the user may open
    TeamOf,       \* TeamOf[c]: team of connection c
    Prints,       \* fingerprints of database instances
    Checksums,    \* checksums of database structures
    Ids,          \* ids of canvas_state rows
    None,
    MaxReports,   \* bound: heartbeats and pairings that report facts
    MaxCanvases,  \* MAX_CANVAS_PER_USER
    HistoryCap    \* checksums a canvas keeps

ASSUME CanvasStateAssumption ==
    /\ None \notin Requests \cup Conns \cup Prints \cup Checksums \cup Ids
    /\ Conns # {}
    /\ MaxReports \in Nat /\ MaxCanvases \in Nat
    /\ HistoryCap \in Nat \ {0}

\* db_fingerprint and db_schema_checksum, as a CLI sends or a row keeps them.
Facts == [fp : Prints \cup {None}, cs : Checksums \cup {None}]

Row == [on : Conns, fp : Prints \cup {None}, history : Seq(Checksums)]

Request == [ op    : {"put", "delete", "beat"},
             on    : Conns,
             at    : {"idle", "patch", "lock", "facts", "print", "history", "legacy",
                      "count", "write", "event"},
             pass  : {"check", "write"},     \* which resolution of a PUT runs
             sent  : Facts,                  \* facts a heartbeat sends
             facts : Facts,                  \* facts of the connection, as read
             found : Ids \cup {None} ]

VARIABLES
    known,    \* facts of each db_connection
    canvas,   \* the rows of the table, by id
    lock,     \* holder of pg_advisory_xact_lock(user)
    req,      \* the requests being served
    answer,   \* what the last PUT of a request slot answered
    disturbed,    \* requests during which facts were reported or a canvas was deleted
    reports   \* facts reported so far

rows == DOMAIN canvas

vars == <<known, canvas, lock, req, answer, disturbed, reports>>

TypeOK ==
    /\ known \in [Conns -> Facts]
    /\ rows \subseteq Ids
    /\ canvas \in [rows -> Row]
    /\ lock \in Requests \cup {None}
    /\ req \in [Requests -> Request]
    /\ answer \in [Requests -> {"none", "ok", "quota", "collision", "gone"}]
    /\ disturbed \subseteq Requests
    /\ reports \in 0..MaxReports

NoFacts == [fp |-> None, cs |-> None]

\* A request slot that serves nobody; its connection does not matter.
Idle == [op |-> "put", on |-> CHOOSE c \in Conns : TRUE, at |-> "idle", pass |-> "check",
            sent |-> NoFacts, facts |-> NoFacts, found |-> None]

Init ==
    /\ known \in [Conns -> Facts]
    /\ canvas = [k \in {} |-> None]
    /\ req = [r \in Requests |-> Idle]
    /\ lock = None
    /\ answer = [r \in Requests |-> "none"]
    /\ disturbed = {}
    /\ reports = 0

-----------------------------------------------------------------------------
(* The three lookups of `resolveCanvasByConnection'; each has LIMIT 1.     *)

SameTeam(c) == { k \in rows : TeamOf[canvas[k].on] = TeamOf[c] }

Seen(k) == { canvas[k].history[i] : i \in DOMAIN canvas[k].history }

ByPrint(c, f) == { k \in SameTeam(c) : f.fp # None /\ canvas[k].fp = f.fp }

ByHistory(c, f) == { k \in SameTeam(c) : f.cs # None /\ f.cs \in Seen(k) }

ByConnection(c) == { k \in rows : canvas[k].on = c /\ canvas[k].fp = None }

\* What a request that reads everything at once finds for connection c.
Candidates(c) ==
    IF ByPrint(c, known[c]) # {} THEN ByPrint(c, known[c])
    ELSE IF ByHistory(c, known[c]) # {} THEN ByHistory(c, known[c])
    ELSE ByConnection(c)

-----------------------------------------------------------------------------
(* Steps of requests. *)

Goes(r, step) == req' = [req EXCEPT ![r].at = step]

\* The request is over: it answers, and a transaction ends with its lock.
Ends(r) ==
    /\ req' = [req EXCEPT ![r] = Idle]
    /\ lock' = IF lock = r THEN None ELSE lock

Answers(r, a) == Ends(r) /\ answer' = [answer EXCEPT ![r] = a]

\* Facts a CLI reports and a deletion are noted against every request under way.
Disturbed == disturbed' = disturbed \cup { r \in Requests : req[r].at # "idle" }

Start(r, op, c, f) ==
    /\ req[r].at = "idle"
    /\ req' = [req EXCEPT ![r] =
                 [op |-> op, on |-> c, pass |-> "check", sent |-> f,
                  facts |-> NoFacts, found |-> None,
                  at |-> CASE op = "put" -> "lock"
                           [] op = "delete" -> "facts"
                           [] OTHER -> "patch"]]
    /\ answer' = [answer EXCEPT ![r] = "none"]
    /\ disturbed' = disturbed \ {r}
    /\ UNCHANGED <<known, canvas, lock>>

Put(r) == UNCHANGED reports /\ \E c \in Conns : Start(r, "put", c, NoFacts)

Delete(r) == UNCHANGED reports /\ \E c \in Conns : Start(r, "delete", c, NoFacts)

\* A report of facts is counted.
Report == reports < MaxReports /\ reports' = reports + 1

\* A heartbeat sends what the CLI could read of its database.
Beat(r) == Report /\ \E c \in Conns, f \in Facts : Start(r, "beat", c, f)

\* Variant of Lock that does not wait.
LockFree(r) ==
    /\ req[r].at = "lock"
    /\ lock' = r
    /\ Goes(r, "facts")
    /\ UNCHANGED <<known, canvas, answer, disturbed, reports>>

Lock(r) ==
    /\ req[r].at = "lock" /\ lock = None
    /\ lock' = r
    /\ Goes(r, "facts")
    /\ UNCHANGED <<known, canvas, answer, disturbed, reports>>

ReadFacts(r) ==
    /\ req[r].at = "facts"
    /\ req' = [req EXCEPT ![r].at = "print", ![r].facts = known[req[r].on]]
    /\ UNCHANGED <<known, canvas, lock, answer, disturbed, reports>>

\* Where a request goes once its canvas, or none, is found.
AfterResolve(r) ==
    IF req[r].op = "put" /\ req[r].pass = "check" THEN "count" ELSE "write"

\* One SELECT: any row that matches, or the next lookup.
Lookup(r, step, matches, next) ==
    /\ req[r].at = step
    /\ \/ \E k \in matches :
             req' = [req EXCEPT ![r].at = AfterResolve(r), ![r].found = k, ![r].facts = NoFacts]
       \/ matches = {} /\ Goes(r, next)
    /\ UNCHANGED <<known, canvas, lock, answer, disturbed, reports>>

SelectByPrint(r) ==
    Lookup(r, "print", ByPrint(req[r].on, req[r].facts), "history")

SelectByHistory(r) ==
    Lookup(r, "history", ByHistory(req[r].on, req[r].facts), "legacy")

SelectLegacy(r) ==
    Lookup(r, "legacy", ByConnection(req[r].on), AfterResolve(r))

(* PUT: the quota, then a second resolution and the write it leads to.     *)

\* Variant of OverQuota that counts one too many.
OverQuotaByOne(r) == req[r].found = None /\ Cardinality(rows) > MaxCanvases

OverQuota(r) == req[r].found = None /\ Cardinality(rows) >= MaxCanvases

PutCount(r) ==
    /\ req[r].at = "count"
    /\ IF OverQuota(r)
       THEN Answers(r, "quota")
       ELSE /\ req' = [req EXCEPT ![r].pass = "write", ![r].at = "facts", ![r].found = None,
                                   ![r].facts = NoFacts]
            /\ UNCHANGED <<lock, answer>>
    /\ UNCHANGED <<known, canvas, disturbed, reports>>

Writes(r, op) == req[r].op = op /\ req[r].at = "write"

PutUpdate(r) ==
    /\ Writes(r, "put") /\ req[r].found # None
    /\ Answers(r, IF req[r].found \in rows THEN "ok" ELSE "gone")
    /\ UNCHANGED <<known, canvas, disturbed, reports>>

\* Variant of NewRow whose history holds a checksum that is not known.
NewRowUnchecked(r) ==
    [on |-> req[r].on, fp |-> req[r].facts.fp, history |-> <<req[r].facts.cs>>]

\* The row a PUT inserts, and those it would share a unique index with.
NewRow(r) ==
    [ on |-> req[r].on, fp |-> req[r].facts.fp,
      history |-> IF req[r].facts.cs = None THEN <<>> ELSE <<req[r].facts.cs>> ]

Clashes(r) ==
    IF req[r].facts.fp = None THEN ByConnection(req[r].on)
                              ELSE ByPrint(req[r].on, req[r].facts)

\* A uuid nobody has drawn: neither a row nor a request holds it.
FreshIds == Ids \ (rows \cup { req[r].found : r \in Requests })

PutInsert(r) ==
    /\ Writes(r, "put") /\ req[r].found = None
    /\ \/ /\ Clashes(r) # {}
          /\ Answers(r, "collision")
          /\ UNCHANGED canvas
       \/ /\ Clashes(r) = {}
          /\ Answers(r, "ok")
          /\ FreshIds # {}
          /\ LET new == CHOOSE k \in FreshIds : TRUE IN
             canvas' = [k \in rows \cup {new} |-> IF k = new THEN NewRow(r) ELSE canvas[k]]
    /\ UNCHANGED <<known, disturbed, reports>>

DeleteRow(r) ==
    /\ Writes(r, "delete")
    /\ canvas' = [k \in rows \ {req[r].found} |-> canvas[k]]
    /\ Answers(r, "ok")
    /\ Disturbed
    /\ UNCHANGED <<known, reports>>

(* Heartbeat: patch the connection, then add the checksum to its canvas.   *)

Patched(old, new) ==
    [ fp |-> IF new.fp = None THEN old.fp ELSE new.fp,
      cs |-> IF new.cs = None THEN old.cs ELSE new.cs ]

BeatPatch(r) ==
    /\ req[r].at = "patch"
    /\ known' = [known EXCEPT ![req[r].on] = Patched(@, req[r].sent)]
    /\ Disturbed
    /\ IF req[r].sent.cs = None
       THEN Answers(r, "ok")
       ELSE Goes(r, "facts") /\ UNCHANGED <<lock, answer>>
    /\ UNCHANGED <<canvas, reports>>

\* Variant of Appended that forgets nothing.
AppendedAll(h, x) == Append(h, x)

\* The history after one more checksum: the oldest makes room.
Appended(h, x) ==
    Append(IF Len(h) >= HistoryCap THEN SubSeq(h, 2, HistoryCap) ELSE h, x)

BeatAppend(r) ==
    /\ Writes(r, "beat")
    /\ LET k == req[r].found  IN
       IF k = None
       THEN Answers(r, "ok") /\ UNCHANGED <<canvas, disturbed>>
       ELSE /\ canvas' = IF k \in rows /\ req[r].sent.cs \notin Seen(k)
                         THEN [canvas EXCEPT ![k].history = Appended(@, req[r].sent.cs)]
                         ELSE canvas
            /\ Disturbed
            /\ Goes(r, "event")
            /\ UNCHANGED <<lock, answer>>
    /\ UNCHANGED <<known, reports>>

\* The audit row refers to the canvas, which must still be there.
BeatEvent(r) ==
    /\ req[r].at = "event"
    /\ Answers(r, IF req[r].found \in rows THEN "ok" ELSE "gone")
    /\ UNCHANGED <<known, canvas, disturbed, reports>>

\* A pairing writes the facts it carries on the connection it lands on.
Pair(c, f) ==
    /\ Report
    /\ known' = [known EXCEPT ![c] = Patched(@, f)]
    /\ Disturbed
    /\ UNCHANGED <<canvas, lock, req, answer>>

\* The database refuses a statement or the backend dies: what a heartbeat
\* wrote stays, a transaction is undone and its lock is free.
Drop(r) ==
    /\ req[r].at # "idle"
    /\ Ends(r)
    /\ UNCHANGED <<known, canvas, answer, disturbed, reports>>

-----------------------------------------------------------------------------
Advance(r) ==
    \/ ReadFacts(r) \/ SelectByPrint(r) \/ SelectByHistory(r) \/ SelectLegacy(r)
    \/ PutCount(r) \/ PutUpdate(r) \/ PutInsert(r) \/ DeleteRow(r)
    \/ BeatPatch(r) \/ BeatAppend(r) \/ BeatEvent(r)

Next ==
    \/ \E r \in Requests : Put(r) \/ Delete(r) \/ Beat(r)
    \/ \E r \in Requests : Lock(r) \/ Advance(r) \/ Drop(r)
    \/ \E c \in Conns, f \in Facts : Pair(c, f)

Spec == Init /\ [][Next]_vars

-----------------------------------------------------------------------------
(* Properties. *)

\* The look-up and the insert are two statements; the lock of the user and the
\* second look-up keep two devices from inserting the canvas of one database.
InsertNeverCollides == \A r \in Requests : answer[r] # "collision"

\* Heartbeats of several CLIs of one canvas never repeat a checksum in its
\* history nor make it longer than its cap.
HistoryBounded ==
    \A k \in rows : LET h == canvas[k].history IN
        /\ Len(h) <= HistoryCap
        /\ \A i, j \in DOMAIN h : h[i] = h[j] => i = j

\* The quota is read in one statement and used in another.  It is passed only
\* by a PUT during which a CLI described its database anew or a canvas was
\* deleted: then the second look-up may miss what the first one found.
QuotaHeld ==
    [][ Cardinality(rows') > Cardinality(rows) /\ Cardinality(rows) >= MaxCanvases
        => \E r \in disturbed : Writes(r, "put") /\ req'[r].at = "idle" ]_vars

\* A layout saved for a connection is the one a GET of that connection would
\* read now, unless facts were reported or a canvas deleted while the PUT ran.
SavedIsFound ==
    [][ \A r \in Requests \ disturbed, c \in Conns :
          Writes(r, "put") /\ req[r].on = c /\ answer'[r] = "ok" =>
            IF req[r].found # None THEN req[r].found \in Candidates(c)'
                                   ELSE (rows' \ rows) \subseteq Candidates(c)' ]_vars

\* A canvas "survives migrations": a connection keeps a canvas when its CLI
\* reports another structure of the same instance.
SurvivesMigration ==
    [][ \A r \in Requests, c \in Conns :
          /\ req[r].at = "patch" /\ req[r].on = c /\ req'[r].at = "facts"
          /\ known'[c].fp = known[c].fp
          /\ Candidates(c) # {}
          => Candidates(c)' # {} ]_vars
=============================================================================
