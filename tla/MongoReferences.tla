--------------------------- MODULE MongoReferences ---------------------------
(***************************************************************************)
(* Foreign keys on MongoDB as the adapter emulates them                    *)
(* (packages/engine/src/mongo/adapter.ts): declarations in the collection  *)
(* _snql_refs, a check before each insert and update, and ON DELETE rules  *)
(* applied by the adapter in a transaction.                                *)
(*                                                                         *)
(* A node is a document that may exist; its key is the node itself.  A     *)
(* transaction reads the snapshot it opened on, so its body is one step    *)
(* that computes a view; its commit is another, and fails when a document  *)
(* it writes was written since (WriteConflict), upon which the driver runs *)
(* the body again.  The declarations are read outside any session.  They   *)
(* are read anew at each level of a cascade; here once per body.           *)
(***************************************************************************)
EXTENDS Naturals, Sequences, FiniteSets, Functions

CONSTANTS
    Clients,   \* processes that execute queries
    Nodes,     \* documents that may exist
    CollOf,    \* CollOf[n]: collection of node n
    HasId,     \* nodes that carry a field `id', besides `_id'
    Refs,      \* names of constraints
    From, To,  \* From[r], To[r]: collections of constraint r
    None,
    MaxQueries \* bound: queries run in a behaviour

\* What is assumed of them, by ReferentialIntegrity.
Setting ==
    /\ IsFiniteSet(Nodes) /\ IsFiniteSet(Refs) /\ None \notin Nodes \cup Refs
    /\ HasId \subseteq Nodes
    /\ MaxQueries \in Nat

Colls == { CollOf[n] : n \in Nodes }

NodesOf(coll) == { n \in Nodes : CollOf[n] = coll }

Columns(n) == { r \in Refs : From[r] = CollOf[n] }

\* The columns of a document that constraints are about.
Row(n) == { row \in [Refs -> Nodes \cup {None}] :
              \A r \in Refs : row[r] = None \/ (r \in Columns(n) /\ row[r] \in NodesOf(To[r])) }

\* A database: the row of each document that exists.
IsStore(s) == DOMAIN s \subseteq Nodes /\ \A n \in DOMAIN s : s[n] \in Row(n)

Rules == {"restrict", "cascade", "set-null"}

VARIABLES
    store,     \* the documents
    refs,      \* _snql_refs, in the order it is read
    rule,      \* onDelete of each constraint
    client,    \* what each client does
    changed,   \* documents written by others since the snapshot of a client
    stale,     \* clients at work while another one changed anything
    unchecked, \* whether a write went round the checks, and how
    queries    \* queries run so far

vars == <<store, refs, rule, client, changed, stale, unchecked, queries>>

\* A query: which documents, which column is set, to which values.
Query == [ op   : {"insert", "update", "delete", "drop", "declare", "undeclare", "block"},
           on   : SUBSET Nodes,
           col  : Refs \cup {None},
           set  : [Refs -> Nodes \cup {None}] ]

NoQuery == [op |-> "insert", on |-> {}, col |-> None, set |-> [r \in Refs |-> None]]

Idle == [at |-> "idle", query |-> NoQuery, outgoing |-> {}, view |-> <<>>, writes |-> {}]

Declared == { refs[i] : i \in DOMAIN refs }

TypeOK ==
    /\ IsStore(store)
    /\ refs \in Seq(Refs) /\ IsInjective(refs)
    /\ rule \in [Refs -> Rules]
    /\ \A c \in Clients :
          /\ client[c].at \in {"idle", "load", "plain", "begin", "commit", "purge"}
          /\ client[c].query \in Query
          /\ client[c].outgoing \subseteq Refs
          /\ IsStore(client[c].view)
          /\ client[c].writes \subseteq Nodes
    /\ changed \in [Clients -> SUBSET Nodes]
    /\ stale \subseteq Clients
    /\ unchecked \subseteq {"race", "block", "late", "crash"}
    /\ queries \in 0..MaxQueries

\* References that hold: what a declared column names exists.
Dangling(s, declared) ==
    { n \in DOMAIN s : \E r \in declared \cap Columns(n) : s[n][r] \notin DOMAIN s \cup {None} }

Init ==
    /\ store \in UNION { { s \in [D -> [Refs -> Nodes \cup {None}]] : IsStore(s) } : D \in SUBSET Nodes }
    /\ Dangling(store, Refs) = {}
    /\ refs \in { s \in [1..Cardinality(Refs) -> Refs] : IsInjective(s) }
    /\ rule \in [Refs -> Rules]
    /\ client = [c \in Clients |-> Idle]
    /\ changed = [c \in Clients |-> {}]
    /\ stale = {}
    /\ unchecked = {}
    /\ queries = 0

-----------------------------------------------------------------------------
(* What a query does to the documents it sees. *)

Without(s, gone) == Restrict(s, DOMAIN s \ gone)

\* Variants of Children: no self-reference; every document that refers to one.
ChildrenElsewhere(s, r, gone) ==
    { n \in DOMAIN s : /\ CollOf[n] = From[r] /\ From[r] # To[r]
                       /\ s[n][r] \in gone \cap HasId }

ChildrenAll(s, r, gone) == { n \in DOMAIN s : CollOf[n] = From[r] /\ s[n][r] # None }

\* Children of the documents `gone' by constraint r.  Their key is read in the
\* referenced field, which only some documents carry.
Children(s, r, gone) ==
    { n \in DOMAIN s : CollOf[n] = From[r] /\ s[n][r] \in gone \cap HasId }

\* The declarations of constraints S, in the order of _snql_refs; those among
\* the first n.
KeptAmong(S) ==
    LET among[n \in 0..Len(refs)] ==
          IF n = 0 THEN <<>>
          ELSE IF refs[n] \in S THEN Append(among[n - 1], refs[n]) ELSE among[n - 1]
    IN  among

Kept(S) == KeptAmong(S)[Len(refs)]

\* What cascadeChildren has to do about `docs': the rules of the constraints
\* towards their collection, in order; after which its caller removes them.
Tasks(docs) ==
    LET incoming == Kept({ r \in Refs : \E n \in docs : To[r] = CollOf[n] })
    IN  [i \in 1..(Len(incoming) + 1) |->
           [ref |-> IF i <= Len(incoming) THEN incoming[i] ELSE None, docs |-> docs]]

\* Constraint r, applied to the children of `gone'.
Applied(m, r, gone) ==
    LET children == Children(m.view, r, gone)
        fresh    == children \ m.visited
    IN
    CASE rule[r] = "restrict" ->
           IF children = {} THEN m ELSE [m EXCEPT !.ok = FALSE, !.todo = <<>>]
      [] rule[r] = "set-null" ->
           [m EXCEPT !.view = [n \in DOMAIN @ |->
              IF n \in children THEN [@[n] EXCEPT ![r] = None] ELSE @[n]]]
      [] rule[r] = "cascade" ->
           IF fresh = {} THEN m
           ELSE [m EXCEPT !.visited = @ \cup fresh, !.todo = Tasks(fresh) \o @]

CascadeStep(m) ==
    LET task == Head(m.todo)
        rest == [m EXCEPT !.todo = Tail(@)]
    IN  IF m.todo = <<>> THEN m
        ELSE IF task.ref = None THEN [rest EXCEPT !.view = Without(@, task.docs)]
        ELSE Applied(rest, task.ref, task.docs)

\* Enough for a cascade: it visits a document once.
Steps == (Cardinality(Nodes) + 1) * (Len(refs) + 1)

\* The recursion of cascadeChildren, with its stack as a list of tasks: the
\* view, the documents visited, and whether none was refused, after n steps.
Cascade(docs) ==
    LET start == [ok |-> TRUE, view |-> store, visited |-> {}, todo |-> Tasks(docs)]
        after[n \in 0..Steps] == IF n = 0 THEN start ELSE CascadeStep(after[n - 1])
    IN  after

\* refTargetExists, by either form of the key.
TargetExists(v) == v = None \/ v \in DOMAIN store

\* Variant of Prechecked without updates.
PrecheckedInsert(q, outgoing) == IF q.op = "insert" THEN outgoing ELSE {}

\* Columns of the write-precheck: an update checks those it sets.
Prechecked(q, outgoing) == IF q.op = "insert" THEN outgoing ELSE outgoing \cap {q.col}

Refused == [ok |-> FALSE, view |-> <<>>]

Inserted(q) ==
    IF q.on \cap DOMAIN store # {} THEN Refused      \* duplicate key
    ELSE [ok |-> TRUE, view |-> [n \in DOMAIN store \cup q.on |->
                                   IF n \in q.on THEN q.set ELSE store[n]]]

Updated(q) ==
    [ok |-> TRUE, view |-> [n \in DOMAIN store |->
        IF n \in q.on THEN [store[n] EXCEPT ![q.col] = q.set[q.col]] ELSE store[n]]]

Deleted(q) == [ok |-> TRUE, view |-> Without(store, q.on)]

DeleteCascaded(q) ==
    LET end == Cascade(q.on \cap DOMAIN store)[Steps] IN [ok |-> end.ok, view |-> end.view]

\* A write without a check of its references.
Plain(q) == CASE q.op = "insert" -> Inserted(q)
              [] q.op = "update" -> Updated(q)
              [] OTHER           -> Deleted(q)

Checked(q, outgoing) ==
    IF q.op = "delete" THEN DeleteCascaded(q)
    ELSE IF \A r \in Prechecked(q, outgoing) : TargetExists(q.set[r]) THEN Plain(q)
    ELSE Refused

\* The documents in which two databases differ.
Diff(s, t) == { n \in Nodes : \/ (n \in DOMAIN s) # (n \in DOMAIN t)
                              \/ n \in DOMAIN s \cap DOMAIN t /\ s[n] # t[n] }

-----------------------------------------------------------------------------
Working == { c \in Clients : client[c].at # "idle" }

\* Client c wrote `docs': others see it.
Note(c, docs) ==
    /\ changed' = [d \in Clients |-> IF d # c /\ client[d].at = "commit"
                                     THEN changed[d] \cup docs ELSE {}]
    /\ stale' = Working \ {c}

Finish(c) == client' = [client EXCEPT ![c] = Idle]

\* The query ends and has changed nothing.
GiveUp(c) ==
    /\ Finish(c)
    /\ changed' = [changed EXCEPT ![c] = {}]
    /\ stale' = stale \ {c}

Ask(c, q, step) ==
    /\ client[c].at = "idle" /\ queries < MaxQueries
    /\ client' = [client EXCEPT ![c].at = step, ![c].query = q]
    /\ queries' = queries + 1
    /\ UNCHANGED <<store, refs, rule, changed, stale, unchecked>>

\* Queries about documents there are, or for a new one; by the time they are
\* executed it may be otherwise.
Insert(c) == \E n \in Nodes \ DOMAIN store : \E row \in Row(n) :
    Ask(c, [NoQuery EXCEPT !.on = {n}, !.set = row], "load")

Update(c) == \E r \in Refs, n \in DOMAIN store, v \in Nodes \cup {None} :
    /\ r \in Columns(n) /\ v \in NodesOf(To[r]) \cup {None}
    /\ Ask(c, [op |-> "update", on |-> {n}, col |-> r, set |-> [NoQuery.set EXCEPT ![r] = v]], "load")

Delete(c) == \E coll \in Colls, docs \in SUBSET DOMAIN store :
    /\ docs # {} /\ docs \subseteq NodesOf(coll)
    /\ Ask(c, [NoQuery EXCEPT !.op = "delete", !.on = docs], "load")

\* loadRefs decides how the write is executed.
Load(c) ==
    LET q == client[c].query
        coll == CollOf[CHOOSE n \in q.on : TRUE]
        field == IF q.op = "delete" THEN To ELSE From
        found == { r \in Declared : field[r] = coll }
    IN
    /\ client[c].at = "load"
    /\ client' = [client EXCEPT ![c].at = IF found = {} THEN "plain" ELSE "begin",
                                ![c].outgoing = found]
    /\ UNCHANGED <<store, refs, rule, changed, stale, unchecked, queries>>

\* A statement of its own, when no constraint was found.
Execute(c) ==
    LET res == Plain(client[c].query) IN
    /\ client[c].at = "plain"
    /\ IF res.ok
       THEN /\ Finish(c)
            /\ store' = res.view
            /\ Note(c, Diff(store, res.view))
            /\ unchecked' = unchecked \cup (IF c \in stale THEN {"race"} ELSE {})
       ELSE GiveUp(c) /\ UNCHANGED <<store, unchecked>>
    /\ UNCHANGED <<refs, rule, queries>>

\* The body of withTransaction, on the snapshot of now.
Begin(c) ==
    LET res == Checked(client[c].query, client[c].outgoing) IN
    /\ client[c].at = "begin"
    /\ IF res.ok
       THEN client' = [client EXCEPT ![c].at = "commit", ![c].view = res.view,
                                     ![c].writes = Diff(store, res.view)]
            /\ UNCHANGED <<changed, stale>>
       ELSE GiveUp(c)
    /\ UNCHANGED <<store, refs, rule, unchecked, queries>>

\* The writes of a view, over what others committed meanwhile.
Merged(view, docs) ==
    [n \in (DOMAIN store \ docs) \cup (DOMAIN view \cap docs) |->
        IF n \in docs THEN view[n] ELSE store[n]]

Conflict(c) == client[c].writes \cap changed[c] # {}

Commit(c) ==
    /\ client[c].at = "commit" /\ ~Conflict(c)
    /\ store' = Merged(client[c].view, client[c].writes)
    /\ Note(c, client[c].writes)
    /\ unchecked' = unchecked \cup (IF c \in stale THEN {"race"} ELSE {})
    /\ Finish(c)
    /\ UNCHANGED <<refs, rule, queries>>

\* A write conflict: the driver runs the body again, with the declarations
\* the client loaded first.
Retry(c) ==
    /\ client[c].at = "commit" /\ Conflict(c)
    /\ client' = [client EXCEPT ![c].at = "begin", ![c].view = <<>>, ![c].writes = {}]
    /\ changed' = [changed EXCEPT ![c] = {}]
    /\ UNCHANGED <<store, refs, rule, stale, unchecked, queries>>

\* A write in a block `transaction { }' is not checked at all.
Block(c) == \E op \in {"insert", "delete"}, n \in Nodes :
    LET q == [NoQuery EXCEPT !.op = op, !.on = {n}] IN
    /\ client[c].at = "idle" /\ queries < MaxQueries
    /\ Plain(q).ok
    /\ store' = Plain(q).view
    /\ Note(c, {n})
    /\ unchecked' = unchecked \cup {"block"}
    /\ queries' = queries + 1
    /\ UNCHANGED <<refs, rule, client>>

-----------------------------------------------------------------------------
(* Declarations. *)

\* drop table: the collection goes, then the constraints that name it.
DropCollection(c) == \E coll \in Colls :
    /\ client[c].at = "idle" /\ queries < MaxQueries
    /\ NodesOf(coll) \cap DOMAIN store # {}
    /\ store' = Without(store, NodesOf(coll))
    /\ Note(c, NodesOf(coll))
    /\ client' = [client EXCEPT ![c].at = "purge",
                     ![c].query = [NoQuery EXCEPT !.op = "drop", !.on = NodesOf(coll)]]
    /\ queries' = queries + 1
    /\ UNCHANGED <<refs, rule, unchecked>>

PurgeRefs(c) ==
    LET coll == CollOf[CHOOSE n \in client[c].query.on : TRUE] IN
    /\ client[c].at = "purge"
    /\ refs' = Kept({ r \in Refs : coll \notin {From[r], To[r]} })
    /\ Note(c, {})
    /\ Finish(c)
    /\ UNCHANGED <<store, rule, unchecked, queries>>

\* Variant of Upserted that inserts.
Appended(r) == Append(refs, r)

\* A declaration is known by the name of its constraint.
Upserted(r) == IF r \in Declared THEN refs ELSE Append(refs, r)

\* storeRefs: create table or add column; the documents there are may already
\* have the column.
StoreRef(c) == \E r \in Refs :
    /\ client[c].at = "idle" /\ queries < MaxQueries
    /\ refs' = Upserted(r)
    /\ Note(c, {})
    /\ unchecked' = unchecked \cup
          (IF \E n \in DOMAIN store : r \in Columns(n) /\ store[n][r] # None THEN {"late"} ELSE {})
    /\ queries' = queries + 1
    /\ UNCHANGED <<store, rule, client>>

DropRef(c) == \E r \in Declared :
    /\ client[c].at = "idle" /\ queries < MaxQueries
    /\ refs' = Kept(Refs \ {r})
    /\ Note(c, {})
    /\ queries' = queries + 1
    /\ UNCHANGED <<store, rule, client, unchecked>>

\* The process of a client ends: its transaction is aborted by the server.
Crash(c) ==
    /\ client[c].at # "idle"
    /\ GiveUp(c)
    /\ unchecked' = unchecked \cup (IF client[c].at = "purge" THEN {"crash"} ELSE {})
    /\ UNCHANGED <<store, refs, rule, queries>>

Next == \E c \in Clients :
    \/ Insert(c) \/ Update(c) \/ Delete(c)
    \/ Load(c) \/ Execute(c) \/ Begin(c) \/ Commit(c) \/ Retry(c)
    \/ Block(c)
    \/ DropCollection(c) \/ PurgeRefs(c) \/ StoreRef(c) \/ DropRef(c)
    \/ Crash(c)

Spec == Init /\ [][Next]_vars

=============================================================================
