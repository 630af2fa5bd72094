-------------------------- MODULE EngineTransaction --------------------------
(***************************************************************************)
(* Statements and blocks `transaction { ... savepoint { ... } }' on one    *)
(* Connection of packages/engine, which several callers use at the same    *)
(* time: postgres/adapter.ts takes a client of its pool for each call,     *)
(* mssql/adapter.ts queues whole calls on its only connection, and         *)
(* mongo/adapter.ts opens a session.  PostgreSQL and SQL Server have       *)
(* savepoints; on MongoDB the adapter undoes a savepoint itself, write by  *)
(* write.                                                                  *)
(*                                                                         *)
(* The database is one collection, a value per document.  It is external:  *)
(* a transaction works on a view of its own, which commits as a whole, and *)
(* a write waits until the transaction that has the collection is over.    *)
(* Reads, isolation levels and foreign keys are left out.                  *)
(***************************************************************************)
EXTENDS Naturals, Sequences, FiniteSets, Functions

CONSTANTS
    Callers,    \* concurrent users of the connection
    Ids,        \* ids of documents
    Values,     \* values of their field
    Absent,     \* the document has no such field
    Nobody,
    PoolSize,   \* max of the PostgreSQL pool
    MaxItems,   \* bound: statements and savepoints of a block
    MaxErrors   \* bound: errors that no statement is the cause of

ASSUME TransactionAssumption ==
    /\ Absent \notin Values /\ Nobody \notin Callers /\ IsFiniteSet(Callers)
    /\ PoolSize \in Nat \ {0} /\ MaxItems \in Nat /\ MaxErrors \in Nat

Contents == Values \cup {Absent}

Collection == UNION { [D -> Contents] : D \in SUBSET Ids }

Statements ==
    [op : {"insert"}, id : Ids, set : Contents]
    \cup { st \in [op : {"update"}, where : Contents, set : Values] : st.where # st.set }
    \cup [op : {"delete"}, where : Contents]

VARIABLES
    engine,  \* which adapter the connection is of
    db,      \* the collection as committed
    holder,  \* the caller whose transaction is open
    queue,   \* callers that wait for the connection, or a client of the pool
    call,    \* the call each caller makes
    errors   \* errors so far

vars == <<engine, db, holder, queue, call, errors>>

Idle == [at |-> "idle", block |-> FALSE, view |-> [i \in {} |-> Absent], log |-> <<>>,
         mark |-> 0, undo |-> <<>>, dead |-> FALSE, items |-> 0, answer |-> "ok"]

TypeOK ==
    /\ engine \in {"postgres", "mssql", "mongodb"}
    /\ db \in Collection
    /\ holder \in Callers \cup {Nobody}
    /\ queue \in Seq(Callers) /\ IsInjective(queue)
    /\ errors \in 0..MaxErrors
    /\ \A c \in Callers :
          /\ call[c].at \in {"idle", "queued", "served", "body", "savepoint", "failed"}
          /\ call[c].view \in Collection
          /\ call[c].log \in Seq(Statements)   \* statements that count
          /\ call[c].mark \in 0..Len(call[c].log)

Init ==
    /\ engine \in {"postgres", "mssql", "mongodb"}
    /\ db \in Collection
    /\ holder = Nobody
    /\ queue = <<>>
    /\ call = [c \in Callers |-> Idle]
    /\ errors = 0

-----------------------------------------------------------------------------
(* What a statement does to a collection, and its compensation. *)

Touched(view, st) ==
    IF st.op = "insert" THEN {st.id} ELSE { i \in DOMAIN view : view[i] = st.where }

Clashes(view, st) == st.op = "insert" /\ st.id \in DOMAIN view

Effect(view, st) ==
    CASE st.op = "insert" -> [i \in DOMAIN view \cup {st.id} |->
                                IF i = st.id THEN st.set ELSE view[i]]
      [] st.op = "update" -> [i \in DOMAIN view |->
                                IF i \in Touched(view, st) THEN st.set ELSE view[i]]
      [] st.op = "delete" -> Restrict(view, DOMAIN view \ Touched(view, st))

\* execWriteWithCompensation: the documents touched, as they are before.
Compensation(view, st) ==
    [op |-> st.op, ids |-> Touched(view, st),
     old |-> Restrict(view, Touched(view, st) \cap DOMAIN view)]

Undone(view, comp) ==
    CASE comp.op = "insert" -> Restrict(view, DOMAIN view \ comp.ids)
      [] comp.op = "update" -> [i \in DOMAIN view |->
                                  IF i \in comp.ids THEN comp.old[i] ELSE view[i]]
      [] comp.op = "delete" -> [i \in DOMAIN view \cup DOMAIN comp.old |->
                                  IF i \in DOMAIN comp.old THEN comp.old[i] ELSE view[i]]

\* The collections that compensations lead through, one after the other.
Undoing(view, comps) ==
    LET after[n \in 0..Len(comps)] ==
          IF n = 0 THEN view ELSE Undone(after[n - 1], comps[n])
    IN  after

\* Variant of Compensated, in the order of the writes.
CompensatedInOrder(view, undo) == Undoing(view, undo)[Len(undo)]

\* The compensations kept, in reverse order.
Compensated(view, undo) ==
    Undoing(view, [i \in 1..Len(undo) |-> undo[Len(undo) + 1 - i]])[Len(undo)]

-----------------------------------------------------------------------------
(* Access to the connection. *)

Serving == { c \in Callers : call[c].at \notin {"idle", "queued"} }

Capacity == CASE engine = "mssql"    -> 1
              [] engine = "postgres" -> PoolSize
              [] OTHER               -> Cardinality(Callers)

\* Asks for a block, or for a statement of its own.
Call(c) == \E log \in {<<>>} \cup { <<st>> : st \in Statements } :
    /\ call[c].at = "idle"
    /\ call' = [call EXCEPT ![c] = [Idle EXCEPT !.at = "queued", !.block = log = <<>>, !.log = log]]
    /\ queue' = Append(queue, c)
    /\ UNCHANGED <<engine, db, holder, errors>>

\* Variant of Admitted: the latest call first.
AdmittedLatest(c) == c = queue[Len(queue)] /\ Cardinality(Serving) < Capacity

\* mssql: a transaction occupies the queue as one task.
Admitted(c) == c = Head(queue) /\ Cardinality(Serving) < Capacity

Serve(c) ==
    /\ call[c].at = "queued" /\ Admitted(c)
    /\ \E i \in DOMAIN queue :
          /\ queue[i] = c
          /\ queue' = [j \in 1..(Len(queue) - 1) |-> queue[IF j < i THEN j ELSE j + 1]]
    /\ call' = [call EXCEPT ![c].at = "served"]
    /\ UNCHANGED <<engine, db, holder, errors>>

\* The caller is answered, and the connection or client is free again.
Answer(c, a) == call' = [call EXCEPT ![c] = [Idle EXCEPT !.answer = a]]

Error == errors < MaxErrors /\ errors' = errors + 1

-----------------------------------------------------------------------------
(* A statement of its own.  A connection that has a transaction open runs  *)
(* it there; any other waits for the collection.                           *)

Joins == engine = "mssql" /\ holder # Nobody

One(c) ==
    /\ call[c].at = "served" /\ ~call[c].block
    /\ holder = Nobody \/ Joins
    /\ LET st   == call[c].log[1]
           seen == IF Joins THEN call[holder].view ELSE db
       IN  \/ /\ ~Clashes(seen, st)
              /\ IF Joins
                 THEN /\ call' = [call EXCEPT ![c] = [Idle EXCEPT !.answer = "ok"],
                                              ![holder].view = Effect(@, st)]
                      /\ UNCHANGED db
                 ELSE Answer(c, "ok") /\ db' = Effect(db, st)
              /\ UNCHANGED errors
           \/ Clashes(seen, st) /\ Answer(c, "error") /\ UNCHANGED <<db, errors>>
           \/ Error /\ Answer(c, "error") /\ UNCHANGED db
    /\ UNCHANGED <<engine, holder, queue>>

-----------------------------------------------------------------------------
(* A block. *)

Begin(c) ==
    /\ call[c].at = "served" /\ call[c].block /\ holder = Nobody
    /\ holder' = c
    /\ call' = [call EXCEPT ![c].at = "body", ![c].view = db]
    /\ UNCHANGED <<engine, db, queue, errors>>

InBlock(c) == call[c].at \in {"body", "savepoint"}

Item(c) == InBlock(c) /\ call[c].items < MaxItems

Statement(c) == \E st \in Statements :
    /\ Item(c) /\ ~call[c].dead
    /\ ~Clashes(call[c].view, st)
    /\ call' = [call EXCEPT ![c].view = Effect(@, st),
                            ![c].log = Append(@, st),
                            ![c].undo = IF engine = "mongodb" /\ call[c].at = "savepoint"
                                        THEN Append(@, Compensation(call[c].view, st)) ELSE @,
                            ![c].items = @ + 1]
    /\ UNCHANGED <<engine, db, holder, queue, errors>>

SavepointBegin(c) ==
    /\ Item(c) /\ call[c].at = "body"
    /\ call' = [call EXCEPT ![c].at = "savepoint", ![c].mark = Len(call[c].log),
                            ![c].undo = <<>>, ![c].items = @ + 1]
    /\ UNCHANGED <<engine, db, holder, queue, errors>>

SavepointEnd(c) ==
    /\ call[c].at = "savepoint"
    /\ call' = [call EXCEPT ![c].at = "body", ![c].undo = <<>>]
    /\ UNCHANGED <<engine, db, holder, queue, errors>>

\* The block goes on after a savepoint that failed, as if it had not been there.
Absorb(c, view, dead) ==
    call' = [call EXCEPT ![c].at = "body", ![c].view = view, ![c].undo = <<>>, ![c].dead = dead,
                         ![c].log = SubSeq(@, 1, call[c].mark)]

Fail(c) == call' = [call EXCEPT ![c].at = "failed"]

Absorbs(c) == engine = "mongodb" /\ call[c].at = "savepoint"

\* The database refuses a statement.  MongoDB then aborts the transaction, and
\* compensations, if there are any, fail too.
StatementRefused(c) ==
    /\ InBlock(c) /\ ~call[c].dead
    /\ \E st \in Statements : Clashes(call[c].view, st)
    /\ IF Absorbs(c) /\ call[c].undo = <<>> THEN Absorb(c, call[c].view, TRUE) ELSE Fail(c)
    /\ UNCHANGED <<engine, db, holder, queue, errors>>

\* The driver refuses a statement before it sends it.
StatementUnsent(c) ==
    /\ InBlock(c) /\ Error
    /\ IF ~Absorbs(c) THEN Fail(c)
       ELSE Absorb(c, Compensated(call[c].view, call[c].undo), call[c].dead)
    /\ UNCHANGED <<engine, db, holder, queue>>

\* The transaction is no more: a write conflict, the loss of the connection, or
\* an error before.  A savepoint does not absorb that.
TransactionLost(c) ==
    /\ InBlock(c)
    /\ IF call[c].dead THEN UNCHANGED errors ELSE Error
    /\ Fail(c)
    /\ UNCHANGED <<engine, db, holder, queue>>

Commit(c) ==
    /\ call[c].at = "body" /\ ~call[c].dead
    /\ db' = call[c].view
    /\ holder' = Nobody
    /\ Answer(c, "ok")
    /\ UNCHANGED <<engine, queue, errors>>

\* The connection is lost during the commit: it may have taken place.
CommitLost(c) ==
    /\ call[c].at = "body" /\ ~call[c].dead /\ Error
    /\ db' \in {db, call[c].view}
    /\ holder' = Nobody
    /\ Answer(c, "error")
    /\ UNCHANGED <<engine, queue>>

Rollback(c) ==
    /\ call[c].at = "failed" /\ holder = c
    /\ holder' = Nobody
    /\ Answer(c, "error")
    /\ UNCHANGED <<engine, db, queue, errors>>

-----------------------------------------------------------------------------
Work(c) ==
    \/ One(c) \/ Begin(c) \/ Statement(c) \/ SavepointBegin(c) \/ SavepointEnd(c)
    \/ StatementRefused(c) \/ StatementUnsent(c) \/ TransactionLost(c)
    \/ Commit(c) \/ CommitLost(c) \/ Rollback(c)

Next == \E c \in Callers : Call(c) \/ Serve(c) \/ Work(c)

Spec == Init /\ [][Next]_vars

\* The event loop and the database serve everyone in the end.
FairSpec == Spec /\ \A c \in Callers : WF_vars(Serve(c)) /\ SF_vars(Work(c))

-----------------------------------------------------------------------------
(* Properties. *)

\* The collections that the statements of a log lead through.
Running(view, log) ==
    LET after[n \in 0..Len(log)] ==
          IF n = 0 THEN view ELSE Effect(after[n - 1], log[n])
    IN  after

Replay(view, log) == Running(view, log)[Len(log)]

Answered(c) == call[c].at # "idle" /\ call'[c].at = "idle"

\* Only a call that ends changes the database.  Answered well, it has done all
\* its statements but those of savepoints that failed, whose compensations left
\* no trace; refused, it has done none, unless the connection broke while it
\* committed.  No statement of another caller gets into a transaction.
AnswersHold ==
    [][ /\ db' # db => \E c \in Callers : Answered(c)
        /\ \A c \in Callers : Answered(c) =>
              \/ call'[c].answer = "ok" /\ db' = Replay(db, call[c].log)
              \/ call'[c].answer = "error" /\ db' = db
              \/ call'[c].answer = "error" /\ errors' # errors
                 /\ db' = Replay(db, call[c].log) ]_vars

\* Whatever fails, every call is answered: neither the queue nor the pool jams.
EveryCallAnswered == \A c \in Callers : call[c].at # "idle" ~> call[c].at = "idle"

\* Refuted on PostgreSQL and SQL Server, which roll the whole block back: a
\* savepoint that fails is undone alone, and the block goes on.
SavepointUndoneAlone ==
    [][ \A c \in Callers :
          call[c].at = "savepoint" /\ errors' = errors => call'[c].at # "failed" ]_vars
=============================================================================
