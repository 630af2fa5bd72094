---------------------------- MODULE EngineProofs ----------------------------
(***************************************************************************)
(* Proofs about the adapters of packages/engine.                           *)
(*                                                                         *)
(* EngineTransaction, for any callers, collections and any number of       *)
(* items.  A transaction sees what its statements made of the database it  *)
(* began with; a savepoint of MongoDB is undone by its compensations, last *)
(* one first, and that they lead back to where it began is shown by        *)
(* induction over the statements since.                                    *)
(*                                                                         *)
(* MongoReferences (FK), for any clients, documents and constraints: what  *)
(* ReferentialIntegrity states.  The recursion of a cascade is followed    *)
(* step by step: it ends, and has seen to every child of what it removes.  *)
(***************************************************************************)
EXTENDS EngineTransaction, ReferentialIntegrity, FiniteSetTheorems, TLAPS

-----------------------------------------------------------------------------
(* Natural numbers and sequences of states. *)

\* Induction, with a set for the formula to be proved.
LEMMA Inductive ==
    ASSUME NEW T, 0 \in T, \A n \in Nat : n \in T => n + 1 \in T
    PROVE  \A n \in Nat : n \in T
  <1> DEFINE R == { p \in Nat \X Nat : p[1] < p[2] }
             M == Nat \ T
  <1>1. SUFFICES ASSUME M # {} PROVE FALSE
    OBVIOUS
  <1>2. PICK x \in M : \A y \in M : <<y, x>> \notin R
    <2>1. M \subseteq Nat
      OBVIOUS
    <2>2. IsWellFoundedOn(R, Nat)
      BY NatLessThanWellFounded DEF OpToRel
    <2> HIDE DEF M, R
    <2>3. QED
      BY <1>1, <2>1, <2>2, WFMin
  <1>3. x \in Nat /\ x - 1 \in Nat /\ x - 1 + 1 = x
    OBVIOUS
  <1>4. x - 1 \in M /\ <<x - 1, x>> \in R
    BY <1>3
  <1>5. QED
    BY <1>2, <1>4

Alike(n, s, t) == s[0] = t[0] /\ \A k \in 1..n : s[k - 1] = t[k - 1] => s[k] = t[k]

Same(n, s, t) == \A k \in 0..n : s[k] = t[k]

\* Two walks that start together and step alike are one.
LEMMA SameWalk ==
    ASSUME NEW n \in Nat, NEW s, NEW t, Alike(n, s, t)
    PROVE  Same(n, s, t)
  <1> DEFINE T == { k \in Nat : k <= n => s[k] = t[k] }
  <1>1. 0 \in T
    BY DEF Alike
  <1>2. ASSUME NEW k \in Nat, k \in T PROVE k + 1 \in T
    <2>1. SUFFICES ASSUME k + 1 <= n PROVE s[k + 1] = t[k + 1]
      OBVIOUS
    <2>2. k + 1 \in 1..n /\ (k + 1) - 1 = k /\ s[k] = t[k]
      BY <1>2, <2>1
    <2>3. QED
      BY <2>2 DEF Alike
  <1> HIDE DEF T
  <1>3. \A k \in Nat : k \in T
    BY <1>1, <1>2, Inductive
  <1>4. QED
    BY <1>3 DEF T, Same

\* The walks of n steps from v in S whose k-th step is F[k].
Walks(n, S, v, F) ==
    { t \in [0..n -> S] : t[0] = v /\ \A k \in 1..n : t[k] = F[k][t[k - 1]] }

\* A walk exists in a set that its steps do not leave.
LEMMA WalkExists ==
    ASSUME NEW n \in Nat, NEW S, NEW v \in S, NEW F \in [1..n -> [S -> S]]
    PROVE  \E t : t \in Walks(n, S, v, F)
  <1> DEFINE Walk(m, t) == t[0] = v /\ \A k \in 1..m : t[k] = F[k][t[k - 1]]
             T == { m \in Nat : m <= n => \E t \in [0..m -> S] : Walk(m, t) }
  <1>1. 0 \in T
    <2> DEFINE t == [k \in 0..0 |-> v]
    <2>1. t \in [0..0 -> S] /\ Walk(0, t)
      OBVIOUS
    <2>2. QED
      BY <2>1
  <1>2. ASSUME NEW m \in Nat, m \in T PROVE m + 1 \in T
    <2>1. SUFFICES ASSUME m + 1 <= n PROVE \E t \in [0..(m + 1) -> S] : Walk(m + 1, t)
      OBVIOUS
    <2>2. PICK t \in [0..m -> S] : Walk(m, t)
      BY <1>2, <2>1
    <2> DEFINE u == [k \in 0..(m + 1) |-> IF k = m + 1 THEN F[m + 1][t[m]] ELSE t[k]]
    <2>3. t[m] \in S /\ F[m + 1][t[m]] \in S
      <3>1. m + 1 \in 1..n /\ t[m] \in S
        BY <2>1
      <3>2. F[m + 1] \in [S -> S]
        BY <3>1
      <3>3. QED
        BY <3>1, <3>2
    <2>4. u \in [0..(m + 1) -> S]
      BY <2>3
    <2>5. u[0] = v /\ u[m + 1] = F[m + 1][u[m]]
      BY <2>2
    <2>6. ASSUME NEW k \in 1..m PROVE u[k] = F[k][u[k - 1]]
      BY <2>2
    <2>7. \A k \in 1..(m + 1) : u[k] = F[k][u[k - 1]]
      <3> HIDE DEF u
      <3> TAKE k \in 1..(m + 1)
      <3>1. k \in 1..m \/ k = m + 1
        OBVIOUS
      <3>2. (m + 1) - 1 = m
        OBVIOUS
      <3>3. QED
        BY <2>5, <2>6, <3>1, <3>2
    <2>8. QED
      BY <2>4, <2>5, <2>7
  <1> HIDE DEF T
  <1>3. n \in T
    BY <1>1, <1>2, Inductive
  <1>4. QED
    BY <1>3 DEF T, Walks

\* A compensation; that of an update knows what each document was.
Compensations ==
    { comp \in [op : {"insert", "update", "delete"}, ids : SUBSET Ids, old : Collection] :
        comp.op = "update" => comp.ids \subseteq DOMAIN comp.old }

CallType ==
    [ at : {"idle", "queued", "served", "body", "savepoint", "failed"},
      block : BOOLEAN, view : Collection, log : Seq(Statements), mark : Nat,
      undo : Seq(Compensations), dead : BOOLEAN, items : Nat, answer : {"ok", "error"} ]

Open(c) == call[c].at \in {"body", "savepoint", "failed"}

\* The queue holds calls that wait, each once.
QueueOk ==
    /\ queue \in Seq(Callers) /\ IsInjective(queue)
    /\ \A i \in DOMAIN queue : call[queue[i]].at = "queued"

\* A call not begun has one statement, or a block of none so far.
AskedOk(c) ==
    call[c].at \in {"queued", "served"} =>
      IF call[c].block THEN call[c].log = <<>> ELSE Len(call[c].log) = 1

\* A transaction's view is what its log makes of the database, and on MongoDB
\* the compensations of a savepoint lead back to where it began.
ViewOk(c) ==
    /\ call[c].at \in {"body", "savepoint"} => call[c].view = Replay(db, call[c].log)
    /\ engine = "mongodb" /\ call[c].at = "savepoint" =>
         Compensated(call[c].view, call[c].undo)
           = Replay(db, SubSeq(call[c].log, 1, call[c].mark))

\* One transaction is open at a time, and SQL Server serves one call at a time.
AccessOk ==
    /\ \A c \in Callers : holder = c <=> Open(c)
    /\ engine = "mssql" => \A c, d \in Serving : c = d

EInv ==
    /\ TypeOK
    /\ call \in [Callers -> CallType]
    /\ QueueOk
    /\ AccessOk
    /\ \A c \in Callers : AskedOk(c) /\ ViewOk(c)

-----------------------------------------------------------------------------
(* Statements, compensations and what they do to a collection. *)

LEMMA CollectionIs ==
    ASSUME NEW view
    PROVE  view \in Collection <=> \E D \in SUBSET Ids : view \in [D -> Contents]
  BY DEF Collection

LEMMA CollectionFields ==
    ASSUME NEW view \in Collection
    PROVE  DOMAIN view \subseteq Ids /\ view \in [DOMAIN view -> Contents]
  BY CollectionIs

LEMMA EmptyCollection == Idle.view \in Collection
  <1>1. [i \in {} |-> Absent] \in [{} -> Contents]
    OBVIOUS
  <1>2. QED
    BY <1>1, CollectionIs DEF Idle

\* The kinds of statements.
LEMMA StatementKinds ==
    ASSUME NEW st \in Statements
    PROVE  \/ st.op = "insert" /\ st.id \in Ids /\ st.set \in Contents
           \/ st.op = "update" /\ st.set \in Contents
           \/ st.op = "delete"
  BY DEF Statements, Contents

LEMMA EffectTyped ==
    ASSUME NEW view \in Collection, NEW st \in Statements
    PROVE  Effect(view, st) \in Collection
  <1>1. DOMAIN view \subseteq Ids /\ view \in [DOMAIN view -> Contents]
    BY CollectionFields
  <1>2. CASE st.op = "insert" /\ st.id \in Ids /\ st.set \in Contents
    <2>1. Effect(view, st) \in [DOMAIN view \cup {st.id} -> Contents]
      BY <1>1, <1>2 DEF Effect
    <2>2. QED
      BY <1>1, <1>2, <2>1, CollectionIs
  <1>3. CASE st.op = "update" /\ st.set \in Contents
    <2>1. Effect(view, st) \in [DOMAIN view -> Contents]
      BY <1>1, <1>3 DEF Effect
    <2>2. QED
      BY <1>1, <2>1, CollectionIs
  <1>4. CASE st.op = "delete"
    <2>1. Effect(view, st) \in [DOMAIN view \ Touched(view, st) -> Contents]
      BY <1>1, <1>4 DEF Effect, Restrict
    <2>2. QED
      BY <1>1, <2>1, CollectionIs
  <1>5. QED
    BY <1>2, <1>3, <1>4, StatementKinds

LEMMA CompensationTyped ==
    ASSUME NEW view \in Collection, NEW st \in Statements
    PROVE  Compensation(view, st) \in Compensations
  <1> DEFINE ids == Touched(view, st)
             old == Restrict(view, ids \cap DOMAIN view)
  <1>1. DOMAIN view \subseteq Ids /\ view \in [DOMAIN view -> Contents]
    BY CollectionFields
  <1>2. st.op \in {"insert", "update", "delete"}
    BY StatementKinds
  <1>3. ids \in SUBSET Ids /\ (st.op = "update" => ids \subseteq DOMAIN view)
    BY <1>1, StatementKinds DEF Touched
  <1>4. old \in [ids \cap DOMAIN view -> Contents]
    BY <1>1 DEF Restrict
  <1>5. old \in Collection
    BY <1>1, <1>4, CollectionIs
  <1> HIDE DEF ids, old
  <1>6. [op |-> st.op, ids |-> ids, old |-> old]
            \in [op : {"insert", "update", "delete"}, ids : SUBSET Ids, old : Collection]
    BY <1>2, <1>3, <1>5
  <1>7. st.op = "update" => ids \subseteq DOMAIN old
    BY <1>3, <1>4
  <1>8. QED
    BY <1>6, <1>7 DEF Compensation, Compensations, ids, old

LEMMA UndoneTyped ==
    ASSUME NEW view \in Collection, NEW comp \in Compensations
    PROVE  Undone(view, comp) \in Collection
  <1>1. DOMAIN view \subseteq Ids /\ view \in [DOMAIN view -> Contents]
    BY CollectionFields
  <1>2. /\ comp.op \in {"insert", "update", "delete"} /\ comp.old \in Collection
        /\ comp.op = "update" => comp.ids \subseteq DOMAIN comp.old
    BY DEF Compensations
  <1>3. DOMAIN comp.old \subseteq Ids /\ comp.old \in [DOMAIN comp.old -> Contents]
    BY <1>2, CollectionFields
  <1>4. CASE comp.op = "insert"
    <2>1. Undone(view, comp) \in [DOMAIN view \ comp.ids -> Contents]
      BY <1>1, <1>4 DEF Undone, Restrict
    <2>2. QED
      BY <1>1, <2>1, CollectionIs
  <1>5. CASE comp.op = "update"
    <2>1. Undone(view, comp) \in [DOMAIN view -> Contents]
      BY <1>1, <1>2, <1>3, <1>5 DEF Undone
    <2>2. QED
      BY <1>1, <2>1, CollectionIs
  <1>6. CASE comp.op = "delete"
    <2>1. Undone(view, comp) \in [DOMAIN view \cup DOMAIN comp.old -> Contents]
      BY <1>1, <1>3, <1>6 DEF Undone
    <2>2. QED
      BY <1>1, <1>3, <2>1, CollectionIs
  <1>7. QED
    BY <1>2, <1>4, <1>5, <1>6

\* A compensation, right after its write, leaves no trace of it.
LEMMA CompensationUndoes ==
    ASSUME NEW view \in Collection, NEW st \in Statements, ~Clashes(view, st)
    PROVE  Undone(Effect(view, st), Compensation(view, st)) = view
  <1> DEFINE after == Effect(view, st)
             comp  == Compensation(view, st)
             ids   == Touched(view, st)
  <1>1. view = [i \in DOMAIN view |-> view[i]]
    BY CollectionFields
  <1>2. /\ comp.op = st.op /\ comp.ids = ids
        /\ comp.old = [i \in ids \cap DOMAIN view |-> view[i]]
    BY DEF Compensation, Restrict
  <1> HIDE DEF comp
  <1>3. CASE st.op = "insert"
    <2>1. ids = {st.id} /\ st.id \notin DOMAIN view
      BY <1>3 DEF Touched, Clashes
    <2>2. after = [i \in DOMAIN view \cup {st.id} |-> IF i = st.id THEN st.set ELSE view[i]]
      BY <1>3 DEF Effect
    <2> HIDE DEF after, ids
    <2>3. Undone(after, comp) = [i \in DOMAIN after \ ids |-> after[i]]
      BY <1>2, <1>3 DEF Undone, Restrict
    <2>4. DOMAIN after \ ids = DOMAIN view /\ \A i \in DOMAIN view : after[i] = view[i]
      BY <2>1, <2>2
    <2>5. QED
      BY <1>1, <2>3, <2>4 DEF after, comp
  <1>4. CASE st.op = "update"
    <2>1. ids \subseteq DOMAIN view
      BY <1>4 DEF Touched
    <2>2. after = [i \in DOMAIN view |-> IF i \in ids THEN st.set ELSE view[i]]
      BY <1>4 DEF Effect
    <2> HIDE DEF after, ids
    <2>3. Undone(after, comp)
            = [i \in DOMAIN after |-> IF i \in ids THEN comp.old[i] ELSE after[i]]
      BY <1>2, <1>4 DEF Undone
    <2>4. DOMAIN after = DOMAIN view
      BY <2>2
    <2>5. \A i \in DOMAIN view : (IF i \in ids THEN comp.old[i] ELSE after[i]) = view[i]
      BY <1>2, <2>1, <2>2
    <2>6. QED
      BY <1>1, <2>3, <2>4, <2>5 DEF after, comp
  <1>5. CASE st.op = "delete"
    <2>1. ids \subseteq DOMAIN view
      BY <1>5 DEF Touched
    <2>2. after = [i \in DOMAIN view \ ids |-> view[i]]
      BY <1>5 DEF Effect, Restrict
    <2> HIDE DEF after, ids
    <2>3. Undone(after, comp)
            = [i \in DOMAIN after \cup DOMAIN comp.old |->
                 IF i \in DOMAIN comp.old THEN comp.old[i] ELSE after[i]]
      BY <1>2, <1>5 DEF Undone
    <2>4. DOMAIN after \cup DOMAIN comp.old = DOMAIN view
      BY <1>2, <2>1, <2>2
    <2>5. \A i \in DOMAIN view :
             (IF i \in DOMAIN comp.old THEN comp.old[i] ELSE after[i]) = view[i]
      BY <1>2, <2>1, <2>2
    <2>6. QED
      BY <1>1, <2>3, <2>4, <2>5 DEF after, comp
  <1>6. QED
    BY <1>3, <1>4, <1>5, StatementKinds

-----------------------------------------------------------------------------
(* A log run, and compensations run one after the other. *)

\* Running walks the log, and is the only walk that does.
LEMMA RunningWalks ==
    ASSUME NEW view \in Collection, NEW log \in Seq(Statements)
    PROVE  /\ Running(view, log)[0] = view
           /\ \A k \in 1..Len(log) :
                 Running(view, log)[k] = Effect(Running(view, log)[k - 1], log[k])
           /\ \A k \in 0..Len(log) : Running(view, log)[k] \in Collection
  <1> DEFINE n == Len(log)
             F == [k \in 1..n |-> [v \in Collection |-> Effect(v, log[k])]]
             Is(f) == f = [k \in 0..n |-> IF k = 0 THEN view ELSE Effect(f[k - 1], log[k])]
  <1>1. n \in Nat /\ \A k \in 1..n : log[k] \in Statements
    OBVIOUS
  <1>2. F \in [1..n -> [Collection -> Collection]]
    BY <1>1, EffectTyped
  <1>3. PICK t : t \in Walks(n, Collection, view, F)
    <2>1. n \in Nat /\ view \in Collection
      BY <1>1
    <2> HIDE DEF F, n
    <2>2. QED
      BY <1>2, <2>1, WalkExists
  <1>4. /\ t \in [0..n -> Collection]
         /\ t[0] = view /\ \A k \in 1..n : t[k] = F[k][t[k - 1]]
    BY <1>3 DEF Walks
  <1>5. \A k \in 1..n : t[k] = Effect(t[k - 1], log[k])
    <2> TAKE k \in 1..n
    <2>1. k - 1 \in 0..n
      BY <1>1
    <2>2. t[k - 1] \in Collection
      BY <1>4, <2>1
    <2>3. QED
      BY <1>4, <2>2
  <1> HIDE DEF F
  <1>6. Is(t)
    BY <1>1, <1>4, <1>5
  <1>7. Running(view, log) = CHOOSE f : Is(f)
    BY DEF Running
  <1>8. Is(Running(view, log))
    BY <1>6, <1>7
  <1> DEFINE g == Running(view, log)
  <1>9. g = [k \in 0..n |-> IF k = 0 THEN view ELSE Effect(g[k - 1], log[k])]
    BY <1>8
  <1> HIDE DEF g
  <1>10. g[0] = view /\ \A k \in 1..n : g[k] = Effect(g[k - 1], log[k])
    BY <1>1, <1>9
  <1>11. \A k \in 0..n : g[k] = t[k]
    <2>1. Alike(n, g, t)
      BY <1>4, <1>5, <1>10 DEF Alike
    <2>2. n \in Nat
      BY <1>1
    <2> HIDE DEF n
    <2>3. Same(n, g, t)
      BY <2>1, <2>2, SameWalk
    <2>4. QED
      BY <2>3 DEF Same
  <1>12. QED
    BY <1>10, <1>11, <1>4 DEF g

\* Undoing walks the compensations, in their order.
LEMMA UndoingWalks ==
    ASSUME NEW view \in Collection, NEW comps \in Seq(Compensations)
    PROVE  /\ Undoing(view, comps)[0] = view
           /\ \A k \in 1..Len(comps) :
                 Undoing(view, comps)[k] = Undone(Undoing(view, comps)[k - 1], comps[k])
           /\ \A k \in 0..Len(comps) : Undoing(view, comps)[k] \in Collection
  <1> DEFINE n == Len(comps)
             F == [k \in 1..n |-> [v \in Collection |-> Undone(v, comps[k])]]
             Is(f) == f = [k \in 0..n |-> IF k = 0 THEN view ELSE Undone(f[k - 1], comps[k])]
  <1>1. n \in Nat /\ \A k \in 1..n : comps[k] \in Compensations
    OBVIOUS
  <1>2. F \in [1..n -> [Collection -> Collection]]
    BY <1>1, UndoneTyped
  <1>3. PICK t : t \in Walks(n, Collection, view, F)
    <2>1. n \in Nat /\ view \in Collection
      BY <1>1
    <2> HIDE DEF F, n
    <2>2. QED
      BY <1>2, <2>1, WalkExists
  <1>4. /\ t \in [0..n -> Collection]
         /\ t[0] = view /\ \A k \in 1..n : t[k] = F[k][t[k - 1]]
    BY <1>3 DEF Walks
  <1>5. \A k \in 1..n : t[k] = Undone(t[k - 1], comps[k])
    <2> TAKE k \in 1..n
    <2>1. k - 1 \in 0..n
      BY <1>1
    <2>2. t[k - 1] \in Collection
      BY <1>4, <2>1
    <2>3. QED
      BY <1>4, <2>2
  <1> HIDE DEF F
  <1>6. Is(t)
    BY <1>1, <1>4, <1>5
  <1>7. Undoing(view, comps) = CHOOSE f : Is(f)
    BY DEF Undoing
  <1>8. Is(Undoing(view, comps))
    BY <1>6, <1>7
  <1> DEFINE g == Undoing(view, comps)
  <1>9. g = [k \in 0..n |-> IF k = 0 THEN view ELSE Undone(g[k - 1], comps[k])]
    BY <1>8
  <1> HIDE DEF g
  <1>10. g[0] = view /\ \A k \in 1..n : g[k] = Undone(g[k - 1], comps[k])
    BY <1>1, <1>9
  <1>11. \A k \in 0..n : g[k] = t[k]
    <2>1. Alike(n, g, t)
      BY <1>4, <1>5, <1>10 DEF Alike
    <2>2. n \in Nat
      BY <1>1
    <2> HIDE DEF n
    <2>3. Same(n, g, t)
      BY <2>1, <2>2, SameWalk
    <2>4. QED
      BY <2>3 DEF Same
  <1>12. QED
    BY <1>10, <1>11, <1>4 DEF g

LEMMA ReplayTyped ==
    ASSUME NEW view \in Collection, NEW log \in Seq(Statements)
    PROVE  Replay(view, log) \in Collection
  BY RunningWalks DEF Replay

LEMMA ReplayEmpty == ASSUME NEW view \in Collection PROVE Replay(view, <<>>) = view
  <1>1. <<>> \in Seq(Statements) /\ Len(<<>>) = 0
    OBVIOUS
  <1>2. QED
    BY <1>1, RunningWalks DEF Replay

LEMMA ReplayAppend ==
    ASSUME NEW view \in Collection, NEW log \in Seq(Statements), NEW st \in Statements
    PROVE  Replay(view, Append(log, st)) = Effect(Replay(view, log), st)
  <1> DEFINE n == Len(log)
             longer == Append(log, st)
  <1> SUFFICES ASSUME NEW a, a = Running(view, longer), NEW b, b = Running(view, log)
               PROVE  a[Len(longer)] = Effect(b[n], st)
    BY DEF Replay
  <1>1. /\ n \in Nat /\ longer \in Seq(Statements) /\ Len(longer) = n + 1
        /\ longer[n + 1] = st /\ \A k \in 1..n : longer[k] = log[k]
    OBVIOUS
  <1> HIDE DEF longer
  <1>2. b[0] = view /\ \A k \in 1..n : b[k] = Effect(b[k - 1], log[k])
    BY RunningWalks
  <1>3. a[0] = view /\ \A k \in 1..(n + 1) : a[k] = Effect(a[k - 1], longer[k])
    BY <1>1, RunningWalks
  <1> HIDE DEF n
  <1>4. a[n + 1] = Effect(a[n], st)
    <2>1. n + 1 \in 1..(n + 1) /\ (n + 1) - 1 = n
      BY <1>1
    <2>2. QED
      BY <1>1, <1>3, <2>1
  <1>5. \A k \in 1..n : a[k - 1] = b[k - 1] => a[k] = b[k]
    <2> TAKE k \in 1..n
    <2>1. k \in 1..(n + 1)
      BY <1>1
    <2>2. QED
      BY <1>1, <1>2, <1>3, <2>1
  <1>6. a[0] = b[0]
    BY <1>2, <1>3
  <1>7. Same(n, a, b)
    <2>1. n \in Nat
      BY <1>1
    <2>2. Alike(n, a, b)
      BY <1>5, <1>6 DEF Alike
    <2>3. QED
      BY <2>1, <2>2, SameWalk
  <1>8. a[n] = b[n]
    BY <1>1, <1>7 DEF Same
  <1>9. QED
    BY <1>1, <1>4, <1>8

LEMMA ReplayOne ==
    ASSUME NEW view \in Collection, NEW log \in Seq(Statements), Len(log) = 1
    PROVE  Replay(view, log) = Effect(view, log[1])
  <1>1. 1 \in 1..Len(log) /\ 1 - 1 = 0
    OBVIOUS
  <1>2. QED
    BY <1>1, RunningWalks DEF Replay

LEMMA CompensatedEmpty == ASSUME NEW view \in Collection PROVE Compensated(view, <<>>) = view
  <1> DEFINE back == [i \in 1..Len(<<>>) |-> <<>>[Len(<<>>) + 1 - i]]
  <1>1. back \in Seq(Compensations) /\ Len(<<>>) = 0
    OBVIOUS
  <1>2. Undoing(view, back)[0] = view
    <2> HIDE DEF back
    <2>1. QED
      BY <1>1, UndoingWalks
  <1>3. QED
    BY <1>1, <1>2 DEF Compensated

\* Compensations, backwards.
LEMMA Backwards ==
    ASSUME NEW S, NEW s \in Seq(S)
    PROVE  LET back == [i \in 1..Len(s) |-> s[Len(s) + 1 - i]]
           IN  back \in Seq(S) /\ Len(back) = Len(s)
  OBVIOUS

LEMMA CompensatedTyped ==
    ASSUME NEW view \in Collection, NEW undo \in Seq(Compensations)
    PROVE  Compensated(view, undo) \in Collection
  <1> DEFINE back == [i \in 1..Len(undo) |-> undo[Len(undo) + 1 - i]]
  <1>1. back \in Seq(Compensations) /\ Len(back) = Len(undo)
    BY Backwards
  <1>2. Compensated(view, undo) = Undoing(view, back)[Len(back)]
    BY <1>1 DEF Compensated
  <1> HIDE DEF back
  <1>3. QED
    BY <1>1, <1>2, UndoingWalks

\* The compensation that was kept last is the first to run.
LEMMA CompensatedAppend ==
    ASSUME NEW view \in Collection, NEW undo \in Seq(Compensations), NEW comp \in Compensations
    PROVE  Compensated(view, Append(undo, comp)) = Compensated(Undone(view, comp), undo)
  <1> DEFINE n == Len(undo)
             kept == Append(undo, comp)
             longer == [i \in 1..Len(kept) |-> kept[Len(kept) + 1 - i]]
             back == [i \in 1..n |-> undo[n + 1 - i]]
  <1> SUFFICES ASSUME NEW a, a = Undoing(view, longer),
                      NEW b, b = Undoing(Undone(view, comp), back)
               PROVE  a[Len(kept)] = b[n]
    BY DEF Compensated
  <1>1. /\ n \in Nat /\ kept \in Seq(Compensations) /\ Len(kept) = n + 1
        /\ kept[n + 1] = comp /\ \A k \in 1..n : kept[k] = undo[k]
    OBVIOUS
  <1>2. back \in Seq(Compensations) /\ Len(back) = n
    BY Backwards
  <1>3. longer \in Seq(Compensations) /\ Len(longer) = n + 1
    <2> HIDE DEF kept
    <2>1. QED
      BY <1>1, Backwards
  <1>4. longer[1] = comp /\ \A k \in 1..n : longer[k + 1] = back[k]
    <2> HIDE DEF kept
    <2>1. longer[1] = kept[n + 1]
      BY <1>1
    <2>2. ASSUME NEW k \in 1..n PROVE longer[k + 1] = back[k]
      <3>1. k + 1 \in 1..Len(kept) /\ Len(kept) + 1 - (k + 1) = n + 1 - k /\ n + 1 - k \in 1..n
        BY <1>1
      <3>2. longer[k + 1] = kept[n + 1 - k]
        BY <3>1
      <3>3. QED
        BY <1>1, <3>1, <3>2
    <2>3. QED
      BY <1>1, <2>1, <2>2
  <1> HIDE DEF longer, back, kept
  <1>5. Undone(view, comp) \in Collection
    BY UndoneTyped
  <1>6. b[0] = Undone(view, comp) /\ \A k \in 1..n : b[k] = Undone(b[k - 1], back[k])
    BY <1>2, <1>5, UndoingWalks
  <1>7. a[0] = view /\ \A k \in 1..(n + 1) : a[k] = Undone(a[k - 1], longer[k])
    BY <1>3, UndoingWalks
  <1> HIDE DEF n
  <1>8. a[1] = b[0]
    <2>1. 1 \in 1..(n + 1) /\ 1 - 1 = 0
      BY <1>1
    <2>2. QED
      BY <1>4, <1>6, <1>7, <2>1
  <1> DEFINE s == [k \in 0..n |-> a[k + 1]]
  <1>9. s[0] = b[0] /\ s[n] = a[n + 1]
    BY <1>1, <1>8
  <1>10. \A k \in 1..n : s[k - 1] = b[k - 1] => s[k] = b[k]
    <2> TAKE k \in 1..n
    <2>1. k + 1 \in 1..(n + 1) /\ (k + 1) - 1 = k /\ k \in 0..n /\ k - 1 \in 0..n /\ k - 1 + 1 = k
      BY <1>1
    <2>2. s[k - 1] = a[k] /\ s[k] = a[k + 1]
      BY <2>1
    <2>3. a[k + 1] = Undone(a[k], back[k])
      BY <1>4, <1>7, <2>1
    <2>4. QED
      BY <1>6, <2>2, <2>3
  <1> HIDE DEF s
  <1>11. s[n] = b[n]
    <2>1. n \in Nat /\ s[0] = b[0]
      BY <1>1, <1>9
    <2>2. Alike(n, s, b)
      BY <1>10, <2>1 DEF Alike
    <2>3. Same(n, s, b)
      BY <2>1, <2>2, SameWalk
    <2>4. QED
      BY <1>1, <2>3 DEF Same
  <1>12. QED
    BY <1>1, <1>9, <1>11

-----------------------------------------------------------------------------
(* Types. *)

LEMMA Fields ==
    ASSUME NEW r \in CallType
    PROVE  /\ r.at \in {"idle", "queued", "served", "body", "savepoint", "failed"}
           /\ r.block \in BOOLEAN /\ r.view \in Collection /\ r.log \in Seq(Statements)
           /\ r.mark \in Nat /\ r.undo \in Seq(Compensations) /\ r.dead \in BOOLEAN
           /\ r.items \in Nat /\ r.answer \in {"ok", "error"}
  BY DEF CallType

LEMMA IdleTyped == Idle \in CallType
  <1>1. <<>> \in Seq(Statements) /\ <<>> \in Seq(Compensations)
    OBVIOUS
  <1>2. [i \in {} |-> Absent] \in Collection
    BY EmptyCollection DEF Idle
  <1>3. QED
    BY <1>1, <1>2 DEF Idle, CallType

\* An answered call, a call asked for, and a call that failed.
LEMMA AnsweredTyped ==
    ASSUME NEW a \in {"ok", "error"}
    PROVE  /\ [Idle EXCEPT !.answer = a] \in CallType
           /\ [Idle EXCEPT !.answer = a].at = "idle" /\ [Idle EXCEPT !.answer = a].answer = a
           /\ [Idle EXCEPT !.answer = a].mark = 0 /\ [Idle EXCEPT !.answer = a].log = <<>>
  <1>1. [Idle EXCEPT !.answer = a] \in CallType
    BY IdleTyped DEF CallType
  <1>2. QED
    BY <1>1 DEF Idle

LEMMA AskedTyped ==
    ASSUME NEW log \in Seq(Statements), NEW block \in BOOLEAN
    PROVE  LET r == [Idle EXCEPT !.at = "queued", !.block = block, !.log = log]
           IN  /\ r \in CallType /\ r.at = "queued" /\ r.block = block /\ r.log = log
               /\ r.mark = 0
  <1> DEFINE r == [Idle EXCEPT !.at = "queued", !.block = block, !.log = log]
  <1>1. r \in CallType
    BY IdleTyped DEF CallType
  <1>2. r.at = "queued" /\ r.block = block /\ r.log = log /\ r.mark = 0
    BY DEF Idle
  <1>3. QED
    BY <1>1, <1>2

LEMMA AtTyped ==
    ASSUME NEW r \in CallType, NEW at \in {"served", "failed"}
    PROVE  /\ [r EXCEPT !.at = at] \in CallType /\ [r EXCEPT !.at = at].at = at
           /\ [r EXCEPT !.at = at].log = r.log /\ [r EXCEPT !.at = at].mark = r.mark
           /\ [r EXCEPT !.at = at].block = r.block
  BY DEF CallType

\* What a block makes of the record of its call.
Begun(r, view) == [r EXCEPT !.at = "body", !.view = view]

Stated(r, view, log, undo, items) ==
    [r EXCEPT !.view = view, !.log = log, !.undo = undo, !.items = items]

Marked(r, mark, items) ==
    [r EXCEPT !.at = "savepoint", !.mark = mark, !.undo = <<>>, !.items = items]

Released(r) == [r EXCEPT !.at = "body", !.undo = <<>>]

Absorbed(r, view, dead, log) ==
    [r EXCEPT !.at = "body", !.view = view, !.undo = <<>>, !.dead = dead, !.log = log]

LEMMA BegunTyped ==
    ASSUME NEW r \in CallType, NEW view \in Collection
    PROVE  LET q == Begun(r, view) IN
           /\ q \in CallType /\ q.at = "body" /\ q.view = view /\ q.log = r.log
           /\ q.mark = r.mark
  BY DEF CallType, Begun

LEMMA StatedTyped ==
    ASSUME NEW r \in CallType, NEW view \in Collection, NEW log \in Seq(Statements),
           NEW undo \in Seq(Compensations), NEW items \in Nat
    PROVE  LET q == Stated(r, view, log, undo, items) IN
           /\ q \in CallType /\ q.at = r.at /\ q.view = view /\ q.log = log
           /\ q.undo = undo /\ q.mark = r.mark
  BY DEF CallType, Stated

LEMMA ReleasedTyped ==
    ASSUME NEW r \in CallType
    PROVE  LET q == Released(r) IN
           /\ q \in CallType /\ q.at = "body" /\ q.view = r.view /\ q.log = r.log
           /\ q.mark = r.mark
  <1>1. <<>> \in Seq(Compensations)
    OBVIOUS
  <1>2. QED
    BY <1>1 DEF CallType, Released

LEMMA AbsorbedTyped ==
    ASSUME NEW r \in CallType, NEW view \in Collection, NEW dead \in BOOLEAN,
           NEW log \in Seq(Statements)
    PROVE  LET q == Absorbed(r, view, dead, log) IN
           /\ q \in CallType /\ q.at = "body" /\ q.view = view /\ q.log = log
           /\ q.mark = r.mark
  <1>1. <<>> \in Seq(Compensations)
    OBVIOUS
  <1>2. QED
    BY <1>1 DEF CallType, Absorbed

-----------------------------------------------------------------------------
(* The inductive invariant. *)

LEMMA EInvInit == Init => EInv
  <1> SUFFICES ASSUME Init PROVE EInv
    OBVIOUS
  <1>1. /\ \A c \in Callers : call[c] = Idle
        /\ call \in [Callers -> CallType]
        /\ queue = <<>> /\ holder = Nobody /\ db \in Collection
        /\ engine \in {"postgres", "mssql", "mongodb"} /\ errors = 0
    BY IdleTyped DEF Init
  <1>2. Idle.at = "idle" /\ Idle.mark = 0 /\ Idle.log = <<>>
    BY DEF Idle
  <1>3. queue \in Seq(Callers) /\ DOMAIN queue = {} /\ IsInjective(queue)
    BY <1>1 DEF IsInjective
  <1>4. QueueOk
    BY <1>3 DEF QueueOk
  <1>5. \A c \in Callers : call[c].at = "idle" /\ call[c].mark \in 0..Len(call[c].log)
    BY <1>1, <1>2
  <1>6. AccessOk
    BY <1>1, <1>5, TransactionAssumption DEF AccessOk, Open, Serving
  <1>7. \A c \in Callers : AskedOk(c) /\ ViewOk(c)
    BY <1>5 DEF AskedOk, ViewOk
  <1>8. \A c \in Callers : call[c].view \in Collection /\ call[c].log \in Seq(Statements)
    BY <1>1, Fields
  <1>9. errors \in 0..MaxErrors
    BY <1>1, TransactionAssumption
  <1>10. TypeOK
    BY <1>1, <1>3, <1>5, <1>8, <1>9 DEF TypeOK
  <1>11. QED
    BY <1>1, <1>4, <1>6, <1>7, <1>10 DEF EInv

\* TypeOK holds after a step that keeps the types of the calls.
LEMMA TypesFollow ==
    ASSUME engine' \in {"postgres", "mssql", "mongodb"}, db' \in Collection,
           holder' \in Callers \cup {Nobody}, QueueOk', errors' \in 0..MaxErrors,
           call' \in [Callers -> CallType],
           \A c \in Callers : call'[c].mark <= Len(call'[c].log)
    PROVE  TypeOK'
  <1>1. ASSUME NEW c \in Callers
        PROVE  /\ call'[c].at \in {"idle", "queued", "served", "body", "savepoint", "failed"}
               /\ call'[c].view \in Collection /\ call'[c].log \in Seq(Statements)
               /\ call'[c].mark \in 0..Len(call'[c].log)
    <2>1. call'[c] \in CallType /\ call'[c].mark <= Len(call'[c].log)
      OBVIOUS
    <2>2. /\ call'[c].at \in {"idle", "queued", "served", "body", "savepoint", "failed"}
          /\ call'[c].view \in Collection /\ call'[c].log \in Seq(Statements)
          /\ call'[c].mark \in Nat
      BY <2>1, Fields
    <2>3. QED
      BY <2>1, <2>2
  <1>2. QED
    BY <1>1 DEF TypeOK, QueueOk

\* A call that does not step is as right as before, if the database is as it
\* was or the call has no view.
LEMMA OthersOk ==
    ASSUME NEW d, AskedOk(d), ViewOk(d), call'[d] = call[d], engine' = engine,
           db' = db \/ ~Open(d)
    PROVE  AskedOk(d)' /\ ViewOk(d)'
  <1>1. AskedOk(d)'
    BY DEF AskedOk
  <1>2. CASE db' = db
    BY <1>1, <1>2 DEF ViewOk
  <1>3. CASE ~Open(d)
    BY <1>1, <1>3 DEF ViewOk, Open
  <1>4. QED
    BY <1>2, <1>3

\* A step of a served call: what it must establish.
LEMMA WorkKeeps ==
    ASSUME EInv, NEW c \in Callers, NEW r \in CallType,
           call[c].at \notin {"idle", "queued"},
           call' = [call EXCEPT ![c] = r],
           r.at \notin {"queued", "served"}, r.mark <= Len(r.log),
           r.at \in {"body", "savepoint"} => r.view = Replay(db', r.log),
           engine = "mongodb" /\ r.at = "savepoint" =>
             Compensated(r.view, r.undo) = Replay(db', SubSeq(r.log, 1, r.mark)),
           UNCHANGED <<engine, queue>>, errors' \in 0..MaxErrors, db' \in Collection,
           holder = Nobody \/ holder = c \/ db' = db,
           IF r.at = "idle" THEN holder' = IF holder = c THEN Nobody ELSE holder
                            ELSE holder' = c /\ holder \in {Nobody, c}
    PROVE  EInv'
  <1>1. /\ call'[c] = r /\ \A d \in Callers \ {c} : call'[d] = call[d]
        /\ call' \in [Callers -> CallType]
    BY DEF EInv
  <1>2. /\ TypeOK /\ QueueOk /\ AccessOk /\ \A d \in Callers : AskedOk(d) /\ ViewOk(d)
    BY DEF EInv
  <1>3. r.at \in {"idle", "body", "savepoint", "failed"}
    BY Fields
  <1>4. QueueOk'
    <2>1. ASSUME NEW i \in DOMAIN queue PROVE call'[queue[i]].at = "queued"
      <3>1. queue[i] \in Callers /\ call[queue[i]].at = "queued"
        BY <1>2 DEF QueueOk
      <3>2. QED
        BY <1>1, <3>1
    <2>2. QED
      BY <1>2, <2>1 DEF QueueOk
  <1>5. holder' \in Callers \cup {Nobody}
    BY <1>2 DEF TypeOK
  <1>6. AccessOk'
    <2>1. ASSUME NEW d \in Callers PROVE holder' = d <=> Open(d)'
      <3>1. holder = d <=> Open(d)
        BY <1>2 DEF AccessOk
      <3>2. Nobody # c /\ Nobody # d
        BY TransactionAssumption
      <3>3. CASE d = c
        <4>1. Open(d)' <=> r.at # "idle"
          BY <1>1, <1>3, <3>3 DEF Open
        <4>2. QED
          BY <3>2, <3>3, <4>1
      <3>4. CASE d # c
        <4>1. Open(d)' = Open(d)
          BY <1>1, <3>4 DEF Open
        <4>2. QED
          BY <3>1, <3>2, <3>4, <4>1
      <3>5. QED
        BY <3>3, <3>4
    <2>2. Serving' \subseteq Serving
      BY <1>1 DEF Serving
    <2>3. QED
      BY <1>2, <2>1, <2>2 DEF AccessOk
  <1>7. ASSUME NEW d \in Callers PROVE AskedOk(d)' /\ ViewOk(d)'
    <2>1. CASE d = c
      BY <1>1, <1>3, <2>1 DEF AskedOk, ViewOk
    <2>2. CASE d # c
      <3>1. db' = db \/ ~Open(d)
        <4>1. holder = d <=> Open(d)
          BY <1>2 DEF AccessOk
        <4>2. QED
          BY <2>2, <4>1, TransactionAssumption
      <3>2. QED
        BY <1>1, <1>2, <2>2, <3>1, OthersOk
    <2>3. QED
      BY <2>1, <2>2
  <1>8. \A d \in Callers : call'[d].mark <= Len(call'[d].log)
    <2> TAKE d \in Callers
    <2>1. call[d].mark \in 0..Len(call[d].log) /\ call[d].log \in Seq(Statements)
      BY <1>2 DEF TypeOK
    <2>2. call[d].mark <= Len(call[d].log)
      BY <2>1
    <2>3. QED
      BY <1>1, <2>2
  <1>9. TypeOK'
    <2>1. engine' \in {"postgres", "mssql", "mongodb"}
      BY <1>2 DEF TypeOK
    <2>2. QED
      BY <1>1, <1>4, <1>5, <1>8, <2>1, TypesFollow
  <1>10. QED
    BY <1>1, <1>4, <1>6, <1>7, <1>9 DEF EInv

LEMMA InvFacts ==
    ASSUME EInv, NEW c \in Callers
    PROVE  /\ call[c] \in CallType /\ call \in [Callers -> CallType] /\ db \in Collection
           /\ AskedOk(c) /\ ViewOk(c) /\ (holder = c <=> Open(c))
           /\ call[c].mark \in 0..Len(call[c].log) /\ errors \in 0..MaxErrors
           /\ holder \in Callers \cup {Nobody} /\ c # Nobody
  BY TransactionAssumption DEF EInv, TypeOK, AccessOk

\* A call is asked for: it is the last of the queue, and was not in it.
LEMMA CallStep ==
    ASSUME EInv, NEW c \in Callers, Call(c)
    PROVE  EInv'
  <1>1. PICK log \in {<<>>} \cup { <<st>> : st \in Statements } :
             /\ call[c].at = "idle"
             /\ call' = [call EXCEPT ![c] = [Idle EXCEPT !.at = "queued", !.block = log = <<>>,
                                                         !.log = log]]
             /\ queue' = Append(queue, c)
             /\ UNCHANGED <<engine, db, holder, errors>>
    BY DEF Call
  <1> DEFINE r == [Idle EXCEPT !.at = "queued", !.block = log = <<>>, !.log = log]
  <1>2. log \in Seq(Statements) /\ (log = <<>>) \in BOOLEAN /\ (log # <<>> => Len(log) = 1)
    <2>1. CASE log = <<>>
      BY <2>1
    <2>2. ASSUME NEW st \in Statements, log = <<st>>
          PROVE  log \in Seq(Statements) /\ log # <<>> /\ Len(log) = 1
      <3>1. <<st>> \in Seq(Statements) /\ Len(<<st>>) = 1 /\ Len(<<>>) = 0
        OBVIOUS
      <3>2. QED
        BY <2>2, <3>1
    <2>3. QED
      BY <2>1, <2>2
  <1>3. r \in CallType /\ r.at = "queued" /\ r.block = (log = <<>>) /\ r.log = log /\ r.mark = 0
    BY <1>2, AskedTyped
  <1>4. call' = [call EXCEPT ![c] = r]
    BY <1>1
  <1> HIDE DEF r
  <1>5. call'[c] = r /\ call' \in [Callers -> CallType]
        /\ \A d \in Callers \ {c} : call'[d] = call[d]
    BY <1>3, <1>4, InvFacts
  <1>6. QueueOk'
    <2>1. queue \in Seq(Callers) /\ IsInjective(queue)
          /\ \A i \in DOMAIN queue : call[queue[i]].at = "queued"
      BY DEF EInv, QueueOk
    <2>2. \A i \in DOMAIN queue : queue[i] # c
      BY <1>1, <2>1
    <2>3. /\ queue' \in Seq(Callers) /\ DOMAIN queue' = 1..(Len(queue) + 1)
          /\ queue'[Len(queue) + 1] = c /\ \A i \in 1..Len(queue) : queue'[i] = queue[i]
      BY <1>1, <2>1
    <2>4. DOMAIN queue = 1..Len(queue) /\ Len(queue) \in Nat
      BY <2>1
    <2>5. IsInjective(queue')
      BY <2>1, <2>2, <2>3, <2>4 DEF IsInjective
    <2>6. ASSUME NEW i \in DOMAIN queue' PROVE call'[queue'[i]].at = "queued"
      <3>1. CASE i = Len(queue) + 1
        BY <1>3, <1>5, <2>3, <3>1
      <3>2. CASE i \in 1..Len(queue)
        <4>1. queue[i] \in Callers \ {c}
          BY <2>1, <2>2, <2>4, <3>2
        <4>2. QED
          BY <1>5, <2>1, <2>3, <2>4, <3>2, <4>1
      <3>3. QED
        BY <2>3, <2>4, <3>1, <3>2
    <2>7. QED
      BY <2>3, <2>5, <2>6 DEF QueueOk
  <1>7. AccessOk'
    <2>1. \A d \in Callers : Open(d)' = Open(d)
      BY <1>1, <1>3, <1>5 DEF Open
    <2>2. Serving' \subseteq Serving
      BY <1>3, <1>5 DEF Serving
    <2>3. QED
      BY <1>1, <2>1, <2>2 DEF EInv, AccessOk
  <1>8. ASSUME NEW d \in Callers PROVE AskedOk(d)' /\ ViewOk(d)'
    <2>1. CASE d = c
      BY <1>2, <1>3, <1>5, <2>1 DEF AskedOk, ViewOk
    <2>2. CASE d # c
      BY <1>1, <1>5, <2>2, InvFacts, OthersOk
    <2>3. QED
      BY <2>1, <2>2
  <1>9. \A d \in Callers : call'[d].mark <= Len(call'[d].log)
    <2> TAKE d \in Callers
    <2>1. call[d].mark \in 0..Len(call[d].log) /\ call[d].log \in Seq(Statements)
      BY InvFacts, Fields
    <2>2. call[d].mark <= Len(call[d].log) /\ 0 <= Len(log)
      BY <1>2, <2>1
    <2>3. QED
      BY <1>3, <1>5, <2>2
  <1>10. TypeOK'
    <2>1. /\ engine' \in {"postgres", "mssql", "mongodb"} /\ db' \in Collection
          /\ holder' \in Callers \cup {Nobody} /\ errors' \in 0..MaxErrors
      BY <1>1 DEF EInv, TypeOK
    <2>2. QED
      BY <1>5, <1>6, <1>9, <2>1, TypesFollow
  <1>11. QED
    BY <1>5, <1>6, <1>7, <1>8, <1>10 DEF EInv

\* A queue without its i-th element.
LEMMA QueueShorter ==
    ASSUME NEW S, NEW q \in Seq(S), IsInjective(q), NEW i \in DOMAIN q,
           NEW p, p = [j \in 1..(Len(q) - 1) |-> q[IF j < i THEN j ELSE j + 1]]
    PROVE  /\ p \in Seq(S) /\ IsInjective(p)
           /\ \A j \in DOMAIN p : \E k \in DOMAIN q \ {i} : p[j] = q[k]
  <1>1. DOMAIN q = 1..Len(q) /\ Len(q) \in Nat /\ i \in 1..Len(q) /\ Len(q) - 1 \in Nat
    OBVIOUS
  <1> DEFINE at(j) == IF j < i THEN j ELSE j + 1
  <1>2. \A j \in 1..(Len(q) - 1) : at(j) \in 1..Len(q) /\ at(j) # i /\ p[j] = q[at(j)]
    BY <1>1
  <1>3. \A j, k \in 1..(Len(q) - 1) : at(j) = at(k) => j = k
    BY <1>1
  <1>4. DOMAIN p = 1..(Len(q) - 1)
    OBVIOUS
  <1>5. \A j \in 1..(Len(q) - 1) : q[at(j)] \in S
    BY <1>2
  <1>6. p \in [1..(Len(q) - 1) -> S]
    BY <1>5
  <1>7. p \in Seq(S)
    BY <1>1, <1>6
  <1> HIDE DEF at
  <1>8. IsInjective(p)
    BY <1>1, <1>2, <1>3, <1>4 DEF IsInjective
  <1>9. QED
    BY <1>1, <1>2, <1>4, <1>7, <1>8

\* A call is served: on SQL Server, no other is.
LEMMA ServeStep ==
    ASSUME EInv, NEW c \in Callers, Serve(c)
    PROVE  EInv'
  <1> DEFINE r == [call[c] EXCEPT !.at = "served"]
  <1>1. /\ call[c].at = "queued" /\ Admitted(c) /\ call' = [call EXCEPT ![c].at = "served"]
        /\ UNCHANGED <<engine, db, holder, errors>>
    BY DEF Serve
  <1>2. PICK i \in DOMAIN queue :
           /\ queue[i] = c
           /\ queue' = [j \in 1..(Len(queue) - 1) |-> queue[IF j < i THEN j ELSE j + 1]]
    BY DEF Serve
  <1>3. /\ r \in CallType /\ r.at = "served" /\ r.log = call[c].log /\ r.mark = call[c].mark
        /\ r.block = call[c].block
    BY InvFacts, AtTyped
  <1>4. call' = [call EXCEPT ![c] = r]
    BY <1>1, InvFacts
  <1> HIDE DEF r
  <1>5. call'[c] = r /\ call' \in [Callers -> CallType]
        /\ \A d \in Callers \ {c} : call'[d] = call[d]
    BY <1>3, <1>4, InvFacts
  <1>6. QueueOk'
    <2>1. queue \in Seq(Callers) /\ IsInjective(queue)
          /\ \A k \in DOMAIN queue : call[queue[k]].at = "queued"
      BY DEF EInv, QueueOk
    <2>2. /\ queue' \in Seq(Callers) /\ IsInjective(queue')
          /\ \A j \in DOMAIN queue' : \E k \in DOMAIN queue \ {i} : queue'[j] = queue[k]
      BY <1>2, <2>1, QueueShorter, SMTT(30)
    <2>3. \A k \in DOMAIN queue \ {i} : queue[k] \in Callers \ {c}
      BY <1>2, <2>1 DEF IsInjective
    <2>4. ASSUME NEW j \in DOMAIN queue' PROVE call'[queue'[j]].at = "queued"
      <3>1. PICK k \in DOMAIN queue \ {i} : queue'[j] = queue[k]
        BY <2>2
      <3>2. QED
        BY <1>5, <2>1, <2>3, <3>1
    <2>5. QED
      BY <2>2, <2>4 DEF QueueOk
  <1>7. AccessOk'
    <2>1. \A d \in Callers : Open(d)' = Open(d)
      BY <1>1, <1>3, <1>5 DEF Open
    <2>2. Serving' \subseteq Serving \cup {c}
      BY <1>5 DEF Serving
    <2>3. engine = "mssql" => Serving = {}
      <3>1. Serving \subseteq Callers /\ IsFiniteSet(Callers)
        BY TransactionAssumption DEF Serving
      <3>2. IsFiniteSet(Serving) /\ Cardinality(Serving) \in Nat
        BY <3>1, FS_Subset, FS_CardinalityType
      <3>3. engine = "mssql" => Cardinality(Serving) < 1
        BY <1>1 DEF Admitted, Capacity
      <3>4. QED
        BY <3>2, <3>3, FS_EmptySet
    <2>4. QED
      BY <1>1, <2>1, <2>2, <2>3 DEF EInv, AccessOk
  <1>8. ASSUME NEW d \in Callers PROVE AskedOk(d)' /\ ViewOk(d)'
    <2>1. CASE d = c
      BY <1>1, <1>3, <1>5, <2>1, InvFacts DEF AskedOk, ViewOk
    <2>2. CASE d # c
      BY <1>1, <1>5, <2>2, InvFacts, OthersOk
    <2>3. QED
      BY <2>1, <2>2
  <1>9. \A d \in Callers : call'[d].mark <= Len(call'[d].log)
    <2> TAKE d \in Callers
    <2>1. call[d].mark \in 0..Len(call[d].log) /\ call[d].log \in Seq(Statements)
      BY InvFacts, Fields
    <2>2. call[d].mark <= Len(call[d].log)
      BY <2>1
    <2>3. QED
      BY <1>3, <1>5, <2>2
  <1>10. TypeOK'
    <2>1. /\ engine' \in {"postgres", "mssql", "mongodb"} /\ db' \in Collection
          /\ holder' \in Callers \cup {Nobody} /\ errors' \in 0..MaxErrors
      BY <1>1 DEF EInv, TypeOK
    <2>2. QED
      BY <1>5, <1>6, <1>9, <2>1, TypesFollow
  <1>11. QED
    BY <1>5, <1>6, <1>7, <1>8, <1>10 DEF EInv

-----------------------------------------------------------------------------
(* The steps of a served call. *)

\* A call that is answered.
LEMMA AnswerKeeps ==
    ASSUME EInv, NEW c \in Callers, call[c].at \notin {"idle", "queued"},
           NEW a \in {"ok", "error"}, Answer(c, a),
           UNCHANGED <<engine, queue>>, errors' \in 0..MaxErrors, db' \in Collection,
           holder = Nobody \/ holder = c \/ db' = db,
           holder' = IF holder = c THEN Nobody ELSE holder
    PROVE  EInv'
  <1> DEFINE r == [Idle EXCEPT !.answer = a]
  <1>1. r \in CallType /\ r.at = "idle" /\ r.mark = 0 /\ r.log = <<>>
    BY AnsweredTyped
  <1>2. call' = [call EXCEPT ![c] = r]
    BY DEF Answer
  <1> HIDE DEF r
  <1>3. r.mark <= Len(r.log)
    BY <1>1
  <1>4. QED
    BY <1>1, <1>2, <1>3, WorkKeeps

LEMMA FailKeeps ==
    ASSUME EInv, NEW c \in Callers, InBlock(c), Fail(c),
           UNCHANGED <<engine, db, holder, queue>>, errors' \in 0..MaxErrors
    PROVE  EInv'
  <1> DEFINE r == [call[c] EXCEPT !.at = "failed"]
  <1>1. r \in CallType /\ r.at = "failed" /\ r.mark = call[c].mark /\ r.log = call[c].log
    BY InvFacts, AtTyped
  <1>2. call' = [call EXCEPT ![c] = r]
    BY InvFacts DEF Fail
  <1> HIDE DEF r
  <1>3. r.mark <= Len(r.log)
    <2>1. call[c].mark \in 0..Len(call[c].log) /\ call[c].log \in Seq(Statements)
      BY InvFacts, Fields
    <2>2. QED
      BY <1>1, <2>1
  <1>4. call[c].at \in {"body", "savepoint"} /\ holder = c
    BY InvFacts DEF InBlock, Open
  <1>5. db' \in Collection
    BY InvFacts
  <1>6. QED
    BY <1>1, <1>2, <1>3, <1>4, <1>5, WorkKeeps

\* A savepoint that MongoDB absorbs: its compensations lead where it began.
LEMMA AbsorbKeeps ==
    ASSUME EInv, NEW c \in Callers, Absorbs(c), NEW dead \in BOOLEAN, NEW view,
           view = Compensated(call[c].view, call[c].undo), Absorb(c, view, dead),
           UNCHANGED <<engine, db, holder, queue>>, errors' \in 0..MaxErrors
    PROVE  EInv'
  <1> DEFINE log == SubSeq(call[c].log, 1, call[c].mark)
             r   == Absorbed(call[c], view, dead, log)
  <1>1. /\ call[c].log \in Seq(Statements) /\ call[c].view \in Collection
        /\ call[c].undo \in Seq(Compensations) /\ call[c].mark \in 0..Len(call[c].log)
    BY InvFacts, Fields
  <1>2. view \in Collection
    BY <1>1, CompensatedTyped
  <1>3. log \in Seq(Statements) /\ Len(log) = call[c].mark
    BY <1>1
  <1>4. call' = [call EXCEPT ![c] = r]
    BY InvFacts DEF Absorb, Absorbed
  <1>5. view = Replay(db, log)
    BY InvFacts DEF Absorbs, ViewOk
  <1> HIDE DEF log
  <1>6. r \in CallType /\ r.at = "body" /\ r.view = view /\ r.log = log /\ r.mark = call[c].mark
    <2>1. call[c] \in CallType
      BY InvFacts
    <2>2. QED
      BY <1>2, <1>3, <2>1, AbsorbedTyped
  <1> HIDE DEF r
  <1>7. r.mark <= Len(r.log)
    BY <1>1, <1>3, <1>6
  <1>8. call[c].at = "savepoint" /\ holder = c
    BY InvFacts DEF Absorbs, Open
  <1>9. db' \in Collection
    BY InvFacts
  <1>10. QED
    BY <1>4, <1>5, <1>6, <1>7, <1>8, <1>9, WorkKeeps

\* SQL Server serves one call at a time: none joins the transaction of another.
LEMMA NoneJoins ==
    ASSUME EInv, NEW c \in Callers, call[c].at = "served"
    PROVE  ~Joins
  <1>1. SUFFICES ASSUME engine = "mssql", holder # Nobody PROVE FALSE
    BY DEF Joins
  <1>2. holder \in Callers /\ Open(holder)
    BY <1>1 DEF EInv, TypeOK, AccessOk
  <1>3. holder \in Serving /\ c \in Serving
    BY <1>2 DEF Serving, Open
  <1>4. holder = c
    BY <1>1, <1>3 DEF EInv, AccessOk
  <1>5. QED
    BY <1>2, <1>4 DEF Open

\* A statement of its own is done, or leaves the database as it was.
LEMMA OneDone ==
    ASSUME EInv, NEW c \in Callers, One(c)
    PROVE  /\ call[c].at = "served" /\ holder = Nobody /\ holder' = Nobody
           /\ UNCHANGED <<engine, queue>> /\ errors' \in 0..MaxErrors /\ db' \in Collection
           /\ \/ Answer(c, "ok") /\ db' = Replay(db, call[c].log)
              \/ Answer(c, "error") /\ db' = db
  <1>1. /\ call[c].at = "served" /\ ~call[c].block /\ ~Joins
        /\ UNCHANGED <<engine, holder, queue>>
    BY NoneJoins DEF One
  <1>2. holder = Nobody
    BY <1>1 DEF One
  <1>3. /\ call[c].log \in Seq(Statements) /\ Len(call[c].log) = 1 /\ db \in Collection
        /\ errors \in 0..MaxErrors
    BY <1>1, InvFacts, Fields DEF AskedOk
  <1>4. call[c].log[1] \in Statements
    BY <1>3
  <1>5. /\ Replay(db, call[c].log) = Effect(db, call[c].log[1])
        /\ Replay(db, call[c].log) \in Collection
    BY <1>3, ReplayOne, ReplayTyped
  <1>6. \/ Answer(c, "ok") /\ db' = Effect(db, call[c].log[1]) /\ UNCHANGED errors
        \/ Answer(c, "error") /\ UNCHANGED <<db, errors>>
        \/ Error /\ Answer(c, "error") /\ UNCHANGED db
    BY <1>1 DEF One
  <1>7. Error => errors' \in 0..MaxErrors
    BY <1>3, TransactionAssumption DEF Error
  <1>8. QED
    BY <1>1, <1>2, <1>3, <1>5, <1>6, <1>7

LEMMA OneStep == ASSUME EInv, NEW c \in Callers, One(c) PROVE EInv'
  <1>1. c # Nobody
    BY InvFacts
  <1>2. QED
    BY <1>1, OneDone, AnswerKeeps

\* A block begins with the database as it is.
LEMMA BeginStep == ASSUME EInv, NEW c \in Callers, Begin(c) PROVE EInv'
  <1> DEFINE r == Begun(call[c], db)
  <1>1. /\ call[c].at = "served" /\ call[c].block /\ holder = Nobody /\ holder' = c
        /\ UNCHANGED <<engine, db, queue, errors>>
    BY DEF Begin
  <1>2. /\ call[c].log = <<>> /\ db \in Collection /\ call[c].mark \in 0..Len(call[c].log)
        /\ errors \in 0..MaxErrors
    BY <1>1, InvFacts DEF AskedOk
  <1>3. r \in CallType /\ r.at = "body" /\ r.view = db /\ r.log = <<>> /\ r.mark = call[c].mark
    BY <1>2, InvFacts, BegunTyped
  <1>4. call' = [call EXCEPT ![c] = r]
    BY InvFacts DEF Begin, Begun
  <1> HIDE DEF r
  <1>5. r.mark <= Len(r.log)
    BY <1>2, <1>3
  <1>6. r.view = Replay(db', r.log)
    BY <1>1, <1>2, <1>3, ReplayEmpty
  <1>7. QED
    BY <1>1, <1>2, <1>3, <1>4, <1>5, <1>6, WorkKeeps

\* A statement of a block: the view and the log go together, and its
\* compensation undoes it.
LEMMA StatementStep == ASSUME EInv, NEW c \in Callers, Statement(c) PROVE EInv'
  <1>1. PICK st \in Statements :
           /\ Item(c) /\ ~Clashes(call[c].view, st)
           /\ call' = [call EXCEPT ![c].view = Effect(@, st),
                            ![c].log = Append(@, st),
                            ![c].undo = IF engine = "mongodb" /\ call[c].at = "savepoint"
                                        THEN Append(@, Compensation(call[c].view, st)) ELSE @,
                            ![c].items = @ + 1]
           /\ UNCHANGED <<engine, db, holder, queue, errors>>
    BY DEF Statement
  <1>2. /\ call[c].log \in Seq(Statements) /\ call[c].view \in Collection
        /\ call[c].undo \in Seq(Compensations) /\ call[c].mark \in 0..Len(call[c].log)
        /\ call[c].items \in Nat /\ db \in Collection
    BY InvFacts, Fields
  <1> DEFINE view  == Effect(call[c].view, st)
             log   == Append(call[c].log, st)
             comp  == Compensation(call[c].view, st)
             undo  == IF engine = "mongodb" /\ call[c].at = "savepoint"
                      THEN Append(call[c].undo, comp) ELSE call[c].undo
             items == call[c].items + 1
             r     == Stated(call[c], view, log, undo, items)
  <1>3. comp \in Compensations /\ view \in Collection
    BY <1>2, CompensationTyped, EffectTyped
  <1>4. /\ log \in Seq(Statements) /\ Len(log) = Len(call[c].log) + 1
        /\ SubSeq(log, 1, call[c].mark) = SubSeq(call[c].log, 1, call[c].mark)
    BY <1>2
  <1>5. undo \in Seq(Compensations) /\ items \in Nat
    <2> HIDE DEF comp
    <2>1. QED
      BY <1>2, <1>3
  <1>6. call' = [call EXCEPT ![c] = r]
    BY <1>1, InvFacts DEF Stated
  <1>7. call[c].at \in {"body", "savepoint"} /\ holder = c
    BY <1>1, InvFacts DEF Item, InBlock, Open
  <1>8. view = Replay(db, log)
    <2>1. call[c].view = Replay(db, call[c].log)
      BY <1>7, InvFacts DEF ViewOk
    <2>2. QED
      BY <1>2, <2>1, ReplayAppend
  <1>9. engine = "mongodb" /\ call[c].at = "savepoint" =>
           Compensated(view, undo) = Replay(db, SubSeq(log, 1, call[c].mark))
    <2> SUFFICES ASSUME engine = "mongodb", call[c].at = "savepoint"
                 PROVE  Compensated(view, undo) = Replay(db, SubSeq(log, 1, call[c].mark))
      OBVIOUS
    <2>1. Compensated(call[c].view, call[c].undo)
            = Replay(db, SubSeq(call[c].log, 1, call[c].mark))
      BY InvFacts DEF ViewOk
    <2>2. Undone(view, comp) = call[c].view
      BY <1>1, <1>2, CompensationUndoes
    <2>3. undo = Append(call[c].undo, comp)
      OBVIOUS
    <2> HIDE DEF undo, comp, view, log
    <2>4. Compensated(view, undo) = Compensated(call[c].view, call[c].undo)
      BY <1>2, <1>3, <2>2, <2>3, CompensatedAppend
    <2>5. QED
      BY <1>4, <2>1, <2>4
  <1> HIDE DEF view, log, undo, items, comp
  <1>10. /\ r \in CallType /\ r.at = call[c].at /\ r.view = view /\ r.log = log
         /\ r.undo = undo /\ r.mark = call[c].mark
    <2>1. call[c] \in CallType
      BY InvFacts
    <2>2. QED
      BY <1>3, <1>4, <1>5, <2>1, StatedTyped
  <1> HIDE DEF r
  <1>11. r.mark <= Len(r.log)
    BY <1>2, <1>4, <1>10
  <1>12. errors' \in 0..MaxErrors
    BY <1>1, InvFacts
  <1>13. QED
    BY <1>1, <1>2, <1>6, <1>7, <1>8, <1>9, <1>10, <1>11, <1>12, WorkKeeps

\* A savepoint begins with nothing to undo.
LEMMA SavepointBeginStep == ASSUME EInv, NEW c \in Callers, SavepointBegin(c) PROVE EInv'
  <1> DEFINE mark  == Len(call[c].log)
             items == call[c].items + 1
             r == Marked(call[c], mark, items)
  <1>1. call[c].at = "body" /\ UNCHANGED <<engine, db, holder, queue, errors>>
    BY DEF SavepointBegin
  <1>2. /\ call[c].log \in Seq(Statements) /\ call[c].view \in Collection
        /\ call[c].items \in Nat /\ db \in Collection
    BY InvFacts, Fields
  <1>3. mark \in Nat /\ items \in Nat /\ SubSeq(call[c].log, 1, mark) = call[c].log
    BY <1>2
  <1>4. call' = [call EXCEPT ![c] = r]
    BY InvFacts DEF SavepointBegin, Marked
  <1>5. call[c].view = Replay(db, call[c].log) /\ holder = c
    BY <1>1, InvFacts DEF ViewOk, Open
  <1> HIDE DEF items
  <1>6. /\ r \in CallType /\ r.at = "savepoint" /\ r.view = call[c].view
        /\ r.log = call[c].log /\ r.undo = <<>> /\ r.mark = mark
    <2>1. call[c] \in CallType
      BY InvFacts, Zenon
    <2>2. mark \in Nat /\ items \in Nat
      BY <1>3
    <2>3. r = Marked(call[c], mark, items)
      OBVIOUS
    <2> HIDE DEF mark, r
    <2>4. <<>> \in Seq(Compensations)
      OBVIOUS
    <2>5. QED
      BY <2>1, <2>2, <2>3, <2>4 DEF CallType, Marked
  <1> HIDE DEF r
  <1>7. r.mark <= Len(r.log)
    BY <1>3, <1>6
  <1>8. Compensated(r.view, r.undo) = Replay(db', SubSeq(r.log, 1, r.mark))
    BY <1>1, <1>2, <1>3, <1>5, <1>6, CompensatedEmpty
  <1>9. errors' \in 0..MaxErrors
    BY <1>1, InvFacts
  <1>10. QED
    BY <1>1, <1>2, <1>4, <1>5, <1>6, <1>7, <1>8, <1>9, WorkKeeps

LEMMA SavepointEndStep == ASSUME EInv, NEW c \in Callers, SavepointEnd(c) PROVE EInv'
  <1> DEFINE r == Released(call[c])
  <1>1. call[c].at = "savepoint" /\ UNCHANGED <<engine, db, holder, queue, errors>>
    BY DEF SavepointEnd
  <1>2. /\ call[c].log \in Seq(Statements) /\ call[c].mark \in 0..Len(call[c].log)
        /\ db \in Collection /\ errors \in 0..MaxErrors
    BY InvFacts, Fields
  <1>3. call' = [call EXCEPT ![c] = r]
    BY InvFacts DEF SavepointEnd, Released
  <1>4. call[c].view = Replay(db, call[c].log) /\ holder = c
    BY <1>1, InvFacts DEF ViewOk, Open
  <1>5. /\ r \in CallType /\ r.at = "body" /\ r.view = call[c].view
        /\ r.log = call[c].log /\ r.mark = call[c].mark
    BY InvFacts, ReleasedTyped
  <1> HIDE DEF r
  <1>6. r.mark <= Len(r.log)
    BY <1>2, <1>5
  <1>7. QED
    BY <1>1, <1>2, <1>3, <1>4, <1>5, <1>6, WorkKeeps

\* Errors are counted.
LEMMA ErrorCounts == ASSUME EInv, Error PROVE errors' \in 0..MaxErrors /\ errors' # errors
  BY TransactionAssumption DEF EInv, TypeOK, Error

LEMMA FailureStep ==
    ASSUME EInv, NEW c \in Callers,
           StatementRefused(c) \/ StatementUnsent(c) \/ TransactionLost(c)
    PROVE  EInv'
  <1>1. /\ InBlock(c) /\ UNCHANGED <<engine, db, holder, queue>> /\ errors \in 0..MaxErrors
        /\ call[c].dead \in BOOLEAN /\ call[c].view \in Collection
    BY InvFacts, Fields DEF StatementRefused, StatementUnsent, TransactionLost
  <1>2. CASE StatementRefused(c)
    <2>1. CASE Absorbs(c) /\ call[c].undo = <<>>
      <3>1. Absorb(c, call[c].view, TRUE) /\ UNCHANGED errors
        BY <1>2, <2>1 DEF StatementRefused
      <3>2. call[c].view = Compensated(call[c].view, call[c].undo)
        BY <1>1, <2>1, CompensatedEmpty
      <3>3. QED
        BY <1>1, <2>1, <3>1, <3>2, AbsorbKeeps
    <2>2. CASE ~(Absorbs(c) /\ call[c].undo = <<>>)
      BY <1>1, <1>2, <2>2, FailKeeps DEF StatementRefused
    <2>3. QED
      BY <2>1, <2>2
  <1>3. CASE StatementUnsent(c)
    <2>1. errors' \in 0..MaxErrors
      BY <1>3, ErrorCounts DEF StatementUnsent
    <2>2. CASE Absorbs(c)
      BY <1>1, <1>3, <2>1, <2>2, AbsorbKeeps DEF StatementUnsent
    <2>3. CASE ~Absorbs(c)
      BY <1>1, <1>3, <2>1, <2>3, FailKeeps DEF StatementUnsent
    <2>4. QED
      BY <2>2, <2>3
  <1>4. CASE TransactionLost(c)
    <2>1. errors' \in 0..MaxErrors
      BY <1>1, <1>4, ErrorCounts DEF TransactionLost
    <2>2. QED
      BY <1>1, <1>4, <2>1, FailKeeps DEF TransactionLost
  <1>5. QED
    BY <1>2, <1>3, <1>4

\* How a block ends.
LEMMA BlockEnds ==
    ASSUME EInv, NEW c \in Callers, Commit(c) \/ CommitLost(c) \/ Rollback(c)
    PROVE  /\ call[c].at \in {"body", "failed"} /\ holder = c /\ holder' = Nobody
           /\ UNCHANGED <<engine, queue>> /\ errors' \in 0..MaxErrors /\ db' \in Collection
           /\ \/ Answer(c, "ok") /\ db' = Replay(db, call[c].log)
              \/ Answer(c, "error") /\ db' = db
              \/ Answer(c, "error") /\ errors' # errors /\ db' = Replay(db, call[c].log)
  <1>1. /\ db \in Collection /\ errors \in 0..MaxErrors /\ call[c].view \in Collection
        /\ holder = c <=> Open(c)
    BY InvFacts, Fields
  <1>2. CASE Commit(c) \/ CommitLost(c)
    <2>1. call[c].at = "body" /\ holder' = Nobody /\ UNCHANGED <<engine, queue>>
      BY <1>2 DEF Commit, CommitLost
    <2>2. call[c].view = Replay(db, call[c].log)
      BY <2>1, InvFacts DEF ViewOk
    <2>3. holder = c
      BY <1>1, <2>1 DEF Open
    <2>4. CASE Commit(c)
      BY <1>1, <2>1, <2>2, <2>3, <2>4 DEF Commit
    <2>5. CASE CommitLost(c)
      BY <1>1, <2>1, <2>2, <2>3, <2>5, ErrorCounts DEF CommitLost
    <2>6. QED
      BY <1>2, <2>4, <2>5
  <1>3. CASE Rollback(c)
    BY <1>1, <1>3 DEF Rollback
  <1>4. QED
    BY <1>2, <1>3

LEMMA EInvStep == EInv /\ [Next]_vars => EInv'
  <1> SUFFICES ASSUME EInv, [Next]_vars PROVE EInv'
    OBVIOUS
  <1>1. ASSUME NEW c \in Callers, Commit(c) \/ CommitLost(c) \/ Rollback(c) PROVE EInv'
    BY <1>1, BlockEnds, AnswerKeeps
  <1>2. ASSUME NEW c \in Callers, Work(c) PROVE EInv'
    BY <1>1, <1>2, OneStep, BeginStep, StatementStep, SavepointBeginStep, SavepointEndStep,
       FailureStep DEF Work
  <1>3. CASE UNCHANGED vars
    <2>1. UNCHANGED <<engine, db, holder, queue, call, errors>>
      BY <1>3 DEF vars
    <2>2. QED
      BY <2>1 DEF EInv, TypeOK, QueueOk, AccessOk, Open, Serving, AskedOk, ViewOk
  <1>4. QED
    BY <1>2, <1>3, CallStep, ServeStep DEF Next

LEMMA EInvAlways == Spec => []EInv
  BY EInvInit, EInvStep, PTL DEF Spec

\* The connection, its queue and its calls keep their types.
THEOREM TypeCorrect == Spec => []TypeOK
  <1>1. EInv => TypeOK
    BY DEF EInv
  <1>2. QED
    BY <1>1, EInvAlways, PTL

-----------------------------------------------------------------------------
(* What an answer says. *)

\* A step changes the record of one call, or adds to the view of the holder.
LEMMA AnswerSays ==
    ASSUME EInv, NEW c \in Callers, NEW a \in {"ok", "error"}, Answer(c, a),
           call[c].at \notin {"idle", "queued"}
    PROVE  /\ Answered(c) /\ call'[c].answer = a
           /\ \A d \in Callers \ {c} : ~Answered(d)
  <1>1. call'[c] = [Idle EXCEPT !.answer = a] /\ \A d \in Callers \ {c} : call'[d] = call[d]
    BY InvFacts DEF Answer
  <1>2. call'[c].at = "idle" /\ call'[c].answer = a
    BY <1>1, AnsweredTyped
  <1>3. QED
    BY <1>1, <1>2 DEF Answered

\* A step that ends no call leaves the database alone.
LEMMA SilentStep ==
    ASSUME EInv, NEW c \in Callers,
           \/ Call(c) \/ Serve(c) \/ Begin(c) \/ Statement(c) \/ SavepointBegin(c)
           \/ SavepointEnd(c) \/ StatementRefused(c) \/ StatementUnsent(c) \/ TransactionLost(c)
    PROVE  db' = db /\ \A d \in Callers : ~Answered(d)
  <1>1. ASSUME NEW r, call' = [call EXCEPT ![c] = r], call[c].at = "idle" \/ r.at # "idle"
        PROVE  \A d \in Callers : ~Answered(d)
    BY <1>1, InvFacts DEF Answered
  <1>2. CASE Call(c)
    <2>1. PICK r : call' = [call EXCEPT ![c] = r] /\ call[c].at = "idle"
      BY <1>2 DEF Call
    <2>2. QED
      BY <1>1, <1>2, <2>1 DEF Call
  <1>3. CASE Serve(c)
    BY <1>1, <1>3, InvFacts, AtTyped DEF Serve
  <1>4. CASE Begin(c)
    <2>1. [call[c] EXCEPT !.at = "body", !.view = db].at = "body"
      BY InvFacts DEF CallType
    <2>2. call' = [call EXCEPT ![c] = [call[c] EXCEPT !.at = "body", !.view = db]]
      BY <1>4, InvFacts DEF Begin
    <2>3. QED
      BY <1>1, <1>4, <2>1, <2>2 DEF Begin
  <1>5. ASSUME InBlock(c), call'[c].at \in {"body", "savepoint", "failed"},
               \A d \in Callers \ {c} : call'[d] = call[d]
        PROVE  \A d \in Callers : ~Answered(d)
    BY <1>5 DEF Answered
  <1>6. call \in [Callers -> CallType] /\ call[c] \in CallType
    BY InvFacts, Zenon
  <1>7. CASE Statement(c)
    <2>1. InBlock(c) /\ UNCHANGED db
      BY <1>7, Zenon DEF Statement, Item
    <2>2. call'[c].at = call[c].at /\ \A d \in Callers \ {c} : call'[d] = call[d]
      <3>1. PICK st \in Statements :
               call' = [call EXCEPT ![c].view = Effect(@, st),
                            ![c].log = Append(@, st),
                            ![c].undo = IF engine = "mongodb" /\ call[c].at = "savepoint"
                                        THEN Append(@, Compensation(call[c].view, st)) ELSE @,
                            ![c].items = @ + 1]
        BY <1>7, Zenon DEF Statement
      <3> DEFINE view  == Effect(call[c].view, st)
                 log   == Append(call[c].log, st)
                 undo  == IF engine = "mongodb" /\ call[c].at = "savepoint"
                          THEN Append(call[c].undo, Compensation(call[c].view, st))
                          ELSE call[c].undo
                 items == call[c].items + 1
                 r     == Stated(call[c], view, log, undo, items)
      <3>2. call' = [call EXCEPT ![c] = r]
        BY <1>6, <3>1 DEF Stated
      <3> HIDE DEF view, log, undo, items
      <3>3. r.at = call[c].at
        BY <1>6 DEF Stated, CallType
      <3> HIDE DEF r
      <3>4. QED
        BY <1>6, <3>2, <3>3
    <2>3. call'[c].at \in {"body", "savepoint", "failed"}
      BY <2>1, <2>2 DEF InBlock
    <2>4. QED
      BY <1>5, <2>1, <2>2, <2>3
  <1>8. CASE SavepointBegin(c) \/ SavepointEnd(c)
    <2>1. InBlock(c) /\ call'[c].at \in {"body", "savepoint"}
          /\ \A d \in Callers \ {c} : call'[d] = call[d]
      BY <1>6, <1>8 DEF SavepointBegin, SavepointEnd, InBlock, CallType
    <2>2. QED
      BY <1>5, <1>8, <2>1 DEF SavepointBegin, SavepointEnd
  <1>9. CASE StatementRefused(c) \/ StatementUnsent(c) \/ TransactionLost(c)
    <2>1. Fail(c) => call'[c].at = "failed" /\ \A d \in Callers \ {c} : call'[d] = call[d]
      BY <1>6 DEF Fail, CallType
    <2>2. ASSUME NEW view, NEW dead, Absorb(c, view, dead)
          PROVE  call'[c].at = "body" /\ \A d \in Callers \ {c} : call'[d] = call[d]
      BY <1>6, <2>2 DEF Absorb, CallType
    <2>3. InBlock(c) /\ UNCHANGED db
          /\ (Fail(c) \/ \E view, dead : Absorb(c, view, dead))
      BY <1>9 DEF StatementRefused, StatementUnsent, TransactionLost
    <2>4. QED
      BY <1>5, <2>1, <2>2, <2>3
  <1>10. QED
    BY <1>2, <1>3, <1>4, <1>7, <1>8, <1>9

\* A call answered well has done all its statements but those of savepoints that
\* failed, and a call refused none, unless the connection broke while it
\* committed; nothing else changes the database.
THEOREM AnswersAreHeld == Spec => AnswersHold
  <1> DEFINE Held(c) ==
        \/ call'[c].answer = "ok" /\ db' = Replay(db, call[c].log)
        \/ call'[c].answer = "error" /\ db' = db
        \/ call'[c].answer = "error" /\ errors' # errors /\ db' = Replay(db, call[c].log)
  <1>1. EInv /\ [Next]_vars =>
           [ /\ db' # db => \E c \in Callers : Answered(c)
             /\ \A c \in Callers : Answered(c) => Held(c) ]_vars
    <2> SUFFICES ASSUME EInv, Next
                 PROVE  /\ db' # db => \E c \in Callers : Answered(c)
                        /\ \A c \in Callers : Answered(c) => Held(c)
      OBVIOUS
    <2>1. PICK c \in Callers : Call(c) \/ Serve(c) \/ Work(c)
      BY DEF Next
    <2>2. ASSUME NEW a \in {"ok", "error"}, Answer(c, a),
                 call[c].at \notin {"idle", "queued"},
                 \/ a = "ok" /\ db' = Replay(db, call[c].log)
                 \/ a = "error" /\ db' = db
                 \/ a = "error" /\ errors' # errors /\ db' = Replay(db, call[c].log)
          PROVE  /\ db' # db => \E d \in Callers : Answered(d)
                 /\ \A d \in Callers : Answered(d) => Held(d)
      <3>1. /\ Answered(c) /\ call'[c].answer = a
            /\ \A d \in Callers \ {c} : ~Answered(d)
        BY <2>2, AnswerSays
      <3>2. Held(c)
        BY <2>2, <3>1
      <3>3. QED
        BY <3>1, <3>2
    <2>3. CASE One(c)
      <3>1. /\ call[c].at = "served"
            /\ \/ Answer(c, "ok") /\ db' = Replay(db, call[c].log)
               \/ Answer(c, "error") /\ db' = db
        BY <2>3, OneDone
      <3>2. QED
        BY <2>2, <3>1
    <2>4. CASE Commit(c) \/ CommitLost(c) \/ Rollback(c)
      <3>1. /\ call[c].at \in {"body", "failed"}
            /\ \/ Answer(c, "ok") /\ db' = Replay(db, call[c].log)
               \/ Answer(c, "error") /\ db' = db
               \/ Answer(c, "error") /\ errors' # errors /\ db' = Replay(db, call[c].log)
        BY <2>4, BlockEnds
      <3>2. QED
        BY <2>2, <3>1
    <2>5. CASE \/ Call(c) \/ Serve(c) \/ Begin(c) \/ Statement(c) \/ SavepointBegin(c)
               \/ SavepointEnd(c) \/ StatementRefused(c) \/ StatementUnsent(c)
               \/ TransactionLost(c)
      BY <2>5, SilentStep
    <2>6. QED
      BY <2>1, <2>3, <2>4, <2>5 DEF Work
  <1>2. QED
    BY <1>1, EInvAlways, PTL DEF Spec, AnswersHold

-----------------------------------------------------------------------------
(* MongoReferences.  Sequences of declarations and of tasks. *)

\* A sequence is its head and its tail.
LEMMA HeadAndTail ==
    ASSUME NEW S, NEW q \in Seq(S), q # <<>>
    PROVE  /\ Head(q) \in S /\ Tail(q) \in Seq(S) /\ Len(q) \in Nat /\ Len(Tail(q)) = Len(q) - 1
           /\ Range(q) = {Head(q)} \cup Range(Tail(q))
  <1>1. /\ Len(q) \in Nat \ {0} /\ Head(q) = q[1] /\ DOMAIN q = 1..Len(q)
        /\ Tail(q) \in Seq(S) /\ Len(Tail(q)) = Len(q) - 1 /\ DOMAIN Tail(q) = 1..(Len(q) - 1)
        /\ \A i \in 1..(Len(q) - 1) : Tail(q)[i] = q[i + 1]
    OBVIOUS
  <1>2. ASSUME NEW i \in 1..Len(q) PROVE q[i] = Head(q) \/ q[i] \in Range(Tail(q))
    <2>1. i = 1 \/ (i - 1 \in 1..(Len(q) - 1) /\ i - 1 + 1 = i)
      BY <1>1
    <2>2. QED
      BY <1>1, <2>1 DEF Range
  <1>3. ASSUME NEW i \in 1..(Len(q) - 1) PROVE Tail(q)[i] \in Range(q)
    <2>1. i + 1 \in 1..Len(q)
      BY <1>1
    <2>2. QED
      BY <1>1, <2>1 DEF Range
  <1>4. Head(q) \in S /\ Head(q) \in Range(q)
    BY <1>1 DEF Range
  <1>5. Range(q) \subseteq {Head(q)} \cup Range(Tail(q))
    BY <1>1, <1>2 DEF Range
  <1>6. Range(Tail(q)) \subseteq Range(q)
    BY <1>1, <1>3 DEF Range
  <1>7. QED
    BY <1>1, <1>4, <1>5, <1>6

\* What two sequences make together.
LEMMA Concatenated ==
    ASSUME NEW S, NEW p \in Seq(S), NEW q \in Seq(S)
    PROVE  /\ p \o q \in Seq(S) /\ Len(p \o q) = Len(p) + Len(q)
           /\ Range(p \o q) = Range(p) \cup Range(q)
  <1>1. /\ p \o q \in Seq(S) /\ Len(p \o q) = Len(p) + Len(q)
        /\ Len(p) \in Nat /\ Len(q) \in Nat
        /\ DOMAIN p = 1..Len(p) /\ DOMAIN q = 1..Len(q) /\ DOMAIN (p \o q) = 1..(Len(p) + Len(q))
        /\ \A i \in 1..(Len(p) + Len(q)) :
              (p \o q)[i] = IF i <= Len(p) THEN p[i] ELSE q[i - Len(p)]
    OBVIOUS
  <1>2. ASSUME NEW i \in 1..(Len(p) + Len(q)) PROVE (p \o q)[i] \in Range(p) \cup Range(q)
    <2>1. CASE i <= Len(p)
      BY <1>1, <2>1 DEF Range
    <2>2. CASE ~(i <= Len(p))
      <3>1. i - Len(p) \in 1..Len(q)
        BY <1>1, <2>2
      <3>2. QED
        BY <1>1, <2>2, <3>1 DEF Range
    <2>3. QED
      BY <2>1, <2>2
  <1>3. ASSUME NEW i \in 1..Len(p) PROVE p[i] \in Range(p \o q)
    BY <1>1 DEF Range
  <1>4. ASSUME NEW i \in 1..Len(q) PROVE q[i] \in Range(p \o q)
    <2>1. i + Len(p) \in 1..(Len(p) + Len(q)) /\ ~(i + Len(p) <= Len(p)) /\ i + Len(p) - Len(p) = i
      BY <1>1
    <2>2. (p \o q)[i + Len(p)] = q[i]
      BY <1>1, <2>1
    <2>3. QED
      BY <1>1, <2>1, <2>2 DEF Range
  <1>5. Range(p \o q) \subseteq Range(p) \cup Range(q)
    BY <1>1, <1>2 DEF Range
  <1>6. Range(p) \cup Range(q) \subseteq Range(p \o q)
    BY <1>1, <1>3, <1>4 DEF Range
  <1>7. QED
    BY <1>1, <1>5, <1>6

\* A sequence with one more element.
LEMMA Appended ==
    ASSUME NEW S, NEW q \in Seq(S), NEW x \in S
    PROVE  /\ Append(q, x) \in Seq(S) /\ Len(Append(q, x)) = Len(q) + 1 /\ Len(q) \in Nat
           /\ Range(Append(q, x)) = Range(q) \cup {x}
           /\ IsInjective(q) /\ x \notin Range(q) => IsInjective(Append(q, x))
  <1>1. /\ Append(q, x) \in Seq(S) /\ Len(Append(q, x)) = Len(q) + 1 /\ Len(q) \in Nat
        /\ DOMAIN q = 1..Len(q) /\ DOMAIN Append(q, x) = 1..(Len(q) + 1)
        /\ Append(q, x)[Len(q) + 1] = x
        /\ \A i \in 1..Len(q) : Append(q, x)[i] = q[i]
    OBVIOUS
  <1>2. \A i \in 1..(Len(q) + 1) : i \in 1..Len(q) \/ i = Len(q) + 1
    BY <1>1
  <1>3. 1..Len(q) \subseteq 1..(Len(q) + 1) /\ Len(q) + 1 \in 1..(Len(q) + 1)
    BY <1>1
  <1>4. Range(Append(q, x)) \subseteq Range(q) \cup {x}
    BY <1>1, <1>2 DEF Range
  <1>5. Range(q) \cup {x} \subseteq Range(Append(q, x))
    BY <1>1, <1>3 DEF Range
  <1>6. ASSUME IsInjective(q), x \notin Range(q) PROVE IsInjective(Append(q, x))
    <2>1. SUFFICES ASSUME NEW i \in 1..(Len(q) + 1), NEW j \in 1..(Len(q) + 1),
                          Append(q, x)[i] = Append(q, x)[j]
                   PROVE  i = j
      BY <1>1 DEF IsInjective
    <2>2. QED
      BY <1>1, <1>2, <1>6, <2>1 DEF IsInjective, Range
  <1>7. QED
    BY <1>1, <1>4, <1>5, <1>6

\* The declarations kept, one after another.
LEMMA KeptWalk ==
    ASSUME refs \in Seq(Refs), NEW S
    PROVE  /\ FK!KeptAmong(S)[0] = <<>>
           /\ \A k \in 1..Len(refs) :
                 FK!KeptAmong(S)[k] = IF refs[k] \in S THEN Append(FK!KeptAmong(S)[k - 1], refs[k])
                                      ELSE FK!KeptAmong(S)[k - 1]
           /\ \A k \in 0..Len(refs) : FK!KeptAmong(S)[k] \in Seq(Refs)
  <1> DEFINE n == Len(refs)
             F == [k \in 1..n |-> [q \in Seq(Refs) |-> IF refs[k] \in S THEN Append(q, refs[k]) ELSE q]]
             Is(f) == f = [k \in 0..n |->
                             IF k = 0 THEN <<>>
                             ELSE IF refs[k] \in S THEN Append(f[k - 1], refs[k]) ELSE f[k - 1]]
  <1>1. n \in Nat /\ \A k \in 1..n : refs[k] \in Refs
    OBVIOUS
  <1>2. F \in [1..n -> [Seq(Refs) -> Seq(Refs)]]
    <2>1. ASSUME NEW k \in 1..n, NEW q \in Seq(Refs) PROVE Append(q, refs[k]) \in Seq(Refs)
      BY <1>1
    <2>2. QED
      BY <2>1
  <1>3. PICK t : t \in Walks(n, Seq(Refs), <<>>, F)
    <2>1. n \in Nat /\ <<>> \in Seq(Refs)
      BY <1>1
    <2> HIDE DEF F, n
    <2>2. QED
      BY <1>2, <2>1, WalkExists
  <1>4. /\ t \in [0..n -> Seq(Refs)]
        /\ t[0] = <<>> /\ \A k \in 1..n : t[k] = F[k][t[k - 1]]
    BY <1>3 DEF Walks
  <1>5. \A k \in 1..n : t[k] = IF refs[k] \in S THEN Append(t[k - 1], refs[k]) ELSE t[k - 1]
    <2> TAKE k \in 1..n
    <2>1. k - 1 \in 0..n
      BY <1>1
    <2>2. t[k - 1] \in Seq(Refs)
      BY <1>4, <2>1
    <2>3. QED
      BY <1>4, <2>2
  <1> HIDE DEF F
  <1>6. Is(t)
    <2>1. \A k \in 0..n : k = 0 \/ k \in 1..n
      BY <1>1
    <2>2. \A k \in 0..n : t[k] = IF k = 0 THEN <<>>
                               ELSE IF refs[k] \in S THEN Append(t[k - 1], refs[k]) ELSE t[k - 1]
      BY <1>4, <1>5, <2>1
    <2>3. t = [k \in 0..n |-> t[k]]
      BY <1>4
    <2>4. QED
      BY <2>2, <2>3
  <1>7. FK!KeptAmong(S) = CHOOSE f : Is(f)
    BY DEF FK!KeptAmong
  <1>8. Is(FK!KeptAmong(S))
    BY <1>6, <1>7
  <1> DEFINE g == FK!KeptAmong(S)
  <1>9. g = [k \in 0..n |-> IF k = 0 THEN <<>>
                            ELSE IF refs[k] \in S THEN Append(g[k - 1], refs[k]) ELSE g[k - 1]]
    BY <1>8
  <1> HIDE DEF g
  <1>10. g[0] = <<>> /\ \A k \in 1..n : g[k] = IF refs[k] \in S THEN Append(g[k - 1], refs[k]) ELSE g[k - 1]
    <2>1. 0 \in 0..n /\ \A k \in 1..n : k \in 0..n /\ k # 0
      BY <1>1
    <2>2. QED
      BY <1>9, <2>1, Zenon
  <1>11. \A k \in 0..n : g[k] = t[k]
    <2>1. Alike(n, g, t)
      BY <1>4, <1>5, <1>10 DEF Alike
    <2>2. QED
      BY <1>1, <2>1, SameWalk DEF Same
  <1>12. \A k \in 0..n : g[k] \in Seq(Refs)
    BY <1>4, <1>11
  <1>13. QED
    BY <1>10, <1>12 DEF g

\* What Kept returns: the declared constraints in S, each as often as before.
LEMMA KeptSequence ==
    ASSUME refs \in Seq(Refs), NEW S
    PROVE  /\ FK!Kept(S) \in Seq(Refs) /\ Len(FK!Kept(S)) <= Len(refs)
           /\ Range(FK!Kept(S)) = FK!Declared \cap S
           /\ IsInjective(refs) => IsInjective(FK!Kept(S))
  <1> DEFINE n == Len(refs)
             Part(k) == { refs[i] : i \in 1..k } \cap S
             IsKept(k, q) == /\ q \in Seq(Refs) /\ Len(q) <= k /\ Range(q) = Part(k)
                             /\ IsInjective(refs) => IsInjective(q)
  <1> SUFFICES ASSUME NEW g, g = FK!KeptAmong(S) PROVE IsKept(n, g[n])
    BY DEF FK!Kept, FK!Declared
  <1>1. /\ n \in Nat /\ DOMAIN refs = 1..n /\ \A k \in 1..n : refs[k] \in Refs
    OBVIOUS
  <1>2. /\ g[0] = <<>>
        /\ \A k \in 1..n : g[k] = IF refs[k] \in S THEN Append(g[k - 1], refs[k]) ELSE g[k - 1]
    BY KeptWalk
  <1> DEFINE T == { k \in Nat : k <= n => IsKept(k, g[k]) }
  <1>3. 0 \in T
    <2>1. /\ g[0] \in Seq(Refs) /\ Len(g[0]) = 0 /\ Range(g[0]) = {}
          /\ IsInjective(g[0])
      <3>1. <<>> \in Seq(Refs) /\ Len(<<>>) = 0 /\ Range(<<>>) = {} /\ IsInjective(<<>>)
        BY DEF Range, IsInjective
      <3>2. QED
        BY <1>2, <3>1, Zenon
    <2>2. Part(0) = {}
      OBVIOUS
    <2> HIDE DEF Part
    <2>3. Len(g[0]) <= 0
      BY <2>1
    <2>4. IsKept(0, g[0])
      BY <2>1, <2>2, <2>3, Zenon
    <2> HIDE DEF IsKept
    <2>5. QED
      BY <2>4
  <1>4. ASSUME NEW k \in Nat, k \in T PROVE k + 1 \in T
    <2>1. SUFFICES ASSUME k + 1 <= n PROVE IsKept(k + 1, g[k + 1])
      OBVIOUS
    <2>2. /\ k + 1 \in 1..n /\ (k + 1) - 1 = k /\ IsKept(k, g[k])
          /\ g[k + 1] = IF refs[k + 1] \in S THEN Append(g[k], refs[k + 1]) ELSE g[k]
      BY <1>2, <1>4, <2>1
    <2>3. Part(k + 1) = Part(k) \cup ({refs[k + 1]} \cap S)
      <3>1. 1..(k + 1) = 1..k \cup {k + 1}
        OBVIOUS
      <3>2. QED
        BY <3>1
    <2>4. IsInjective(refs) => refs[k + 1] \notin Part(k)
      <3>1. \A i \in 1..k : i \in 1..n /\ i # k + 1
        BY <1>1, <2>2
      <3>2. QED
        BY <1>1, <2>2, <3>1 DEF IsInjective
    <2> HIDE DEF Part
    <2>5. CASE refs[k + 1] \in S
      <3>1. g[k + 1] = Append(g[k], refs[k + 1]) /\ refs[k + 1] \in Refs /\ g[k] \in Seq(Refs)
        BY <1>1, <2>2, <2>5
      <3>2. /\ Append(g[k], refs[k + 1]) \in Seq(Refs)
            /\ Len(Append(g[k], refs[k + 1])) = Len(g[k]) + 1 /\ Len(g[k]) \in Nat
            /\ Range(Append(g[k], refs[k + 1])) = Range(g[k]) \cup {refs[k + 1]}
            /\ (IsInjective(g[k]) /\ refs[k + 1] \notin Range(g[k])
                  => IsInjective(Append(g[k], refs[k + 1])))
        BY <3>1, Appended
      <3>3. Range(g[k + 1]) = Part(k + 1)
        BY <2>2, <2>3, <2>5, <3>1, <3>2
      <3>4. Len(g[k + 1]) <= k + 1
        <4>1. Len(g[k]) <= k
          BY <2>2
        <4>2. QED
          BY <3>1, <3>2, <4>1
      <3>5. IsInjective(refs) => IsInjective(g[k + 1])
        BY <2>2, <2>4, <3>1, <3>2
      <3>6. QED
        BY <3>1, <3>2, <3>3, <3>4, <3>5
    <2>6. CASE refs[k + 1] \notin S
      <3>1. g[k + 1] = g[k] /\ Part(k + 1) = Part(k)
        BY <2>2, <2>3, <2>6
      <3>2. g[k] \in Seq(Refs) /\ Len(g[k]) \in Nat /\ Len(g[k]) <= k
        BY <2>2
      <3>3. Len(g[k]) <= k + 1
        BY <3>2
      <3>4. QED
        BY <2>2, <3>1, <3>2, <3>3
    <2>7. QED
      BY <2>5, <2>6
  <1> HIDE DEF T, IsKept
  <1>5. n \in T
    BY <1>1, <1>3, <1>4, Inductive
  <1>6. QED
    BY <1>5 DEF T

\* Databases, tasks of a cascade, and what it has in hand.
Stores == { s \in UNION { [D -> [Refs -> Nodes \cup {None}]] : D \in SUBSET Nodes } : FK!IsStore(s) }

Task == [ref : Refs \cup {None}, docs : SUBSET Nodes]

Hand == [ok : BOOLEAN, view : Stores, visited : SUBSET Nodes, todo : Seq(Task)]

\* A function from documents to rows of theirs is a database.
LEMMA InStores ==
    ASSUME NEW s, DOMAIN s \subseteq Nodes, s = [n \in DOMAIN s |-> s[n]],
           \A n \in DOMAIN s : s[n] \in FK!Row(n)
    PROVE  s \in Stores
  <1>1. \A n \in DOMAIN s : s[n] \in [Refs -> Nodes \cup {None}]
    BY DEF FK!Row
  <1>2. s \in [DOMAIN s -> [Refs -> Nodes \cup {None}]]
    BY <1>1
  <1>3. FK!IsStore(s)
    BY DEF FK!IsStore
  <1>4. QED
    BY <1>2, <1>3 DEF Stores

\* What the rows of a database are.
LEMMA OfStores ==
    ASSUME NEW s \in Stores
    PROVE  /\ DOMAIN s \subseteq Nodes /\ s = [n \in DOMAIN s |-> s[n]] /\ FK!IsStore(s)
           /\ \A n \in DOMAIN s : s[n] \in FK!Row(n) /\ s[n] \in [Refs -> Nodes \cup {None}]
           /\ \A n \in DOMAIN s, r \in Refs :
                 \/ s[n][r] = None
                 \/ From[r] = CollOf[n] /\ s[n][r] \in Nodes /\ CollOf[s[n][r]] = To[r]
  <1>1. FK!IsStore(s) /\ \E D \in SUBSET Nodes : s \in [D -> [Refs -> Nodes \cup {None}]]
    BY DEF Stores
  <1>2. DOMAIN s \subseteq Nodes /\ \A n \in DOMAIN s : s[n] \in FK!Row(n)
    BY <1>1 DEF FK!IsStore
  <1>3. s = [n \in DOMAIN s |-> s[n]]
    BY <1>1
  <1>4. \A n \in DOMAIN s : s[n] \in [Refs -> Nodes \cup {None}]
    BY <1>2 DEF FK!Row
  <1>5. \A n \in DOMAIN s, r \in Refs :
           \/ s[n][r] = None
           \/ From[r] = CollOf[n] /\ s[n][r] \in Nodes /\ CollOf[s[n][r]] = To[r]
    BY <1>2 DEF FK!Row, FK!Columns, FK!NodesOf
  <1>6. QED
    BY <1>1, <1>2, <1>3, <1>4, <1>5

\* A database without some documents.
LEMMA WithoutSome ==
    ASSUME NEW s \in Stores, NEW gone
    PROVE  /\ FK!Without(s, gone) \in Stores
           /\ DOMAIN FK!Without(s, gone) = DOMAIN s \ gone
           /\ \A n \in DOMAIN s \ gone : FK!Without(s, gone)[n] = s[n]
  <1> SUFFICES ASSUME NEW t, t = [n \in DOMAIN s \ gone |-> s[n]]
               PROVE  t \in Stores /\ DOMAIN t = DOMAIN s \ gone /\ \A n \in DOMAIN s \ gone : t[n] = s[n]
    <2>1. FK!Without(s, gone) = [n \in DOMAIN s \ gone |-> s[n]]
      BY DEF FK!Without, FK!Restrict
    <2>2. QED
      BY <2>1
  <1>1. DOMAIN t = DOMAIN s \ gone /\ (\A n \in DOMAIN s \ gone : t[n] = s[n])
    OBVIOUS
  <1>2. DOMAIN t \subseteq Nodes /\ \A n \in DOMAIN t : t[n] \in FK!Row(n)
    BY <1>1, OfStores
  <1>3. t = [n \in DOMAIN t |-> t[n]]
    BY <1>1
  <1>4. QED
    BY <1>1, <1>2, <1>3, InStores

Nulled(s, r, docs) == [n \in DOMAIN s |-> IF n \in docs THEN [s[n] EXCEPT ![r] = None] ELSE s[n]]

\* A database with a column of some documents set to null.
LEMMA NulledSome ==
    ASSUME NEW s \in Stores, NEW r \in Refs, NEW docs
    PROVE  /\ Nulled(s, r, docs) \in Stores /\ DOMAIN Nulled(s, r, docs) = DOMAIN s
           /\ \A n \in DOMAIN s, i \in Refs :
                 Nulled(s, r, docs)[n][i] = IF n \in docs /\ i = r THEN None ELSE s[n][i]
  <1> SUFFICES ASSUME NEW t,
                      t = [n \in DOMAIN s |-> IF n \in docs THEN [s[n] EXCEPT ![r] = None] ELSE s[n]]
               PROVE  /\ t \in Stores /\ DOMAIN t = DOMAIN s
                      /\ \A n \in DOMAIN s, i \in Refs :
                            t[n][i] = IF n \in docs /\ i = r THEN None ELSE s[n][i]
    BY DEF Nulled
  <1>1. /\ DOMAIN s \subseteq Nodes
        /\ \A n \in DOMAIN s : s[n] \in FK!Row(n) /\ s[n] \in [Refs -> Nodes \cup {None}]
    BY OfStores
  <1>2. DOMAIN t = DOMAIN s /\ t = [n \in DOMAIN t |-> t[n]]
    OBVIOUS
  <1>3. ASSUME NEW n \in DOMAIN s
        PROVE  /\ t[n] \in FK!Row(n)
               /\ \A i \in Refs : t[n][i] = IF n \in docs /\ i = r THEN None ELSE s[n][i]
    <2>1. CASE n \notin docs
      <3>1. t[n] = s[n]
        BY <2>1
      <3>2. QED
        BY <1>1, <2>1, <3>1
    <2>2. CASE n \in docs
      <3>1. t[n] = [s[n] EXCEPT ![r] = None]
        BY <2>2
      <3>2. /\ t[n] \in [Refs -> Nodes \cup {None}]
            /\ \A i \in Refs : t[n][i] = IF i = r THEN None ELSE s[n][i]
        BY <1>1, <3>1
      <3>3. QED
        BY <1>1, <2>2, <3>2 DEF FK!Row
    <2>3. QED
      BY <2>1, <2>2
  <1>4. t \in Stores
    BY <1>1, <1>2, <1>3, InStores
  <1>5. QED
    BY <1>2, <1>3, <1>4

TasksFor(docs, tasks) ==
    /\ \A t \in tasks : t.docs = docs /\ t.ref \in FK!Declared \cup {None}
    /\ \E t \in tasks : t.docs = docs /\ t.ref = None
    /\ \A r \in FK!Declared : (\E n \in docs : To[r] = CollOf[n]) =>
          \E t \in tasks : t.docs = docs /\ t.ref = r

\* The tasks about some documents: one for each constraint towards them that is
\* declared, and one to remove them.
LEMMA TasksAbout ==
    ASSUME refs \in Seq(Refs), None \notin Refs, NEW docs \in SUBSET Nodes
    PROVE  /\ FK!Tasks(docs) \in Seq(Task) /\ Len(FK!Tasks(docs)) \in Nat
           /\ Len(FK!Tasks(docs)) <= Len(refs) + 1
           /\ TasksFor(docs, Range(FK!Tasks(docs)))
  <1> DEFINE S == { r \in Refs : \E n \in docs : To[r] = CollOf[n] }
  <1>1. PICK in : in = FK!Kept(S)
    OBVIOUS
  <1>2. in \in Seq(Refs) /\ Len(in) <= Len(refs) /\ Range(in) = FK!Declared \cap S
    BY <1>1, KeptSequence
  <1>3. Len(in) \in Nat /\ Len(refs) \in Nat /\ DOMAIN in = 1..Len(in) /\ \A i \in 1..Len(in) : in[i] \in Refs
    BY <1>2
  <1> SUFFICES ASSUME NEW t, t = [i \in 1..(Len(in) + 1) |->
                                    [ref |-> IF i <= Len(in) THEN in[i] ELSE None, docs |-> docs]]
               PROVE  /\ t \in Seq(Task) /\ Len(t) \in Nat /\ Len(t) <= Len(refs) + 1
                      /\ TasksFor(docs, Range(t))
    <2>1. FK!Tasks(docs) = [i \in 1..(Len(in) + 1) |->
                              [ref |-> IF i <= Len(in) THEN in[i] ELSE None, docs |-> docs]]
      BY <1>1 DEF FK!Tasks
    <2>2. QED
      BY <2>1, Zenon
  <1>4. FK!Declared \subseteq Refs
    BY DEF FK!Declared
  <1>5. ASSUME NEW i \in 1..Len(in)
        PROVE  i \in DOMAIN t /\ t[i] = [ref |-> in[i], docs |-> docs]
    BY <1>3
  <1>6. Len(in) + 1 \in DOMAIN t /\ t[Len(in) + 1] = [ref |-> None, docs |-> docs]
    BY <1>3
  <1>7. ASSUME NEW i \in DOMAIN t
        PROVE  t[i].docs = docs /\ t[i] \in Task /\ (t[i].ref = None \/ t[i].ref \in Range(in))
    <2>1. i \in 1..Len(in) \/ i = Len(in) + 1
      BY <1>3
    <2>2. i \in 1..Len(in) => in[i] \in Range(in) /\ in[i] \in Refs
      BY <1>3 DEF Range
    <2>3. QED
      BY <1>5, <1>6, <2>1, <2>2 DEF Task
  <1>8. t \in Seq(Task) /\ Len(t) = Len(in) + 1
    <2>1. \A i \in 1..(Len(in) + 1) : t[i] \in Task
      BY <1>7
    <2>2. PICK n \in Nat : n = Len(in) + 1
      BY <1>3
    <2>3. t \in [1..n -> Task]
      BY <2>1, <2>2
    <2>4. t \in Seq(Task) /\ Len(t) = n
      BY <2>3
    <2>5. QED
      BY <2>2, <2>4
  <1>9. \A r \in FK!Declared : (\E n \in docs : To[r] = CollOf[n]) =>
           \E x \in Range(t) : x.docs = docs /\ x.ref = r
    <2> TAKE r \in FK!Declared
    <2> HAVE \E n \in docs : To[r] = CollOf[n]
    <2>1. r \in Range(in)
      BY <1>2, <1>4
    <2>2. PICK i \in 1..Len(in) : in[i] = r
      BY <1>3, <2>1 DEF Range
    <2>3. t[i] \in Range(t) /\ t[i].docs = docs /\ t[i].ref = r
      BY <1>5, <2>2 DEF Range
    <2>4. QED
      BY <2>3
  <1>10. t[Len(in) + 1] \in Range(t) /\ t[Len(in) + 1].docs = docs /\ t[Len(in) + 1].ref = None
    BY <1>6 DEF Range
  <1>11. \A x \in Range(t) : x.docs = docs /\ x.ref \in FK!Declared \cup {None}
    BY <1>2, <1>7 DEF Range
  <1>12. Len(t) \in Nat /\ Len(t) <= Len(refs) + 1
    BY <1>2, <1>3, <1>8
  <1>13. QED
    BY <1>8, <1>9, <1>10, <1>11, <1>12 DEF TasksFor

\* No, as a value of a field.
No == FALSE

Made(ok, view, visited, todo) == [ok |-> ok, view |-> view, visited |-> visited, todo |-> todo]

\* What becomes of a cascade `m' that has a task `t' on top, which has children
\* `k' of which `f' are new.
Stepped(m, t, k, f) ==
    IF t.ref = None THEN Made(m.ok, FK!Without(m.view, t.docs), m.visited, Tail(m.todo))
    ELSE IF rule[t.ref] = "restrict"
         THEN IF k = {} THEN Made(m.ok, m.view, m.visited, Tail(m.todo))
              ELSE Made(No, m.view, m.visited, <<>>)
    ELSE IF rule[t.ref] = "set-null"
         THEN Made(m.ok, Nulled(m.view, t.ref, k), m.visited, Tail(m.todo))
    ELSE IF f = {} THEN Made(m.ok, m.view, m.visited, Tail(m.todo))
    ELSE Made(m.ok, m.view, m.visited \cup f, FK!Tasks(f) \o Tail(m.todo))

\* The fields of what a cascade has in hand.
LEMMA HandFields ==
    ASSUME NEW m \in Hand
    PROVE  /\ m.ok \in BOOLEAN /\ m.view \in Stores /\ m.visited \in SUBSET Nodes /\ m.todo \in Seq(Task)
           /\ m = Made(m.ok, m.view, m.visited, m.todo)
  BY DEF Hand, Made

\* What Made makes.
LEMMA MadeHand ==
    ASSUME NEW ok \in BOOLEAN, NEW view \in Stores, NEW visited \in SUBSET Nodes, NEW todo \in Seq(Task)
    PROVE  /\ Made(ok, view, visited, todo) \in Hand
           /\ Made(ok, view, visited, todo).ok = ok
           /\ Made(ok, view, visited, todo).view = view
           /\ Made(ok, view, visited, todo).visited = visited
           /\ Made(ok, view, visited, todo).todo = todo
  BY DEF Hand, Made

Viewing(r, view) == [r EXCEPT !.view = view]

Refusing(r) == [r EXCEPT !.ok = No, !.todo = <<>>]

Visiting(r, visited, todo) == [r EXCEPT !.visited = visited, !.todo = todo]

\* The same, with some fields changed.
LEMMA MadeExcept ==
    ASSUME NEW r, NEW ok, NEW view, NEW visited, NEW todo, r = Made(ok, view, visited, todo)
    PROVE  /\ \A x : Viewing(r, x) = Made(ok, x, visited, todo)
           /\ Refusing(r) = Made(No, view, visited, <<>>)
           /\ \A x, y : Visiting(r, x, y) = Made(ok, view, x, y)
  <1> SUFFICES ASSUME NEW x, NEW y
               PROVE  /\ Viewing(r, x) = Made(ok, x, visited, todo)
                      /\ Refusing(r) = Made(No, view, visited, <<>>)
                      /\ Visiting(r, x, y) = Made(ok, view, x, y)
    OBVIOUS
  <1>1. Viewing(r, x) \in [ok : {ok}, view : {x}, visited : {visited}, todo : {todo}]
    BY DEF Made, Viewing
  <1>2. \A p : p = Refusing(r) => p \in [ok : {No}, view : {view}, visited : {visited}, todo : {<<>>}]
    BY DEF Made, Refusing
  <1>3. \A p : p = Visiting(r, x, y) => p \in [ok : {ok}, view : {view}, visited : {x}, todo : {y}]
    BY DEF Made, Visiting
  <1>4. ASSUME NEW a, NEW b, NEW c, NEW d, NEW p \in [ok : {a}, view : {b}, visited : {c}, todo : {d}]
        PROVE  p = Made(a, b, c, d)
    BY DEF Made
  <1>5. QED
    BY <1>1, <1>2, <1>3, <1>4, ZenonT(40)

\* A step of a cascade is one of those.
LEMMA StepIs ==
    ASSUME rule \in [Refs -> FK!Rules], NEW m \in Hand, m.todo # <<>>, NEW t, t = Head(m.todo)
    PROVE  FK!CascadeStep(m) =
              Stepped(m, t, FK!Children(m.view, t.ref, t.docs), FK!Children(m.view, t.ref, t.docs) \ m.visited)
  <1> DEFINE rest == [m EXCEPT !.todo = Tail(@)]
             k == FK!Children(m.view, t.ref, t.docs)
             f == k \ m.visited
  <1>1. t \in Task
    BY HandFields, HeadAndTail
  <1>2. t.ref = None \/ t.ref \in Refs
    BY <1>1 DEF Task
  <1>3. rest = Made(m.ok, m.view, m.visited, Tail(m.todo))
    BY DEF Hand, Made
  <1>4. FK!CascadeStep(m) = IF t.ref = None THEN [rest EXCEPT !.view = FK!Without(@, t.docs)]
                            ELSE FK!Applied(rest, t.ref, t.docs)
    BY DEF FK!CascadeStep
  <1> HIDE DEF rest
  <1>8. /\ \A x : Viewing(rest, x) = Made(m.ok, x, m.visited, Tail(m.todo))
        /\ Refusing(rest) = Made(No, m.view, m.visited, <<>>)
        /\ \A x, y : Visiting(rest, x, y) = Made(m.ok, m.view, x, y)
    BY <1>3, MadeExcept
  <1>5. CASE t.ref = None
    <2>1. [rest EXCEPT !.view = FK!Without(@, t.docs)]
             = Made(m.ok, FK!Without(m.view, t.docs), m.visited, Tail(m.todo))
      <3>1. rest.view = m.view
        BY <1>3 DEF Made
      <3>2. [rest EXCEPT !.view = FK!Without(@, t.docs)] = Viewing(rest, FK!Without(m.view, t.docs))
        BY <3>1 DEF Viewing
      <3>3. QED
        BY <1>8, <3>2, Zenon
    <2>2. QED
      BY <1>4, <1>5, <2>1 DEF Stepped
  <1>6. CASE t.ref # None
    <2>1. rule[t.ref] \in {"restrict", "cascade", "set-null"}
      BY <1>2, <1>6 DEF FK!Rules
    <2>2. /\ rest.view = m.view /\ rest.visited = m.visited /\ rest.todo = Tail(m.todo)
          /\ k = FK!Children(rest.view, t.ref, t.docs)
      BY <1>3 DEF Made
    <2>3. FK!CascadeStep(m) = FK!Applied(rest, t.ref, t.docs)
      BY <1>4, <1>6
    <2> HIDE DEF k
    <2>4. CASE rule[t.ref] = "restrict"
      <3>1. FK!Applied(rest, t.ref, t.docs) = IF k = {} THEN rest ELSE Refusing(rest)
        BY <2>2, <2>4 DEF FK!Applied, Refusing, No
      <3>2. Refusing(rest) = Made(No, m.view, m.visited, <<>>)
        BY <1>8
      <3>3. QED
        BY <1>3, <1>6, <2>3, <2>4, <3>1, <3>2 DEF Stepped, k
    <2>5. CASE rule[t.ref] = "set-null"
      <3>1. FK!Applied(rest, t.ref, t.docs) = Viewing(rest, Nulled(m.view, t.ref, k))
        BY <2>2, <2>5 DEF FK!Applied, Nulled, Viewing
      <3>2. Viewing(rest, Nulled(m.view, t.ref, k))
               = Made(m.ok, Nulled(m.view, t.ref, k), m.visited, Tail(m.todo))
        BY <1>8
      <3>3. QED
        BY <1>6, <2>3, <2>5, <3>1, <3>2 DEF Stepped, k
    <2>6. CASE rule[t.ref] = "cascade"
      <3>1. FK!Applied(rest, t.ref, t.docs) =
               IF f = {} THEN rest ELSE Visiting(rest, m.visited \cup f, FK!Tasks(f) \o Tail(m.todo))
        BY <2>2, <2>6 DEF FK!Applied, Visiting
      <3>2. Visiting(rest, m.visited \cup f, FK!Tasks(f) \o Tail(m.todo))
               = Made(m.ok, m.view, m.visited \cup f, FK!Tasks(f) \o Tail(m.todo))
        BY <1>8
      <3>3. QED
        BY <1>3, <1>6, <2>3, <2>6, <3>1, <3>2 DEF Stepped, k
    <2>7. QED
      BY <2>1, <2>4, <2>5, <2>6
  <1>7. QED
    BY <1>5, <1>6

\* Children are documents of the view that refer to a removed key.
LEMMA ChildrenAre ==
    ASSUME NEW s \in Stores, NEW r, NEW docs
    PROVE  /\ FK!Children(s, r, docs) \subseteq DOMAIN s /\ FK!Children(s, r, docs) \in SUBSET Nodes
           /\ \A n \in DOMAIN s : n \in FK!Children(s, r, docs)
                                    <=> CollOf[n] = From[r] /\ s[n][r] \in docs /\ s[n][r] \in HasId
  BY OfStores DEF FK!Children

\* A step keeps what a cascade has in hand.
LEMMA StepTyped ==
    ASSUME refs \in Seq(Refs), None \notin Refs, rule \in [Refs -> FK!Rules], NEW m \in Hand
    PROVE  FK!CascadeStep(m) \in Hand
  <1>1. CASE m.todo = <<>>
    BY <1>1 DEF FK!CascadeStep
  <1>2. CASE m.todo # <<>>
    <2>1. /\ m.ok \in BOOLEAN /\ m.view \in Stores /\ m.visited \in SUBSET Nodes /\ m.todo \in Seq(Task)
      BY HandFields
    <2>2. PICK t : t = Head(m.todo)
      OBVIOUS
    <2>3. t \in Task /\ Tail(m.todo) \in Seq(Task)
      BY <1>2, <2>1, <2>2, HeadAndTail
    <2> DEFINE k == FK!Children(m.view, t.ref, t.docs)
               f == k \ m.visited
    <2>4. FK!CascadeStep(m) = Stepped(m, t, k, f)
      BY <1>2, <2>2, StepIs
    <2>5. k \in SUBSET Nodes /\ f \in SUBSET Nodes /\ (m.visited \cup f) \in SUBSET Nodes
      BY <2>1, ChildrenAre
    <2> HIDE DEF k, f
    <2>6. FK!Without(m.view, t.docs) \in Stores
      BY <2>1, WithoutSome
    <2>7. t.ref # None => Nulled(m.view, t.ref, k) \in Stores
      <3>1. t.ref # None => t.ref \in Refs
        BY <2>3 DEF Task
      <3>2. QED
        BY <2>1, <3>1, NulledSome
    <2>8. FK!Tasks(f) \o Tail(m.todo) \in Seq(Task)
      <3>1. FK!Tasks(f) \in Seq(Task)
        BY <2>5, TasksAbout
      <3>2. QED
        BY <2>3, <3>1, Concatenated
    <2>9. <<>> \in Seq(Task) /\ No \in BOOLEAN
      BY DEF No
    <2>10. Stepped(m, t, k, f) \in Hand
      <3>1. ASSUME NEW ok \in BOOLEAN, NEW view \in Stores, NEW visited \in SUBSET Nodes, NEW todo \in Seq(Task)
            PROVE  Made(ok, view, visited, todo) \in Hand
        BY MadeHand
      <3> HIDE DEF Hand
      <3>2. Made(m.ok, FK!Without(m.view, t.docs), m.visited, Tail(m.todo)) \in Hand
        BY <2>1, <2>3, <2>6, <3>1
      <3>3. /\ Made(m.ok, m.view, m.visited, Tail(m.todo)) \in Hand
            /\ Made(No, m.view, m.visited, <<>>) \in Hand
            /\ Made(m.ok, m.view, m.visited \cup f, FK!Tasks(f) \o Tail(m.todo)) \in Hand
        BY <2>1, <2>3, <2>5, <2>8, <2>9, <3>1
      <3>4. t.ref # None => Made(m.ok, Nulled(m.view, t.ref, k), m.visited, Tail(m.todo)) \in Hand
        BY <2>1, <2>3, <2>7, <3>1
      <3>5. QED
        BY <3>2, <3>3, <3>4 DEF Stepped
    <2>11. QED
      BY <2>4, <2>10
  <1>3. QED
    BY <1>1, <1>2

\* The operators that MongoReferences takes from modules of its own.
LEMMA SameCardinality == \A S : FK!Cardinality(S) = Cardinality(S)
  BY DEF FK!Cardinality, Cardinality

LEMMA SameInjective == \A f : FK!IsInjective(f) <=> IsInjective(f)
  BY DEF FK!IsInjective, IsInjective

LEMMA SameFinite == \A S : FK!IsFiniteSet(S) <=> IsFiniteSet(S)
  BY DEF FK!IsFiniteSet, IsFiniteSet

\* A product grows with its factor.
LEMMA LessTimes ==
    ASSUME NEW a \in Nat, NEW b \in Nat, NEW k \in Nat, a + 1 <= b
    PROVE  a * k + k <= b * k /\ a * k \in Nat /\ b * k \in Nat
  <1>1. PICK d \in Nat : b = a + 1 + d
    <2>1. b - (a + 1) \in Nat /\ b = a + 1 + (b - (a + 1))
      OBVIOUS
    <2>2. QED
      BY <2>1
  <1>2. (a + 1 + d) * k = a * k + k + d * k /\ d * k \in Nat /\ a * k \in Nat
    OBVIOUS
  <1>3. QED
    BY <1>1, <1>2

\* What is left to do: documents not visited yet, each worth a list of tasks,
\* and tasks.
Measure(m) == Cardinality(Nodes \ m.visited) * (Len(refs) + 1) + Len(m.todo)

\* Each step leaves less to do.
LEMMA MeasureFalls ==
    ASSUME IsFiniteSet(Nodes), refs \in Seq(Refs), None \notin Refs, rule \in [Refs -> FK!Rules],
           NEW m \in Hand, m.todo # <<>>
    PROVE  /\ Measure(m) \in Nat /\ Measure(FK!CascadeStep(m)) \in Nat
           /\ FK!CascadeStep(m).todo = <<>> \/ Measure(FK!CascadeStep(m)) + 1 <= Measure(m)
  <1> DEFINE c == Len(refs) + 1
             t == Head(m.todo)
             k == FK!Children(m.view, t.ref, t.docs)
             f == k \ m.visited
             s == FK!CascadeStep(m)
             left(i) == Cardinality(Nodes \ i.visited)
  <1>1. /\ m.ok \in BOOLEAN /\ m.view \in Stores /\ m.visited \in SUBSET Nodes /\ m.todo \in Seq(Task)
        /\ s \in Hand /\ s.visited \in SUBSET Nodes /\ s.todo \in Seq(Task)
    BY StepTyped, HandFields
  <1>2. t \in Task /\ Tail(m.todo) \in Seq(Task) /\ Len(m.todo) \in Nat /\ Len(Tail(m.todo)) = Len(m.todo) - 1
    BY <1>1, HeadAndTail
  <1>3. s = Stepped(m, t, k, f)
    BY StepIs
  <1>4. k \in SUBSET Nodes /\ f \in SUBSET Nodes /\ c \in Nat
    BY <1>1, ChildrenAre
  <1>5. Len(s.todo) \in Nat /\ Len(m.todo) \in Nat
    BY <1>1
  <1>6. left(m) \in Nat /\ left(s) \in Nat
    <2>1. ASSUME NEW S \in SUBSET Nodes PROVE Cardinality(S) \in Nat
      BY FS_Subset, FS_CardinalityType
    <2>2. QED
      BY <1>1, <2>1
  <1> HIDE DEF f, k, t
  <1>7. \/ s.visited = m.visited /\ s.todo = Tail(m.todo)
        \/ s.todo = <<>>
        \/ f # {} /\ s.visited = m.visited \cup f /\ s.todo = FK!Tasks(f) \o Tail(m.todo)
    <2>1. ASSUME NEW ok, NEW view, NEW visited, NEW todo
          PROVE  Made(ok, view, visited, todo).visited = visited /\ Made(ok, view, visited, todo).todo = todo
      BY DEF Made
    <2>2. \/ \E ok, view : s = Made(ok, view, m.visited, Tail(m.todo))
          \/ \E ok, view : s = Made(ok, view, m.visited, <<>>)
          \/ f # {} /\ \E ok, view : s = Made(ok, view, m.visited \cup f, FK!Tasks(f) \o Tail(m.todo))
      BY <1>3, Zenon DEF Stepped
    <2> HIDE DEF s
    <2>3. CASE \E ok, view : s = Made(ok, view, m.visited, Tail(m.todo))
      BY <2>1, <2>3
    <2>4. CASE \E ok, view : s = Made(ok, view, m.visited, <<>>)
      BY <2>1, <2>4
    <2>5. CASE f # {} /\ \E ok, view : s = Made(ok, view, m.visited \cup f, FK!Tasks(f) \o Tail(m.todo))
      <3>1. PICK ok, view : s = Made(ok, view, m.visited \cup f, FK!Tasks(f) \o Tail(m.todo))
        BY <2>5
      <3>2. s.visited = m.visited \cup f /\ s.todo = FK!Tasks(f) \o Tail(m.todo)
        BY <3>1 DEF Made
      <3>3. QED
        BY <2>5, <3>2
    <2>6. QED
      BY <2>2, <2>3, <2>4, <2>5
  <1>8. left(m) * c \in Nat /\ left(s) * c \in Nat
    <2>1. ASSUME NEW a \in Nat PROVE a * c \in Nat
      BY <1>4
    <2>2. QED
      BY <1>6, <2>1
  <1>9. Measure(m) = left(m) * c + Len(m.todo) /\ Measure(s) = left(s) * c + Len(s.todo)
    BY DEF Measure
  <1> DEFINE p == left(m) * c
             q == left(s) * c
  <1>10. Measure(m) \in Nat /\ Measure(s) \in Nat
    <2>1. p \in Nat /\ q \in Nat /\ Measure(m) = p + Len(m.todo) /\ Measure(s) = q + Len(s.todo)
      BY <1>8, <1>9
    <2> HIDE DEF p, q, s
    <2>2. QED
      BY <1>5, <2>1
  <1>11. ASSUME s.visited = m.visited, s.todo = Tail(m.todo) PROVE Measure(s) + 1 <= Measure(m)
    <2>1. left(s) = left(m) /\ Len(s.todo) = Len(m.todo) - 1
      BY <1>2, <1>11
    <2>2. p \in Nat /\ p = q /\ Measure(m) = p + Len(m.todo) /\ Measure(s) = q + Len(s.todo)
      BY <1>8, <1>9, <2>1
    <2> HIDE DEF p, q, s
    <2>3. QED
      BY <1>5, <1>10, <2>1, <2>2
  <1>12. ASSUME f # {}, s.visited = m.visited \cup f, s.todo = FK!Tasks(f) \o Tail(m.todo)
         PROVE  Measure(s) + 1 <= Measure(m)
    <2>1. Len(s.todo) <= c + Len(m.todo) - 1
      <3>1. /\ FK!Tasks(f) \in Seq(Task) /\ Len(FK!Tasks(f)) \in Nat /\ Len(FK!Tasks(f)) <= c
        BY <1>4, TasksAbout
      <3>2. Len(FK!Tasks(f) \o Tail(m.todo)) = Len(FK!Tasks(f)) + Len(Tail(m.todo))
        BY <1>2, <3>1, Concatenated
      <3> HIDE DEF c
      <3>3. QED
        BY <1>2, <1>4, <1>12, <3>1, <3>2
    <2>2. left(s) + 1 <= left(m)
      <3>1. PICK n \in f : n \notin m.visited
        BY <1>12 DEF f
      <3>2. n \in Nodes \ m.visited /\ n \notin Nodes \ s.visited /\ Nodes \ s.visited \subseteq Nodes \ m.visited
        BY <1>4, <1>12, <3>1
      <3>3. IsFiniteSet(Nodes \ m.visited) /\ IsFiniteSet(Nodes \ s.visited)
        BY FS_Subset
      <3>4. Cardinality((Nodes \ s.visited) \cup {n}) = Cardinality(Nodes \ s.visited) + 1
        BY <3>2, <3>3, FS_AddElement
      <3>5. (Nodes \ s.visited) \cup {n} \subseteq Nodes \ m.visited
        BY <3>2
      <3>6. Cardinality((Nodes \ s.visited) \cup {n}) <= Cardinality(Nodes \ m.visited)
        BY <3>3, <3>5, FS_Subset
      <3>7. QED
        BY <3>4, <3>6
    <2> HIDE DEF left, c, s
    <2>3. left(s) * c + c <= left(m) * c
      BY <1>4, <1>6, <2>2, LessTimes
    <2>4. /\ p \in Nat /\ q \in Nat /\ q + c <= p
          /\ Measure(m) = p + Len(m.todo) /\ Measure(s) = q + Len(s.todo)
      BY <1>8, <1>9, <2>3
    <2> HIDE DEF p, q, s
    <2>5. QED
      BY <1>4, <1>5, <1>10, <2>1, <2>4
  <1>13. s.todo = <<>> \/ Measure(s) + 1 <= Measure(m)
    <2> HIDE DEF s
    <2>1. QED
      BY <1>7, <1>11, <1>12
  <1>14. QED
    BY <1>10, <1>13

StartOf(docs) == [ok |-> TRUE, view |-> store, visited |-> {}, todo |-> FK!Tasks(docs)]

\* A cascade, step by step.
LEMMA CascadeWalk ==
    ASSUME IsFiniteSet(Nodes), refs \in Seq(Refs), None \notin Refs, rule \in [Refs -> FK!Rules],
           store \in Stores, NEW docs \in SUBSET Nodes
    PROVE  /\ FK!Steps \in Nat /\ StartOf(docs) \in Hand
           /\ FK!Cascade(docs)[0] = StartOf(docs)
           /\ \A k \in 1..FK!Steps : FK!Cascade(docs)[k] = FK!CascadeStep(FK!Cascade(docs)[k - 1])
           /\ \A k \in 0..FK!Steps : FK!Cascade(docs)[k] \in Hand
  <1> DEFINE n == FK!Steps
             F == [k \in 1..n |-> [m \in Hand |-> FK!CascadeStep(m)]]
             Is(f) == f = [k \in 0..n |-> IF k = 0 THEN StartOf(docs) ELSE FK!CascadeStep(f[k - 1])]
  <1>1. n \in Nat
    <2>1. Cardinality(Nodes) + 1 \in Nat /\ Len(refs) + 1 \in Nat
      BY FS_CardinalityType
    <2>2. ASSUME NEW a \in Nat, NEW b \in Nat PROVE a * b \in Nat
      OBVIOUS
    <2>3. (Cardinality(Nodes) + 1) * (Len(refs) + 1) \in Nat
      BY <2>1, <2>2
    <2>4. QED
      BY <2>3, SameCardinality DEF FK!Steps
  <1>2. StartOf(docs) \in Hand
    <2>1. FK!Tasks(docs) \in Seq(Task) /\ {} \in SUBSET Nodes /\ TRUE \in BOOLEAN
      BY TasksAbout
    <2>2. QED
      BY <2>1 DEF StartOf, Hand
  <1>3. F \in [1..n -> [Hand -> Hand]]
    <2>1. \A m \in Hand : FK!CascadeStep(m) \in Hand
      BY StepTyped
    <2> HIDE DEF n
    <2>2. QED
      BY <2>1
  <1>4. PICK t : t \in Walks(n, Hand, StartOf(docs), F)
    <2> HIDE DEF F, n
    <2>1. QED
      BY <1>1, <1>2, <1>3, WalkExists
  <1>5. /\ t \in [0..n -> Hand]
        /\ t[0] = StartOf(docs) /\ \A k \in 1..n : t[k] = F[k][t[k - 1]]
    BY <1>4 DEF Walks
  <1>6. FK!Cascade(docs) = CHOOSE f : Is(f)
    BY DEF FK!Cascade, StartOf
  <1> HIDE DEF n
  <1>7. \A k \in 1..n : t[k] = FK!CascadeStep(t[k - 1])
    <2> TAKE k \in 1..n
    <2>1. k - 1 \in 0..n
      BY <1>1
    <2>2. t[k - 1] \in Hand
      BY <1>5, <2>1
    <2>3. QED
      BY <1>5, <2>2
  <1> HIDE DEF F
  <1>8. Is(t)
    <2>1. \A k \in 0..n : k = 0 \/ k \in 1..n
      BY <1>1
    <2>2. \A k \in 0..n : t[k] = IF k = 0 THEN StartOf(docs) ELSE FK!CascadeStep(t[k - 1])
      BY <1>5, <1>7, <2>1
    <2>3. t = [k \in 0..n |-> t[k]]
      BY <1>5
    <2>4. QED
      BY <2>2, <2>3
  <1>9. Is(FK!Cascade(docs))
    BY <1>6, <1>8
  <1> DEFINE g == FK!Cascade(docs)
  <1>10. g = [k \in 0..n |-> IF k = 0 THEN StartOf(docs) ELSE FK!CascadeStep(g[k - 1])]
    BY <1>9
  <1> HIDE DEF g
  <1>11. g[0] = StartOf(docs) /\ \A k \in 1..n : g[k] = FK!CascadeStep(g[k - 1])
    <2>1. 0 \in 0..n /\ \A k \in 1..n : k \in 0..n /\ k # 0
      BY <1>1
    <2>2. QED
      BY <1>10, <2>1, Zenon
  <1>12. \A k \in 0..n : g[k] = t[k]
    <2>1. Alike(n, g, t)
      BY <1>5, <1>7, <1>11 DEF Alike
    <2>2. QED
      BY <1>1, <2>1, SameWalk DEF Same
  <1>13. \A k \in 0..n : g[k] \in Hand
    BY <1>5, <1>12
  <1>14. QED
    BY <1>1, <1>2, <1>11, <1>13 DEF g, n

\* Where a cascade from `docs' is: what is gone or visited goes back to them by
\* constraints that cascade; each document visited and not yet gone, and each
\* reference to one, has a task that will see to it.
Covered(docs, view, visited, tasks) ==
    LET seen == visited \cup docs IN
    /\ DOMAIN view \subseteq DOMAIN store /\ visited \subseteq DOMAIN store
    /\ DOMAIN store \ DOMAIN view \subseteq seen
    /\ \A n \in DOMAIN view, r \in Refs :
          \/ view[n][r] = store[n][r]
          \/ /\ view[n][r] = None /\ store[n][r] \in seen
             /\ r \in FK!Declared /\ rule[r] = "set-null"
    /\ \A n \in visited : \E r \in FK!Declared : rule[r] = "cascade" /\ store[n][r] \in seen
    /\ \A v \in seen \cap DOMAIN view : \E t \in tasks : t.ref = None /\ v \in t.docs
    /\ \A v \in seen \cap HasId, r \in FK!Declared :
          \/ To[r] # CollOf[v]
          \/ \E t \in tasks : t.ref = r /\ v \in t.docs
          \/ \A n \in DOMAIN view : CollOf[n] = From[r] /\ view[n][r] = v => n \in visited
    /\ \A t \in tasks : t.docs \subseteq seen /\ t.ref \in FK!Declared \cup {None}

Premise == refs \in Seq(Refs) /\ None \notin Nodes \cup Refs /\ rule \in [Refs -> FK!Rules] /\ store \in Stores

\* What is declared is what the sequence lists.
LEMMA DeclaredRefs == ASSUME refs \in Seq(Refs) PROVE FK!Declared \subseteq Refs /\ FK!Declared = Range(refs)
  BY DEF FK!Declared, Range

\* It is so at the start, for the tasks about the documents to delete;
LEMMA CoveredStart ==
    ASSUME Premise, NEW docs \in SUBSET (DOMAIN store)
    PROVE  Covered(docs, store, {}, Range(FK!Tasks(docs)))
  <1>1. docs \in SUBSET Nodes
    BY OfStores DEF Premise
  <1>2. TasksFor(docs, Range(FK!Tasks(docs)))
    BY <1>1, TasksAbout DEF Premise
  <1>3. PICK tasks : tasks = Range(FK!Tasks(docs))
    OBVIOUS
  <1>4. Covered(docs, store, {}, tasks)
    BY <1>2, <1>3 DEF Covered, TasksFor
  <1>5. QED
    BY <1>3, <1>4

\* when documents are removed;
LEMMA CoveredRemove ==
    ASSUME Premise, NEW docs, NEW view \in Stores, NEW visited, NEW tasks, NEW rest, NEW t,
           Covered(docs, view, visited, tasks), tasks = {t} \cup rest, t.ref = None
    PROVE  Covered(docs, FK!Without(view, t.docs), visited, rest)
  <1>1. PICK w : w = FK!Without(view, t.docs)
    OBVIOUS
  <1>2. DOMAIN w = DOMAIN view \ t.docs /\ \A n \in DOMAIN w : w[n] = view[n]
    BY <1>1, WithoutSome
  <1>3. \A r \in FK!Declared : r # None
    BY DeclaredRefs DEF Premise
  <1>4. Covered(docs, w, visited, rest)
    BY <1>2, <1>3 DEF Covered
  <1>5. QED
    BY <1>1, <1>4

\* when a constraint has no child, or none that was not visited;
LEMMA CoveredPass ==
    ASSUME Premise, NEW docs, NEW view \in Stores, NEW visited, NEW tasks, NEW rest, NEW t,
           Covered(docs, view, visited, tasks), tasks = {t} \cup rest, t.ref # None,
           FK!Children(view, t.ref, t.docs) \subseteq visited
    PROVE  Covered(docs, view, visited, rest)
  <1>1. \A n \in DOMAIN view : CollOf[n] = From[t.ref] /\ view[n][t.ref] \in t.docs /\ view[n][t.ref] \in HasId
                                => n \in visited
    BY ChildrenAre
  <1>2. QED
    BY <1>1 DEF Covered

\* when children are set to null;
LEMMA CoveredNull ==
    ASSUME Premise, NEW docs \in SUBSET Nodes, NEW view \in Stores, NEW visited \in SUBSET Nodes,
           NEW tasks, NEW rest, NEW t,
           Covered(docs, view, visited, tasks), tasks = {t} \cup rest, t.ref # None, rule[t.ref] = "set-null"
    PROVE  Covered(docs, Nulled(view, t.ref, FK!Children(view, t.ref, t.docs)), visited, rest)
  <1>1. PICK k : k = FK!Children(view, t.ref, t.docs)
    OBVIOUS
  <1>2. \A n \in DOMAIN view : n \in k <=>
           CollOf[n] = From[t.ref] /\ view[n][t.ref] \in t.docs /\ view[n][t.ref] \in HasId
    BY <1>1, ChildrenAre
  <1>3. PICK w : w = Nulled(view, t.ref, k)
    OBVIOUS
  <1>4. t.ref \in FK!Declared /\ FK!Declared \subseteq Refs /\ t.ref \in Refs /\ t.docs \subseteq visited \cup docs
    BY DeclaredRefs DEF Covered, Premise
  <1>5. /\ DOMAIN w = DOMAIN view
        /\ \A n \in DOMAIN view, i \in Refs : w[n][i] = IF n \in k /\ i = t.ref THEN None ELSE view[n][i]
    BY <1>3, <1>4, NulledSome
  <1>6. \A v \in visited \cup docs : v # None
    BY DEF Premise
  <1>7. \A n \in DOMAIN w, r \in Refs :
          \/ w[n][r] = store[n][r]
          \/ /\ w[n][r] = None /\ store[n][r] \in visited \cup docs
             /\ r \in FK!Declared /\ rule[r] = "set-null"
    <2> TAKE n \in DOMAIN w, r \in Refs
    <2>1. \/ view[n][r] = store[n][r]
          \/ /\ view[n][r] = None /\ store[n][r] \in visited \cup docs
             /\ r \in FK!Declared /\ rule[r] = "set-null"
      BY <1>5 DEF Covered
    <2>2. CASE n \in k /\ r = t.ref
      <3>1. w[n][r] = None /\ view[n][r] \in visited \cup docs
        BY <1>2, <1>4, <1>5, <2>2
      <3>2. QED
        BY <1>4, <1>6, <2>1, <2>2, <3>1
    <2>3. CASE ~(n \in k /\ r = t.ref)
      BY <1>5, <2>1, <2>3
    <2>4. QED
      BY <2>2, <2>3
  <1>8. \A v \in visited \cup docs, r \in FK!Declared, n \in DOMAIN w :
           w[n][r] = v => view[n][r] = v /\ ~(n \in k /\ r = t.ref)
    BY <1>4, <1>5, <1>6
  <1>9. \A v \in (visited \cup docs) \cap HasId, r \in FK!Declared :
          \/ To[r] # CollOf[v]
          \/ \E u \in rest : u.ref = r /\ v \in u.docs
          \/ \A n \in DOMAIN w : CollOf[n] = From[r] /\ w[n][r] = v => n \in visited
    <2> TAKE v \in (visited \cup docs) \cap HasId, r \in FK!Declared
    <2>1. CASE r = t.ref /\ v \in t.docs
      BY <1>2, <1>5, <1>8, <2>1
    <2>2. CASE ~(r = t.ref /\ v \in t.docs)
      <3>1. \/ To[r] # CollOf[v]
            \/ \E u \in rest : u.ref = r /\ v \in u.docs
            \/ \A n \in DOMAIN view : CollOf[n] = From[r] /\ view[n][r] = v => n \in visited
        BY <2>2 DEF Covered
      <3>2. QED
        BY <1>5, <1>8, <3>1
    <2>3. QED
      BY <2>1, <2>2
  <1>10. Covered(docs, w, visited, rest)
    BY <1>5, <1>7, <1>9 DEF Covered
  <1>11. QED
    BY <1>1, <1>3, <1>10

\* and when children are visited.
LEMMA CoveredVisit ==
    ASSUME Premise, NEW docs \in SUBSET Nodes, NEW view \in Stores, NEW visited \in SUBSET Nodes,
           NEW tasks, NEW rest, NEW t, NEW f,
           Covered(docs, view, visited, tasks), tasks = {t} \cup rest, t.ref # None, rule[t.ref] = "cascade",
           f = FK!Children(view, t.ref, t.docs) \ visited
    PROVE  Covered(docs, view, visited \cup f, Range(FK!Tasks(f)) \cup rest)
  <1>1. f \in SUBSET Nodes /\ f \subseteq DOMAIN view
    BY ChildrenAre
  <1>2. \A n \in DOMAIN view : CollOf[n] = From[t.ref] /\ view[n][t.ref] \in t.docs /\ view[n][t.ref] \in HasId
                                 => n \in visited \cup f
    BY ChildrenAre
  <1>3. \A n \in f : view[n][t.ref] \in t.docs
    BY ChildrenAre
  <1>4. t.ref \in FK!Declared /\ t.ref \in Refs /\ t.docs \subseteq visited \cup docs
    BY DeclaredRefs DEF Covered, Premise
  <1>5. PICK more : more = Range(FK!Tasks(f))
    OBVIOUS
  <1>6. TasksFor(f, more)
    <2>1. refs \in Seq(Refs) /\ None \notin Refs
      BY DEF Premise
    <2>2. QED
      BY <1>1, <1>5, <2>1, TasksAbout
  <1>7. \A n \in f : store[n][t.ref] \in visited \cup docs
    <2> TAKE n \in f
    <2>1. view[n][t.ref] \in visited \cup docs /\ view[n][t.ref] # None
      BY <1>3, <1>4 DEF Premise
    <2>2. QED
      BY <1>1, <1>4, <2>1 DEF Covered
  <1>8. \A v \in (visited \cup f \cup docs) \cap HasId, r \in FK!Declared :
          \/ To[r] # CollOf[v]
          \/ \E u \in more \cup rest : u.ref = r /\ v \in u.docs
          \/ \A n \in DOMAIN view : CollOf[n] = From[r] /\ view[n][r] = v => n \in visited \cup f
    <2> TAKE v \in (visited \cup f \cup docs) \cap HasId, r \in FK!Declared
    <2>1. CASE v \in f
      BY <1>6, <2>1 DEF TasksFor
    <2>2. CASE v \notin f /\ r = t.ref /\ v \in t.docs
      BY <1>2, <2>2
    <2>3. CASE v \notin f /\ ~(r = t.ref /\ v \in t.docs)
      BY <2>3 DEF Covered
    <2>4. QED
      BY <2>1, <2>2, <2>3
  <1>9. \A v \in (visited \cup f \cup docs) \cap DOMAIN view : \E u \in more \cup rest : u.ref = None /\ v \in u.docs
    <2> TAKE v \in (visited \cup f \cup docs) \cap DOMAIN view
    <2>1. CASE v \in f
      BY <1>6, <2>1 DEF TasksFor
    <2>2. CASE v \notin f
      BY <2>2 DEF Covered
    <2>3. QED
      BY <2>1, <2>2
  <1>10. \A n \in visited \cup f : \E r \in FK!Declared : rule[r] = "cascade" /\ store[n][r] \in visited \cup f \cup docs
    BY <1>4, <1>7 DEF Covered
  <1>11. \A n \in DOMAIN view, r \in Refs :
          \/ view[n][r] = store[n][r]
          \/ /\ view[n][r] = None /\ store[n][r] \in visited \cup f \cup docs
             /\ r \in FK!Declared /\ rule[r] = "set-null"
    BY DEF Covered
  <1>12. \A u \in more \cup rest : u.docs \subseteq visited \cup f \cup docs /\ u.ref \in FK!Declared \cup {None}
    BY <1>6 DEF Covered, TasksFor
  <1>13. /\ DOMAIN view \subseteq DOMAIN store /\ visited \cup f \subseteq DOMAIN store
         /\ DOMAIN store \ DOMAIN view \subseteq visited \cup f \cup docs
    BY <1>1 DEF Covered
  <1>14. Covered(docs, view, visited \cup f, more \cup rest)
    BY <1>8, <1>9, <1>10, <1>11, <1>12, <1>13 DEF Covered
  <1>15. QED
    BY <1>5, <1>14

Kempt(docs, m) == m.ok => Covered(docs, m.view, m.visited, Range(m.todo))

\* So each step keeps it.
LEMMA StepKempt ==
    ASSUME Premise, NEW docs \in SUBSET Nodes, NEW m \in Hand, Kempt(docs, m)
    PROVE  Kempt(docs, FK!CascadeStep(m))
  <1>1. CASE m.todo = <<>>
    BY <1>1 DEF FK!CascadeStep
  <1>2. CASE m.todo # <<>>
    <2>1. /\ m.ok \in BOOLEAN /\ m.view \in Stores /\ m.visited \in SUBSET Nodes /\ m.todo \in Seq(Task)
      BY HandFields
    <2>2. PICK t : t = Head(m.todo)
      OBVIOUS
    <2>3. PICK rest : rest = Range(Tail(m.todo))
      OBVIOUS
    <2>4. /\ t \in Task /\ Tail(m.todo) \in Seq(Task) /\ Range(m.todo) = {t} \cup rest
      BY <1>2, <2>1, <2>2, <2>3, HeadAndTail
    <2>5. PICK k : k = FK!Children(m.view, t.ref, t.docs)
      OBVIOUS
    <2>6. PICK f : f = k \ m.visited
      OBVIOUS
    <2>7. FK!CascadeStep(m) = Stepped(m, t, k, f)
      BY <1>2, <2>2, <2>5, <2>6, StepIs DEF Premise
    <2>8. ASSUME NEW ok, NEW view, NEW visited, NEW todo, ok => Covered(docs, view, visited, Range(todo))
          PROVE  Kempt(docs, Made(ok, view, visited, todo))
      BY <2>8 DEF Kempt, Made
    <2>9. ASSUME t.ref = None
          PROVE  Kempt(docs, Made(m.ok, FK!Without(m.view, t.docs), m.visited, Tail(m.todo)))
      <3>1. m.ok => Covered(docs, FK!Without(m.view, t.docs), m.visited, rest)
        BY <2>1, <2>4, <2>9, CoveredRemove DEF Kempt
      <3>2. QED
        BY <2>3, <2>8, <3>1
    <2>10. ASSUME t.ref # None, k \subseteq m.visited
           PROVE  Kempt(docs, Made(m.ok, m.view, m.visited, Tail(m.todo)))
      <3>1. m.ok => Covered(docs, m.view, m.visited, rest)
        BY <2>1, <2>4, <2>5, <2>10, CoveredPass DEF Kempt
      <3>2. QED
        BY <2>3, <2>8, <3>1
    <2>11. Kempt(docs, Made(No, m.view, m.visited, <<>>))
      BY DEF Kempt, Made, No
    <2>12. ASSUME t.ref # None, rule[t.ref] = "set-null"
           PROVE  Kempt(docs, Made(m.ok, Nulled(m.view, t.ref, k), m.visited, Tail(m.todo)))
      <3>1. m.ok => Covered(docs, Nulled(m.view, t.ref, k), m.visited, rest)
        BY <2>1, <2>4, <2>5, <2>12, CoveredNull DEF Kempt
      <3>2. QED
        BY <2>3, <2>8, <3>1
    <2>13. ASSUME t.ref # None, rule[t.ref] = "cascade"
           PROVE  Kempt(docs, Made(m.ok, m.view, m.visited \cup f, FK!Tasks(f) \o Tail(m.todo)))
      <3>1. m.ok => Covered(docs, m.view, m.visited \cup f, Range(FK!Tasks(f)) \cup rest)
        BY <2>1, <2>4, <2>5, <2>6, <2>13, CoveredVisit DEF Kempt
      <3>2. Range(FK!Tasks(f) \o Tail(m.todo)) = Range(FK!Tasks(f)) \cup rest
        <4>1. f \in SUBSET Nodes
          BY <2>1, <2>5, <2>6, ChildrenAre
        <4>2. FK!Tasks(f) \in Seq(Task)
          BY <4>1, TasksAbout DEF Premise
        <4>3. QED
          BY <2>3, <2>4, <4>2, Concatenated, ZenonT(40)
      <3>3. QED
        BY <2>8, <3>1, <3>2
    <2>14. t.ref # None => rule[t.ref] \in {"restrict", "cascade", "set-null"}
      BY <2>4 DEF Task, Premise, FK!Rules
    <2>15. (k = {} => k \subseteq m.visited) /\ (f = {} => k \subseteq m.visited)
      BY <2>6
    <2>16. Kempt(docs, Stepped(m, t, k, f))
      BY <2>9, <2>10, <2>11, <2>12, <2>13, <2>14, <2>15 DEF Stepped
    <2>17. QED
      BY <2>7, <2>16
  <1>3. QED
    BY <1>1, <1>2

\* A cascade ends within its steps, and has seen to everything unless it was
\* refused.
LEMMA CascadeEnds ==
    ASSUME Premise, IsFiniteSet(Nodes), NEW docs \in SUBSET (DOMAIN store),
           NEW e, e = FK!Cascade(docs)[FK!Steps]
    PROVE  e \in Hand /\ (e.ok => Covered(docs, e.view, e.visited, {}))
  <1>1. /\ refs \in Seq(Refs) /\ None \notin Refs /\ rule \in [Refs -> FK!Rules] /\ store \in Stores
        /\ docs \in SUBSET Nodes
    BY OfStores DEF Premise
  <1>2. PICK n : n = FK!Steps
    OBVIOUS
  <1>3. PICK g : g = FK!Cascade(docs)
    OBVIOUS
  <1>4. /\ n \in Nat /\ StartOf(docs) \in Hand /\ g[0] = StartOf(docs)
        /\ \A k \in 1..n : g[k] = FK!CascadeStep(g[k - 1])
        /\ \A k \in 0..n : g[k] \in Hand
    BY <1>1, <1>2, <1>3, CascadeWalk
  <1> DEFINE Fine(k) == /\ Kempt(docs, g[k])
                        /\ g[k].todo = <<>> \/ Measure(g[k]) + k <= n
             T == { k \in Nat : k <= n => Fine(k) }
  <1>5. 0 \in T
    <2>1. Kempt(docs, StartOf(docs))
      BY CoveredStart DEF Kempt, StartOf
    <2>2. Measure(StartOf(docs)) <= n
      <3>1. StartOf(docs).visited = {} /\ StartOf(docs).todo = FK!Tasks(docs)
        BY DEF StartOf
      <3>2. /\ Len(FK!Tasks(docs)) \in Nat /\ Len(FK!Tasks(docs)) <= Len(refs) + 1
            /\ Cardinality(Nodes) \in Nat /\ Len(refs) + 1 \in Nat
        BY <1>1, TasksAbout, FS_CardinalityType
      <3>3. Nodes \ {} = Nodes
        OBVIOUS
      <3>4. Measure(StartOf(docs)) = Cardinality(Nodes) * (Len(refs) + 1) + Len(FK!Tasks(docs))
        BY <3>1, <3>3 DEF Measure
      <3>5. n = (Cardinality(Nodes) + 1) * (Len(refs) + 1)
        BY <1>2, SameCardinality DEF FK!Steps
      <3>6. \A a, b, c \in Nat : c <= b => a * b + c <= (a + 1) * b
        <4> TAKE a, b, c \in Nat
        <4>1. (a + 1) * b = a * b + b /\ a * b \in Nat
          OBVIOUS
        <4>2. QED
          BY <4>1
      <3>7. QED
        BY <3>2, <3>4, <3>5, <3>6
    <2>3. StartOf(docs).todo = <<>> \/ Measure(StartOf(docs)) + 0 <= n
      <3>1. \A a : a <= n /\ a \in Nat => a + 0 <= n
        BY <1>4
      <3>2. ASSUME StartOf(docs).todo # <<>> PROVE Measure(StartOf(docs)) + 0 <= n
        BY <1>1, <1>4, <2>2, <3>1, <3>2, MeasureFalls
      <3>3. QED
        BY <3>2
    <2>4. QED
      BY <1>4, <2>1, <2>3
  <1>6. ASSUME NEW k \in Nat, k \in T PROVE k + 1 \in T
    <2>1. SUFFICES ASSUME k + 1 <= n PROVE Fine(k + 1)
      OBVIOUS
    <2>2. k + 1 \in 1..n /\ (k + 1) - 1 = k /\ k \in 0..n /\ k <= n
      BY <1>4, <2>1
    <2>3. g[k + 1] = FK!CascadeStep(g[k]) /\ g[k] \in Hand /\ Fine(k)
      BY <1>4, <1>6, <2>2
    <2>4. Kempt(docs, g[k + 1])
      BY <1>1, <2>3, StepKempt
    <2>5. CASE g[k].todo = <<>>
      <3>1. g[k + 1] = g[k]
        BY <2>3, <2>5 DEF FK!CascadeStep
      <3>2. QED
        BY <2>3, <2>4, <2>5, <3>1
    <2>6. CASE g[k].todo # <<>>
      <3>1. /\ Measure(g[k]) \in Nat /\ Measure(g[k + 1]) \in Nat
            /\ g[k + 1].todo = <<>> \/ Measure(g[k + 1]) + 1 <= Measure(g[k])
        BY <1>1, <2>3, <2>6, MeasureFalls
      <3>2. Measure(g[k]) + k <= n
        BY <2>3, <2>6
      <3>3. g[k + 1].todo = <<>> \/ Measure(g[k + 1]) + (k + 1) <= n
        BY <1>4, <3>1, <3>2
      <3>4. QED
        BY <2>4, <3>3
    <2>7. QED
      BY <2>5, <2>6
  <1> HIDE DEF T
  <1>7. n \in T
    BY <1>4, <1>5, <1>6, Inductive
  <1>8. Fine(n)
    BY <1>4, <1>7 DEF T
  <1>9. g[n].todo = <<>>
    <2>1. SUFFICES ASSUME g[n].todo # <<>> PROVE FALSE
      OBVIOUS
    <2>2. g[n] \in Hand /\ g[n].todo \in Seq(Task)
      BY <1>4, HandFields
    <2>3. Len(g[n].todo) \in Nat /\ Len(g[n].todo) # 0
      BY <2>1, <2>2
    <2>4. PICK p \in Nat : Measure(g[n]) = p + Len(g[n].todo)
      <3>1. g[n].visited \in SUBSET Nodes
        BY <2>2, HandFields
      <3>2. Cardinality(Nodes \ g[n].visited) \in Nat /\ Len(refs) + 1 \in Nat
        <4>1. IsFiniteSet(Nodes \ g[n].visited)
          BY FS_Subset
        <4>2. QED
          BY <1>1, <4>1, FS_CardinalityType
      <3>3. ASSUME NEW a \in Nat, NEW b \in Nat PROVE a * b \in Nat
        OBVIOUS
      <3>4. QED
        BY <3>2, <3>3 DEF Measure
    <2>5. QED
      BY <1>4, <1>8, <2>1, <2>3, <2>4
  <1>10. Range(g[n].todo) = {}
    BY <1>9 DEF Range
  <1>11. e = g[n] /\ g[n] \in Hand
    BY <1>2, <1>3, <1>4
  <1>12. QED
    BY <1>8, <1>10, <1>11 DEF Kempt

\* What a delete makes of a database: what it was asked to remove is gone;
\* what else is gone goes back to it by constraints that cascade; nothing else
\* was changed than references to it, which are null; and where the key is
\* found in every document, no declared reference to it is left.
Swept(s, declared, rules, on, view) ==
    LET gone == DOMAIN s \ DOMAIN view IN
    /\ view \in Stores /\ DOMAIN view \subseteq DOMAIN s
    /\ on \cap DOMAIN view = {}
    /\ \A n \in gone \ on : \E r \in declared : rules[r] = "cascade" /\ s[n][r] \in gone
    /\ \A n \in DOMAIN view, r \in Refs :
          \/ view[n][r] = s[n][r]
          \/ /\ view[n][r] = None /\ s[n][r] \in gone
             /\ r \in declared /\ rules[r] = "set-null"
    /\ HasId = Nodes => \A n \in DOMAIN view, r \in declared : view[n][r] \notin gone

\* A delete with ON DELETE rules sweeps.
LEMMA DeleteSweeps ==
    ASSUME Premise, IsFiniteSet(Nodes), NEW q
    PROVE  /\ FK!DeleteCascaded(q).view \in Stores
           /\ FK!DeleteCascaded(q).ok => Swept(store, FK!Declared, rule, q.on, FK!DeleteCascaded(q).view)
  <1>1. PICK docs \in SUBSET (DOMAIN store) : docs = q.on \cap DOMAIN store
    OBVIOUS
  <1>2. PICK e : e = FK!Cascade(docs)[FK!Steps]
    OBVIOUS
  <1>3. FK!DeleteCascaded(q) = [ok |-> e.ok, view |-> e.view]
    BY <1>1, <1>2 DEF FK!DeleteCascaded
  <1>4. e \in Hand /\ (e.ok => Covered(docs, e.view, e.visited, {}))
    BY <1>2, CascadeEnds
  <1>5. e.view \in Stores /\ e.visited \in SUBSET Nodes /\ e.ok \in BOOLEAN
    BY <1>4, HandFields
  <1>6. ASSUME e.ok PROVE Swept(store, FK!Declared, rule, q.on, e.view)
    <2>1. Covered(docs, e.view, e.visited, {})
      BY <1>4, <1>6
    <2>2. PICK gone : gone = DOMAIN store \ DOMAIN e.view
      OBVIOUS
    <2>3. gone = e.visited \cup docs /\ DOMAIN e.view \subseteq DOMAIN store
      BY <2>1, <2>2 DEF Covered
    <2>4. q.on \cap DOMAIN e.view = {}
      BY <1>1, <2>2, <2>3
    <2>5. \A n \in gone \ q.on : \E r \in FK!Declared : rule[r] = "cascade" /\ store[n][r] \in gone
      BY <1>1, <2>1, <2>3 DEF Covered
    <2>6. \A n \in DOMAIN e.view, r \in Refs :
            \/ e.view[n][r] = store[n][r]
            \/ /\ e.view[n][r] = None /\ store[n][r] \in gone
               /\ r \in FK!Declared /\ rule[r] = "set-null"
      BY <2>1, <2>3 DEF Covered
    <2>7. ASSUME HasId = Nodes, NEW n \in DOMAIN e.view, NEW r \in FK!Declared, e.view[n][r] \in gone
          PROVE  FALSE
      <3>1. PICK v : v = e.view[n][r]
        OBVIOUS
      <3>2. v \in Nodes /\ v # None /\ r \in Refs
        <4>1. gone \subseteq Nodes
          BY <2>2, OfStores DEF Premise
        <4>2. QED
          BY <2>7, <3>1, <4>1, DeclaredRefs DEF Premise
      <3>3. From[r] = CollOf[n] /\ CollOf[v] = To[r]
        BY <1>5, <2>7, <3>1, <3>2, OfStores
      <3>4. v \in (e.visited \cup docs) \cap HasId
        BY <2>3, <2>7, <3>1, <3>2
      <3>5. n \in e.visited
        BY <2>1, <2>7, <3>1, <3>3, <3>4 DEF Covered
      <3>6. QED
        BY <2>2, <2>3, <2>7, <3>5
    <2>8. QED
      BY <1>5, <2>2, <2>3, <2>4, <2>5, <2>6, <2>7 DEF Swept
  <1>7. FK!DeleteCascaded(q).ok = e.ok /\ FK!DeleteCascaded(q).view = e.view
    BY <1>3
  <1>8. QED
    BY <1>5, <1>6, <1>7

-----------------------------------------------------------------------------
(* MongoReferences.  The invariant. *)

Places == {"idle", "load", "plain", "begin", "commit", "purge"}

Ways == {"race", "block", "late", "crash"}

Slot == [ at : Places, query : FK!Query, outgoing : SUBSET Refs, view : Stores, writes : SUBSET Nodes ]

Typed ==
    /\ store \in Stores
    /\ refs \in Seq(Refs) /\ IsInjective(refs)
    /\ rule \in [Refs -> FK!Rules]
    /\ client \in [Clients -> Slot]
    /\ changed \in [Clients -> SUBSET Nodes]
    /\ stale \subseteq Clients
    /\ unchecked \subseteq Ways
    /\ queries \in 0..MaxQueries

\* A query is about rows there may be.
Asked(q) ==
    \/ q.op = "insert" /\ \E n \in Nodes : q.on = {n} /\ q.set \in FK!Row(n)
    \/ /\ q.op = "update" /\ q.col \in Refs
       /\ \E n \in Nodes : q.on = {n} /\ q.col \in FK!Columns(n)
       /\ q.set[q.col] \in FK!NodesOf(To[q.col]) \cup {None}
    \/ q.op = "delete" /\ q.on # {} /\ \E coll : q.on \subseteq FK!NodesOf(coll)

Sensible(s) ==
    /\ s.at \in {"load", "plain", "begin", "commit"} => Asked(s.query)
    /\ s.at = "purge" => s.query.on # {} /\ \E coll : s.query.on = FK!NodesOf(coll)

\* What loadRefs finds for a query.
FoundBy(q, declared) ==
    { r \in declared : (IF q.op = "delete" THEN To ELSE From)[r] = CollOf[CHOOSE n \in q.on : TRUE] }

Holds(s, r) == \A n \in DOMAIN s : s[n][r] \in DOMAIN s \cup {None}

\* A view that may be committed: references that held still do.
Outcome(q, s, declared, rules, view) ==
    /\ q.op = "delete" => Swept(s, declared, rules, q.on, view)
    /\ HasId = Nodes => \A r \in declared : Holds(s, r) => Holds(view, r)

\* What a client knows is so, unless others changed something meanwhile.
Current(s, st, declared, rules) ==
    /\ s.at \in {"plain", "begin"} => s.outgoing = FoundBy(s.query, declared)
    /\ s.at = "commit" => /\ s.outgoing = FoundBy(s.query, declared)
                          /\ s.writes = FK!Diff(st, s.view)
                          /\ Outcome(s.query, st, declared, rules, s.view)
    /\ s.at = "plain" => FoundBy(s.query, declared) = {}

\* Somebody dropped a collection of r and has not purged r yet.
Purging(slots, r) ==
    \E c \in Clients : /\ slots[c].at = "purge"
                       /\ \E n \in slots[c].query.on : CollOf[n] \in {From[r], To[r]}

FkInv ==
    /\ FK!Setting
    /\ Typed
    /\ \A c \in Clients : Sensible(client[c])
    /\ \A c \in Clients \ stale : Current(client[c], store, Range(refs), rule)
    /\ HasId = Nodes /\ unchecked = {} =>
          \A r \in Range(refs) : Purging(client, r) \/ Holds(store, r)

\* What is assumed of the constants.
LEMMA SettingFacts ==
    ASSUME FK!Setting
    PROVE  /\ IsFiniteSet(Nodes) /\ IsFiniteSet(Refs) /\ None \notin Nodes \cup Refs
           /\ HasId \subseteq Nodes /\ MaxQueries \in Nat
  BY SameFinite DEF FK!Setting

\* What the lemmas about the operators need.
LEMMA InvPremise == ASSUME FkInv PROVE Premise /\ IsFiniteSet(Nodes)
  BY SettingFacts DEF FkInv, Typed, Premise

\* The types kept here imply those of the model.
LEMMA TypedIsTypeOK == ASSUME Typed PROVE FK!TypeOK
  <1>1. FK!IsStore(store) /\ refs \in Seq(Refs) /\ FK!IsInjective(refs) /\ rule \in [Refs -> FK!Rules]
    BY OfStores, SameInjective DEF Typed
  <1>2. ASSUME NEW c \in Clients
        PROVE  /\ client[c].at \in {"idle", "load", "plain", "begin", "commit", "purge"}
               /\ client[c].query \in FK!Query /\ client[c].outgoing \subseteq Refs
               /\ FK!IsStore(client[c].view) /\ client[c].writes \subseteq Nodes
    <2>1. client[c] \in Slot
      BY DEF Typed
    <2>2. client[c].view \in Stores
      BY <2>1 DEF Slot
    <2>3. FK!IsStore(client[c].view)
      BY <2>2, OfStores
    <2>4. QED
      BY <2>1, <2>3 DEF Slot, Places
  <1>3. changed \in [Clients -> SUBSET Nodes] /\ stale \subseteq Clients
        /\ unchecked \subseteq {"race", "block", "late", "crash"} /\ queries \in 0..MaxQueries
    BY DEF Typed, Ways
  <1>4. QED
    BY <1>1, <1>2, <1>3 DEF FK!TypeOK

\* A client goes on; the data is as it was.
LEMMA Moved ==
    ASSUME FkInv, NEW c \in Clients,
           client' \in [Clients -> Slot], \A d \in Clients \ {c} : client'[d] = client[d],
           Sensible(client'[c]),
           c \notin stale' => Current(client'[c], store, Range(refs), rule),
           client[c].at = "purge" => unchecked' # {},
           UNCHANGED <<store, refs, rule>>,
           changed' \in [Clients -> SUBSET Nodes],
           stale \ {c} \subseteq stale', stale' \subseteq Clients,
           unchecked \subseteq unchecked', unchecked' \subseteq Ways, queries' \in 0..MaxQueries
    PROVE  FkInv'
  <1>1. FK!Setting'
    BY DEF FkInv, FK!Setting
  <1>2. Typed'
    BY DEF FkInv, Typed
  <1>3. \A d \in Clients : Sensible(client'[d])
    BY DEF FkInv
  <1>4. \A d \in Clients \ stale' : Current(client'[d], store, Range(refs), rule)
    BY DEF FkInv
  <1>5. ASSUME HasId = Nodes, unchecked' = {}, NEW r \in Range(refs) PROVE Purging(client', r) \/ Holds(store, r)
    <2>1. Purging(client, r) \/ Holds(store, r)
      BY <1>5 DEF FkInv
    <2>2. client[c].at # "purge"
      BY <1>5
    <2>3. QED
      BY <2>1, <2>2 DEF Purging
  <1>6. QED
    BY <1>1, <1>2, <1>3, <1>4, <1>5 DEF FkInv

\* A client changes the data: nobody else at work relies on what it knew.
LEMMA Wrote ==
    ASSUME FkInv, NEW c \in Clients,
           client' \in [Clients -> Slot], \A d \in Clients \ {c} : client'[d] = client[d],
           Sensible(client'[c]), client'[c].at \in {"idle", "purge"},
           stale' = FK!Working \ {c},
           store' \in Stores, refs' \in Seq(Refs), IsInjective(refs'), rule' = rule,
           changed' \in [Clients -> SUBSET Nodes],
           unchecked' \subseteq Ways, queries' \in 0..MaxQueries,
           HasId = Nodes /\ unchecked' = {} => \A r \in Range(refs') : Purging(client', r) \/ Holds(store', r)
    PROVE  FkInv'
  <1>1. FK!Setting'
    BY DEF FkInv, FK!Setting
  <1>2. Typed'
    BY DEF FkInv, Typed, FK!Working
  <1>3. \A d \in Clients : Sensible(client'[d])
    BY DEF FkInv
  <1>4. ASSUME NEW d \in Clients \ stale' PROVE Current(client'[d], store', Range(refs'), rule')
    <2>1. client'[d].at \in {"idle", "purge"}
      BY DEF FK!Working
    <2>2. QED
      BY <2>1 DEF Current
  <1>5. QED
    BY <1>1, <1>2, <1>3, <1>4 DEF FkInv

\* The empty view is a database.
LEMMA EmptyStore == <<>> \in Stores
  <1> SUFFICES ASSUME NEW s, s = <<>> PROVE s \in Stores
    OBVIOUS
  <1>1. DOMAIN s = {} /\ s = [n \in DOMAIN s |-> s[n]]
    OBVIOUS
  <1>2. QED
    BY <1>1, InStores

\* An idle client is well formed.
LEMMA IdleSlot ==
    /\ FK!NoQuery \in FK!Query /\ FK!Idle \in Slot /\ FK!Idle.at = "idle" /\ Sensible(FK!Idle)
    /\ FK!NoQuery.op = "insert" /\ FK!NoQuery.on = {} /\ FK!NoQuery.set = [r \in Refs |-> None]
  <1>1. /\ FK!NoQuery \in FK!Query
        /\ FK!NoQuery.op = "insert" /\ FK!NoQuery.on = {} /\ FK!NoQuery.set = [r \in Refs |-> None]
    BY DEF FK!NoQuery, FK!Query
  <1>2. FK!Idle \in Slot /\ FK!Idle.at = "idle"
    BY <1>1, EmptyStore DEF FK!Idle, Slot, Places
  <1>3. Sensible(FK!Idle)
    BY <1>2 DEF Sensible
  <1>4. QED
    BY <1>1, <1>2, <1>3

\* What Finish, Note and GiveUp leave.
LEMMA Finished ==
    ASSUME Typed, NEW c \in Clients, FK!Finish(c)
    PROVE  /\ client' \in [Clients -> Slot] /\ \A d \in Clients \ {c} : client'[d] = client[d]
           /\ client'[c].at = "idle" /\ Sensible(client'[c])
  BY IdleSlot DEF Typed, FK!Finish

LEMMA Noted ==
    ASSUME Typed, NEW c \in Clients, NEW docs \in SUBSET Nodes, FK!Note(c, docs)
    PROVE  changed' \in [Clients -> SUBSET Nodes] /\ stale' = FK!Working \ {c}
  BY DEF Typed, FK!Note

LEMMA GivenUp ==
    ASSUME Typed, NEW c \in Clients, FK!GiveUp(c)
    PROVE  /\ client' \in [Clients -> Slot] /\ \A d \in Clients \ {c} : client'[d] = client[d]
           /\ client'[c].at = "idle" /\ Sensible(client'[c])
           /\ changed' \in [Clients -> SUBSET Nodes] /\ stale' = stale \ {c} /\ stale' \subseteq Clients
  BY Finished DEF Typed, FK!GiveUp

\* Records of what clients do, with some fields changed.
Asking(s, at, q) == [s EXCEPT !.at = at, !.query = q]

LEMMA SlotAsked ==
    ASSUME NEW s \in Slot, NEW at \in Places, NEW q \in FK!Query
    PROVE  Asking(s, at, q) \in Slot /\ Asking(s, at, q).at = at /\ Asking(s, at, q).query = q
  <1>1. PICK p : p = Asking(s, at, q)
    OBVIOUS
  <1>2. p \in [at : {at}, query : {q}, outgoing : SUBSET Refs, view : Stores, writes : SUBSET Nodes]
    BY <1>1 DEF Slot, Asking
  <1>3. QED
    BY <1>1, <1>2 DEF Slot

\* Each step keeps the invariant.  A client asks a query;
LEMMA AskMoves ==
    ASSUME FkInv, NEW c \in Clients, NEW q \in FK!Query, Asked(q), FK!Ask(c, q, "load")
    PROVE  FkInv'
  <1>1. client \in [Clients -> Slot] /\ client[c] \in Slot /\ "load" \in Places /\ queries \in 0..MaxQueries
    BY DEF FkInv, Typed, Places
  <1>2. client' = [client EXCEPT ![c] = [client[c] EXCEPT !.at = "load", !.query = q]]
    BY <1>1 DEF FK!Ask
  <1>3. PICK p : p = Asking(client[c], "load", q)
    OBVIOUS
  <1>4. p \in Slot /\ p.at = "load" /\ p.query = q
    BY <1>1, <1>3, SlotAsked
  <1>5. client' \in [Clients -> Slot] /\ client'[c] = p /\ \A d \in Clients \ {c} : client'[d] = client[d]
    BY <1>1, <1>2, <1>3, <1>4 DEF Asking
  <1>6. Sensible(client'[c]) /\ Current(client'[c], store, Range(refs), rule)
    BY <1>4, <1>5 DEF Sensible, Current
  <1>7. /\ client[c].at = "idle" /\ UNCHANGED <<store, refs, rule, changed, stale, unchecked>>
        /\ queries < MaxQueries /\ queries' = queries + 1
    BY DEF FK!Ask
  <1>8. queries' \in 0..MaxQueries
    BY <1>1, <1>7, SettingFacts DEF FkInv
  <1>9. changed' \in [Clients -> SUBSET Nodes] /\ stale' \subseteq Clients /\ unchecked' \subseteq Ways
    BY <1>7 DEF FkInv, Typed
  <1>10. QED
    BY <1>5, <1>6, <1>7, <1>8, <1>9, Moved

LEMMA InsertKeeps == ASSUME FkInv, NEW c \in Clients, FK!Insert(c) PROVE FkInv'
  <1>1. PICK n \in Nodes \ DOMAIN store : \E row \in FK!Row(n) :
           FK!Ask(c, [FK!NoQuery EXCEPT !.on = {n}, !.set = row], "load")
    BY DEF FK!Insert
  <1>2. PICK row \in FK!Row(n) : FK!Ask(c, [FK!NoQuery EXCEPT !.on = {n}, !.set = row], "load")
    BY <1>1
  <1>3. PICK q : q = [FK!NoQuery EXCEPT !.on = {n}, !.set = row]
    OBVIOUS
  <1>4. q \in [op : {"insert"}, on : {{n}}, col : Refs \cup {None}, set : {row}]
    BY <1>3 DEF FK!NoQuery
  <1>5. q \in FK!Query /\ q.op = "insert" /\ q.on = {n} /\ q.set = row
    BY <1>4 DEF FK!Query, FK!Row
  <1>6. Asked(q)
    BY <1>5 DEF Asked
  <1>7. QED
    BY <1>2, <1>3, <1>5, <1>6, AskMoves

LEMMA UpdateKeeps == ASSUME FkInv, NEW c \in Clients, FK!Update(c) PROVE FkInv'
  <1>1. PICK r \in Refs, n \in DOMAIN store, v \in Nodes \cup {None} :
           /\ r \in FK!Columns(n) /\ v \in FK!NodesOf(To[r]) \cup {None}
           /\ FK!Ask(c, [op |-> "update", on |-> {n}, col |-> r, set |-> [FK!NoQuery.set EXCEPT ![r] = v]],
                     "load")
    BY DEF FK!Update
  <1>2. PICK q : q = [op |-> "update", on |-> {n}, col |-> r, set |-> [FK!NoQuery.set EXCEPT ![r] = v]]
    OBVIOUS
  <1>3. n \in Nodes
    BY OfStores DEF FkInv, Typed
  <1>4. q \in FK!Query /\ q.op = "update" /\ q.on = {n} /\ q.col = r /\ q.set[r] = v
    BY <1>2, <1>3, IdleSlot DEF FK!Query
  <1>5. Asked(q)
    BY <1>1, <1>3, <1>4 DEF Asked
  <1>6. QED
    BY <1>1, <1>2, <1>4, <1>5, AskMoves

LEMMA DeleteKeeps == ASSUME FkInv, NEW c \in Clients, FK!Delete(c) PROVE FkInv'
  <1>1. PICK coll \in FK!Colls, docs \in SUBSET (DOMAIN store) :
           /\ docs # {} /\ docs \subseteq FK!NodesOf(coll)
           /\ FK!Ask(c, [FK!NoQuery EXCEPT !.op = "delete", !.on = docs], "load")
    BY DEF FK!Delete
  <1>2. PICK q : q = [FK!NoQuery EXCEPT !.op = "delete", !.on = docs]
    OBVIOUS
  <1>3. q \in [op : {"delete"}, on : {docs}, col : Refs \cup {None}, set : [Refs -> Nodes \cup {None}]]
    BY <1>2 DEF FK!NoQuery
  <1>4. docs \in SUBSET Nodes
    BY OfStores DEF FkInv, Typed
  <1>5. q \in FK!Query /\ q.op = "delete" /\ q.on = docs
    BY <1>3, <1>4 DEF FK!Query
  <1>6. Asked(q)
    BY <1>1, <1>5 DEF Asked
  <1>7. QED
    BY <1>1, <1>2, <1>5, <1>6, AskMoves

-----------------------------------------------------------------------------
(* MongoReferences.  What queries make of the data. *)

\* An insert and an update, of the document the query is about.
InsertedTo(q, n, w) ==
    /\ w \in Stores /\ DOMAIN w = DOMAIN store \cup {n} /\ w[n] = q.set
    /\ \A m \in DOMAIN store : w[m] = store[m]

LEMMA InsertedView ==
    ASSUME store \in Stores, NEW q, NEW n \in Nodes, q.on = {n}, q.set \in FK!Row(n), n \notin DOMAIN store,
           NEW w, w = FK!Inserted(q).view
    PROVE  InsertedTo(q, n, w)
  <1>1. w = [m \in DOMAIN store \cup {n} |-> IF m \in {n} THEN q.set ELSE store[m]]
    BY DEF FK!Inserted
  <1>2. DOMAIN w = DOMAIN store \cup {n} /\ w[n] = q.set /\ \A m \in DOMAIN store : w[m] = store[m]
    BY <1>1
  <1>3. DOMAIN w \subseteq Nodes /\ \A m \in DOMAIN w : w[m] \in FK!Row(m)
    BY <1>2, OfStores
  <1>4. w = [m \in DOMAIN w |-> w[m]]
    BY <1>1
  <1>5. QED
    BY <1>2, <1>3, <1>4, InStores DEF InsertedTo

LEMMA UpdatedView ==
    ASSUME store \in Stores, None \notin Nodes, NEW q, NEW n \in Nodes, q.on = {n}, q.col \in Refs,
           q.col \in FK!Columns(n), q.set[q.col] \in FK!NodesOf(To[q.col]) \cup {None},
           NEW w, w = FK!Updated(q).view
    PROVE  /\ w \in Stores /\ DOMAIN w = DOMAIN store
           /\ \A m \in DOMAIN store, i \in Refs :
                 w[m][i] = IF m = n /\ i = q.col THEN q.set[q.col] ELSE store[m][i]
  <1>1. w = [m \in DOMAIN store |->
               IF m \in {n} THEN [store[m] EXCEPT ![q.col] = q.set[q.col]] ELSE store[m]]
    BY DEF FK!Updated
  <1>2. /\ DOMAIN store \subseteq Nodes
        /\ \A m \in DOMAIN store : store[m] \in FK!Row(m) /\ store[m] \in [Refs -> Nodes \cup {None}]
    BY OfStores
  <1>3. ASSUME NEW m \in DOMAIN store
        PROVE  /\ w[m] \in FK!Row(m)
               /\ \A i \in Refs : w[m][i] = IF m = n /\ i = q.col THEN q.set[q.col] ELSE store[m][i]
    <2>1. CASE m # n
      BY <1>1, <1>2, <2>1
    <2>2. CASE m = n
      <3>1. w[m] = [store[m] EXCEPT ![q.col] = q.set[q.col]]
        BY <1>1, <2>2
      <3>2. q.set[q.col] \in Nodes \cup {None}
        BY DEF FK!NodesOf
      <3>3. /\ w[m] \in [Refs -> Nodes \cup {None}]
            /\ \A i \in Refs : w[m][i] = IF i = q.col THEN q.set[q.col] ELSE store[m][i]
        BY <1>2, <3>1, <3>2
      <3>4. QED
        BY <1>2, <2>2, <3>3 DEF FK!Row
    <2>3. QED
      BY <2>1, <2>2
  <1>4. DOMAIN w = DOMAIN store /\ w = [m \in DOMAIN w |-> w[m]]
    BY <1>1
  <1>5. w \in Stores
    BY <1>2, <1>3, <1>4, InStores
  <1>6. QED
    BY <1>3, <1>4, <1>5

\* The collection of a query is that of any of its documents.
LEMMA ChosenDoc ==
    ASSUME NEW q, NEW declared, Asked(q)
    PROVE  /\ \A n : q.on = {n} =>
                 FoundBy(q, declared) = { r \in declared : (IF q.op = "delete" THEN To ELSE From)[r] = CollOf[n] }
           /\ \A coll : q.on # {} /\ q.on \subseteq FK!NodesOf(coll) =>
                 FoundBy(q, declared) = { r \in declared : (IF q.op = "delete" THEN To ELSE From)[r] = coll }
  <1>1. \A n : q.on = {n} => (CHOOSE m \in q.on : TRUE) = n
    OBVIOUS
  <1>2. \A coll : q.on # {} /\ q.on \subseteq FK!NodesOf(coll) => CollOf[CHOOSE m \in q.on : TRUE] = coll
    BY DEF FK!NodesOf
  <1>3. QED
    BY <1>1, <1>2 DEF FoundBy

\* A write without a check keeps a reference where it does not set it, or sets
\* it to what exists.
LEMMA PlainKeeps ==
    ASSUME Premise, NEW q, Asked(q), q.op # "delete", FK!Plain(q).ok, NEW w, w = FK!Plain(q).view
    PROVE  /\ w \in Stores
           /\ \A r \in Refs :
                 /\ q.op = "insert" => From[r] # CollOf[CHOOSE n \in q.on : TRUE] \/ FK!TargetExists(q.set[r])
                 /\ q.op = "update" => q.col # r \/ FK!TargetExists(q.set[r])
                 /\ Holds(store, r)
                 => Holds(w, r)
  <1>1. store \in Stores /\ None \notin Nodes
    BY DEF Premise
  <1>2. CASE q.op = "insert"
    <2>1. PICK n \in Nodes : q.on = {n} /\ q.set \in FK!Row(n)
      BY <1>2 DEF Asked
    <2>2. n \notin DOMAIN store /\ w = FK!Inserted(q).view
      BY <1>2, <2>1 DEF FK!Plain, FK!Inserted, FK!Refused
    <2>3. /\ w \in Stores /\ DOMAIN w = DOMAIN store \cup {n} /\ w[n] = q.set
          /\ \A m \in DOMAIN store : w[m] = store[m]
      <3>1. store \in Stores
        BY <1>1
      <3>2. InsertedTo(q, n, w)
        BY <2>1, <2>2, <3>1, InsertedView
      <3>3. QED
        BY <3>2 DEF InsertedTo
    <2>4. (CHOOSE m \in q.on : TRUE) = n
      BY <2>1
    <2>5. ASSUME NEW r \in Refs, From[r] # CollOf[n] \/ FK!TargetExists(q.set[r]), Holds(store, r)
          PROVE  Holds(w, r)
      <3>1. w[n][r] \in DOMAIN store \cup {None}
        <4>1. CASE From[r] # CollOf[n]
          BY <2>3, <4>1, OfStores
        <4>2. CASE FK!TargetExists(q.set[r])
          BY <2>3, <4>2 DEF FK!TargetExists
        <4>3. QED
          BY <2>5, <4>1, <4>2
      <3>2. QED
        BY <2>3, <2>5, <3>1 DEF Holds
    <2>6. QED
      BY <1>2, <2>3, <2>4, <2>5
  <1>3. CASE q.op = "update"
    <2>1. /\ q.col \in Refs /\ q.set[q.col] \in FK!NodesOf(To[q.col]) \cup {None}
          /\ \E n \in Nodes : q.on = {n} /\ q.col \in FK!Columns(n)
      BY <1>3 DEF Asked
    <2>2. PICK n \in Nodes : q.on = {n} /\ q.col \in FK!Columns(n)
      BY <2>1
    <2>3. FK!Plain(q) = FK!Updated(q)
      BY <1>3 DEF FK!Plain
    <2>4. /\ w \in Stores /\ DOMAIN w = DOMAIN store
          /\ \A m \in DOMAIN store, i \in Refs :
                w[m][i] = IF m = n /\ i = q.col THEN q.set[q.col] ELSE store[m][i]
      BY <1>1, <2>1, <2>2, <2>3, UpdatedView
    <2>5. ASSUME NEW r \in Refs, q.col # r \/ FK!TargetExists(q.set[r]), Holds(store, r)
          PROVE  Holds(w, r)
      BY <2>4, <2>5 DEF Holds, FK!TargetExists
    <2>6. QED
      BY <1>3, <2>4, <2>5
  <1>4. QED
    BY <1>2, <1>3 DEF Asked

\* A write without a check is harmless where no constraint was found.
LEMMA PlainOutcome ==
    ASSUME Premise, NEW q, Asked(q), FK!Plain(q).ok, NEW w, w = FK!Plain(q).view
    PROVE  /\ w \in Stores
           /\ FoundBy(q, Range(refs)) = {} => \A r \in Range(refs) : Holds(store, r) => Holds(w, r)
  <1>1. store \in Stores /\ None \notin Nodes /\ Range(refs) \subseteq Refs
    BY DeclaredRefs DEF Premise
  <1>2. CASE q.op = "delete"
    <2>1. PICK coll : q.on # {} /\ q.on \subseteq FK!NodesOf(coll)
      BY <1>2 DEF Asked
    <2>2. w = FK!Without(store, q.on)
      BY <1>2 DEF FK!Plain, FK!Deleted
    <2>3. w \in Stores /\ DOMAIN w = DOMAIN store \ q.on /\ \A n \in DOMAIN w : w[n] = store[n]
      <3>1. PICK gone : gone = q.on
        OBVIOUS
      <3>2. w = FK!Without(store, gone)
        BY <2>2, <3>1
      <3>3. w \in Stores /\ DOMAIN w = DOMAIN store \ gone /\ \A n \in DOMAIN store \ gone : w[n] = store[n]
        BY <1>1, <3>2, WithoutSome
      <3>4. QED
        BY <3>1, <3>3
    <2>4. ASSUME FoundBy(q, Range(refs)) = {}, NEW r \in Range(refs), Holds(store, r)
          PROVE  Holds(w, r)
      <3>1. To[r] # coll
        BY <1>2, <2>1, <2>4, ChosenDoc
      <3>2. ASSUME NEW n \in DOMAIN w PROVE w[n][r] \in DOMAIN w \cup {None}
        <4>1. store[n][r] \in DOMAIN store \cup {None} /\ w[n] = store[n]
          BY <2>3, <2>4 DEF Holds
        <4>2. store[n][r] = None \/ CollOf[store[n][r]] = To[r]
          BY <1>1, <2>3, OfStores
        <4>3. store[n][r] = None \/ store[n][r] \notin q.on
          BY <2>1, <3>1, <4>2 DEF FK!NodesOf
        <4>4. QED
          BY <2>3, <4>1, <4>3
      <3>3. QED
        BY <3>2 DEF Holds
    <2>5. QED
      BY <2>3, <2>4
  <1>3. CASE q.op # "delete"
    <2>1. w \in Stores
      BY <1>3, PlainKeeps
    <2>2. ASSUME FoundBy(q, Range(refs)) = {}, NEW r \in Range(refs), Holds(store, r)
          PROVE  Holds(w, r)
      <3>1. PICK n \in Nodes : q.on = {n} /\ (q.op = "update" => q.col \in FK!Columns(n))
        BY <1>3 DEF Asked
      <3>2. (CHOOSE m \in q.on : TRUE) = n
        BY <3>1
      <3>3. From[r] # CollOf[n]
        BY <1>3, <2>2, <3>2 DEF FoundBy
      <3>4. q.op = "update" => q.col # r
        BY <3>1, <3>3 DEF FK!Columns
      <3>5. r \in Refs /\ From[r] # CollOf[CHOOSE m \in q.on : TRUE]
        BY <1>1, <3>2, <3>3
      <3>6. QED
        BY <1>3, <2>2, <3>4, <3>5, PlainKeeps
    <2>3. QED
      BY <2>1, <2>2
  <1>4. QED
    BY <1>2, <1>3

\* A delete that sweeps leaves references as sound as they were.
LEMMA SweptHolds ==
    ASSUME NEW s, NEW declared, NEW rules, NEW on, NEW view, Swept(s, declared, rules, on, view),
           declared \subseteq Refs, HasId = Nodes, NEW r \in declared, Holds(s, r)
    PROVE  Holds(view, r)
  BY DEF Swept, Holds

\* What the body of withTransaction computes.
LEMMA CheckedOutcome ==
    ASSUME Premise, IsFiniteSet(Nodes), NEW q, Asked(q), NEW outgoing, FK!Checked(q, outgoing).ok,
           NEW w, w = FK!Checked(q, outgoing).view
    PROVE  /\ w \in Stores
           /\ outgoing = FoundBy(q, Range(refs)) => Outcome(q, store, Range(refs), rule, w)
  <1>1. store \in Stores /\ None \notin Nodes /\ Range(refs) \subseteq Refs /\ FK!Declared = Range(refs)
    BY DeclaredRefs DEF Premise
  <1>2. CASE q.op = "delete"
    <2>1. FK!Checked(q, outgoing) = FK!DeleteCascaded(q)
      BY <1>2 DEF FK!Checked
    <2>2. w \in Stores /\ Swept(store, Range(refs), rule, q.on, w)
      BY <1>1, <2>1, DeleteSweeps
    <2>3. HasId = Nodes => \A r \in Range(refs) : Holds(store, r) => Holds(w, r)
      BY <1>1, <2>2, SweptHolds
    <2>4. QED
      BY <2>2, <2>3 DEF Outcome
  <1>3. CASE q.op # "delete"
    <2>1. /\ FK!Checked(q, outgoing) = FK!Plain(q)
          /\ \A r \in FK!Prechecked(q, outgoing) : FK!TargetExists(q.set[r])
      BY <1>3 DEF FK!Checked, FK!Refused
    <2>2. w \in Stores
      BY <1>3, <2>1, PlainKeeps
    <2>3. ASSUME outgoing = FoundBy(q, Range(refs)), NEW r \in Range(refs), Holds(store, r)
          PROVE  Holds(w, r)
      <3>1. PICK n \in Nodes : q.on = {n} /\ (q.op = "update" => q.col \in FK!Columns(n))
        BY <1>3 DEF Asked
      <3>2. (CHOOSE m \in q.on : TRUE) = n
        BY <3>1
      <3>3. r \in outgoing <=> From[r] = CollOf[n]
        BY <1>3, <2>3, <3>2 DEF FoundBy
      <3>4. q.op = "insert" => From[r] # CollOf[CHOOSE m \in q.on : TRUE] \/ FK!TargetExists(q.set[r])
        BY <2>1, <3>2, <3>3 DEF FK!Prechecked
      <3>5. q.op = "update" => q.col # r \/ FK!TargetExists(q.set[r])
        <4>1. q.op = "update" /\ q.col = r => r \in outgoing
          BY <3>1, <3>3 DEF FK!Columns
        <4>2. QED
          BY <2>1, <4>1 DEF FK!Prechecked
      <3>6. QED
        BY <1>1, <1>3, <2>1, <2>3, <3>4, <3>5, PlainKeeps
    <2>4. QED
      BY <1>3, <2>2, <2>3 DEF Outcome
  <1>4. QED
    BY <1>2, <1>3

-----------------------------------------------------------------------------
(* MongoReferences.  The steps. *)

Loading(s, at, found) == [s EXCEPT !.at = at, !.outgoing = found]

Holding(s, at, view, writes) == [s EXCEPT !.at = at, !.view = view, !.writes = writes]

LEMMA SlotLoading ==
    ASSUME NEW s \in Slot, NEW at \in Places, NEW found \in SUBSET Refs
    PROVE  /\ Loading(s, at, found) \in Slot /\ Loading(s, at, found).at = at
           /\ Loading(s, at, found).outgoing = found /\ Loading(s, at, found).query = s.query
  <1>1. PICK p : p = Loading(s, at, found)
    OBVIOUS
  <1>2. p \in [at : {at}, query : {s.query}, outgoing : {found}, view : Stores, writes : SUBSET Nodes]
    BY <1>1 DEF Slot, Loading
  <1>3. s.query \in FK!Query
    BY DEF Slot
  <1>4. QED
    BY <1>1, <1>2, <1>3 DEF Slot

LEMMA SlotHolding ==
    ASSUME NEW s \in Slot, NEW at \in Places, NEW view \in Stores, NEW writes \in SUBSET Nodes
    PROVE  /\ Holding(s, at, view, writes) \in Slot /\ Holding(s, at, view, writes).at = at
           /\ Holding(s, at, view, writes).outgoing = s.outgoing
           /\ Holding(s, at, view, writes).query = s.query
           /\ Holding(s, at, view, writes).view = view /\ Holding(s, at, view, writes).writes = writes
  <1>1. PICK p : p = Holding(s, at, view, writes)
    OBVIOUS
  <1>2. p \in [at : {at}, query : {s.query}, outgoing : {s.outgoing}, view : {view}, writes : {writes}]
    BY <1>1 DEF Slot, Holding
  <1>3. s.query \in FK!Query /\ s.outgoing \in SUBSET Refs
    BY DEF Slot
  <1>4. QED
    BY <1>1, <1>2, <1>3 DEF Slot

\* A client moves to slot p.
Moves(c, p) == client' \in [Clients -> Slot] /\ client'[c] = p /\ \A d \in Clients \ {c} : client'[d] = client[d]

LEMMA MovesTo ==
    ASSUME Typed, NEW c \in Clients, NEW p \in Slot, client' = [client EXCEPT ![c] = p]
    PROVE  Moves(c, p)
  BY DEF Typed, Moves

\* loadRefs finds what is declared;
LEMMA LoadKeeps == ASSUME FkInv, NEW c \in Clients, FK!Load(c) PROVE FkInv'
  <1>1. Typed /\ client[c] \in Slot /\ FK!Declared = Range(refs) /\ Range(refs) \subseteq Refs
    BY DeclaredRefs DEF FkInv, Typed
  <1>2. PICK q : q = client[c].query
    OBVIOUS
  <1>3. PICK found : found = FoundBy(q, Range(refs))
    OBVIOUS
  <1>4. PICK at : at = IF found = {} THEN "plain" ELSE "begin"
    OBVIOUS
  <1>5. found \in SUBSET Refs /\ at \in Places
    BY <1>1, <1>3, <1>4 DEF FoundBy, Places
  <1>6. /\ client[c].at = "load"
        /\ client' = [client EXCEPT ![c] = Loading(client[c], at, found)]
        /\ UNCHANGED <<store, refs, rule, changed, stale, unchecked, queries>>
    <2>1. { r \in FK!Declared : (IF q.op = "delete" THEN To ELSE From)[r] = CollOf[CHOOSE n \in q.on : TRUE] } = found
      BY <1>1, <1>3 DEF FoundBy
    <2>2. /\ client[c].at = "load"
          /\ client' = [client EXCEPT ![c].at = IF found = {} THEN "plain" ELSE "begin", ![c].outgoing = found]
          /\ UNCHANGED <<store, refs, rule, changed, stale, unchecked, queries>>
      <3>1. client[c].at = "load" /\ UNCHANGED <<store, refs, rule, changed, stale, unchecked, queries>>
        BY DEF FK!Load
      <3>2. client' = [client EXCEPT ![c].at = IF found = {} THEN "plain" ELSE "begin", ![c].outgoing = found]
        BY <1>2, <2>1, ZenonT(40) DEF FK!Load
      <3>3. QED
        BY <3>1, <3>2
    <2>3. QED
      BY <1>1, <1>4, <2>2 DEF Loading, Typed
  <1>7. PICK p : p = Loading(client[c], at, found)
    OBVIOUS
  <1>8. p \in Slot /\ p.at = at /\ p.outgoing = found /\ p.query = q
    BY <1>1, <1>2, <1>5, <1>7, SlotLoading
  <1>9. Moves(c, p)
    BY <1>1, <1>6, <1>7, <1>8, MovesTo
  <1>10. Sensible(p)
    <2>1. Asked(q)
      BY <1>2, <1>6 DEF FkInv, Sensible
    <2>2. QED
      BY <1>4, <1>8, <2>1 DEF Sensible
  <1>11. Current(p, store, Range(refs), rule)
    BY <1>3, <1>4, <1>8 DEF Current
  <1>12. QED
    BY <1>6, <1>9, <1>10, <1>11, Moved DEF Moves, FkInv, Typed

\* the body of a transaction computes a view;
LEMMA BeginKeeps == ASSUME FkInv, NEW c \in Clients, FK!Begin(c) PROVE FkInv'
  <1>1. Typed /\ client[c] \in Slot /\ Premise /\ IsFiniteSet(Nodes)
    BY InvPremise DEF FkInv, Typed
  <1>2. PICK q, outgoing : q = client[c].query /\ outgoing = client[c].outgoing
    OBVIOUS
  <1>3. /\ client[c].at = "begin" /\ Asked(q)
        /\ UNCHANGED <<store, refs, rule, unchecked, queries>>
    BY <1>2 DEF FK!Begin, FkInv, Sensible
  <1>4. CASE FK!Checked(q, outgoing).ok
    <2>1. PICK w : w = FK!Checked(q, outgoing).view
      OBVIOUS
    <2>2. w \in Stores /\ (outgoing = FoundBy(q, Range(refs)) => Outcome(q, store, Range(refs), rule, w))
      BY <1>1, <1>3, <1>4, <2>1, CheckedOutcome
    <2>3. PICK d : d = FK!Diff(store, w)
      OBVIOUS
    <2>4. d \in SUBSET Nodes
      BY <2>3 DEF FK!Diff
    <2>5. client' = [client EXCEPT ![c] = Holding(client[c], "commit", w, d)] /\ UNCHANGED <<changed, stale>>
      <3>1. /\ client' = [client EXCEPT ![c].at = "commit", ![c].view = w, ![c].writes = d]
            /\ UNCHANGED <<changed, stale>>
        BY <1>2, <1>4, <2>1, <2>3 DEF FK!Begin
      <3>2. QED
        BY <1>1, <3>1 DEF Holding, Typed
    <2>6. PICK p : p = Holding(client[c], "commit", w, d)
      OBVIOUS
    <2>7. p \in Slot /\ p.at = "commit" /\ p.outgoing = outgoing /\ p.query = q /\ p.view = w /\ p.writes = d
      <3>1. "commit" \in Places
        BY DEF Places
      <3>2. QED
        BY <1>1, <1>2, <2>2, <2>4, <2>6, <3>1, SlotHolding
    <2>8. Moves(c, p)
      BY <1>1, <2>5, <2>6, <2>7, MovesTo
    <2>9. Sensible(p)
      BY <1>3, <2>7 DEF Sensible
    <2>10. c \notin stale => Current(p, store, Range(refs), rule)
      <3>1. c \notin stale => outgoing = FoundBy(q, Range(refs))
        BY <1>2, <1>3 DEF FkInv, Current
      <3>2. QED
        BY <2>2, <2>3, <2>7, <3>1 DEF Current
    <2>11. QED
      BY <1>3, <2>5, <2>8, <2>9, <2>10, Moved DEF Moves, FkInv, Typed
  <1>5. CASE ~FK!Checked(q, outgoing).ok
    <2>1. FK!GiveUp(c)
      BY <1>2, <1>5 DEF FK!Begin
    <2>2. Current(client'[c], store, Range(refs), rule)
      BY <1>1, <2>1, GivenUp DEF Current
    <2>3. QED
      BY <1>1, <1>3, <2>1, <2>2, GivenUp, Moved DEF FkInv, Typed
  <1>6. QED
    BY <1>4, <1>5

\* which is thrown away on a conflict;
LEMMA RetryKeeps == ASSUME FkInv, NEW c \in Clients, FK!Retry(c) PROVE FkInv'
  <1>1. Typed /\ client[c] \in Slot
    BY DEF FkInv, Typed
  <1>2. /\ client[c].at = "commit"
        /\ client' = [client EXCEPT ![c].at = "begin", ![c].view = <<>>, ![c].writes = {}]
        /\ changed' = [changed EXCEPT ![c] = {}]
        /\ UNCHANGED <<store, refs, rule, stale, unchecked, queries>>
    BY DEF FK!Retry
  <1>3. client' = [client EXCEPT ![c] = Holding(client[c], "begin", <<>>, {})]
    BY <1>1, <1>2 DEF Holding, Typed
  <1>4. PICK p : p = Holding(client[c], "begin", <<>>, {})
    OBVIOUS
  <1>5. p \in Slot /\ p.at = "begin" /\ p.outgoing = client[c].outgoing /\ p.query = client[c].query
    <2>1. "begin" \in Places /\ <<>> \in Stores /\ {} \in SUBSET Nodes
      BY EmptyStore DEF Places
    <2>2. QED
      BY <1>1, <1>4, <2>1, SlotHolding
  <1>6. Moves(c, p)
    BY <1>1, <1>3, <1>4, <1>5, MovesTo
  <1>7. Sensible(p)
    BY <1>2, <1>5 DEF Sensible, FkInv
  <1>8. c \notin stale => Current(p, store, Range(refs), rule)
    BY <1>2, <1>5 DEF Current, FkInv
  <1>9. changed' \in [Clients -> SUBSET Nodes]
    BY <1>1, <1>2 DEF Typed
  <1>10. QED
    BY <1>2, <1>6, <1>7, <1>8, <1>9, Moved DEF Moves, FkInv, Typed

\* or lost with its process.
LEMMA CrashKeeps == ASSUME FkInv, NEW c \in Clients, FK!Crash(c) PROVE FkInv'
  <1>1. Typed
    BY DEF FkInv
  <1>2. /\ FK!GiveUp(c) /\ UNCHANGED <<store, refs, rule, queries>>
        /\ unchecked' = unchecked \cup (IF client[c].at = "purge" THEN {"crash"} ELSE {})
    BY DEF FK!Crash
  <1>3. Current(client'[c], store, Range(refs), rule)
    BY <1>1, <1>2, GivenUp DEF Current
  <1>4. unchecked' \subseteq Ways /\ unchecked \subseteq unchecked' /\ (client[c].at = "purge" => unchecked' # {})
    BY <1>1, <1>2 DEF Typed, Ways
  <1>5. QED
    BY <1>1, <1>2, <1>3, <1>4, GivenUp, Moved DEF Typed

\* The writes of a view over the database it was made from give that view.
LEMMA MergedViews ==
    ASSUME store \in Stores, NEW view \in Stores, NEW docs \in SUBSET Nodes
    PROVE  /\ FK!Merged(view, docs) \in Stores
           /\ docs = FK!Diff(store, view) => FK!Merged(view, docs) = view
  <1>1. PICK w : w = FK!Merged(view, docs)
    OBVIOUS
  <1>2. w = [n \in (DOMAIN store \ docs) \cup (DOMAIN view \cap docs) |-> IF n \in docs THEN view[n] ELSE store[n]]
    BY <1>1 DEF FK!Merged
  <1>3. /\ DOMAIN w = (DOMAIN store \ docs) \cup (DOMAIN view \cap docs)
        /\ \A n \in DOMAIN w : w[n] = IF n \in docs THEN view[n] ELSE store[n]
        /\ w = [n \in DOMAIN w |-> w[n]]
    BY <1>2
  <1>4. DOMAIN w \subseteq Nodes /\ \A n \in DOMAIN w : w[n] \in FK!Row(n)
    BY <1>3, OfStores
  <1>5. w \in Stores
    BY <1>3, <1>4, InStores
  <1>6. ASSUME docs = FK!Diff(store, view) PROVE w = view
    <2>1. DOMAIN store \subseteq Nodes /\ DOMAIN view \subseteq Nodes /\ view = [n \in DOMAIN view |-> view[n]]
      BY OfStores
    <2>2. DOMAIN w = DOMAIN view
      BY <1>3, <1>6, <2>1 DEF FK!Diff
    <2>3. \A n \in DOMAIN view : w[n] = view[n]
      BY <1>3, <1>6, <2>1, <2>2 DEF FK!Diff
    <2>4. QED
      BY <1>3, <2>1, <2>2, <2>3
  <1>7. QED
    BY <1>1, <1>5, <1>6

\* A collection being purged still is, when another client goes on.
LEMMA PurgingStays ==
    ASSUME NEW c \in Clients, NEW r, client[c].at # "purge", \A d \in Clients \ {c} : client'[d] = client[d],
           Purging(client, r)
    PROVE  Purging(client', r)
  BY DEF Purging

\* A statement of its own, and a commit.
LEMMA ExecuteKeeps == ASSUME FkInv, NEW c \in Clients, FK!Execute(c) PROVE FkInv'
  <1>1. Typed /\ Premise /\ store \in Stores
    BY InvPremise DEF FkInv, Typed
  <1>2. PICK q : q = client[c].query
    OBVIOUS
  <1>3. client[c].at = "plain" /\ Asked(q) /\ UNCHANGED <<refs, rule, queries>>
    BY <1>2 DEF FK!Execute, FkInv, Sensible
  <1>4. CASE FK!Plain(q).ok
    <2>1. PICK w : w = FK!Plain(q).view
      OBVIOUS
    <2>2. w \in Stores /\ (FoundBy(q, Range(refs)) = {} => \A r \in Range(refs) : Holds(store, r) => Holds(w, r))
      BY <1>1, <1>3, <1>4, <2>1, PlainOutcome
    <2>3. /\ FK!Finish(c) /\ store' = w /\ FK!Note(c, FK!Diff(store, w))
          /\ unchecked' = unchecked \cup (IF c \in stale THEN {"race"} ELSE {})
      BY <1>2, <1>4, <2>1 DEF FK!Execute
    <2>4. FK!Diff(store, w) \in SUBSET Nodes
      BY DEF FK!Diff
    <2>5. changed' \in [Clients -> SUBSET Nodes] /\ stale' = FK!Working \ {c}
      BY <1>1, <2>3, <2>4, Noted
    <2>6. unchecked' \subseteq Ways
      BY <1>1, <2>3 DEF Typed, Ways
    <2>7. /\ client' \in [Clients -> Slot] /\ \A d \in Clients \ {c} : client'[d] = client[d]
          /\ client'[c].at = "idle" /\ Sensible(client'[c])
      BY <1>1, <2>3, Finished
    <2>8. ASSUME HasId = Nodes, unchecked' = {}, NEW r \in Range(refs') PROVE Purging(client', r) \/ Holds(store', r)
      <3>1. c \notin stale /\ unchecked = {} /\ r \in Range(refs)
        BY <1>3, <2>3, <2>8
      <3>2. FoundBy(q, Range(refs)) = {}
        BY <1>2, <1>3, <3>1 DEF FkInv, Current
      <3>3. Purging(client, r) \/ Holds(store, r)
        BY <2>8, <3>1 DEF FkInv
      <3>4. Purging(client, r) => Purging(client', r)
        BY <1>3, <2>7, PurgingStays
      <3>5. QED
        BY <2>2, <2>3, <3>1, <3>2, <3>3, <3>4
    <2>9. refs' \in Seq(Refs) /\ IsInjective(refs') /\ rule' = rule /\ queries' \in 0..MaxQueries
      BY <1>1, <1>3 DEF Typed
    <2>10. QED
      BY <2>2, <2>3, <2>5, <2>6, <2>7, <2>8, <2>9, Wrote
  <1>5. CASE ~FK!Plain(q).ok
    <2>1. FK!GiveUp(c) /\ UNCHANGED <<store, unchecked>>
      BY <1>2, <1>5 DEF FK!Execute
    <2>2. Current(client'[c], store, Range(refs), rule)
      BY <1>1, <2>1, GivenUp DEF Current
    <2>3. QED
      BY <1>1, <1>3, <2>1, <2>2, GivenUp, Moved DEF Typed
  <1>6. QED
    BY <1>4, <1>5

\* An undisturbed commit puts its view in place.
LEMMA CommitOutcome ==
    ASSUME FkInv, NEW c \in Clients, FK!Commit(c)
    PROVE  /\ store' \in Stores
           /\ c \notin stale => Outcome(client[c].query, store, Range(refs), rule, store')
  <1>1. store \in Stores /\ client[c] \in Slot
    BY DEF FkInv, Typed
  <1>2. PICK view, docs : view = client[c].view /\ docs = client[c].writes
    OBVIOUS
  <1>3. view \in Stores /\ docs \in SUBSET Nodes /\ store' = FK!Merged(view, docs) /\ client[c].at = "commit"
    BY <1>1, <1>2 DEF Slot, FK!Commit
  <1>4. store' \in Stores /\ (docs = FK!Diff(store, view) => store' = view)
    BY <1>1, <1>3, MergedViews
  <1>5. c \notin stale => docs = FK!Diff(store, view) /\ Outcome(client[c].query, store, Range(refs), rule, view)
    BY <1>2, <1>3 DEF FkInv, Current
  <1>6. QED
    BY <1>4, <1>5

LEMMA CommitKeeps == ASSUME FkInv, NEW c \in Clients, FK!Commit(c) PROVE FkInv'
  <1>1. Typed
    BY DEF FkInv
  <1>2. /\ client[c].at = "commit" /\ FK!Note(c, client[c].writes) /\ FK!Finish(c)
        /\ unchecked' = unchecked \cup (IF c \in stale THEN {"race"} ELSE {})
        /\ UNCHANGED <<refs, rule, queries>>
    BY DEF FK!Commit
  <1>3. client[c].writes \in SUBSET Nodes
    BY <1>1 DEF Typed, Slot
  <1>4. changed' \in [Clients -> SUBSET Nodes] /\ stale' = FK!Working \ {c}
    BY <1>1, <1>2, <1>3, Noted
  <1>5. unchecked' \subseteq Ways
    BY <1>1, <1>2 DEF Typed, Ways
  <1>6. /\ client' \in [Clients -> Slot] /\ \A d \in Clients \ {c} : client'[d] = client[d]
        /\ client'[c].at = "idle" /\ Sensible(client'[c])
    BY <1>1, <1>2, Finished
  <1>7. store' \in Stores /\ (c \notin stale => Outcome(client[c].query, store, Range(refs), rule, store'))
    BY CommitOutcome
  <1>8. ASSUME HasId = Nodes, unchecked' = {}, NEW r \in Range(refs') PROVE Purging(client', r) \/ Holds(store', r)
    <2>1. c \notin stale /\ unchecked = {} /\ r \in Range(refs)
      BY <1>2, <1>8
    <2>2. Purging(client, r) \/ Holds(store, r)
      BY <1>8, <2>1 DEF FkInv
    <2>3. Purging(client, r) => Purging(client', r)
      BY <1>2, <1>6, PurgingStays
    <2>4. Holds(store, r) => Holds(store', r)
      BY <1>7, <1>8, <2>1 DEF Outcome
    <2>5. QED
      BY <2>2, <2>3, <2>4
  <1>9. refs' \in Seq(Refs) /\ IsInjective(refs') /\ rule' = rule /\ queries' \in 0..MaxQueries
    BY <1>1, <1>2 DEF Typed
  <1>10. QED
    BY <1>4, <1>5, <1>6, <1>7, <1>8, <1>9, Wrote

\* A client that stays idle.
LEMMA StaysIdle ==
    ASSUME FkInv, NEW c \in Clients, client[c].at = "idle", client' = client
    PROVE  /\ client' \in [Clients -> Slot] /\ \A d \in Clients \ {c} : client'[d] = client[d]
           /\ client'[c].at \in {"idle", "purge"} /\ Sensible(client'[c])
           /\ \A r : Purging(client, r) => Purging(client', r)
  BY DEF FkInv, Typed

\* The bound on queries.
LEMMA QueryCounted ==
    ASSUME FkInv, queries < MaxQueries, queries' = queries + 1
    PROVE  queries' \in 0..MaxQueries
  BY SettingFacts DEF FkInv, Typed

\* A write in a block goes round the checks and is recorded as such.
LEMMA BlockKeeps == ASSUME FkInv, NEW c \in Clients, FK!Block(c) PROVE FkInv'
  <1>1. Typed /\ Premise /\ store \in Stores
    BY InvPremise DEF FkInv, Typed
  <1>2. PICK op \in {"insert", "delete"}, n \in Nodes :
          /\ client[c].at = "idle" /\ queries < MaxQueries
          /\ FK!Plain([FK!NoQuery EXCEPT !.op = op, !.on = {n}]).ok
          /\ store' = FK!Plain([FK!NoQuery EXCEPT !.op = op, !.on = {n}]).view
          /\ FK!Note(c, {n})
          /\ unchecked' = unchecked \cup {"block"}
          /\ queries' = queries + 1
          /\ UNCHANGED <<refs, rule, client>>
    BY DEF FK!Block
  <1>3. PICK q : q = [FK!NoQuery EXCEPT !.op = op, !.on = {n}]
    OBVIOUS
  <1>4. q \in [op : {op}, on : {{n}}, col : {None}, set : {[r \in Refs |-> None]}]
    BY <1>3 DEF FK!NoQuery
  <1>5. q.op = op /\ q.on = {n} /\ q.set = [r \in Refs |-> None]
    BY <1>4
  <1>6. Asked(q)
    <2>1. [r \in Refs |-> None] \in FK!Row(n)
      BY DEF FK!Row
    <2>2. {n} \subseteq FK!NodesOf(CollOf[n])
      BY DEF FK!NodesOf
    <2>3. QED
      BY <1>5, <2>1, <2>2 DEF Asked
  <1>7. PICK w : w = FK!Plain(q).view
    OBVIOUS
  <1>8. w \in Stores /\ store' = w
    <2>1. FK!Plain(q).ok /\ store' = FK!Plain(q).view
      BY <1>2, <1>3
    <2>2. QED
      BY <1>1, <1>6, <1>7, <2>1, PlainOutcome
  <1>9. changed' \in [Clients -> SUBSET Nodes] /\ stale' = FK!Working \ {c}
    BY <1>1, <1>2, Noted
  <1>10. unchecked' \subseteq Ways /\ unchecked' # {}
    BY <1>1, <1>2 DEF Typed, Ways
  <1>11. queries' \in 0..MaxQueries
    BY <1>2, QueryCounted
  <1>12. refs' \in Seq(Refs) /\ IsInjective(refs') /\ rule' = rule
    BY <1>1, <1>2 DEF Typed
  <1>13. /\ client' \in [Clients -> Slot] /\ \A d \in Clients \ {c} : client'[d] = client[d]
         /\ client'[c].at \in {"idle", "purge"} /\ Sensible(client'[c])
    BY <1>2, StaysIdle
  <1>14. QED
    BY <1>8, <1>9, <1>10, <1>11, <1>12, <1>13, Wrote

\* A dropped collection takes its documents; constraints about it wait for their purge,
LEMMA DropKeeps == ASSUME FkInv, NEW c \in Clients, FK!DropCollection(c) PROVE FkInv'
  <1>1. Typed /\ store \in Stores /\ client[c] \in Slot
    BY DEF FkInv, Typed
  <1>2. PICK coll \in FK!Colls :
          /\ client[c].at = "idle" /\ queries < MaxQueries
          /\ FK!NodesOf(coll) \cap DOMAIN store # {}
          /\ store' = FK!Without(store, FK!NodesOf(coll))
          /\ FK!Note(c, FK!NodesOf(coll))
          /\ client' = [client EXCEPT ![c].at = "purge",
                           ![c].query = [FK!NoQuery EXCEPT !.op = "drop", !.on = FK!NodesOf(coll)]]
          /\ queries' = queries + 1
          /\ UNCHANGED <<refs, rule, unchecked>>
    BY DEF FK!DropCollection
  <1>3. PICK docs : docs = FK!NodesOf(coll)
    OBVIOUS
  <1>4. docs \in SUBSET Nodes /\ docs # {} /\ \A n \in Nodes : n \in docs <=> CollOf[n] = coll
    BY <1>2, <1>3 DEF FK!NodesOf
  <1>5. PICK q : q = [FK!NoQuery EXCEPT !.op = "drop", !.on = docs]
    OBVIOUS
  <1>6. q \in FK!Query /\ q.on = docs
    <2>1. q \in [op : {"drop"}, on : {docs}, col : {None}, set : {[r \in Refs |-> None]}]
      BY <1>5 DEF FK!NoQuery
    <2>2. QED
      BY <1>4, <2>1 DEF FK!Query
  <1>7. PICK p : p = Asking(client[c], "purge", q)
    OBVIOUS
  <1>8. p \in Slot /\ p.at = "purge" /\ p.query = q
    <2>1. "purge" \in Places
      BY DEF Places
    <2>2. QED
      BY <1>1, <1>6, <1>7, <2>1, SlotAsked
  <1>9. client' = [client EXCEPT ![c] = p]
    BY <1>1, <1>2, <1>3, <1>5, <1>7 DEF Asking, Typed
  <1>10. Moves(c, p)
    BY <1>1, <1>8, <1>9, MovesTo
  <1>11. Sensible(p)
    BY <1>3, <1>4, <1>6, <1>8 DEF Sensible
  <1>12. changed' \in [Clients -> SUBSET Nodes] /\ stale' = FK!Working \ {c}
    BY <1>1, <1>2, <1>3, <1>4, Noted
  <1>13. store' \in Stores /\ DOMAIN store' = DOMAIN store \ docs /\ \A n \in DOMAIN store' : store'[n] = store[n]
    <2>1. PICK w : w = FK!Without(store, docs)
      OBVIOUS
    <2>2. w \in Stores /\ DOMAIN w = DOMAIN store \ docs /\ \A n \in DOMAIN store \ docs : w[n] = store[n]
      BY <1>1, <2>1, WithoutSome
    <2>3. store' = w
      BY <1>2, <1>3, <2>1
    <2>4. QED
      BY <2>2, <2>3
  <1>14. ASSUME HasId = Nodes, unchecked' = {}, NEW r \in Range(refs') PROVE Purging(client', r) \/ Holds(store', r)
    <2>1. r \in Range(refs) /\ r \in Refs /\ (Purging(client, r) \/ Holds(store, r))
      BY <1>1, <1>2, <1>14, DeclaredRefs DEF FkInv, Typed
    <2>2. Purging(client, r) => Purging(client', r)
      BY <1>2, <1>10, PurgingStays DEF Moves
    <2>3. CASE coll \in {From[r], To[r]}
      BY <1>4, <1>6, <1>8, <1>10, <2>3 DEF Purging, Moves
    <2>4. ASSUME coll \notin {From[r], To[r]}, Holds(store, r) PROVE Holds(store', r)
      <3>1. ASSUME NEW n \in DOMAIN store' PROVE store'[n][r] \in DOMAIN store' \cup {None}
        <4>1. n \in DOMAIN store /\ store'[n] = store[n] /\ store[n][r] \in DOMAIN store \cup {None}
          BY <1>13, <2>4 DEF Holds
        <4>2. \/ store[n][r] = None
              \/ CollOf[store[n][r]] = To[r] /\ store[n][r] \in Nodes
          <5>1. PICK s \in Stores : s = store
            BY <1>1
          <5>2. \/ s[n][r] = None
                \/ From[r] = CollOf[n] /\ s[n][r] \in Nodes /\ CollOf[s[n][r]] = To[r]
            BY <2>1, <4>1, <5>1, OfStores
          <5>3. QED
            BY <5>1, <5>2
        <4>3. store[n][r] = None \/ store[n][r] \notin docs
          BY <1>4, <2>4, <4>2
        <4>4. QED
          BY <1>13, <4>1, <4>3
      <3>2. QED
        BY <3>1 DEF Holds
    <2>5. QED
      BY <2>1, <2>2, <2>3, <2>4
  <1>15. queries' \in 0..MaxQueries
    BY <1>2, QueryCounted
  <1>16. refs' \in Seq(Refs) /\ IsInjective(refs') /\ rule' = rule /\ unchecked' \subseteq Ways
    BY <1>1, <1>2 DEF Typed
  <1>17. QED
    BY <1>8, <1>10, <1>11, <1>12, <1>13, <1>14, <1>15, <1>16, Wrote DEF Moves

\* which removes them.
LEMMA PurgeKeeps == ASSUME FkInv, NEW c \in Clients, FK!PurgeRefs(c) PROVE FkInv'
  <1>1. Typed /\ refs \in Seq(Refs) /\ IsInjective(refs) /\ FK!Declared = Range(refs)
    BY DeclaredRefs DEF FkInv, Typed
  <1>2. PICK coll : coll = CollOf[CHOOSE n \in client[c].query.on : TRUE]
    OBVIOUS
  <1>3. PICK S : S = { r \in Refs : coll \notin {From[r], To[r]} }
    OBVIOUS
  <1>4. /\ client[c].at = "purge" /\ refs' = FK!Kept(S) /\ FK!Note(c, {}) /\ FK!Finish(c)
        /\ UNCHANGED <<store, rule, unchecked, queries>>
    BY <1>2, <1>3 DEF FK!PurgeRefs
  <1>5. refs' \in Seq(Refs) /\ IsInjective(refs') /\ Range(refs') = Range(refs) \cap S
    BY <1>1, <1>4, KeptSequence
  <1>6. \A n \in client[c].query.on : CollOf[n] = coll
    <2>1. client[c].query.on # {} /\ \E k : client[c].query.on = FK!NodesOf(k)
      BY <1>4 DEF FkInv, Sensible
    <2>2. PICK k, on : on = client[c].query.on /\ on = FK!NodesOf(k) /\ on # {}
      BY <2>1
    <2>3. (CHOOSE n \in on : TRUE) \in on /\ \A n \in on : CollOf[n] = k
      BY <2>2 DEF FK!NodesOf
    <2>4. QED
      BY <1>2, <2>2, <2>3
  <1>7. changed' \in [Clients -> SUBSET Nodes] /\ stale' = FK!Working \ {c}
    BY <1>1, <1>4, Noted
  <1>8. /\ client' \in [Clients -> Slot] /\ \A d \in Clients \ {c} : client'[d] = client[d]
        /\ client'[c].at = "idle" /\ Sensible(client'[c])
    BY <1>1, <1>4, Finished
  <1>9. ASSUME HasId = Nodes, unchecked' = {}, NEW r \in Range(refs') PROVE Purging(client', r) \/ Holds(store', r)
    <2>1. r \in Range(refs) /\ coll \notin {From[r], To[r]} /\ (Purging(client, r) \/ Holds(store, r))
      BY <1>3, <1>4, <1>5, <1>9 DEF FkInv
    <2>2. CASE Purging(client, r)
      <3>1. PICK d \in Clients : /\ client[d].at = "purge"
                                 /\ \E n \in client[d].query.on : CollOf[n] \in {From[r], To[r]}
        BY <2>2 DEF Purging
      <3>2. d # c
        BY <1>6, <2>1, <3>1
      <3>3. QED
        BY <1>8, <3>1, <3>2 DEF Purging
    <2>3. CASE Holds(store, r)
      BY <1>4, <2>3
    <2>4. QED
      BY <2>1, <2>2, <2>3
  <1>10. store' \in Stores /\ rule' = rule /\ unchecked' \subseteq Ways /\ queries' \in 0..MaxQueries
    BY <1>1, <1>4 DEF Typed
  <1>11. QED
    BY <1>5, <1>7, <1>8, <1>9, <1>10, Wrote

\* A declaration added, and one removed.
LEMMA StoreRefKeeps == ASSUME FkInv, NEW c \in Clients, FK!StoreRef(c) PROVE FkInv'
  <1>1. Typed /\ store \in Stores /\ refs \in Seq(Refs) /\ IsInjective(refs) /\ FK!Declared = Range(refs)
    BY DeclaredRefs DEF FkInv, Typed
  <1>2. PICK r \in Refs :
          /\ client[c].at = "idle" /\ queries < MaxQueries
          /\ refs' = FK!Upserted(r)
          /\ FK!Note(c, {})
          /\ unchecked' = unchecked \cup
                (IF \E n \in DOMAIN store : r \in FK!Columns(n) /\ store[n][r] # None THEN {"late"} ELSE {})
          /\ queries' = queries + 1
          /\ UNCHANGED <<store, rule, client>>
    BY DEF FK!StoreRef
  <1>3. refs' \in Seq(Refs) /\ IsInjective(refs') /\ Range(refs') \subseteq Range(refs) \cup {r}
    <2>1. /\ Append(refs, r) \in Seq(Refs) /\ Range(Append(refs, r)) = Range(refs) \cup {r}
          /\ r \notin Range(refs) => IsInjective(Append(refs, r))
      BY <1>1, Appended
    <2>2. CASE r \in Range(refs)
      BY <1>1, <1>2, <2>2 DEF FK!Upserted
    <2>3. CASE r \notin Range(refs)
      <3>1. refs' = Append(refs, r)
        BY <1>1, <1>2, <2>3 DEF FK!Upserted
      <3>2. QED
        BY <2>1, <2>3, <3>1
    <2>4. QED
      BY <2>2, <2>3
  <1>4. changed' \in [Clients -> SUBSET Nodes] /\ stale' = FK!Working \ {c}
    BY <1>1, <1>2, Noted
  <1>5. /\ client' \in [Clients -> Slot] /\ \A d \in Clients \ {c} : client'[d] = client[d]
        /\ client'[c].at \in {"idle", "purge"} /\ Sensible(client'[c])
        /\ \A i : Purging(client, i) => Purging(client', i)
    BY <1>2, StaysIdle
  <1>6. ASSUME HasId = Nodes, unchecked' = {}, NEW i \in Range(refs') PROVE Purging(client', i) \/ Holds(store', i)
    <2>1. unchecked = {} /\ ~\E n \in DOMAIN store : r \in FK!Columns(n) /\ store[n][r] # None
      BY <1>2, <1>6
    <2>2. CASE i \in Range(refs)
      BY <1>2, <1>5, <1>6, <2>1, <2>2 DEF FkInv
    <2>3. CASE i = r
      <3>1. \A n \in DOMAIN store : store[n][r] = None
        BY <1>1, <1>2, <2>1, OfStores DEF FK!Columns
      <3>2. QED
        BY <1>2, <2>3, <3>1 DEF Holds
    <2>4. QED
      BY <1>3, <1>6, <2>2, <2>3
  <1>7. queries' \in 0..MaxQueries
    BY <1>2, QueryCounted
  <1>8. store' \in Stores /\ rule' = rule /\ unchecked' \subseteq Ways
    BY <1>1, <1>2 DEF Typed, Ways
  <1>9. QED
    BY <1>3, <1>4, <1>5, <1>6, <1>7, <1>8, Wrote

LEMMA DropRefKeeps == ASSUME FkInv, NEW c \in Clients, FK!DropRef(c) PROVE FkInv'
  <1>1. Typed /\ store \in Stores /\ refs \in Seq(Refs) /\ IsInjective(refs)
    BY DEF FkInv, Typed
  <1>2. PICK r \in FK!Declared :
          /\ client[c].at = "idle" /\ queries < MaxQueries
          /\ refs' = FK!Kept(Refs \ {r})
          /\ FK!Note(c, {})
          /\ queries' = queries + 1
          /\ UNCHANGED <<store, rule, client, unchecked>>
    BY DEF FK!DropRef
  <1>3. refs' \in Seq(Refs) /\ IsInjective(refs') /\ Range(refs') \subseteq Range(refs)
    BY <1>1, <1>2, KeptSequence, DeclaredRefs
  <1>4. changed' \in [Clients -> SUBSET Nodes] /\ stale' = FK!Working \ {c}
    BY <1>1, <1>2, Noted
  <1>5. /\ client' \in [Clients -> Slot] /\ \A d \in Clients \ {c} : client'[d] = client[d]
        /\ client'[c].at \in {"idle", "purge"} /\ Sensible(client'[c])
        /\ \A i : Purging(client, i) => Purging(client', i)
    BY <1>2, StaysIdle
  <1>6. ASSUME HasId = Nodes, unchecked' = {}, NEW i \in Range(refs') PROVE Purging(client', i) \/ Holds(store', i)
    BY <1>2, <1>3, <1>5, <1>6 DEF FkInv
  <1>7. queries' \in 0..MaxQueries
    BY <1>2, QueryCounted
  <1>8. store' \in Stores /\ rule' = rule /\ unchecked' \subseteq Ways
    BY <1>1, <1>2 DEF Typed, Ways
  <1>9. QED
    BY <1>3, <1>4, <1>5, <1>6, <1>7, <1>8, Wrote

\* The invariant holds at the start,
LEMMA FkStart == ASSUME FK!Setting, FK!Init PROVE FkInv
  <1>1. Cardinality(Refs) \in Nat
    BY SettingFacts, FS_CardinalityType
  <1>2. store \in Stores
    BY DEF FK!Init, Stores
  <1>3. refs \in Seq(Refs) /\ IsInjective(refs)
    <2>1. refs \in [1..Cardinality(Refs) -> Refs] /\ IsInjective(refs)
      BY SameCardinality, SameInjective DEF FK!Init
    <2>2. QED
      BY <1>1, <2>1
  <1>4. client = [c \in Clients |-> FK!Idle]
    BY DEF FK!Init
  <1>5. Typed
    <2>1. /\ rule \in [Refs -> FK!Rules] /\ changed = [c \in Clients |-> {}] /\ stale = {}
          /\ unchecked = {} /\ queries = 0
      BY DEF FK!Init
    <2>2. client \in [Clients -> Slot]
      BY <1>4, IdleSlot
    <2>3. queries \in 0..MaxQueries
      BY <2>1, SettingFacts
    <2>4. QED
      BY <1>2, <1>3, <2>1, <2>2, <2>3 DEF Typed
  <1>6. \A c \in Clients : Sensible(client[c]) /\ Current(client[c], store, Range(refs), rule)
    BY <1>4, IdleSlot DEF Current
  <1>7. \A r \in Range(refs) : Holds(store, r)
    <2> TAKE r \in Range(refs)
    <2>1. r \in Refs /\ FK!Dangling(store, Refs) = {}
      BY <1>3, DeclaredRefs DEF FK!Init
    <2>2. ASSUME NEW n \in DOMAIN store PROVE store[n][r] \in DOMAIN store \cup {None}
      <3>1. r \in FK!Columns(n) => store[n][r] \in DOMAIN store \cup {None}
        BY <2>1 DEF FK!Dangling
      <3>2. r \notin FK!Columns(n) => store[n][r] = None
        BY <1>2, <2>1, OfStores DEF FK!Columns
      <3>3. QED
        BY <3>1, <3>2
    <2>3. QED
      BY <2>2 DEF Holds
  <1>8. QED
    BY <1>5, <1>6, <1>7 DEF FkInv

\* is kept by a step that changes nothing,
LEMMA FkStutters == ASSUME FkInv, UNCHANGED FK!vars PROVE FkInv'
  BY DEF FkInv, FK!vars, FK!Setting, Typed

\* and by every step.
LEMMA FkStep == ASSUME FkInv, [FK!Next]_FK!vars PROVE FkInv'
  <1>1. CASE UNCHANGED FK!vars
    BY <1>1, FkStutters
  <1>2. CASE FK!Next
    <2>1. PICK c \in Clients :
            \/ FK!Insert(c) \/ FK!Update(c) \/ FK!Delete(c)
            \/ FK!Load(c) \/ FK!Execute(c) \/ FK!Begin(c) \/ FK!Commit(c) \/ FK!Retry(c)
            \/ FK!Block(c)
            \/ FK!DropCollection(c) \/ FK!PurgeRefs(c) \/ FK!StoreRef(c) \/ FK!DropRef(c)
            \/ FK!Crash(c)
      BY <1>2 DEF FK!Next
    <2>2. CASE FK!Insert(c) \/ FK!Update(c) \/ FK!Delete(c)
      BY <2>2, InsertKeeps, UpdateKeeps, DeleteKeeps
    <2>3. CASE FK!Load(c) \/ FK!Execute(c) \/ FK!Begin(c)
      BY <2>3, LoadKeeps, ExecuteKeeps, BeginKeeps
    <2>4. CASE FK!Commit(c) \/ FK!Retry(c) \/ FK!Block(c) \/ FK!Crash(c)
      BY <2>4, CommitKeeps, RetryKeeps, BlockKeeps, CrashKeeps
    <2>5. CASE FK!DropCollection(c) \/ FK!PurgeRefs(c)
      BY <2>5, DropKeeps, PurgeKeeps
    <2>6. CASE FK!StoreRef(c) \/ FK!DropRef(c)
      BY <2>6, StoreRefKeeps, DropRefKeeps
    <2>7. QED
      BY <2>1, <2>2, <2>3, <2>4, <2>5, <2>6
  <1>3. QED
    BY <1>1, <1>2

\* So it always holds.
LEMMA FkInvariant == FK!Setting /\ FK!Spec => []FkInv
  <1>1. FK!Setting /\ FK!Init => FkInv
    BY FkStart
  <1>2. FkInv /\ [FK!Next]_FK!vars => FkInv'
    BY FkStep
  <1>3. QED
    BY <1>1, <1>2, PTL DEF FK!Spec

\* Where every document carries the field in which cascadeChildren looks up a
\* key, which is how create table makes them.
Keyed == HasId = Nodes /\ FkInv

LEMMA KeyedInvariant == FK!Setting /\ HasId = Nodes /\ FK!Spec => []Keyed
  <1>1. FK!Setting /\ HasId = Nodes /\ FK!Init => Keyed
    BY FkStart DEF Keyed
  <1>2. Keyed /\ [FK!Next]_FK!vars => Keyed'
    BY FkStep DEF Keyed
  <1>3. QED
    BY <1>1, <1>2, PTL DEF FK!Spec

\* A query leaves `commit' for `idle' and changes documents by Commit only.
LEMMA OnlyCommit ==
    ASSUME FkInv, FK!Next, NEW c \in Clients, client[c].at = "commit", client'[c].at = "idle", store' # store
    PROVE  FK!Commit(c)
  <1>1. client \in [Clients -> Slot]
    BY DEF FkInv, Typed
  <1>2. PICK d \in Clients :
          \/ FK!Insert(d) \/ FK!Update(d) \/ FK!Delete(d)
          \/ FK!Load(d) \/ FK!Execute(d) \/ FK!Begin(d) \/ FK!Commit(d) \/ FK!Retry(d)
          \/ FK!Block(d)
          \/ FK!DropCollection(d) \/ FK!PurgeRefs(d) \/ FK!StoreRef(d) \/ FK!DropRef(d)
          \/ FK!Crash(d)
    BY DEF FK!Next
  <1>3. ~(FK!Insert(d) \/ FK!Update(d) \/ FK!Delete(d) \/ FK!Load(d) \/ FK!Begin(d) \/ FK!Retry(d) \/ FK!Crash(d))
    BY DEF FK!Insert, FK!Update, FK!Delete, FK!Ask, FK!Load, FK!Begin, FK!Retry, FK!Crash
  <1>4. ~(FK!PurgeRefs(d) \/ FK!StoreRef(d) \/ FK!DropRef(d))
    BY DEF FK!PurgeRefs, FK!StoreRef, FK!DropRef
  <1>5. ~FK!Block(d)
    BY DEF FK!Block
  <1>6. ~FK!DropCollection(d)
    <2>1. SUFFICES ASSUME FK!DropCollection(d) PROVE FALSE
      OBVIOUS
    <2>2. d # c
      BY <2>1 DEF FK!DropCollection
    <2>3. client'[c] = client[c]
      BY <1>1, <2>1, <2>2 DEF FK!DropCollection
    <2>4. QED
      BY <2>3
  <1>7. ~FK!Execute(d)
    <2>1. SUFFICES ASSUME FK!Execute(d) PROVE FALSE
      OBVIOUS
    <2>2. d # c /\ FK!Finish(d)
      BY <2>1 DEF FK!Execute
    <2>3. client'[c] = client[c]
      BY <1>1, <2>2 DEF FK!Finish
    <2>4. QED
      BY <2>3
  <1>8. FK!Commit(d)
    BY <1>2, <1>3, <1>4, <1>5, <1>6, <1>7
  <1>9. d = c
    <2>1. SUFFICES ASSUME d # c PROVE FALSE
      OBVIOUS
    <2>2. client'[c] = client[c]
      BY <1>1, <1>8, <2>1 DEF FK!Commit, FK!Finish
    <2>3. QED
      BY <2>2
  <1>10. QED
    BY <1>8, <1>9

\* What an undisturbed delete does when it commits.
LEMMA CommittedDelete ==
    ASSUME FkInv, FK!Next, NEW c \in Clients \ stale, Cascading(c), client'[c].at = "idle"
    PROVE  Swept(store, Range(refs), rule, client[c].query.on, store')
  <1>1. client[c].at = "commit" /\ client[c].query.op = "delete" /\ store' # store
    BY DEF Cascading
  <1>2. FK!Commit(c)
    BY <1>1, OnlyCommit
  <1>3. QED
    BY <1>1, <1>2, CommitOutcome DEF Outcome

-----------------------------------------------------------------------------
(* MongoReferences.  Its theorems. *)

\* The state keeps its types: cascades included, whatever the declarations,
\* a view is a database.
THEOREM ReferencesTyped == FK!Spec => []FK!TypeOK
  <1>1. FkInv => FK!TypeOK
    BY TypedIsTypeOK DEF FkInv
  <1>2. QED
    BY <1>1, FkInvariant, ReferencesAssumption, PTL

\* What declared columns name exists as long as no write raced another one,
\* went round the checks, or declared a constraint late: the checks of inserts
\* and updates and cascadeChildren are enough, for any number of clients,
\* documents and constraints, cyclic ones included.
THEOREM ReferencesAreHeld == HasId = Nodes /\ FK!Spec => []ReferencesHold
  <1>1. Keyed => ReferencesHold
    <2>1. SUFFICES ASSUME Keyed, unchecked = {}, \A c \in Clients : client[c].at # "purge",
                          NEW n \in DOMAIN store, NEW r \in FK!Declared
                   PROVE  store[n][r] \in DOMAIN store \cup {None}
      BY DEF ReferencesHold, FK!Dangling
    <2>2. FK!Declared = Range(refs)
      BY <2>1, DeclaredRefs DEF Keyed, FkInv, Typed
    <2>3. Holds(store, r)
      BY <2>1, <2>2 DEF Keyed, FkInv, Purging
    <2>4. QED
      BY <2>3 DEF Holds
  <1>2. QED
    BY <1>1, KeyedInvariant, ReferencesAssumption, PTL

\* A delete nobody disturbed removes all it was asked for and leaves no
\* declared reference to what it removed: the recursion of cascadeChildren
\* reaches every child, and skips a document only when another branch sees to
\* it.
THEOREM DeletesAreWhole == HasId = Nodes /\ FK!Spec => DeleteIsWhole
  <1>1. Keyed /\ [FK!Next]_FK!vars =>
           [ \A c \in Clients \ stale : Cascading(c) /\ client'[c].at = "idle" =>
               /\ client[c].query.on \cap DOMAIN store' = {}
               /\ \A n \in DOMAIN store', r \in FK!Declared :
                     store'[n][r] \notin DOMAIN store \ DOMAIN store' ]_FK!vars
    <2>1. SUFFICES ASSUME Keyed, FK!Next, NEW c \in Clients \ stale,
                          Cascading(c), client'[c].at = "idle"
                   PROVE  /\ client[c].query.on \cap DOMAIN store' = {}
                          /\ \A n \in DOMAIN store', r \in FK!Declared :
                                store'[n][r] \notin DOMAIN store \ DOMAIN store'
      OBVIOUS
    <2>2. FK!Declared = Range(refs) /\ HasId = Nodes
      BY <2>1, DeclaredRefs DEF Keyed, FkInv, Typed
    <2>3. Swept(store, Range(refs), rule, client[c].query.on, store')
      BY <2>1, CommittedDelete DEF Keyed
    <2>4. QED
      BY <2>2, <2>3 DEF Swept
  <1>2. QED
    BY <1>1, KeyedInvariant, ReferencesAssumption, PTL DEF FK!Spec, DeleteIsWhole

\* It removes nothing but what it was asked for and what goes back to it by
\* constraints that cascade, and changes nothing but columns of constraints
\* that set null: in any database, whatever documents carry the key.
THEOREM DeletesKeepTheRest == FK!Spec => DeleteKeepsTheRest
  <1>1. FkInv /\ [FK!Next]_FK!vars =>
           [ \A c \in Clients \ stale : Cascading(c) /\ client'[c].at = "idle" =>
               LET gone == DOMAIN store \ DOMAIN store' IN
               /\ \A n \in gone \ client[c].query.on :
                     \E r \in FK!Declared : rule[r] = "cascade" /\ store[n][r] \in gone
               /\ \A n \in DOMAIN store', r \in Refs :
                     store'[n][r] # store[n][r] =>
                        /\ r \in FK!Declared /\ rule[r] = "set-null"
                        /\ store'[n][r] = None /\ store[n][r] \in gone ]_FK!vars
    <2>1. SUFFICES ASSUME FkInv, FK!Next, NEW c \in Clients \ stale,
                          Cascading(c), client'[c].at = "idle"
                   PROVE  LET gone == DOMAIN store \ DOMAIN store' IN
                          /\ \A n \in gone \ client[c].query.on :
                                \E r \in FK!Declared : rule[r] = "cascade" /\ store[n][r] \in gone
                          /\ \A n \in DOMAIN store', r \in Refs :
                                store'[n][r] # store[n][r] =>
                                   /\ r \in FK!Declared /\ rule[r] = "set-null"
                                   /\ store'[n][r] = None /\ store[n][r] \in gone
      OBVIOUS
    <2>2. FK!Declared = Range(refs)
      BY <2>1, DeclaredRefs DEF FkInv, Typed
    <2>3. Swept(store, Range(refs), rule, client[c].query.on, store')
      BY <2>1, CommittedDelete
    <2>4. QED
      BY <2>2, <2>3 DEF Swept
  <1>2. QED
    BY <1>1, FkInvariant, ReferencesAssumption, PTL DEF FK!Spec, DeleteKeepsTheRest
=============================================================================
