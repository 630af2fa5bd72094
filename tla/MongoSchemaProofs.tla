------------------------- MODULE MongoSchemaProofs -------------------------
(***************************************************************************)
(* Proofs about MongoSchema, for any clients, columns, documents, enums    *)
(* and members: types, and what schema statements leave true when they do  *)
(* not race and none is stopped half-way.                                  *)
(***************************************************************************)
EXTENDS MongoSchema, SequenceTheorems, TLAPS

\* Every step is of its own statement.
Shape(c) ==
    LET run == client[c].run IN
    /\ client[c].at \in {"read", "preflight", "collmod", "batch", "rewrite"} =>
          /\ run.do \in {"add column", "drop column"} /\ run.col \in Cols
          /\ run.do = "add column" => run.prop \in Property
    /\ client[c].at \in {"members", "add", "list", "patch", "delete"} =>
          /\ run.do \in {"add member", "drop enum"} /\ run.col = None /\ run.enum \in Enums
          /\ run.do = "add member" => run.member \in Members
    /\ client[c].at = "add" => run.do = "add member"
    /\ client[c].at = "delete" => run.do = "drop enum"

Shapes == \A c \in Clients : Shape(c)

\* One statement at a time.
Alone == \A c, d \in Working : c = d

\* The column whose documents are being rewritten.
Rewriting(x) == \E c \in Clients : client[c].at \in {"batch", "rewrite"} /\ client[c].run.col = x

Filled == \A x \in DOMAIN validator :
    validator[x].required /\ ~Rewriting(x) => \A d \in DOMAIN docs : x \in docs[d]

\* What a statement that changes a column knows.
ColumnSound(c) ==
    /\ client[c].at \in {"preflight", "collmod", "patch"} => client[c].seen = validator
    /\ client[c].at \in {"batch", "rewrite"} /\ ~Adding(c) => client[c].run.col \notin DOMAIN validator
    /\ client[c].at = "collmod" /\ Adding(c) /\ ~client[c].run.default /\ client[c].run.prop.required
          => \A d \in DOMAIN docs : client[c].run.col \in docs[d]

Undisturbed == Alone /\ Filled /\ \A c \in Clients : ColumnSound(c)

Calm == excuses \subseteq {"twin"}

\* A column whose values must be those of its enum.
Bound(x) == x \in DOMAIN validator /\ ~validator[x].nullable /\ validator[x].values # <<>>

BoundTo(x, e) == Bound(x) /\ validator[x].of = e

\* A member was added to the enum and not yet to its columns.
Lags(e) == \E c \in Clients :
    client[c].at \in {"list", "patch"} /\ client[c].run.do = "add member" /\ client[c].run.enum = e

Follow == \A x \in Cols : Bound(x) =>
    /\ validator[x].of \in DOMAIN enums
    /\ ~Lags(validator[x].of) => validator[x].values = enums[validator[x].of]

\* What a statement about an enum knows.
EnumSound(c) ==
    LET e == client[c].run.enum IN
    /\ client[c].at \in {"add", "list", "patch"} =>
          /\ e \in DOMAIN enums
          /\ \A x \in Cols : BoundTo(x, e) => validator[x].values = client[c].old
          /\ enums[e] = IF client[c].at = "add" \/ client[c].run.do = "drop enum"
                        THEN client[c].old ELSE Append(client[c].old, client[c].run.member)
    /\ client[c].at = "add" => client[c].run.member \notin Range(client[c].old)
    /\ client[c].at = "patch" => ~Twins(e, client[c].old)
    /\ client[c].at = "delete" => \A x \in Cols : ~BoundTo(x, e)

Followed == Follow /\ \A c \in Clients : EnumSound(c)

IInv == TypeOK /\ Shapes /\ (Calm => Undisturbed) /\ (excuses = {} => Followed)
-----------------------------------------------------------------------------
(* Types. *)

ClientsTyped ==
    /\ DOMAIN client = Clients
    /\ \A c \in Clients : /\ client[c] \in Client(client[c].seen)
                          /\ IsPartial(client[c].seen, Cols, Property)

LEMMA EmptyTyped == IsPartial(<<>>, Cols, Property)
  BY DEF IsPartial

LEMMA IdleTyped == NoStatement \in Statement /\ <<>> \in Seq(Members) /\ {} \in SUBSET Docs
  BY DEF NoStatement, Statement

\* The client after a step, field by field; the others as before.
Becomes(c, step, run, seen, old, batch) ==
    /\ DOMAIN client' = Clients
    /\ client'[c] = [at |-> step, run |-> run, seen |-> seen, old |-> old, batch |-> batch]
    /\ \A d \in Clients \ {c} : client'[d] = client[d]

\* A client that moves to another step, with the fields that step sets.
LEMMA StepTyped ==
    ASSUME ClientsTyped, NEW c \in Clients,
           NEW step \in {"idle", "read", "preflight", "collmod", "batch", "rewrite",
                         "members", "add", "list", "patch", "delete"},
           NEW run \in Statement, NEW old \in Seq(Members), NEW batch \in SUBSET Docs,
           NEW seen, IsPartial(seen, Cols, Property),
           Becomes(c, step, run, seen, old, batch)
    PROVE  ClientsTyped'
  <1>1. [at |-> step, run |-> run, seen |-> seen, old |-> old, batch |-> batch] \in Client(seen)
    BY DEF Client
  <1>2. client'[c] \in Client(client'[c].seen) /\ IsPartial(client'[c].seen, Cols, Property)
    BY <1>1 DEF Becomes
  <1>3. QED
    BY <1>2 DEF ClientsTyped, Becomes

LEMMA FieldsTyped ==
    ASSUME ClientsTyped, NEW c \in Clients
    PROVE  /\ client[c] = [at |-> client[c].at, run |-> client[c].run, seen |-> client[c].seen,
                           old |-> client[c].old, batch |-> client[c].batch]
           /\ client[c].run \in Statement /\ client[c].old \in Seq(Members)
           /\ client[c].batch \in SUBSET Docs
           /\ IsPartial(client[c].seen, Cols, Property)
           /\ client[c].at \in {"idle", "read", "preflight", "collmod", "batch", "rewrite",
                                "members", "add", "list", "patch", "delete"}
  BY DEF ClientsTyped, Client

LEMMA FinishBecomes ==
    ASSUME ClientsTyped, NEW c \in Clients, Finish(c)
    PROVE  Becomes(c, "idle", NoStatement, <<>>, <<>>, {})
  BY DEF Finish, Idle, ClientsTyped, Becomes

LEMMA GoesBecomes ==
    ASSUME ClientsTyped, NEW c \in Clients, NEW step, Goes(c, step)
    PROVE  Becomes(c, step, client[c].run, client[c].seen, client[c].old, client[c].batch)
  <1>1. client'[c] = [client[c] EXCEPT !.at = step]
    BY DEF Goes, ClientsTyped
  <1>2. client'[c] = [at |-> step, run |-> client[c].run, seen |-> client[c].seen,
                      old |-> client[c].old, batch |-> client[c].batch]
    BY <1>1, FieldsTyped
  <1>3. QED
    BY <1>2 DEF Goes, ClientsTyped, Becomes

LEMMA WithTyped ==
    ASSUME NEW A, NEW B, NEW f, IsPartial(f, A, B), NEW x \in A, NEW y \in B
    PROVE  /\ IsPartial(With(f, x, y), A, B)
           /\ DOMAIN With(f, x, y) = DOMAIN f \cup {x}
           /\ With(f, x, y)[x] = y
           /\ \A z \in DOMAIN f : z # x => With(f, x, y)[z] = f[z]
  BY DEF IsPartial, With

LEMMA RestrictTyped ==
    ASSUME NEW A, NEW B, NEW f, IsPartial(f, A, B), NEW D \in SUBSET DOMAIN f
    PROVE  /\ IsPartial(Restrict(f, D), A, B)
           /\ DOMAIN Restrict(f, D) = D
           /\ \A z \in D : Restrict(f, D)[z] = f[z]
  BY DEF IsPartial, Restrict

LEMMA MemberSeq ==
    ASSUME NEW s \in Seq(Members)
    PROVE  s \in Seq(Members \cup {None}) /\ Append(s, None) \in Seq(Members \cup {None})
  <1>1. s \in Seq(Members \cup {None})
    BY SeqDef
  <1>2. QED
    BY <1>1

LEMMA InitProperty ==
    ASSUME IsPartial(enums, Enums, Seq(Members)), NEW required \in BOOLEAN, NEW e,
           e \in DOMAIN enums \cup {None}
    PROVE  PropertyFor(required, e) \in Property
  <1>1. CASE e = None
    BY <1>1 DEF PropertyFor, Property
  <1>2. CASE e # None
    <2>1. e \in Enums /\ enums[e] \in Seq(Members)
      BY <1>2 DEF IsPartial
    <2>2. enums[e] \in Seq(Members \cup {None}) /\ Append(enums[e], None) \in Seq(Members \cup {None})
      BY <2>1, MemberSeq
    <2>3. QED
      BY <1>2, <2>1, <2>2 DEF PropertyFor, Property
  <1>3. QED
    BY <1>1, <1>2


LEMMA PropertyTyped ==
    ASSUME TypeOK, NEW required \in BOOLEAN, NEW e \in DOMAIN enums \cup {None}
    PROVE  PropertyFor(required, e) \in Property
  BY InitProperty DEF TypeOK
-----------------------------------------------------------------------------
(* What the steps of a client have in common. *)

\* The other clients are idle.
Solo(c) == \A d \in Clients \ {c} : client[d].at = "idle"

\* The other clients stay as they were.
Spares(c) == \A d \in Clients \ {c} : client'[d] = client[d]

LEMMA After ==
    ASSUME NEW c, NEW step, NEW run, NEW seen, NEW old, NEW batch,
           Becomes(c, step, run, seen, old, batch)
    PROVE  /\ client'[c].at = step /\ client'[c].run = run /\ client'[c].seen = seen
           /\ client'[c].old = old /\ client'[c].batch = batch
           /\ Spares(c)
  BY DEF Becomes, Spares

LEMMA SoloKept ==
    ASSUME NEW c \in Clients, Solo(c), Spares(c)
    PROVE  /\ Solo(c)' /\ Alone'
           /\ \A d \in Clients \ {c} : ColumnSound(d)' /\ EnumSound(d)'
  <1>1. Solo(c)'
    BY DEF Solo, Spares
  <1>2. Alone'
    BY <1>1 DEF Solo, Alone, Working
  <1>3. \A d \in Clients \ {c} : ColumnSound(d)'
    BY <1>1 DEF Solo, ColumnSound
  <1>4. \A d \in Clients \ {c} : EnumSound(d)'
    BY <1>1 DEF Solo, EnumSound
  <1>5. QED
    BY <1>1, <1>2, <1>3, <1>4

\* A step of a client keeps the invariant when it keeps what concerns that
\* client, the documents and the enums, the others being idle.
LEMMA Assembled ==
    ASSUME IInv, NEW c \in Clients, Spares(c), excuses \subseteq excuses',
           client[c].at # "idle" \/ (Calm' => Working = {}),
           TypeOK', Shape(c)',
           Calm /\ Undisturbed /\ Solo(c) /\ Calm' => Filled' /\ ColumnSound(c)',
           Calm /\ Undisturbed /\ Followed /\ Solo(c) /\ excuses = {} /\ excuses' = {}
               => Follow' /\ EnumSound(c)'
    PROVE  IInv'
  <1>1. Shapes'
    BY DEF IInv, Shapes, Shape, Spares
  <1>2. ASSUME Calm' PROVE Calm /\ Undisturbed /\ Solo(c)
    <2>1. Calm /\ Undisturbed
      BY <1>2 DEF Calm, IInv
    <2>2. Solo(c)
      BY <1>2, <2>1 DEF Undisturbed, Alone, Working, Solo
    <2>3. QED
      BY <2>1, <2>2
  <1>3. ASSUME Calm' PROVE Undisturbed'
    BY <1>2, <1>3, SoloKept DEF Undisturbed
  <1>4. ASSUME excuses' = {} PROVE Followed'
    <2>1. Calm' /\ excuses = {}
      BY <1>4 DEF Calm
    <2>2. Followed
      BY <2>1 DEF IInv
    <2>3. QED
      BY <1>2, <1>4, <2>1, <2>2, SoloKept DEF Followed
  <1>5. QED
    BY <1>1, <1>3, <1>4 DEF IInv

\* Nobody rewrites documents or has an enum changed halfway.
LEMMA AtRest ==
    ASSUME NEW c \in Clients, Solo(c)
    PROVE  /\ client[c].at \notin {"batch", "rewrite"} => \A x : ~Rewriting(x)
           /\ client[c].at \notin {"list", "patch"} => \A e : ~Lags(e)
           /\ \A x : Rewriting(x) => client[c].at \in {"batch", "rewrite"} /\ client[c].run.col = x
           /\ \A e : Lags(e) => /\ client[c].at \in {"list", "patch"}
                                /\ client[c].run.do = "add member" /\ client[c].run.enum = e
  BY DEF Solo, Rewriting, Lags
-----------------------------------------------------------------------------
(* The beginning of a statement. *)

LEMMA InvParts ==
    ASSUME IInv
    PROVE  /\ TypeOK /\ ClientsTyped /\ Shapes
  BY DEF IInv, TypeOK, ClientsTyped

LEMMA AskBecomes ==
    ASSUME ClientsTyped, NEW c \in Clients, NEW run, NEW step, Ask(c, run, step)
    PROVE  Becomes(c, step, run, client[c].seen, client[c].old, client[c].batch)
  <1>1. client'[c] = [client[c] EXCEPT !.at = step, !.run = run]
    BY DEF Ask, ClientsTyped
  <1>2. client'[c] = [at |-> step, run |-> run, seen |-> client[c].seen,
                      old |-> client[c].old, batch |-> client[c].batch]
    BY <1>1, FieldsTyped
  <1>3. QED
    BY <1>2 DEF Ask, ClientsTyped, Becomes

\* A statement and the step it begins with.
Begins(run, step) ==
    /\ step = "read" => /\ run.do \in {"add column", "drop column"} /\ run.col \in Cols
                        /\ run.do = "add column" => run.prop \in Property
    /\ step = "members" => /\ run.do \in {"add member", "drop enum"} /\ run.col = None
                           /\ run.enum \in Enums
                           /\ run.do = "add member" => run.member \in Members

LEMMA AskStep ==
    ASSUME IInv, NEW c \in Clients, NEW run \in Statement,
           NEW step \in {"read", "members"}, Ask(c, run, step),
           Begins(run, step)
    PROVE  IInv'
  <1>1. Becomes(c, step, run, client[c].seen, client[c].old, client[c].batch)
    BY InvParts, AskBecomes
  <1>2. TypeOK'
    <2>1. ClientsTyped'
      BY <1>1, InvParts, FieldsTyped, StepTyped
    <2>2. statements \in 0..MaxStatements
      BY InvParts DEF TypeOK
    <2>3. statements < MaxStatements /\ statements' = statements + 1
      BY DEF Ask
    <2>4. statements' \in 0..MaxStatements
      BY <2>2, <2>3, SchemaAssumption
    <2>5. QED
      BY <2>1, <2>4, InvParts DEF Ask, TypeOK, ClientsTyped, IsPartial
  <1>9. /\ client'[c].at = step /\ client'[c].run = run /\ Spares(c)
    BY <1>1, After
  <1>3. Shape(c)'
    BY <1>9 DEF Shape, Begins
  <1>4. Calm' => Working = {}
    BY DEF Ask, Calm
  <1>5. ASSUME Undisturbed, Solo(c), Calm' PROVE Filled' /\ ColumnSound(c)'
    <2>1. \A x : ~Rewriting(x)
      BY <1>5, AtRest DEF Ask
    <2>2. Filled'
      BY <1>5, <2>1 DEF Ask, Undisturbed, Filled
    <2>3. ColumnSound(c)'
      BY <1>9 DEF ColumnSound
    <2>4. QED
      BY <2>2, <2>3
  <1>6. ASSUME Followed, Solo(c) PROVE Follow' /\ EnumSound(c)'
    <2>1. \A e : ~Lags(e)
      BY <1>6, AtRest DEF Ask
    <2>2. Follow'
      BY <1>6, <2>1 DEF Ask, Followed, Follow, Bound
    <2>3. EnumSound(c)'
      BY <1>9 DEF EnumSound
    <2>4. QED
      BY <2>2, <2>3
  <1>7. Spares(c) /\ excuses \subseteq excuses'
    BY <1>9 DEF Ask
  <1>8. QED
    BY <1>2, <1>3, <1>4, <1>5, <1>6, <1>7, Assembled

LEMMA Statements ==
    /\ \A x \in Cols, g \in BOOLEAN :
          [NoStatement EXCEPT !.col = x, !.guard = g] \in Statement
    /\ \A x \in Cols, p \in Property, d \in BOOLEAN, g \in BOOLEAN :
          [NoStatement EXCEPT !.do = "add column", !.col = x, !.default = d, !.prop = p, !.guard = g]
              \in Statement
    /\ \A e \in Enums, m \in Members :
          [NoStatement EXCEPT !.do = "add member", !.enum = e, !.member = m] \in Statement
    /\ \A e \in Enums, g \in BOOLEAN :
          [NoStatement EXCEPT !.do = "drop enum", !.enum = e, !.guard = g] \in Statement
  BY DEF NoStatement, Statement

LEMMA AsksKeep ==
    ASSUME IInv, NEW c \in Clients,
           AddColumn(c) \/ DropColumn(c) \/ AddEnumMember(c) \/ DropEnum(c)
    PROVE  IInv'
  <1>1. CASE AddColumn(c)
    <2>1. PICK x \in Cols, required \in BOOLEAN, default \in BOOLEAN, guard \in BOOLEAN,
               e \in DOMAIN enums \cup {None} :
            Ask(c, [NoStatement EXCEPT !.do = "add column", !.col = x, !.default = default,
                      !.prop = PropertyFor(required, e), !.guard = guard], "read")
      BY <1>1 DEF AddColumn
    <2> DEFINE run == [NoStatement EXCEPT !.do = "add column", !.col = x, !.default = default,
                         !.prop = PropertyFor(required, e), !.guard = guard]
    <2>2. PropertyFor(required, e) \in Property
      BY InvParts, PropertyTyped
    <2>3. run \in Statement
      BY <2>2, Statements
    <2>4. run.do = "add column" /\ run.col = x /\ run.prop = PropertyFor(required, e)
      BY DEF NoStatement
    <2> HIDE DEF run
    <2>5. QED
      BY <2>1, <2>2, <2>3, <2>4, AskStep DEF run, Begins
  <1>2. CASE DropColumn(c)
    <2>1. PICK x \in Cols, guard \in BOOLEAN :
            Ask(c, [NoStatement EXCEPT !.col = x, !.guard = guard], "read")
      BY <1>2 DEF DropColumn
    <2> DEFINE run == [NoStatement EXCEPT !.col = x, !.guard = guard]
    <2>2. run \in Statement
      BY Statements
    <2>3. run.do = "drop column" /\ run.col = x
      BY DEF NoStatement
    <2> HIDE DEF run
    <2>4. QED
      BY <2>1, <2>2, <2>3, AskStep DEF run, Begins
  <1>3. CASE AddEnumMember(c)
    <2>1. PICK e \in Enums, m \in Members :
            Ask(c, [NoStatement EXCEPT !.do = "add member", !.enum = e, !.member = m], "members")
      BY <1>3 DEF AddEnumMember
    <2> DEFINE run == [NoStatement EXCEPT !.do = "add member", !.enum = e, !.member = m]
    <2>2. run \in Statement
      BY Statements
    <2>3. run.do = "add member" /\ run.col = None /\ run.enum = e /\ run.member = m
      BY DEF NoStatement
    <2> HIDE DEF run
    <2>4. QED
      BY <2>1, <2>2, <2>3, AskStep DEF run, Begins
  <1>4. CASE DropEnum(c)
    <2>1. PICK e \in Enums, cascade \in BOOLEAN :
            Ask(c, [NoStatement EXCEPT !.do = "drop enum", !.enum = e, !.guard = cascade], "members")
      BY <1>4 DEF DropEnum
    <2> DEFINE run == [NoStatement EXCEPT !.do = "drop enum", !.enum = e, !.guard = cascade]
    <2>2. run \in Statement
      BY Statements
    <2>3. run.do = "drop enum" /\ run.col = None /\ run.enum = e
      BY DEF NoStatement
    <2> HIDE DEF run
    <2>4. QED
      BY <2>1, <2>2, <2>3, AskStep DEF run, Begins
  <1>5. QED
    BY <1>1, <1>2, <1>3, <1>4
-----------------------------------------------------------------------------
(* The end of a statement. *)

LEMMA ClientsChange ==
    ASSUME IInv, ClientsTyped', UNCHANGED <<validator, docs, enums, statements>>,
           excuses' \subseteq {"race", "crash", "twin", "insert"}
    PROVE  TypeOK'
  BY InvParts DEF TypeOK, ClientsTyped, IsPartial

AllFilled == \A x \in DOMAIN validator : validator[x].required => \A d \in DOMAIN docs : x \in docs[d]

AllFollowed == \A x \in Cols : Bound(x) =>
    validator[x].of \in DOMAIN enums /\ validator[x].values = enums[validator[x].of]

LEMMA FinishKeeps ==
    ASSUME IInv, NEW c \in Clients, Finish(c), client[c].at # "idle",
           UNCHANGED <<validator, docs, enums, statements>>,
           excuses \subseteq excuses', excuses' \subseteq {"race", "crash", "twin", "insert"},
           Undisturbed /\ Solo(c) /\ Calm' => AllFilled,
           Undisturbed /\ Followed /\ Solo(c) /\ excuses' = {} => AllFollowed
    PROVE  IInv'
  <1>1. Becomes(c, "idle", NoStatement, <<>>, <<>>, {})
    BY InvParts, FinishBecomes
  <1>2. client'[c].at = "idle" /\ Spares(c)
    BY <1>1, After
  <1>3. TypeOK'
    BY <1>1, InvParts, IdleTyped, EmptyTyped, StepTyped, ClientsChange
  <1>4. Shape(c)' /\ ColumnSound(c)' /\ EnumSound(c)'
    BY <1>2 DEF Shape, ColumnSound, EnumSound
  <1>5. AllFilled => Filled'
    BY DEF AllFilled, Filled
  <1>6. AllFollowed => Follow'
    BY DEF AllFollowed, Follow, Bound
  <1>7. QED
    BY <1>2, <1>3, <1>4, <1>5, <1>6, Assembled

\* Away from the batches every required column is filled, and away from the
\* columns of an enum every one of them follows.
LEMMA Settled ==
    ASSUME NEW c \in Clients, Solo(c)
    PROVE  /\ Undisturbed /\ client[c].at \notin {"batch", "rewrite"} => AllFilled
           /\ Followed /\ client[c].at \notin {"list", "patch"} => AllFollowed
           /\ Followed /\ client[c].run.do = "drop enum" => AllFollowed
  <1>1. client[c].at \notin {"batch", "rewrite"} => \A x : ~Rewriting(x)
    BY AtRest
  <1>2. client[c].at \notin {"list", "patch"} \/ client[c].run.do = "drop enum" => \A e : ~Lags(e)
    BY AtRest
  <1>3. (\A x : ~Rewriting(x)) /\ Undisturbed => AllFilled
    BY DEF Undisturbed, Filled, AllFilled
  <1>4. (\A e : ~Lags(e)) /\ Followed => AllFollowed
    BY DEF Followed, Follow, AllFollowed
  <1>5. QED
    BY <1>1, <1>2, <1>3, <1>4

LEMMA EmptyExcuses ==
    ASSUME IInv
    PROVE  excuses \subseteq {"race", "crash", "twin", "insert"}
  BY InvParts DEF TypeOK

LEMMA StopKeeps ==
    ASSUME IInv, NEW c \in Clients, Stop(c)
    PROVE  IInv'
  <1>1. "crash" \in excuses'
    BY DEF Stop
  <1>2. ~Calm' /\ excuses' # {}
    BY <1>1 DEF Calm
  <1>3. QED
    BY <1>2, EmptyExcuses, FinishKeeps DEF Stop
-----------------------------------------------------------------------------
(* Steps of the statements about columns. *)

LEMMA ReadValidatorBecomes ==
    ASSUME ClientsTyped, NEW c \in Clients, ReadValidator(c), ~Finish(c)
    PROVE  LET step == IF Adding(c) /\ client[c].run.prop.required /\ ~client[c].run.default
                       THEN "preflight" ELSE "collmod"
           IN Becomes(c, step, client[c].run, validator, client[c].old, client[c].batch)
  <1> DEFINE step == IF Adding(c) /\ client[c].run.prop.required /\ ~client[c].run.default
                     THEN "preflight" ELSE "collmod"
  <1>1. client' = [client EXCEPT ![c].seen = validator, ![c].at = step]
    BY DEF ReadValidator
  <1> HIDE DEF step
  <1>2. client'[c] = [client[c] EXCEPT !.seen = validator, !.at = step]
    BY <1>1 DEF ClientsTyped
  <1>3. client'[c] = [at |-> step, run |-> client[c].run, seen |-> validator,
                      old |-> client[c].old, batch |-> client[c].batch]
    BY <1>2, FieldsTyped
  <1>4. Becomes(c, step, client[c].run, validator, client[c].old, client[c].batch)
    BY <1>1, <1>3 DEF ClientsTyped, Becomes
  <1>5. QED
    BY <1>4 DEF step

LEMMA ValidatorTyped ==
    ASSUME IInv
    PROVE  IsPartial(validator, Cols, Property) /\ IsPartial(docs, Docs, SUBSET Cols)
           /\ IsPartial(enums, Enums, Seq(Members))
  BY InvParts DEF TypeOK

LEMMA ReadValidatorKeeps ==
    ASSUME IInv, NEW c \in Clients, ReadValidator(c)
    PROVE  IInv'
  <1>1. CASE Finish(c)
    BY <1>1, EmptyExcuses, Settled, FinishKeeps DEF ReadValidator, Only
  <1>2. CASE ~Finish(c)
    <2> DEFINE step == IF Adding(c) /\ client[c].run.prop.required /\ ~client[c].run.default
                       THEN "preflight" ELSE "collmod"
    <2>1. Becomes(c, step, client[c].run, validator, client[c].old, client[c].batch)
      BY <1>2, InvParts, ReadValidatorBecomes
    <2>2. /\ client'[c].at = step /\ client'[c].run = client[c].run /\ client'[c].seen = validator
          /\ Spares(c)
      BY <2>1, After
    <2>3. step \in {"preflight", "collmod"}
      OBVIOUS
    <2>4. step = "collmod" => ~(Adding(c) /\ client[c].run.prop.required /\ ~client[c].run.default)
      OBVIOUS
    <2> HIDE DEF step
    <2>5. UNCHANGED <<validator, docs, enums, excuses, statements>> /\ client[c].at = "read"
      BY DEF ReadValidator, Only
    <2>6. TypeOK'
      <3>1. ClientsTyped'
        BY <2>1, <2>3, InvParts, ValidatorTyped, FieldsTyped, StepTyped
      <3>2. QED
        BY <3>1, <2>5, EmptyExcuses, ClientsChange
    <2>7. Shape(c)'
      <3>1. Shape(c)
        BY InvParts DEF Shapes
      <3>2. QED
        BY <3>1, <2>2, <2>3, <2>5 DEF Shape
    <2>8. ASSUME Undisturbed, Solo(c) PROVE Filled' /\ ColumnSound(c)'
      <3>1. AllFilled
        BY <2>5, <2>8, Settled
      <3>2. Filled'
        BY <2>5, <3>1 DEF AllFilled, Filled
      <3>3. ColumnSound(c)'
        BY <2>2, <2>3, <2>4, <2>5 DEF ColumnSound, Adding
      <3>4. QED
        BY <3>2, <3>3
    <2>9. ASSUME Followed, Solo(c) PROVE Follow' /\ EnumSound(c)'
      <3>1. AllFollowed
        BY <2>5, <2>9, Settled
      <3>2. Follow'
        BY <2>5, <3>1 DEF AllFollowed, Follow, Bound
      <3>3. EnumSound(c)'
        BY <2>2, <2>3 DEF EnumSound
      <3>4. QED
        BY <3>2, <3>3
    <2>10. QED
      BY <2>2, <2>5, <2>6, <2>7, <2>8, <2>9, Assembled
  <1>3. QED
    BY <1>1, <1>2

\* A step that goes on with its statement and changes nothing else.
LEMMA GoesKeeps ==
    ASSUME IInv, NEW c \in Clients, client[c].at # "idle",
           UNCHANGED <<validator, docs, enums, excuses, statements>>,
           Spares(c), client'[c].run = client[c].run, client'[c].at \in {"collmod", "rewrite"},
           ClientsTyped', client[c].at \in {"preflight", "batch"},
           Undisturbed /\ Solo(c) => Filled' /\ ColumnSound(c)'
    PROVE  IInv'
  <1>1. Shape(c)'
    <2>1. Shape(c)
      BY InvParts DEF Shapes
    <2>2. QED
      BY <2>1 DEF Shape
  <1>2. TypeOK'
    BY EmptyExcuses, ClientsChange
  <1>3. ASSUME Followed, Solo(c) PROVE Follow' /\ EnumSound(c)'
    <2>1. AllFollowed
      BY <1>3, Settled
    <2>2. Follow'
      BY <2>1 DEF AllFollowed, Follow, Bound
    <2>3. EnumSound(c)'
      BY DEF EnumSound
    <2>4. QED
      BY <2>2, <2>3
  <1>4. QED
    BY <1>1, <1>2, <1>3, Assembled

LEMMA PreflightKeeps ==
    ASSUME IInv, NEW c \in Clients, Preflight(c)
    PROVE  IInv'
  <1>1. CASE Finish(c)
    BY <1>1, EmptyExcuses, Settled, FinishKeeps DEF Preflight, Only
  <1>2. CASE ~Finish(c)
    <2>1. Goes(c, "collmod") /\ (\A d \in DOMAIN docs : client[c].run.col \in docs[d])
      BY <1>2 DEF Preflight
    <2>2. Becomes(c, "collmod", client[c].run, client[c].seen, client[c].old, client[c].batch)
      BY <2>1, InvParts, GoesBecomes
    <2>3. /\ client'[c].at = "collmod" /\ client'[c].run = client[c].run
          /\ client'[c].seen = client[c].seen /\ Spares(c)
      BY <2>2, After
    <2>4. ClientsTyped'
      BY <2>2, InvParts, FieldsTyped, StepTyped
    <2>5. UNCHANGED <<validator, docs, enums, excuses, statements>> /\ client[c].at = "preflight"
      BY DEF Preflight, Only
    <2>6. ASSUME Undisturbed, Solo(c) PROVE Filled' /\ ColumnSound(c)'
      <3>1. AllFilled
        BY <2>5, <2>6, Settled
      <3>2. Filled'
        BY <2>5, <3>1 DEF AllFilled, Filled
      <3>3. client[c].seen = validator
        BY <2>5, <2>6 DEF Undisturbed, ColumnSound
      <3>4. ColumnSound(c)'
        BY <2>1, <2>3, <2>5, <3>3 DEF ColumnSound
      <3>5. QED
        BY <3>2, <3>4
    <2>7. QED
      BY <2>3, <2>4, <2>5, <2>6, GoesKeeps
  <1>3. QED
    BY <1>1, <1>2

LEMMA CollModBecomes ==
    ASSUME ClientsTyped, NEW c \in Clients, CollMod(c)
    PROVE  IF Adding(c) /\ ~client[c].run.default
           THEN Becomes(c, "idle", NoStatement, <<>>, <<>>, {})
           ELSE Becomes(c, "batch", client[c].run, <<>>, client[c].old, client[c].batch)
  <1>1. CASE Adding(c) /\ ~client[c].run.default
    BY <1>1, FinishBecomes DEF CollMod, Finish
  <1>2. CASE ~(Adding(c) /\ ~client[c].run.default)
    <2>1. client' = [client EXCEPT ![c] = [@ EXCEPT !.at = "batch", !.seen = <<>>]]
      BY <1>2 DEF CollMod
    <2>2. client'[c] = [client[c] EXCEPT !.at = "batch", !.seen = <<>>]
      BY <2>1 DEF ClientsTyped
    <2>3. client'[c] = [at |-> "batch", run |-> client[c].run, seen |-> <<>>,
                        old |-> client[c].old, batch |-> client[c].batch]
      BY <2>2, FieldsTyped
    <2>4. Becomes(c, "batch", client[c].run, <<>>, client[c].old, client[c].batch)
      BY <2>1, <2>3 DEF ClientsTyped, Becomes
    <2>5. QED
      BY <1>2, <2>4
  <1>3. QED
    BY <1>1, <1>2

LEMMA Cleared ==
    ASSUME NEW p \in Property
    PROVE  LET q == [p EXCEPT !.values = <<>>]
           IN  q \in Property /\ q.values = <<>> /\ q.required = p.required
  <1> DEFINE q == [p EXCEPT !.values = <<>>]
  <1>1. <<>> \in Seq(Members \cup {None})
    OBVIOUS
  <1>2. p = [required |-> p.required, nullable |-> p.nullable, values |-> p.values, of |-> p.of]
    BY DEF Property
  <1>3. q = [required |-> p.required, nullable |-> p.nullable, values |-> <<>>, of |-> p.of]
    BY <1>2
  <1>4. QED
    BY <1>1, <1>3 DEF Property

\* The validator collMod sends: the one read, with the column or without it.
LEMMA NewColumns ==
    ASSUME IInv, NEW c \in Clients, client[c].at = "collmod"
    PROVE  LET x == client[c].run.col  seen == client[c].seen  new == NewValidator(c) IN
           /\ IsPartial(new, Cols, Property)
           /\ \A y \in DOMAIN new : y # x => y \in DOMAIN seen /\ new[y] = seen[y]
           /\ Adding(c) => /\ new[x].values = <<>>
                           /\ new[x].required = client[c].run.prop.required
           /\ ~Adding(c) => x \notin DOMAIN new
  <1> DEFINE x == client[c].run.col
             seen == client[c].seen
             new == NewValidator(c)
             p == [client[c].run.prop EXCEPT !.values = <<>>]
  <1>1. x \in Cols /\ IsPartial(seen, Cols, Property)
    BY InvParts, FieldsTyped DEF Shapes, Shape
  <1>2. CASE Adding(c)
    <2>1. client[c].run.prop \in Property
      BY <1>2, InvParts DEF Shapes, Shape, Adding
    <2>2. p \in Property /\ p.values = <<>> /\ p.required = client[c].run.prop.required
      BY <2>1, Cleared
    <2>3. new = With(seen, x, p)
      BY <1>2 DEF NewValidator
    <2> HIDE DEF new, x, seen, p
    <2>4. p \in Property
      BY <2>2
    <2>5. /\ IsPartial(With(seen, x, p), Cols, Property)
          /\ DOMAIN With(seen, x, p) = DOMAIN seen \cup {x}
          /\ With(seen, x, p)[x] = p
          /\ \A z \in DOMAIN seen : z # x => With(seen, x, p)[z] = seen[z]
      BY <1>1, <2>4, WithTyped
    <2>6. /\ IsPartial(new, Cols, Property) /\ DOMAIN new = DOMAIN seen \cup {x} /\ new[x] = p
          /\ \A z \in DOMAIN seen : z # x => new[z] = seen[z]
      BY <2>3, <2>5
    <2>7. QED
      BY <1>2, <2>2, <2>6 DEF new, x, seen, p
  <1>3. CASE ~Adding(c)
    <2>1. new = Restrict(seen, DOMAIN seen \ {x})
      BY <1>3 DEF NewValidator
    <2> HIDE DEF new, x, seen, p
    <2>2. /\ IsPartial(new, Cols, Property) /\ DOMAIN new = DOMAIN seen \ {x}
          /\ \A z \in DOMAIN seen \ {x} : new[z] = seen[z]
      BY <1>1, <2>1, RestrictTyped
    <2>3. QED
      BY <1>3, <2>2 DEF new, x, seen, p
  <1>4. QED
    BY <1>2, <1>3

LEMMA CollModKeeps ==
    ASSUME IInv, NEW c \in Clients, CollMod(c)
    PROVE  IInv'
  <1> DEFINE x == client[c].run.col
             over == Adding(c) /\ ~client[c].run.default
  <1>1. /\ client[c].at = "collmod" /\ validator' = NewValidator(c)
        /\ UNCHANGED <<docs, enums, excuses, statements>>
    BY DEF CollMod
  <1>2. /\ Spares(c)
        /\ over => client'[c].at = "idle"
        /\ ~over => client'[c].at = "batch" /\ client'[c].run = client[c].run
    BY InvParts, CollModBecomes, After
  <1>3. ClientsTyped'
    BY InvParts, CollModBecomes, EmptyTyped, IdleTyped, FieldsTyped, StepTyped
  <1>4. TypeOK'
    BY <1>1, <1>3, NewColumns, InvParts DEF TypeOK, ClientsTyped
  <1>5. Shape(c)'
    <2>1. Shape(c)
      BY InvParts DEF Shapes
    <2>2. QED
      BY <1>1, <1>2, <2>1 DEF Shape
  <1>6. /\ \A y \in DOMAIN validator' : y # x => y \in DOMAIN client[c].seen
                                                /\ validator'[y] = client[c].seen[y]
        /\ Adding(c) => /\ validator'[x].values = <<>>
                        /\ validator'[x].required = client[c].run.prop.required
        /\ ~Adding(c) => x \notin DOMAIN validator'
    BY <1>1, NewColumns
  <1> HIDE DEF x
  <1>7. ASSUME Undisturbed, Solo(c) PROVE Filled' /\ ColumnSound(c)'
    <2>1. AllFilled /\ client[c].seen = validator
      BY <1>1, <1>7, Settled DEF Undisturbed, ColumnSound
    <2>2. \A y \in DOMAIN validator' : y # x /\ validator'[y].required => \A d \in DOMAIN docs : y \in docs[d]
      BY <1>6, <2>1 DEF AllFilled
    <2>3. ASSUME over, x \in DOMAIN validator', validator'[x].required
          PROVE  \A d \in DOMAIN docs : x \in docs[d]
      BY <1>1, <1>6, <1>7, <2>3 DEF Undisturbed, ColumnSound, x
    <2>4. ~over => client'[c].at = "batch" /\ client'[c].run.col = x
      BY <1>2 DEF x
    <2>5. Filled'
      BY <1>1, <2>2, <2>3, <2>4 DEF Filled, Rewriting
    <2>6. ColumnSound(c)'
      <3>1. CASE over
        BY <1>2, <3>1 DEF ColumnSound
      <3>2. CASE ~over
        BY <1>2, <1>6, <3>2 DEF ColumnSound, Adding, x
      <3>3. QED
        BY <3>1, <3>2
    <2>7. QED
      BY <2>5, <2>6
  <1>8. ASSUME Undisturbed, Followed, Solo(c) PROVE Follow' /\ EnumSound(c)'
    <2>1. AllFollowed /\ client[c].seen = validator
      BY <1>1, <1>8, Settled DEF Undisturbed, ColumnSound
    <2>2. \A y \in Cols : Bound(y)' => Bound(y) /\ validator'[y] = validator[y]
      BY <1>6, <2>1 DEF Bound
    <2>3. Follow'
      BY <1>1, <2>1, <2>2 DEF AllFollowed, Follow
    <2>4. EnumSound(c)'
      BY <1>2 DEF EnumSound
    <2>5. QED
      BY <2>3, <2>4
  <1>9. QED
    BY <1>1, <1>2, <1>4, <1>5, <1>7, <1>8, Assembled

LEMMA FindBatchKeeps ==
    ASSUME IInv, NEW c \in Clients, FindBatch(c)
    PROVE  IInv'
  <1> DEFINE x == client[c].run.col
  <1>1. client[c].at = "batch" /\ UNCHANGED <<validator, docs, enums, excuses, statements>>
    BY DEF FindBatch, Only
  <1>2. CASE Pending(c) = {} /\ Finish(c)
    <2>1. Adding(c) => \A d \in DOMAIN docs : x \in docs[d]
      BY <1>2 DEF Pending
    <2>2. ASSUME Undisturbed, Solo(c) PROVE AllFilled
      <3>1. ~Adding(c) => x \notin DOMAIN validator
        BY <1>1, <2>2 DEF Undisturbed, ColumnSound
      <3>2. \A y : Rewriting(y) => y = x
        BY <2>2, AtRest
      <3>3. QED
        BY <2>1, <2>2, <3>1, <3>2 DEF Undisturbed, Filled, AllFilled
    <2>3. Followed /\ Solo(c) => AllFollowed
      BY <1>1, Settled
    <2>4. QED
      BY <1>1, <1>2, <2>2, <2>3, EmptyExcuses, FinishKeeps
  <1>3. CASE \E some \in SUBSET Pending(c) :
               client' = [client EXCEPT ![c].at = "rewrite", ![c].batch = some]
    <2>1. PICK some \in SUBSET Pending(c) :
                 client' = [client EXCEPT ![c].at = "rewrite", ![c].batch = some]
      BY <1>3
    <2>2. some \in SUBSET Docs
      BY ValidatorTyped DEF Pending, IsPartial
    <2>3. client'[c] = [client[c] EXCEPT !.at = "rewrite", !.batch = some]
      BY <2>1, InvParts DEF ClientsTyped
    <2>4. client'[c] = [at |-> "rewrite", run |-> client[c].run, seen |-> client[c].seen,
                        old |-> client[c].old, batch |-> some]
      BY <2>3, InvParts, FieldsTyped
    <2>5. Becomes(c, "rewrite", client[c].run, client[c].seen, client[c].old, some)
      BY <2>1, <2>4, InvParts DEF ClientsTyped, Becomes
    <2>6. client'[c].at = "rewrite" /\ client'[c].run = client[c].run /\ Spares(c)
      BY <2>5, After
    <2>7. ClientsTyped'
      BY <2>2, <2>5, InvParts, FieldsTyped, StepTyped
    <2>8. ASSUME Undisturbed, Solo(c) PROVE Filled' /\ ColumnSound(c)'
      <3>1. \A y : Rewriting(y) => y = x
        BY <2>8, AtRest
      <3>2. Filled'
        BY <1>1, <2>6, <2>8, <3>1 DEF Undisturbed, Filled, Rewriting
      <3>3. ColumnSound(c)'
        BY <1>1, <2>6, <2>8 DEF Undisturbed, ColumnSound, Adding
      <3>4. QED
        BY <3>2, <3>3
    <2>9. QED
      BY <1>1, <2>6, <2>7, <2>8, GoesKeeps
  <1>4. QED
    BY <1>2, <1>3 DEF FindBatch

LEMMA RewriteBatchBecomes ==
    ASSUME ClientsTyped, NEW c \in Clients, RewriteBatch(c)
    PROVE  Becomes(c, "batch", client[c].run, client[c].seen, client[c].old, {})
  <1>1. client'[c] = [client[c] EXCEPT !.at = "batch", !.batch = {}]
    BY DEF RewriteBatch, ClientsTyped
  <1>2. client'[c] = [at |-> "batch", run |-> client[c].run, seen |-> client[c].seen,
                      old |-> client[c].old, batch |-> {}]
    BY <1>1, FieldsTyped
  <1>3. QED
    BY <1>2 DEF RewriteBatch, ClientsTyped, Becomes

LEMMA RewriteBatchKeeps ==
    ASSUME IInv, NEW c \in Clients, RewriteBatch(c)
    PROVE  IInv'
  <1> DEFINE x == client[c].run.col
  <1>1. client[c].at = "rewrite" /\ UNCHANGED <<validator, enums, excuses, statements>>
    BY DEF RewriteBatch
  <1>2. Becomes(c, "batch", client[c].run, client[c].seen, client[c].old, {})
    BY InvParts, RewriteBatchBecomes
  <1>3. client'[c].at = "batch" /\ client'[c].run = client[c].run /\ Spares(c)
    BY <1>2, After
  <1>4. x \in Cols
    BY <1>1, InvParts DEF Shapes, Shape
  <1>5. /\ DOMAIN docs' = DOMAIN docs
        /\ \A d \in DOMAIN docs : /\ docs'[d] \subseteq docs[d] \cup {x}
                                  /\ Adding(c) => docs[d] \subseteq docs'[d]
                                  /\ \A y \in docs[d] : y # x => y \in docs'[d]
        /\ docs' = [d \in DOMAIN docs |-> docs'[d]]
    BY DEF RewriteBatch
  <1>6. TypeOK'
    <2>1. ClientsTyped'
      BY <1>2, InvParts, FieldsTyped, IdleTyped, StepTyped
    <2>2. IsPartial(docs', Docs, SUBSET Cols)
      BY <1>4, <1>5, ValidatorTyped DEF IsPartial
    <2>3. QED
      BY <1>1, <2>1, <2>2, InvParts DEF TypeOK, ClientsTyped
  <1>7. Shape(c)'
    <2>1. Shape(c)
      BY InvParts DEF Shapes
    <2>2. QED
      BY <1>1, <1>3, <2>1 DEF Shape
  <1>8. ASSUME Undisturbed, Solo(c) PROVE Filled' /\ ColumnSound(c)'
    <2>1. ~Adding(c) => x \notin DOMAIN validator
      BY <1>1, <1>8 DEF Undisturbed, ColumnSound
    <2>2. \A y : Rewriting(y) => Rewriting(y)'
      BY <1>3, <1>8, AtRest DEF Rewriting
    <2>3. \A y \in DOMAIN validator, d \in DOMAIN docs : y \in docs[d] => y \in docs'[d]
      BY <1>5, <2>1
    <2>4. Filled'
      BY <1>1, <1>5, <1>8, <2>2, <2>3 DEF Undisturbed, Filled
    <2>5. ColumnSound(c)'
      BY <1>1, <1>3, <2>1 DEF ColumnSound, Adding
    <2>6. QED
      BY <2>4, <2>5
  <1>9. ASSUME Followed, Solo(c) PROVE Follow' /\ EnumSound(c)'
    <2>1. AllFollowed
      BY <1>1, <1>9, Settled
    <2>2. Follow'
      BY <1>1, <2>1 DEF AllFollowed, Follow, Bound
    <2>3. EnumSound(c)'
      BY <1>3 DEF EnumSound
    <2>4. QED
      BY <2>2, <2>3
  <1>10. QED
    BY <1>1, <1>3, <1>6, <1>7, <1>8, <1>9, Assembled

-----------------------------------------------------------------------------
(* Documents and enums written by others. *)

\* A step that leaves the clients alone.
LEMMA OutsideKeeps ==
    ASSUME IInv, UNCHANGED <<validator, client, statements>>, excuses \subseteq excuses', TypeOK',
           Calm' /\ Undisturbed => Filled' /\ \A c \in Clients : ColumnSound(c)',
           excuses' = {} /\ Followed => Follow' /\ \A c \in Clients : EnumSound(c)'
    PROVE  IInv'
  <1>1. Shapes'
    BY InvParts DEF Shapes, Shape
  <1>2. Calm' => Calm
    BY DEF Calm
  <1>3. Calm' => Undisturbed'
    <2>1. Undisturbed => Alone'
      BY DEF Undisturbed, Alone, Working
    <2>2. QED
      BY <1>2, <2>1 DEF IInv, Undisturbed
  <1>4. excuses' = {} => excuses = {}
    OBVIOUS
  <1>5. excuses' = {} => Followed'
    BY <1>4 DEF IInv, Followed
  <1>6. QED
    BY <1>1, <1>3, <1>5 DEF IInv

LEMMA DocsOnly ==
    ASSUME UNCHANGED <<validator, enums, client>>, Followed
    PROVE  Follow' /\ \A c \in Clients : EnumSound(c)'
  BY DEF Followed, Follow, EnumSound, Bound, BoundTo, Lags, Twins

LEMMA InsertDocKeeps ==
    ASSUME IInv, NEW d \in Docs, InsertDoc(d)
    PROVE  IInv'
  <1>1. PICK cols \in SUBSET Cols :
          /\ d \notin DOMAIN docs /\ Full(validator, cols)
          /\ docs' = With(docs, d, cols)
    BY DEF InsertDoc
  <1>2. UNCHANGED <<validator, enums, client, statements>> /\ excuses \subseteq excuses'
    BY DEF InsertDoc
  <1>3. \A c \in Clients : client[c].at = "collmod" /\ Adding(c) /\ ~client[c].run.default => ~Calm'
    <2>1. \A c \in Clients : client[c].at = "collmod" /\ Adding(c) /\ ~client[c].run.default
             => "insert" \in excuses'
      BY DEF InsertDoc
    <2>2. QED
      BY <2>1 DEF Calm
  <1>4. /\ IsPartial(docs', Docs, SUBSET Cols) /\ DOMAIN docs' = DOMAIN docs \cup {d}
        /\ docs'[d] = cols /\ \A z \in DOMAIN docs : docs'[z] = docs[z]
    <2>1. /\ IsPartial(With(docs, d, cols), Docs, SUBSET Cols)
          /\ DOMAIN With(docs, d, cols) = DOMAIN docs \cup {d}
          /\ With(docs, d, cols)[d] = cols
          /\ \A z \in DOMAIN docs : z # d => With(docs, d, cols)[z] = docs[z]
      BY ValidatorTyped DEF With, IsPartial
    <2>2. QED
      BY <1>1, <2>1
  <1>5. TypeOK'
    BY <1>2, <1>4, InvParts DEF TypeOK, InsertDoc, IsPartial
  <1>6. ASSUME Calm', Undisturbed PROVE Filled' /\ \A c \in Clients : ColumnSound(c)'
    <2>1. Filled'
      BY <1>1, <1>2, <1>4, <1>6 DEF Undisturbed, Filled, Rewriting, Full
    <2>2. \A c \in Clients : ColumnSound(c)'
      BY <1>2, <1>3, <1>6 DEF Undisturbed, ColumnSound, Adding
    <2>3. QED
      BY <2>1, <2>2
  <1>7. QED
    BY <1>2, <1>5, <1>6, DocsOnly, OutsideKeeps

LEMMA DeleteDocKeeps ==
    ASSUME IInv, NEW d \in Docs, DeleteDoc(d)
    PROVE  IInv'
  <1>1. UNCHANGED <<validator, enums, client, excuses, statements>>
    BY DEF DeleteDoc
  <1>2. docs' = Restrict(docs, DOMAIN docs \ {d})
    BY DEF DeleteDoc
  <1>3. /\ IsPartial(docs', Docs, SUBSET Cols) /\ DOMAIN docs' \subseteq DOMAIN docs
        /\ \A z \in DOMAIN docs' : docs'[z] = docs[z]
    BY <1>2, ValidatorTyped, RestrictTyped
  <1>4. TypeOK'
    BY <1>1, <1>3, InvParts DEF TypeOK, IsPartial
  <1>5. ASSUME Undisturbed PROVE Filled' /\ \A c \in Clients : ColumnSound(c)'
    BY <1>1, <1>3, <1>5 DEF Undisturbed, Filled, ColumnSound, Rewriting, Adding
  <1>6. QED
    BY <1>1, <1>4, <1>5, DocsOnly, OutsideKeeps
-----------------------------------------------------------------------------
(* Steps of the statements about enums. *)

LEMMA AppendDistinct ==
    ASSUME NEW S, NEW s \in Seq(S), NEW m \in S, IsInjective(s), m \notin Range(s)
    PROVE  IsInjective(Append(s, m))
  <1>1. /\ Len(s) \in Nat /\ DOMAIN s = 1..Len(s) /\ DOMAIN Append(s, m) = 1..(Len(s) + 1)
        /\ \A i \in 1..Len(s) : Append(s, m)[i] = s[i]
        /\ Append(s, m)[Len(s) + 1] = m
    BY AppendProperties, LenProperties
  <1>2. \A i \in 1..Len(s) : s[i] # m
    BY <1>1 DEF Range
  <1> DEFINE t == Append(s, m)
  <1>3. ASSUME NEW i \in 1..(Len(s) + 1), NEW j \in 1..(Len(s) + 1), t[i] = t[j]
        PROVE  i = j
    BY <1>1, <1>2, <1>3 DEF IsInjective
  <1>4. QED
    BY <1>1, <1>3 DEF IsInjective

LEMMA OneInjective ==
    ASSUME NEW S, NEW m \in S
    PROVE  <<m>> \in Seq(S) /\ IsInjective(<<m>>)
  <1>1. IsInjective(<<m>>)
    BY DEF IsInjective
  <1>2. QED
    BY <1>1

\* The documents and the columns stay as they were, and no batch runs.
LEMMA ColumnsRest ==
    ASSUME NEW c \in Clients, UNCHANGED <<validator, docs>>, Solo(c), Undisturbed,
           client[c].at \notin {"batch", "rewrite"}
    PROVE  Filled'
  <1>1. AllFilled
    BY Settled
  <1>2. QED
    BY <1>1 DEF AllFilled, Filled

LEMMA ReadMembersBecomes ==
    ASSUME ClientsTyped, NEW c \in Clients, ReadMembers(c), ~Finish(c)
    PROVE  Becomes(c, IF client[c].run.do = "add member" THEN "add" ELSE "list",
                   client[c].run, client[c].seen, enums[client[c].run.enum], client[c].batch)
  <1> DEFINE step == IF client[c].run.do = "add member" THEN "add" ELSE "list"
             old == enums[client[c].run.enum]
  <1>1. client' = [client EXCEPT ![c].old = old, ![c].at = step]
    BY DEF ReadMembers
  <1> HIDE DEF step, old
  <1>2. client'[c] = [client[c] EXCEPT !.old = old, !.at = step]
    BY <1>1 DEF ClientsTyped
  <1>3. client'[c] = [at |-> step, run |-> client[c].run, seen |-> client[c].seen,
                      old |-> old, batch |-> client[c].batch]
    BY <1>2, FieldsTyped
  <1>4. Becomes(c, step, client[c].run, client[c].seen, old, client[c].batch)
    BY <1>1, <1>3 DEF ClientsTyped, Becomes
  <1>5. QED
    BY <1>4 DEF step, old

LEMMA ReadMembersKeeps ==
    ASSUME IInv, NEW c \in Clients, ReadMembers(c)
    PROVE  IInv'
  <1>1. CASE Finish(c)
    BY <1>1, EmptyExcuses, Settled, FinishKeeps DEF ReadMembers, Only
  <1>2. CASE ~Finish(c)
    <2> DEFINE step == IF client[c].run.do = "add member" THEN "add" ELSE "list"
               e == client[c].run.enum
    <2>1. Becomes(c, step, client[c].run, client[c].seen, enums[e], client[c].batch)
      BY <1>2, InvParts, ReadMembersBecomes
    <2> HIDE DEF step
    <2>2. /\ client'[c].at = step /\ client'[c].run = client[c].run /\ client'[c].old = enums[e]
          /\ Spares(c)
      BY <2>1, After
    <2>3. /\ step \in {"add", "list"} /\ (step = "add" <=> client[c].run.do = "add member")
      BY DEF step
    <2>4. /\ client[c].at = "members" /\ UNCHANGED <<validator, docs, enums, excuses, statements>>
          /\ e \in DOMAIN enums
          /\ client[c].run.do = "add member" => client[c].run.member \notin Range(enums[e])
      BY <1>2 DEF ReadMembers, Only
    <2>5. Shape(c)
      BY InvParts DEF Shapes
    <2>6. Shape(c)'
      BY <2>2, <2>3, <2>4, <2>5 DEF Shape
    <2>7. TypeOK'
      <3>1. enums[e] \in Seq(Members)
        BY <2>4, ValidatorTyped DEF IsPartial
      <3>2. ClientsTyped'
        BY <2>1, <2>3, <3>1, InvParts, FieldsTyped, StepTyped
      <3>3. QED
        BY <3>2, <2>4, EmptyExcuses, ClientsChange
    <2>8. ASSUME Undisturbed, Solo(c) PROVE Filled' /\ ColumnSound(c)'
      <3>1. ColumnSound(c)'
        BY <2>2, <2>3 DEF ColumnSound
      <3>2. QED
        BY <2>4, <2>8, <3>1, ColumnsRest
    <2>9. ASSUME Followed, Solo(c) PROVE Follow' /\ EnumSound(c)'
      <3>1. AllFollowed
        BY <2>4, <2>9, Settled
      <3>2. Follow'
        BY <2>4, <3>1 DEF AllFollowed, Follow, Bound
      <3>3. \A x \in Cols : BoundTo(x, e) => validator[x].values = enums[e]
        BY <3>1 DEF AllFollowed, BoundTo
      <3>4. step = "list" => client[c].run.do = "drop enum"
        BY <2>3, <2>4, <2>5 DEF Shape
      <3>5. EnumSound(c)'
        BY <2>2, <2>3, <2>4, <3>3, <3>4 DEF EnumSound, BoundTo, Bound
      <3>6. QED
        BY <3>2, <3>5
    <2>10. QED
      BY <2>2, <2>4, <2>6, <2>7, <2>8, <2>9, Assembled
  <1>3. QED
    BY <1>1, <1>2

LEMMA AddMemberKeeps ==
    ASSUME IInv, NEW c \in Clients, AddMember(c)
    PROVE  IInv'
  <1> DEFINE e == client[c].run.enum
             m == client[c].run.member
  <1>1. /\ client[c].at = "add" /\ UNCHANGED <<validator, docs, excuses, statements>>
        /\ enums' = IF e \in DOMAIN enums /\ m \notin Range(enums[e])
                    THEN [enums EXCEPT ![e] = Append(@, m)] ELSE enums
    BY DEF AddMember
  <1>2. Becomes(c, "list", client[c].run, client[c].seen, client[c].old, client[c].batch)
    BY InvParts, GoesBecomes DEF AddMember
  <1>3. /\ client'[c].at = "list" /\ client'[c].run = client[c].run
        /\ client'[c].old = client[c].old /\ Spares(c)
    BY <1>2, After
  <1>4. Shape(c) /\ m \in Members /\ client[c].run.do = "add member"
    BY <1>1, InvParts DEF Shapes, Shape
  <1>5. Shape(c)'
    BY <1>1, <1>3, <1>4 DEF Shape
  <1>6. TypeOK'
    <2>1. ClientsTyped'
      BY <1>2, InvParts, FieldsTyped, StepTyped
    <2>2. \A f \in DOMAIN enums : enums[f] \in Seq(Members) /\ IsInjective(enums[f])
      BY InvParts DEF TypeOK, IsPartial
    <2>3. e \in DOMAIN enums /\ m \notin Range(enums[e]) =>
             Append(enums[e], m) \in Seq(Members) /\ IsInjective(Append(enums[e], m))
      <3>1. ASSUME e \in DOMAIN enums, m \notin Range(enums[e])
            PROVE  Append(enums[e], m) \in Seq(Members) /\ IsInjective(Append(enums[e], m))
        <4>1. enums[e] \in Seq(Members) /\ IsInjective(enums[e]) /\ m \in Members
          BY <1>4, <2>2, <3>1
        <4>2. IsInjective(Append(enums[e], m))
          BY <3>1, <4>1, AppendDistinct
        <4>3. Append(enums[e], m) \in Seq(Members)
          BY <4>1
        <4>4. QED
          BY <4>2, <4>3
      <3>2. QED
        BY <3>1
    <2>4. DOMAIN enums' = DOMAIN enums /\ enums' = [f \in DOMAIN enums |-> enums'[f]]
      BY <1>1, ValidatorTyped DEF IsPartial
    <2>5. \A f \in DOMAIN enums : enums'[f] \in Seq(Members) /\ IsInjective(enums'[f])
      BY <1>1, <2>2, <2>3
    <2>6. IsPartial(enums', Enums, Seq(Members))
      BY <2>4, <2>5, ValidatorTyped DEF IsPartial
    <2>7. QED
      BY <1>1, <2>1, <2>4, <2>5, <2>6, InvParts DEF TypeOK, ClientsTyped
  <1>7. ASSUME Undisturbed, Solo(c) PROVE Filled' /\ ColumnSound(c)'
    <2>1. ColumnSound(c)'
      BY <1>3 DEF ColumnSound
    <2>2. QED
      BY <1>1, <1>7, <2>1, ColumnsRest
  <1>8. ASSUME Followed, Solo(c) PROVE Follow' /\ EnumSound(c)'
    <2>1. AllFollowed
      BY <1>1, <1>8, Settled
    <2>2. /\ e \in DOMAIN enums /\ enums[e] = client[c].old
          /\ m \notin Range(enums[e])
          /\ \A x \in Cols : BoundTo(x, e) => validator[x].values = client[c].old
      BY <1>1, <1>8 DEF Followed, EnumSound
    <2>3. /\ DOMAIN enums' = DOMAIN enums /\ enums'[e] = Append(client[c].old, m)
          /\ \A f \in DOMAIN enums : f # e => enums'[f] = enums[f]
      BY <1>1, <2>2
    <2>4. client'[c].at = "list" /\ client'[c].run.do = "add member" /\ client'[c].run.enum = e
      BY <1>3, <1>4
    <2>5. Follow'
      BY <1>1, <2>1, <2>3, <2>4 DEF AllFollowed, Follow, Bound, Lags
    <2>6. EnumSound(c)'
      BY <1>1, <1>3, <1>4, <2>2, <2>3 DEF EnumSound, BoundTo, Bound
    <2>7. QED
      BY <2>5, <2>6
  <1>9. QED
    BY <1>1, <1>3, <1>5, <1>6, <1>7, <1>8, Assembled

\* Where the list of validators leads a statement about an enum.
LEMMA ListValidatorsBecomes ==
    ASSUME ClientsTyped, NEW c \in Clients, ListValidators(c), ~Finish(c)
    PROVE  \E next \in {"patch", "delete"} :
              /\ Becomes(c, next, client[c].run, validator, client[c].old, client[c].batch)
              /\ next = "delete" => /\ Matches(validator, client[c].old) = {}
                                    /\ client[c].run.do = "drop enum"
  <1> DEFINE used == Matches(validator, client[c].old)
             next == IF used # {} THEN "patch"
                     ELSE IF client[c].run.do = "drop enum" THEN "delete" ELSE "idle"
  <1>1. client' = [client EXCEPT ![c] =
           IF next = "idle" \/ (client[c].run.do = "drop enum" /\ used # {} /\ ~client[c].run.guard)
           THEN Idle ELSE [@ EXCEPT !.at = next, !.seen = validator]]
    BY DEF ListValidators
  <1>2. /\ client' = [client EXCEPT ![c] = [@ EXCEPT !.at = next, !.seen = validator]]
        /\ next # "idle"
    BY <1>1 DEF Finish
  <1>3. /\ next \in {"patch", "delete"}
        /\ next = "delete" => used = {} /\ client[c].run.do = "drop enum"
    BY <1>2
  <1> HIDE DEF next, used
  <1>4. client'[c] = [client[c] EXCEPT !.at = next, !.seen = validator]
    BY <1>2 DEF ClientsTyped
  <1>5. client'[c] = [at |-> next, run |-> client[c].run, seen |-> validator,
                      old |-> client[c].old, batch |-> client[c].batch]
    BY <1>4, FieldsTyped
  <1>6. Becomes(c, next, client[c].run, validator, client[c].old, client[c].batch)
    BY <1>2, <1>5 DEF ClientsTyped, Becomes
  <1>7. QED
    BY <1>3, <1>6 DEF used

\* A column bound to the enum of a statement is found by its values.
LEMMA Found ==
    ASSUME IInv, NEW c \in Clients, EnumSound(c), client[c].at \in {"list", "patch"},
           NEW x \in Cols, BoundTo(x, client[c].run.enum)
    PROVE  x \in Matches(validator, client[c].old)
  BY DEF EnumSound, BoundTo, Bound, Matches

LEMMA ListValidatorsKeeps ==
    ASSUME IInv, NEW c \in Clients, ListValidators(c)
    PROVE  IInv'
  <1> DEFINE e == client[c].run.enum
  <1>1. /\ client[c].at = "list" /\ UNCHANGED <<validator, docs, enums, statements>>
        /\ excuses' = excuses \cup (IF Twins(e, client[c].old) THEN {"twin"} ELSE {})
    BY DEF ListValidators
  <1>2. /\ excuses \subseteq excuses' /\ excuses' \subseteq {"race", "crash", "twin", "insert"}
        /\ excuses' = {} => ~Twins(e, client[c].old)
    BY <1>1, EmptyExcuses
  <1>3. CASE Finish(c)
    <2>1. \/ client[c].run.do = "drop enum"
          \/ Matches(validator, client[c].old) = {}
      <3>1. client'[c].at = "idle"
        BY <1>3, InvParts, FinishBecomes, After
      <3>2. ASSUME client[c].run.do # "drop enum", Matches(validator, client[c].old) # {}
            PROVE  FALSE
        <4>1. client' = [client EXCEPT ![c] = [@ EXCEPT !.at = "patch", !.seen = validator]]
          BY <3>2 DEF ListValidators
        <4>2. client'[c].at = "patch"
          BY <4>1, InvParts, FieldsTyped DEF ClientsTyped
        <4>3. QED
          BY <3>1, <4>2
      <3>3. QED
        BY <3>2
    <2>2. ASSUME Followed, Solo(c) PROVE AllFollowed
      <3>1. CASE client[c].run.do = "drop enum"
        BY <2>2, <3>1, Settled
      <3>2. CASE Matches(validator, client[c].old) = {}
        <4>1. \A x \in Cols : ~BoundTo(x, e)
          BY <1>1, <2>2, <3>2, Found DEF Followed
        <4>2. \A f : Lags(f) => f = e
          BY <2>2, AtRest
        <4>3. QED
          BY <2>2, <4>1, <4>2 DEF Followed, Follow, AllFollowed, BoundTo
      <3>3. QED
        BY <2>1, <3>1, <3>2
    <2>3. Undisturbed /\ Solo(c) => AllFilled
      BY <1>1, Settled
    <2>4. QED
      BY <1>1, <1>2, <1>3, <2>2, <2>3, FinishKeeps
  <1>4. CASE ~Finish(c)
    <2>1. PICK next \in {"patch", "delete"} :
              /\ Becomes(c, next, client[c].run, validator, client[c].old, client[c].batch)
              /\ next = "delete" => /\ Matches(validator, client[c].old) = {}
                                    /\ client[c].run.do = "drop enum"
      BY <1>4, InvParts, ListValidatorsBecomes
    <2>2. Becomes(c, next, client[c].run, validator, client[c].old, client[c].batch)
      BY <2>1
    <2>3. next \in {"idle", "read", "preflight", "collmod", "batch", "rewrite",
                    "members", "add", "list", "patch", "delete"}
      BY <2>1
    <2>4. /\ client'[c].at = next /\ client'[c].run = client[c].run /\ client'[c].seen = validator
          /\ client'[c].old = client[c].old /\ Spares(c)
      BY <2>2, After
    <2>5. Shape(c)'
      <3>1. Shape(c)
        BY InvParts DEF Shapes
      <3>2. QED
        BY <1>1, <2>1, <2>4, <3>1 DEF Shape
    <2>6. TypeOK'
      <3>1. ClientsTyped'
        BY <2>2, <2>3, InvParts, ValidatorTyped, FieldsTyped, StepTyped
      <3>2. QED
        BY <1>1, <1>2, <3>1, ClientsChange
    <2>7. ASSUME Undisturbed, Solo(c) PROVE Filled' /\ ColumnSound(c)'
      <3>1. ColumnSound(c)'
        BY <1>1, <2>4 DEF ColumnSound
      <3>2. QED
        BY <1>1, <2>7, <3>1, ColumnsRest
    <2>8. ASSUME Followed, Solo(c), excuses' = {} PROVE Follow' /\ EnumSound(c)'
      <3>1. EnumSound(c) /\ ~Twins(e, client[c].old)
        BY <1>2, <2>8 DEF Followed
      <3>2. next = "delete" => \A x \in Cols : ~BoundTo(x, e)
        BY <1>1, <2>1, <3>1, Found
      <3>3. EnumSound(c)'
        BY <1>1, <2>1, <2>4, <3>1, <3>2 DEF EnumSound, BoundTo, Bound, Twins
      <3>4. CASE next = "delete"
        <4>1. AllFollowed
          BY <2>1, <2>8, <3>4, Settled
        <4>2. QED
          BY <1>1, <3>3, <4>1 DEF AllFollowed, Follow, Bound
      <3>5. CASE next = "patch"
        <4>1. \A f : Lags(f) => Lags(f)'
          BY <2>4, <2>8, <3>5, AtRest DEF Lags
        <4>2. QED
          BY <1>1, <2>8, <3>3, <4>1 DEF Followed, Follow, Bound
      <3>6. QED
        BY <3>4, <3>5
    <2>9. QED
      BY <1>1, <1>2, <2>4, <2>5, <2>6, <2>7, <2>8, Assembled
  <1>5. QED
    BY <1>3, <1>4

LEMMA PatchValidatorBecomes ==
    ASSUME ClientsTyped, NEW c \in Clients, PatchValidator(c)
    PROVE  IF client[c].run.do = "add member"
           THEN Becomes(c, "idle", NoStatement, <<>>, <<>>, {})
           ELSE Becomes(c, "delete", client[c].run, client[c].seen, client[c].old, client[c].batch)
  BY FinishBecomes, GoesBecomes DEF PatchValidator

LEMMA Revalued ==
    ASSUME NEW p \in Property, NEW s \in Seq(Members)
    PROVE  LET q == [p EXCEPT !.values = s]
           IN  /\ q \in Property /\ q.values = s
               /\ q.required = p.required /\ q.nullable = p.nullable /\ q.of = p.of
  <1> DEFINE q == [p EXCEPT !.values = s]
  <1>1. s \in Seq(Members \cup {None})
    BY MemberSeq
  <1>2. p = [required |-> p.required, nullable |-> p.nullable, values |-> p.values, of |-> p.of]
    BY DEF Property
  <1>3. q = [required |-> p.required, nullable |-> p.nullable, values |-> s, of |-> p.of]
    BY <1>2
  <1>4. QED
    BY <1>1, <1>3 DEF Property

LEMMA Appended ==
    ASSUME NEW s \in Seq(Members), NEW m \in Members
    PROVE  Append(s, m) \in Seq(Members)
  OBVIOUS

\* The values a column gets.
NewValues(c) == IF client[c].run.do = "add member"
                THEN Append(client[c].old, client[c].run.member) ELSE <<>>

LEMMA NewValuesTyped ==
    ASSUME IInv, NEW c \in Clients, client[c].at = "patch"
    PROVE  NewValues(c) \in Seq(Members)
  <1>1. client[c].old \in Seq(Members)
    BY InvParts, FieldsTyped
  <1>2. client[c].run.do = "add member" => client[c].run.member \in Members
    BY InvParts DEF Shapes, Shape
  <1>3. CASE client[c].run.do = "add member"
    <2>1. Append(client[c].old, client[c].run.member) \in Seq(Members)
      BY <1>1, <1>2, <1>3, Appended
    <2>2. QED
      BY <1>3, <2>1 DEF NewValues
  <1>4. CASE client[c].run.do # "add member"
    BY <1>4, IdleTyped DEF NewValues
  <1>5. QED
    BY <1>3, <1>4

\* The columns found get the new values, and the others keep what they have.
LEMMA Patched ==
    ASSUME IInv, NEW c \in Clients, PatchValidator(c)
    PROVE  /\ IsPartial(validator', Cols, Property) /\ DOMAIN validator' = DOMAIN client[c].seen
           /\ \A x \in DOMAIN client[c].seen :
                 /\ validator'[x].required = client[c].seen[x].required
                 /\ validator'[x].nullable = client[c].seen[x].nullable
                 /\ validator'[x].of = client[c].seen[x].of
                 /\ validator'[x].values = IF x \in Matches(client[c].seen, client[c].old)
                                           THEN NewValues(c) ELSE client[c].seen[x].values
  <1> DEFINE seen == client[c].seen
             used == Matches(seen, client[c].old)
             new == NewValues(c)
  <1>1. validator' = [x \in DOMAIN seen |-> IF x \in used THEN [seen[x] EXCEPT !.values = new] ELSE seen[x]]
    BY DEF PatchValidator, NewValues
  <1>2. IsPartial(seen, Cols, Property) /\ new \in Seq(Members)
    BY InvParts, FieldsTyped, NewValuesTyped DEF PatchValidator
  <1> HIDE DEF seen, used, new
  <1>3. \A x \in DOMAIN seen : seen[x] \in Property
    BY <1>2 DEF IsPartial
  <1>4. ASSUME NEW x \in DOMAIN seen
        PROVE  /\ validator'[x] \in Property
               /\ validator'[x].required = seen[x].required
               /\ validator'[x].nullable = seen[x].nullable
               /\ validator'[x].of = seen[x].of
               /\ validator'[x].values = IF x \in used THEN new ELSE seen[x].values
    <2>1. seen[x] \in Property
      BY <1>3
    <2>2. CASE x \in used
      <3>1. validator'[x] = [seen[x] EXCEPT !.values = new]
        BY <1>1, <2>2
      <3>2. QED
        BY <1>2, <2>1, <2>2, <3>1, Revalued
    <2>3. CASE x \notin used
      BY <1>1, <2>1, <2>3
    <2>4. QED
      BY <2>2, <2>3
  <1>5. DOMAIN validator' = DOMAIN seen
    BY <1>1
  <1>6. IsPartial(validator', Cols, Property)
    BY <1>1, <1>2, <1>4, <1>5 DEF IsPartial
  <1>7. QED
    BY <1>4, <1>5, <1>6 DEF seen, used, new

\* With no twin, the columns found are those bound to the enum.
LEMMA OnlyBound ==
    ASSUME IInv, NEW c \in Clients, Followed, Solo(c), client[c].at = "patch",
           NEW x \in Cols, Bound(x)
    PROVE  x \in Matches(validator, client[c].old) <=> validator[x].of = client[c].run.enum
  <1> DEFINE e == client[c].run.enum
             f == validator[x].of
  <1>1. EnumSound(c)
    BY DEF Followed
  <1>2. CASE f = e
    BY <1>1, <1>2, Found DEF BoundTo
  <1>3. CASE f # e
    <2>1. f \in DOMAIN enums /\ validator[x].values = enums[f]
      <3>1. ~Lags(f)
        BY <1>3, AtRest
      <3>2. QED
        BY <3>1 DEF Followed, Follow
    <2>2. enums[f] # client[c].old
      BY <1>1, <1>3, <2>1 DEF EnumSound, Twins
    <2>3. QED
      BY <1>3, <2>1, <2>2 DEF Matches
  <1>4. QED
    BY <1>2, <1>3

LEMMA PatchValidatorKeeps ==
    ASSUME IInv, NEW c \in Clients, PatchValidator(c)
    PROVE  IInv'
  <1> DEFINE e == client[c].run.enum
  <1>1. client[c].at = "patch" /\ UNCHANGED <<docs, enums, excuses, statements>>
    BY DEF PatchValidator
  <1>2. /\ Spares(c)
        /\ client[c].run.do = "add member" => client'[c].at = "idle"
        /\ client[c].run.do # "add member" =>
              client'[c].at = "delete" /\ client'[c].run = client[c].run
    <2>1. CASE client[c].run.do = "add member"
      <3>1. Becomes(c, "idle", NoStatement, <<>>, <<>>, {})
        BY <2>1, InvParts, PatchValidatorBecomes
      <3>2. QED
        BY <2>1, <3>1, After
    <2>2. CASE client[c].run.do # "add member"
      <3>1. Becomes(c, "delete", client[c].run, client[c].seen, client[c].old, client[c].batch)
        BY <2>2, InvParts, PatchValidatorBecomes
      <3>2. client'[c].at = "delete" /\ client'[c].run = client[c].run /\ Spares(c)
        BY <3>1, After
      <3>3. QED
        BY <2>2, <3>2
    <2>3. QED
      BY <2>1, <2>2
  <1>3. TypeOK'
    <2>1. ClientsTyped'
      BY InvParts, PatchValidatorBecomes, EmptyTyped, IdleTyped, FieldsTyped, StepTyped
    <2>2. QED
      BY <1>1, <2>1, Patched, InvParts DEF TypeOK, ClientsTyped
  <1>4. Shape(c)'
    <2>1. Shape(c)
      BY InvParts DEF Shapes
    <2>2. QED
      BY <1>1, <1>2, <2>1 DEF Shape
  <1>5. ASSUME Undisturbed PROVE client[c].seen = validator
    BY <1>1, <1>5 DEF Undisturbed, ColumnSound
  <1>6. ASSUME Undisturbed
        PROVE  /\ DOMAIN validator' = DOMAIN validator
               /\ \A x \in DOMAIN validator :
                     /\ validator'[x].required = validator[x].required
                     /\ validator'[x].nullable = validator[x].nullable
                     /\ validator'[x].of = validator[x].of
                     /\ validator'[x].values = IF x \in Matches(validator, client[c].old)
                                               THEN NewValues(c) ELSE validator[x].values
    <2>1. client[c].seen = validator
      BY <1>5, <1>6
    <2>2. QED
      BY <2>1, Patched
  <1>7. ASSUME Undisturbed, Solo(c) PROVE Filled' /\ ColumnSound(c)'
    <2>1. AllFilled
      BY <1>1, <1>7, Settled
    <2>2. Filled'
      BY <1>1, <1>6, <1>7, <2>1 DEF AllFilled, Filled
    <2>3. ColumnSound(c)'
      BY <1>2 DEF ColumnSound
    <2>4. QED
      BY <2>2, <2>3
  <1>8. ASSUME Undisturbed, Followed, Solo(c) PROVE Follow' /\ EnumSound(c)'
    <2>1. EnumSound(c)
      BY <1>8 DEF Followed
    <2>2. \A x \in Cols : Bound(x) => (x \in Matches(validator, client[c].old) <=> validator[x].of = e)
      BY <1>1, <1>8, OnlyBound
    <2>3. \A x \in Cols : Bound(x)' => Bound(x)
      BY <1>6, <1>8 DEF Bound, Matches
    <2>4. \A f : f # e => ~Lags(f)
      BY <1>8, AtRest
    <2>5. \A x \in Cols : Bound(x)' /\ validator[x].of # e =>
             /\ validator'[x].of \in DOMAIN enums
             /\ validator'[x].values = enums[validator'[x].of]
      BY <1>6, <1>8, <2>2, <2>3, <2>4 DEF Bound, Followed, Follow
    <2>6. CASE client[c].run.do = "add member"
      <3>1. e \in DOMAIN enums /\ enums[e] = NewValues(c)
        BY <1>1, <2>1, <2>6 DEF EnumSound, NewValues
      <3>2. \A x \in Cols : Bound(x)' /\ validator[x].of = e =>
               validator'[x].of = e /\ validator'[x].values = enums[e]
        BY <1>6, <1>8, <2>2, <2>3, <3>1 DEF Bound
      <3>3. Follow'
        BY <1>1, <2>5, <3>1, <3>2 DEF Follow
      <3>4. EnumSound(c)'
        BY <1>2, <2>6 DEF EnumSound
      <3>5. QED
        BY <3>3, <3>4
    <2>7. CASE client[c].run.do # "add member"
      <3>1. \A x \in Cols : Bound(x)' => validator[x].of # e /\ validator'[x].of = validator[x].of
        BY <1>6, <1>8, <2>2, <2>3, <2>7 DEF Bound, NewValues
      <3>2. Follow'
        BY <1>1, <2>5, <3>1 DEF Follow
      <3>3. EnumSound(c)'
        BY <1>2, <2>7, <3>1 DEF EnumSound, BoundTo
      <3>4. QED
        BY <3>2, <3>3
    <2>8. QED
      BY <2>6, <2>7
  <1>9. QED
    BY <1>1, <1>2, <1>3, <1>4, <1>7, <1>8, Assembled

LEMMA DeleteEnumKeeps ==
    ASSUME IInv, NEW c \in Clients, DeleteEnum(c)
    PROVE  IInv'
  <1> DEFINE e == client[c].run.enum
  <1>1. client[c].at = "delete" /\ UNCHANGED <<validator, docs, excuses, statements>>
    BY DEF DeleteEnum
  <1>2. Becomes(c, "idle", NoStatement, <<>>, <<>>, {})
    BY InvParts, FinishBecomes DEF DeleteEnum
  <1>3. client'[c].at = "idle" /\ Spares(c)
    BY <1>2, After
  <1>4. /\ IsPartial(enums', Enums, Seq(Members)) /\ DOMAIN enums' = DOMAIN enums \ {e}
        /\ \A f \in DOMAIN enums' : enums'[f] = enums[f]
    <2>1. enums' = Restrict(enums, DOMAIN enums \ {e})
      BY DEF DeleteEnum
    <2>2. QED
      BY <2>1, ValidatorTyped, RestrictTyped
  <1>5. TypeOK'
    <2>1. ClientsTyped'
      BY <1>2, InvParts, IdleTyped, EmptyTyped, StepTyped
    <2>2. \A f \in DOMAIN enums' : IsInjective(enums'[f])
      BY <1>4, InvParts DEF TypeOK
    <2>3. QED
      BY <1>1, <1>4, <2>1, <2>2, InvParts DEF TypeOK, ClientsTyped
  <1>6. Shape(c)' /\ ColumnSound(c)' /\ EnumSound(c)'
    BY <1>3 DEF Shape, ColumnSound, EnumSound
  <1>7. Undisturbed /\ Solo(c) => Filled'
    BY <1>1, ColumnsRest
  <1>8. ASSUME Followed, Solo(c) PROVE Follow'
    <2>1. AllFollowed
      BY <1>1, <1>8, Settled
    <2>2. \A x \in Cols : Bound(x) => validator[x].of # e
      BY <1>1, <1>8 DEF Followed, EnumSound, BoundTo
    <2>3. QED
      BY <1>1, <1>4, <2>1, <2>2 DEF AllFollowed, Follow, Bound
  <1>9. QED
    BY <1>1, <1>3, <1>5, <1>6, <1>7, <1>8, Assembled

LEMMA CreateEnumKeeps ==
    ASSUME IInv, NEW e \in Enums, NEW m \in Members, CreateEnum(e, m)
    PROVE  IInv'
  <1>1. UNCHANGED <<validator, docs, client, statements>> /\ e \notin DOMAIN enums
    BY DEF CreateEnum
  <1>2. excuses \subseteq excuses' /\ (excuses' = {} => Working = {})
    BY DEF CreateEnum
  <1>3. excuses' \subseteq {"race", "crash", "twin", "insert"}
    BY EmptyExcuses DEF CreateEnum
  <1>4. /\ IsPartial(enums', Enums, Seq(Members)) /\ DOMAIN enums' = DOMAIN enums \cup {e}
        /\ enums'[e] = <<m>> /\ \A f \in DOMAIN enums : enums'[f] = enums[f]
    <2>1. enums' = With(enums, e, <<m>>) /\ <<m>> \in Seq(Members)
      BY DEF CreateEnum
    <2>2. QED
      BY <1>1, <2>1, ValidatorTyped DEF With, IsPartial
  <1>5. TypeOK'
    <2>1. IsInjective(<<m>>)
      BY DEF IsInjective
    <2>2. \A f \in DOMAIN enums' : IsInjective(enums'[f])
      BY <1>4, <2>1, InvParts DEF TypeOK
    <2>3. QED
      BY <1>1, <1>3, <1>4, <2>2, InvParts DEF TypeOK
  <1>6. ASSUME Undisturbed PROVE Filled' /\ \A c \in Clients : ColumnSound(c)'
    BY <1>1, <1>6 DEF Undisturbed, Filled, ColumnSound, Rewriting, Adding
  <1>7. ASSUME excuses' = {}, Followed PROVE Follow' /\ \A c \in Clients : EnumSound(c)'
    <2>1. \A c \in Clients : client'[c].at = "idle"
      BY <1>1, <1>2, <1>7 DEF Working
    <2>2. \A f : ~Lags(f)
      BY <1>1, <2>1 DEF Lags
    <2>3. Follow'
      BY <1>1, <1>4, <1>7, <2>2 DEF Followed, Follow, Bound
    <2>4. \A c \in Clients : EnumSound(c)'
      BY <2>1 DEF EnumSound
    <2>5. QED
      BY <2>3, <2>4
  <1>8. QED
    BY <1>1, <1>2, <1>5, <1>6, <1>7, OutsideKeeps

-----------------------------------------------------------------------------
(* The invariant and what follows from it. *)

LEMMA InitInv == Init => IInv
  <1> SUFFICES ASSUME Init PROVE IInv
    OBVIOUS
  <1>1. /\ enums \in [Enums -> { <<m>> : m \in Members }]
        /\ client = [c \in Clients |-> Idle]
        /\ excuses = {} /\ statements = 0
    BY DEF Init
  <1>2. \A e \in Enums : enums[e] \in Seq(Members) /\ IsInjective(enums[e])
    <2>1. ASSUME NEW e \in Enums PROVE enums[e] \in Seq(Members) /\ IsInjective(enums[e])
      <3>1. PICK m \in Members : enums[e] = <<m>>
        BY <1>1
      <3>2. QED
        BY <3>1, OneInjective
    <2>2. QED
      BY <2>1
  <1>3. IsPartial(enums, Enums, Seq(Members)) /\ DOMAIN enums = Enums
    BY <1>1, <1>2 DEF IsPartial
  <1>4. PICK present \in SUBSET Cols :
          \E required \in [present -> BOOLEAN], e \in [present -> Enums \cup {None}] :
             validator = [x \in present |-> PropertyFor(required[x], e[x])]
    BY DEF Init
  <1>5. PICK required \in [present -> BOOLEAN], e \in [present -> Enums \cup {None}] :
             validator = [x \in present |-> PropertyFor(required[x], e[x])]
    BY <1>4
  <1>6. \A x \in present : PropertyFor(required[x], e[x]) \in Property
    BY <1>3, <1>5, InitProperty
  <1>7. IsPartial(validator, Cols, Property) /\ DOMAIN validator = present
    BY <1>5, <1>6 DEF IsPartial
  <1>8. PICK D \in SUBSET Docs : docs = [d \in D |-> DOMAIN validator]
    BY DEF Init
  <1>9. IsPartial(docs, Docs, SUBSET Cols) /\ \A d \in DOMAIN docs : docs[d] = DOMAIN validator
    BY <1>7, <1>8 DEF IsPartial
  <1>10. \A c \in Clients : client[c].at = "idle"
    BY <1>1 DEF Idle
  <1>11. ClientsTyped
    <2>1. Idle \in Client(Idle.seen) /\ Idle.seen = <<>>
      BY IdleTyped DEF Idle, Client
    <2>2. QED
      BY <1>1, <2>1, EmptyTyped DEF ClientsTyped
  <1>12. TypeOK
    BY <1>1, <1>2, <1>3, <1>7, <1>9, <1>11, SchemaAssumption DEF TypeOK, ClientsTyped
  <1>13. Shapes
    BY <1>10 DEF Shapes, Shape
  <1>14. Undisturbed
    <2>1. Alone
      BY <1>10 DEF Alone, Working
    <2>2. Filled
      BY <1>9 DEF Filled
    <2>3. \A c \in Clients : ColumnSound(c)
      BY <1>10 DEF ColumnSound
    <2>4. QED
      BY <2>1, <2>2, <2>3 DEF Undisturbed
  <1>15. Followed
    <2>1. ASSUME NEW x \in Cols, Bound(x)
          PROVE  validator[x].of \in DOMAIN enums /\ validator[x].values = enums[validator[x].of]
      <3>1. x \in present /\ validator[x] = PropertyFor(required[x], e[x])
        BY <1>5, <1>7, <2>1 DEF Bound
      <3>2. ~validator[x].nullable /\ validator[x].values # <<>>
        BY <2>1 DEF Bound
      <3>3. required[x] \in BOOLEAN /\ validator[x].nullable = ~required[x]
        BY <3>1, <1>5 DEF PropertyFor
      <3>4. e[x] = None => validator[x].values = <<>>
        BY <3>1 DEF PropertyFor
      <3>5. e[x] # None /\ required[x]
        BY <3>2, <3>3, <3>4
      <3>6. QED
        BY <1>3, <1>5, <3>1, <3>5 DEF PropertyFor
    <2>2. \A c \in Clients : EnumSound(c)
      BY <1>10 DEF EnumSound
    <2>3. QED
      BY <2>1, <2>2 DEF Followed, Follow
  <1>16. QED
    BY <1>12, <1>13, <1>14, <1>15 DEF IInv

LEMMA NextInv == IInv /\ [Next]_vars => IInv'
  <1> SUFFICES ASSUME IInv, [Next]_vars PROVE IInv'
    OBVIOUS
  <1>1. ASSUME NEW c \in Clients,
               \/ AddColumn(c) \/ DropColumn(c) \/ AddEnumMember(c) \/ DropEnum(c)
               \/ ReadValidator(c) \/ Preflight(c) \/ CollMod(c) \/ FindBatch(c) \/ RewriteBatch(c)
               \/ ReadMembers(c) \/ AddMember(c) \/ ListValidators(c) \/ PatchValidator(c)
               \/ DeleteEnum(c) \/ Stop(c)
        PROVE  IInv'
    BY <1>1, AsksKeep, ReadValidatorKeeps, PreflightKeeps, CollModKeeps, FindBatchKeeps,
       RewriteBatchKeeps, ReadMembersKeeps, AddMemberKeeps, ListValidatorsKeeps,
       PatchValidatorKeeps, DeleteEnumKeeps, StopKeeps
  <1>2. ASSUME NEW e \in Enums, NEW m \in Members, CreateEnum(e, m) PROVE IInv'
    BY <1>2, CreateEnumKeeps
  <1>3. ASSUME NEW d \in Docs, InsertDoc(d) \/ DeleteDoc(d) PROVE IInv'
    BY <1>3, InsertDocKeeps, DeleteDocKeeps
  <1>4. CASE UNCHANGED vars
    <2>1. UNCHANGED <<validator, docs, enums, client, excuses, statements>>
      BY <1>4 DEF vars
    <2>2. TypeOK'
      BY <2>1, InvParts DEF TypeOK, IsPartial
    <2>3. Undisturbed => Filled' /\ \A c \in Clients : ColumnSound(c)'
      BY <2>1 DEF Undisturbed, Filled, ColumnSound, Rewriting, Adding
    <2>4. QED
      BY <2>1, <2>2, <2>3, DocsOnly, OutsideKeeps
  <1>5. QED
    BY <1>1, <1>2, <1>3, <1>4 DEF Next

\* The inductive invariant holds of every statement run on the collection.
THEOREM Invariance == Spec => []IInv
  BY InitInv, NextInv, PTL DEF Spec

\* Every variable has its type: the validator, the documents, the enums and
\* what each client carries from one step of a statement to the next.
THEOREM TypeCorrect == Spec => []TypeOK
  <1>1. IInv => TypeOK
    BY DEF IInv
  <1>2. QED
    BY <1>1, Invariance, PTL

\* A required column whose statement is over is in every document (addColumn,
\* mongo/adapter.ts).
THEOREM Filling == Spec => []RequiredFilled
  <1>1. IInv => RequiredFilled
    <2> SUFFICES ASSUME IInv, excuses \subseteq {"twin"}, NEW x \in DOMAIN validator,
                        validator[x].required, \A c \in Working : client[c].run.col # x,
                        NEW d \in DOMAIN docs
                 PROVE  x \in docs[d]
      BY DEF RequiredFilled
    <2>1. Filled
      BY DEF IInv, Calm, Undisturbed
    <2>2. ~Rewriting(x)
      BY DEF Rewriting, Working
    <2>3. QED
      BY <2>1, <2>2 DEF Filled
  <1>2. QED
    BY <1>1, Invariance, PTL

\* A column declared with an enum accepts the members of the enum, no more and
\* no less, once the statements about the enum are over (addEnumValue,
\* mongo/adapter.ts).
THEOREM Following == Spec => []EnumFollowed
  <1>1. IInv => EnumFollowed
    <2> SUFFICES ASSUME IInv, excuses = {}, NEW x \in DOMAIN validator, ~validator[x].nullable,
                        \A c \in Working : client[c].run.enum # validator[x].of
                 PROVE  Follows(x)
      BY DEF EnumFollowed
    <2>1. Follow
      BY DEF IInv, Followed
    <2>2. x \in Cols
      BY ValidatorTyped DEF IsPartial
    <2>3. ~Lags(validator[x].of)
      BY DEF Lags, Working
    <2>4. validator[x].values # <<>> => Bound(x)
      BY DEF Bound
    <2>5. QED
      BY <2>1, <2>2, <2>3, <2>4 DEF Follow, Follows
  <1>2. QED
    BY <1>1, Invariance, PTL

\* An enum is deleted only when no required column keeps its values (dropEnum,
\* mongo/adapter.ts).
THEOREM Restricting == Spec => DropRestricts
  <1>1. ASSUME IInv, NEW c \in Clients, NEW e \in Enums, excuses = {},
               client[c].at = "delete", client[c].run.enum = e,
               NEW x \in DOMAIN validator, validator[x].of = e, ~validator[x].nullable
        PROVE  validator[x].values = <<>>
    <2>1. x \in Cols /\ EnumSound(c)
      BY <1>1, ValidatorTyped DEF IsPartial, IInv, Followed
    <2>2. QED
      BY <1>1, <2>1 DEF EnumSound, BoundTo, Bound
  <1>2. IInv /\ [Next]_vars =>
          [ \A c \in Clients, e \in Enums :
              /\ excuses = {} /\ client[c].at = "delete" /\ client[c].run.enum = e
              /\ e \in DOMAIN enums \ DOMAIN enums'
              => \A x \in DOMAIN validator :
                   validator[x].of = e /\ ~validator[x].nullable => validator[x].values = <<>> ]_vars
    BY <1>1
  <1>3. QED
    BY <1>2, Invariance, PTL DEF Spec, DropRestricts
=============================================================================
