----------------------------- MODULE MongoSchema -----------------------------
(***************************************************************************)
(* Schema statements on one MongoDB collection as the adapter runs them    *)
(* (packages/engine/src/mongo/adapter.ts): columns live in the $jsonSchema *)
(* validator of the collection, enums in the collection _snql_enums, and   *)
(* no statement is a transaction.  A statement reads the validator, sends  *)
(* a whole new one with collMod, then rewrites the documents in batches;   *)
(* documents are written meanwhile, and a process may stop at any step.    *)
(*                                                                         *)
(* A document is the set of columns it has.  Of a column the validator     *)
(* keeps whether it is required and the values of its enum, if any.  The   *)
(* number of documents a batch may rewrite is not bounded.                 *)
(***************************************************************************)
EXTENDS Naturals, Sequences, FiniteSets, Functions

CONSTANTS
    Clients,       \* processes that run statements
    Cols,          \* columns of the collection
    Docs,          \* documents that may exist
    Enums,         \* names of enums
    Members,       \* members an enum may have
    None,
    MaxStatements  \* bound: schema statements in a behaviour

ASSUME SchemaAssumption ==
    /\ None \notin Cols \cup Enums \cup Members
    /\ MaxStatements \in Nat

\* A property of the validator; `of' is what it was declared with, which the
\* validator does not say.
Property == [required : BOOLEAN, nullable : BOOLEAN, values : Seq(Members \cup {None}),
             of : Enums \cup {None}]

Statement == [ do       : {"add column", "drop column", "add member", "drop enum"},
               col      : Cols \cup {None},
               prop     : Property \cup {None},
               default  : BOOLEAN,        \* add column: a value for the documents there are
               enum     : Enums \cup {None},
               member   : Members \cup {None},
               guard    : BOOLEAN ]       \* if exists, if not exists; cascade

VARIABLES
    validator,  \* properties of the validator, by column
    docs,       \* the documents
    enums,      \* members of each enum of _snql_enums
    client,     \* what each client does
    excuses,    \* what may have come between the steps of a statement
    statements  \* statements run so far

vars == <<validator, docs, enums, client, excuses, statements>>

NoStatement == [do |-> "drop column", col |-> None, prop |-> None, default |-> FALSE,
                enum |-> None, member |-> None, guard |-> FALSE]

Idle == [at |-> "idle", run |-> NoStatement, seen |-> <<>>, old |-> <<>>, batch |-> {}]

\* A function from some of A to B.
IsPartial(f, A, B) == DOMAIN f \subseteq A /\ f \in [DOMAIN f -> B]

\* A function changed or extended at x.
With(f, x, y) == [z \in DOMAIN f \cup {x} |-> IF z = x THEN y ELSE f[z]]

Client(seen) == [ at    : {"idle", "read", "preflight", "collmod", "batch", "rewrite",
                           "members", "add", "list", "patch", "delete"},
                  run   : Statement,
                  seen  : {seen},
                  old   : Seq(Members),
                  batch : SUBSET Docs ]

TypeOK ==
    /\ IsPartial(validator, Cols, Property)
    /\ IsPartial(docs, Docs, SUBSET Cols)
    /\ IsPartial(enums, Enums, Seq(Members))
    /\ \A e \in DOMAIN enums : IsInjective(enums[e])
    /\ DOMAIN client = Clients
    /\ \A c \in Clients :
          /\ client[c] \in Client(client[c].seen)
          /\ IsPartial(client[c].seen, Cols, Property)
    /\ excuses \subseteq {"race", "crash", "twin", "insert"}
    /\ statements \in 0..MaxStatements

\* buildMongoFieldProperty: a nullable enum lists null too.
PropertyFor(required, e) ==
    [ required |-> required, nullable |-> ~required, of |-> e,
      values |-> IF e = None THEN <<>>
                 ELSE IF required THEN enums[e] ELSE Append(enums[e], None) ]

Full(v, d) == \A x \in DOMAIN v : v[x].required => x \in d

\* A collection created with its columns, and documents it accepts.
Init ==
    /\ enums \in [Enums -> { <<m>> : m \in Members }]
    /\ \E present \in SUBSET Cols :
       \E required \in [present -> BOOLEAN], e \in [present -> Enums \cup {None}] :
          validator = [x \in present |-> PropertyFor(required[x], e[x])]
    /\ docs \in { [d \in D |-> DOMAIN validator] : D \in SUBSET Docs }
    /\ client = [c \in Clients |-> Idle]
    /\ excuses = {}
    /\ statements = 0

-----------------------------------------------------------------------------
Working == { c \in Clients : client[c].at # "idle" }

Goes(c, step) == client' = [client EXCEPT ![c].at = step]

Finish(c) == client' = [client EXCEPT ![c] = Idle]

\* Two statements at the same time may undo each other's changes.
Ask(c, run, step) ==
    /\ client[c].at = "idle" /\ statements < MaxStatements
    /\ client' = [client EXCEPT ![c].at = step, ![c].run = run]
    /\ excuses' = excuses \cup (IF Working # {} THEN {"race"} ELSE {})
    /\ statements' = statements + 1
    /\ UNCHANGED <<validator, docs, enums>>

Only(c) == UNCHANGED <<validator, docs, enums, excuses, statements>>

AddColumn(c) == \E x \in Cols, required, default, guard \in BOOLEAN, e \in DOMAIN enums \cup {None} :
    Ask(c, [NoStatement EXCEPT !.do = "add column", !.col = x, !.default = default,
              !.prop = PropertyFor(required, e), !.guard = guard], "read")

DropColumn(c) == \E x \in Cols, guard \in BOOLEAN :
    Ask(c, [NoStatement EXCEPT !.col = x, !.guard = guard], "read")

AddEnumMember(c) == \E e \in Enums, m \in Members :
    Ask(c, [NoStatement EXCEPT !.do = "add member", !.enum = e, !.member = m], "members")

DropEnum(c) == \E e \in Enums, cascade \in BOOLEAN :
    Ask(c, [NoStatement EXCEPT !.do = "drop enum", !.enum = e, !.guard = cascade], "members")

-----------------------------------------------------------------------------
(* add column, drop column *)

Adding(c) == client[c].run.do = "add column"

\* `if not exists' and `if exists' look at the name in the validator only.
ReadValidator(c) ==
    LET run == client[c].run
        done == run.guard /\ (Adding(c) <=> run.col \in DOMAIN validator)
    IN
    /\ client[c].at = "read"
    /\ IF done THEN Finish(c)
       ELSE client' = [client EXCEPT ![c].seen = validator,
                ![c].at = IF Adding(c) /\ run.prop.required /\ ~run.default
                          THEN "preflight" ELSE "collmod"]
    /\ Only(c)

\* NOT NULL without a default: refused when a document lacks the column.
Preflight(c) ==
    /\ client[c].at = "preflight"
    /\ IF \E d \in DOMAIN docs : client[c].run.col \notin docs[d]
       THEN Finish(c) ELSE Goes(c, "collmod")
    /\ Only(c)

\* The validator a statement sends is made from the one it read.  An added
\* column gets no enum.
NewValidator(c) ==
    LET x == client[c].run.col  seen == client[c].seen IN
    IF Adding(c) THEN With(seen, x, [client[c].run.prop EXCEPT !.values = <<>>])
                 ELSE Restrict(seen, DOMAIN seen \ {x})

CollMod(c) ==
    /\ client[c].at = "collmod"
    /\ validator' = NewValidator(c)
    /\ client' = [client EXCEPT ![c] =
          IF Adding(c) /\ ~client[c].run.default THEN Idle
          ELSE [@ EXCEPT !.at = "batch", !.seen = <<>>]]
    /\ UNCHANGED <<docs, enums, excuses, statements>>

\* Documents still to rewrite: without the column, or with it.
Pending(c) == { d \in DOMAIN docs : Adding(c) # (client[c].run.col \in docs[d]) }

\* Variant of FindBatch that stops after the first batch.
FindOneBatch(c) ==
    /\ client[c].at = "batch"
    /\ \/ Pending(c) = {} /\ Finish(c)
       \/ \E some \in SUBSET Pending(c) :
             some # {} /\ client' = [client EXCEPT ![c].at = "rewrite", ![c].batch = some]
       \/ Finish(c)
    /\ Only(c)

FindBatch(c) ==
    /\ client[c].at = "batch"
    /\ \/ Pending(c) = {} /\ Finish(c)
       \/ \E some \in SUBSET Pending(c) :
             some # {} /\ client' = [client EXCEPT ![c].at = "rewrite", ![c].batch = some]
    /\ Only(c)

RewriteBatch(c) ==
    LET x == client[c].run.col IN
    /\ client[c].at = "rewrite"
    /\ docs' = [d \in DOMAIN docs |->
          IF d \notin client[c].batch THEN docs[d]
          ELSE IF Adding(c) THEN docs[d] \cup {x} ELSE docs[d] \ {x}]
    /\ client' = [client EXCEPT ![c].at = "batch", ![c].batch = {}]
    /\ UNCHANGED <<validator, enums, excuses, statements>>

-----------------------------------------------------------------------------
(* add enum member, drop enum *)

ReadMembers(c) ==
    LET e == client[c].run.enum  m == client[c].run.member IN
    /\ client[c].at = "members"
    /\ IF \/ e \notin DOMAIN enums
          \/ client[c].run.do = "add member" /\ m \in Range(enums[e])
       THEN Finish(c)
       ELSE client' = [client EXCEPT ![c].old = enums[e],
                         ![c].at = IF client[c].run.do = "add member" THEN "add" ELSE "list"]
    /\ Only(c)

\* Variant of AddMember: $push.
AddMemberAgain(c) ==
    LET e == client[c].run.enum IN
    /\ client[c].at = "add"
    /\ enums' = IF e \in DOMAIN enums THEN [enums EXCEPT ![e] = Append(@, client[c].run.member)]
                ELSE enums
    /\ Goes(c, "list")
    /\ UNCHANGED <<validator, docs, excuses, statements>>

\* $addToSet of an updateOne: nothing when the enum or the member is gone or there.
AddMember(c) ==
    LET e == client[c].run.enum  m == client[c].run.member IN
    /\ client[c].at = "add"
    /\ enums' = IF e \in DOMAIN enums /\ m \notin Range(enums[e])
                THEN [enums EXCEPT ![e] = Append(@, m)] ELSE enums
    /\ Goes(c, "list")
    /\ UNCHANGED <<validator, docs, excuses, statements>>

\* Variant of Matches that compares the lengths.
MatchesLength(v, old) == { x \in DOMAIN v : v[x].values # <<>> /\ Len(v[x].values) = Len(old) }

\* The columns of an enum are those whose values are the members it had.
Matches(v, old) == { x \in DOMAIN v : v[x].values # <<>> /\ v[x].values = old }

\* Another enum with the same members has its columns taken for this one's.
Twins(e, old) == \E f \in DOMAIN enums \ {e} : enums[f] = old

\* Variant of ListValidators that looks at `cascade' only.
ListUnused(c) ==
    LET run == client[c].run
        next == IF run.do = "add member" \/ run.guard THEN "patch" ELSE "delete"
    IN
    /\ client[c].at = "list"
    /\ client' = [client EXCEPT ![c].at = next, ![c].seen = validator]
    /\ excuses' = excuses \cup (IF Twins(run.enum, client[c].old) THEN {"twin"} ELSE {})
    /\ UNCHANGED <<validator, docs, enums, statements>>

ListValidators(c) ==
    LET run == client[c].run
        used == Matches(validator, client[c].old)
        next == IF used # {} THEN "patch" ELSE IF run.do = "drop enum" THEN "delete" ELSE "idle"
    IN
    /\ client[c].at = "list"
    /\ client' = [client EXCEPT ![c] =
          IF next = "idle" \/ (run.do = "drop enum" /\ used # {} /\ ~run.guard) THEN Idle
          ELSE [@ EXCEPT !.at = next, !.seen = validator]]
    /\ excuses' = excuses \cup (IF Twins(run.enum, client[c].old) THEN {"twin"} ELSE {})
    /\ UNCHANGED <<validator, docs, enums, statements>>

PatchValidator(c) ==
    LET run == client[c].run
        used == Matches(client[c].seen, client[c].old)
        new == IF run.do = "add member" THEN Append(client[c].old, run.member) ELSE <<>>
    IN
    /\ client[c].at = "patch"
    /\ validator' = [x \in DOMAIN client[c].seen |->
          IF x \in used THEN [client[c].seen[x] EXCEPT !.values = new] ELSE client[c].seen[x]]
    /\ IF run.do = "add member" THEN Finish(c) ELSE Goes(c, "delete")
    /\ UNCHANGED <<docs, enums, excuses, statements>>

DeleteEnum(c) ==
    /\ client[c].at = "delete"
    /\ enums' = Restrict(enums, DOMAIN enums \ {client[c].run.enum})
    /\ Finish(c)
    /\ UNCHANGED <<validator, docs, excuses, statements>>

\* create enum: insertOne, or nothing when it is there.
CreateEnum(e, m) ==
    /\ e \notin DOMAIN enums
    /\ enums' = With(enums, e, <<m>>)
    /\ excuses' = excuses \cup (IF Working # {} THEN {"race"} ELSE {})
    /\ UNCHANGED <<validator, docs, client, statements>>

-----------------------------------------------------------------------------
\* Users write documents the validator accepts.
InsertDoc(d) == \E cols \in SUBSET Cols :
    /\ d \notin DOMAIN docs /\ Full(validator, cols)
    /\ docs' = With(docs, d, cols)
    /\ excuses' = excuses \cup
          (IF \E c \in Clients : client[c].at = "collmod" /\ Adding(c) /\ ~client[c].run.default
           THEN {"insert"} ELSE {})
    /\ UNCHANGED <<validator, enums, client, statements>>

DeleteDoc(d) ==
    /\ d \in DOMAIN docs
    /\ docs' = Restrict(docs, DOMAIN docs \ {d})
    /\ UNCHANGED <<validator, enums, client, excuses, statements>>

\* A process ends between two steps, or the database refuses one.
Stop(c) ==
    /\ client[c].at # "idle"
    /\ Finish(c)
    /\ excuses' = excuses \cup {"crash"}
    /\ UNCHANGED <<validator, docs, enums, statements>>

Next ==
    \/ \E c \in Clients :
          \/ AddColumn(c) \/ DropColumn(c) \/ AddEnumMember(c) \/ DropEnum(c)
          \/ ReadValidator(c) \/ Preflight(c) \/ CollMod(c) \/ FindBatch(c) \/ RewriteBatch(c)
          \/ ReadMembers(c) \/ AddMember(c) \/ ListValidators(c) \/ PatchValidator(c)
          \/ DeleteEnum(c) \/ Stop(c)
    \/ \E e \in Enums, m \in Members : CreateEnum(e, m)
    \/ \E d \in Docs : InsertDoc(d) \/ DeleteDoc(d)

Spec == Init /\ [][Next]_vars

-----------------------------------------------------------------------------
(* Properties. *)

\* Once a column is required and the statement that made it so is over, every
\* document has it, also those inserted while the batches run.  Not so when
\* statements race, stop half-way, or a document is inserted between the
\* count of a NOT NULL without default and the collMod.
RequiredFilled ==
    excuses \subseteq {"twin"} =>
        \A x \in DOMAIN validator :
            validator[x].required /\ (\A c \in Working : client[c].run.col # x)
                => \A d \in DOMAIN docs : x \in docs[d]

\* A column created with an enum accepts the members of the enum, no more and
\* no less, once the statements about the enum are over.  The statements find
\* the column by its values: a nullable one is never found.
Follows(x) ==
    LET p == validator[x] IN
    p.of \in DOMAIN enums /\ p.values # <<>> => p.values = enums[p.of]

EnumFollowed ==
    excuses = {} => \A x \in DOMAIN validator :
        ~validator[x].nullable /\ (\A c \in Working : client[c].run.enum # validator[x].of)
            => Follows(x)

\* An enum that a column uses goes only with `cascade', and then no column
\* keeps its values.
DropRestricts ==
    [][ \A c \in Clients, e \in Enums :
          /\ excuses = {} /\ client[c].at = "delete" /\ client[c].run.enum = e
          /\ e \in DOMAIN enums \ DOMAIN enums'
          => \A x \in DOMAIN validator :
               validator[x].of = e /\ ~validator[x].nullable => validator[x].values = <<>> ]_vars

\* An enum column accepts the members of its enum, whether it is nullable or not.
EnumReachesColumns ==
    excuses = {} => \A x \in DOMAIN validator :
        LET p == validator[x] IN
        /\ p.of \in DOMAIN enums /\ p.values # <<>>
        /\ \A c \in Working : client[c].run.enum # p.of
        => Range(enums[p.of]) \subseteq Range(p.values)
=============================================================================
