----------------------------- MODULE SnqlPipeline -----------------------------
(***************************************************************************)
(* A reading query of SnQL on an engine that takes only a part of it       *)
(* (packages/snql/src/planner/planner.ts): MongoDB runs the pipeline that  *)
(* codegen/mongodb.ts renders for that part, stage by stage, and the       *)
(* runtime (runtime/compensate.ts) does the rest on the rows it returned.  *)
(* MongoDB itself promises all the operators, and then nothing is left to  *)
(* the runtime; a query on a `let' is run by the runtime alone.            *)
(*                                                                         *)
(* MongoDB may return groups, and rows that a sort leaves equal, in any    *)
(* order: a step chooses one.  A group is written as its id fields, named  *)
(* _id.f, and its accumulators.                                            *)
(***************************************************************************)
EXTENDS SnqlSelect

CONSTANTS
    Tables,   \* contents of the collection, sequences of rows
    Queries,  \* queries
    Engines,  \* sets of operators an engine takes, "filter" ... "paginate"
    Schemas   \* sets of fields that a schema says are never null

VARIABLES
    query,     \* the query
    table,     \* the collection when it is read
    taken,     \* operators the engine took
    pipeline,  \* stages MongoDB has still to run
    later,     \* operators the runtime has still to apply
    rows       \* what the last stage gave

vars == <<query, table, taken, pipeline, later, rows>>

-----------------------------------------------------------------------------
(* Rendering. *)

Id(f) == "_id." \o f

Slot(col) == IF col.fn = "field" THEN Id(col.arg) ELSE "__agg." \o col.fn \o col.arg

Match(fields) == [op |-> "match", fields |-> fields]
Group(ids, folds, firsts) == [op |-> "group", ids |-> ids, folds |-> folds, firsts |-> firsts]
Project(from) == [op |-> "project", from |-> from]  \* output name to the field read
Sort(keys)    == [op |-> "sort", keys |-> keys]     \* with the null ranks, added and unset
Having(path, h) == [op |-> "having", path |-> path, test |-> h]
Unset(names)  == [op |-> "unset", names |-> names]
Skip(n)       == [op |-> "skip", count |-> n]
Limit(n)      == [op |-> "limit", count |-> n]

\* renderProject
RenderProject(fields) ==
    Project([o \in { fields[i].out : i \in DOMAIN fields } |->
                (CHOOSE col \in Images(fields) : col.out = o).arg])

\* appendDistinctStages: group by the names, then bring the fields back.
DistinctStages(op) ==
    IF op.unique = "no" THEN << >>
    ELSE LET outs  == { op.fields[i].out : i \in DOMAIN op.fields }
             ids   == IF op.unique = "on" THEN Images(op.on) ELSE outs
         IN << Group(ids, {}, outs \ ids),
               Project([o \in outs |-> IF o \in ids THEN Id(o) ELSE o]) >>

\* renderAggregatePipeline: the keys are given back even when they were not picked;
\* a having reads a picked aggregate by its name, another one by a slot of its own.
AggregateStages(op) ==
    LET picked == Images(op.fields)
        asked  == IF op.having = << >> THEN {} ELSE { op.having[1].col }
        outs   == { col.out : col \in picked }
        back   == [f \in op.keys \cup outs |->
                     IF f \in outs THEN Slot(CHOOSE col \in picked : col.out = f) ELSE Id(f)]
        Same(col, h) == col.fn = h.fn /\ col.arg = h.arg
        named  == { col \in picked : \E h \in asked : Aggregates(h) /\ Same(col, h) }
        hidden == { h \in asked : Aggregates(h) /\ named = {} }
        shown  == back @@ [f \in { "__hslot" : h \in hidden } |-> Slot(CHOOSE h \in hidden : TRUE)]
        Read(h) == CASE ~Aggregates(h) -> h.arg
                     [] named # {}     -> (CHOOSE col \in named : TRUE).out
                     [] OTHER          -> "__hslot"
    IN << Group(op.keys, { col \in picked \cup asked : Aggregates(col) }, {}), Project(shown) >>
       \o [i \in DOMAIN op.having |-> Having(Read(op.having[i].col), op.having[i])]
       \o (IF hidden = {} THEN << >> ELSE << Unset({"__hslot"}) >>)

\* Variant of SortStages that ranks no null.
SortStagesUnranked(keys) == << Sort([i \in DOMAIN keys |-> [keys[i] EXCEPT !.ranked = FALSE]]) >>

\* buildSortStages
SortStages(keys) == << Sort(keys) >>

\* A sort goes before a projection that drops one of its keys.
WithSort(stages, keys) ==
    LET last == Len(stages) IN
    IF last > 0 /\ stages[last].op = "project"
       /\ \E i \in DOMAIN keys : keys[i].path \notin DOMAIN stages[last].from
    THEN SubSeq(stages, 1, last - 1) \o SortStages(keys) \o <<stages[last]>>
    ELSE stages \o SortStages(keys)

\* appendStage
AppendStage(stages, op) ==
    CASE op.op = "filter"    -> Append(stages, Match(op.fields))
      [] op.op = "project"   -> Append(stages, RenderProject(op.fields)) \o DistinctStages(op)
      [] op.op = "aggregate" -> stages \o AggregateStages(op)
      [] op.op = "sort"      -> WithSort(stages, op.keys)
      [] op.op = "paginate"  -> stages
            \o (IF op.window[1].skip = 0 THEN << >> ELSE << Skip(op.window[1].skip) >>)
            \o << Limit(op.window[1].count) >>

Rendered(ops) == FoldLeft(AppendStage, << >>, ops)

\* The longest run of operators the engine takes.
Cut(ops, engine) ==
    LET refused == { i \in DOMAIN ops : ops[i].op \notin engine }
    IN IF refused = {} THEN Len(ops) ELSE Least(refused) - 1

-----------------------------------------------------------------------------
(* Running. *)

\* A field of a document; the projection of an absent field is absent.
Projected(from, row) == [o \in { f \in DOMAIN from : from[f] \in DOMAIN row } |-> row[from[o]]]

GroupKey(ids, row) == [f \in ids \cap DOMAIN row |-> row[f]]

\* An accumulator; count(f) counts what is not null, a document without f too.
Accumulated(col, members) ==
    IF col.fn = "count"
    THEN Cardinality({ i \in DOMAIN members :
            col.arg \in DOMAIN members[i] => members[i][col.arg] # Null })
    ELSE Over(col, members)

\* A group: its id, its accumulators, and the first document for the other fields.
Grouped(stage, members) ==
    LET key == GroupKey(stage.ids, members[1]) IN
    [f \in { Id(g) : g \in DOMAIN key } |-> key[CHOOSE g \in DOMAIN key : Id(g) = f]]
    @@ [s \in { Slot(col) : col \in stage.folds } |->
          Accumulated(CHOOSE col \in stage.folds : Slot(col) = s, members)]
    @@ [f \in stage.firsts |-> At(members[1], f)]

\* What MongoDB may give for a stage.
Gives(stage, docs) ==
    CASE stage.op = "match"   -> { SelectSeq(docs, LAMBDA d : \A f \in stage.fields : At(d, f) # Null) }
      [] stage.op = "group"   ->
           LET keys    == { GroupKey(stage.ids, docs[i]) : i \in DOMAIN docs }
               Members(key) == SelectSeq(docs, LAMBDA d : GroupKey(stage.ids, d) = key)
           IN { [i \in DOMAIN order |-> Grouped(stage, Members(order[i]))] :
                  order \in SetToSeqs(keys) }
      [] stage.op = "project" -> { [i \in DOMAIN docs |-> Projected(stage.from, docs[i])] }
      [] stage.op = "having"  -> { SelectSeq(docs, LAMBDA d : Holds(stage.test, At(d, stage.path))) }
      [] stage.op = "unset"   ->
           { [i \in DOMAIN docs |->
                [f \in DOMAIN docs[i] \ stage.names |-> docs[i][f]]] }
      [] stage.op = "sort"    ->
           Sortings(docs, LAMBDA d :
               Weights(stage.keys, LAMBDA f : At(d, f),
                       LAMBDA key : IF key.ranked /\ key.path \in DOMAIN d THEN RankOf(d[key.path]) ELSE 0))
      [] stage.op = "skip"    -> { SubSeq(docs, stage.count + 1, Len(docs)) }
      [] stage.op = "limit"   -> { Window(docs, << [skip |-> 0, count |-> stage.count] >>) }

\* sortRows, a stable sort: of the orders allowed, the one that keeps most.
Stable(docs, keys) ==
    LET Weight(d) == Weights(keys, LAMBDA f : At(d, f), LAMBDA key : RankOf(At(d, key.path)))
        Before(i, j) == Ordered(Weight(docs[i]), Weight(docs[j]))
                        /\ (Ordered(Weight(docs[j]), Weight(docs[i])) => i < j)
        Place(i) == 1 + Cardinality({ j \in DOMAIN docs \ {i} : Before(j, i) })
    IN [n \in DOMAIN docs |-> docs[CHOOSE i \in DOMAIN docs : Place(i) = n]]

\* foldAggregate and bucketFoldAggregate
Folded(op, docs) ==
    LET buckets == IF op.keys = {} THEN <<docs>> ELSE Classes(docs, op.keys)
        kept == SelectSeq(buckets, LAMBDA b : \A i \in DOMAIN op.having :
                    LET v == Over(op.having[i].col, b) IN v # Null /\ Holds(op.having[i], v))
    IN [n \in DOMAIN kept |->
          [o \in { op.fields[i].out : i \in DOMAIN op.fields } |->
              Over(CHOOSE col \in Images(op.fields) : col.out = o, kept[n])]]

\* compensate, for the first of the operators left.
Compensated(ops, docs) ==
    LET op == Head(ops) IN
    CASE op.op = "filter"    -> SelectSeq(docs, LAMBDA d : \A f \in op.fields : At(d, f) # Null)
      [] op.op = "project"   ->
           LET outs == { op.fields[i].out : i \in DOMAIN op.fields }
               out == [i \in DOMAIN docs |-> Projected(RenderProject(op.fields).from, docs[i])]
               ordered == IF op.unique = "on" /\ Len(ops) > 1 /\ ops[2].op = "sort"
                          THEN Stable(out, ops[2].keys) ELSE out
           IN IF op.unique = "no" THEN out
              ELSE Distinct(ordered, IF op.unique = "on" THEN Images(op.on) ELSE outs)
      [] op.op = "aggregate" -> Folded(op, docs)
      [] op.op = "sort"      -> Stable(docs, op.keys)
      [] op.op = "paginate"  -> Window(docs, op.window)

-----------------------------------------------------------------------------

\* What the schema says is true of the table.
Init ==
    \E q \in Queries, t \in Tables, engine \in Engines, required \in Schemas :
      /\ Legal(q)
      /\ \A i \in DOMAIN t, f \in required : At(t[i], f) # Null
      /\ LET ops == Lower(q, required)
             cut == Cut(ops, engine)
         IN /\ query = q
            /\ table = t
            /\ taken = { ops[i].op : i \in 1..cut }
            /\ pipeline = Rendered(SubSeq(ops, 1, cut))
            /\ later = SubSeq(ops, cut + 1, Len(ops))
            /\ rows = t

Run ==
    /\ pipeline # << >>
    /\ rows' \in Gives(Head(pipeline), rows)
    /\ pipeline' = Tail(pipeline)
    /\ UNCHANGED <<query, table, taken, later>>

Compensate ==
    /\ pipeline = << >>
    /\ later # << >>
    /\ rows' = Compensated(later, rows)
    /\ later' = Tail(later)
    /\ UNCHANGED <<query, table, taken, pipeline>>

Next == Run \/ Compensate

Spec == Init /\ [][Next]_vars

-----------------------------------------------------------------------------

Answered == pipeline = << >> /\ later = << >>

\* Rows as columns, the columns MongoDB adds left aside.
Given ==
    [i \in DOMAIN rows |->
        [o \in (IF query.pick = << >> THEN Fields ELSE Outs(query)) |-> At(rows[i], o)]]

Kept == SelectSeq(table, LAMBDA row : Passes(query, row))

\* Documents may lack a field only where nothing compares it.
FieldsPresent ==
    \/ query.sort = << >> /\ ~Folds(query) /\ query.unique = "no"
    \/ \A i \in DOMAIN table : DOMAIN table[i] = Fields

\* No column takes the name of another field.
NamesApart ==
    \A i \in DOMAIN query.pick :
        LET col == query.pick[i] IN
        col.out \in Fields => col.fn = "field" /\ col.arg = col.out

\* MongoDB folds no document into no row.
FoldsSomething == "aggregate" \in taken /\ query.group = {} => Kept # << >>

\* MongoDB compares a null aggregate of a having.
HavingKnown ==
    "aggregate" \in taken =>
      \A i \in DOMAIN query.having :
        LET groups == Classes(Kept, query.group) IN
        \A n \in DOMAIN groups : Over(query.having[i].col, groups[n]) # Null

\* The keys are all there where the sort is put: after the projection for the
\* runtime, on one side of it for MongoDB, whose groups keep their keys.
KeysTogether ==
    \/ query.pick = << >> \/ "aggregate" \in taken
    \/ SortPaths(query) \subseteq Outs(query)
    \/ "sort" \in taken /\ SortPaths(query) \subseteq Fields

\* MongoDB keeps a first document before it sorts.
FirstIndifferent ==
    query.unique = "on" /\ "project" \in taken => SortPaths(query) \subseteq Images(query.on)

\* INVARIANT.  Whatever part of a query the engine takes, the rows given at the
\* end are an answer of the SELECT, but where one of the conditions above fails.
AnswersTheQuery ==
    /\ Answered
    /\ SqlRuns(query)
    /\ FieldsPresent /\ NamesApart /\ FoldsSomething /\ HavingKnown
    /\ KeysTogether /\ FirstIndifferent
    => Given \in Answers(query, table)

\* Refuted.  mongodb.ts says that the sort before the group decides which row
\* `pick unique on' keeps.
SortDecidesTheFirst ==
    /\ Answered
    /\ query.unique = "on" /\ SortPaths(query) \subseteq Outs(query)
    /\ FieldsPresent /\ NamesApart
    => Given \in Answers(query, table)
=============================================================================
