------------------------------ MODULE SnqlSelect ------------------------------
(***************************************************************************)
(* The reading query of SnQL: one collection, and the stages where, group, *)
(* having, pick, sort and limit in the one order the parser accepts.  What *)
(* the lowering (packages/snql/src/ir/lower.ts) refuses, the chain of      *)
(* operators it builds, and what the SELECT rendered for PostgreSQL        *)
(* (codegen/sql-core.ts) may answer.                                       *)
(*                                                                         *)
(* A row is a function from the fields it has.  Null comes before the      *)
(* numbers, as BSON orders it.  What a predicate of `where' does is the    *)
(* subject of SnqlFilter: here it is `f is not null'.  Joins, expressions, *)
(* window functions and nested paths are left out.                         *)
(***************************************************************************)
EXTENDS Integers, Sequences, FiniteSets, SequencesExt, TLC

CONSTANTS
    Fields,  \* columns of the collection
    Numbers  \* numbers a field may be

ASSUME SelectAssumption == Numbers \subseteq Nat

Null == -1

\* The field of a row, null when the row does not have it.
At(row, f) == IF f \in DOMAIN row THEN row[f] ELSE Null

Images(s) == { s[i] : i \in DOMAIN s }

\* A column of a pick: a field, count(*), count(f) or min(f), under a name.
Column(fn, arg, out) == [fn |-> fn, arg |-> arg, out |-> out]

Aggregates(col) == col.fn # "field"

\* A query.
\*   where   fields that must not be null
\*   group   fields of group by, none when there is no such stage
\*   having  << >>, or a column compared with a number
\*   pick    columns, none when there is no such stage
\*   unique  "no", "all" (pick unique) or "on" (pick unique on), then with the names on
\*   sort    keys; a key is a path and whether it descends
\*   limit   << >>, or how many rows to skip and how many to give
Outs(q) == { q.pick[i].out : i \in DOMAIN q.pick }

Folds(q) == q.group # {} \/ \E i \in DOMAIN q.pick : Aggregates(q.pick[i])

SortPaths(q) == { q.sort[i].path : i \in DOMAIN q.sort }

\* The refusals of the lowering; the schema of the collection is known.
LegalPick(q) ==
    /\ Cardinality(Outs(q)) = Len(q.pick)
    /\ Folds(q) => \A i \in DOMAIN q.pick :
         Aggregates(q.pick[i]) \/ q.pick[i].arg \in q.group
    /\ q.unique # "no" => q.pick # << >> /\ ~Folds(q)
    /\ q.unique = "on" => Images(q.on) \subseteq Outs(q)

LegalGroup(q) ==
    /\ q.group # {} => q.pick # << >>
    /\ q.having # << >> =>
         /\ q.group # {}
         /\ Aggregates(q.having[1].col) \/ q.having[1].col.arg \in q.group

LegalSort(q) ==
    /\ q.unique = "on" /\ q.sort # << >> =>
         /\ Len(q.on) <= Len(q.sort)
         /\ \A i \in DOMAIN q.on : q.sort[i].path = q.on[i]
    /\ q.pick # << >> => SortPaths(q) \subseteq Outs(q) \cup Fields

Legal(q) == LegalPick(q) /\ LegalGroup(q) /\ LegalSort(q)

\* A sort key is known not to be null when the schema says so of its name.
SortKeys(q, required) ==
    [i \in DOMAIN q.sort |->
        [path |-> q.sort[i].path, desc |-> q.sort[i].desc, ranked |-> q.sort[i].path \notin required]]

\* The chain of operators above the scan.
Lower(q, required) ==
    LET filter    == [op |-> "filter", fields |-> q.where]
        aggregate == [op |-> "aggregate", fields |-> q.pick, keys |-> q.group, having |-> q.having]
        project   == [op |-> "project", fields |-> q.pick, unique |-> q.unique, on |-> q.on]
        sort      == [op |-> "sort", keys |-> SortKeys(q, required)]
        limit     == [op |-> "paginate", window |-> q.limit]
        Maybe(cond, op) == IF cond THEN <<op>> ELSE << >>
    IN Maybe(q.where # {}, filter)
         \o Maybe(Folds(q), aggregate)
         \o Maybe(~Folds(q) /\ q.pick # << >>, project)
         \o Maybe(q.sort # << >>, sort)
         \o Maybe(q.limit # << >>, limit)

-----------------------------------------------------------------------------
(* What a SELECT may answer. *)

Least(S) == CHOOSE x \in S : \A y \in S : x <= y

\* A column over the rows of a group.
Over(col, rows) ==
    LET known == { i \in DOMAIN rows : At(rows[i], col.arg) # Null } IN
    CASE col.fn = "field" -> At(rows[1], col.arg)
      [] col.fn = "rows"  -> Len(rows)
      [] col.fn = "count" -> Cardinality(known)
      [] col.fn = "min"   -> IF known = {} THEN Null ELSE Least({ At(rows[i], col.arg) : i \in known })

Holds(h, v) == IF h.test = "gt" THEN v > h.bound ELSE v < h.bound

Passes(q, row) == \A f \in q.where : At(row, f) # Null

\* The rows in classes by some fields, in the order the classes first appear.
Classes(rows, ids) ==
    LET Key(row)  == [f \in ids |-> At(row, f)]
        firsts    == { i \in DOMAIN rows : \A j \in 1..(i - 1) : Key(rows[j]) # Key(rows[i]) }
    IN [n \in 1..Cardinality(firsts) |->
          LET first == CHOOSE i \in firsts : Cardinality({ j \in firsts : j <= i }) = n
          IN SelectSeq(rows, LAMBDA row : Key(row) = Key(rows[first]))]

\* What becomes one row each: groups, all the rows, or the rows one by one.
Units(q, table) ==
    LET kept == SelectSeq(table, LAMBDA row : Passes(q, row))
    IN CASE q.group # {} ->
              SelectSeq(Classes(kept, q.group),
                        LAMBDA rows : \A i \in DOMAIN q.having :
                            LET v == Over(q.having[i].col, rows) IN v # Null /\ Holds(q.having[i], v))
         [] q.group = {} /\ Folds(q) -> <<kept>>
         [] OTHER -> [i \in DOMAIN kept |-> <<kept[i]>>]

Output(q, rows) ==
    IF q.pick = << >> THEN [f \in Fields |-> At(rows[1], f)]
    ELSE [o \in Outs(q) |-> Over(CHOOSE col \in Images(q.pick) : col.out = o, rows)]

\* The weights of two rows, key by key, are in order.
Ordered(v, w) ==
    \A i \in DOMAIN v : (\A j \in 1..(i - 1) : v[j] = w[j]) => v[i] <= w[i]

Directed(n, key) == IF key.desc THEN -n ELSE n

\* The orders of some rows that their weights allow.
Sortings(s, Weight(_)) ==
    { t \in { [i \in DOMAIN s |-> s[p[i]]] : p \in Permutations(DOMAIN s) } :
        \A i, j \in DOMAIN t : i < j => Ordered(Weight(t[i]), Weight(t[j])) }

\* The weight of a row under some keys: for each a rank that sets nulls apart,
\* then the value.
Weights(keys, Value(_), Rank(_)) ==
    [n \in 1..(2 * Len(keys)) |->
        LET key == keys[(n + 1) \div 2]
        IN Directed(IF n % 2 = 1 THEN Rank(key) ELSE Value(key.path), key)]

RankOf(v) == IF v = Null THEN 1 ELSE 0

\* ORDER BY looks among the output columns first; nulls are the greatest.
SqlWeight(q, rows) ==
    LET Value(f) == IF f \in Outs(q) THEN Output(q, rows)[f] ELSE At(rows[1], f)
    IN Weights(q.sort, Value, LAMBDA key : RankOf(Value(key.path)))

\* The first row of those that agree on some names, or on all of them.
Distinct(s, names) ==
    [n \in 1..Len(Classes(s, names)) |-> Classes(s, names)[n][1]]

Window(s, limit) ==
    IF limit = << >> THEN s
    ELSE SubSeq(s, limit[1].skip + 1,
                IF limit[1].skip + limit[1].count < Len(s) THEN limit[1].skip + limit[1].count ELSE Len(s))

Answers(q, table) ==
    LET Rows(units) == [i \in DOMAIN units |-> Output(q, units[i])]
        Deduped(s) == CASE q.unique = "no"  -> s
                        [] q.unique = "all" -> Distinct(s, Outs(q))
                        [] q.unique = "on"  -> Distinct(s, Images(q.on))
    IN { Window(Deduped(Rows(units)), q.limit) :
           units \in Sortings(Units(q, table), LAMBDA rows : SqlWeight(q, rows)) }

\* PostgreSQL sorts by what is selected, or by what the rows it selects from still have.
SqlRuns(q) ==
    SortPaths(q) \subseteq
        Outs(q) \cup (CASE q.unique = "all" -> {}
                        [] Folds(q) -> q.group
                        [] OTHER -> Fields)
=============================================================================
