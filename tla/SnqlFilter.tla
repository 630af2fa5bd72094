------------------------------ MODULE SnqlFilter ------------------------------
(***************************************************************************)
(* A `where' of SnQL on MongoDB.  The reference is the evaluator of        *)
(* packages/snql/src/runtime/compensate.ts, which has the three truth      *)
(* values of SQL; the filter is the one packages/snql/src/codegen/         *)
(* mongodb.ts renders, either a match on fields or an expression of the    *)
(* aggregation language ($expr), evaluated as MongoDB does.                *)
(*                                                                         *)
(* The behaviour writes one predicate, node by node, as the lowering       *)
(* (ir/lower.ts) builds it from its leaves.  A value is coded by its place *)
(* in the order of BSON: absent, null, then numbers in halves, so that a   *)
(* cast to int loses something.  Strings, `like', functions, JSON paths,   *)
(* dates and subqueries are left out.                                      *)
(***************************************************************************)
EXTENDS Integers, FiniteSets

CONSTANTS
    Fields,         \* fields of a document
    Numbers,        \* numbers a field or a literal may be, in halves
    MaxConnectives  \* bound: connectives of a predicate

ASSUME FilterAssumption == Numbers \subseteq Nat /\ Numbers # {} /\ MaxConnectives \in Nat

Absent == -2
Null   == -1

Nullish(v) == v \in {Absent, Null}

Image(doc) == { doc[f] : f \in Fields }

Documents == [Fields -> Numbers \cup {Absent, Null}]

Ops == {"eq", "ne", "lt", "le", "gt", "ge"}

\* A comparison in an order of values.
Compares(op, v, w) ==
    CASE op = "eq" -> v = w  [] op = "ne" -> v # w
      [] op = "lt" -> v < w  [] op = "le" -> v <= w
      [] op = "gt" -> v > w  [] op = "ge" -> v >= w

\* Variant of Inverse that forgets the bound.
InverseStrict == [op \in Ops |->
    CASE op = "eq" -> "ne" [] op = "ne" -> "eq" [] op \in {"lt", "le"} -> "gt"
      [] OTHER -> "lt"]

Inverse == [op \in Ops |->
    CASE op = "eq" -> "ne" [] op = "ne" -> "eq" [] op = "lt" -> "ge"
      [] op = "le" -> "gt" [] op = "gt" -> "le" [] op = "ge" -> "lt"]

\* Operands of a comparison.
Field(f)   == [kind |-> "field", name |-> f]
Literal(v) == [kind |-> "literal", value |-> v]
Cast(e)    == [kind |-> "cast", operand |-> e]
Plus(e, d) == [kind |-> "arith", left |-> e, right |-> d]
Case(c, e, d) == [kind |-> "case", cond |-> c, then |-> e, else |-> d]

\* Predicates.
And(p, q)  == [kind |-> "and", left |-> p, right |-> q]
Or(p, q)   == [kind |-> "or", left |-> p, right |-> q]
Not(p)     == [kind |-> "not", operand |-> p]
IsNull(e, negated)   == [kind |-> "isNull", operand |-> e, negated |-> negated]
In(e, values)        == [kind |-> "in", target |-> e, values |-> values]
Compare(op, e, d)    == [kind |-> "compare", op |-> op, left |-> e, right |-> d]

Flip == [op \in Ops |->
    CASE op = "lt" -> "gt" [] op = "le" -> "ge" [] op = "gt" -> "lt"
      [] op = "ge" -> "le" [] OTHER -> op]

\* lowerCompare: a comparison with null is a test of null, and a field comes first.
Lowered(op, e, d) ==
    LET null == Literal(Null) IN
    CASE op \in {"eq", "ne"} /\ e = null -> IsNull(d, op = "ne")
      [] op \in {"eq", "ne"} /\ d = null -> IsNull(e, op = "ne")
      [] e.kind # "field" /\ d.kind = "field" -> Compare(Flip[op], d, e)
      [] OTHER -> Compare(op, e, d)

-----------------------------------------------------------------------------
(* The reference. *)

No == 0
Unknown == 1
Yes == 2

Known(b) == IF b THEN Yes ELSE No

Least(x, y) == IF x < y THEN x ELSE y

Truncated(v) == 2 * (v \div 2)

RECURSIVE Value(_, _), Eval(_, _)

\* evalValue
Value(e, doc) ==
    CASE e.kind = "field"   -> doc[e.name]
      [] e.kind = "literal" -> e.value
      [] e.kind = "cast"    -> LET v == Value(e.operand, doc)
                               IN IF Nullish(v) THEN Null ELSE Truncated(v)
      [] e.kind = "arith"   -> LET v == Value(e.left, doc)  w == Value(e.right, doc)
                               IN IF Nullish(v) \/ Nullish(w) THEN Null ELSE v + w
      [] e.kind = "case"    -> Value(IF Eval(e.cond, doc) = Yes THEN e.then ELSE e.else, doc)

\* evalBool, evalCompare, evalIn, and3 and or3
Eval(p, doc) ==
    CASE p.kind = "compare" ->
           LET v == Value(p.left, doc)  w == Value(p.right, doc)
           IN IF Nullish(v) \/ Nullish(w) THEN Unknown ELSE Known(Compares(p.op, v, w))
      [] p.kind = "isNull" -> Known(Nullish(Value(p.operand, doc)) # p.negated)
      [] p.kind = "in" ->
           LET v == Value(p.target, doc) IN
           IF p.values = {} THEN No
           ELSE IF Nullish(v) THEN Unknown
           ELSE IF v \in p.values THEN Yes
           ELSE IF Null \in p.values THEN Unknown ELSE No
      [] p.kind = "not" -> Yes - Eval(p.operand, doc)
      [] p.kind = "and" -> Least(Eval(p.left, doc), Eval(p.right, doc))
      [] p.kind = "or"  -> Yes - Least(Yes - Eval(p.left, doc), Yes - Eval(p.right, doc))

-----------------------------------------------------------------------------
(* Filters.  A match on a field, or an expression, which keeps the shape   *)
(* of the predicate.                                                       *)

On(f, op, arg) == [kind |-> "on", field |-> f, op |-> op, arg |-> arg]
Expr(p)        == [kind |-> "expr", tree |-> p]

FieldLiteral(p) == p.left.kind = "field" /\ p.right.kind = "literal"

\* guardedExpr: neither operand is null, and the comparison or its negation.
Guarded(p, negate) ==
    Expr(And(And(IsNull(p.left, TRUE), IsNull(p.right, TRUE)),
             IF negate THEN Not(p) ELSE p))

\* Variant of NotEqual that forgets null.
NotEqualOrNull(f, v) == On(f, "nin", {v})

\* `!=' excludes the value, null and documents without the field.
NotEqual(f, v) == On(f, "nin", {v, Null})

RECURSIVE RenderMatch(_), NegateMatch(_)

RenderMatch(p) ==
    CASE p.kind \in {"and", "or"} -> [p EXCEPT !.left = RenderMatch(@), !.right = RenderMatch(@)]
      [] p.kind = "not"    -> NegateMatch(p.operand)
      [] p.kind = "isNull" -> On(p.operand.name, IF p.negated THEN "nin" ELSE "in", {Null})
      [] p.kind = "in"     -> On(p.target.name, "in", p.values)
      [] p.kind = "compare" ->
           IF ~FieldLiteral(p) THEN Guarded(p, FALSE)
           ELSE IF p.op = "ne" THEN NotEqual(p.left.name, p.right.value)
           ELSE On(p.left.name, p.op, p.right.value)

\* The negation is pushed to the leaves.
NegateMatch(p) ==
    CASE p.kind = "and"    -> Or(NegateMatch(p.left), NegateMatch(p.right))
      [] p.kind = "or"     -> And(NegateMatch(p.left), NegateMatch(p.right))
      [] p.kind = "not"    -> RenderMatch(p.operand)
      [] p.kind = "isNull" -> On(p.operand.name, IF p.negated THEN "in" ELSE "nin", {Null})
      [] p.kind = "in"     -> On(p.target.name, "nin", p.values \cup {Null})
      [] p.kind = "compare" ->
           IF ~FieldLiteral(p) THEN Guarded(p, TRUE)
           ELSE IF p.op = "eq" THEN NotEqual(p.left.name, p.right.value)
           ELSE On(p.left.name, Inverse[p.op], p.right.value)

RECURSIVE HasCast(_), HasCase(_), Leaves(_)

\* containsNonJsonCastInPredicate
HasCast(e) ==
    CASE e.kind \in {"field", "literal"} -> FALSE
      [] e.kind = "cast"                 -> TRUE
      [] e.kind = "in"                   -> HasCast(e.target)
      [] e.kind = "case"                 -> HasCast(e.cond) \/ HasCast(e.then) \/ HasCast(e.else)
      [] e.kind \in {"not", "isNull"}    -> HasCast(e.operand)
      [] OTHER                           -> HasCast(e.left) \/ HasCast(e.right)

HasCase(e) ==
    CASE e.kind \in {"field", "literal", "in"} -> FALSE
      [] e.kind = "case"                       -> TRUE
      [] e.kind \in {"not", "isNull", "cast"}  -> HasCase(e.operand)
      [] OTHER                                 -> HasCase(e.left) \/ HasCase(e.right)

Leaves(p) ==
    CASE p.kind \in {"and", "or"} -> Leaves(p.left) \cup Leaves(p.right)
      [] p.kind = "not"           -> Leaves(p.operand)
      [] OTHER                    -> {p}

\* The filter of a `find', and of a `remove' or an `update'.
RenderWriteFilter(p) == IF HasCast(p) THEN Expr(p) ELSE RenderMatch(p)

\* What the code refuses to render.
FindRenders(p) == \A l \in Leaves(p) : l.kind = "isNull" => l.operand.kind = "field"

WriteRenders(p) ==
    IF HasCast(p) THEN ~HasCase(p)
    ELSE FindRenders(p) /\ \A l \in Leaves(p) : l.kind = "compare" => FieldLiteral(l)

-----------------------------------------------------------------------------
(* MongoDB.  In a match, null stands for a field that is absent too, and   *)
(* comparisons stay within a type.  In an expression there are two truth   *)
(* values, and all values are ordered.                                     *)

RECURSIVE AggValue(_, _), AggHolds(_, _), Selects(_, _)

AggValue(e, doc) ==
    IF e.kind = "case" THEN AggValue(IF AggHolds(e.cond, doc) THEN e.then ELSE e.else, doc)
    ELSE Value(e, doc)     \* $convert and $add, too, are null when an operand is

AggHolds(p, doc) ==
    CASE p.kind = "compare" -> Compares(p.op, AggValue(p.left, doc), AggValue(p.right, doc))
      [] p.kind = "isNull"  -> (AggValue(p.operand, doc) = Null) # p.negated
      [] p.kind = "in"      -> AggValue(p.target, doc) \in p.values
      [] p.kind = "not"     -> ~AggHolds(p.operand, doc)
      [] p.kind = "and"     -> AggHolds(p.left, doc) /\ AggHolds(p.right, doc)
      [] p.kind = "or"      -> AggHolds(p.left, doc) \/ AggHolds(p.right, doc)

Matches(op, v, arg) ==
    LET w == IF v = Absent THEN Null ELSE v IN
    CASE op = "in"  -> w \in arg
      [] op = "nin" -> w \notin arg
      [] OTHER      -> (w = Null <=> arg = Null) /\ Compares(op, w, arg)

Selects(filter, doc) ==
    CASE filter.kind = "on"   -> Matches(filter.op, doc[filter.field], filter.arg)
      [] filter.kind = "expr" -> AggHolds(filter.tree, doc)
      [] filter.kind = "and"  -> Selects(filter.left, doc) /\ Selects(filter.right, doc)
      [] filter.kind = "or"   -> Selects(filter.left, doc) \/ Selects(filter.right, doc)

-----------------------------------------------------------------------------
(* The predicate being written. *)

one == CHOOSE v \in Numbers : \A w \in Numbers : v <= w

Literals == { Literal(v) : v \in Numbers \cup {Null} }

Bare == { Field(f) : f \in Fields }

Conditions == { Lowered("lt", e, Literal(one)) : e \in Bare } \cup { IsNull(e, FALSE) : e \in Bare }

Simple == Bare \cup Literals

Operands == Simple
    \cup { Cast(e) : e \in Bare }
    \cup { Plus(e, Literal(one)) : e \in Bare }
    \cup { Case(c, Literal(one), e) : c \in Conditions, e \in Bare }

\* Leaves that connectives add: every form of a filter.
Added == UNION { { IsNull(e, FALSE), In(e, {one}), Lowered("eq", e, Literal(one)),
                   Lowered("lt", e, Literal(one)), Lowered("lt", Literal(one), Cast(e)) } :
                 e \in Bare }

VARIABLES predicate, connectives

vars == <<predicate, connectives>>

Comparison ==
    \E op \in Ops, e \in Operands, d \in Simple : predicate = Lowered(op, e, d)

Membership ==
    \E e \in Bare, values \in SUBSET (Numbers \cup {Null}) : predicate = In(e, values)

Init == (Comparison \/ Membership) /\ connectives = 0

Connect(p) ==
    /\ connectives < MaxConnectives
    /\ connectives' = connectives + 1
    /\ predicate' = p

Negate   == Connect(Not(predicate))
Conjoin  == \E q \in Added : Connect(And(predicate, q))
Disjoin  == \E q \in Added : Connect(Or(q, predicate))

Next == Negate \/ Conjoin \/ Disjoin

Spec == Init /\ [][Next]_vars

-----------------------------------------------------------------------------
(* Properties. *)

\* Where the languages part: null in a list or as a bound, a list that a
\* subquery left empty, a field that is absent as an operand of an expression,
\* a condition that is unknown.
Strays(l, doc) ==
    \/ l.kind = "in" /\ (Null \in l.values \/ (l.values = {} /\ Nullish(doc[l.target.name])))
    \/ /\ l.kind = "compare"
       /\ \/ Literal(Null) \in {l.left, l.right}
          \/ ~FieldLiteral(l) /\ \E e \in {l.left, l.right} :
                \/ e.kind = "field" /\ doc[e.name] = Absent
                \/ e.kind = "case" /\ (Eval(e.cond, doc) = Unknown \/ Absent \in Image(doc))

Agrees(p, doc) == \A l \in Leaves(p) : ~Strays(l, doc)

\* A `find' on MongoDB keeps the documents its predicate is true of, neither
\* those it is false of nor those it is unknown of, under any connectives;
\* but for leaves on which the languages part.
FindKeepsTheTrue ==
    FindRenders(predicate) =>
        \A doc \in Documents : Agrees(predicate, doc) =>
            (Selects(RenderMatch(predicate), doc) <=> Eval(predicate, doc) = Yes)

\* So does the filter of a `remove'; one with a cast, on documents that have a
\* value for every field.
RemoveTakesTheTrue ==
    WriteRenders(predicate) =>
        \A doc \in Documents :
            Agrees(predicate, doc) /\ (HasCast(predicate) => Image(doc) \subseteq Numbers)
            => (Selects(RenderWriteFilter(predicate), doc) <=> Eval(predicate, doc) = Yes)

\* A `remove' spares what PostgreSQL would spare: documents without the field.
RemoveSparesUnknown ==
    WriteRenders(predicate) =>
        \A doc \in Documents :
            Agrees(predicate, doc) /\ Eval(predicate, doc) = Unknown
            => ~Selects(RenderWriteFilter(predicate), doc)
=============================================================================
