--------------------------- MODULE MCSnqlPipeline ---------------------------
(* SnqlPipeline for TLC: two fields, the queries that combine some stages. *)
EXTENDS SnqlPipeline

A == Column("field", "a", "a")
B == Column("field", "b", "b")

MCPicks == { << >>, <<A>>, <<A, B>>, <<Column("field", "a", "b")>>, <<Column("field", "b", "x"), A>>,
             <<Column("rows", "", "x")>>,
             <<A, Column("rows", "", "x"), Column("count", "b", "y")>>,
             <<Column("min", "b", "x")>>, <<Column("field", "a", "y"), Column("min", "b", "x")>> }

Key(path, desc) == [path |-> path, desc |-> desc]

MCSorts == { << >>, <<Key("a", FALSE)>>, <<Key("b", TRUE)>>, <<Key("b", FALSE)>>,
             <<Key("x", FALSE)>>, <<Key("x", TRUE)>>,
             <<Key("a", FALSE), Key("b", TRUE)>>, <<Key("x", FALSE), Key("b", TRUE)>> }

MCHavings == { << >>,
    << [col |-> Column("rows", "", ""), test |-> "gt", bound |-> 1] >>,
    << [col |-> Column("min", "b", ""), test |-> "lt", bound |-> 2] >>,
    << [col |-> Column("field", "a", ""), test |-> "lt", bound |-> 2] >> }

MCLimits == { << >>, << [skip |-> 1, count |-> 1] >> }

MCQueries ==
    [where : {{}, {"b"}}, group : {{}, {"a"}}, having : MCHavings, pick : MCPicks,
     unique : {"no", "all", "on"}, on : {<<"a">>}, sort : MCSorts, limit : MCLimits]

MCRows == { [a |-> v, b |-> w] : v \in {Null, 1}, w \in {Null, 1, 2} }

\* Up to two rows, three of which one is known, and a row that lacks a field.
MCTables == { << >> } \cup [1..1 -> MCRows] \cup [1..2 -> MCRows]
    \cup { <<r, s, [a |-> 1, b |-> 1]>> : r, s \in MCRows }
    \cup [1..1 -> { [a |-> 1], [b |-> 1] }]

MCSchemas == { {}, {"b"} }

Native == {"filter", "project", "aggregate", "sort", "paginate"}

\* MongoDB, a key-value store, and the runtime alone.
MCEngines == { Native, {"filter", "aggregate"}, {} }
=============================================================================
