-------------------------- MODULE MCMongoReferences --------------------------
(* MongoReferences for TLC: a collection that refers to itself (employees and  *)
(* their managers) and one that refers to it.                                 *)
EXTENDS ReferentialIntegrity, TLC

CONSTANTS a1, a2, b1, people, orders, manager, owner

MCCollOf == [n \in Nodes |-> IF n = b1 THEN orders ELSE people]

MCFrom == [r \in Refs |-> IF r = manager THEN people ELSE orders]

MCTo == [r \in Refs |-> people]

Symmetry == Permutations(Clients) \cup Permutations({a1, a2})
=============================================================================
