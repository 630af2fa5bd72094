--------------------------- MODULE MCMongoSchema ---------------------------
(* MongoSchema for TLC. *)
EXTENDS MongoSchema, TLC

Symmetry == Permutations(Clients) \cup Permutations(Docs) \cup Permutations(Members)
            \cup Permutations(Enums)
=============================================================================
