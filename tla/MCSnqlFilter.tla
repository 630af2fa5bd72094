----------------------------- MODULE MCSnqlFilter -----------------------------
(* SnqlFilter for TLC. *)
EXTENDS SnqlFilter, TLC

Symmetry == Permutations(Fields)
=============================================================================
