--------------------------- MODULE MCCanvasState ---------------------------
(* CanvasState for TLC: the connections are of one team.                   *)
EXTENDS CanvasState, TLC

CONSTANT team

Symmetry == Permutations(Requests) \cup Permutations(Checksums)

MCTeamOf == [c \in Conns |-> team]
=============================================================================
