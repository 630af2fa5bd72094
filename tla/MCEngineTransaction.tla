------------------------ MODULE MCEngineTransaction ------------------------
(* EngineTransaction for TLC.  *)
EXTENDS EngineTransaction

=============================================================================
