---------------------------- MODULE MCCanvasSync ----------------------------
(* CanvasSync for TLC. *)
EXTENDS CanvasSync
=============================================================================
