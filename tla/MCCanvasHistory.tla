--------------------------- MODULE MCCanvasHistory ---------------------------
(* CanvasHistory for TLC. *)
EXTENDS CanvasHistory
=============================================================================
