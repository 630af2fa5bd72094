----------------------------- MODULE MCPairing -----------------------------
(* Pairing for TLC: every DSN belongs to the one installation home. *)
EXTENDS Pairing

CONSTANT home

MCInstallOf == [k \in Clis |-> home]
=============================================================================
