-------------------------- MODULE MCTunnelSession --------------------------
(* TunnelSession for TLC. *)
EXTENDS TunnelSession
=============================================================================
