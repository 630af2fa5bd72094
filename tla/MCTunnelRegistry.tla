-------------------------- MODULE MCTunnelRegistry --------------------------
(* TunnelRegistry for TLC: t1 and t2 are sessions of the same connection of   *)
(* u1 (two machines that serve the same database), t3 is another tenant's.   *)
EXTENDS TunnelRegistry, TLC

CONSTANTS t1, t2, t3, u1, u2, c1, c2

MCOwner == [t \in Tunnels |-> IF t = t3 THEN u2 ELSE u1]

MCConnectionOf == [t \in Tunnels |-> IF t = t3 THEN c2 ELSE c1]

SocketSymmetry == Permutations(CliSockets) \cup Permutations(BrowserSockets)
=============================================================================
