------------------------------ MODULE MCTunnels ------------------------------
(* Tunnels to one SSH server, for TLC. *)
EXTENDS Tunnels, TLC

\* Every tunnel resolves to the same key.
OneServer == [t \in TunnelIds |-> CHOOSE k \in Keys : TRUE]

\* REST calls are interchangeable.
ClientSymmetry == Permutations(Clients)
=============================================================================
