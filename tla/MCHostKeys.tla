----------------------------- MODULE MCHostKeys -----------------------------
(* Host-key trust for TLC. *)
EXTENDS HostKeys
=============================================================================
