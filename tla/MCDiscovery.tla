---------------------------- MODULE MCDiscovery ----------------------------
(* Discovery on small instances: see the configurations of this module. *)
EXTENDS Discovery, TLC

\* Addresses are interchangeable; only for runs without liveness.
Symmetry == Permutations(Address)
=============================================================================
