------------------------------ MODULE MCRemote ------------------------------
(* Remote on small instances: see the configurations of this module.        *)
EXTENDS Remote, TLC

\* Callers, generator runs and addresses are interchangeable; only for runs
\* without liveness.
Symmetry == Permutations(Proc) \cup Permutations(Gen) \cup Permutations(Address)
=============================================================================
