------------------------------- MODULE MCPki -------------------------------
(* Pki on small instances: see the configurations of this module.          *)
EXTENDS Pki, TLC

\* Callers and generator runs are interchangeable.
Symmetry == Permutations(Proc) \cup Permutations(Gen)
=============================================================================
