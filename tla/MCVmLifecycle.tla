--------------------------- MODULE MCVmLifecycle ---------------------------
(* VmLifecycle on small instances: see the configurations of this module. *)
EXTENDS VmLifecycle, TLC

\* Invocations and pids are interchangeable; only for runs without liveness.
Symmetry == Permutations(Cli) \cup Permutations(Pid)
=============================================================================
