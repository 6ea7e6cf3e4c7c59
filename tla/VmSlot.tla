------------------------------ MODULE VmSlot ------------------------------
(***************************************************************************)
(* What the state directory is to a user who runs one command at a time    *)
(* and starts the VM through autoconfigure: a slot for one VM, which       *)
(* malleus knows from some time after its boot until it ends.              *)
(* VmLifecycle implements it.                                              *)
(***************************************************************************)
CONSTANT Pid  \* process ids; "none" is not one of them

VARIABLES
  vm,    \* the VM that nobody asked to stop, or "none"
  known  \* stop and status will find it

vars == <<vm, known>>

Init == vm = "none" /\ known = FALSE

\* vfkit is spawned while no VM runs.
Boot ==
  /\ vm = "none"
  /\ vm' \in Pid
  /\ known' = FALSE

\* Its pid is on disk.
Learn ==
  /\ vm # "none" /\ ~known
  /\ known' = TRUE
  /\ UNCHANGED vm

\* It is told to stop, exits, or the host reboots, known or not.
End ==
  /\ vm # "none"
  /\ vm' = "none"
  /\ known' = FALSE

Next == Boot \/ Learn \/ End

Spec == Init /\ [][Next]_vars
=============================================================================
