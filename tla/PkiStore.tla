------------------------------ MODULE PkiStore ------------------------------
(***************************************************************************)
(* What src/src/pki.rs promises to its caller: the PKI directory holds one *)
(* set of material, created once, and every call returns that set or is    *)
(* rejected because a creation was interrupted half way.  Pki implements   *)
(* it when calls do not overlap.                                           *)
(***************************************************************************)
CONSTANTS
  Proc,  \* callers of load_or_create
  Gen,   \* sets of key material, one for each run of the generator
  Torn   \* TRUE: an interrupted creation may go unnoticed

VARIABLES
  store,  \* the material of the directory, "none", "broken" or "torn"
  answer  \* what each caller was given last, since the directory is there

vars == <<store, answer>>

TypeOK ==
  /\ store \in Gen \cup {"none", "broken", "torn"}
  /\ answer \in [Proc -> Gen \cup {"none", "rejected", "torn"}]

Init ==
  /\ store = "none"
  /\ answer = [p \in Proc |-> "none"]

Create ==
  /\ store = "none"
  /\ store' \in Gen
  /\ UNCHANGED answer

\* A creation is interrupted: nothing repairs the directory but its removal.
Break ==
  /\ store = "none"
  /\ store' \in {"broken"} \cup IF Torn THEN {"torn"} ELSE {}
  /\ UNCHANGED answer

Load(p) ==
  /\ store \in Gen \cup {"torn"}
  /\ answer' = [answer EXCEPT ![p] = store]
  /\ UNCHANGED store

Reject(p) ==
  /\ store = "broken"
  /\ answer' = [answer EXCEPT ![p] = "rejected"]
  /\ UNCHANGED store

Delete ==
  /\ store' = "none"
  /\ answer' = [p \in Proc |-> "none"]

Next ==
  \/ Create \/ Break \/ Delete
  \/ \E p \in Proc : Load(p) \/ Reject(p)

Spec == Init /\ [][Next]_vars
=============================================================================
