-------------------------------- MODULE Pki --------------------------------
(***************************************************************************)
(* load_or_create of src/src/pki.rs, file by file: four files are tested,  *)
(* and then either read or generated and written, one after the other.     *)
(* The calls of several `start`s may overlap, and a call may end at any of *)
(* its steps: the process is killed, or a system call fails.  `delete`     *)
(* removes the directory between calls (VmLifecycle overlaps the two).     *)
(***************************************************************************)
EXTENDS Naturals

CONSTANTS
  Proc,    \* callers of load_or_create, as in PkiStore
  Gen,     \* runs of the key generator that are told apart
  Serial,  \* TRUE: calls do not overlap
  Faults   \* "interrupt": a call may end early; "torn": even inside fs::write

ASSUME ConstantsOK ==
  /\ Gen \cap {"none", "rejected", "broken", "torn", "absent", "empty"} = {}
  /\ Serial \in BOOLEAN
  /\ Faults \subseteq {"interrupt", "torn"}

\* client.crt, client.key, server.crt and server.key: the code tests, reads
\* and writes them in this order.
Slot == 1 .. 4

\* A file written by run g of the generator holds g.
Content == Gen \cup {"absent", "empty"}

VARIABLES
  file,    \* content of each of the four files
  pc,      \* control state of each caller
  at,      \* the file it is at
  found,   \* the files that it saw exist
  held,    \* material in its memory, generated or read so far
  answer   \* what it was given last, since the directory is there, or Nothing

locals == <<pc, at, found, held>>
vars == <<file, locals, answer>>

Nothing == [s \in Slot |-> "absent"]

\* The answer of a call that finds partial material.
Rejected == [s \in Slot |-> "rejected"]

TypeOK ==
  /\ file \in [Slot -> Content]
  /\ pc \in [Proc -> {"idle", "exists", "generate", "open", "fill", "read", "return"}]
  /\ at \in [Proc -> 1 .. 5]
  /\ \A p \in Proc : pc[p] # "exists" => at[p] \in Slot
  /\ found \in [Proc -> SUBSET Slot]
  /\ held \in [Proc -> [Slot -> Content]]
  /\ answer \in [Proc -> [Slot -> Content] \cup {Rejected}]

Init ==
  /\ file = Nothing
  /\ pc = [p \in Proc |-> "idle"]
  /\ at = [p \in Proc |-> 1]
  /\ found = [p \in Proc |-> {}]
  /\ held = [p \in Proc |-> Nothing]
  /\ answer = [p \in Proc |-> Nothing]

-----------------------------------------------------------------------------

Goto(p, to) == pc' = [pc EXCEPT ![p] = to]

\* The call is over and its memory is gone.
End(p) ==
  /\ Goto(p, "idle")
  /\ at' = [at EXCEPT ![p] = 1]
  /\ found' = [found EXCEPT ![p] = {}]
  /\ held' = [held EXCEPT ![p] = Nothing]

Call(p) ==
  /\ pc[p] = "idle"
  /\ Serial => \A q \in Proc : pc[q] = "idle"
  /\ Goto(p, "exists")
  /\ UNCHANGED <<file, at, found, held, answer>>

\* maybe_load: the four exists() tests ...
Exists(p) ==
  /\ pc[p] = "exists"
  /\ at[p] \in Slot
  /\ found' = [found EXCEPT ![p] = @ \cup {s \in {at[p]} : file[s] # "absent"}]
  /\ at' = [at EXCEPT ![p] = @ + 1]
  /\ UNCHANGED <<file, pc, held, answer>>

\* Mutant: partial material counts as none.
Missing_Partial(p) ==
  /\ pc[p] = "exists" /\ at[p] \notin Slot
  /\ found[p] # Slot
  /\ Goto(p, "generate")
  /\ at' = [at EXCEPT ![p] = 1]
  /\ UNCHANGED <<file, found, held, answer>>

\* Mutant: existing material does not stop the generator.
Missing_Always(p) ==
  /\ pc[p] = "exists" /\ at[p] \notin Slot
  /\ Goto(p, "generate")
  /\ at' = [at EXCEPT ![p] = 1]
  /\ UNCHANGED <<file, found, held, answer>>

\* Mutant: the files are written from the fifth on.
Missing_NoReset(p) ==
  /\ pc[p] = "exists" /\ at[p] \notin Slot
  /\ found[p] = {}
  /\ Goto(p, "generate")
  /\ UNCHANGED <<file, at, found, held, answer>>

\* ... none of the files: load_or_create goes on to generate ...
Missing(p) ==
  /\ pc[p] = "exists" /\ at[p] \notin Slot
  /\ found[p] = {}
  /\ Goto(p, "generate")
  /\ at' = [at EXCEPT ![p] = 1]
  /\ UNCHANGED <<file, found, held, answer>>

\* ... some of them: IncompleteMaterial ...
Incomplete(p) ==
  /\ pc[p] = "exists" /\ at[p] \notin Slot
  /\ found[p] \notin {{}, Slot}
  /\ answer' = [answer EXCEPT ![p] = Rejected]
  /\ End(p)
  /\ UNCHANGED file

\* ... all of them: they are read.
Complete(p) ==
  /\ pc[p] = "exists" /\ at[p] \notin Slot
  /\ found[p] = Slot
  /\ Goto(p, "read")
  /\ at' = [at EXCEPT ![p] = 1]
  /\ UNCHANGED <<file, found, held, answer>>

\* The step at file s is done: go on with the next file, or return.
Advance(p, again) ==
  IF at[p] = 4
  THEN Goto(p, "return") /\ UNCHANGED at
  ELSE Goto(p, again) /\ at' = [at EXCEPT ![p] = @ + 1]

\* read_identity, twice.
Read(p) ==
  /\ pc[p] = "read"
  /\ held' = [held EXCEPT ![p][at[p]] = file[at[p]]]
  /\ Advance(p, "read")
  /\ UNCHANGED <<file, found, answer>>

\* A run of the generator is told apart from those whose output is around.
Fresh ==
  {g \in Gen : \A s \in Slot :
     /\ file[s] # g
     /\ \A p \in Proc : held[p][s] # g /\ answer[p][s] # g}

\* create_dir_all and generate_identity, for the client and for the server.
Generate(p) ==
  /\ pc[p] = "generate"
  /\ \E g \in Fresh : held' = [held EXCEPT ![p] = [s \in Slot |-> g]]
  /\ Goto(p, "open")
  /\ UNCHANGED <<file, at, found, answer>>

\* write_identity, twice: fs::write creates or truncates the file ...
Open(p) ==
  /\ pc[p] = "open"
  /\ file' = [file EXCEPT ![at[p]] = "empty"]
  /\ Goto(p, "fill")
  /\ UNCHANGED <<at, found, held, answer>>

\* Mutant: the loop over the files stops before server.key.
Fill_NoServerKey(p) ==
  /\ pc[p] = "fill"
  /\ file' = [file EXCEPT ![at[p]] = held[p][at[p]]]
  /\ IF at[p] = 3
     THEN Goto(p, "return") /\ UNCHANGED at
     ELSE Goto(p, "open") /\ at' = [at EXCEPT ![p] = @ + 1]
  /\ UNCHANGED <<found, held, answer>>

\* ... and writes it.
Fill(p) ==
  /\ pc[p] = "fill"
  /\ file' = [file EXCEPT ![at[p]] = held[p][at[p]]]
  /\ Advance(p, "open")
  /\ UNCHANGED <<found, held, answer>>

Return(p) ==
  /\ pc[p] = "return"
  /\ answer' = [answer EXCEPT ![p] = held[p]]
  /\ End(p)
  /\ UNCHANGED file

-----------------------------------------------------------------------------

\* The call ends before its time: killed, or stopped by an i/o error.
Interrupt(p) ==
  /\ "interrupt" \in Faults
  /\ pc[p] # "idle"
  /\ pc[p] = "fill" => "torn" \in Faults
  /\ End(p)
  /\ UNCHANGED <<file, answer>>

\* `malleus delete`.
Delete ==
  /\ \A p \in Proc : pc[p] = "idle"
  /\ file' = Nothing
  /\ answer' = [p \in Proc |-> Nothing]
  /\ UNCHANGED locals

Step(p) ==
  \/ Exists(p) \/ Missing(p) \/ Incomplete(p) \/ Complete(p)
  \/ Read(p) \/ Generate(p) \/ Open(p) \/ Fill(p) \/ Return(p)

Next ==
  \/ \E p \in Proc : Call(p) \/ Step(p) \/ Interrupt(p)
  \/ Delete

Spec == Init /\ [][Next]_vars

-----------------------------------------------------------------------------
(* Properties.                                                             *)

Given(p) == answer[p] \notin {Nothing, Rejected}

\* Every start on one state directory is given the same material: the one the
\* guest trusts, wherever earlier starts were interrupted.
Agreed == \A p, q \in Proc : Given(p) /\ Given(q) => answer[p] = answer[q]

\* A key on disk is never overwritten, not even when some files of the set are
\* missing: only deleting the state directory removes it.
NeverOverwritten ==
  [][\A s \in Slot : file[s] \in Gen => file'[s] \in {file[s], "absent"}]_vars

\* Four files on disk, and no start under way that could still write one: each
\* has passed its tests, or has found every file that it has tested so far.
Settled ==
  /\ \A s \in Slot : file[s] # "absent"
  /\ \A p \in Proc :
       /\ pc[p] \notin {"generate", "open", "fill"}
       /\ pc[p] = "exists" => \A s \in Slot : s < at[p] => s \in found[p]

\* From then on no start writes a key, however many of them overlap and
\* wherever they are cut short, until the state directory is deleted.  It says
\* something where calls overlap, and is a theorem of Pki_proof.
SettledStays ==
  [][Settled /\ file' # Nothing => file' = file /\ Settled']_vars

\* "Partial material should be rejected": no start is given an empty file.
AnswersComplete == \A p \in Proc : Given(p) => \A s \in Slot : answer[p][s] \in Gen

\* With calls one at a time the directory is a PkiStore: in the making while a
\* caller writes, torn when all files are there but do not hold one material.
Material(f) == CHOOSE g \in Gen : f = [s \in Slot |-> g]
IsMaterial(f) == \E g \in Gen : f = [s \in Slot |-> g]

StoreValue ==
  IF IsMaterial(file) THEN Material(file)
  ELSE IF file = Nothing \/ \E p \in Proc : pc[p] \in {"open", "fill"} THEN "none"
  ELSE IF \A s \in Slot : file[s] # "absent" THEN "torn"
  ELSE "broken"

AnswerValue(p) ==
  IF answer[p] = Nothing THEN "none"
  ELSE IF answer[p] = Rejected THEN "rejected"
  ELSE IF IsMaterial(answer[p]) THEN Material(answer[p]) ELSE "torn"

Store == INSTANCE PkiStore WITH
  Torn <- "torn" \in Faults,
  store <- StoreValue, answer <- [p \in Proc |-> AnswerValue(p)]

\* One set of material is created once, and given to every call until delete;
\* an interrupted creation is rejected by every call until delete, unless it
\* stopped inside fs::write on the last file.
ImplementsStore == Store!Spec
=============================================================================
