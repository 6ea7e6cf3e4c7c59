------------------------- MODULE VmLifecycle_proof -------------------------
(***************************************************************************)
(* Theorems about VmLifecycle, for any number of invocations and of pids.  *)
(* TypeCorrect holds of every behaviour.  The theorems named WhenGuarded,  *)
(* and the implementation of VmSlot, are about a user who runs one command *)
(* at a time, may kill it at any step, and starts the VM only through      *)
(* autoconfigure; their inductive invariant is IInv.                       *)
(***************************************************************************)
EXTENDS VmLifecycle, TLAPS

(* The tables of the control flow lead to labels. *)
LEMMA Tables ==
  /\ DOMAIN IfUp = {"status", "ensure", "resolve"}
  /\ \A s \in DOMAIN IfUp : IfUp[s] \in Label /\ IfDown[s] \in Label
  /\ \A s \in DOMAIN IfUp : IfUp[s] \in {"idle", "resolve", "search"}
  /\ \A s \in DOMAIN IfUp : IfDown[s] \in {"idle", "prepare"}
  /\ \A command \in CommandNames : Entry[command] \in Label
BY DEF IfUp, IfDown, Entry, CommandNames, Label

-----------------------------------------------------------------------------
(* Type correctness.  An invocation that is about to use a pid has one.    *)

HasPid ==
  \A c \in Cli : /\ pc[c] \in {"ps", "kill"} => seen[c] \in Pid
                 /\ pc[c] \in {"truncate", "record"} => child[c] \in Pid

TInv == TypeOK /\ HasPid

(* The end of an invocation keeps the types of what it touches. *)
LEMMA ExitTypes ==
  ASSUME TInv, NEW c \in Cli, Exit(c)
  PROVE  /\ HasPid'
         /\ proc' \in [Pid -> Owner]
         /\ signalled' \subseteq {p \in Pid : proc'[p] # "free"}
         /\ installed' \in BOOLEAN
         /\ lost' \subseteq {p \in Pid : proc'[p] = "vm"}
         /\ pc' \in [Cli -> Label]
         /\ cmd' \in [Cli -> CommandNames \cup {"none"}]
         /\ site' \in [Cli -> DOMAIN IfUp]
         /\ seen' \in [Cli -> Pid \cup {"none"}]
         /\ child' \in [Cli -> Pid \cup {"none"}]
<1>1. /\ proc' = [p \in Pid |-> IF p = child[c] /\ proc[p] = "zombie"
                               THEN "free" ELSE proc[p]]
      /\ lost' = {p \in Pid : proc[p] = "vm" /\ (p \in lost \/ (p = child[c] /\ Recording(c)))}
  BY DEF Exit
<1>2. /\ lost' \subseteq {p \in Pid : proc'[p] = "vm"}
      /\ signalled' \subseteq {p \in Pid : proc'[p] # "free"}
  BY <1>1 DEF Exit, TInv, TypeOK
<1> QED
  BY <1>2, Tables DEF TInv, HasPid, TypeOK, Exit, Goto, ForgetLocals, Label, Owner

(* So does an answer of the probe, which never asks for a pid. *)
LEMMA AnswerTypes ==
  ASSUME TInv, NEW c \in Cli,
         NEW to \in {"idle", "resolve", "search", "prepare"}, Answer(c, to)
  PROVE  TInv'
<1>1. CASE Exit(c) /\ UNCHANGED disk
  BY <1>1, ExitTypes DEF TInv, TypeOK, disk
<1>2. CASE Goto(c, to) /\ UNCHANGED <<host, disk, locals>>
  BY <1>2 DEF TInv, HasPid, TypeOK, Goto, Label, host, disk, locals
<1> QED BY <1>1, <1>2 DEF Answer

(* One step of start keeps the types. *)
LEMMA StartStepTypes ==
  ASSUME TInv, NEW c \in Cli, StartStep(c)
  PROVE  TInv'
<1> USE DEF TInv, TypeOK
<1>1. CASE Prepare(c)
  BY <1>1 DEF Prepare, HasPid, Goto, Label, host, locals
<1>2. CASE PrepareFails(c)
  BY <1>2, ExitTypes DEF PrepareFails
<1>3. CASE Spawn(c)
  BY <1>3 DEF Spawn, HasPid, Goto, Label, Owner, disk
<1>4. CASE InstallVfkit(c)
  BY <1>4 DEF InstallVfkit, HasPid, disk, locals
<1>5. CASE SpawnFails(c) \/ TruncateFails(c) \/ EarlyExit(c)
  BY <1>5, ExitTypes DEF SpawnFails, TruncateFails, EarlyExit, disk
<1>6. CASE Truncate(c)
  BY <1>6 DEF Truncate, HasPid, Goto, Label, host, locals
<1>7. CASE Record(c)
  BY <1>7 DEF Record, HasPid, Goto, Label, host, locals
<1>8. CASE StillRunning(c) \/ PollAgain(c)
  <2>1. /\ \E to \in {"poll", "deadline"} : pc' = [pc EXCEPT ![c] = to]
        /\ UNCHANGED <<host, disk, locals>>
    BY <1>8 DEF StillRunning, PollAgain, Goto
  <2> QED BY <2>1 DEF HasPid, Label, host, disk, locals
<1>9. CASE GraceOver(c)
  <2>1. CASE Exit(c) /\ UNCHANGED disk
    BY <2>1, ExitTypes DEF disk
  <2>2. CASE Goto(c, "resolve") /\ UNCHANGED <<host, disk, locals>>
    BY <2>2 DEF HasPid, Goto, Label, host, disk, locals
  <2> QED BY <1>9, <2>1, <2>2 DEF GraceOver
<1> QED
  BY <1>1, <1>2, <1>3, <1>4, <1>5, <1>6, <1>7, <1>8, <1>9 DEF StartStep

(* One step of stop keeps the types. *)
LEMMA StopStepTypes ==
  ASSUME TInv, NEW c \in Cli, StopStep(c)
  PROVE  TInv'
<1> USE DEF TInv, TypeOK
<1>1. CASE Read(c)
  <2>1. CASE Exit(c) /\ UNCHANGED disk
    BY <2>1, ExitTypes DEF disk
  <2>2. CASE pidFile \in Pid
    <3>1. /\ seen' = [seen EXCEPT ![c] = pidFile]
          /\ pc' = [pc EXCEPT ![c] = "kill"]
          /\ UNCHANGED <<host, disk, cmd, site, child>>
      BY <1>1, <2>2 DEF Read, Goto
    <3> QED BY <2>2, <3>1 DEF HasPid, Label, host, disk
  <2>3. pidFile \in Pid \/ (Exit(c) /\ UNCHANGED disk)
    BY <1>1 DEF Read
  <2> QED BY <2>1, <2>2, <2>3
<1>2. CASE Kill(c) \/ KillRefused(c)
  <2>1. /\ signalled' \subseteq {p \in Pid : proc[p] # "free"}
        /\ pc' = [pc EXCEPT ![c] = "forget"]
        /\ UNCHANGED <<proc, installed, lost, disk, locals>>
    BY <1>2 DEF Kill, KillRefused, HasPid, Goto, host
  <2> QED BY <2>1 DEF HasPid, Label, disk, locals
<1>3. CASE KillNotRun(c)
  BY <1>3, ExitTypes DEF KillNotRun, disk
<1>4. CASE Forget(c)
  BY <1>4, ExitTypes DEF Forget
<1> QED BY <1>1, <1>2, <1>3, <1>4 DEF StopStep

(* One step of status, delete or autoconfigure keeps the types. *)
LEMMA OtherStepTypes ==
  ASSUME TInv, NEW c \in Cli, ProbeStep(c) \/ AutoconfigureStep(c) \/ Remove(c)
  PROVE  TInv'
<1> USE DEF TInv, TypeOK
<1>1. ASSUME Exit(c), UNCHANGED disk
      PROVE  TInv'
  BY <1>1, ExitTypes DEF disk
<1>2. ASSUME NEW from \in DOMAIN IfUp, CallProbe(c, from),
             UNCHANGED <<host, disk, cmd, seen, child>>
      PROVE  TInv'
  BY <1>2 DEF CallProbe, HasPid, Goto, Label, host, disk
<1>3. CASE Look(c)
  BY <1>1, <1>2, <1>3, Tables DEF Look
<1>4. CASE Probe(c)
  <2>1. CASE pidFile \in Pid
    <3>1. /\ seen' = [seen EXCEPT ![c] = pidFile]
          /\ pc' = [pc EXCEPT ![c] = "ps"]
          /\ UNCHANGED <<host, disk, cmd, site, child>>
      BY <1>4, <2>1 DEF Probe, Goto
    <3> QED BY <2>1, <3>1 DEF HasPid, Label, host, disk
  <2>2. CASE pidFile \notin Pid
    BY <1>4, <2>2, AnswerTypes, Tables DEF Probe
  <2> QED BY <2>1, <2>2
<1>5. CASE Ps(c) \/ PsNotRun(c)
  BY <1>5, AnswerTypes, Tables DEF Ps, PsNotRun
<1>6. CASE Check(c) \/ Resolve(c) \/ SearchAgain(c)
  <2>1. CASE UNCHANGED <<host, disk, cmd, seen, child>>
             /\ (CallProbe(c, "ensure") \/ CallProbe(c, "resolve"))
    BY <1>2, <2>1, Tables
  <2> QED BY <1>1, <1>6, <2>1 DEF Check, Resolve, SearchAgain
<1>7. CASE SearchEnds(c)
  BY <1>1, <1>7 DEF SearchEnds
<1>8. CASE Remove(c)
  BY <1>8, ExitTypes DEF Remove
<1> QED
  BY <1>3, <1>4, <1>5, <1>6, <1>7, <1>8 DEF ProbeStep, AutoconfigureStep

(* One step of the environment keeps the types. *)
LEMMA EnvStepTypes ==
  ASSUME TInv, EnvStep
  PROVE  TInv'
<1> USE DEF TInv, TypeOK
<1>1. ASSUME NEW p \in Pid, OpenSocket(p)
      PROVE  TInv'
  BY <1>1 DEF OpenSocket, HasPid, host, locals
<1>2. ASSUME NEW p \in Pid, VfkitExits(p) \/ StrangerStarts(p) \/ StrangerExits(p)
      PROVE  TInv'
  BY <1>2 DEF VfkitExits, StrangerStarts, StrangerExits, HasPid, Owner, disk, locals
<1>3. ASSUME NEW c \in Cli, Crash(c)
      PROVE  TInv'
  BY <1>3, ExitTypes DEF Crash
<1>4. CASE Reboot
  BY <1>4, Tables DEF Reboot, HasPid, Owner, Label
<1> QED BY <1>1, <1>2, <1>3, <1>4 DEF EnvStep

(* TInv is inductive. *)
LEMMA TInvInit == Init => TInv
BY ConstantsOK, Tables DEF Init, TInv, TypeOK, HasPid, Owner, Label

LEMMA TInvNext == TInv /\ [Next]_vars => TInv'
<1> SUFFICES ASSUME TInv, [Next]_vars
             PROVE  TInv'
  OBVIOUS
<1>1. ASSUME NEW c \in Cli, NEW command \in Commands, Issue(c, command)
      PROVE  TInv'
  <2>1. command \in CommandNames /\ Entry[command] \in Label \ {"ps", "kill", "truncate", "record"}
    BY ConstantsOK DEF CommandNames, Entry, Label
  <2> QED
    BY <1>1, <2>1 DEF Issue, TInv, TypeOK, HasPid, Goto, host, disk
<1>2. ASSUME NEW c \in Cli, CliStep(c)
      PROVE  TInv'
  BY <1>2, StartStepTypes, StopStepTypes, OtherStepTypes DEF CliStep
<1>3. CASE EnvStep
  BY <1>3, EnvStepTypes
<1>4. CASE UNCHANGED vars
  BY <1>4 DEF vars, host, disk, locals, TInv, TypeOK, HasPid
<1> QED BY <1>1, <1>2, <1>3, <1>4 DEF Next

(* Every state of every behaviour has the types of TypeOK, whatever commands *)
(* overlap and whatever faults occur.                                        *)
THEOREM TypeCorrect == Spec => []TypeOK
<1>1. Spec => []TInv
  BY TInvInit, TInvNext, PTL DEF Spec
<1> QED BY <1>1, PTL DEF TInv

-----------------------------------------------------------------------------
(* One command at a time, any of which may be killed; no unguarded start,   *)
(* no delete, and a ps that can be run.                                     *)

Guarded ==
  /\ Serial
  /\ Commands \cap {"start", "delete"} = {}
  /\ "nops" \notin Faults

\* A lost VM that vfkit.pid does not happen to name: nobody takes it for a VM.
Adrift(p) == p \in lost /\ pidFile # p

\* What the one invocation knows about the unstopped VMs at each of its steps.
OneCommand == \A c, d \in Cli : pc[c] # "idle" /\ pc[d] # "idle" => c = d
NeverRemoves == \A c \in Cli : pc[c] # "remove"
ReadsCurrentPid == \A c \in Cli : pc[c] \in {"ps", "kill"} => seen[c] = pidFile
NoVmLeft ==
  \A c \in Cli : pc[c] \in {"prepare", "spawn", "forget"}
                   => \A p \in Pid : Unstopped(p) => Adrift(p)
OnlyItsVm ==
  \A c \in Cli : Recording(c)
                   => \A p \in Pid : Unstopped(p) => p = child[c] \/ Adrift(p)
FileLinked == \A c \in Cli : pc[c] = "record" => c \in handle
DirectoryKept == \A c \in Cli : pc[c] \in {"spawn", "truncate"} => dir

IInv ==
  /\ TInv
  /\ OneCommand /\ NeverRemoves /\ ReadsCurrentPid
  /\ NoVmLeft /\ OnlyItsVm /\ FileLinked /\ DirectoryKept /\ Tracked

(* While an invocation is not about to write vfkit.pid, the file names the  *)
(* VM that is kept.                                                         *)
LEMMA FileNamesVm ==
  ASSUME IInv, NEW c \in Cli, pc[c] # "idle", pc[c] \notin {"truncate", "record"},
         NEW p \in Pid, Kept(p)
  PROVE  pidFile = p
BY DEF IInv, Tracked, OneCommand, Unrecorded, Recording

(* When an invocation ends, no VM becomes unstopped, and one that it has    *)
(* not recorded is kept no longer.                                          *)
LEMMA ExitStartsNoVm ==
  ASSUME TInv, NEW c \in Cli, Exit(c), NEW p \in Pid, Unstopped(p)'
  PROVE  /\ Unstopped(p)
         /\ Kept(p)' => Kept(p) /\ ~(p = child[c] /\ Recording(c))
BY DEF TInv, TypeOK, Exit, Unstopped, Kept

(* The end of the invocation, with the VM that is kept in vfkit.pid.        *)
LEMMA EndKeepsIInv ==
  ASSUME IInv, TInv', NEW c \in Cli, pc[c] # "idle", Exit(c),
         \A p \in Pid : Kept(p) => pidFile' = p \/ (Recording(c) /\ p = child[c])
  PROVE  IInv'
<1>1. \A d \in Cli : pc'[d] = "idle"
  BY DEF IInv, TInv, TypeOK, OneCommand, Exit, Goto
<1>2. Tracked'
  BY ExitStartsNoVm DEF IInv, Tracked, Kept
<1> QED
  BY <1>1, <1>2 DEF IInv, OneCommand, NeverRemoves, ReadsCurrentPid, NoVmLeft,
                    OnlyItsVm, Recording, FileLinked, DirectoryKept

(* A step to a label at which the invocation has nothing to know, with the  *)
(* VM that is kept in vfkit.pid.                                            *)
Carefree == {"poll", "deadline", "read", "look", "check", "probe", "resolve", "search"}

LEMMA MoveKeepsIInv ==
  ASSUME IInv, TInv', NEW c \in Cli, pc[c] # "idle",
         NEW to \in Carefree, Goto(c, to),
         \A p \in Pid : Kept(p)' => pidFile' = p
  PROVE  IInv'
<1>1. /\ pc'[c] = to
      /\ \A d \in Cli : d # c => pc'[d] = "idle"
  BY DEF IInv, TInv, TypeOK, OneCommand, Goto
<1>2. Tracked'
  BY DEF Tracked
<1> QED
  BY <1>1, <1>2 DEF IInv, OneCommand, NeverRemoves, ReadsCurrentPid, NoVmLeft,
                    OnlyItsVm, Recording, FileLinked, DirectoryKept, Carefree

(* A step to another label, with what has to be known there.                *)
LEMMA KnowingKeepsIInv ==
  ASSUME IInv, TInv', NEW c \in Cli, pc[c] # "idle", NEW to, Goto(c, to),
         to \notin {"idle", "remove"},
         to \in {"ps", "kill"} => seen'[c] = pidFile',
         to \in {"prepare", "spawn", "forget"} =>
           \A p \in Pid : Unstopped(p)' => Adrift(p)',
         to \in {"truncate", "record"} =>
           \A p \in Pid : Unstopped(p)' => p = child'[c] \/ Adrift(p)',
         to = "record" => c \in handle',
         to \in {"spawn", "truncate"} => dir',
         to \notin {"truncate", "record"} =>
           \A p \in Pid : Kept(p)' => pidFile' = p
  PROVE  IInv'
<1>1. /\ pc'[c] = to
      /\ \A d \in Cli : d # c => pc'[d] = "idle"
  BY DEF IInv, TInv, TypeOK, OneCommand, Goto
<1>2. Tracked'
  BY <1>1 DEF Tracked, Kept, Adrift, Unrecorded, Recording
<1> QED
  BY <1>1, <1>2 DEF IInv, OneCommand, NeverRemoves, ReadsCurrentPid, NoVmLeft,
                    OnlyItsVm, Recording, FileLinked, DirectoryKept

(* An answer of the probe: "prepare" only when there is no VM but lost ones. *)
LEMMA AnswerKeepsIInv ==
  ASSUME IInv, TInv', NEW c \in Cli, pc[c] \in {"probe", "ps"},
         NEW to \in {"idle", "resolve", "search", "prepare"}, Answer(c, to),
         to = "prepare" => \A p \in Pid : Unstopped(p) => Adrift(p)
  PROVE  IInv'
<1>1. \A p \in Pid : Kept(p) => pidFile = p
  BY FileNamesVm
<1>2. CASE to = "idle"
  BY <1>1, <1>2, EndKeepsIInv DEF Answer, disk
<1>3. CASE to # "idle"
  <2>1. Goto(c, to) /\ UNCHANGED <<proc, signalled, lost, pidFile>>
    BY <1>3 DEF Answer, host, disk
  <2>2. \A p \in Pid : /\ Unstopped(p)' <=> Unstopped(p)
                       /\ Kept(p)' <=> Kept(p)
                       /\ Adrift(p)' <=> Adrift(p)
    BY <2>1 DEF Unstopped, Kept, Adrift
  <2> QED BY <1>1, <1>3, <2>1, <2>2, KnowingKeepsIInv
<1> QED BY <1>2, <1>3

LEMMA StartStepKeepsIInv ==
  ASSUME IInv, TInv', NEW c \in Cli, StartStep(c)
  PROVE  IInv'
<1>1. pc[c] # "idle"
  BY DEF StartStep, Prepare, PrepareFails, Spawn, InstallVfkit, SpawnFails, Truncate,
         TruncateFails, Record, EarlyExit, StillRunning, PollAgain, GraceOver
<1>2. CASE Prepare(c)
  <2>1. Goto(c, "spawn") /\ UNCHANGED <<proc, signalled, lost, pidFile>> /\ dir'
    BY <1>2 DEF Prepare, host
  <2>2. \A p \in Pid : Unstopped(p)' => Adrift(p)'
    BY <1>2, <2>1 DEF Prepare, IInv, NoVmLeft, Unstopped, Adrift
  <2>3. \A p \in Pid : Kept(p)' => pidFile' = p
    BY <2>2 DEF Kept, Adrift
  <2> QED BY <1>1, <2>1, <2>2, <2>3, KnowingKeepsIInv
<1>3. CASE PrepareFails(c) \/ SpawnFails(c)
  <2>1. Exit(c) /\ pc[c] \in {"prepare", "spawn"}
    BY <1>3 DEF PrepareFails, SpawnFails
  <2> QED BY <1>1, <2>1, EndKeepsIInv DEF IInv, NoVmLeft, Kept, Adrift
<1>4. CASE Spawn(c)
  <2>1. PICK q \in Pid : /\ proc' = [proc EXCEPT ![q] = "vm"]
                         /\ child' = [child EXCEPT ![c] = q]
    BY <1>4 DEF Spawn
  <2>2. Goto(c, "truncate") /\ UNCHANGED <<signalled, lost, pidFile>> /\ dir'
    BY <1>4 DEF Spawn, disk
  <2>3. \A p \in Pid : Unstopped(p) => Adrift(p)
    BY <1>4 DEF Spawn, IInv, NoVmLeft
  <2>4. \A p \in Pid : Unstopped(p)' => p = child'[c] \/ Adrift(p)'
    BY <2>1, <2>2, <2>3 DEF Unstopped, Adrift, IInv, TInv, TypeOK
  <2> QED BY <1>1, <2>2, <2>4, KnowingKeepsIInv
<1>5. CASE InstallVfkit(c)
  <2>1. UNCHANGED <<proc, signalled, lost, dir, pidFile, handle, pc, seen, child>>
    BY <1>5 DEF InstallVfkit, disk, locals
  <2> QED
    BY <2>1 DEF IInv, OneCommand, NeverRemoves, ReadsCurrentPid, NoVmLeft, OnlyItsVm,
                FileLinked, DirectoryKept, Tracked, Unstopped, Kept, Adrift,
                Unrecorded, Recording
<1>6. CASE Truncate(c)
  <2>1. /\ Goto(c, "record") /\ UNCHANGED <<proc, signalled, lost, child>>
        /\ c \in handle' /\ pidFile' = "empty"
    BY <1>6 DEF Truncate, host, locals
  <2>2. \A p \in Pid : Unstopped(p)' => p = child'[c] \/ Adrift(p)'
    BY <1>6, <2>1, ConstantsOK
    DEF Truncate, IInv, OnlyItsVm, Recording, Unstopped, Adrift
  <2> QED BY <1>1, <2>1, <2>2, KnowingKeepsIInv
<1>7. CASE TruncateFails(c)
  BY <1>7 DEF TruncateFails, IInv, DirectoryKept
<1>8. CASE Record(c)
  <2>1. Goto(c, "poll") /\ UNCHANGED <<proc, signalled, lost>> /\ pidFile' = child[c]
    BY <1>8 DEF Record, host, IInv, FileLinked
  <2>2. \A p \in Pid : Kept(p)' => pidFile' = p
    BY <1>8, <2>1
    DEF Record, IInv, OnlyItsVm, Recording, Unstopped, Kept, Adrift
  <2> QED BY <1>1, <2>1, <2>2, MoveKeepsIInv DEF Carefree
<1>9. CASE EarlyExit(c)
  BY <1>1, <1>9, FileNamesVm, EndKeepsIInv DEF EarlyExit, disk
<1>10. CASE StillRunning(c) \/ PollAgain(c) \/ GraceOver(c)
  <2>1. \A p \in Pid : Kept(p) => pidFile = p
    BY <1>1, <1>10, FileNamesVm DEF StillRunning, PollAgain, GraceOver
  <2>2. CASE Exit(c) /\ UNCHANGED disk
    BY <1>1, <2>1, <2>2, EndKeepsIInv DEF disk
  <2>3. ASSUME NEW to \in Carefree, Goto(c, to), UNCHANGED <<host, disk, locals>>
        PROVE  IInv'
    <3>1. \A p \in Pid : Kept(p)' => pidFile' = p
      BY <2>1, <2>3 DEF Unstopped, Kept, host, disk
    <3> QED BY <1>1, <2>3, <3>1, MoveKeepsIInv
  <2> QED
    BY <1>10, <2>2, <2>3 DEF StillRunning, PollAgain, GraceOver, Carefree
<1> QED
  BY <1>2, <1>3, <1>4, <1>5, <1>6, <1>7, <1>8, <1>9, <1>10 DEF StartStep

LEMMA StopStepKeepsIInv ==
  ASSUME IInv, TInv', NEW c \in Cli, StopStep(c)
  PROVE  IInv'
<1>1. pc[c] # "idle"
  BY DEF StopStep, Read, Kill, KillRefused, KillNotRun, Forget
<1>2. CASE Read(c)
  <2>1. \A p \in Pid : Kept(p) => pidFile = p
    BY <1>1, <1>2, FileNamesVm DEF Read
  <2>2. CASE Exit(c) /\ UNCHANGED disk
    BY <1>1, <2>1, <2>2, EndKeepsIInv DEF disk
  <2>3. CASE /\ seen' = [seen EXCEPT ![c] = pidFile]
             /\ Goto(c, "kill")
             /\ UNCHANGED <<host, disk, cmd, site, child>>
    <3>1. seen'[c] = pidFile'
      BY <2>3 DEF disk, IInv, TInv, TypeOK
    <3>2. \A p \in Pid : Kept(p)' => pidFile' = p
      BY <2>1, <2>3 DEF Unstopped, Kept, host, disk
    <3> QED BY <1>1, <2>3, <3>1, <3>2, KnowingKeepsIInv
  <2> QED BY <1>2, <2>2, <2>3 DEF Read
<1>3. CASE Kill(c) \/ KillRefused(c)
  <2>1. /\ Goto(c, "forget")
        /\ UNCHANGED <<proc, lost, pidFile>>
        /\ signalled \subseteq signalled'
        /\ seen[c] \in signalled' \/ proc[seen[c]] # "vm"
    BY <1>3 DEF Kill, KillRefused, host, disk
  <2>2. seen[c] = pidFile /\ \A p \in Pid : Kept(p) => pidFile = p
    BY <1>1, <1>3, FileNamesVm DEF Kill, KillRefused, IInv, ReadsCurrentPid
  <2>3. \A p \in Pid : Unstopped(p)' => Adrift(p)'
    BY <2>1, <2>2 DEF Unstopped, Kept, Adrift
  <2>4. \A p \in Pid : Kept(p)' => pidFile' = p
    BY <2>3 DEF Kept, Adrift
  <2> QED BY <1>1, <2>1, <2>3, <2>4, KnowingKeepsIInv
<1>4. CASE KillNotRun(c)
  BY <1>1, <1>4, FileNamesVm, EndKeepsIInv DEF KillNotRun, disk
<1>5. CASE Forget(c)
  BY <1>1, <1>5, EndKeepsIInv DEF Forget, IInv, NoVmLeft, Kept, Adrift
<1> QED BY <1>2, <1>3, <1>4, <1>5 DEF StopStep

LEMMA OtherStepKeepsIInv ==
  ASSUME IInv, TInv', "nops" \notin Faults,
         NEW c \in Cli, ProbeStep(c) \/ AutoconfigureStep(c)
  PROVE  IInv'
<1>1. pc[c] # "idle" /\ pc[c] \notin {"truncate", "record"}
  BY DEF ProbeStep, AutoconfigureStep, Look, Probe, Ps, PsNotRun, Check, Resolve,
         SearchAgain, SearchEnds
<1>2. \A p \in Pid : Kept(p) => pidFile = p
  BY <1>1, FileNamesVm
<1>3. CASE Exit(c) /\ UNCHANGED disk
  BY <1>1, <1>2, <1>3, EndKeepsIInv DEF disk
<1>4. CASE Goto(c, "probe") /\ UNCHANGED <<host, disk>>
  <2>1. \A p \in Pid : Kept(p)' => pidFile' = p
    BY <1>2, <1>4 DEF Unstopped, Kept, host, disk
  <2> QED BY <1>1, <1>4, <2>1, MoveKeepsIInv DEF Carefree
<1>5. CASE Look(c) \/ AutoconfigureStep(c)
  BY <1>3, <1>4, <1>5
  DEF Look, AutoconfigureStep, Check, Resolve, SearchAgain, SearchEnds, CallProbe
<1>6. CASE Probe(c)
  <2>1. CASE /\ seen' = [seen EXCEPT ![c] = pidFile]
             /\ Goto(c, "ps")
             /\ UNCHANGED <<host, disk, cmd, site, child>>
    <3>1. seen'[c] = pidFile'
      BY <2>1 DEF disk, IInv, TInv, TypeOK
    <3>2. \A p \in Pid : Kept(p)' => pidFile' = p
      BY <1>2, <2>1 DEF Unstopped, Kept, host, disk
    <3> QED BY <1>1, <2>1, <3>1, <3>2, KnowingKeepsIInv
  <2>2. CASE pidFile \notin Pid /\ Answer(c, IfDown[site[c]])
    <3>1. IfDown[site[c]] \in {"idle", "prepare"}
      BY Tables DEF IInv, TInv, TypeOK
    <3>2. \A p \in Pid : Unstopped(p) => Adrift(p)
      BY <1>2, <2>2 DEF Kept, Adrift
    <3> QED BY <1>6, <2>2, <3>1, <3>2, AnswerKeepsIInv DEF Probe
  <2> QED BY <1>6, <2>1, <2>2 DEF Probe
<1>7. CASE Ps(c)
  <2>1. /\ IfUp[site[c]] \in {"idle", "resolve", "search"}
        /\ IfDown[site[c]] \in {"idle", "prepare"}
    BY Tables DEF IInv, TInv, TypeOK
  <2>2. CASE LiveVfkit(seen[c])
    BY <1>7, <2>1, <2>2, AnswerKeepsIInv DEF Ps
  <2>3. CASE ~LiveVfkit(seen[c])
    <3>1. seen[c] = pidFile
      BY <1>7 DEF Ps, IInv, ReadsCurrentPid
    <3>2. \A p \in Pid : Unstopped(p) => Adrift(p)
      BY <1>2, <2>3, <3>1 DEF LiveVfkit, Unstopped, Kept, Adrift
    <3> QED BY <1>7, <2>1, <2>3, <3>2, AnswerKeepsIInv DEF Ps
  <2> QED BY <2>2, <2>3
<1> QED BY <1>5, <1>6, <1>7 DEF ProbeStep, PsNotRun

LEMMA EnvStepKeepsIInv ==
  ASSUME IInv, TInv', EnvStep
  PROVE  IInv'
<1>1. CASE Reboot
  BY <1>1 DEF Reboot, IInv, OneCommand, NeverRemoves, ReadsCurrentPid, NoVmLeft,
              OnlyItsVm, FileLinked, DirectoryKept, Tracked, Unstopped, Kept, Adrift,
                Unrecorded, Recording
<1>2. ASSUME NEW q \in Pid,
             OpenSocket(q) \/ VfkitExits(q) \/ StrangerStarts(q) \/ StrangerExits(q)
      PROVE  IInv'
  <2>1. UNCHANGED <<dir, pidFile, handle, pc, locals>>
    BY <1>2 DEF OpenSocket, VfkitExits, StrangerStarts, StrangerExits, disk
  <2>2. \A p \in Pid : Unstopped(p)' => Unstopped(p) /\ (p \in lost' <=> p \in lost)
    BY <1>2 DEF OpenSocket, VfkitExits, StrangerStarts, StrangerExits, Unstopped, host,
                IInv, TInv, TypeOK
  <2> QED
    BY <2>1, <2>2 DEF locals, IInv, OneCommand, NeverRemoves, ReadsCurrentPid, NoVmLeft,
                      OnlyItsVm, FileLinked, DirectoryKept, Tracked, Kept, Adrift,
                      Unrecorded, Recording
<1>3. ASSUME NEW c \in Cli, Crash(c)
      PROVE  IInv'
  <2>1. pc[c] # "idle" /\ Exit(c) /\ pidFile' = pidFile
    BY <1>3 DEF Crash
  <2>2. CASE Recording(c)
    BY <2>1, <2>2, EndKeepsIInv DEF IInv, OnlyItsVm, Kept, Adrift
  <2>3. CASE ~Recording(c)
    BY <2>1, <2>3, FileNamesVm, EndKeepsIInv DEF Recording
  <2> QED BY <2>2, <2>3
<1> QED BY <1>1, <1>2, <1>3 DEF EnvStep

(* IInv is inductive when the environment and the user are Guarded.         *)
LEMMA IInvInit == Init => IInv
BY TInvInit DEF Init, IInv, OneCommand, NeverRemoves, ReadsCurrentPid, NoVmLeft,
                OnlyItsVm, FileLinked, DirectoryKept, Tracked, Unstopped, Kept, Adrift,
                Unrecorded, Recording

LEMMA IInvNext == Guarded /\ IInv /\ [Next]_vars => IInv'
<1> SUFFICES ASSUME Guarded, IInv, [Next]_vars
             PROVE  IInv'
  OBVIOUS
<1>1. TInv'
  BY TInvNext DEF IInv
<1>2. ASSUME NEW c \in Cli, NEW command \in Commands, Issue(c, command)
      PROVE  IInv'
  <2>1. Entry[command] \in {"read", "look", "check"}
    BY ConstantsOK DEF Guarded, CommandNames, Entry
  <2>2. \A d \in Cli : pc[d] = "idle"
    BY <1>2 DEF Issue, Guarded
  <2>3. \A d \in Cli : pc'[d] = IF d = c THEN Entry[command] ELSE "idle"
    BY <1>2, <2>2 DEF Issue, Goto, IInv, TInv, TypeOK
  <2>4. UNCHANGED <<proc, signalled, lost, pidFile, child>>
    BY <1>2 DEF Issue, host, disk
  <2> QED
    BY <1>1, <2>1, <2>2, <2>3, <2>4
    DEF IInv, OneCommand, NeverRemoves, ReadsCurrentPid, NoVmLeft, OnlyItsVm,
        FileLinked, DirectoryKept, Tracked, Unstopped, Kept, Adrift,
                Unrecorded, Recording
<1>3. ASSUME NEW c \in Cli, CliStep(c)
      PROVE  IInv'
  <2>1. ~Remove(c)
    BY DEF Remove, IInv, NeverRemoves
  <2> QED
    BY <1>1, <1>3, <2>1, StartStepKeepsIInv, StopStepKeepsIInv, OtherStepKeepsIInv
    DEF CliStep, Guarded
<1>4. CASE EnvStep
  BY <1>1, <1>4, EnvStepKeepsIInv DEF Guarded
<1>5. CASE UNCHANGED vars
  BY <1>1, <1>5 DEF vars, host, disk, locals, IInv, OneCommand, NeverRemoves,
                    ReadsCurrentPid, NoVmLeft, OnlyItsVm, FileLinked, DirectoryKept,
                    Tracked, Unstopped, Kept, Adrift,
                Unrecorded, Recording
<1> QED BY <1>2, <1>3, <1>4, <1>5 DEF Next

LEMMA GuardedKeepsIInv == Guarded => (Spec => []IInv)
<1>1. Guarded => (Init /\ [][Next]_vars => []IInv)
  <2> SUFFICES ASSUME Guarded
               PROVE  Init /\ [][Next]_vars => []IInv
    OBVIOUS
  <2>1. IInv /\ [Next]_vars => IInv'
    BY IInvNext
  <2> QED BY IInvInit, <2>1, PTL
<1> QED BY <1>1 DEF Spec

(* A user who runs one command at a time and starts the VM through           *)
(* autoconfigure can always stop the VM, unless its start was killed before   *)
(* the pid was written: stale pid files, recycled pids, dead VMs, reboots and *)
(* commands killed anywhere else do not make the probe of main.rs lose a      *)
(* running VM.                                                                *)
THEOREM TrackedWhenGuarded == Guarded => (Spec => []Tracked)
<1>1. IInv => Tracked
  BY DEF IInv
<1> QED BY <1>1, GuardedKeepsIInv, PTL

LEMMA OneKept == IInv => AtMostOneVm
<1> SUFFICES ASSUME IInv, NEW p \in Pid, NEW q \in Pid, Kept(p), Kept(q)
             PROVE  p = q
  BY DEF AtMostOneVm
<1>1. CASE \E c \in Cli : Recording(c)
  BY <1>1 DEF IInv, OnlyItsVm, Kept, Adrift
<1>2. CASE ~\E c \in Cli : Recording(c)
  BY <1>2 DEF IInv, Tracked, Unrecorded
<1> QED BY <1>1, <1>2

(* The same user never has two unstopped VMs on the disks of the directory,   *)
(* unless one of them was lost in that way.                                   *)
THEOREM AtMostOneVmWhenGuarded == Guarded => (Spec => []AtMostOneVm)
BY OneKept, GuardedKeepsIInv, PTL

(* The same user's VM is never forgotten once its pid is written, not even a  *)
(* lost one that vfkit.pid happens to name.                                   *)
THEOREM NeverForgottenWhenGuarded == Guarded => (Spec => NeverForgotten)
<1> DEFINE Remembered ==
      \A p \in Pid : Unstopped(p) /\ pidFile = p /\ ~Unrecorded(p) /\ Unstopped(p)'
                       => pidFile' = p
<1>1. ASSUME IInv, Next
      PROVE  Remembered
  <2>1. ASSUME NEW c \in Cli, Truncate(c) \/ Record(c)
        PROVE  Remembered
    <3>1. Recording(c)
      BY <2>1 DEF Truncate, Record, Recording
    <3> QED BY <1>1, <3>1 DEF IInv, OnlyItsVm, Adrift, Unrecorded
  <2>2. ASSUME NEW c \in Cli, Forget(c)
        PROVE  Remembered
    BY <1>1, <2>2 DEF Forget, IInv, NoVmLeft, Adrift
  <2>3. ASSUME NEW c \in Cli, Remove(c)
        PROVE  Remembered
    BY <1>1, <2>3 DEF Remove, IInv, NeverRemoves
  <2>4. CASE UNCHANGED pidFile
    BY <2>4
  <2>5. ASSUME NEW c \in Cli, StartStep(c), ~Truncate(c), ~Record(c)
        PROVE  UNCHANGED pidFile
    BY <2>5 DEF StartStep, Prepare, PrepareFails, Spawn, InstallVfkit, SpawnFails,
                TruncateFails, EarlyExit, StillRunning, PollAgain, GraceOver, disk
  <2>6. ASSUME NEW c \in Cli, StopStep(c), ~Forget(c)
        PROVE  UNCHANGED pidFile
    BY <2>6 DEF StopStep, Read, Kill, KillRefused, KillNotRun, disk
  <2>7. ASSUME NEW c \in Cli, ProbeStep(c) \/ AutoconfigureStep(c)
        PROVE  UNCHANGED pidFile
    BY <2>7 DEF ProbeStep, AutoconfigureStep, Look, Probe, Ps, PsNotRun, Answer, Check,
                Resolve, SearchAgain, SearchEnds, disk
  <2>8. ASSUME EnvStep
        PROVE  UNCHANGED pidFile
    BY <2>8 DEF EnvStep, OpenSocket, VfkitExits, StrangerStarts, StrangerExits, Crash,
                Reboot, disk
  <2>9. ASSUME NEW c \in Cli, NEW command \in Commands, Issue(c, command)
        PROVE  UNCHANGED pidFile
    BY <2>9 DEF Issue, disk
  <2> QED
    BY <1>1, <2>1, <2>2, <2>3, <2>4, <2>5, <2>6, <2>7, <2>8, <2>9 DEF Next, CliStep
<1>2. IInv /\ [Next]_vars => [Remembered]_vars
  BY <1>1
<1> QED BY <1>2, GuardedKeepsIInv, PTL DEF Spec, NeverForgotten

(* While the VM of the same user runs, stop signals no other process.         *)
THEOREM StopSparesOthersWhenGuarded == Guarded => (Spec => StopSparesOthers)
<1> DEFINE Spared == \A p \in signalled' \ signalled : \A q \in Pid : Kept(q) => p = q
<1>1. ASSUME IInv, Next
      PROVE  Spared
  <2>1. ASSUME NEW c \in Cli, Kill(c)
        PROVE  Spared
    <3>1. signalled' = signalled \cup {seen[c]} /\ seen[c] = pidFile
      BY <1>1, <2>1 DEF Kill, IInv, ReadsCurrentPid
    <3>2. \A q \in Pid : Kept(q) => pidFile = q
      BY <1>1, <2>1, FileNamesVm DEF Kill
    <3> QED BY <3>1, <3>2
  <2>2. ASSUME NEW c \in Cli, Exit(c)
        PROVE  Spared
    BY <2>2 DEF Exit
  <2>3. CASE UNCHANGED signalled
    BY <2>3
  <2>4. ASSUME NEW c \in Cli, CliStep(c), ~Kill(c), ~Exit(c)
        PROVE  UNCHANGED signalled
    BY <2>4 DEF CliStep, StartStep, StopStep, ProbeStep, AutoconfigureStep, Prepare,
                PrepareFails, Spawn, InstallVfkit, SpawnFails, Truncate, TruncateFails,
                Record, EarlyExit, StillRunning, PollAgain, GraceOver, Read, KillRefused,
                KillNotRun, Forget, Look, Probe, Ps, PsNotRun, Answer, Check, Resolve,
                SearchAgain, SearchEnds, Remove, host
  <2>5. CASE EnvStep
    BY <2>2, <2>5 DEF EnvStep, OpenSocket, VfkitExits, StrangerStarts, StrangerExits,
                      Crash, Reboot, host
  <2>6. ASSUME NEW c \in Cli, NEW command \in Commands, Issue(c, command)
        PROVE  UNCHANGED signalled
    BY <2>6 DEF Issue, host
  <2> QED BY <1>1, <2>1, <2>2, <2>3, <2>4, <2>5, <2>6 DEF Next
<1>2. IInv /\ [Next]_vars => [Spared]_vars
  BY <1>1 DEF vars, host
<1> QED BY <1>2, GuardedKeepsIInv, PTL DEF Spec, StopSparesOthers

-----------------------------------------------------------------------------
(* The same user: the directory is a VmSlot.                               *)

AnyRecording == \E c \in Cli : Recording(c)

\* What the slot holds: the VM that is kept, known once nobody records it.
SlotIs ==
  /\ \A p \in Pid : Kept(p) => SlotVm = p /\ (SlotKnown <=> ~AnyRecording)
  /\ (\A p \in Pid : ~Kept(p)) => SlotVm = "none" /\ SlotKnown = FALSE

LEMMA SlotHolds == IInv => SlotIs
<1> SUFFICES ASSUME IInv
             PROVE  SlotIs
  OBVIOUS
<1>1. ASSUME NEW p \in Pid, Kept(p)
      PROVE  SlotVm = p /\ (SlotKnown <=> ~AnyRecording)
  <2>1. \A q \in Pid : Kept(q) => q = p
    BY <1>1, OneKept DEF AtMostOneVm
  <2>2. SlotVm = p
    BY <1>1, <2>1 DEF SlotVm
  <2>3. AnyRecording => Unrecorded(p)
    BY <1>1 DEF AnyRecording, IInv, OnlyItsVm, Kept, Adrift, Unrecorded
  <2>4. ~AnyRecording => ~Unrecorded(p) /\ pidFile = p
    BY <1>1 DEF AnyRecording, Unrecorded, IInv, Tracked
  <2> QED BY <1>1, <2>1, <2>2, <2>3, <2>4 DEF SlotKnown
<1>2. (\A p \in Pid : ~Kept(p)) => SlotVm = "none" /\ SlotKnown = FALSE
  BY DEF SlotVm, SlotKnown
<1> QED BY <1>1, <1>2 DEF SlotIs

LEMMA SlotHoldsNext == IInv' => SlotIs'
BY SlotHolds, PTL

(* A step after which no other VM is kept, and that begins or ends no write *)
(* for one that is, empties the slot or leaves it as it is.                 *)
LEMMA SlotStaysOrEnds ==
  ASSUME IInv, IInv', \A p \in Pid : Kept(p)' => Kept(p) /\ (AnyRecording' <=> AnyRecording)
  PROVE  Slot!End \/ UNCHANGED <<SlotVm, SlotKnown>>
<1>1. CASE \E p \in Pid : Kept(p)'
  <2>1. PICK p \in Pid : Kept(p)'
    BY <1>1
  <2>2. SlotVm = p /\ SlotVm' = p /\ (SlotKnown <=> ~AnyRecording)
        /\ (SlotKnown' <=> ~AnyRecording')
    BY <2>1, SlotHolds, SlotHoldsNext DEF SlotIs
  <2>3. SlotKnown \in BOOLEAN /\ SlotKnown' \in BOOLEAN
    BY DEF SlotKnown
  <2> QED BY <2>1, <2>2, <2>3
<1>2. CASE \A p \in Pid : ~Kept(p)'
  <2>1. SlotVm' = "none" /\ SlotKnown' = FALSE
    BY <1>2, SlotHoldsNext DEF SlotIs
  <2>2. CASE \E p \in Pid : Kept(p)
    <3>1. SlotVm # "none"
      BY <2>2, SlotHolds, ConstantsOK DEF SlotIs
    <3> QED BY <2>1, <3>1 DEF Slot!End
  <2>3. CASE \A p \in Pid : ~Kept(p)
    BY <2>1, <2>3, SlotHolds DEF SlotIs
  <2> QED BY <2>2, <2>3
<1> QED BY <1>1, <1>2

(* The steps that keep no other VM, and begin or end no write for one.      *)
Quietly == \A p \in Pid : Kept(p)' => Kept(p) /\ (AnyRecording' <=> AnyRecording)

LEMMA ExitIsQuiet ==
  ASSUME IInv, NEW c \in Cli, pc[c] # "idle", Exit(c)
  PROVE  Quietly
<1> SUFFICES ASSUME NEW p \in Pid, Kept(p)'
             PROVE  Kept(p) /\ (AnyRecording' <=> AnyRecording)
  BY DEF Quietly
<1>1. Kept(p) /\ ~(p = child[c] /\ Recording(c))
  BY ExitStartsNoVm DEF IInv, Kept
<1>2. ~Recording(c)
  BY <1>1 DEF IInv, OnlyItsVm, Kept, Adrift
<1>3. \A d \in Cli : pc'[d] = "idle"
  BY DEF IInv, TInv, TypeOK, OneCommand, Exit, Goto
<1> QED BY <1>1, <1>2, <1>3 DEF AnyRecording, Recording, IInv, OneCommand

LEMMA MoveIsQuiet ==
  ASSUME IInv, NEW c \in Cli, NEW to \in Label, Goto(c, to),
         Recording(c) <=> to \in {"truncate", "record"},
         UNCHANGED <<proc, lost>>, signalled \subseteq signalled'
  PROVE  Quietly
<1>1. \A d \in Cli : pc'[d] = IF d = c THEN to ELSE pc[d]
  BY DEF IInv, TInv, TypeOK, Goto
<1> QED BY <1>1 DEF Quietly, AnyRecording, Recording, Kept, Unstopped

LEMMA AnswerIsQuiet ==
  ASSUME IInv, NEW c \in Cli, pc[c] \in {"probe", "ps"},
         NEW to \in {"idle", "resolve", "search", "prepare"}, Answer(c, to)
  PROVE  Quietly
BY ExitIsQuiet, MoveIsQuiet DEF Answer, host, Label, Recording

LEMMA EnvStepIsQuiet ==
  ASSUME IInv, EnvStep
  PROVE  Quietly
<1>1. CASE Reboot
  BY <1>1 DEF Reboot, Quietly, Kept, Unstopped
<1>2. ASSUME NEW c \in Cli, Crash(c)
      PROVE  Quietly
  BY <1>2, ExitIsQuiet DEF Crash
<1>3. ASSUME NEW q \in Pid,
             OpenSocket(q) \/ VfkitExits(q) \/ StrangerStarts(q) \/ StrangerExits(q)
      PROVE  Quietly
  <2>1. UNCHANGED pc
    BY <1>3 DEF OpenSocket, VfkitExits, StrangerStarts, StrangerExits
  <2>2. \A p \in Pid : Kept(p)' => Kept(p)
    BY <1>3 DEF OpenSocket, VfkitExits, StrangerStarts, StrangerExits, Kept, Unstopped,
                host, IInv, TInv, TypeOK
  <2> QED BY <2>1, <2>2 DEF Quietly, AnyRecording, Recording
<1> QED BY <1>1, <1>2, <1>3 DEF EnvStep

LEMMA CliStepIsQuiet ==
  ASSUME IInv, NEW c \in Cli, CliStep(c), ~Spawn(c), ~Record(c)
  PROVE  Quietly
<1>1. CASE StartStep(c)
  <2>1. CASE Exit(c) /\ pc[c] # "idle"
    BY <2>1, ExitIsQuiet
  <2>2. CASE InstallVfkit(c)
    BY <2>2 DEF InstallVfkit, Quietly, Kept, Unstopped, AnyRecording, Recording
  <2>3. CASE Prepare(c) \/ Truncate(c)
    <3>1. UNCHANGED <<proc, lost, signalled>>
      BY <2>3 DEF Prepare, Truncate, host
    <3> QED BY <2>3, <3>1, MoveIsQuiet DEF Prepare, Truncate, Label, Recording
  <2>4. CASE /\ pc[c] \in {"poll", "deadline"}
             /\ \E to \in {"poll", "deadline", "resolve"} : Goto(c, to)
             /\ UNCHANGED host
    <3>1. UNCHANGED <<proc, lost, signalled>>
      BY <2>4 DEF host
    <3> QED BY <2>4, <3>1, MoveIsQuiet DEF Label, Recording
  <2> QED
    BY <1>1, <2>1, <2>2, <2>3, <2>4
    DEF StartStep, PrepareFails, SpawnFails, TruncateFails, EarlyExit, StillRunning,
        PollAgain, GraceOver
<1>2. CASE StopStep(c)
  <2>1. CASE Exit(c) /\ pc[c] # "idle"
    BY <2>1, ExitIsQuiet
  <2>2. CASE /\ pc[c] \in {"read", "kill"}
             /\ \E to \in {"kill", "forget"} : Goto(c, to)
             /\ UNCHANGED <<proc, lost>> /\ signalled \subseteq signalled'
    BY <2>2, MoveIsQuiet DEF Label, Recording
  <2> QED
    BY <1>2, <2>1, <2>2 DEF StopStep, Read, Kill, KillRefused, KillNotRun, Forget, host
<1>3. CASE ProbeStep(c) \/ AutoconfigureStep(c) \/ Remove(c)
  <2>1. CASE Exit(c) /\ pc[c] # "idle"
    BY <2>1, ExitIsQuiet
  <2>2. CASE /\ pc[c] \in {"look", "probe", "check", "resolve", "search"}
             /\ \E to \in {"probe", "ps"} : Goto(c, to)
             /\ UNCHANGED host
    <3>1. UNCHANGED <<proc, lost, signalled>>
      BY <2>2 DEF host
    <3> QED BY <2>2, <3>1, MoveIsQuiet DEF Label, Recording
  <2>3. ASSUME pc[c] \in {"probe", "ps"},
               Answer(c, IfUp[site[c]]) \/ Answer(c, IfDown[site[c]])
        PROVE  Quietly
    <3>1. /\ IfUp[site[c]] \in {"idle", "resolve", "search"}
          /\ IfDown[site[c]] \in {"idle", "prepare"}
      BY Tables DEF IInv, TInv, TypeOK
    <3> QED BY <2>3, <3>1, AnswerIsQuiet
  <2> QED
    BY <1>3, <2>1, <2>2, <2>3
    DEF ProbeStep, AutoconfigureStep, Remove, Look, Probe, Ps, PsNotRun, Check, Resolve,
        SearchAgain, SearchEnds, CallProbe
<1> QED BY <1>1, <1>2, <1>3 DEF CliStep

(* For a user who runs one command at a time and starts the VM through        *)
(* autoconfigure, the directory is a slot for one VM: another boots only when *)
(* it is empty, and a VM whose pid is on disk stays known until it ends,      *)
(* wherever commands are killed.                                              *)
THEOREM SlotImplemented == Guarded => (Spec => ImplementsSlot)
<1> SUFFICES ASSUME Guarded
             PROVE  Spec => ImplementsSlot
  OBVIOUS
<1>1. Init => Slot!Init
  <2> SUFFICES ASSUME Init
               PROVE  Slot!Init
    OBVIOUS
  <2>1. \A p \in Pid : ~Kept(p)
    BY DEF Init, Kept, Unstopped
  <2> QED BY <2>1, SlotHolds, IInvInit DEF SlotIs, Slot!Init
<1>2. IInv /\ [Next]_vars => [Slot!Next]_(Slot!vars)
  <2> SUFFICES ASSUME IInv, [Next]_vars
               PROVE  Slot!Next \/ UNCHANGED <<SlotVm, SlotKnown>>
    BY DEF Slot!vars
  <2>1. IInv'
    BY IInvNext
  <2>2. ASSUME Quietly
        PROVE  Slot!Next \/ UNCHANGED <<SlotVm, SlotKnown>>
    BY <2>1, <2>2, SlotStaysOrEnds DEF Quietly, Slot!Next
  <2>3. ASSUME NEW c \in Cli, Spawn(c)
        PROVE  Slot!Boot
    <3>1. PICK q \in Pid : proc[q] = "free" /\ proc' = [proc EXCEPT ![q] = "vm"]
      BY <2>3 DEF Spawn
    <3>2. UNCHANGED <<signalled, lost>> /\ pc'[c] = "truncate"
      BY <2>3 DEF Spawn, Goto, IInv, TInv, TypeOK
    <3>3. SlotVm = "none"
      BY <2>3, SlotHolds DEF Spawn, IInv, NoVmLeft, Kept, Adrift, SlotIs
    <3>4. Kept(q)'
      BY <3>1, <3>2 DEF Kept, Unstopped, IInv, TInv, TypeOK
    <3>5. AnyRecording'
      BY <3>2 DEF AnyRecording, Recording
    <3>6. SlotVm' = q /\ ~SlotKnown'
      BY <2>1, <3>4, <3>5, SlotHoldsNext DEF SlotIs
    <3> QED BY <3>3, <3>6 DEF Slot!Boot, SlotKnown
  <2>4. ASSUME NEW c \in Cli, Record(c)
        PROVE  Slot!Learn \/ UNCHANGED <<SlotVm, SlotKnown>>
    <3>1. UNCHANGED <<proc, signalled, lost>> /\ AnyRecording
      BY <2>4 DEF Record, host, AnyRecording, Recording
    <3>2. \A p \in Pid : Kept(p)' <=> Kept(p)
      BY <3>1 DEF Kept, Unstopped
    <3>3. ~AnyRecording'
      BY <2>4 DEF Record, Goto, IInv, TInv, TypeOK, OneCommand, AnyRecording, Recording
    <3>4. CASE \E p \in Pid : Kept(p)
      <4>1. PICK p \in Pid : Kept(p)
        BY <3>4
      <4>2. /\ SlotVm = p /\ SlotVm' = p
            /\ ~SlotKnown /\ SlotKnown'
        BY <2>1, <3>1, <3>2, <3>3, <4>1, SlotHolds, SlotHoldsNext DEF SlotIs
      <4>3. SlotKnown' = TRUE /\ SlotVm # "none"
        BY <4>1, <4>2, ConstantsOK DEF SlotKnown
      <4> QED BY <4>2, <4>3 DEF Slot!Learn
    <3>5. CASE \A p \in Pid : ~Kept(p)
      BY <2>1, <3>2, <3>5, SlotHolds, SlotHoldsNext DEF SlotIs
    <3> QED BY <3>4, <3>5
  <2>5. ASSUME NEW c \in Cli, CliStep(c)
        PROVE  Slot!Next \/ UNCHANGED <<SlotVm, SlotKnown>>
    BY <2>2, <2>3, <2>4, <2>5, CliStepIsQuiet DEF Slot!Next
  <2>6. CASE EnvStep
    BY <2>2, <2>6, EnvStepIsQuiet
  <2>7. ASSUME NEW c \in Cli, NEW command \in Commands, Issue(c, command)
        PROVE  Quietly
    <3>1. Entry[command] \in Label \ {"truncate", "record"}
      BY ConstantsOK DEF CommandNames, Entry, Label
    <3>2. Goto(c, Entry[command]) /\ ~Recording(c) /\ UNCHANGED <<proc, lost, signalled>>
      BY <2>7 DEF Issue, Recording, host
    <3> QED BY <3>1, <3>2, MoveIsQuiet
  <2>8. CASE UNCHANGED vars
    BY <2>2, <2>8 DEF vars, host, Quietly, Kept, Unstopped, AnyRecording, Recording
  <2> QED BY <2>2, <2>5, <2>6, <2>7, <2>8 DEF Next
<1> QED
  BY <1>1, <1>2, GuardedKeepsIInv, PTL DEF Spec, ImplementsSlot, Slot!Spec
=============================================================================
