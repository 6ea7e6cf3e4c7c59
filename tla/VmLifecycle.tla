---------------------------- MODULE VmLifecycle ----------------------------
(***************************************************************************)
(* The life of the vfkit process behind one malleus state directory:       *)
(* `start`, `stop`, `status`, `delete`, and the part of `autoconfigure`    *)
(* that probes the VM, starts it and polls it (src/src/main.rs).           *)
(*                                                                         *)
(* Several invocations of the command line may run at once.  They share    *)
(* nothing but the state directory (vfkit.pid above all) and the process   *)
(* table of the host.  Each action is one system call or one subprocess,   *)
(* so that invocations interleave, the VM dies, and an invocation is       *)
(* killed, at every point where they really can.                           *)
(*                                                                         *)
(* The artifacts `start` prepares before it spawns vfkit are one step      *)
(* here; Pki and Image open that step up.                                  *)
(***************************************************************************)
CONSTANTS
  Cli,       \* invocations of the malleus command line
  Pid,       \* process ids of the host; small, so that they are recycled
  Commands,  \* the commands the user issues
  Faults,    \* what the environment may do: see FaultNames
  Serial     \* TRUE: the user runs one command at a time

CommandNames == {"start", "stop", "status", "delete", "autoconfigure"}

\* "crash": an invocation is killed; "reboot": the host restarts; "strangers"
\* and "vfkits": programs and vfkit processes malleus did not start come, go and
\* recycle pids; "nokill" and "nops": the program cannot be run.
FaultNames == {"crash", "reboot", "strangers", "vfkits", "nokill", "nops"}

ASSUME ConstantsOK ==
  /\ Pid \cap {"none", "absent", "empty"} = {}
  /\ Commands \subseteq CommandNames
  /\ Faults \subseteq FaultNames
  /\ Serial \in BOOLEAN

VARIABLES
  proc,       \* process table: who holds each pid
  signalled,  \* pids that were sent SIGTERM and have not exited yet
  installed,  \* a vfkit binary is in PATH
  lost,       \* history: VMs whose start ended before it had written vfkit.pid
  dir,        \* the state directory exists
  files,      \* which of "pki" and "ready.sock" it holds
  pidFile,    \* vfkit.pid: "absent", "empty" (created, not yet written) or a pid
  handle,     \* invocations whose open handle on vfkit.pid is still linked
  pc,         \* control state of each invocation
  cmd,        \* the command it runs
  site,       \* where is_vm_running returns to
  seen,       \* pid it read from vfkit.pid last
  child       \* the vfkit it spawned and is still the parent of

host == <<proc, signalled, installed, lost>>
disk == <<dir, files, pidFile, handle>>
locals == <<cmd, site, seen, child>>
vars == <<host, disk, pc, locals>>

\* "vm" is a vfkit some `start` on this state directory spawned, "zombie" one
\* that exited and was not waited for, "vfkit" somebody else's vfkit.
Owner == {"free", "vm", "zombie", "vfkit", "program"}

Label == {"idle", "prepare", "spawn", "truncate", "record", "poll", "deadline",
          "read", "kill", "forget", "remove", "look", "check", "probe", "ps",
          "resolve", "search"}

\* Where is_vm_running is called from, and what follows each answer.
IfUp   == [status |-> "idle", ensure |-> "resolve", resolve |-> "search"]
IfDown == [status |-> "idle", ensure |-> "prepare", resolve |-> "idle"]

\* The first step of each command.
Entry == [start |-> "prepare", stop |-> "read", status |-> "look",
          delete |-> "remove", autoconfigure |-> "check"]

TypeOK ==
  /\ proc \in [Pid -> Owner]
  /\ signalled \subseteq {p \in Pid : proc[p] # "free"}
  /\ installed \in BOOLEAN
  /\ lost \subseteq {p \in Pid : proc[p] = "vm"}
  /\ dir \in BOOLEAN
  /\ files \subseteq {"pki", "ready.sock"}
  /\ pidFile \in Pid \cup {"absent", "empty"}
  /\ handle \subseteq Cli
  /\ pc \in [Cli -> Label]
  /\ cmd \in [Cli -> CommandNames \cup {"none"}]
  /\ site \in [Cli -> DOMAIN IfUp]
  /\ seen \in [Cli -> Pid \cup {"none"}]
  /\ child \in [Cli -> Pid \cup {"none"}]

\* No VM and no invocation; the state directory may hold what an earlier start
\* prepared before it failed to get vfkit running.
Init ==
  /\ proc = [p \in Pid |-> "free"]
  /\ signalled = {}
  /\ installed \in BOOLEAN
  /\ lost = {}
  /\ dir \in BOOLEAN
  /\ files \in IF dir THEN SUBSET {"pki"} ELSE {{}}
  /\ pidFile = "absent"
  /\ handle = {}
  /\ pc = [c \in Cli |-> "idle"]
  /\ cmd = [c \in Cli |-> "none"]
  /\ site = [c \in Cli |-> "status"]
  /\ seen = [c \in Cli |-> "none"]
  /\ child = [c \in Cli |-> "none"]

-----------------------------------------------------------------------------
(* Control flow of one invocation.                                         *)

Goto(c, to) == pc' = [pc EXCEPT ![c] = to]

\* Invocation c has spawned a VM and not written its pid yet.
Recording(c) == pc[c] \in {"truncate", "record"}

\* Invocation c's process ends, whatever the result: its locals are gone and
\* init adopts its child, reaping it if it is already a zombie.
ForgetLocals(c) ==
  /\ cmd' = [cmd EXCEPT ![c] = "none"]
  /\ site' = [site EXCEPT ![c] = "status"]
  /\ seen' = [seen EXCEPT ![c] = "none"]
  /\ child' = [child EXCEPT ![c] = "none"]

Exit(c) ==
  /\ Goto(c, "idle")
  /\ ForgetLocals(c)
  /\ proc' = [p \in Pid |-> IF p = child[c] /\ proc[p] = "zombie"
                            THEN "free" ELSE proc[p]]
  /\ signalled' = {p \in signalled : ~(p = child[c] /\ proc[p] = "zombie")}
  /\ lost' = {p \in Pid : proc[p] = "vm" /\ (p \in lost \/ (p = child[c] /\ Recording(c)))}
  /\ UNCHANGED installed

Issue(c, command) ==
  /\ pc[c] = "idle"
  /\ Serial => \A d \in Cli : pc[d] = "idle"
  /\ cmd' = [cmd EXCEPT ![c] = command]
  /\ Goto(c, Entry[command])
  /\ UNCHANGED <<host, disk, site, seen, child>>

-----------------------------------------------------------------------------
(* is_vm_running: read vfkit.pid, then ask ps about the pid.               *)

\* Mutant: kill -0 instead of ps.
LiveVfkit_KillZero(p) == proc[p] # "free"

\* describes_live_vfkit on the `ps -o stat=,comm=` line of p: a zombie and a
\* process that is not called vfkit are not a running VM.
LiveVfkit(p) == proc[p] \in {"vm", "vfkit"}

CallProbe(c, from) ==
  /\ site' = [site EXCEPT ![c] = from]
  /\ Goto(c, "probe")

\* The answer takes c to `to`; "idle" means that the command is over.
Answer(c, to) ==
  \/ /\ to = "idle"
     /\ Exit(c)
     /\ UNCHANGED disk
  \/ /\ to # "idle"
     /\ Goto(c, to)
     /\ UNCHANGED <<host, disk, locals>>

\* Mutant: what the file holds is not parsed.
Probe_Unparsed(c) ==
  /\ pc[c] = "probe"
  /\ seen' = [seen EXCEPT ![c] = pidFile]
  /\ Goto(c, "ps")
  /\ UNCHANGED <<host, disk, cmd, site, child>>

Probe(c) ==
  /\ pc[c] = "probe"
  /\ \/ /\ pidFile \in Pid
        /\ seen' = [seen EXCEPT ![c] = pidFile]
        /\ Goto(c, "ps")
        /\ UNCHANGED <<host, disk, cmd, site, child>>
     \/ /\ pidFile \notin Pid
        /\ Answer(c, IfDown[site[c]])

Ps(c) ==
  /\ pc[c] = "ps"
  /\ Answer(c, IF LiveVfkit(seen[c]) THEN IfUp[site[c]] ELSE IfDown[site[c]])

\* ps could not be run: the VM counts as stopped.
PsNotRun(c) ==
  /\ "nops" \in Faults
  /\ pc[c] = "ps"
  /\ Answer(c, IfDown[site[c]])

-----------------------------------------------------------------------------
(* start, also called by autoconfigure: cmd_start and start_vm.            *)

\* create_dir_all, configuration, images, PKI, cloud-init files, vfkit.args.
Prepare(c) ==
  /\ pc[c] = "prepare"
  /\ dir' = TRUE
  /\ files' = files \cup {"pki"}
  /\ Goto(c, "spawn")
  /\ UNCHANGED <<host, pidFile, handle, locals>>

\* One of them fails, before or after the PKI is on disk.
PrepareFails(c) ==
  /\ pc[c] = "prepare"
  /\ dir' = TRUE
  /\ files' \in {files, files \cup {"pki"}}
  /\ Exit(c)
  /\ UNCHANGED <<pidFile, handle>>

\* vfkit.log and vfkit.err are created first, hence the directory is needed.
Spawn(c) ==
  /\ pc[c] = "spawn"
  /\ dir /\ installed
  /\ \E p \in Pid :
       /\ proc[p] = "free"
       /\ proc' = [proc EXCEPT ![p] = "vm"]
       /\ child' = [child EXCEPT ![c] = p]
  /\ Goto(c, "truncate")
  /\ UNCHANGED <<signalled, installed, lost, disk, cmd, site, seen>>

\* vfkit is missing, the user accepts `brew install vfkit`, and the loop tries
\* again: brew may succeed without putting vfkit in PATH.
InstallVfkit(c) ==
  /\ pc[c] = "spawn"
  /\ dir /\ ~installed
  /\ installed' \in BOOLEAN
  /\ UNCHANGED <<proc, signalled, lost, disk, pc, locals>>

\* The log files cannot be created, vfkit cannot be run, or the user declines.
SpawnFails(c) ==
  /\ pc[c] = "spawn"
  /\ Exit(c)
  /\ UNCHANGED disk

\* fs::write(vfkit.pid) opens and truncates, and then writes.
Truncate(c) ==
  /\ pc[c] = "truncate"
  /\ dir
  /\ pidFile' = "empty"
  /\ handle' = handle \cup {c}
  /\ Goto(c, "record")
  /\ UNCHANGED <<host, dir, files, locals>>

TruncateFails(c) ==
  /\ pc[c] = "truncate"
  /\ ~dir
  /\ Exit(c)
  /\ UNCHANGED disk

\* The pid lands in vfkit.pid unless the opened file was unlinked meanwhile.
Record(c) ==
  /\ pc[c] = "record"
  /\ pidFile' = IF c \in handle THEN child[c] ELSE pidFile
  /\ handle' = handle \ {c}
  /\ Goto(c, "poll")
  /\ UNCHANGED <<host, dir, files, locals>>

\* wait_for_early_exit: try_wait reaps an exited child and start fails ...
EarlyExit(c) ==
  /\ pc[c] = "poll"
  /\ proc[child[c]] = "zombie"
  /\ Exit(c)
  /\ UNCHANGED disk

StillRunning(c) ==
  /\ pc[c] = "poll"
  /\ proc[child[c]] # "zombie"
  /\ Goto(c, "deadline")
  /\ UNCHANGED <<host, disk, locals>>

\* ... while before the deadline the loop sleeps and polls again ...
PollAgain(c) ==
  /\ pc[c] = "deadline"
  /\ Goto(c, "poll")
  /\ UNCHANGED <<host, disk, locals>>

\* ... and after it the VM is presumed to be booting: `start` succeeds,
\* autoconfigure goes on to look for its address.
GraceOver(c) ==
  /\ pc[c] = "deadline"
  /\ \/ /\ cmd[c] = "start"
        /\ Exit(c)
        /\ UNCHANGED disk
     \/ /\ cmd[c] = "autoconfigure"
        /\ Goto(c, "resolve")
        /\ UNCHANGED <<host, disk, locals>>

-----------------------------------------------------------------------------
(* stop: cmd_stop.                                                         *)

Read(c) ==
  /\ pc[c] = "read"
  /\ \/ /\ pidFile \in Pid
        /\ seen' = [seen EXCEPT ![c] = pidFile]
        /\ Goto(c, "kill")
        /\ UNCHANGED <<host, disk, cmd, site, child>>
     \/ /\ pidFile \notin Pid    \* no file: nothing to do; empty file: an error
        /\ Exit(c)
        /\ UNCHANGED disk

\* Mutant: kill -0, which sends no signal.
Kill_NoSignal(c) ==
  /\ pc[c] = "kill"
  /\ Goto(c, "forget")
  /\ UNCHANGED <<host, disk, locals>>

\* SIGTERM to whoever holds the pid now.
Kill(c) ==
  /\ pc[c] = "kill"
  /\ proc[seen[c]] # "free"
  /\ signalled' = signalled \cup {seen[c]}
  /\ Goto(c, "forget")
  /\ UNCHANGED <<proc, installed, lost, disk, locals>>

\* kill exits non-zero: nobody has the pid, or it belongs to another user.
KillRefused(c) ==
  /\ pc[c] = "kill"
  /\ proc[seen[c]] \notin {"vm", "zombie"}
  /\ Goto(c, "forget")
  /\ UNCHANGED <<host, disk, locals>>

\* Mutant: the files are removed whether or not kill was run.
KillNotRun_Forgets(c) ==
  /\ "nokill" \in Faults
  /\ pc[c] = "kill"
  /\ Goto(c, "forget")
  /\ UNCHANGED <<host, disk, locals>>

\* kill could not be run at all: stop ends, reporting no error.
KillNotRun(c) ==
  /\ "nokill" \in Faults
  /\ pc[c] = "kill"
  /\ Exit(c)
  /\ UNCHANGED disk

Forget(c) ==
  /\ pc[c] = "forget"
  /\ pidFile' = "absent"
  /\ handle' = {}
  /\ files' = files \ {"ready.sock"}
  /\ Exit(c)
  /\ UNCHANGED dir

-----------------------------------------------------------------------------
(* status, delete and autoconfigure.                                       *)

\* cmd_status reads the pid that it prints with the answer of the probe, which
\* reads the file again; what is printed is left out.  Without a pid, or with an invalid config.toml, there is no probe.
Look(c) ==
  /\ pc[c] = "look"
  /\ \/ /\ pidFile \in Pid
        /\ CallProbe(c, "status")
        /\ UNCHANGED <<host, disk, cmd, seen, child>>
     \/ /\ Exit(c)
        /\ UNCHANGED disk

\* cmd_delete: remove_dir_all, with no regard for a running VM.
Remove(c) ==
  /\ pc[c] = "remove"
  /\ dir' = FALSE
  /\ files' = {}
  /\ pidFile' = "absent"
  /\ handle' = {}
  /\ Exit(c)

\* Mutant: autoconfigure starts the VM without a probe.
Check_Unprobed(c) ==
  /\ pc[c] = "check"
  /\ \/ /\ "pki" \in files
        /\ Goto(c, "prepare")
        /\ UNCHANGED <<host, disk, locals>>
     \/ /\ Exit(c)
        /\ UNCHANGED disk

\* cmd_autoconfigure_with_runner copies the client PKI before it looks at the
\* VM; a missing PKI, a bad remote name or a failed copy ends it.
Check(c) ==
  /\ pc[c] = "check"
  /\ \/ /\ "pki" \in files
        /\ CallProbe(c, "ensure")
        /\ UNCHANGED <<host, disk, cmd, seen, child>>
     \/ /\ Exit(c)
        /\ UNCHANGED disk

\* resolve_vm_ip: an explicit --vm-ip is taken as it is, otherwise each round
\* of the loop starts with a probe of the VM ...
Resolve(c) ==
  /\ pc[c] = "resolve"
  /\ \/ /\ CallProbe(c, "resolve")
        /\ UNCHANGED <<host, disk, cmd, seen, child>>
     \/ /\ Exit(c)
        /\ UNCHANGED disk

\* ... and ends with an address, the timeout, or another round.
SearchAgain(c) ==
  /\ pc[c] = "search"
  /\ CallProbe(c, "resolve")
  /\ UNCHANGED <<host, disk, cmd, seen, child>>

SearchEnds(c) ==
  /\ pc[c] = "search"
  /\ Exit(c)
  /\ UNCHANGED disk

-----------------------------------------------------------------------------
(* The environment.                                                        *)

\* vfkit opens the readiness socket in the state directory.
OpenSocket(p) ==
  /\ proc[p] = "vm" /\ dir
  /\ files' = files \cup {"ready.sock"}
  /\ UNCHANGED <<host, dir, pidFile, handle, pc, locals>>

\* vfkit exits, by itself or on SIGTERM; it stays a zombie as long as the
\* invocation that spawned it is alive and has not waited for it.
VfkitExits(p) ==
  /\ proc[p] = "vm"
  /\ proc' = [proc EXCEPT ![p] = IF \E c \in Cli : child[c] = p
                                 THEN "zombie" ELSE "free"]
  /\ signalled' = signalled \ {p}
  /\ lost' = lost \ {p}
  /\ UNCHANGED <<installed, disk, pc, locals>>

StrangerStarts(p) ==
  /\ proc[p] = "free"
  /\ \/ /\ "strangers" \in Faults
        /\ proc' = [proc EXCEPT ![p] = "program"]
     \/ /\ "vfkits" \in Faults
        /\ proc' = [proc EXCEPT ![p] = "vfkit"]
  /\ UNCHANGED <<signalled, installed, lost, disk, pc, locals>>

StrangerExits(p) ==
  /\ proc[p] \in {"vfkit", "program"}
  /\ proc' = [proc EXCEPT ![p] = "free"]
  /\ signalled' = signalled \ {p}
  /\ UNCHANGED <<installed, lost, disk, pc, locals>>

\* An invocation is killed between two of its steps, or stopped by an i/o error.
Crash(c) ==
  /\ "crash" \in Faults
  /\ pc[c] # "idle"
  /\ Exit(c)
  /\ handle' = handle \ {c}
  /\ UNCHANGED <<dir, files, pidFile>>

\* The host restarts: no process survives, the state directory does.
Reboot ==
  /\ "reboot" \in Faults
  /\ proc' = [p \in Pid |-> "free"]
  /\ signalled' = {}
  /\ lost' = {}
  /\ handle' = {}
  /\ pc' = [c \in Cli |-> "idle"]
  /\ cmd' = [c \in Cli |-> "none"]
  /\ site' = [c \in Cli |-> "status"]
  /\ seen' = [c \in Cli |-> "none"]
  /\ child' = [c \in Cli |-> "none"]
  /\ UNCHANGED <<installed, dir, files, pidFile>>

-----------------------------------------------------------------------------

StartStep(c) ==
  \/ Prepare(c) \/ PrepareFails(c)
  \/ Spawn(c) \/ InstallVfkit(c) \/ SpawnFails(c)
  \/ Truncate(c) \/ TruncateFails(c) \/ Record(c)
  \/ EarlyExit(c) \/ StillRunning(c) \/ PollAgain(c) \/ GraceOver(c)

StopStep(c) ==
  Read(c) \/ Kill(c) \/ KillRefused(c) \/ KillNotRun(c) \/ Forget(c)

ProbeStep(c) == Look(c) \/ Probe(c) \/ Ps(c) \/ PsNotRun(c)

AutoconfigureStep(c) ==
  Check(c) \/ Resolve(c) \/ SearchAgain(c) \/ SearchEnds(c)

CliStep(c) ==
  \/ StartStep(c) \/ StopStep(c) \/ ProbeStep(c)
  \/ AutoconfigureStep(c) \/ Remove(c)

EnvStep ==
  \/ \E p \in Pid : OpenSocket(p) \/ VfkitExits(p)
                    \/ StrangerStarts(p) \/ StrangerExits(p)
  \/ \E c \in Cli : Crash(c)
  \/ Reboot

Next ==
  \/ \E c \in Cli, command \in Commands : Issue(c, command)
  \/ \E c \in Cli : CliStep(c)
  \/ EnvStep

Spec == Init /\ [][Next]_vars

\* Every invocation keeps running, the grace period of start_vm ends although
\* the loop goes round, and vfkit obeys SIGTERM.  Nothing makes a VM exit by
\* itself, and nothing makes the discovery loop end.
Fairness ==
  /\ \A c \in Cli : WF_vars(CliStep(c)) /\ SF_vars(GraceOver(c))
  /\ \A p \in Pid : WF_vars(p \in signalled /\ VfkitExits(p))

FairSpec == Spec /\ Fairness

-----------------------------------------------------------------------------
(* Properties.                                                             *)

\* A VM nobody asked to stop.
Unstopped(p) == proc[p] = "vm" /\ p \notin signalled

\* One whose start was not killed before it had written vfkit.pid.
Kept(p) == Unstopped(p) /\ p \notin lost

\* The start that spawned p has not written its pid yet.
Unrecorded(p) == \E c \in Cli : child[c] = p /\ Recording(c)

\* Every unstopped VM can still be stopped: vfkit.pid names it, or the start
\* that spawned it is about to write the file.  This is what the probe in
\* autoconfigure protects when commands do not overlap, although the pid file
\* goes stale, pids are recycled, VMs die, commands are killed and the host
\* reboots in between.  The one way to lose a VM is to kill its start between
\* the spawn and the end of the write.
Tracked == \A p \in Pid : Kept(p) => pidFile = p \/ Unrecorded(p)

\* No two unstopped VMs run on the disks of one state directory, unless one of
\* them was lost like that.
AtMostOneVm == \A p, q \in Pid : Kept(p) /\ Kept(q) => p = q

\* A pid that a start has written is never dropped while its VM runs and was not
\* told to stop: wherever commands are killed, no later start, stop or probe
\* makes vfkit.pid name another process, or none.
NeverForgotten ==
  [][\A p \in Pid : Unstopped(p) /\ pidFile = p /\ ~Unrecorded(p) /\ Unstopped(p)'
                     => pidFile' = p]_vars

\* The running VM as a slot: which one it is, and whether its pid is on disk.
SlotVm == IF \E p \in Pid : Kept(p) THEN CHOOSE p \in Pid : Kept(p) ELSE "none"

SlotKnown == \E p \in Pid : Kept(p) /\ pidFile = p /\ ~Unrecorded(p)

Slot == INSTANCE VmSlot WITH vm <- SlotVm, known <- SlotKnown

\* One VM boots at a time, becomes known, and stays known until it is told to
\* stop or dies: the directory is a VmSlot, although that takes a pid file that
\* goes stale, a process table that is read without a lock, and a write in two
\* steps, any of which may be the last of its command.
ImplementsSlot == Slot!Spec

\* Invocation c is in the loop of resolve_vm_ip.
Discovering(c) == site[c] = "resolve" /\ pc[c] \in {"probe", "ps", "search"}

NoVfkit == \A p \in Pid : proc[p] \notin {"vm", "vfkit"}

\* The address discovery of autoconfigure notices that the VM died and ends,
\* without waiting for its timeout, even when it is the parent of the dead
\* vfkit and keeps it a zombie.
DeadVmEndsDiscovery ==
  \A c \in Cli :
    (Discovering(c) /\ NoVfkit) ~> (~Discovering(c) \/ ~NoVfkit)

\* A stop that finds the VM in vfkit.pid ends that VM, or leaves the file as it
\* is for another stop: it never forgets a VM that goes on running.
StopEndsVm ==
  \A c \in Cli : \A p \in Pid :
    (pc[c] = "read" /\ pidFile = p /\ proc[p] = "vm")
      ~> (proc[p] # "vm" \/ (pc[c] = "idle" /\ pidFile = p))

\* stop does not wait for the VM, so that the next autoconfigure may boot another
\* one from disks that are still in use; two VMs never share them for good,
\* unless one of them was lost by a start that was killed.
SharedDisksEnd ==
  \A p, q \in Pid :
    (p # q /\ \A r \in {p, q} : proc[r] = "vm" /\ r \notin lost)
      ~> (proc[p] # "vm" \/ proc[q] # "vm")

\* "Stop the managed VM": SIGTERM reaches no process but a VM of this state
\* directory.
StopSignalsOnlyTheVm ==
  [][\A p \in signalled' \ signalled : proc[p] \in {"vm", "zombie"}]_vars

\* While a VM is kept, stop signals that VM: a stale vfkit.pid, or one that a
\* killed command left behind, costs another process its life only when there is
\* no VM to stop.
StopSparesOthers ==
  [][\A p \in signalled' \ signalled : \A q \in Pid : Kept(q) => p = q]_vars
=============================================================================
