------------------------------- MODULE Remote -------------------------------
(***************************************************************************)
(* How `malleus autoconfigure` points the host's incus client at the VM    *)
(* (cmd_autoconfigure_with_runner of src/src/main.rs), composed with the   *)
(* keys of Pki: both ends of the connection come from one PKI directory,   *)
(* but each is copied out of it at a time of its own, into the guest at    *)
(* its first boot and into the incus client by every autoconfigure, and    *)
(* the client's configuration outlives the directory.                      *)
(*                                                                         *)
(* Commands run one at a time (Serial of Pki), and delete only while the   *)
(* VM is down; VmLifecycle overlaps them.  start does not look at the VM:  *)
(* given on a running one, it spawns a second vfkit on the same disks.     *)
(* Discovery opens resolve_vm_ip up: here it answers any address, or fails.*)
(***************************************************************************)
EXTENDS Pki

CONSTANT Address  \* IPv4 addresses

ASSUME RemoteConstantsOK == "none" \notin Address /\ "old" \notin Gen

VARIABLES
  up,       \* vfkit runs
  stray,    \* history: since it does, a start was given on the running VM, so
            \* that two run, or did, or was killed before it wrote vfkit.pid
  net,      \* the address the guest has, or had last; of two guests, the last
  guest,    \* the keys the root disk was set up with; Nothing on a blank disk
  ready,    \* Incus is set up on the root disk: it serves, and trusts client.crt
  conf,     \* client.crt and client.key in the incus configuration
  remote,   \* the incus remote: its URL and the server certificate pinned with it
  current,  \* it is the client's default
  wpc,      \* control state of the running autoconfigure
  target,   \* the address it resolved
  ok,       \* the last autoconfigure ended without an error
  moved     \* history: since the remote was added, the VM got another address,
            \* a second one was started beside it, or its directory was deleted

machine == <<up, stray, net, guest, ready>>
client == <<conf, remote, current>>
rvars == <<vars, machine, client, wpc, target, ok, moved>>

Absent == [url |-> "none", pin |-> "absent"]

\* A key that outlived its directory; which run made it does not matter any more.
Kept == Content \cup {"old"}
Aged(c) == IF c \in Gen THEN "old" ELSE c

RemoteTypeOK ==
  /\ up \in BOOLEAN
  /\ stray \in BOOLEAN
  /\ net \in Address \cup {"none"}
  /\ guest \in [Slot -> Content]
  /\ ready \in BOOLEAN
  /\ conf \in [crt : Kept, key : Kept]
  /\ remote \in [url : Address \cup {"none"}, pin : Kept]
  /\ current \in BOOLEAN
  /\ wpc \in {"idle", "crt", "fill_crt", "key", "fill_key", "probe",
              "start", "started", "resolve", "list", "add", "switch"}
  /\ target \in Address \cup {"none"}
  /\ ok \in BOOLEAN
  /\ moved \in BOOLEAN
  /\ wpc \in {"crt", "fill_crt", "key", "fill_key"} =>
       file[1] # "absent" /\ file[2] # "absent"

RemoteInit ==
  /\ Init
  /\ up = FALSE /\ stray = FALSE /\ net = "none" /\ guest = Nothing /\ ready = FALSE
  /\ conf = [crt |-> "absent", key |-> "absent"]
  /\ remote = Absent /\ current = FALSE
  /\ wpc = "idle" /\ target = "none" /\ ok = FALSE
  /\ moved = FALSE

Quiet == wpc = "idle" /\ \A p \in Proc : pc[p] = "idle"

-----------------------------------------------------------------------------
(* The host and the guest.                                                 *)

\* The script of the first boot: the preseed, and the trust in client.crt.
SetUp ==
  /\ up /\ ~ready
  /\ \A s \in Slot : guest[s] \in Gen
  /\ ready' = TRUE
  /\ UNCHANGED <<vars, up, stray, net, guest, client, wpc, target, ok, moved>>

\* stop, a crash of vfkit, or a reboot of the host: the last vfkit has ended.
Die ==
  /\ up
  /\ up' = FALSE /\ stray' = FALSE
  /\ UNCHANGED <<vars, net, guest, ready, client, wpc, target, ok, moved>>

\* cmd_delete takes the disks and the keys, and knows nothing of the client.
DeleteAll ==
  /\ Quiet /\ ~up
  /\ Delete
  /\ net' = "none" /\ guest' = Nothing /\ ready' = FALSE
  /\ conf' = [crt |-> Aged(conf.crt), key |-> Aged(conf.key)]
  /\ remote' = [remote EXCEPT !.pin = Aged(@)]
  /\ moved' = (remote # Absent)
  /\ UNCHANGED <<up, stray, current, wpc, target, ok>>

\* The user runs `incus remote remove`.
RemoveRemote ==
  /\ Quiet
  /\ remote # Absent
  /\ remote' = Absent /\ current' = FALSE
  /\ ok' = FALSE
  /\ moved' = FALSE
  /\ UNCHANGED <<vars, machine, conf, wpc, target>>

-----------------------------------------------------------------------------
(* start, by itself or inside autoconfigure.                               *)

StartCall(p) ==
  /\ wpc \in {"idle", "start"}
  /\ Call(p)
  /\ wpc' = IF wpc = "start" THEN "started" ELSE "idle"
  /\ UNCHANGED <<machine, client, target, ok, moved>>

StartStep(p) ==
  /\ Exists(p) \/ Missing(p) \/ Complete(p) \/ Read(p) \/ Generate(p) \/ Open(p) \/ Fill(p)
  /\ UNCHANGED <<machine, client, wpc, target, ok, moved>>

\* cloud-init writes the keys of user-data to a blank disk, and may do so again
\* on a disk it has set up before.
WriteFiles(keys) == guest' \in {keys} \cup ({guest} \ {Nothing})

\* With the keys start renders user-data and spawns vfkit, whether one runs
\* already or not.  The guest gets an address by DHCP.
Spawn(p) ==
  /\ Return(p)
  /\ up' = TRUE
  /\ net' \in Address
  /\ WriteFiles(held[p])
  /\ moved' = (moved \/ (remote # Absent /\ (up \/ net' # net)))
  /\ UNCHANGED ready

Started(p) ==
  /\ Spawn(p)
  /\ stray' = up
  /\ wpc' = IF wpc = "started" THEN "resolve" ELSE "idle"
  /\ UNCHANGED <<client, target, ok>>

\* load_or_create fails; or nothing is spawned, or a vfkit that exits at once and
\* whose pid takes the place of that of a running VM; or the command is killed,
\* at the latest between the spawn and the write of vfkit.pid.
StartFails(p) ==
  /\ \/ (Incomplete(p) \/ Interrupt(p)) /\ UNCHANGED <<machine, moved>>
     \/ Return(p) /\ stray' \in {stray, up} /\ UNCHANGED <<up, net, guest, ready, moved>>
     \/ "interrupt" \in Faults /\ Spawn(p) /\ stray' = TRUE
  /\ wpc' = "idle"
  /\ UNCHANGED <<client, target, ok>>

Start == \E p \in Proc : StartCall(p) \/ StartStep(p) \/ Started(p)

-----------------------------------------------------------------------------
(* autoconfigure.                                                          *)

ToState(to) ==
  /\ wpc' = to
  /\ UNCHANGED <<vars, machine, remote, current, ok, moved>>

\* Mutant: nothing is looked for before the copies.
Autoconfigure_Unchecked ==
  /\ Quiet
  /\ wpc' = "crt"
  /\ target' = "none" /\ ok' = FALSE
  /\ UNCHANGED <<vars, machine, client, moved>>

\* Of the four files only the client's two are looked for.
Autoconfigure ==
  /\ Quiet
  /\ wpc' = IF file[1] # "absent" /\ file[2] # "absent" THEN "crt" ELSE "idle"
  /\ target' = "none" /\ ok' = FALSE
  /\ UNCHANGED <<vars, machine, client, moved>>

\* fs::copy of client.crt creates or truncates the client's file ...
OpenCert ==
  /\ wpc = "crt"
  /\ conf' = [conf EXCEPT !.crt = "empty"]
  /\ ToState("fill_crt")
  /\ UNCHANGED target

\* ... and fills it; then client.key in the same way.
CopyCert ==
  /\ wpc = "fill_crt"
  /\ conf' = [conf EXCEPT !.crt = file[1]]
  /\ ToState("key")
  /\ UNCHANGED target

\* Mutant: the key is copied only when there is none yet.
OpenKey_Once ==
  /\ wpc = "key"
  /\ IF conf.key = "absent"
     THEN conf' = [conf EXCEPT !.key = "empty"] /\ ToState("fill_key")
     ELSE UNCHANGED conf /\ ToState("probe")
  /\ UNCHANGED target

OpenKey ==
  /\ wpc = "key"
  /\ conf' = [conf EXCEPT !.key = "empty"]
  /\ ToState("fill_key")
  /\ UNCHANGED target

CopyKey ==
  /\ wpc = "fill_key"
  /\ conf' = [conf EXCEPT !.key = file[2]]
  /\ ToState("probe")
  /\ UNCHANGED target

\* While two vfkits run, or one that vfkit.pid does not name, the probe may
\* answer either way.
ProbeVm ==
  /\ wpc = "probe"
  /\ \/ up /\ ToState("resolve")
     \/ (~up \/ stray) /\ ToState("start")
  /\ UNCHANGED <<conf, target>>

Resolve ==
  /\ wpc = "resolve"
  /\ target' \in Address
  /\ ToState("list")
  /\ UNCHANGED conf

\* Mutant: any line of the list, a header included, counts as the remote.
List_AnyLine ==
  /\ wpc = "list"
  /\ ToState("switch")
  /\ UNCHANGED <<conf, target>>

\* remote_exists looks at the name of a remote only.
List ==
  /\ wpc = "list"
  /\ ToState(IF remote = Absent THEN "add" ELSE "switch")
  /\ UNCHANGED <<conf, target>>

\* incus remote add answers no prompt, and so succeeds only where the guest
\* serves and trusts the client; the certificate shown is pinned as it is.
Reachable ==
  /\ up /\ ready /\ (target = net \/ stray)
  /\ conf = [crt |-> guest[1], key |-> guest[2]]

Add ==
  /\ wpc = "add"
  /\ IF Reachable
     THEN /\ remote' = [url |-> target, pin |-> guest[3]]
          /\ moved' = stray
          /\ wpc' = "switch"
     ELSE wpc' = "idle" /\ UNCHANGED <<remote, moved>>
  /\ UNCHANGED <<vars, machine, conf, current, target, ok>>

\* incus remote switch fails when there is no such remote.
Switch ==
  /\ wpc = "switch"
  /\ IF remote # Absent THEN current' = TRUE /\ ok' = TRUE ELSE UNCHANGED <<current, ok>>
  /\ wpc' = "idle"
  /\ UNCHANGED <<vars, machine, conf, remote, target, moved>>

\* A step fails for reasons of its own (a full disk, no address found in time,
\* incus that cannot be run), or the command is killed.
Fail ==
  /\ wpc \notin {"idle", "started"}
  /\ ToState("idle")
  /\ UNCHANGED <<conf, target>>

Wire ==
  \/ OpenCert \/ CopyCert \/ OpenKey \/ CopyKey
  \/ ProbeVm \/ Resolve \/ List \/ Add \/ Switch

-----------------------------------------------------------------------------

RemoteNext ==
  \/ Autoconfigure \/ Wire \/ Fail
  \/ Start \/ \E p \in Proc : StartFails(p)
  \/ SetUp \/ Die \/ DeleteAll \/ RemoveRemote

RemoteSpec == RemoteInit /\ [][RemoteNext]_rvars

\* A command goes on until it ends.
RemoteFairSpec ==
  /\ RemoteSpec
  /\ WF_rvars(Wire)
  /\ WF_rvars(\E p \in Proc : (wpc = "start" /\ StartCall(p)) \/ StartStep(p) \/ Started(p))

-----------------------------------------------------------------------------
(* Properties.                                                             *)

\* When incus is called, both client files are copies of the keys that the
\* guest was set up with, however many starts and autoconfigures were cut short
\* between two copies or two keys: the certificate is copied before the start
\* that renders it into the guest.
GuestTrustsClient ==
  wpc \in {"list", "add", "switch"} =>
    /\ guest # Nothing
    /\ conf = [crt |-> guest[1], key |-> guest[2]]

\* The remote leads to the running VM: its address, its certificate, and a
\* client that it trusts.
LeadsToVm ==
  /\ remote = [url |-> net, pin |-> guest[3]]
  /\ conf = [crt |-> guest[1], key |-> guest[2]]

\* Once added, the remote has the VM's address and its certificate until that
\* moves, is deleted, or another is started beside it: no start of a VM that is
\* down and no repeated autoconfigure spoils that.  One that is broken off may
\* leave a client file empty, but never one of keys that the VM does not trust.
WiredUntilMoved ==
  remote # Absent /\ ~moved =>
    /\ remote = [url |-> net, pin |-> guest[3]]
    /\ conf.crt \in {guest[1], "empty"} /\ conf.key \in {guest[2], "empty"}

\* When autoconfigure ends without an error, the remote it names is the
\* client's default and, unless the VM moved away from an older one or another
\* runs beside it, leads to the VM: a rerun that only switches is as good as one that adds.
SuccessMeansWired ==
  ok => /\ remote # Absent /\ current
        /\ ~moved => LeadsToVm

\* When nothing goes wrong any more, and discovery has settled on the guest's
\* address, a user who repeats autoconfigure ends up with a remote that leads
\* to the VM whenever no autoconfigure is at work, whatever earlier failures left
\* in the client, unless they left a remote to a VM that has moved.
Heals ==
  /\ <>[][Autoconfigure \/ Wire \/ Start]_rvars /\ []<>(wpc # "idle")
  /\ <>[](ready /\ ~moved /\ target \in {"none", net})
  => <>[](current /\ (wpc = "idle" => LeadsToVm))

\* "remote `{remote_name}` -> {remote_url}", which autoconfigure prints in the
\* end, is the remote that incus has, where that URL is the running VM's.
PrintedRemoteIsSet ==
  [][ok' /\ ~ok /\ up /\ ~stray /\ target = net => remote.url = target]_rvars
=============================================================================
