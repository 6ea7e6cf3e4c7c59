---------------------------- MODULE Remote_proof ----------------------------
(***************************************************************************)
(* Theorems about Remote, for any number of callers, generator runs and    *)
(* addresses.  Every step of Remote is a step of Pki or leaves its         *)
(* variables alone, so that what Pki_proof says of the keys holds here,    *)
(* too, and is what the guest's and the client's copies are traced to.     *)
(***************************************************************************)
EXTENDS Remote, Pki_proof

Writers == {"generate", "open", "fill"}

\* While autoconfigure does anything but start, no start runs.
Alone == wpc \notin {"idle", "started"} => \A p \in Proc : pc[p] = "idle"

\* The start inside autoconfigure finds the client's files, and makes no keys.
ClientFilesStay ==
  wpc # "idle" =>
    /\ file[1] # "absent" /\ file[2] # "absent"
    /\ \A p \in Proc : pc[p] \notin Writers

\* The guest was set up with the keys of the directory.
GuestOnDisk ==
  guest # Nothing =>
    /\ guest = file
    /\ \A s \in Slot : file[s] # "absent"
    /\ \A p \in Proc : pc[p] \notin Writers

Booted ==
  up \/ wpc \in {"resolve", "list", "add", "switch"} => guest # Nothing

Copied ==
  /\ wpc \notin {"idle", "crt", "fill_crt"} => conf.crt = file[1]
  /\ wpc \notin {"idle", "crt", "fill_crt", "key", "fill_key"} => conf.key = file[2]

Trusted == conf = [crt |-> guest[1], key |-> guest[2]]

Wired == remote # Absent /\ ~moved => guest # Nothing /\ WiredUntilMoved

\* Success is reported by the last step of autoconfigure only, and the next one
\* takes it back before it copies.
Served ==
  ok => /\ wpc = "idle" /\ remote # Absent /\ current
        /\ ~moved => Trusted

RInv ==
  /\ IInv
  /\ RemoteTypeOK
  /\ Alone /\ ClientFilesStay /\ GuestOnDisk /\ Booted /\ Copied /\ Wired /\ Served

-----------------------------------------------------------------------------
(* The keys.                                                               *)

LEMMA StepIsPkiStep == [RemoteNext]_rvars => [Next]_vars
BY DEF RemoteNext, rvars, SetUp, Die, DeleteAll, RemoveRemote, Start, StartCall,
       StartStep, StartFails, Started, Spawn, Autoconfigure, OpenCert, CopyCert, OpenKey,
       CopyKey, ProbeVm, Resolve, List, Add, Switch, Fail, Wire, ToState, Next, Step

(* Remote's keys are those of load_or_create under any callers: what is     *)
(* proved of Pki alone (one material for every start, no key overwritten,   *)
(* the key store) holds in the composition with autoconfigure.              *)
THEOREM RemoteImplementsPki == RemoteSpec => Spec
<1>1. RemoteInit => Init
  BY DEF RemoteInit
<1> QED BY <1>1, StepIsPkiStep, PTL DEF RemoteSpec, Spec

(* However autoconfigure, deletes and VMs that come and go are interleaved  *)
(* with the starts, these agree on one material, never overwrite it, and    *)
(* make the directory a PkiStore.                                           *)
THEOREM RemoteKeepsKeys ==
  /\ Serial => (RemoteSpec => []Agreed /\ NeverOverwritten /\ ImplementsStore)
  /\ RemoteSpec => SettledStays
BY RemoteImplementsPki, AgreedWhenSerial, NeverOverwrittenWhenSerial, StoreImplemented,
   SettledForGood, PTL

-----------------------------------------------------------------------------
(* The copies.                                                             *)

LEMMA Strings ==
  /\ "absent" \notin Gen /\ "empty" \notin Gen /\ "none" \notin Gen /\ "old" \notin Gen
  /\ \A c \in Content : Aged(c) \in Kept
  /\ \A c \in Kept : Aged(c) \in Kept
BY ConstantsOK, RemoteConstantsOK DEF Aged, Kept, Content

LEMMA RInvInit == RemoteInit => RInv
<1> SUFFICES ASSUME RemoteInit
             PROVE  RInv
  OBVIOUS
<1>1. IInv
  BY IInvInit DEF RemoteInit
<1>2. RemoteTypeOK
  BY DEF RemoteInit, RemoteTypeOK, Nothing, Absent, Content, Kept
<1> QED
  BY <1>1, <1>2 DEF RemoteInit, RInv, Alone, ClientFilesStay, GuestOnDisk, Booted,
                    Copied, Wired, Served

(* A start that is under way leaves keys alone that some guest or the       *)
(* running autoconfigure has seen, and does not begin to make others.       *)
LEMMA StartLeavesKeys ==
  ASSUME IInv, IInv', NEW p \in Proc, Call(p) \/ Step(p) \/ Interrupt(p),
         \A q \in Proc : pc[q] \notin Writers,
         file[1] # "absent"
  PROVE  UNCHANGED file /\ \A q \in Proc : pc'[q] \notin Writers
<1> USE DEF IInv, TypeOK, Writers
<1>1. CASE Missing(p)
  <2>1. at[p] = 5 /\ found[p] = {}
    BY <1>1, Slots DEF Missing
  <2>2. 1 \in found[p]
    BY <1>1, <2>1, Slots DEF Missing, Knows, Tested
  <2> QED BY <2>1, <2>2
<1>2. CASE Read(p)
  <2>1. UNCHANGED file /\ \E to \in {"read", "return"} : pc' = [pc EXCEPT ![p] = to]
    BY <1>2 DEF Read, Advance, Goto
  <2> QED BY <2>1
<1>3. CASE Generate(p) \/ Open(p) \/ Fill(p)
  BY <1>3 DEF Generate, Open, Fill
<1>4. CASE Call(p) \/ Exists(p) \/ Incomplete(p) \/ Complete(p) \/ Return(p) \/ Interrupt(p)
  BY <1>4 DEF Call, Exists, Incomplete, Complete, Return, Interrupt, End, Goto
<1> QED BY <1>1, <1>2, <1>3, <1>4 DEF Step

(* A start alone, in or out of autoconfigure, keeps what is known of the    *)
(* copies as long as it leaves them alone, vfkit.pid or not.                *)
LEMMA StartKeepsRInv ==
  ASSUME RInv, IInv', NEW p \in Proc, Call(p) \/ Step(p) \/ Interrupt(p),
         UNCHANGED <<up, net, guest, ready, client, moved, target, ok>>,
         stray' \in BOOLEAN,
         wpc \in {"idle", "start", "started"},
         wpc = "start" => wpc' = "started",
         wpc' \in {"idle", wpc, "started"},
         wpc = "idle" => wpc' = "idle"
  PROVE  RInv'
<1> USE DEF RInv
<1>1. wpc # "idle" \/ guest # Nothing =>
        /\ UNCHANGED file
        /\ \A q \in Proc : pc'[q] \notin Writers
  BY StartLeavesKeys, Slots DEF ClientFilesStay, GuestOnDisk
<1>2. RemoteTypeOK'
  BY DEF RemoteTypeOK, client
<1>3. Alone' /\ ClientFilesStay' /\ Booted' /\ Copied'
  BY <1>1 DEF Alone, ClientFilesStay, Booted, Copied, client
<1>4. GuestOnDisk' /\ Wired' /\ Served'
  BY <1>1 DEF GuestOnDisk, Wired, WiredUntilMoved, Served, Trusted, client
<1> QED BY <1>2, <1>3, <1>4

(* The start that spawns vfkit, whether it lives to report that or not.     *)
LEMMA SpawnKeepsRInv ==
  ASSUME RInv, IInv', NEW p \in Proc, Spawn(p), stray' \in BOOLEAN,
         wpc' = "idle" \/ (wpc = "started" /\ wpc' = "resolve"),
         UNCHANGED <<client, target, ok>>
  PROVE  RInv'
<1> USE DEF RInv
<1>1. /\ pc[p] = "return" /\ UNCHANGED file
      /\ held[p] = file /\ \A s \in Slot : file[s] # "absent"
      /\ \A q \in Proc : pc'[q] = "idle"
  BY DEF Spawn, Return, End, Goto, IInv, TypeOK, OneCall, Knows, Done
<1>2. wpc \in {"idle", "started"} /\ UNCHANGED ready
  BY <1>1 DEF Spawn, Alone
<1>3. file # Nothing
  BY <1>1, Slots DEF Nothing
<1>4. guest' = file
  BY <1>1 DEF Spawn, WriteFiles, GuestOnDisk
<1>5. /\ net' \in Address \cup {"none"} /\ up' = TRUE /\ stray' \in BOOLEAN
      /\ moved' \in BOOLEAN
      /\ ~moved' /\ remote # Absent => ~moved /\ net' = net
  BY DEF Spawn, RemoteTypeOK
<1>6. RemoteTypeOK'
  BY <1>2, <1>4, <1>5 DEF RemoteTypeOK, client, IInv, TypeOK
<1>7. Alone' /\ ClientFilesStay' /\ GuestOnDisk' /\ Booted'
  BY <1>1, <1>2, <1>3, <1>4, Slots
  DEF Alone, ClientFilesStay, GuestOnDisk, Booted, Writers
<1>8. Copied'
  BY <1>1, <1>2 DEF Copied, client
<1>9. Wired' /\ Served'
  BY <1>1, <1>2, <1>3, <1>4, <1>5
  DEF Wired, WiredUntilMoved, GuestOnDisk, Served, Trusted, client
<1> QED BY <1>6, <1>7, <1>8, <1>9

(* The steps of autoconfigure itself.                                       *)
LEMMA WireKeepsRInv ==
  ASSUME RInv, IInv', Autoconfigure \/ Wire \/ Fail
  PROVE  RInv'
<1> USE DEF RInv
<1>1. UNCHANGED <<vars, machine>>
  BY DEF Autoconfigure, Wire, OpenCert, CopyCert, OpenKey, CopyKey, ProbeVm, Resolve,
         List, Add, Switch, Fail, ToState
<1>2. UNCHANGED <<file, pc, up, stray, net, guest, ready>>
  BY <1>1 DEF vars, locals, machine
<1>3. \A s \in Slot : file[s] \in Kept /\ guest[s] \in Kept
  BY DEF IInv, TypeOK, RemoteTypeOK, Kept
<1> USE <1>2, <1>3, Slots
<1>4. CASE Autoconfigure
  <2>1. \A p \in Proc : pc[p] = "idle"
    BY <1>4 DEF Autoconfigure, Quiet
  <2>2. RemoteTypeOK'
    BY <1>4 DEF Autoconfigure, RemoteTypeOK, client
  <2> QED
    BY <1>4, <2>1, <2>2 DEF Autoconfigure, Quiet, Alone, ClientFilesStay, GuestOnDisk,
       Booted, Copied, Wired, WiredUntilMoved, Served, Trusted, Writers, client
<1>5. CASE OpenCert \/ CopyCert
  <2>1. /\ \/ wpc = "crt" /\ wpc' = "fill_crt" /\ conf' = [conf EXCEPT !.crt = "empty"]
           \/ wpc = "fill_crt" /\ wpc' = "key" /\ conf' = [conf EXCEPT !.crt = file[1]]
        /\ UNCHANGED <<remote, current, ok, moved, target>>
    BY <1>5 DEF OpenCert, CopyCert, ToState
  <2>2. /\ RemoteTypeOK'
        /\ conf'.crt = IF wpc = "crt" THEN "empty" ELSE file[1]
        /\ conf'.key = conf.key
    BY <2>1 DEF RemoteTypeOK, Kept, Content
  <2>3. Wired'
    BY <2>1, <2>2 DEF Wired, WiredUntilMoved, GuestOnDisk
  <2> QED
    BY <2>1, <2>2, <2>3 DEF Alone, ClientFilesStay, GuestOnDisk, Booted, Copied, Served
<1>6. CASE OpenKey \/ CopyKey
  <2>1. /\ \/ wpc = "key" /\ wpc' = "fill_key" /\ conf' = [conf EXCEPT !.key = "empty"]
           \/ wpc = "fill_key" /\ wpc' = "probe" /\ conf' = [conf EXCEPT !.key = file[2]]
        /\ UNCHANGED <<remote, current, ok, moved, target>>
    BY <1>6 DEF OpenKey, CopyKey, ToState
  <2>2. /\ RemoteTypeOK'
        /\ conf'.crt = conf.crt
        /\ conf'.key = IF wpc = "key" THEN "empty" ELSE file[2]
    BY <2>1 DEF RemoteTypeOK, Kept, Content
  <2>3. Wired'
    BY <2>1, <2>2 DEF Wired, WiredUntilMoved, GuestOnDisk
  <2> QED
    BY <2>1, <2>2, <2>3 DEF Alone, ClientFilesStay, GuestOnDisk, Booted, Copied, Served
<1>7. CASE ProbeVm \/ Resolve \/ List \/ Fail
  <2>1. /\ UNCHANGED <<conf, remote, current, ok, moved>>
        /\ target' \in Address \cup {target}
        /\ wpc \notin {"idle", "started"}
        /\ \/ wpc' = "idle"
           \/ wpc = "probe" /\ up /\ wpc' = "resolve"
           \/ wpc = "probe" /\ wpc' = "start"
           \/ wpc = "resolve" /\ wpc' = "list"
           \/ wpc = "list" /\ wpc' \in {"add", "switch"}
    BY <1>7 DEF ProbeVm, Resolve, List, Fail, ToState
  <2>2. RemoteTypeOK'
    BY <2>1 DEF RemoteTypeOK
  <2> QED
    BY <2>1, <2>2 DEF Alone, ClientFilesStay, GuestOnDisk, Booted, Copied, Wired,
                      WiredUntilMoved, Served, Trusted
<1>8. CASE Add
  <2>1. /\ wpc = "add" /\ wpc' \in {"switch", "idle"}
        /\ UNCHANGED <<conf, current, target, ok>>
    BY <1>8 DEF Add
  <2>2. RemoteTypeOK'
    <3>1. guest[3] \in Kept /\ target \in Address \cup {"none"}
      BY DEF RemoteTypeOK
    <3>2. moved' \in BOOLEAN
      BY <1>8 DEF Add, RemoteTypeOK
    <3>3. remote' \in [url : Address \cup {"none"}, pin : Kept]
      <4>1. CASE Reachable
        BY <1>8, <3>1, <4>1 DEF Add
      <4>2. CASE ~Reachable
        BY <1>8, <4>2 DEF Add, RemoteTypeOK
      <4> QED BY <4>1, <4>2
    <3> QED BY <2>1, <3>2, <3>3 DEF RemoteTypeOK
  <2>3. Wired'
    BY <1>8, <2>1 DEF Add, Reachable, Wired, WiredUntilMoved, Booted
  <2> QED
    BY <2>1, <2>2, <2>3 DEF Alone, ClientFilesStay, GuestOnDisk, Booted, Copied, Served
<1>9. CASE Switch
  <2>1. wpc' = "idle" /\ UNCHANGED <<conf, remote, target, moved>>
    BY <1>9 DEF Switch
  <2>2. RemoteTypeOK'
    BY <1>9, <2>1 DEF Switch, RemoteTypeOK
  <2>3. Served'
    <3>1. guest = file /\ conf.crt = file[1] /\ conf.key = file[2]
      BY <1>9 DEF Switch, Booted, GuestOnDisk, Copied
    <3>2. conf = [crt |-> guest[1], key |-> guest[2]]
      BY <3>1 DEF RemoteTypeOK
    <3> QED BY <1>9, <2>1, <3>2 DEF Switch, Served, Trusted
  <2> QED
    BY <2>1, <2>2, <2>3 DEF Alone, ClientFilesStay, GuestOnDisk, Booted, Copied, Wired,
                            WiredUntilMoved
<1> QED BY <1>4, <1>5, <1>6, <1>7, <1>8, <1>9 DEF Wire

LEMMA RInvNext == Serial /\ RInv /\ [RemoteNext]_rvars => RInv'
<1> SUFFICES ASSUME Serial, RInv, [RemoteNext]_rvars
             PROVE  RInv'
  OBVIOUS
<1> USE DEF RInv
<1>1. IInv'
  BY StepIsPkiStep, IInvNext
<1> DEFINE FailsUnspawned(p) ==
      StartFails(p) /\ UNCHANGED <<up, net, guest, ready, moved>> /\ stray' \in BOOLEAN
<1>2. ASSUME NEW p \in Proc, StartCall(p) \/ StartStep(p) \/ FailsUnspawned(p)
      PROVE  RInv'
  <2> USE DEF Spawn
  <2>1. \/ Call(p) /\ wpc \in {"idle", "start"} /\ wpc' = IF wpc = "start" THEN "started" ELSE "idle"
        \/ pc[p] # "idle" /\ wpc' \in {wpc, "idle"}
    BY <1>2 DEF StartCall, StartStep, StartFails, Exists, Missing, Complete, Read,
                Generate, Open, Fill, Incomplete, Return, Interrupt
  <2>2. /\ wpc \in {"idle", "start", "started"}
        /\ wpc' \in {"idle", wpc, "started"}
        /\ wpc = "start" => wpc' = "started"
        /\ wpc = "idle" => wpc' = "idle"
    BY <2>1 DEF Alone
  <2>3. /\ Call(p) \/ Step(p) \/ Interrupt(p)
        /\ UNCHANGED <<up, net, guest, ready, client, moved, target, ok>>
        /\ stray' \in BOOLEAN
    BY <1>2 DEF StartCall, StartStep, StartFails, Step, machine, RemoteTypeOK
  <2> QED
    BY <1>1, <2>2, <2>3, StartKeepsRInv DEF RemoteTypeOK
<1>3. ASSUME NEW p \in Proc, Started(p) \/ StartFails(p)
      PROVE  RInv'
  <2>1. CASE Started(p)
    <3>1. Spawn(p) /\ stray' \in BOOLEAN /\ UNCHANGED <<client, target, ok>>
      BY <2>1 DEF Started, RemoteTypeOK
    <3>2. wpc' = "idle" \/ (wpc = "started" /\ wpc' = "resolve")
      BY <2>1 DEF Started
    <3> QED BY <1>1, <3>1, <3>2, SpawnKeepsRInv
  <2>2. CASE StartFails(p) /\ Spawn(p) /\ stray' = TRUE
    BY <1>1, <2>2, SpawnKeepsRInv DEF StartFails
  <2>3. CASE FailsUnspawned(p)
    BY <1>2, <2>3
  <2>4. StartFails(p) => FailsUnspawned(p) \/ (Spawn(p) /\ stray' = TRUE)
    BY DEF StartFails, machine, RemoteTypeOK
  <2> QED BY <1>3, <2>1, <2>2, <2>3, <2>4
<1>4. CASE Autoconfigure \/ Wire \/ Fail
  BY <1>1, <1>4, WireKeepsRInv
<1>5. CASE SetUp \/ Die
  <2>1. /\ UNCHANGED <<vars, net, guest, client, wpc, target, ok, moved>>
        /\ ready' \in BOOLEAN /\ up' \in BOOLEAN /\ stray' \in BOOLEAN /\ (up' => up)
    BY <1>5 DEF SetUp, Die, RemoteTypeOK
  <2>2. RemoteTypeOK'
    BY <2>1 DEF RemoteTypeOK, client, vars
  <2> QED
    BY <1>1, <2>1, <2>2 DEF Alone, ClientFilesStay, GuestOnDisk, Booted, Copied, Wired,
                            WiredUntilMoved, Served, Trusted, client, vars, locals
<1>6. CASE DeleteAll
  <2>1. /\ wpc = "idle" /\ ~up /\ guest' = Nothing
        /\ net' = "none" /\ ready' = FALSE
        /\ conf' = [crt |-> Aged(conf.crt), key |-> Aged(conf.key)]
        /\ remote' = [remote EXCEPT !.pin = Aged(@)]
        /\ moved' = (remote # Absent)
        /\ UNCHANGED <<up, stray, current, wpc, target, ok>>
    BY <1>6 DEF DeleteAll, Quiet
  <2>2. Aged(conf.crt) \in Kept /\ Aged(conf.key) \in Kept /\ Aged(remote.pin) \in Kept
    BY Strings DEF RemoteTypeOK
  <2>3. Nothing \in [Slot -> Content]
    BY DEF Nothing, Content
  <2>4. RemoteTypeOK'
    BY <2>1, <2>2, <2>3 DEF RemoteTypeOK
  <2>5. remote = Absent <=> remote' = Absent
    BY <2>1, Strings DEF Absent, Aged, RemoteTypeOK
  <2> QED
    BY <1>1, <2>1, <2>4, <2>5
    DEF Alone, ClientFilesStay, GuestOnDisk, Booted, Copied, Wired, Served
<1>7. CASE RemoveRemote
  <2>1. /\ wpc = "idle" /\ remote' = Absent
        /\ current' = FALSE /\ ok' = FALSE /\ moved' = FALSE
        /\ UNCHANGED <<vars, machine, conf, wpc, target>>
    BY <1>7 DEF RemoveRemote, Quiet
  <2>2. RemoteTypeOK'
    BY <2>1 DEF RemoteTypeOK, machine, vars, Absent, Kept, Content
  <2> QED
    BY <1>1, <2>1, <2>2 DEF Alone, ClientFilesStay, GuestOnDisk, Booted, Copied, Wired,
                            Served, machine, vars, locals
<1>8. CASE UNCHANGED rvars
  BY <1>1, <1>8 DEF rvars, machine, client, vars, locals, RemoteTypeOK, Alone,
     ClientFilesStay, GuestOnDisk, Booted, Copied, Wired, WiredUntilMoved, Served, Trusted
<1> QED
  BY <1>2, <1>3, <1>4, <1>5, <1>6, <1>7, <1>8 DEF RemoteNext, Start

LEMMA SerialKeepsRInv == Serial => (RemoteSpec => []RInv)
<1> SUFFICES ASSUME Serial
             PROVE  RemoteSpec => []RInv
  OBVIOUS
<1>1. RInv /\ [RemoteNext]_rvars => RInv'
  BY RInvNext
<1> QED BY RInvInit, <1>1, PTL DEF RemoteSpec

(* Type correctness; there is always a file for fs::copy to copy.           *)
THEOREM RemoteTypeCorrect == Serial => (RemoteSpec => []RemoteTypeOK)
<1>1. RInv => RemoteTypeOK
  BY DEF RInv
<1> QED BY <1>1, SerialKeepsRInv, PTL

(* Whenever autoconfigure calls incus, the client's certificate and key are *)
(* the pair that the guest was set up to trust.                             *)
THEOREM ClientTrusted == Serial => (RemoteSpec => []GuestTrustsClient)
<1>1. RInv => GuestTrustsClient
  <2> SUFFICES ASSUME RInv, wpc \in {"list", "add", "switch"}
               PROVE  guest # Nothing /\ conf = [crt |-> guest[1], key |-> guest[2]]
    BY DEF GuestTrustsClient
  <2>1. guest # Nothing /\ guest = file /\ conf.crt = file[1] /\ conf.key = file[2]
    BY DEF RInv, Booted, GuestOnDisk, Copied
  <2> QED BY <2>1 DEF RInv, RemoteTypeOK
<1> QED BY <1>1, SerialKeepsRInv, PTL

(* A remote keeps the VM's address and certificate, and the client no key   *)
(* that the VM does not trust, through every start of a VM that is down and *)
(* every autoconfigure, broken off inside a copy or anywhere else, until    *)
(* the VM moves, is deleted, or a second one is started beside it.          *)
THEOREM RemoteStaysWired == Serial => (RemoteSpec => []WiredUntilMoved)
<1>1. RInv => WiredUntilMoved
  BY DEF RInv, Wired, WiredUntilMoved
<1> QED BY <1>1, SerialKeepsRInv, PTL

(* An autoconfigure that reports success leaves a remote that is the        *)
(* client's default and leads to the VM, unless the VM moved away from it   *)
(* or another runs beside it.                                               *)
THEOREM SuccessWired == Serial => (RemoteSpec => []SuccessMeansWired)
<1>1. RInv => SuccessMeansWired
  BY DEF RInv, Served, Trusted, Wired, WiredUntilMoved, LeadsToVm, SuccessMeansWired
<1> QED BY <1>1, SerialKeepsRInv, PTL
=============================================================================
