----------------------------- MODULE Discovery -----------------------------
(***************************************************************************)
(* How malleus learns the address of its guest: resolve_vm_ip of           *)
(* src/src/main.rs polls six sources on the host, while the script that    *)
(* src/src/provision.rs renders sets up Incus in the guest and reports     *)
(* the guest's address over the shared directory, the serial log and       *)
(* vsock.                                                                  *)
(*                                                                         *)
(* The VM starts, dies and is started again under a discovery (other       *)
(* terminals run stop, start and delete), and the files of an earlier boot *)
(* stay behind.  One discovery runs at a time.                             *)
(***************************************************************************)
CONSTANTS
  Address,  \* IPv4 addresses
  Faults    \* "interrupt": a discovery is killed; "nomount": mounting the share
            \* fails in the guest; "delete": the state directory is deleted;
            \* "silent": vfkit's REST endpoint may not answer

ASSUME ConstantsOK ==
  /\ Address \cap {"none", "absent", "blank", "down", "timeout"} = {}
  /\ Faults \subseteq {"interrupt", "nomount", "delete", "silent"}

VARIABLES
  pc,        \* the source the discovery tries next
  expired,   \* its 60 seconds are over
  result,    \* what the last discovery returned; "none" while one runs
  up,        \* vfkit runs
  linked,    \* the state directory is the one the VM was started from last
  guestIp,   \* guest-ip: "absent", "blank" (truncated) or an address
  silent,    \* its REST endpoint accepts connections and does not answer
  log,       \* the address in the last "Reported IP" line of vfkit.guest.log
  net,       \* the address the guest got by DHCP in this boot
  mounted,   \* the guest has mounted the share
  reporter,  \* control state of the guest's loop that writes guest-ip
  server,    \* control state of its loop that serves the address over vsock
  setup,     \* how far the guest's root disk is set up
  sure       \* history: this boot's report was there when the round began

caller == <<pc, expired, result>>
host == <<up, silent, linked, guestIp, log>>
guest == <<net, mounted, reporter, server, setup>>
vars == <<caller, host, guest, sure>>

TypeOK ==
  /\ pc \in {"idle", "probe", "rest", "vsock", "share", "log", "lease", "arp", "late"}
  /\ expired \in BOOLEAN
  /\ result \in Address \cup {"none", "down", "timeout"}
  /\ up \in BOOLEAN /\ silent \in BOOLEAN
  /\ linked \in BOOLEAN
  /\ guestIp \in Address \cup {"absent", "blank"}
  /\ log \in Address \cup {"none"}
  /\ net \in Address \cup {"none"}
  /\ mounted \in BOOLEAN
  /\ reporter \in {"off", "mount", "look", "write", "announce", "done"}
  /\ server \in {"off", "wait", "serve", "done"}
  /\ setup \in {"none", "installed", "listening", "ready"}
  /\ sure \in BOOLEAN

Init ==
  /\ pc = "idle" /\ expired = FALSE /\ result = "none"
  /\ up = FALSE /\ silent = FALSE /\ linked = FALSE
  /\ guestIp = "absent" /\ log = "none"
  /\ net = "none" /\ mounted = FALSE
  /\ reporter = "off" /\ server = "off"
  /\ setup = "none"
  /\ sure = FALSE

-----------------------------------------------------------------------------
(* The guest.                                                              *)

\* The log line is written before the address is served, and after guest-ip.
Announced == reporter = "done" \/ server \in {"serve", "done"}

\* This boot's report is what the sources in the state directory amount to:
\* guest-ip is written, or the log has it and guest-ip holds no address.
Reported ==
  /\ up /\ linked
  /\ \/ mounted /\ reporter \in {"announce", "done"}
     \/ Announced /\ guestIp \notin Address

\* What the guest writes into the share and what vfkit logs reaches the
\* state directory unless that was deleted under the VM.
WriteShare(content) ==
  guestIp' = IF mounted /\ linked THEN content ELSE guestIp

WriteLog == log' = IF linked THEN net ELSE log

\* start.  A directory that is not there is made anew, with new disks.  vfkit
\* may keep the log or empty it, and cloud-init, to whom a later boot of the
\* same root disk is the same instance, may run the script again or not.
Boot ==
  /\ ~up
  /\ up' = TRUE
  /\ linked' = TRUE
  /\ log' \in {log, "none"}
  /\ setup' = IF linked THEN setup ELSE "none"
  /\ \/ reporter' = "mount" /\ server' = "wait"
     \/ linked /\ UNCHANGED <<reporter, server>>
  /\ UNCHANGED <<caller, silent, guestIp, net, mounted, sure>>

\* stop, a crash of vfkit, or a reboot of the host.
Die ==
  /\ up
  /\ up' = FALSE /\ silent' = FALSE
  /\ net' = "none" /\ mounted' = FALSE
  /\ reporter' = "off" /\ server' = "off"
  /\ sure' = FALSE
  /\ UNCHANGED <<caller, linked, guestIp, log, setup>>

\* cmd_delete, which does not look at the VM.
Delete ==
  /\ "delete" \in Faults
  /\ linked
  /\ linked' = FALSE
  /\ guestIp' = "absent" /\ log' = "none"
  /\ sure' = FALSE
  /\ UNCHANGED <<caller, up, silent, guest>>

\* The REST endpoint stops answering, or answers again.
Stall ==
  /\ "silent" \in Faults
  /\ up
  /\ silent' = ~silent
  /\ UNCHANGED <<caller, up, linked, guestIp, log, guest, sure>>

GetAddress ==
  /\ up /\ net = "none"
  /\ net' \in Address
  /\ UNCHANGED <<caller, host, mounted, reporter, server, setup, sure>>

\* One round of the reporting loop: mount the share unless it is mounted.  The
\* mount point was made by mkdir, so the round goes on after a failure, too.
Mount ==
  /\ reporter = "mount"
  /\ \/ mounted' = TRUE
     \/ "nomount" \in Faults /\ UNCHANGED mounted
  /\ reporter' = "look"
  /\ UNCHANGED <<caller, host, net, server, setup, sure>>


\* With an address, the shell opens guest-ip and so truncates it.
Look ==
  /\ reporter = "look"
  /\ reporter' = IF net = "none" THEN "mount" ELSE "write"
  /\ IF net = "none" THEN UNCHANGED guestIp ELSE WriteShare("blank")
  /\ UNCHANGED <<caller, up, silent, linked, log, net, mounted, server, setup, sure>>

Write ==
  /\ reporter = "write"
  /\ reporter' = "announce"
  /\ WriteShare(net)
  /\ UNCHANGED <<caller, up, silent, linked, log, net, mounted, server, setup, sure>>

Announce ==
  /\ reporter = "announce"
  /\ reporter' = "done"
  /\ WriteLog
  /\ UNCHANGED <<caller, up, silent, linked, guestIp, net, mounted, server, setup, sure>>

Reporter == Mount \/ Look \/ Write \/ Announce

\* The other loop waits for an address and for socat.
Listen ==
  /\ server = "wait"
  /\ net # "none" /\ setup # "none"
  /\ server' = "serve"
  /\ WriteLog
  /\ UNCHANGED <<caller, up, silent, linked, guestIp, net, mounted, reporter, setup, sure>>

\* The rest of the script: apt-get install incus socat, which needs the network;
\* incus admin init --preseed; incus config trust.  Each may fail.
SetUp ==
  /\ server # "off"
  /\ \/ setup = "none" /\ net # "none" /\ setup' = "installed"
     \/ setup = "installed" /\ setup' = "listening"
     \/ setup = "listening" /\ setup' = "ready"
  /\ UNCHANGED <<caller, host, net, mounted, reporter, server, sure>>

-----------------------------------------------------------------------------
(* resolve_vm_ip, called without --vm-ip.                                  *)

Call ==
  /\ pc = "idle"
  /\ pc' = "probe"
  /\ expired' = FALSE
  /\ result' = "none"
  /\ sure' = FALSE
  /\ UNCHANGED <<host, guest>>

Return(r) ==
  /\ pc' = "idle"
  /\ result' = r
  /\ UNCHANGED <<expired, host, sure>>

GoOn(to) ==
  /\ pc' = to
  /\ UNCHANGED <<expired, result, host, sure>>

\* Mutant: the clock starts again in every round.
Probe_RestartsClock ==
  /\ pc = "probe"
  /\ IF up /\ linked THEN pc' = "rest" /\ sure' = Reported /\ UNCHANGED result
     ELSE pc' = "idle" /\ result' = "down" /\ UNCHANGED sure
  /\ expired' = FALSE
  /\ UNCHANGED <<host, guest>>

\* vm_is_running: without the directory there is no vfkit.pid.
Probe ==
  /\ pc = "probe"
  /\ IF up /\ linked THEN pc' = "rest" /\ sure' = Reported /\ UNCHANGED result
     ELSE pc' = "idle" /\ result' = "down" /\ UNCHANGED sure
  /\ UNCHANGED <<expired, host, guest>>

\* query_vfkit_ip: vfkit's REST API knows the address of its guest, or does not
\* tell.  curl is called without a time limit.  The port is a fixed one: here it
\* is this VM's vfkit that has it, and no other program of the host.
Rest ==
  /\ pc = "rest" /\ ~silent
  /\ \/ up /\ net # "none" /\ Return(net)
     \/ GoOn("vsock")
  /\ UNCHANGED guest

\* query_vsock_ip: the guest serves one connection; the answer may come too
\* late for the one-second read timeout and is lost.
Vsock ==
  /\ pc = "vsock"
  /\ IF linked /\ server = "serve"
     THEN /\ server' = "done"
          /\ Return(net) \/ GoOn("share")
     ELSE GoOn("share") /\ UNCHANGED server
  /\ UNCHANGED <<net, mounted, reporter, setup>>

\* Mutant: guest-ip is taken as it is.
Share_Unparsed ==
  /\ pc = "share"
  /\ IF guestIp # "absent" THEN Return(guestIp) ELSE GoOn("log")
  /\ UNCHANGED guest

\* Mutant: the leases are asked before the serial log.
Share_LeasesNext ==
  /\ pc = "share"
  /\ IF guestIp \in Address THEN Return(guestIp) ELSE GoOn("lease")
  /\ UNCHANGED guest

Share ==
  /\ pc = "share"
  /\ IF guestIp \in Address THEN Return(guestIp) ELSE GoOn("log")
  /\ UNCHANGED guest

SerialLog ==
  /\ pc = "log"
  /\ IF log # "none" THEN Return(log) ELSE GoOn("lease")
  /\ UNCHANGED guest

\* The host's tables may name any address: they match by MAC or host name, and
\* keep what expired.
Lease ==
  /\ pc = "lease"
  /\ (\E a \in Address : Return(a)) \/ GoOn("arp")
  /\ UNCHANGED guest

Arp ==
  /\ pc = "arp"
  /\ (\E a \in Address : Return(a)) \/ GoOn("late")
  /\ UNCHANGED guest

Late ==
  /\ pc = "late"
  /\ IF expired THEN Return("timeout") ELSE GoOn("probe")
  /\ UNCHANGED guest

Step == Probe \/ Rest \/ Vsock \/ Share \/ SerialLog \/ Lease \/ Arp \/ Late

Expire ==
  /\ pc # "idle" /\ ~expired
  /\ expired' = TRUE
  /\ UNCHANGED <<pc, result, host, guest, sure>>

Interrupt ==
  /\ "interrupt" \in Faults
  /\ pc # "idle"
  /\ pc' = "idle"
  /\ UNCHANGED <<expired, result, host, guest, sure>>

-----------------------------------------------------------------------------

Next ==
  \/ Boot \/ Die \/ Delete \/ Stall
  \/ GetAddress \/ Reporter \/ Listen \/ SetUp
  \/ Call \/ Step \/ Expire \/ Interrupt

Spec == Init /\ [][Next]_vars

\* A discovery goes on and its time passes; curl returns when the endpoint it
\* waits for answers again, or vfkit is gone.  The guest gets an address and its
\* reporting loop runs.  Nothing makes the setup succeed or the user call.
Fairness ==
  /\ WF_vars(Step) /\ SF_vars(Rest) /\ WF_vars(Expire)
  /\ WF_vars(GetAddress) /\ WF_vars(Reporter)

FairSpec == Spec /\ Fairness

-----------------------------------------------------------------------------
(* Properties.                                                             *)

\* A round that begins when the guest has reported in this boot finds that
\* address: not that of an earlier boot, not one the host's tables name for
\* another machine, and it does not end in a timeout either.
FoundOnceReported == sure => result \in {"none", net}

\* Every discovery ends, with an address or without, unless vfkit keeps curl
\* waiting for ever: the deadline does not help against that.
DiscoveryEnds == pc # "idle" ~> pc = "idle" \/ [](pc = "rest" /\ silent)


\* vm.rs calls ready.sock the socket "the guest connects to when provisioning
\* finishes".
SignalMeansProvisioned ==
  [][pc = "vsock" /\ result' \in Address => setup = "ready"]_vars
=============================================================================
