-------------------------- MODULE Discovery_proof --------------------------
(***************************************************************************)
(* Theorems about Discovery, for any set of addresses and any faults.      *)
(***************************************************************************)
EXTENDS Discovery, TLAPS

\* The guest's loops go on only with an address.
LoopsHaveAddress ==
  /\ reporter \in {"write", "announce", "done"} => net # "none"
  /\ server \in {"serve", "done"} => net # "none"

LEMMA LoopsHoldAddress == Spec => []LoopsHaveAddress
<1>1. Init => LoopsHaveAddress
  BY DEF Init, LoopsHaveAddress
<1>2. LoopsHaveAddress /\ [Next]_vars => LoopsHaveAddress'
  <2> SUFFICES ASSUME LoopsHaveAddress, [Next]_vars
               PROVE  LoopsHaveAddress'
    OBVIOUS
  <2> USE DEF LoopsHaveAddress
  <2>1. CASE Boot \/ Die \/ Delete \/ Stall \/ GetAddress
    BY <2>1 DEF Boot, Die, Delete, Stall, GetAddress, guest
  <2>2. CASE Mount \/ Write \/ Announce \/ Listen \/ SetUp
    BY <2>2 DEF Mount, Write, Announce, Listen, SetUp
  <2>3. CASE Look
    BY <2>3 DEF Look
  <2>4. CASE Call \/ Expire \/ Interrupt
    BY <2>4 DEF Call, Expire, Interrupt, guest
  <2>5. CASE Vsock
    BY <2>5 DEF Vsock, GoOn, Return
  <2>6. CASE Probe \/ Rest \/ Share \/ SerialLog \/ Lease \/ Arp \/ Late
    BY <2>6 DEF Probe, Rest, Share, SerialLog, Lease, Arp, Late, guest
  <2>7. CASE UNCHANGED vars
    BY <2>7 DEF vars, guest
  <2> QED BY <2>1, <2>2, <2>3, <2>4, <2>5, <2>6, <2>7 DEF Next, Step, Reporter
<1> QED BY <1>1, <1>2, PTL DEF Spec

\* The state of Discovery is well typed: the answer of a discovery, guest-ip,
\* the log and the two loops of the guest hold nothing else.
THEOREM TypeCorrect == Spec => []TypeOK
<1>1. Init => TypeOK
  BY DEF Init, TypeOK
<1>2. TypeOK /\ LoopsHaveAddress /\ [Next]_vars => TypeOK'
  <2> SUFFICES ASSUME TypeOK, LoopsHaveAddress, [Next]_vars
               PROVE  TypeOK'
    OBVIOUS
  <2> USE DEF TypeOK
  <2>1. CASE Boot \/ Die \/ Stall
    <3>1. silent' \in BOOLEAN
      BY <2>1 DEF Boot, Die, Stall
    <3> QED BY <2>1, <3>1 DEF Boot, Die, Stall, caller, guest
  <2>2. CASE Delete \/ GetAddress
    <3>1. CASE Delete
      <4>1. up' \in BOOLEAN /\ linked' \in BOOLEAN /\ sure' \in BOOLEAN
        BY <3>1 DEF Delete
      <4> QED BY <3>1, <4>1 DEF Delete, caller, guest
    <3>2. CASE GetAddress
      BY <3>2 DEF GetAddress, caller, host
    <3> QED BY <2>2, <3>1, <3>2
  <2>3. CASE Mount
    <3>1. mounted' \in BOOLEAN
      BY <2>3 DEF Mount
    <3>2. /\ reporter' = "look"
          /\ UNCHANGED <<pc, expired, result, up, silent, linked, guestIp, log, net, server, setup, sure>>
      BY <2>3 DEF Mount, caller, host
    <3> QED BY <3>1, <3>2
  <2>4. CASE Look \/ Write
    BY <2>4 DEF Look, Write, WriteShare, caller, LoopsHaveAddress
  <2>5. CASE Announce \/ Listen
    BY <2>5 DEF Announce, Listen, WriteLog, caller, LoopsHaveAddress
  <2>6. CASE SetUp
    BY <2>6 DEF SetUp, caller, host
  <2>7. CASE Call \/ Expire \/ Interrupt
    BY <2>7 DEF Call, Expire, Interrupt, host, guest
  <2>8. CASE Probe
    <3>1. sure' \in BOOLEAN
      BY <2>8 DEF Probe, Reported
    <3>2. result' \in Address \cup {"none", "down", "timeout"} /\ pc' \in {"rest", "idle"}
      BY <2>8 DEF Probe
    <3> QED BY <2>8, <3>1, <3>2 DEF Probe, host, guest
  <2>9. CASE Rest
    <3>1. CASE net # "none" /\ Return(net)
      BY <2>9, <3>1 DEF Rest, Return, host, guest
    <3>2. CASE GoOn("vsock")
      BY <2>9, <3>2 DEF Rest, GoOn, host, guest
    <3> QED BY <2>9, <3>1, <3>2 DEF Rest
  <2>10. CASE Vsock
    BY <2>10 DEF Vsock, Return, GoOn, host, LoopsHaveAddress
  <2>11. CASE Share \/ SerialLog
    BY <2>11 DEF Share, SerialLog, Return, GoOn, host, guest
  <2>12. CASE Lease \/ Arp \/ Late
    BY <2>12 DEF Lease, Arp, Late, Return, GoOn, host, guest
  <2>13. CASE UNCHANGED vars
    BY <2>13 DEF vars, caller, host, guest
  <2> QED
    BY <2>1, <2>2, <2>3, <2>4, <2>5, <2>6, <2>7, <2>8, <2>9, <2>10, <2>11, <2>12, <2>13
    DEF Next, Step, Reporter
<1> QED BY <1>1, <1>2, LoopsHoldAddress, PTL DEF Spec

-----------------------------------------------------------------------------
(* What the guest has said is on the host.                                 *)

\* A guest that is down does nothing.
DownIsQuiet ==
  ~up => net = "none" /\ reporter = "off" /\ server = "off" /\ ~mounted

\* guest-ip and the log are those of this boot once it has written them.
ShareIsCurrent ==
  linked /\ mounted /\ reporter \in {"announce", "done"} => guestIp = net

LogIsCurrent == linked /\ Announced => log = net

GuestInv == TypeOK /\ DownIsQuiet /\ LoopsHaveAddress /\ ShareIsCurrent /\ LogIsCurrent

LEMMA GuestInvHolds == Spec => []GuestInv
<1>1. Init => GuestInv
  BY TypeCorrect
  DEF Init, TypeOK, GuestInv, DownIsQuiet, LoopsHaveAddress, ShareIsCurrent, LogIsCurrent, Announced
<1>2. GuestInv /\ TypeOK' /\ [Next]_vars => GuestInv'
  <2> SUFFICES ASSUME GuestInv, TypeOK', [Next]_vars
               PROVE  GuestInv'
    OBVIOUS
  <2> USE DEF GuestInv, DownIsQuiet, LoopsHaveAddress, ShareIsCurrent, LogIsCurrent, Announced
  <2>1. CASE Boot
    BY <2>1 DEF Boot, caller, host, guest
  <2>2. CASE Die \/ Delete \/ Stall
    BY <2>2 DEF Die, Delete, Stall, caller, host, guest
  <2>3. CASE GetAddress
    BY <2>3, ConstantsOK DEF GetAddress, caller, host
  <2>4. CASE Mount
    BY <2>4 DEF Mount, caller, host, TypeOK
  <2>5. CASE Look
    BY <2>5 DEF Look, WriteShare, caller, TypeOK
  <2>6. CASE Write
    BY <2>6 DEF Write, WriteShare, caller, TypeOK
  <2>7. CASE Announce \/ Listen
    BY <2>7 DEF Announce, Listen, WriteLog, caller, TypeOK
  <2>8. CASE SetUp
    BY <2>8 DEF SetUp, caller, host
  <2>9. CASE Call \/ Expire \/ Interrupt
    BY <2>9 DEF Call, Expire, Interrupt, host, guest
  <2>10. CASE Vsock
    BY <2>10 DEF Vsock, Return, GoOn, host
  <2>11. CASE Probe \/ Rest \/ Share \/ SerialLog \/ Lease \/ Arp \/ Late
    BY <2>11 DEF Probe, Rest, Share, SerialLog, Lease, Arp, Late, Return, GoOn, host, guest
  <2>12. CASE UNCHANGED vars
    BY <2>12 DEF vars, caller, host, guest
  <2> QED
    BY <2>1, <2>2, <2>3, <2>4, <2>5, <2>6, <2>7, <2>8, <2>9, <2>10, <2>11, <2>12
    DEF Next, Step, Reporter
<1> QED BY <1>1, <1>2, TypeCorrect, PTL DEF Spec

-----------------------------------------------------------------------------
(* What a discovery finds.                                                 *)

\* A round that may rely on the report never gets past the serial log.
RoundInv ==
  /\ pc # "idle" => result = "none"
  /\ sure => /\ Reported
             /\ result \in {"none", net}
             /\ pc \in {"idle", "probe", "rest", "vsock", "share", "log"}
             /\ pc = "log" => Announced

\* What was reported stays reported while the VM and the directory stay.
LEMMA ReportedStays ==
  ASSUME GuestInv, [Next]_vars, Reported, up', linked'
  PROVE  Reported' /\ net' = net /\ (Announced => Announced')
<1> USE DEF Reported, Announced, GuestInv, LoopsHaveAddress
<1>0. net \in Address
  BY DEF TypeOK
<1>1. CASE Boot \/ Die \/ Delete \/ Stall \/ GetAddress
  BY <1>0, <1>1, ConstantsOK DEF Boot, Die, Delete, Stall, GetAddress, guest, host
<1>2. CASE Mount
  BY <1>2 DEF Mount, host, TypeOK
<1>3. CASE Look
  BY <1>3, ConstantsOK DEF Look, WriteShare, TypeOK
<1>4. CASE Write
  BY <1>4, ConstantsOK DEF Write, WriteShare, TypeOK
<1>5. CASE Announce \/ Listen \/ SetUp
  BY <1>5 DEF Announce, Listen, SetUp, WriteLog, host, TypeOK
<1>6. CASE Call \/ Expire \/ Interrupt
  BY <1>6 DEF Call, Expire, Interrupt, host, guest
<1>7. CASE Vsock
  BY <1>7 DEF Vsock, Return, GoOn, host
<1>8. CASE Probe \/ Rest \/ Share \/ SerialLog \/ Lease \/ Arp \/ Late
  BY <1>8 DEF Probe, Rest, Share, SerialLog, Lease, Arp, Late, Return, GoOn, host, guest
<1>9. CASE UNCHANGED vars
  BY <1>9 DEF vars, host, guest
<1> QED
  BY <1>1, <1>2, <1>3, <1>4, <1>5, <1>6, <1>7, <1>8, <1>9 DEF Next, Step, Reporter

\* A discovery whose round began when the guest had reported in this boot
\* returns the guest's address: whatever earlier boots left in the directory,
\* whatever the host's tables say, and without running out of time.
THEOREM FoundWhenReported == Spec => []FoundOnceReported
<1>1. Init => RoundInv
  BY DEF Init, RoundInv
<1>2. RoundInv /\ GuestInv /\ [Next]_vars => RoundInv'
  <2> SUFFICES ASSUME RoundInv, GuestInv, [Next]_vars
               PROVE  RoundInv'
    OBVIOUS
  <2>1. CASE Boot
    <3>1. ~sure
      BY <2>1 DEF Boot, RoundInv, Reported
    <3> QED BY <2>1, <3>1 DEF Boot, RoundInv, caller
  <2>2. CASE Die \/ Delete
    BY <2>2 DEF Die, Delete, RoundInv, caller
  <2>3. CASE Stall \/ GetAddress \/ Reporter \/ Listen \/ SetUp
    <3>1. UNCHANGED <<pc, result, sure, up, linked>>
      BY <2>3 DEF Stall, GetAddress, Reporter, Mount, Look, Write, Announce, Listen, SetUp, caller, host
    <3> QED BY <3>1, ReportedStays DEF RoundInv, Reported
  <2>4. CASE Call
    BY <2>4 DEF Call, RoundInv
  <2>5. CASE Expire \/ Interrupt
    BY <2>5 DEF Expire, Interrupt, RoundInv, Reported, Announced, host, guest
  <2>6. CASE Probe
    BY <2>6 DEF Probe, RoundInv, Reported, Announced, host, guest
  <2>7. CASE Rest
    BY <2>7 DEF Rest, Return, GoOn, RoundInv, Reported, Announced, host, guest
  <2>8. CASE Vsock
    BY <2>8, ReportedStays DEF Vsock, Return, GoOn, RoundInv, Reported, host
  <2>9. CASE Share
    <3>1. sure /\ guestIp \in Address /\ Reported => guestIp = net
      BY DEF Reported, GuestInv, ShareIsCurrent
    <3>2. sure /\ guestIp \notin Address => Announced
      BY DEF RoundInv, Reported, GuestInv, ShareIsCurrent, LoopsHaveAddress, TypeOK
    <3> QED
      BY <2>9, <3>1, <3>2
      DEF Share, Return, GoOn, RoundInv, Reported, Announced, host, guest
  <2>10. CASE SerialLog
    <3>1. sure => log = net /\ net # "none"
      BY <2>10, ConstantsOK
      DEF SerialLog, RoundInv, Reported, GuestInv, LogIsCurrent, LoopsHaveAddress, Announced
    <3> QED
      BY <2>10, <3>1 DEF SerialLog, Return, GoOn, RoundInv, Reported, Announced, host, guest
  <2>11. CASE Lease \/ Arp \/ Late
    <3>1. ~sure
      BY <2>11 DEF Lease, Arp, Late, RoundInv
    <3> QED BY <2>11, <3>1 DEF Lease, Arp, Late, Return, GoOn, RoundInv
  <2>12. CASE UNCHANGED vars
    BY <2>12 DEF vars, caller, host, guest, RoundInv, Reported, Announced
  <2> QED
    BY <2>1, <2>2, <2>3, <2>4, <2>5, <2>6, <2>7, <2>8, <2>9, <2>10, <2>11, <2>12
    DEF Next, Step
<1>3. RoundInv => FoundOnceReported
  BY DEF RoundInv, FoundOnceReported
<1> QED BY <1>1, <1>2, <1>3, GuestInvHolds, PTL DEF Spec
=============================================================================
