-------------------------- MODULE HostTables_proof --------------------------
(***************************************************************************)
(* Theorems about HostTables, for tables of any length and contents and    *)
(* addresses of any width.                                                 *)
(***************************************************************************)
EXTENDS HostTables, TLAPS

(* Every search keeps the types.                                            *)
LEMMA Constants ==
  /\ "bad" \notin Address /\ "none" \notin Address
  /\ LeaseFiles \subseteq Seq(Word) /\ ArpTables \subseteq Seq(Line)
  /\ RouteTables \subseteq Seq(Block) /\ Width \in Nat
BY TablesOK

LEMMA Lengths == TypeOK => Len(table) \in Nat
<1> SUFFICES ASSUME TypeOK
             PROVE  Len(table) \in Nat
  OBVIOUS
<1>1. CASE task = "none"
  BY <1>1 DEF TypeOK
<1>2. CASE task = "lease"
  <2>1. table \in Seq(Word)
    BY <1>2 DEF TypeOK
  <2> QED BY <2>1
<1>3. CASE task = "arp"
  <2>1. table \in Seq(Line)
    BY <1>3 DEF TypeOK
  <2> QED BY <2>1
<1>4. CASE task = "conflict"
  <2>1. table \in Seq(Block)
    BY <1>4 DEF TypeOK
  <2> QED BY <2>1
<1> QED BY <1>1, <1>2, <1>3, <1>4 DEF TypeOK

(* An iteration that does not end the search, and one that does.            *)
LEMMA IterationKeepsType ==
  ASSUME TypeOK, ~Ended, Skip \/ Found,
         ip' \in Address \cup {"none"}, hw' \in BOOLEAN, name' \in BOOLEAN
  PROVE  TypeOK'
<1>1. /\ UNCHANGED <<task, table, wanted>>
      /\ at' \in 1 .. Len(table) + 1 /\ found' \in 0 .. Len(table)
  <2>1. at \in 1 .. Len(table) /\ found = 0
    BY Lengths DEF Ended, TypeOK
  <2> QED BY <2>1, Lengths DEF Skip, Found
<1> QED BY <1>1 DEF TypeOK

LEMMA StartKeepsType ==
  ASSUME NEW t, NEW entries, NEW block, Start(t, entries, block),
         \/ t = "none" /\ entries = <<>> /\ block = <<>>
         \/ t = "lease" /\ entries \in LeaseFiles /\ block = <<>>
         \/ t = "arp" /\ entries \in ArpTables /\ block = <<>>
         \/ t = "conflict" /\ entries \in RouteTables /\ block \in {<<b>> : b \in Block}
  PROVE  TypeOK'
<1>1. Len(entries) \in Nat
  <2>1. \/ entries = <<>> \/ entries \in Seq(Word)
        \/ entries \in Seq(Line) \/ entries \in Seq(Block)
    BY Constants
  <2> QED BY <2>1
<1>2. /\ task' = t /\ table' = entries /\ wanted' = block
      /\ at' = 1 /\ found' = 0
      /\ ip' = "none" /\ hw' = FALSE /\ name' = FALSE
  BY DEF Start
<1>3. at' \in 1 .. Len(table') + 1 /\ found' \in 0 .. Len(table')
  BY <1>1, <1>2
<1>4. \A b : <<b>> # <<>>
  OBVIOUS
<1> QED BY <1>2, <1>3, <1>4, Constants DEF TypeOK

LEMMA TypeNext == TypeOK /\ [Next]_vars => TypeOK'
<1> SUFFICES ASSUME TypeOK, [Next]_vars
             PROVE  TypeOK'
  OBVIOUS
<1>1. CASE Open \/ Close
  <2>1. /\ ~Ended /\ (Skip \/ Found)
        /\ Forget \/ UNCHANGED locals
    BY <1>1 DEF Open, Close, Looking
  <2>2. ip' \in Address \cup {"none"} /\ hw' \in BOOLEAN /\ name' \in BOOLEAN
    BY <2>1 DEF Forget, locals, TypeOK
  <2> QED BY <2>1, <2>2, IterationKeepsType
<1>2. CASE Ip \/ Hw \/ Name
  <2>1. ~Ended /\ Skip
    BY <1>2 DEF Ip, Hw, Name, Looking
  <2>2. ip' \in Address \cup {"none"} /\ hw' \in BOOLEAN /\ name' \in BOOLEAN
    BY <1>2 DEF Ip, Hw, Name, TypeOK
  <2> QED BY <2>1, <2>2, IterationKeepsType
<1>3. CASE ArpLine \/ Route
  <2>1. ~Ended /\ (Skip \/ Found)
    BY <1>3 DEF ArpLine, Route, Looking
  <2>2. ip' \in Address \cup {"none"} /\ hw' \in BOOLEAN /\ name' \in BOOLEAN
    BY <1>3 DEF ArpLine, Route, locals, TypeOK
  <2> QED BY <2>1, <2>2, IterationKeepsType
<1>4. CASE FindLease \/ FindInArp \/ Done
  BY <1>4, StartKeepsType DEF FindLease, FindInArp, Done
<1>5. CASE FindConflict
  <2>1. PICK routes \in RouteTables, block \in Block : Start("conflict", routes, <<block>>)
    BY <1>5 DEF FindConflict
  <2> QED BY <2>1, StartKeepsType
<1>6. CASE UNCHANGED vars
  BY <1>6 DEF vars, locals, TypeOK
<1> QED BY <1>1, <1>2, <1>3, <1>4, <1>5, <1>6 DEF Next

LEMMA TypeInit == Init => TypeOK
<1>1. Init => at \in 1 .. Len(table) + 1 /\ found \in 0 .. Len(table)
  BY DEF Init
<1> QED BY <1>1 DEF Init, TypeOK

(* Type correctness of the searches, the entry they are at included.        *)
THEOREM TypeCorrect == Spec => []TypeOK
BY TypeInit, TypeNext, PTL DEF Spec

-----------------------------------------------------------------------------
(* find_lease: what its three locals hold before each word.                 *)

LeaseInv ==
  task = "lease" =>
    /\ found = 0 => (hw \/ name <=> Ours(table, at))
    /\ ip # "none" => LastIp(table, at, ip)
    /\ ip = "none" => \A a \in Address : ~LastIp(table, at, a)
    /\ \A n \in 1 .. at - 1 : \A a \in Address : ~Leases(table, n, a)
    /\ found # 0 => found = at /\ ip # "none" /\ Leases(table, at, ip)

(* A brace ends the body of a record, any other word belongs to it.         *)
LEMMA BodyNext ==
  ASSUME NEW f, NEW n \in Nat \ {0}
  PROVE  Body(f, n + 1) = IF Brace(f[n]) THEN {} ELSE Body(f, n) \cup {n}
<1>1. ASSUME NEW i
      PROVE  i \in Body(f, n + 1) <=> ~Brace(f[n]) /\ i \in Body(f, n) \cup {n}
  <2>1. CASE i \in 1 .. n
    <3>1. i .. n = (i .. n - 1) \cup {n}
      BY <2>1
    <3>2. i \in Body(f, n + 1) <=> \A j \in i .. n : ~Brace(f[j])
      BY <2>1 DEF Body
    <3>3. i # n => (i \in Body(f, n) <=> \A j \in i .. n - 1 : ~Brace(f[j]))
      BY <2>1 DEF Body
    <3> QED BY <2>1, <3>1, <3>2, <3>3
  <2>2. CASE i \notin 1 .. n
    BY <2>2 DEF Body
  <2> QED BY <2>1, <2>2
<1> QED BY <1>1

LEMMA BodyBelow ==
  ASSUME NEW f, NEW n \in Nat \ {0}
  PROVE  Body(f, n) \subseteq 1 .. n - 1
BY DEF Body

(* What the next word does to the two facts about a body.                   *)
LEMMA OursNext ==
  ASSUME NEW f, NEW n \in Nat \ {0}
  PROVE  Ours(f, n + 1) <=>
           /\ ~Brace(f[n])
           /\ Ours(f, n) \/ (f[n].key \in {"hw", "name"} /\ f[n].val = "ours")
<1>1. CASE Brace(f[n])
  <2>1. Body(f, n + 1) = {}
    BY <1>1, BodyNext
  <2> QED BY <1>1, <2>1 DEF Ours
<1>2. CASE ~Brace(f[n])
  <2>1. Body(f, n + 1) = Body(f, n) \cup {n}
    BY <1>2, BodyNext
  <2> QED BY <1>2, <2>1 DEF Ours
<1> QED BY <1>1, <1>2

LEMMA LastIpNext ==
  ASSUME NEW f, NEW n \in Nat \ {0}, NEW a
  PROVE  LastIp(f, n + 1, a) <=>
           ~Brace(f[n]) /\ IF f[n].key = "ip" THEN f[n].val = a ELSE LastIp(f, n, a)
<1>1. CASE Brace(f[n])
  BY <1>1, BodyNext DEF LastIp
<1>2. CASE ~Brace(f[n]) /\ f[n].key = "ip"
  <2>1. \A j \in Body(f, n) : j \in Nat /\ j < n
    BY BodyBelow
  <2>2. Body(f, n + 1) = Body(f, n) \cup {n}
    BY <1>2, BodyNext
  <2>3. LastIp(f, n + 1, a) => f[n].val = a
    <3> SUFFICES ASSUME NEW i \in Body(f, n + 1), f[i].val = a,
                        \A j \in Body(f, n + 1) : f[j].key = "ip" => j <= i
                 PROVE  f[n].val = a
      BY DEF LastIp
    <3>1. n <= i
      BY <1>2, <2>2
    <3> QED BY <2>1, <2>2, <3>1
  <2>4. ASSUME f[n].val = a
        PROVE  LastIp(f, n + 1, a)
    <3>1. \A j \in Body(f, n + 1) : j <= n
      BY <2>1, <2>2
    <3> QED BY <1>2, <2>2, <2>4, <3>1 DEF LastIp
  <2> QED BY <1>2, <2>3, <2>4
<1>3. CASE ~Brace(f[n]) /\ f[n].key # "ip"
  <2>1. Body(f, n + 1) = Body(f, n) \cup {n}
    BY <1>3, BodyNext
  <2> QED BY <1>3, <2>1 DEF LastIp
<1> QED BY <1>1, <1>2, <1>3

LEMMA LeaseInit ==
  ASSUME Start("lease", table', <<>>)
  PROVE  LeaseInv'
<1>1. Body(table', 1) = {}
  BY DEF Body
<1>2. at' = 1 /\ ip' = "none" /\ hw' = FALSE /\ name' = FALSE /\ found' = 0
  BY DEF Start
<1> QED BY <1>1, <1>2 DEF LeaseInv, Ours, LastIp

LEMMA WordKeepsLeaseInv ==
  ASSUME TypeOK, LeaseInv, Open \/ Ip \/ Hw \/ Name \/ Close
  PROVE  LeaseInv'
<1>1. /\ task = "lease" /\ found = 0 /\ at \in Nat \ {0} /\ table[at] \in Word
      /\ UNCHANGED <<task, table>>
  <2>1. table \in Seq(Word) /\ at \in 1 .. Len(table) /\ found = 0
    BY Lengths DEF TypeOK, Open, Ip, Hw, Name, Close, Looking, Ended
  <2> QED BY <2>1 DEF Open, Ip, Hw, Name, Close, Looking, Skip, Found
<1> DEFINE w == table[at]
<1>2. /\ Brace(w) <=> w.key \in {"open", "close"}
      /\ w.key \notin {"open", "close"} => w.key = "ip" \/ w.key \in {"hw", "name"}
      /\ w.key = "ip" => w.val \in Address \cup {"bad"}
  BY <1>1 DEF Brace, Word
<1>3. /\ Ours(table, at + 1) <=>
           ~Brace(w) /\ (Ours(table, at) \/ (w.key \in {"hw", "name"} /\ w.val = "ours"))
      /\ \A a : LastIp(table, at + 1, a) <=>
           ~Brace(w) /\ IF w.key = "ip" THEN w.val = a ELSE LastIp(table, at, a)
  BY <1>1, OursNext, LastIpNext
<1>4. ip \in Address \cup {"none"} /\ "none" \notin Address /\ "bad" \notin Address
  BY Constants DEF TypeOK
<1>5. CASE Close /\ (hw \/ name) /\ ip # "none"
  <2>1. at' = at /\ found' = at /\ UNCHANGED <<ip, hw, name>> /\ w.key = "close"
    BY <1>5 DEF Close, Found, locals
  <2>2. Leases(table, at, ip)
    BY <1>1, <1>5, <2>1 DEF Leases, LeaseInv
  <2> QED BY <1>1, <1>5, <2>1, <2>2 DEF LeaseInv
<1>6. CASE ~(Close /\ (hw \/ name) /\ ip # "none")
  <2>1. Skip
    BY <1>6 DEF Open, Ip, Hw, Name, Close
  <2>2. at' = at + 1 /\ found' = 0
    BY <1>1, <2>1 DEF Skip
  <2>3. \A a \in Address : ~Leases(table, at, a)
    <3>1. CASE Close
      BY <1>1, <1>6, <3>1 DEF Leases, LeaseInv
    <3>2. CASE Open \/ Ip \/ Hw \/ Name
      BY <3>2 DEF Open, Ip, Hw, Name, Leases
    <3> QED BY <3>1, <3>2
  <2>4. \A n \in 1 .. at' - 1 : \A a \in Address : ~Leases(table, n, a)
    <3>1. \A n \in 1 .. at' - 1 : n = at \/ n \in 1 .. at - 1
      BY <1>1, <2>2
    <3> QED BY <1>1, <2>3, <3>1 DEF LeaseInv
  <2>5. CASE Open \/ Close
    <3>1. Brace(w) /\ ip' = "none" /\ hw' = FALSE /\ name' = FALSE
      BY <1>6, <2>5 DEF Open, Close, Forget, Brace
    <3> QED BY <1>1, <1>3, <2>2, <2>4, <3>1 DEF LeaseInv
  <2>6. CASE Ip
    <3>1. /\ ~Brace(w) /\ w.key = "ip" /\ UNCHANGED <<hw, name>>
          /\ ip' = IF w.val \in Address THEN w.val ELSE "none"
      BY <2>6 DEF Ip, Brace
    <3>2. Ours(table, at + 1) <=> Ours(table, at)
      BY <1>3, <3>1
    <3>3. \A a : LastIp(table, at + 1, a) <=> w.val = a
      BY <1>3, <3>1
    <3>4. /\ ip' # "none" => LastIp(table, at + 1, ip')
          /\ ip' = "none" => \A a \in Address : ~LastIp(table, at + 1, a)
      BY <1>4, <3>1, <3>3
    <3> QED BY <1>1, <2>2, <2>4, <3>1, <3>2, <3>4 DEF LeaseInv
  <2>7. CASE Hw \/ Name
    <3>1. /\ ~Brace(w) /\ w.key \in {"hw", "name"} /\ UNCHANGED ip
      BY <2>7 DEF Hw, Name, Brace
    <3>2. \A a : LastIp(table, at + 1, a) <=> LastIp(table, at, a)
      BY <1>3, <3>1
    <3>3. Ours(table, at + 1) <=> Ours(table, at) \/ w.val = "ours"
      BY <1>3, <3>1
    <3>4. hw' \/ name' <=> (hw \/ name) \/ w.val = "ours"
      <4>1. CASE Hw
        BY <4>1 DEF Hw
      <4>2. CASE Name
        BY <4>2 DEF Name
      <4> QED BY <2>7, <4>1, <4>2
    <3>5. hw' \/ name' <=> Ours(table', at')
      BY <1>1, <2>2, <3>3, <3>4 DEF LeaseInv
    <3> QED BY <1>1, <2>2, <2>4, <3>1, <3>2, <3>5 DEF LeaseInv
  <2> QED BY <2>5, <2>6, <2>7
<1> QED BY <1>5, <1>6

LEMMA LeaseInvNext == TypeOK /\ LeaseInv /\ [Next]_vars => LeaseInv'
<1> SUFFICES ASSUME TypeOK, LeaseInv, [Next]_vars
             PROVE  LeaseInv'
  OBVIOUS
<1>1. CASE Open \/ Ip \/ Hw \/ Name \/ Close
  BY <1>1, WordKeepsLeaseInv
<1>2. CASE FindLease
  <2>1. Start("lease", table', <<>>)
    BY <1>2 DEF FindLease, Start
  <2> QED BY <2>1, LeaseInit
<1>3. CASE FindInArp \/ ArpLine \/ FindConflict \/ Route \/ Done
  <2>1. task' # "lease"
    BY <1>3 DEF FindInArp, ArpLine, FindConflict, Route, Done, Start, Looking, Skip, Found
  <2> QED BY <2>1 DEF LeaseInv
<1>4. CASE UNCHANGED vars
  BY <1>4 DEF vars, locals, LeaseInv
<1> QED BY <1>1, <1>2, <1>3, <1>4 DEF Next

(* For any lease file, whatever is between, before and after its braces,    *)
(* find_lease answers the last address of the first record that is ours     *)
(* and has one.                                                             *)
THEOREM FirstLeaseFound == Spec => []FirstLease
<1>1. Init => LeaseInv
  BY DEF Init, LeaseInv
<1>2. TypeOK /\ LeaseInv => FirstLease
  <2> SUFFICES ASSUME TypeOK, LeaseInv, task = "lease", Ended
               PROVE  /\ found # 0 => Leases(table, found, ip)
                      /\ \A n \in 1 .. Len(table) : \A a \in Address :
                           found = 0 \/ n < found => ~Leases(table, n, a)
    BY DEF FirstLease
  <2>1. found # 0 => Leases(table, found, ip) /\ found = at
    BY DEF LeaseInv
  <2>2. \A n \in 1 .. Len(table) : found = 0 \/ n < found => n \in 1 .. at - 1
    BY <2>1, Lengths DEF Ended, TypeOK
  <2> QED BY <2>1, <2>2 DEF LeaseInv
<1> QED BY <1>1, <1>2, LeaseInvNext, TypeCorrect, PTL DEF Spec

(* Where no record has the wanted name, or none is wanted, find_lease keeps *)
(* the promise of its comment: nothing but a record with the wanted MAC is  *)
(* answered, and nothing at all when the MAC is malformed.                  *)
THEOREM NoAnswerWithoutName ==
  (\A file \in LeaseFiles : \A i \in 1 .. Len(file) :
     ~(file[i].key = "name" /\ file[i].val = "ours"))
  => (Spec => []NoLeaseNoAnswer)
<1> SUFFICES ASSUME \A file \in LeaseFiles : \A i \in 1 .. Len(file) :
                      ~(file[i].key = "name" /\ file[i].val = "ours")
             PROVE  Spec => []NoLeaseNoAnswer
  OBVIOUS
<1> DEFINE FromFile == task = "lease" => table \in LeaseFiles
<1>1. Init => FromFile
  BY DEF Init
<1>2. FromFile /\ [Next]_vars => FromFile'
  BY DEF Next, vars, FindLease, Open, Ip, Hw, Name, Close, FindInArp, ArpLine,
         FindConflict, Route, Done, Start, Looking, Skip, Found
<1>3. TypeOK /\ FromFile /\ FirstLease => NoLeaseNoAnswer
  <2> SUFFICES ASSUME TypeOK, FromFile, FirstLease, task = "lease", Ended, found # 0
               PROVE  \E i \in Body(table, found) :
                        table[i].key = "hw" /\ table[i].val = "ours"
    BY DEF NoLeaseNoAnswer
  <2>1. PICK i \in Body(table, found) :
          table[i].key \in {"hw", "name"} /\ table[i].val = "ours"
    BY DEF FirstLease, Leases, Ours
  <2>2. i \in 1 .. Len(table)
    BY Lengths DEF Body, TypeOK
  <2>3. table[i].key # "name"
    BY <2>1, <2>2
  <2>4. table[i].key = "hw"
    BY <2>1, <2>3
  <2> WITNESS i \in Body(table, found)
  <2> QED BY <2>1, <2>4
<1> HIDE DEF FromFile
<1> QED BY <1>1, <1>2, <1>3, TypeCorrect, FirstLeaseFound, PTL DEF Spec

-----------------------------------------------------------------------------
(* find_conflict.                                                           *)

(* CIDR blocks are nested or disjoint.                                      *)
LEMMA NestedOrDisjoint ==
  ASSUME NEW a \in Block, NEW b \in Block
  PROVE  Covers(a) \cap Covers(b) # {} <=> Encloses(a, b) \/ Encloses(b, a)
<1>1. a.addr \in Bits /\ b.addr \in Bits /\ a.len \in Nat /\ b.len \in Nat
  BY Constants DEF Block
<1>2. Encloses(a, b) => b.addr \in Covers(a) \cap Covers(b)
  BY <1>1 DEF Encloses, Covers
<1>3. Encloses(b, a) => a.addr \in Covers(a) \cap Covers(b)
  BY <1>1 DEF Encloses, Covers
<1>4. ASSUME NEW x \in Covers(a) \cap Covers(b)
      PROVE  Encloses(a, b) \/ Encloses(b, a)
  <2>1. \A i \in 1 .. a.len : x[i] = a.addr[i]
    BY <1>4 DEF Covers
  <2>2. \A i \in 1 .. b.len : x[i] = b.addr[i]
    BY <1>4 DEF Covers
  <2>3. CASE a.len <= b.len
    BY <1>1, <2>1, <2>2, <2>3 DEF Encloses
  <2>4. CASE b.len <= a.len
    BY <1>1, <2>1, <2>2, <2>4 DEF Encloses
  <2> QED BY <1>1, <2>3, <2>4
<1> QED BY <1>2, <1>3, <1>4

Overlaps(n) == Covers(table[n]) \cap Covers(wanted[1]) # {}

ConflictInv ==
  task = "conflict" =>
    /\ \A n \in 1 .. at - 1 : ~Overlaps(n)
    /\ found # 0 => found = at /\ Overlaps(at)

LEMMA RouteKeepsConflictInv ==
  ASSUME TypeOK, ConflictInv, Route
  PROVE  ConflictInv'
<1>1. /\ task = "conflict" /\ found = 0 /\ at \in Nat /\ table[at] \in Block
      /\ UNCHANGED <<task, table, wanted>>
  <2>1. table \in Seq(Block) /\ at \in 1 .. Len(table) /\ found = 0 /\ task = "conflict"
    BY Lengths DEF TypeOK, Route, Looking, Ended
  <2> QED BY <2>1 DEF Route, Skip, Found
<1>2. wanted[1] \in Block
  BY <1>1 DEF TypeOK
<1>3. Overlaps(at) <=> Encloses(table[at], wanted[1]) \/ Encloses(wanted[1], table[at])
  BY <1>1, <1>2, NestedOrDisjoint DEF Overlaps
<1>4. \A n : Overlaps(n)' <=> Covers(table[n]) \cap Covers(wanted[1]) # {}
  BY <1>1 DEF Overlaps
<1>5. CASE Overlaps(at)
  <2>1. at' = at /\ found' = at
    BY <1>3, <1>5 DEF Route, Found
  <2> QED BY <1>1, <1>4, <1>5, <2>1 DEF ConflictInv, Overlaps
<1>6. CASE ~Overlaps(at)
  <2>1. at' = at + 1 /\ found' = 0
    BY <1>1, <1>3, <1>6 DEF Route, Skip
  <2>2. \A n \in 1 .. at' - 1 : n = at \/ n \in 1 .. at - 1
    BY <1>1, <2>1
  <2> QED BY <1>1, <1>4, <1>6, <2>1, <2>2 DEF ConflictInv, Overlaps
<1> QED BY <1>5, <1>6

LEMMA ConflictInvNext == TypeOK /\ ConflictInv /\ [Next]_vars => ConflictInv'
<1> SUFFICES ASSUME TypeOK, ConflictInv, [Next]_vars
             PROVE  ConflictInv'
  OBVIOUS
<1>1. CASE Route
  BY <1>1, RouteKeepsConflictInv
<1>2. CASE FindConflict
  BY <1>2 DEF FindConflict, Start, ConflictInv
<1>3. CASE FindLease \/ Open \/ Ip \/ Hw \/ Name \/ Close \/ FindInArp \/ ArpLine \/ Done
  <2>1. task' # "conflict"
    BY <1>3 DEF FindLease, Open, Ip, Hw, Name, Close, FindInArp, ArpLine, Done, Start,
                Looking, Skip, Found
  <2> QED BY <2>1 DEF ConflictInv
<1>4. CASE UNCHANGED vars
  BY <1>4 DEF vars, ConflictInv, Overlaps
<1> QED BY <1>1, <1>2, <1>3, <1>4 DEF Next

(* For any routes and any subnet, find_conflict answers the first route     *)
(* that has an address in common with the subnet.                           *)
THEOREM FirstConflictFound == Spec => []FirstConflict
<1>1. Init => ConflictInv
  BY DEF Init, ConflictInv
<1>2. TypeOK /\ ConflictInv => FirstConflict
  <2> SUFFICES ASSUME TypeOK, ConflictInv, task = "conflict", Ended,
                      NEW n \in 1 .. Len(table)
               PROVE  /\ n = found => Covers(table[n]) \cap Covers(wanted[1]) # {}
                      /\ found = 0 \/ n < found => Covers(table[n]) \cap Covers(wanted[1]) = {}
    BY DEF FirstConflict
  <2>1. found # 0 => Overlaps(found) /\ found = at
    BY DEF ConflictInv
  <2>2. found = 0 \/ n < found => n \in 1 .. at - 1
    BY <2>1, Lengths DEF Ended, TypeOK
  <2> QED BY <2>1, <2>2 DEF ConflictInv, Overlaps
<1> QED BY <1>1, <1>2, ConflictInvNext, TypeCorrect, PTL DEF Spec
=============================================================================
