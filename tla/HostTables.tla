----------------------------- MODULE HostTables -----------------------------
(***************************************************************************)
(* The three searches malleus makes in tables of the host: find_lease and  *)
(* find_in_arp of src/src/leases.rs, which look for the guest's address,   *)
(* and find_conflict of src/src/netroute.rs, which looks for a route that  *)
(* overlaps a subnet.  Each is a loop over a table that ends at the first  *)
(* match; find_lease keeps state from word to word.                        *)
(*                                                                         *)
(* A MAC is ours if it normalizes to the wanted one, and a name if it is   *)
(* the wanted one: when the wanted MAC is malformed, or no name is wanted, *)
(* a table has none of ours.                                               *)
(***************************************************************************)
EXTENDS Naturals, Sequences

CONSTANTS
  Address,     \* what parses as an IPv4 address
  LeaseFiles,  \* the words of a lease file, in order
  ArpTables,   \* the lines of `arp -an`
  RouteTables, \* the routes of the host
  Width        \* bits of an address of a route

\* A word of a lease file; braces are words of their own.
Word ==
  [key : {"open", "close"}, val : {"none"}]
    \cup [key : {"ip"}, val : Address \cup {"bad"}]
    \cup [key : {"hw", "name"}, val : {"ours", "theirs"}]

Line == [mac : {"ours", "theirs"}, val : Address \cup {"bad"}]

\* A CIDR block keeps the bits of its address that the prefix does not cover.
Bits == [1 .. Width -> {0, 1}]
Block == [addr : Bits, len : 0 .. Width]

ASSUME TablesOK ==
  /\ "bad" \notin Address /\ "none" \notin Address
  /\ LeaseFiles \subseteq Seq(Word)
  /\ ArpTables \subseteq Seq(Line)
  /\ RouteTables \subseteq Seq(Block)
  /\ Width \in Nat

VARIABLES
  task,   \* the search that runs or has ended: "lease", "arp", "conflict"
  table,  \* what it searches
  wanted, \* the block find_conflict is asked about, as a sequence of one
  at,     \* the entry it is at
  ip,     \* the last address of the record at hand
  hw,     \* a MAC of that record is ours
  name,   \* its name is ours
  found   \* the entry that ended the search; 0: none did

locals == <<ip, hw, name>>
vars == <<task, table, wanted, at, locals, found>>

TypeOK ==
  /\ task \in {"none", "lease", "arp", "conflict"}
  /\ task = "none" => table = <<>>
  /\ task = "lease" => table \in Seq(Word)
  /\ task = "arp" => table \in Seq(Line)
  /\ task = "conflict" => table \in Seq(Block)
  /\ wanted \in {<<>>} \cup {<<b>> : b \in Block}
  /\ task = "conflict" => wanted # <<>>
  /\ at \in 1 .. Len(table) + 1
  /\ ip \in Address \cup {"none"}
  /\ hw \in BOOLEAN /\ name \in BOOLEAN
  /\ found \in 0 .. Len(table)

\* Mutant: the last answer is kept.
Start_KeepsFound(t, entries, block) ==
  /\ task' = t /\ table' = entries /\ wanted' = block
  /\ at' = 1 /\ ip' = "none" /\ hw' = FALSE /\ name' = FALSE
  /\ UNCHANGED found

Start(t, entries, block) ==
  /\ task' = t /\ table' = entries /\ wanted' = block
  /\ at' = 1 /\ ip' = "none" /\ hw' = FALSE /\ name' = FALSE
  /\ found' = 0

Init ==
  /\ task = "none" /\ table = <<>> /\ wanted = <<>>
  /\ at = 1 /\ ip = "none" /\ hw = FALSE /\ name = FALSE
  /\ found = 0

Ended == found # 0 \/ at > Len(table)

\* The loop of search t has another entry.
Looking(t) == task = t /\ ~Ended

Skip == at' = at + 1 /\ UNCHANGED <<task, table, wanted, found>>

Found == found' = at /\ UNCHANGED <<task, table, wanted, at>>

-----------------------------------------------------------------------------
(* find_lease, word by word.                                               *)

FindLease ==
  /\ task = "none"
  /\ \E file \in LeaseFiles : Start("lease", file, <<>>)

\* Mutant: what matched in a record still counts in the next one.
Forget_KeepsMatches == ip' = "none" /\ UNCHANGED <<hw, name>>

Forget == ip' = "none" /\ hw' = FALSE /\ name' = FALSE

Open ==
  /\ Looking("lease") /\ table[at].key = "open"
  /\ Forget
  /\ Skip

Ip ==
  /\ Looking("lease") /\ table[at].key = "ip"
  /\ ip' = IF table[at].val \in Address THEN table[at].val ELSE "none"
  /\ UNCHANGED <<hw, name>>
  /\ Skip

\* hw_address, or identifier.
Hw ==
  /\ Looking("lease") /\ table[at].key = "hw"
  /\ hw' = (hw \/ table[at].val = "ours")
  /\ UNCHANGED <<ip, name>>
  /\ Skip

Name ==
  /\ Looking("lease") /\ table[at].key = "name"
  /\ name' = (name \/ table[at].val = "ours")
  /\ UNCHANGED <<ip, hw>>
  /\ Skip

Close ==
  /\ Looking("lease") /\ table[at].key = "close"
  /\ IF (hw \/ name) /\ ip # "none"
     THEN Found /\ UNCHANGED locals
     ELSE Forget /\ Skip

-----------------------------------------------------------------------------
(* find_in_arp.                                                            *)

FindInArp ==
  /\ task = "none"
  /\ \E lines \in ArpTables : Start("arp", lines, <<>>)

ArpLine ==
  /\ Looking("arp")
  /\ IF table[at].mac = "ours" /\ table[at].val \in Address
     THEN Found /\ ip' = table[at].val /\ UNCHANGED <<hw, name>>
     ELSE Skip /\ UNCHANGED locals

-----------------------------------------------------------------------------
(* find_conflict.                                                          *)

\* Ipv4Net::contains: b is in a.
Encloses(a, b) == a.len <= b.len /\ \A i \in 1 .. a.len : a.addr[i] = b.addr[i]

FindConflict ==
  /\ task = "none"
  /\ \E routes \in RouteTables, block \in Block : Start("conflict", routes, <<block>>)

\* Mutant: only a route around the wanted block counts.
Route_Wider ==
  /\ Looking("conflict")
  /\ IF Encloses(table[at], wanted[1]) THEN Found ELSE Skip
  /\ UNCHANGED locals

Route ==
  /\ Looking("conflict")
  /\ IF Encloses(table[at], wanted[1]) \/ Encloses(wanted[1], table[at]) THEN Found ELSE Skip
  /\ UNCHANGED locals

-----------------------------------------------------------------------------

\* The caller has its answer.
Done ==
  /\ task # "none" /\ Ended
  /\ Start("none", <<>>, <<>>)

Next ==
  \/ FindLease \/ Open \/ Ip \/ Hw \/ Name \/ Close
  \/ FindInArp \/ ArpLine
  \/ FindConflict \/ Route
  \/ Done

Spec == Init /\ [][Next]_vars

-----------------------------------------------------------------------------
(* Properties.                                                             *)

Brace(w) == w.key \in {"open", "close"}

\* The words between the brace before word n, if there is one, and word n.
Body(f, n) == {i \in 1 .. n - 1 : \A j \in i .. n - 1 : ~Brace(f[j])}

\* Among these words one has a MAC or a name of ours.
Ours(f, n) == \E i \in Body(f, n) : f[i].key \in {"hw", "name"} /\ f[i].val = "ours"

\* The last address among them is a.
LastIp(f, n, a) ==
  \E i \in Body(f, n) :
    /\ f[i].key = "ip" /\ f[i].val = a
    /\ \A j \in Body(f, n) : f[j].key = "ip" => j <= i

\* Word n closes a record that is ours and has address a.
Leases(f, n, a) == f[n].key = "close" /\ Ours(f, n) /\ LastIp(f, n, a)

\* A record is judged as a whole, whatever the order of its words, and by its
\* own words only, however the braces are placed: the address found is that of
\* the first record of ours that has one.  A name makes a record ours, too:
\* what the comment on find_lease promises is NoLeaseNoAnswer.
FirstLease ==
  task = "lease" /\ Ended =>
    /\ found # 0 => Leases(table, found, ip)
    /\ \A n \in 1 .. Len(table) : \A a \in Address :
         found = 0 \/ n < found => ~Leases(table, n, a)

\* "Returns `None` when the MAC is malformed or has no current lease": the record
\* that is answered has the wanted MAC.
NoLeaseNoAnswer ==
  task = "lease" /\ Ended /\ found # 0 =>
    \E i \in Body(table, found) : table[i].key = "hw" /\ table[i].val = "ours"

\* The addresses of a block.
Covers(b) == {x \in Bits : \A i \in 1 .. b.len : x[i] = b.addr[i]}

\* "the first existing route that overlaps `wanted`, if any": overlap by
\* addresses in common, not by nesting.
FirstConflict ==
  task = "conflict" /\ Ended =>
    \A n \in 1 .. Len(table) :
      /\ n = found => Covers(table[n]) \cap Covers(wanted[1]) # {}
      /\ found = 0 \/ n < found => Covers(table[n]) \cap Covers(wanted[1]) = {}
=============================================================================
