----------------------------- MODULE Pki_proof -----------------------------
(***************************************************************************)
(* Theorems about Pki for any number of callers and of generator runs.     *)
(* Calls may end anywhere, even inside fs::write.  Overlapping calls only  *)
(* keep what is settled; the rest is about calls one at a time.            *)
(***************************************************************************)
EXTENDS Pki, TLAPS

OneCall == \A p, q \in Proc : pc[p] # "idle" /\ pc[q] # "idle" => p = q

Rested(p) == pc[p] = "idle" => found[p] = {} /\ at[p] = 1

\* What caller p knows about the files at each of its steps.
Tested(p) ==
  pc[p] = "exists" => found[p] = {s \in Slot : s < at[p] /\ file[s] # "absent"}

NothingYet(p) == pc[p] = "generate" => file = Nothing /\ at[p] = 1

Writing(p) ==
  pc[p] \in {"open", "fill"} =>
    /\ \E g \in Gen : held[p] = [s \in Slot |-> g]
    /\ \A s \in Slot : s < at[p] => file[s] = held[p][s]
    /\ \A s \in Slot : s > at[p] => file[s] = "absent"
    /\ file[at[p]] = IF pc[p] = "open" THEN "absent" ELSE "empty"

Reading(p) ==
  pc[p] = "read" =>
    \A s \in Slot : /\ file[s] # "absent"
                    /\ s < at[p] => held[p][s] = file[s]

Done(p) ==
  pc[p] = "return" => held[p] = file /\ \A s \in Slot : file[s] # "absent"

NoneGiven(p) ==
  pc[p] \in {"generate", "open", "fill"} => \A q \in Proc : ~Given(q)

Knows(p) ==
  /\ Tested(p) /\ NothingYet(p) /\ Writing(p) /\ Reading(p) /\ Done(p)
  /\ NoneGiven(p)

GivenOnDisk == \A p \in Proc : Given(p) => answer[p] = file

IInv ==
  /\ TypeOK
  /\ OneCall /\ GivenOnDisk
  /\ \A p \in Proc : Rested(p) /\ Knows(p)

(* Absent and half written files are no key material.                       *)
LEMMA Contents == "absent" \notin Gen /\ "empty" \notin Gen /\ "rejected" \notin Gen
BY ConstantsOK

LEMMA Slots == Slot = {1, 2, 3, 4}
BY DEF Slot

(* Init and Next keep the types.                                            *)
LEMMA TypeInit == Init => TypeOK
BY Slots DEF Init, TypeOK, Nothing, Content

LEMMA TypeNext == TypeOK /\ [Next]_vars => TypeOK'
<1> SUFFICES ASSUME TypeOK, [Next]_vars
             PROVE  TypeOK'
  OBVIOUS
<1> USE Slots DEF TypeOK
<1>1. Nothing \in [Slot -> Content]
  BY DEF Nothing, Content
<1>2. ASSUME NEW p \in Proc, End(p),
             file' \in [Slot -> Content],
             answer' \in [Proc -> [Slot -> Content] \cup {Rejected}]
      PROVE  TypeOK'
  BY <1>1, <1>2 DEF End, Goto
<1>3. ASSUME NEW p \in Proc, Call(p) \/ Missing(p) \/ Complete(p)
      PROVE  TypeOK'
  <2>1. CASE Call(p)
    BY <2>1 DEF Call, Goto
  <2>2. CASE Missing(p)
    BY <2>2 DEF Missing, Goto
  <2>3. CASE Complete(p)
    BY <2>3 DEF Complete, Goto
  <2> QED BY <1>3, <2>1, <2>2, <2>3
<1>4. ASSUME NEW p \in Proc, Exists(p)
      PROVE  TypeOK'
  <2>1. found' \in [Proc -> SUBSET Slot]
    BY <1>4 DEF Exists
  <2>2. at' = [at EXCEPT ![p] = at[p] + 1] /\ at[p] + 1 \in 1 .. 5
    BY <1>4 DEF Exists
  <2> QED BY <1>4, <2>1, <2>2 DEF Exists
<1>5. ASSUME NEW p \in Proc, Incomplete(p) \/ Return(p) \/ Interrupt(p)
      PROVE  TypeOK'
  BY <1>2, <1>5 DEF Incomplete, Return, Interrupt
<1>6. ASSUME NEW p \in Proc, NEW again \in {"read", "open"}, Advance(p, again),
             pc[p] # "exists",
             file' \in [Slot -> Content], held' \in [Proc -> [Slot -> Content]],
             UNCHANGED <<found, answer>>
      PROVE  TypeOK'
  <2>1. at[p] \in Slot
    BY <1>6
  <2>2. CASE at[p] = 4
    <3>1. pc' = [pc EXCEPT ![p] = "return"] /\ UNCHANGED at
      BY <1>6, <2>2 DEF Advance, Goto
    <3> QED BY <1>6, <2>1, <3>1
  <2>3. CASE at[p] # 4
    <3>1. /\ pc' = [pc EXCEPT ![p] = again]
          /\ at' = [at EXCEPT ![p] = at[p] + 1]
          /\ at[p] + 1 \in Slot
      BY <1>6, <2>1, <2>3 DEF Advance, Goto
    <3> QED BY <1>6, <2>1, <3>1
  <2> QED BY <2>2, <2>3
<1>7. ASSUME NEW p \in Proc, Read(p)
      PROVE  TypeOK'
  BY <1>6, <1>7 DEF Read
<1>8. ASSUME NEW p \in Proc, Fill(p)
      PROVE  TypeOK'
  BY <1>6, <1>8 DEF Fill
<1>9. ASSUME NEW p \in Proc, Generate(p)
      PROVE  TypeOK'
  BY <1>9 DEF Generate, Fresh, Content, Goto
<1>10. ASSUME NEW p \in Proc, Open(p)
       PROVE  TypeOK'
  BY <1>10 DEF Open, Content, Goto
<1>11. CASE Delete
  BY <1>1, <1>11 DEF Delete, locals
<1>12. CASE UNCHANGED vars
  BY <1>12 DEF vars, locals
<1> QED
  BY <1>3, <1>4, <1>5, <1>7, <1>8, <1>9, <1>10, <1>11, <1>12 DEF Next, Step

(* The types hold of every behaviour, overlapping calls included.           *)
THEOREM TypeCorrect == Spec => []TypeOK
BY TypeInit, TypeNext, PTL DEF Spec

-----------------------------------------------------------------------------
(* Calls in any order.                                                      *)

AtRest == TypeOK /\ \A p \in Proc : Rested(p)

LEMMA AtRestNext == AtRest /\ [Next]_vars => AtRest'
<1> SUFFICES ASSUME AtRest, [Next]_vars, NEW p \in Proc
             PROVE  Rested(p)'
  BY TypeNext DEF AtRest
<1> USE DEF AtRest, TypeOK, Rested
<1>1. ASSUME NEW q \in Proc, End(q)
      PROVE  Rested(p)'
  BY <1>1 DEF End, Goto
<1>2. ASSUME NEW q \in Proc, Call(q) \/ Step(q) \/ Interrupt(q), ~End(q)
      PROVE  Rested(p)'
  <2>1. \A r \in Proc \ {q} : pc'[r] = pc[r] /\ at'[r] = at[r] /\ found'[r] = found[r]
    BY <1>2 DEF Call, Step, Exists, Missing, Incomplete, Complete, Read, Generate, Open,
                Fill, Return, Interrupt, Advance, Goto
  <2>2. pc'[q] # "idle"
    BY <1>2 DEF Call, Step, Exists, Missing, Incomplete, Complete, Read, Generate, Open,
                Fill, Return, Interrupt, Advance, Goto
  <2> QED BY <2>1, <2>2
<1>3. CASE Delete \/ UNCHANGED vars
  BY <1>3 DEF Delete, vars, locals
<1> QED BY <1>1, <1>2, <1>3 DEF Next

(* Once four files are there and nobody is about to write, no start writes  *)
(* again before delete: not one of any number that overlap, wherever they   *)
(* are cut short.                                                           *)
THEOREM SettledForGood == Spec => SettledStays
<1> DEFINE Stays == Settled /\ file' # Nothing => file' = file /\ Settled'
<1>1. AtRest /\ [Next]_vars => [Stays]_vars
  <2> SUFFICES ASSUME AtRest, Next, Settled, file' # Nothing
               PROVE  file' = file /\ Settled'
    BY DEF vars
  <2> USE DEF AtRest, TypeOK
  <2>1. ~Delete
    BY DEF Delete
  <2>2. PICK p \in Proc : Call(p) \/ Step(p) \/ Interrupt(p)
    BY <2>1 DEF Next
  <2>3. UNCHANGED file
    BY <2>2 DEF Settled, Call, Step, Exists, Missing, Incomplete, Complete, Read, Generate,
                Open, Fill, Return, Interrupt
  <2>4. \A q \in Proc \ {p} : pc'[q] = pc[q] /\ at'[q] = at[q] /\ found'[q] = found[q]
    BY <2>2 DEF Call, Step, Exists, Missing, Incomplete, Complete, Read, Generate, Open,
                Fill, Return, Interrupt, End, Advance, Goto
  <2>5. CASE Call(p)
    <3>1. pc'[p] = "exists" /\ at'[p] = 1 /\ \A s \in Slot : ~(s < 1)
      BY <2>5, Slots DEF Call, Goto, Rested
    <3> QED BY <2>3, <2>4, <3>1 DEF Settled
  <2>6. CASE Exists(p)
    <3>1. /\ pc'[p] = "exists" /\ pc[p] = "exists"
          /\ at[p] \in Slot /\ at'[p] = at[p] + 1
          /\ found'[p] = found[p] \cup {at[p]}
      BY <2>6 DEF Exists, Settled
    <3>2. \A s \in Slot : s < at'[p] => s \in found'[p]
      BY <3>1, Slots DEF Settled
    <3> QED BY <2>3, <2>4, <3>1, <3>2 DEF Settled
  <2>7. ~Missing(p)
    <3>1. CASE Missing(p)
      <4>1. at[p] = 5 /\ found[p] = {} /\ pc[p] = "exists"
        BY <3>1, Slots DEF Missing
      <4>2. 1 \in found[p]
        BY <4>1, Slots DEF Settled
      <4> QED BY <4>1, <4>2
    <3> QED BY <3>1
  <2>8. CASE Incomplete(p) \/ Complete(p) \/ Read(p) \/ Return(p) \/ Interrupt(p)
    <3>1. pc'[p] \in {"idle", "read", "return"}
      BY <2>8 DEF Incomplete, Complete, Read, Return, Interrupt, End, Advance, Goto
    <3> QED BY <2>3, <2>4, <3>1 DEF Settled
  <2>9. ~Generate(p) /\ ~Open(p) /\ ~Fill(p)
    BY DEF Generate, Open, Fill, Settled
  <2> QED BY <2>2, <2>5, <2>6, <2>7, <2>8, <2>9, <2>3 DEF Step
<1>2. Init => AtRest
  BY TypeInit DEF Init, AtRest, Rested
<1> QED BY <1>1, <1>2, AtRestNext, PTL DEF Spec, SettledStays

-----------------------------------------------------------------------------
(* Calls one at a time.                                                     *)

(* A caller that rests knows nothing.                                       *)
LEMMA IdleKnows == \A p \in Proc : pc[p] = "idle" => Knows(p)
BY DEF Knows, Tested, NothingYet, Writing, Reading, Done, NoneGiven

LEMMA IdleKnowsNext == \A p \in Proc : pc'[p] = "idle" => Knows(p)'
BY DEF Knows, Tested, NothingYet, Writing, Reading, Done, NoneGiven

LEMMA IInvInit == Init => IInv
BY TypeInit, IdleKnows DEF Init, IInv, OneCall, Rested, GivenOnDisk, Given

(* The call ends, and what callers were given is still on disk.             *)
LEMMA EndKeepsIInv ==
  ASSUME IInv, TypeOK', NEW p \in Proc, pc[p] # "idle", End(p), GivenOnDisk'
  PROVE  IInv'
<1>1. \A q \in Proc : pc'[q] = "idle"
  BY DEF IInv, TypeOK, OneCall, End, Goto
<1>2. \A q \in Proc : found'[q] = {} /\ at'[q] = 1
  BY DEF IInv, TypeOK, OneCall, End, Rested
<1>3. \A q \in Proc : Knows(q)'
  BY <1>1, IdleKnowsNext
<1> QED
  BY <1>1, <1>2, <1>3 DEF IInv, OneCall, Rested

(* The call goes on, knowing what its next step needs.                      *)
LEMMA MoveKeepsIInv ==
  ASSUME IInv, TypeOK', NEW p \in Proc, pc[p] # "idle",
         \A q \in Proc : q # p => /\ pc'[q] = pc[q]
                                  /\ at'[q] = at[q] /\ found'[q] = found[q],
         pc'[p] # "idle", Knows(p)',
         UNCHANGED answer, UNCHANGED file \/ \A q \in Proc : ~Given(q)
  PROVE  IInv'
<1>1. \A q \in Proc : q # p => pc'[q] = "idle"
  BY DEF IInv, OneCall
<1>2. \A q \in Proc : Knows(q)'
  BY <1>1, IdleKnowsNext
<1>3. GivenOnDisk'
  BY DEF IInv, GivenOnDisk, Given
<1>4. \A q \in Proc : Rested(q)'
  BY DEF IInv, Rested
<1> QED BY <1>1, <1>2, <1>3, <1>4 DEF IInv, OneCall

LEMMA StepKeepsIInv ==
  ASSUME IInv, TypeOK', NEW p \in Proc, Step(p)
  PROVE  IInv'
<1> USE DEF IInv
<1>1. pc[p] # "idle"
  BY DEF Step, Exists, Missing, Incomplete, Complete, Read, Generate, Open, Fill, Return
<1>2. /\ \A q \in Proc : q # p => /\ pc'[q] = pc[q]
                                  /\ at'[q] = at[q] /\ found'[q] = found[q]
      /\ \A to : Goto(p, to) => pc'[p] = to
  BY DEF Step, Exists, Missing, Incomplete, Complete, Read, Generate, Open, Fill, Return,
         End, Advance, Goto, TypeOK
<1>3. ASSUME pc'[p] # "idle", Knows(p)',
             UNCHANGED answer, UNCHANGED file \/ \A q \in Proc : ~Given(q)
      PROVE  IInv'
  BY <1>1, <1>2, <1>3, MoveKeepsIInv
<1> USE DEF Knows
<1>4. CASE Exists(p)
  <2>1. /\ found'[p] = found[p] \cup {s \in {at[p]} : file[s] # "absent"}
        /\ at'[p] = at[p] + 1
        /\ at[p] \in Slot
        /\ pc'[p] = "exists"
        /\ UNCHANGED <<file, answer>>
    BY <1>4 DEF Exists, TypeOK
  <2>2. found'[p] = {s \in Slot : s < at'[p] /\ file[s] # "absent"}
    BY <1>4, <2>1, Slots DEF Tested, Exists
  <2>3. Knows(p)'
    BY <2>1, <2>2 DEF Tested, NothingYet, Writing, Reading, Done, NoneGiven
  <2> QED BY <1>3, <2>1, <2>3
<1>5. CASE Missing(p)
  <2>1. pc'[p] = "generate" /\ at'[p] = 1 /\ UNCHANGED <<file, answer>>
    BY <1>2, <1>5 DEF Missing, TypeOK
  <2>2. \A s \in Slot : file[s] = "absent"
    BY <1>5, Slots DEF Missing, Tested, TypeOK
  <2>3. file = Nothing
    BY <2>2 DEF TypeOK, Nothing
  <2>4. \A q \in Proc : ~Given(q)
    BY <2>3 DEF GivenOnDisk, Given
  <2>5. Knows(p)'
    BY <2>1, <2>3, <2>4 DEF Tested, NothingYet, Writing, Reading, Done, NoneGiven, Given
  <2> QED BY <1>3, <2>1, <2>5
<1>6. CASE Incomplete(p)
  <2>1. GivenOnDisk'
    BY <1>6 DEF Incomplete, GivenOnDisk, Given, TypeOK
  <2> QED BY <1>1, <1>6, <2>1, EndKeepsIInv DEF Incomplete
<1>7. CASE Complete(p)
  <2>1. pc'[p] = "read" /\ at'[p] = 1 /\ UNCHANGED <<file, answer>>
    BY <1>2, <1>7 DEF Complete, TypeOK
  <2>2. \A s \in Slot : file[s] # "absent" /\ ~(s < 1)
    BY <1>7, Slots DEF Complete, Tested
  <2>3. Knows(p)'
    BY <2>1, <2>2 DEF Tested, NothingYet, Writing, Reading, Done, NoneGiven
  <2> QED BY <1>3, <2>1, <2>3
<1>8. CASE Read(p)
  <2>1. /\ held'[p] = [held[p] EXCEPT ![at[p]] = file[at[p]]]
        /\ UNCHANGED <<file, answer>>
        /\ at[p] \in Slot
    BY <1>8 DEF Read, TypeOK
  <2>2. \A s \in Slot : file[s] # "absent" /\ (s < at[p] + 1 => held'[p][s] = file[s])
    BY <1>8, <2>1, Slots DEF Read, Reading, TypeOK
  <2>3. CASE at[p] = 4
    <3>1. held'[p] = file
      BY <2>1, <2>2, <2>3, Slots DEF TypeOK
    <3>2. pc'[p] = "return"
      BY <1>2, <1>8, <2>3 DEF Read, Advance
    <3>3. Knows(p)'
      BY <2>1, <2>2, <3>1, <3>2 DEF Tested, NothingYet, Writing, Reading, Done, NoneGiven
    <3> QED BY <1>3, <2>1, <3>2, <3>3
  <2>4. CASE at[p] # 4
    <3>1. pc'[p] = "read" /\ at'[p] = at[p] + 1
      BY <1>2, <1>8, <2>4 DEF Read, Advance, TypeOK
    <3>2. \A s \in Slot : /\ file'[s] # "absent"
                          /\ s < at'[p] => held'[p][s] = file'[s]
      BY <2>1, <2>2, <3>1
    <3>3. Knows(p)'
      BY <3>1, <3>2 DEF Tested, NothingYet, Writing, Reading, Done, NoneGiven
    <3> QED BY <1>3, <2>1, <3>1, <3>3
  <2> QED BY <2>3, <2>4
<1>9. CASE Generate(p)
  <2>1. pc'[p] = "open" /\ UNCHANGED <<file, at, answer>>
    BY <1>2, <1>9 DEF Generate
  <2>2. \E g \in Gen : held'[p] = [s \in Slot |-> g]
    BY <1>9 DEF Generate, Fresh, TypeOK
  <2>3. \A q \in Proc : ~Given(q)
    BY <1>9 DEF Generate, NoneGiven
  <2>4. at'[p] = 1 /\ \A s \in Slot : file'[s] = "absent" /\ ~(s < 1)
    BY <1>9, <2>1, Slots DEF Generate, NothingYet, Nothing
  <2>5. file'[at'[p]] = "absent"
    BY <2>4, Slots
  <2>6. Knows(p)'
    BY <2>1, <2>2, <2>3, <2>4, <2>5
    DEF Tested, NothingYet, Writing, Reading, Done, NoneGiven, Given
  <2> QED BY <1>3, <2>1, <2>6
<1>10. CASE Open(p)
  <2>1. /\ pc'[p] = "fill"
        /\ file' = [file EXCEPT ![at[p]] = "empty"]
        /\ UNCHANGED <<at, held, answer>>
        /\ at[p] \in Slot
        /\ pc[p] = "open"
    BY <1>2, <1>10 DEF Open, TypeOK
  <2>2. /\ \E g \in Gen : held'[p] = [s \in Slot |-> g]
        /\ \A s \in Slot : s < at'[p] => file'[s] = held'[p][s]
        /\ \A s \in Slot : s > at'[p] => file'[s] = "absent"
        /\ file'[at'[p]] = "empty"
    BY <2>1, Slots DEF Writing, TypeOK
  <2>3. \A q \in Proc : ~Given(q)
    BY <2>1 DEF NoneGiven
  <2>4. Knows(p)'
    BY <2>1, <2>2, <2>3
    DEF Tested, NothingYet, Writing, Reading, Done, NoneGiven, Given
  <2> QED BY <1>3, <2>1, <2>3, <2>4
<1>11. CASE Fill(p)
  <2>1. /\ file' = [file EXCEPT ![at[p]] = held[p][at[p]]]
        /\ UNCHANGED <<held, answer>>
        /\ at[p] \in Slot
        /\ pc[p] = "fill"
    BY <1>11 DEF Fill, TypeOK
  <2>2. \A q \in Proc : ~Given(q)
    BY <2>1 DEF NoneGiven
  <2>3. /\ \E g \in Gen : held'[p] = [s \in Slot |-> g]
        /\ \A s \in Slot : s < at[p] + 1 => file'[s] = held'[p][s]
        /\ \A s \in Slot : s > at[p] => file'[s] = "absent"
    BY <2>1, Slots DEF Writing, TypeOK
  <2>4. CASE at[p] = 4
    <3>1. pc'[p] = "return"
      BY <1>2, <1>11, <2>4 DEF Fill, Advance
    <3>2. held'[p] = file'
      BY <2>3, <2>4, Slots DEF TypeOK
    <3>3. \A s \in Slot : file'[s] # "absent"
      BY <2>3, <3>2, Contents
    <3>4. Knows(p)'
      BY <3>1, <3>2, <3>3 DEF Tested, NothingYet, Writing, Reading, Done, NoneGiven
    <3> QED BY <1>3, <2>1, <2>2, <3>1, <3>4
  <2>5. CASE at[p] # 4
    <3>1. pc'[p] = "open" /\ at'[p] = at[p] + 1
      BY <1>2, <1>11, <2>5 DEF Fill, Advance, TypeOK
    <3>2. /\ \A s \in Slot : s < at'[p] => file'[s] = held'[p][s]
          /\ \A s \in Slot : s > at'[p] => file'[s] = "absent"
          /\ file'[at'[p]] = "absent"
      BY <2>1, <2>3, <2>5, <3>1, Slots
    <3>3. Knows(p)'
      BY <2>1, <2>2, <2>3, <3>1, <3>2
      DEF Tested, NothingYet, Writing, Reading, Done, NoneGiven, Given
    <3> QED BY <1>3, <2>1, <2>2, <3>1, <3>3
  <2> QED BY <2>4, <2>5
<1>12. CASE Return(p)
  <2>1. GivenOnDisk'
    BY <1>12 DEF Return, Done, GivenOnDisk, Given, TypeOK
  <2> QED BY <1>1, <1>12, <2>1, EndKeepsIInv DEF Return
<1> QED
  BY <1>4, <1>5, <1>6, <1>7, <1>8, <1>9, <1>10, <1>11, <1>12 DEF Step

LEMMA IInvNext == Serial /\ IInv /\ [Next]_vars => IInv'
<1> SUFFICES ASSUME Serial, IInv, [Next]_vars
             PROVE  IInv'
  OBVIOUS
<1> USE DEF IInv
<1>1. TypeOK'
  BY TypeNext
<1>2. ASSUME NEW p \in Proc, Call(p)
      PROVE  IInv'
  <2>1. /\ \A q \in Proc : q # p => pc'[q] = "idle"
        /\ pc'[p] = "exists"
        /\ UNCHANGED <<file, at, found, held, answer>>
    BY <1>2 DEF Call, Goto, TypeOK
  <2>2. found[p] = {} /\ at[p] = 1 /\ \A q \in Proc : pc[q] = "idle"
    BY <1>2 DEF Call, Rested
  <2>3. \A s \in Slot : ~(s < 1)
    BY Slots
  <2>4. Knows(p)'
    BY <2>1, <2>2, <2>3 DEF Knows, Tested, NothingYet, Writing, Reading, Done, NoneGiven
  <2>5. \A q \in Proc : Knows(q)'
    BY <2>1, <2>4, IdleKnowsNext
  <2> QED
    BY <1>1, <2>1, <2>2, <2>5 DEF OneCall, GivenOnDisk, Given, Rested
<1>3. ASSUME NEW p \in Proc, Step(p)
      PROVE  IInv'
  BY <1>1, <1>3, StepKeepsIInv
<1>4. ASSUME NEW p \in Proc, Interrupt(p)
      PROVE  IInv'
  <2>1. GivenOnDisk'
    BY <1>4 DEF Interrupt, GivenOnDisk, Given
  <2> QED BY <1>1, <1>4, <2>1, EndKeepsIInv DEF Interrupt
<1>5. CASE Delete
  <2>1. \A p \in Proc : pc'[p] = "idle" /\ ~Given(p)'
    BY <1>5 DEF Delete, Given, locals
  <2>2. \A p \in Proc : Knows(p)'
    BY <2>1, IdleKnowsNext
  <2> QED
    BY <1>1, <1>5, <2>1, <2>2 DEF Delete, locals, OneCall, GivenOnDisk, Rested
<1>6. CASE UNCHANGED vars
  BY <1>1, <1>6
  DEF vars, locals, OneCall, Knows, Tested, NothingYet, Writing, Reading, Done,
      GivenOnDisk, NoneGiven, Given, Rested
<1> QED BY <1>2, <1>3, <1>4, <1>5, <1>6 DEF Next

LEMMA SerialKeepsIInv == Serial => (Spec => []IInv)
<1> SUFFICES ASSUME Serial
             PROVE  Spec => []IInv
  OBVIOUS
<1>1. IInv /\ [Next]_vars => IInv'
  BY IInvNext
<1> QED BY IInvInit, <1>1, PTL DEF Spec

(* Starts that do not overlap are all given the same material, wherever     *)
(* earlier ones were cut short.                                             *)
THEOREM AgreedWhenSerial == Serial => (Spec => []Agreed)
<1>1. IInv => Agreed
  BY DEF IInv, GivenOnDisk, Agreed
<1> QED BY <1>1, SerialKeepsIInv, PTL

(* Starts that do not overlap never overwrite a key.                        *)
THEOREM NeverOverwrittenWhenSerial == Serial => (Spec => NeverOverwritten)
<1> DEFINE Kept == \A s \in Slot : file[s] \in Gen => file'[s] \in {file[s], "absent"}
<1>1. IInv /\ [Next]_vars => [Kept]_vars
  <2> SUFFICES ASSUME IInv, Next
               PROVE  Kept
    BY DEF vars
  <2> USE DEF IInv
  <2>1. ASSUME NEW p \in Proc, Open(p) \/ Fill(p)
        PROVE  Kept
    <3>1. PICK text : file' = [file EXCEPT ![at[p]] = text]
      BY <2>1 DEF Open, Fill
    <3>2. file[at[p]] \notin Gen
      BY <2>1, Contents DEF Open, Fill, Knows, Writing
    <3> QED BY <3>1, <3>2 DEF TypeOK
  <2>2. CASE Delete
    BY <2>2 DEF Delete, Nothing
  <2>3. CASE UNCHANGED file
    BY <2>3
  <2> QED
    BY <2>1, <2>2, <2>3
    DEF Next, Step, Call, Exists, Missing, Incomplete, Complete, Read, Generate, Return,
        Interrupt
<1> QED BY <1>1, SerialKeepsIInv, PTL DEF Spec, NeverOverwritten

\* What fs::write that is never cut short adds to IInv: a file is empty only
\* while its writer is at it, and what was given is all there.
NoneHalfWritten ==
  \A s \in Slot : file[s] = "empty" => \E p \in Proc : pc[p] = "fill" /\ at[p] = s

GivenWhole == \A p \in Proc : Given(p) => \A s \in Slot : file[s] # "absent"

Whole == IInv /\ NoneHalfWritten /\ GivenWhole

LEMMA WholeNext ==
  Serial /\ "torn" \notin Faults /\ Whole /\ [Next]_vars => Whole'
<1> SUFFICES ASSUME Serial, "torn" \notin Faults, Whole, [Next]_vars
             PROVE  Whole'
  OBVIOUS
<1> USE DEF Whole
<1>1. IInv'
  BY IInvNext
<1> USE DEF IInv, TypeOK
<1>2. ASSUME NEW p \in Proc, pc[p] # "fill",
             \A q \in Proc \ {p} : pc'[q] = pc[q] /\ at'[q] = at[q],
             UNCHANGED file
      PROVE  NoneHalfWritten'
  BY <1>2 DEF NoneHalfWritten
<1>3. ASSUME NEW p \in Proc, Call(p) \/ Step(p) \/ Interrupt(p)
      PROVE  /\ \A q \in Proc \ {p} : pc'[q] = pc[q] /\ at'[q] = at[q]
             /\ \A q \in Proc \ {p} : answer'[q] = answer[q]
  BY <1>3 DEF Call, Step, Exists, Missing, Incomplete, Complete, Read, Generate, Open,
              Fill, Return, Interrupt, End, Advance, Goto
<1>4. ASSUME NEW p \in Proc,
             Call(p) \/ Exists(p) \/ Missing(p) \/ Complete(p) \/ Read(p) \/ Generate(p)
      PROVE  Whole'
  <2>1. pc[p] # "fill" /\ UNCHANGED <<file, answer>>
    BY <1>4 DEF Call, Exists, Missing, Complete, Read, Generate
  <2> QED BY <1>1, <1>2, <1>3, <1>4, <2>1 DEF GivenWhole, Given, Step
<1>5. ASSUME NEW p \in Proc, Incomplete(p) \/ Interrupt(p)
      PROVE  Whole'
  <2>1. /\ pc[p] # "fill" /\ UNCHANGED file
        /\ answer'[p] \in {Rejected, answer[p]}
    BY <1>5 DEF Incomplete, Interrupt
  <2>2. GivenWhole'
    BY <1>3, <1>5, <2>1 DEF GivenWhole, Given, Step
  <2> QED BY <1>1, <1>2, <1>3, <1>5, <2>1, <2>2 DEF Step
<1>6. ASSUME NEW p \in Proc, Return(p)
      PROVE  Whole'
  <2>1. pc[p] # "fill" /\ UNCHANGED file /\ \A s \in Slot : file[s] # "absent"
    BY <1>6 DEF Return, Knows, Done
  <2> QED BY <1>1, <1>2, <1>3, <1>6, <2>1 DEF GivenWhole, Step
<1>7. ASSUME NEW p \in Proc, Open(p)
      PROVE  Whole'
  <2>1. /\ file' = [file EXCEPT ![at[p]] = "empty"]
        /\ pc[p] = "open" /\ pc'[p] = "fill" /\ at[p] \in Slot
        /\ UNCHANGED <<at, answer>>
    BY <1>7 DEF Open, Goto
  <2>2. NoneHalfWritten'
    BY <1>3, <1>7, <2>1 DEF NoneHalfWritten, Step
  <2>3. \A q \in Proc : ~Given(q)
    BY <2>1 DEF Knows, NoneGiven
  <2> QED BY <1>1, <2>1, <2>2, <2>3 DEF GivenWhole, Given
<1>8. ASSUME NEW p \in Proc, Fill(p)
      PROVE  Whole'
  <2>1. /\ file' = [file EXCEPT ![at[p]] = held[p][at[p]]]
        /\ pc[p] = "fill" /\ at[p] \in Slot
        /\ UNCHANGED answer
    BY <1>8 DEF Fill
  <2>2. held[p][at[p]] \in Gen
    BY <2>1 DEF Knows, Writing
  <2>3. NoneHalfWritten'
    BY <1>3, <1>8, <2>1, <2>2, Contents DEF NoneHalfWritten, Step
  <2>4. \A q \in Proc : ~Given(q)
    BY <2>1 DEF Knows, NoneGiven
  <2> QED BY <1>1, <2>1, <2>3, <2>4 DEF GivenWhole, Given
<1>9. CASE Delete
  BY <1>1, <1>9 DEF Delete, Nothing, NoneHalfWritten, GivenWhole, Given
<1>10. CASE UNCHANGED vars
  BY <1>1, <1>10 DEF vars, locals, NoneHalfWritten, GivenWhole, Given
<1> QED BY <1>3, <1>4, <1>5, <1>6, <1>7, <1>8, <1>9, <1>10 DEF Next, Step

(* No start that is alone is given an empty file, wherever earlier ones     *)
(* were cut short but inside fs::write: that window is the only one.        *)
THEOREM AnswersCompleteUnlessTorn ==
  Serial /\ "torn" \notin Faults => (Spec => []AnswersComplete)
<1> SUFFICES ASSUME Serial, "torn" \notin Faults
             PROVE  Spec => []AnswersComplete
  OBVIOUS
<1>1. Init => Whole
  BY IInvInit DEF Init, Whole, NoneHalfWritten, GivenWhole, Given, Nothing
<1>2. Whole /\ [Next]_vars => Whole'
  BY WholeNext
<1>3. Whole => AnswersComplete
  <2> SUFFICES ASSUME Whole, NEW p \in Proc, Given(p), NEW s \in Slot
               PROVE  answer[p][s] \in Gen
    BY DEF AnswersComplete
  <2> USE DEF Whole, IInv
  <2>1. answer[p] = file /\ file[s] # "absent"
    BY DEF GivenOnDisk, GivenWhole
  <2>2. file[s] # "empty"
    BY DEF NoneHalfWritten, Knows, NoneGiven
  <2> QED BY <2>1, <2>2 DEF TypeOK, Content
<1> QED BY <1>1, <1>2, <1>3, PTL DEF Spec

-----------------------------------------------------------------------------
(* Calls one at a time: Pki implements PkiStore.                            *)

Writer == \E p \in Proc : pc[p] \in {"open", "fill"}

Full == \A s \in Slot : file[s] # "absent"

(* The files of one run are the material of that run, and no run's material *)
(* is taken for another, for a refusal or for nothing.                      *)
LEMMA Materials ==
  /\ \A g \in Gen : \A f : f = [s \in Slot |-> g] => IsMaterial(f) /\ Material(f) = g
  /\ \A f : IsMaterial(f) => f # Nothing /\ f # Rejected /\ Material(f) \in Gen
  /\ Nothing # Rejected
<1>1. 1 \in Slot
  BY Slots
<1>2. \A g, h : [s \in Slot |-> g] = [s \in Slot |-> h] => g = h
  BY <1>1
<1>3. ASSUME NEW g \in Gen, NEW f, f = [s \in Slot |-> g]
      PROVE  IsMaterial(f) /\ Material(f) = g
  BY <1>2, <1>3 DEF IsMaterial, Material
<1>4. ASSUME NEW f, IsMaterial(f)
      PROVE  f # Nothing /\ f # Rejected /\ Material(f) \in Gen
  BY <1>2, <1>4, Contents DEF IsMaterial, Material, Nothing, Rejected
<1>5. Nothing # Rejected
  <2>1. Nothing[1] = "absent" /\ Rejected[1] = "rejected"
    BY <1>1 DEF Nothing, Rejected
  <2> QED BY <2>1
<1> QED BY <1>3, <1>4, <1>5

(* What the store is while nobody writes.                                   *)
LEMMA QuietStore ==
  /\ file = Nothing => StoreValue = "none"
  /\ IsMaterial(file) => StoreValue = Material(file)
  /\ ~IsMaterial(file) /\ Writer => StoreValue = "none"
  /\ ~IsMaterial(file) /\ file # Nothing /\ ~Writer
       => StoreValue = IF Full THEN "torn" ELSE "broken"
BY Materials DEF StoreValue, Writer, Full

LEMMA QuietStoreNext ==
  /\ file' = Nothing => StoreValue' = "none"
  /\ IsMaterial(file') => StoreValue' = Material(file')
  /\ ~IsMaterial(file') /\ Writer' => StoreValue' = "none"
  /\ ~IsMaterial(file') /\ file' # Nothing /\ ~Writer'
       => StoreValue' = IF Full' THEN "torn" ELSE "broken"
<1>1. StoreValue' = IF IsMaterial(file') THEN Material(file')
                    ELSE IF file' = Nothing \/ Writer' THEN "none"
                    ELSE IF Full' THEN "torn" ELSE "broken"
  BY DEF StoreValue, IsMaterial, Material, Writer, Nothing, Full
<1> QED BY <1>1, Materials

(* A step that leaves the answers and the store alone is a stutter.         *)
LEMMA AnswersStay ==
  ASSUME UNCHANGED answer
  PROVE  [p \in Proc |-> AnswerValue(p)]' = [p \in Proc |-> AnswerValue(p)]
BY DEF AnswerValue, Given, IsMaterial, Material, Nothing, Rejected

(* An answer given to caller p is the abstract answer.                      *)
LEMMA AnswerGiven ==
  ASSUME NEW p \in Proc, NEW f, answer \in [Proc -> [Slot -> Content] \cup {Rejected}],
         answer' = [answer EXCEPT ![p] = f]
  PROVE  LET val == IF f = Nothing THEN "none" ELSE IF f = Rejected THEN "rejected"
                    ELSE IF IsMaterial(f) THEN Material(f) ELSE "torn"
         IN  [q \in Proc |-> AnswerValue(q)]'
               = [[q \in Proc |-> AnswerValue(q)] EXCEPT ![p] = val]
BY DEF AnswerValue, Given, IsMaterial, Material, Nothing, Rejected

(* When calls do not overlap, one set of material is created and given to   *)
(* every call, and a creation that was cut short is rejected by every call, *)
(* until delete; only fs::write leaving a file empty can go unnoticed.      *)
THEOREM StoreImplemented == Serial => (Spec => ImplementsStore)
<1> SUFFICES ASSUME Serial
             PROVE  Spec => ImplementsStore
  OBVIOUS
<1>1. Init => Store!Init
  <2> SUFFICES ASSUME Init
               PROVE  Store!Init
    OBVIOUS
  <2>1. StoreValue = "none"
    BY QuietStore DEF Init
  <2>2. \A p \in Proc : AnswerValue(p) = "none"
    BY DEF Init, AnswerValue
  <2> QED BY <2>1, <2>2 DEF Store!Init
<1>2. IInv /\ [Next]_vars => [Store!Next]_(Store!vars)
  <2> SUFFICES ASSUME IInv, [Next]_vars
               PROVE  Store!Next \/ UNCHANGED <<StoreValue, [p \in Proc |-> AnswerValue(p)]>>
    BY DEF Store!vars
  <2> USE DEF IInv
  <2>1. ASSUME UNCHANGED answer, StoreValue' = StoreValue
        PROVE  UNCHANGED <<StoreValue, [p \in Proc |-> AnswerValue(p)]>>
    BY <2>1, AnswersStay
  <2>2. ASSUME UNCHANGED <<file, answer>>, Writer' <=> Writer
        PROVE  UNCHANGED <<StoreValue, [p \in Proc |-> AnswerValue(p)]>>
    BY <2>1, <2>2 DEF StoreValue, Writer
  <2>3. ASSUME NEW p \in Proc, pc[p] \notin {"idle", "open", "fill"}
        PROVE  ~Writer
    BY <2>3 DEF OneCall, Writer
  <2>4. ASSUME NEW p \in Proc, Call(p)
        PROVE  UNCHANGED <<StoreValue, [q \in Proc |-> AnswerValue(q)]>>
    BY <2>2, <2>4 DEF Call, Goto, Writer, TypeOK
  <2>5. ASSUME NEW p \in Proc, Exists(p) \/ Missing(p) \/ Complete(p) \/ Read(p)
        PROVE  UNCHANGED <<StoreValue, [q \in Proc |-> AnswerValue(q)]>>
    <3>1. UNCHANGED <<file, answer>> /\ ~Writer
      BY <2>3, <2>5 DEF Exists, Missing, Complete, Read
    <3>2. ~Writer'
      BY <2>5, <3>1 DEF Exists, Missing, Complete, Read, Advance, Goto, Writer, TypeOK
    <3> QED BY <2>2, <3>1, <3>2
  <2>6. ASSUME NEW p \in Proc, Incomplete(p)
        PROVE  Store!Reject(p)
    <3>1. ~Writer /\ UNCHANGED file /\ answer' = [answer EXCEPT ![p] = Rejected]
      BY <2>3, <2>6 DEF Incomplete
    <3>2. ~Writer'
      BY <2>6, <3>1 DEF Incomplete, End, Goto, Writer, TypeOK
    <3>3. (\E s \in Slot : file[s] = "absent") /\ file # Nothing
      BY <2>6, Slots DEF Incomplete, Knows, Tested, Nothing, TypeOK
    <3>4. ~IsMaterial(file)
      BY <3>3, Contents DEF IsMaterial
    <3>5. StoreValue = "broken" /\ StoreValue' = "broken"
      BY <3>1, <3>2, <3>3, <3>4, QuietStore, QuietStoreNext DEF Full
    <3>6. [q \in Proc |-> AnswerValue(q)]'
            = [[q \in Proc |-> AnswerValue(q)] EXCEPT ![p] = "rejected"]
      BY <3>1, AnswerGiven, Materials DEF TypeOK
    <3> QED BY <3>5, <3>6 DEF Store!Reject
  <2>7. ASSUME NEW p \in Proc, Generate(p)
        PROVE  UNCHANGED <<StoreValue, [q \in Proc |-> AnswerValue(q)]>>
    <3>1. file = Nothing /\ UNCHANGED <<file, answer>>
      BY <2>7 DEF Generate, Knows, NothingYet
    <3> QED BY <2>1, <3>1, QuietStore, QuietStoreNext
  <2>8. ASSUME NEW p \in Proc, pc[p] \in {"open", "fill"}
        PROVE  ~IsMaterial(file) /\ Writer
    <3>1. \E s \in Slot : file[s] \in {"absent", "empty"}
      BY <2>8 DEF Knows, Writing, TypeOK
    <3> QED BY <2>8, <3>1, Contents DEF IsMaterial, Writer
  <2>9. ASSUME NEW p \in Proc, Open(p)
        PROVE  UNCHANGED <<StoreValue, [q \in Proc |-> AnswerValue(q)]>>
    <3>1. StoreValue = "none"
      BY <2>8, <2>9, QuietStore DEF Open
    <3>2. Writer' /\ file'[at[p]] = "empty" /\ at[p] \in Slot
      BY <2>9 DEF Open, Goto, Writer, TypeOK
    <3>3. ~IsMaterial(file')
      BY <3>2, Contents DEF IsMaterial
    <3>4. StoreValue' = "none"
      BY <3>2, <3>3, QuietStoreNext
    <3> QED BY <2>1, <2>9, <3>1, <3>4 DEF Open
  <2>10. ASSUME NEW p \in Proc, Fill(p)
         PROVE  Store!Create \/ UNCHANGED <<StoreValue, [q \in Proc |-> AnswerValue(q)]>>
    <3>1. StoreValue = "none" /\ UNCHANGED answer
      BY <2>8, <2>10, QuietStore DEF Fill
    <3>2. PICK g \in Gen : held[p] = [s \in Slot |-> g]
      BY <2>10 DEF Fill, Knows, Writing
    <3>3. CASE at[p] = 4
      <4>1. \A s \in Slot : file'[s] = g
        BY <2>10, <3>2, <3>3, Slots DEF Fill, Knows, Writing, TypeOK
      <4>2. file' = [s \in Slot |-> g]
        BY <2>10, <4>1 DEF Fill, TypeOK
      <4>3. StoreValue' = g
        BY <4>2, Materials, QuietStoreNext
      <4> QED BY <3>1, <4>3, AnswersStay DEF Store!Create
    <3>4. CASE at[p] # 4
      <4>1. Writer' /\ at[p] + 1 \in Slot
        BY <2>10, <3>4, Slots DEF Fill, Advance, Goto, Writer, TypeOK
      <4>2. file'[at[p] + 1] = "absent"
        BY <2>10, <4>1, Slots DEF Fill, Knows, Writing, TypeOK
      <4>3. ~IsMaterial(file')
        BY <4>1, <4>2, Contents DEF IsMaterial
      <4> QED BY <2>1, <3>1, <4>1, <4>3, QuietStoreNext
    <3> QED BY <3>3, <3>4
  <2>11. ASSUME NEW p \in Proc, Return(p)
         PROVE  Store!Load(p)
    <3>1. /\ answer' = [answer EXCEPT ![p] = file]
          /\ UNCHANGED file
          /\ ~Writer
          /\ \A s \in Slot : file[s] # "absent"
      BY <2>3, <2>11 DEF Return, Knows, Done
    <3>2. file # Nothing /\ file # Rejected
      BY <3>1, Slots, Contents DEF Nothing, Rejected, TypeOK, Content
    <3> DEFINE val == IF IsMaterial(file) THEN Material(file) ELSE "torn"
    <3>3. val \in Gen \cup {"torn"} /\ StoreValue = val
      BY <3>1, <3>2, QuietStore, Materials DEF Full
    <3>4. ~Writer'
      BY <2>11, <3>1 DEF Return, End, Goto, Writer, TypeOK
    <3>5. StoreValue' = StoreValue
      BY <3>1, <3>2, <3>3, <3>4, QuietStoreNext DEF Full
    <3>6. [q \in Proc |-> AnswerValue(q)]'
            = [[q \in Proc |-> AnswerValue(q)] EXCEPT ![p] = val]
      BY <3>1, <3>2, AnswerGiven DEF TypeOK
    <3> QED BY <3>3, <3>5, <3>6 DEF Store!Load
  <2>12. ASSUME NEW p \in Proc, Interrupt(p)
         PROVE  Store!Break \/ UNCHANGED <<StoreValue, [q \in Proc |-> AnswerValue(q)]>>
    <3>1. UNCHANGED <<file, answer>> /\ ~Writer' /\ pc[p] # "idle"
      BY <2>12 DEF Interrupt, End, Goto, OneCall, Writer, TypeOK
    <3>2. CASE pc[p] \notin {"open", "fill"}
      BY <2>2, <2>3, <3>1, <3>2
    <3>3. CASE pc[p] \in {"open", "fill"}
      <4>1. StoreValue = "none" /\ ~IsMaterial(file)
        BY <2>8, <3>3, QuietStore
      <4>2. CASE file = Nothing
        BY <2>1, <3>1, <4>1, <4>2, QuietStoreNext
      <4>3. CASE file # Nothing
        <5>1. Full' => "torn" \in Faults
          BY <2>12, <3>1, <3>3 DEF Interrupt, Knows, Writing, Full, TypeOK
        <5>2. StoreValue' = IF Full' THEN "torn" ELSE "broken"
          BY <3>1, <4>1, <4>3, QuietStoreNext
        <5> QED BY <3>1, <4>1, <5>1, <5>2, AnswersStay DEF Store!Break
      <4> QED BY <4>2, <4>3
    <3> QED BY <3>2, <3>3
  <2>13. CASE Delete
    <3>1. StoreValue' = "none"
      BY <2>13, QuietStoreNext DEF Delete
    <3>2. \A p \in Proc : AnswerValue(p)' = "none"
      BY <2>13 DEF Delete, AnswerValue
    <3> QED BY <3>1, <3>2 DEF Store!Next, Store!Delete
  <2>14. CASE UNCHANGED vars
    BY <2>2, <2>14 DEF vars, locals, Writer
  <2> QED
    BY <2>4, <2>5, <2>6, <2>7, <2>9, <2>10, <2>11, <2>12, <2>13, <2>14
    DEF Next, Step, Store!Next
<1> QED
  BY <1>1, <1>2, SerialKeepsIInv, PTL DEF Spec, ImplementsStore, Store!Spec
=============================================================================
