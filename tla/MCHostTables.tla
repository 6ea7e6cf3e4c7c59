---------------------------- MODULE MCHostTables ----------------------------
(* HostTables on small instances: see the configurations of this module.    *)
EXTENDS HostTables, SequencesExt

\* Every file of at most five words, and every pair of records of two words.
Plain == {w \in Word : ~Brace(w)}
Record == {<<[key |-> "open", val |-> "none"]>> \o body \o <<[key |-> "close", val |-> "none"]>> :
             body \in BoundedSeq(Plain, 2)}
SmallLeaseFiles == BoundedSeq(Word, 5) \cup {r \o s : r, s \in Record}
SmallArpTables == BoundedSeq(Line, 3)
NoTables == {}
SmallRouteTables == BoundedSeq(Block, 2)
=============================================================================
