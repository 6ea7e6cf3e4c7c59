\* Small lease files; no other table.
CONSTANTS
  Address = {a1}
  Width = 0
  LeaseFiles <- SmallLeaseFiles
  ArpTables <- NoTables
  RouteTables <- NoTables
SPECIFICATION Spec
INVARIANTS NoLeaseNoAnswer
