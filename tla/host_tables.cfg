\* Small tables of every kind.
CONSTANTS
  Address = {a1, a2}
  Width = 3
  LeaseFiles <- SmallLeaseFiles
  ArpTables <- SmallArpTables
  RouteTables <- SmallRouteTables
SPECIFICATION Spec
INVARIANTS TypeOK FirstLease FirstConflict
