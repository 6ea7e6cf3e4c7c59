\* One command at a time, cut short anywhere, between VMs that die and move.
CONSTANTS
  Proc = {s1, s2}
  Gen = {g1, g2}
  Address = {a1, a2}
  Serial = TRUE
  Faults = {"interrupt", "torn"}
SPECIFICATION RemoteFairSpec
INVARIANTS TypeOK Agreed RemoteTypeOK GuestTrustsClient WiredUntilMoved SuccessMeansWired
PROPERTIES NeverOverwritten ImplementsStore Heals
