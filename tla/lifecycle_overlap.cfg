\* Overlapping invocations that start, delete and are killed.
CONSTANTS
  Cli = {c1, c2}
  Pid = {p1, p2}
  Commands = {"start", "autoconfigure", "delete"}
  Faults = {"crash", "vfkits", "nops"}
  Serial = FALSE
SPECIFICATION FairSpec
INVARIANTS TypeOK
PROPERTIES DeadVmEndsDiscovery
