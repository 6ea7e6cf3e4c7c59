\* Every fault, across boots.
CONSTANTS
  Address = {a1, a2}
  Faults = {"interrupt", "nomount", "delete", "silent"}
SPECIFICATION FairSpec
INVARIANTS TypeOK FoundOnceReported
PROPERTIES DiscoveryEnds 
