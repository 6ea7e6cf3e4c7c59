\* No fault; the VM boots with another address.
CONSTANTS
  Proc = {s1, s2}
  Gen = {g1, g2}
  Address = {a1, a2}
  Serial = TRUE
  Faults = {}
SPECIFICATION RemoteSpec
PROPERTIES PrintedRemoteIsSet
SYMMETRY Symmetry
