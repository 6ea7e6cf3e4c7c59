\* One command at a time: start twice.
CONSTANTS
  Cli = {c1, c2}
  Pid = {p1, p2}
  Commands = {"start"}
  Faults = {}
  Serial = TRUE
SPECIFICATION Spec
INVARIANTS Tracked
SYMMETRY Symmetry
