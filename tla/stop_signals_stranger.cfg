\* One command at a time; an ordinary program recycles the pid.
CONSTANTS
  Cli = {c1, c2}
  Pid = {p1, p2}
  Commands = {"start", "stop"}
  Faults = {"strangers"}
  Serial = TRUE
SPECIFICATION Spec
PROPERTIES StopSignalsOnlyTheVm
SYMMETRY Symmetry
