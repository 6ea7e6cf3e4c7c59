\* One command at a time; the VM is started through autoconfigure only.
CONSTANTS
  Cli = {c1}
  Pid = {p1, p2, p3}
  Commands = {"autoconfigure", "stop", "status"}
  Faults = {"crash", "reboot", "strangers", "nokill", "vfkits"}
  Serial = TRUE
SPECIFICATION FairSpec
INVARIANTS Tracked AtMostOneVm
PROPERTIES NeverForgotten StopSparesOthers ImplementsSlot StopEndsVm SharedDisksEnd
