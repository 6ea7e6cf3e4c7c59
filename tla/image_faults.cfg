\* Every fault, every size.
CONSTANTS
  ImageGib = 2
  Gib <- SmallSizes
  Wrap = 8
  Faults = {"interrupt", "junk", "edit"}
SPECIFICATION FairSpec
INVARIANTS TypeOK OkOpens OkComplete
PROPERTIES KeepsGuestDisks Recovers
