\* The guest answers on ready.sock before Incus is set up.
CONSTANTS
  Address = {a1, a2}
  Faults = {}
SPECIFICATION Spec
PROPERTIES SignalMeansProvisioned
SYMMETRY Symmetry
