\* Calls one at a time, one interrupted inside fs::write.
CONSTANTS
  Proc = {s1, s2}
  Gen = {g1, g2}
  Serial = TRUE
  Faults = {"interrupt", "torn"}
SPECIFICATION Spec
INVARIANTS AnswersComplete
SYMMETRY Symmetry
