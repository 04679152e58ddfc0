SPECIFICATION Spec
CONSTANTS
  Procs = {p1, p2}
  Pids = {i1, i2, i3}
  None = None
  Ops = {"start", "stop", "is-active", "reset-failed"}
  Visible = {1}
SYMMETRY Symmetry
INVARIANTS
  TypeOK
  RecordedUnlessExposed
  OnceUnlessExposed
  ReadsAreOfThisBoot
