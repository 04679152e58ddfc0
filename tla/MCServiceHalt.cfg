SPECIFICATION Spec
CONSTANTS
  Procs = {p1, p2}
  Pids = {i1, i2, i3}
  None = None
  Units <- Halted
  InitReaps = TRUE
  Timely = TRUE
SYMMETRY Symmetry
INVARIANTS
  NoParallelOperations
