SPECIFICATION Spec
CONSTANTS
  Procs = {p1, p2}
  Pids = {i1, i2, i3}
  None = None
  Units <- NoPidFile
  InitReaps = TRUE
  Timely = TRUE
SYMMETRY Symmetry
PROPERTIES
  StopStopsTheGroup
