SPECIFICATION MCSpec
CONSTANTS
  Procs = {p1, p2}
  Pids = {i1, i2, i3, i4}
  None = None
  Units <- AllTypes
  InitReaps = TRUE
  Timely = TRUE
  Children = {c1, c2, c3}
  Nobody = Nobody
  Timeout = 2
  MaxMessages = 2
SYMMETRY Symmetry
INVARIANTS
  TypeOK
  RunningIsRecorded
  SingleInstance
  StopLeavesNothing
  ActiveNamesMain
  OneTask
  OneshotSettles
  ReadyIsOwn
PROPERTIES
  RuntimeDirStays
CHECK_DEADLOCK FALSE
