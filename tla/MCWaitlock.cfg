SPECIFICATION MCSpec
CONSTANTS
  Procs = {p1, p2}
  Inodes = {i1, i2, i3}
  MaxWait = 3
  AllowUnlink = TRUE
  Pids = {j1, j2}
  None = None
INVARIANTS
  TypeOK
  ExclusionUnlessRobbed
  ContentNamesHolder
PROPERTIES
  CallsReturn
  MutexSpec
