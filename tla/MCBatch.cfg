SPECIFICATION Spec
CONSTANTS
  Procs = {p1, p2}
  Units = {1, 2}
  Instances = {}
  Lists <- BothUnits
  Pids = {i1, i2}
  None = None
  Ops = {"restart"}
  Crashes = {"record", "flush"}
  Reuse = FALSE
SYMMETRY Symmetry
INVARIANTS
  TypeOK
  WaitsEmptyHanded
PROPERTIES
  EachUnitAlone
  StopsOnlyMatched
