SPECIFICATION Spec
CONSTANTS
  Procs = {p1, p2}
  Units = {1, 2}
  Instances = {1, 2}
  Lists <- AnyUnits
  Pids = {i1, i2}
  None = None
  Ops = {"start", "stop"}
  Crashes = {}
  Reuse = FALSE
PROPERTIES
  StopsOnlyMatched
