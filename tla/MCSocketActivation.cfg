SPECIFICATION FairSpec
CONSTANTS
  s1 = s1
  s2 = s2
  s3 = s3
  Sockets = {s1, s2, s3}
  Listen <- Options
  Address <- Addresses
  Services <- OneKind
  Acceptors = {a1, a2}
  Starters = {b1, b2}
  None = None
INVARIANTS
  TypeOK
  RunsOnceUnlessOverlapped
PROPERTIES
  AllEnds
  ServicesStart
CHECK_DEADLOCK FALSE
