SPECIFICATION Spec
CONSTANTS
  common = common
  own = own
  requires = requires
  Procs = {p1, p2}
  NFolders = 2
  Dirs = {common, own, requires}
  Common = {common}
  NPresets = 2
  None = None
  InitFiles <- TheFiles
  InitLinks <- TheLinks
  InitPresets <- ThePresets
  Crashes = TRUE
  Failures = TRUE
SYMMETRY Symmetry
INVARIANTS
  TypeOK
  LinkStays
  DisableClears
  AnswersTruly
PROPERTIES
  ForeignStays
