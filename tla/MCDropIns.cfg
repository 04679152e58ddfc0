SPECIFICATION MCSpec
CONSTANTS
  Parts = {"file"}
  N = 3
  Units = {u1, u2, u3}
  Root = u1
  Declarable <- TheDeclarable
  Names = {"A", "B", "PATH", "LANG"}
  Words = {"w", "/bin"}
  Locale = {"LANG"}
  MaxRounds = 4
  Givens <- TheGivens
  Folders = 2
  DropIns <- TheDropIns
  Included <- TheIncluded
  Sections = {"GLOBAL", "S"}
  Options = {"x", "y"}
  Texts <- TheTexts
  Missing = Missing
  MaxOpen = 3
  Layouts <- TheLayouts
  Calls <- TheCalls
  Place <- ThePlaces
  None = None
INVARIANTS
  DropInsOverride
CHECK_DEADLOCK FALSE
