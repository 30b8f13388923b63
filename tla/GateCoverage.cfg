SPECIFICATION Spec
CONSTANTS
  c1 = c1
  c2 = c2
  Calls = {c1, c2}
  None = None
  InitLines = 3
  MaxLines = 3
  MaxVer = 2
  Windows <- SmallWindows
  EditShapes <- SmallEdits
  WriteSizes = {1, 3}
  ReadMax = 1
  CompactLines = 4
  BigLines = 1
  BigWindow = 1
  ExternalInFlight = TRUE
  HiddenWrites = TRUE
SYMMETRY CallSymmetry
CHECK_DEADLOCK FALSE
INVARIANTS
  TypeOK
  TightCoverageInContext
  NoGuardDeadlock
PROPERTY EditReplacesShown
