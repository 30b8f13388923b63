SPECIFICATION Spec
CONSTANTS
  Calls = {c1}
  c1 = c1
  None = None
  InitLines = 2
  MaxLines = 3
  MaxVer = 1
  Windows <- DisjointWindows
  EditShapes <- PlainEdits
  WriteSizes = {2}
  ReadMax = 10
  CompactLines = 0
  BigLines = 3
  BigWindow = 1
  ExternalInFlight = FALSE
  HiddenWrites = FALSE
CHECK_DEADLOCK FALSE
INVARIANT CoverageInContext
