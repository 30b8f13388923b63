SPECIFICATION Spec
CONSTANTS
  p1 = p1
  p2 = p2
  s1 = s1
  s2 = s2
  rerun = rerun
  Fallback = fallback
  Procs = {p1, p2}
  SidOf <- OwnSid
  Families = {rerun}
  InitStore <- LegacyRows
  Floor = {rerun}
  CompactLines = 2
  Threshold = 4
  MaxRows = 5
  None = None
INVARIANTS
  TypeOK
  LessonsEarned
  KeepsUnraced
