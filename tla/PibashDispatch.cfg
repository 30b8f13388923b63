SPECIFICATION FairSpec
CONSTANTS
  c1 = c1
  c2 = c2
  Calls = {c1, c2}
  MaxGens = 2
  MaxLost = 2
  Endings <- AllOrNone
  None = None
CHECK_DEADLOCK FALSE
INVARIANTS
  TypeOK
  RunsOnceUnlessLost
PROPERTIES
  AbortEndsDaemonRung
  Settles
