SPECIFICATION FairSpec
CONSTANTS
  c1 = c1
  c2 = c2
  p1 = p1
  Calls = {c1, c2}
  Paths = {p1}
  PathOf <- OnePath
  MaxGens = 2
  Tools <- BothTools
  Aborts = TRUE
  None = None
CHECK_DEADLOCK FALSE
INVARIANTS
  TypeOK
  NoUnsettledExit
  AnswersBelong
  QueueExcludes
PROPERTY ImplementsToolCall
