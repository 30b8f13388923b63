SPECIFICATION Spec
CONSTANTS
  AutoExit = TRUE
  MaxWriteFailures = 2
  StallAfter = 1
  MaxClock = 1
  MaxTools = 1
  MaxSteers = 1
  MaxKids = 1
  None = None
CHECK_DEADLOCK FALSE
INVARIANTS
  TypeOK
  UnflushedIsScheduled
  SteerHolds
  QuestionKept
PROPERTY StallMeansSilence
