SPECIFICATION OutputSpec
CONSTANTS
  MaxLines = 6
  MaxBytes = 8
  CapLines = 6
  CapBytes = 8
  Words <- MixedWords
  MaxWrites = 3
  StructLimit = 9
  Timeout = TRUE
  Unset = Unset
INVARIANTS OutputTypeOK StreamKept SnapshotIsTail ErrorLinesSurvive
PROPERTY Returns
