SPECIFICATION OutputSpec
CONSTANTS
  MaxLines = 6
  MaxBytes = 8
  CapLines = 6
  CapBytes = 8
  Words <- WideWords
  MaxWrites = 2
  StructLimit = 9
  Timeout = FALSE
  Unset = Unset
INVARIANT DecodedOnce
