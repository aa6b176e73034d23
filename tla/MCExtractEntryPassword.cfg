SPECIFICATION Spec
CONSTANTS
  NEntries = 3
  NChunks = 2
INVARIANT WrongPasswordIsWrong
CHECK_DEADLOCK FALSE
