SPECIFICATION Spec
CONSTANTS
  NEntries = 3
  NChunks = 2
INVARIANT CloseFailureIsReported
CHECK_DEADLOCK FALSE
