SPECIFICATION Spec
CONSTANTS
  Formats <- MCFormats
  Contents <- MCContents
  NoFormat = NoFormat
INVARIANT OpenedForItsSignature
CHECK_DEADLOCK FALSE
