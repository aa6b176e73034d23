SPECIFICATION FairSpec
CONSTANTS
  Contents <- MCContents
  ARRAY_SIZE = 2
  MaxPosition = 5
INVARIANTS
  TypeOK
  ReadsAreContiguous
PROPERTIES
  ImplementsFile
  CallsEnd
