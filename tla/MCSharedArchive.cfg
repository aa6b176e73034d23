SPECIFICATION Spec
CONSTANTS
  Calls = {c1, c2}
  Client = Client
  NEntries = 2
  EntrySize = 3
  ARRAY_SIZE = 2
INVARIANTS
  TypeOK
  UseNeedsARace
  ClosedForGood
  ExtractsItsOwnBytes
PROPERTY ImplementsClosable
SYMMETRY Symmetry
\* An undefined state is the end.
CHECK_DEADLOCK FALSE
