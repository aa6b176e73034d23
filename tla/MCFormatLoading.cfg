SPECIFICATION FairSpec
CONSTANTS
  Tables <- MCTables
  MaxAttempts = 2
INVARIANTS
  TypeOK
  TableIsExact
  NativesAreUsable
PROPERTIES
  LoadAdvances
  LoadEnds
\* The library is loaded, or is not tried again.
CHECK_DEADLOCK FALSE
