SPECIFICATION Spec
CONSTANTS
  MaxDepth = 3
  MaxVolumes = 3
INVARIANTS
  TypeOK
  OpenHandlersCanRead
  NothingLeaks
  InnerFailureKeepsOuter
  NoJavaCallAfterThrow
PROPERTIES InnerClosedFirst
  ImplementsOwnership
\* The archive is closed, or was never opened, and is not used again.
CHECK_DEADLOCK FALSE
