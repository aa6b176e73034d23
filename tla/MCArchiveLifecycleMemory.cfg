SPECIFICATION Spec
CONSTANTS
  MaxDepth = 3
  MaxVolumes = 3
\* The archive is closed, or was never opened, and is not used again.
INVARIANT NoJavaCallWhilePending
CHECK_DEADLOCK FALSE
