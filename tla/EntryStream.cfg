SPECIFICATION Spec
INVARIANT ReturnedStreamIsLive
CHECK_DEADLOCK FALSE
