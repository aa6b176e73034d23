SPECIFICATION Spec
CONSTANTS
  NEntries = 3
  NChunks = 2
INVARIANTS
  TypeOK
  OnlyTheEntryAskedFor
  SuccessIsComplete
  SinkClosedAtTheEnd
  PasswordExceptionHasCause
PROPERTIES SinkProtocol
  ImplementsDelivery
\* The call returns once and does nothing more.
CHECK_DEADLOCK FALSE
