SPECIFICATION Spec
CONSTANTS
  Bytes = 2
  FILE_TIME_OFFSET = 100
  FILE_TIME_MULTIPLE = 10
  Texts <- MCTexts
INVARIANTS
  TypeOK
  TypeNamesTheGetter
  NumbersAreExact
  TextIsFaithful
PROPERTY AnswersOnlyWhileOpen
\* The client makes its two calls and stops.
CHECK_DEADLOCK FALSE
