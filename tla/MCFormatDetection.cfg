SPECIFICATION FairSpec
CONSTANTS
  Formats <- MCFormats
  Contents <- MCContents
  NoFormat = NoFormat
INVARIANTS
  TypeOK
  TriedAtMostOnce
  VerdictIsJustified
PROPERTIES
  MatchingFormatsFirst
  NothingAfterDecision
  Terminates
  ImplementsChoice
\* The search returns once and does nothing more.
CHECK_DEADLOCK FALSE
