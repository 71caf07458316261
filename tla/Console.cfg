CONSTANTS
  Launches = 2
  MaxLosses = 1
SPECIFICATION FairSpec
INVARIANTS
  ConsoleTypeOK
  OneInterval
  SpinnerHasReason
  ShownIsCurrent
PROPERTY EndIsSeen
\* Both launches are over and both jobs have a report.
CHECK_DEADLOCK FALSE
