SPECIFICATION FairSpec
CONSTANTS
  Notices = {n1, n2}
  MaxAttempts = 3
  MaxFaults = 1
INVARIANTS
  TypeOK
  ShownIsTrue
  FailedIsFinal
PROPERTIES
  ReadStaysRead
  QueuedIsResolved
CHECK_DEADLOCK FALSE
