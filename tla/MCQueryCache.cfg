SPECIFICATION FairSpec
CONSTANTS
  r1 = r1
  r2 = r2
  Requests = {r1, r2}
  NumIdentities = 2
  NumPages = 1
  MaxTs = 1
  MaxWaitingId = 3
  MaxFaults = 1
CHECK_DEADLOCK FALSE
INVARIANTS
  AnswersTrue
  NoOrphanedEntry
PROPERTIES
  EventuallyAnswered
