\* Two tasks of one table that begin at one timestamp, and two failures.
SPECIFICATION Spec
CONSTANTS
  NumIndexes = 3
  TabletOf <- MCTablets
  MaxConcurrency = 2
  MaxClock = 6
  MaxFailures = 2
CONSTRAINT Shared
CHECK_DEADLOCK FALSE
INVARIANT CopiesBeforeRetention
