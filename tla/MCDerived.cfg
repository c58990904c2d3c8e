\* Two documents, a change while the index is copied, a failed task or a restart;
\* two tablets of one name, and a restart.
SPECIFICATION MCSpec
CONSTANTS
  NumIds = 2
  NumValues = 1
  Workers = 2
  Delay = 2
  MaxChanges = 1
  MaxTs = 6
  MaxFailures = 1
  t1 = t1
  t2 = t2
  NoTablet = NoTablet
  NoSummaries = NoSummaries
  Failed = Failed
CHECK_DEADLOCK FALSE
INVARIANTS
  OwnRetentionComplete
  BackfilledReadable
  SummariesExact
  PurgedOutOfRetention
