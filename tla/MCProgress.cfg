SPECIFICATION MCSpec
CHECK_DEADLOCK FALSE
PROPERTIES
  CommitsResolve
  EventuallyFresh
  EveryCallResolves
  IndexesBackfilled
