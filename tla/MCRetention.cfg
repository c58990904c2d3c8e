\* One document whose indexed value changes, all interleavings.
SPECIFICATION Spec
CONSTANTS
  Ids = {d1}
  Values = {v1, v2}
  Deleted = Deleted
  MaxTs = 4
  Delay <- NoDelay
SYMMETRY Symmetry
CHECK_DEADLOCK FALSE
INVARIANTS
  AcceptedReadsTrue
  NoDanglingReference
  NoSkippedRevision
