\* Two managers that lag each other, subscriptions that share a slot.
SPECIFICATION FairSpec
CONSTANTS
  s1 = s1
  s2 = s2
  m1 = m1
  m2 = m2
  Subs = {s1, s2}
  Managers = {m1, m2}
  Keys = {k1}
  MaxTs = 2
  WriteLogRetention = 0
  QueueSize = 1
CONSTRAINT Explored
CHECK_DEADLOCK FALSE
INVARIANTS
  ManagersInRetention
  ExtendSound
  InvalidatedForCause
  ValiditySound
PROPERTIES
  EventuallyInvalidated
