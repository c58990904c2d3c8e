\* Two process incarnations: crash, take-over, a deposed leader still running.
SPECIFICATION Spec
CONSTANTS
  Keys = {k1, k2}
  Txns = {t1, t2}
  Backends = {b1, b2}
  MaxTs = 3
  MaxLease = 2
  WriteLogRetention = 0
  NoBackend = NoBackend
SYMMETRY Symmetry
CHECK_DEADLOCK FALSE
INVARIANTS
  Serializable
  OutcomeTruthful
  RealTimeOrder
PROPERTIES
  RepeatableReads
  ImplementsStore
