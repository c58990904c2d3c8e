SPECIFICATION MCSpec
CONSTANTS
    Instances = {"fair", "restarted", "vectors", "import", "retried", "canceled"}
CHECK_DEADLOCK FALSE
INVARIANTS
  SegmentsExact
  SearchExact
PROPERTIES
  BackfillEnds
  NoPartialData
  ImportEnds
