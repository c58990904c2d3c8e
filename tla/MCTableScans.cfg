\* Two tables, pages of one document, two commits during the walk.
SPECIFICATION MCSpec
CONSTANTS
    Tables = {"a", "b"}
    TableOf <- MCTableOf
    NumValues = 2
    PageSize = 1
    MaxTs = 3
CHECK_DEADLOCK FALSE
INVARIANTS
  YieldsSnapshot
  DocumentsMatch
PROPERTIES
  PendingSchemaDecided
