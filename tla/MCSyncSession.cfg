SPECIFICATION Spec
CONSTANTS
  a = a
  b = b
  Tokens <- MCTokens
  QueryIds <- MCTwo
  Requests <- MCThree
  AuthTokens <- MCOne
  MaxTs = 6
  MaxWrites = 2
  MaxSendTransitions = 1
  OperationQueueSize = 1
  Outcomes <- Results
  SearchTokens <- MCOneToken
  MaxFaults = 1
  RequestTypes <- MCBoth
  MaxSubscribers = 2
  MaxConnections = 3
CONSTRAINT Explored
CHECK_DEADLOCK FALSE
INVARIANTS
  ConsistentView
  OncePerSession
PROPERTIES
  ResultsMonotone
