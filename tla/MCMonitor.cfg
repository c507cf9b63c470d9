SPECIFICATION Spec
CONSTANTS
  Names <- MCNames
  Nodes <- MCNames
  NodeID <- MCNodeID
  Metrics <- MCMetrics
  HandlerMap <- MCHandlerMap
  Values <- MCValues
  NilValue = "nil"
  Accepts <- MCAccepts
  Panics <- MCPanics
  Arguments <- MCArguments
  MaxVersion = 2
  MaxMessages = 3
  MaxTime = 2
INVARIANTS
  VersionsOrdered
  NothingLost
  MetricsOfNodeAgree
  CountersAgree
  GivesUpAfterTimeouts
PROPERTIES
  ImplementsMirror
  ImplementsMonitorTask
