SPECIFICATION Spec
CONSTANTS
  Names <- AliasNames
  Nodes <- AliasNodes
  NodeID <- AliasNodeID
  Metrics <- AliasMetrics
  HandlerMap <- AliasHandlerMap
  Values <- AliasValues
  NilValue = "nil"
  Accepts <- AliasAccepts
  Panics <- AliasPanics
  Arguments <- AliasArguments
  MaxVersion = 1
  MaxMessages = 2
  MaxTime = 1
INVARIANT
  EveryNameIsUpdated
