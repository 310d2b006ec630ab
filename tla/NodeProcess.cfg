SPECIFICATION FairSpec
CONSTANTS
  Adapters = {"command", "opencode", "mcp"}
  QueueSize = 2
CHECK_DEADLOCK FALSE
INVARIANTS
  TypeOK
  ReapedWhenReturned
  CancellationNotLost
PROPERTIES
  EveryCallReturns
  ReaderEnds
