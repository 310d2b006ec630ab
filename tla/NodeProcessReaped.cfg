SPECIFICATION Spec
CONSTANTS
  Adapters = {"mcp"}
  QueueSize = 2
CHECK_DEADLOCK FALSE
PROPERTIES
  ReapedBeforeCancelled
