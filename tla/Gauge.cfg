SPECIFICATION Spec
CONSTANTS
  None = None
  Capacity = 2
  MaxConnections = 2
CHECK_DEADLOCK FALSE
INVARIANT CurrentIsOfThisConnection
