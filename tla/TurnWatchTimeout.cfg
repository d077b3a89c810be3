CONSTANTS
  nodeCount = 4
  timeoutTime = 10000
  blockInternal = 3000
  MaxSpan = 125000
SPECIFICATION Spec
INVARIANT SealsInTurn
CHECK_DEADLOCK FALSE
