CONSTANTS
  nodeCount = 4
  timeoutTime = 10000
  blockInternal = 3000
  MaxSpan = 125000
SPECIFICATION Spec
INVARIANTS VerifyIsRotation OneProducer TimerEndsInTurn SealsInTurnBeforeTimeout
CHECK_DEADLOCK FALSE
