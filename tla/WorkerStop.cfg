CONSTANTS
  MaxSealers = 2
  MaxStarting = 1
  MaxTimers = 1
  MaxSenders = 1
  MaxMines = 1
  HeadChanSize = 1
SPECIFICATION LiveSpec
PROPERTIES
  StopReturns
