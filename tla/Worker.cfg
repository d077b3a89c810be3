CONSTANTS
  MaxSealers = 2
  MaxStarting = 1
  MaxTimers = 2
  MaxSenders = 1
  MaxMines = 1
  HeadChanSize = 1
SPECIFICATION LiveSpec
INVARIANTS
  SealerPresent
  PushHasReader
  NoStaleWork
PROPERTIES
  WakeupKept
  CommitEnds
