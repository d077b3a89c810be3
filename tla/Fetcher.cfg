CONSTANTS
  Block = {1, 2}
  Hash = {1, 2}
  Peer = {p, q}
  Genesis = 0
  NoPeer = NoPeer
  Empty = {2}
  parentOf <- MCParent
  numberOf <- MCNumber
  bodyOf <- MCBody
  hashLimit = 1
  blockLimit = 1
  maxUncleDist = 0
  maxQueueDist = 1
  MaxList = 1
  MaxUnder = 0
SPECIFICATION Spec
INVARIANTS QueuesExact QueuedIsPending NoOldAnnounces TimersSet OneStage
SYMMETRY Peers
