CONSTANTS
  Star = {0, 1, 2, 3, 4}
  Node = {0}
  Block = {0, 1, 2, 3}
  Genesis = 0
  MaxNumber = 2
  parentOf <- MCParent
  numberOf <- MCNumber
  coinbaseOf <- MCCoinbase
  hashOf <- MCHash
SPECIFICATION LiveSpec
PROPERTIES StableReached
