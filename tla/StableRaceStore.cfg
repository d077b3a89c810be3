CONSTANTS
  Star = {0, 1, 2}
  self = 0
  importer = importer
  miner = miner
  Block = {0, 1, 2, 3}
  Genesis = 0
  MaxNumber = 2
  parentOf <- MCParent
  numberOf <- MCNumber
  coinbaseOf <- MCCoinbase
  hashOf <- MCHash
SPECIFICATION Spec
PROPERTY
  StoreKeepsDescendant
