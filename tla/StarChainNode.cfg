CONSTANTS
  Star = {0, 1, 2, s, t}
  Node = {0, 9}
  Block = {0, 1, 2, 3}
  Genesis = 0
  MaxNumber = 2
  parentOf <- MCParent
  numberOf <- MCNumber
  coinbaseOf <- MCCoinbase
  hashOf <- MCHash
SPECIFICATION Spec
INVARIANTS    SatelliteIndex
 
SYMMETRY Bystanders
