SPECIFICATION Spec
CONSTANTS
  Conciliums = {1, 2, 3}
  Txns <- FourTxns
  InputOf <- TwoRaces
  ConciliumOf <- TwoRacesOf
  Nodes = {1, 2, 3}
  Home <- OwnHome
  MaxBlocks = 6
INVARIANTS
  UnwoundFailed
CHECK_DEADLOCK FALSE
