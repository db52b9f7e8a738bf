SPECIFICATION Spec
CONSTANTS
  Conciliums = {1, 2, 3}
  Txns <- TxnPerConcilium
  InputOf <- FirstTwoCollide
  ConciliumOf <- OwnTxn
  Nodes = {1, 2, 3}
  Home <- OwnHome
  MaxBlocks = 5
INVARIANTS
  AppliedIsAccounted
  UnwoundFailed
  OrderIsIrrelevant
PROPERTIES
  KeepsPromise
CHECK_DEADLOCK FALSE
