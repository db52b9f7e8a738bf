SPECIFICATION Spec
CONSTANTS
  Conciliums = {1, 2, 3}
  Txns <- FourTxns
  InputOf <- Inputs
  CreatorOf <- Creators
  ConciliumOf <- Concilia
  Preferred = {1}
  Own = {1, 3}
  MaxTxns = 2
  MaxAhead = 2
  MaxBlocks = 3
INVARIANTS
  WithinLimit
  LocalsAgree
PROPERTIES
  RolledBackReturns
CHECK_DEADLOCK FALSE
