SPECIFICATION Spec
CONSTANTS
  Addresses = {"own", "user"}
  Txns <- TwoTxns
  PaysTo <- Receivers
  Spends <- SpendsOne
  Own = "own"
  MaxFaults = 2
INVARIANTS
  IndexIsComplete
  WatchIsKept
CHECK_DEADLOCK FALSE
