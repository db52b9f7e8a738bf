SPECIFICATION FairSpec
CONSTANTS
  Nodes = {1, 2}
  Conns = {1, 2, 3}
  FailuresLimit = 0
  MaxFailures = 2
  MaxCuts = 1
  MaxBans = 1
  MaxCrossings = 2
INVARIANTS
  OneLink
  BothAgree
  SettledIsFull
PROPERTIES
  Reconnects
CHECK_DEADLOCK FALSE
