SPECIFICATION Spec
CONSTANTS
  N = 2
  Addresses <- InOrder
  IsPoS = FALSE
  Shares <- Equal
  ConfQuorum = 0
  SeqLength = 2
  Live <- Everyone
  Links <- FullMesh
  SeedOf <- SameSeed
  Clocked = FALSE
  Timeouts <- ProdTimeouts
  MaxBlocks = 2
  MaxTimeouts = 6
  MaxDrops = 0
  MaxCrashes = 0
INVARIANTS
  NoFork
CHECK_DEADLOCK FALSE
