SPECIFICATION Spec
CONSTANTS
  N = 2
  Addresses <- InOrder
  IsPoS = TRUE
  Shares <- HeavyFirst
  ConfQuorum = 0
  SeqLength = 2
  Live <- Everyone
  Links <- FullMesh
  SeedOf <- SameSeed
  Clocked = FALSE
  Timeouts <- ProdTimeouts
  MaxBlocks = 1
  MaxTimeouts = 3
  MaxDrops = 1
  MaxCrashes = 1
INVARIANTS
  TypeOK
  CommitCertified
  CommitOnce
PROPERTIES
  KeepsPromise
CHECK_DEADLOCK FALSE
