SPECIFICATION FairSpec
CONSTANTS
  N = 3
  Addresses <- InOrder
  IsPoS = FALSE
  Shares <- Equal
  ConfQuorum = 0
  SeqLength = 3
  Live <- WithoutFirst
  Links <- FullMesh
  SeedOf <- FarSeeds
  Clocked = TRUE
  Timeouts <- ProdTimeouts
  MaxBlocks = 3
  MaxTimeouts = 0
  MaxDrops = 0
  MaxCrashes = 0
INVARIANTS
  NoFork
  VotesFollowTurn
  RoundAsAgreed
PROPERTIES
  Progress
