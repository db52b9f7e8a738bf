SPECIFICATION Spec
CONSTANTS
  Conciliums = {1, 2, 3, 4}
  Txns <- AllTxns
  InputOf <- MCInputOf
  ConciliumOf <- MCConciliumOf
  ConciliumOfContract <- MCConciliumOfContract
  TxOf <- MCTxOf
  Coins0 <- MCCoins
  Contracts0 <- GenesisContracts
  Big = {"D"}
  Local = {8}
  FeesOf <- SomeFees
  DefaultFees <- OneEach
  MaxTxns = 3
  MaxAhead = 1
  MaxBlocks <- RacesOrCalls
INVARIANTS
  CoinsAreReplay
  MergeAgrees
  LostForCause
  ContractIsReplay
  CoinsConserved
CHECK_DEADLOCK FALSE
