SPECIFICATION SpecRestart
CONSTANTS
  Conciliums = {1, 2, 3}
  Txns = {1, 2, 3}
  InputOf <- SecondThirdCollide
  ConciliumOf <- OfThreeAndOne
  Nodes = {1, 2, 3}
  Home <- TwoHomes
  Mortal = 3
  MaxBlocks = 4
  CrashAnywhere = TRUE
  MaxCrashes = 1
INVARIANT AlwaysStarts
CHECK_DEADLOCK FALSE
