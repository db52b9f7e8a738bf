SPECIFICATION FairSpec
CONSTANTS
  Peers = {1, 2}
  Last = 3
  Parents <- Join
  Invalid = {2}
  Contested = {1}
  FirstHeld <- AllHeld
  MaxBlocksInv = 2
  MaxSingles = 1
  MaxFaults = 1
INVARIANTS
  TypeOK
  NothingForgotten
  
PROPERTIES
  AskedOnce
  BlamedForCause
  StoredIsExecuted
  StopsLoading
CHECK_DEADLOCK FALSE
