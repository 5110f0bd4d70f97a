SPECIFICATION FairSpec
CONSTANTS
  g = g
  a1 = a1
  a2 = a2
  a3 = a3
  b1 = b1
  b2 = b2
  Block <- TwoBranches
  Genesis = g
  NoBlock = NoBlock
  Parent <- TwoBranchesParent
  Anc <- MCAnc
  Height <- MCHeight
  Work <- MCWork
  Addr <- MCAddr
  KeepBlocks = 2
  SyncSpan = 2
  MinimumWork = 2
  SeqLimit = 3
  MaxBad = 1
  MaxInvalidate = 0
  MaxReconsider = 0
  MaxPrecious = 0
  MaxPrune = 0
INVARIANTS DataConsistent CandidatesSound
PROPERTIES UnlockedWithProgress BestChainActivated
CHECK_DEADLOCK FALSE
