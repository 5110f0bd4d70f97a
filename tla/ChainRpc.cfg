SPECIFICATION Spec
CONSTANTS
  g = g
  a1 = a1
  a2 = a2
  a3 = a3
  b1 = b1
  b2 = b2
  Block <- LateFork
  Genesis = g
  NoBlock = NoBlock
  Parent <- LateForkParent
  Anc <- MCAnc
  Height <- MCHeight
  Work <- MCWork
  Addr <- MCAddr
  KeepBlocks = 2
  SyncSpan = 5
  MinimumWork = 0
  SeqLimit = 3
  MaxBad = 0
  MaxInvalidate = 1
  MaxReconsider = 1
  MaxPrecious = 1
  MaxPrune = 1
INVARIANTS FailureHasCause ActiveChainUsable InvalidateKeepsCandidates
CHECK_DEADLOCK FALSE
