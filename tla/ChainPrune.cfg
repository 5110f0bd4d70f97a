SPECIFICATION Spec
CONSTANTS
  g = g
  a1 = a1
  a2 = a2
  a3 = a3
  b1 = b1
  b2 = b2
  Block <- TwoBranches
  Genesis = g
  NoBlock = NoBlock
  Parent <- TwoBranchesParent
  Anc <- MCAnc
  Height <- MCHeight
  Work <- MCWork
  Addr <- MCAddr
  KeepBlocks = 1
  SyncSpan = 5
  MinimumWork = 0
  SeqLimit = 3
  MaxBad = 0
  MaxInvalidate = 0
  MaxReconsider = 0
  MaxPrecious = 0
  MaxPrune = 2
INVARIANTS  UnlinkedComplete
 
CHECK_DEADLOCK FALSE
