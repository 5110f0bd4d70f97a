SPECIFICATION Spec
CONSTANTS
  g = g
  a1 = a1
  a2 = a2
  b1 = b1
  o1 = o1
  o2 = o2
  o3 = o3
  p1 = p1
  Block <- TrunkAndFork
  Genesis = g
  NoBlock = NoBlock
  Parent <- MCParent
  Anc <- MCAnc
  Height <- MCHeight
  Coin = {o1, o2, o3, p1}
  Creates <- MCCreates
  Spends <- MCSpends
  KeepBlocks = 1
  MaxFile = 1
  MaxSlot = 2
  MaxCrash = 2
INVARIANTS CoinsExact ViewExact CleanIsWritten IndexedReadable StartKnowsBlocks
CHECK_DEADLOCK FALSE
