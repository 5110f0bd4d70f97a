SPECIFICATION FairSpec
CONSTANTS
  g = g
  a1 = a1
  a2 = a2
  b1 = b1
  b2 = b2
  Block = {g, a1, a2, b1, b2}
  Genesis = g
  NoBlock = NoBlock
  Parent <- MCParent
  Anc <- MCAnc
  Height <- MCHeight
  StartTips = {NoBlock, a1}
  Max <- MCMax
  MaxCalls = 4
INVARIANTS   StaleFiltersKept InSync
PROPERTIES CatchesUp
CHECK_DEADLOCK FALSE
