SPECIFICATION Spec
CONSTANTS
  g = g
  a1 = a1
  b1 = b1
  b2 = b2
  t1 = t1
  t2 = t2
  c1 = c1
  c2 = c2
  Block = {g, a1, b1, b2}
  Genesis = g
  NoBlock = NoBlock
  Parent <- MCParent
  Anc <- MCAnc
  Height <- MCHeight
  Tx = {t1, t2}
  CoinStake = CoinStake
  Txs <- MCTxs
  Root <- MCRoot
  Address = {c1, c2}
  LogAddress <- MCLogAddress
  MaxBad = 1
  MaxTemplate = 1
  MaxFault = 1
INVARIANTS RootFollowsTip OnlyBadBlocksFail TipCanBeOpened  LogIndexExact
