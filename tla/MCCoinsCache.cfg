SPECIFICATION CacheSpec
CONSTANTS
  Outpoints = {o1, o2}
  Coins = {c1, c2}
  Spent = Spent
  Absent = Absent
  Blocks = {b1, b2}
  Null = Null
INVARIANTS FlagsSound NeverThrows
PROPERTY ImplementsLayers
