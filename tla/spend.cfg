SPECIFICATION Spec
CONSTANTS
  Window = 2
  Scale = 1000
  AlphaNum = 3
  AlphaDen = 10
  NoEntry = NoEntry
  Chunks = {2, 4}
  Prices = {1, 2}
  SeedWindow = 3
  SeedMinSpan = 2
  Epoch = 10
  MaxGap = 2
  MaxTime = 15
  MaxRecords = 3
  MaxDrops = 1
  MaxSwaps = 1
  NoCost = NoCost
INVARIANTS
  OnlyWatchedSpendInOneRead
  RateSupported
  QuietReadsZero
PROPERTY
  FirstSightingShowsNothing
