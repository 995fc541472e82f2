\* Additions and changes of server; no index ever moves, both tasks go on.
CONSTANTS
  A = A
  B = B
  Com = Com
  Us = Us
  b1 = b1
  b2 = b2
  b3 = b3
  Symbols <- BothSymbols
  Regions <- BothRegions
  Blocks <- TwoBlocks
  NoBlock = NoBlock
  MaxSymbols = 2
  MaxStrikes = 2
  Edits <- Growing
  EditMax = 3
  InitialLists <- One
  Listed <- BOnlyCom
  Reconnects = FALSE
  AtomicTake = TRUE
SPECIFICATION SyncFairSpec
CHECK_DEADLOCK FALSE
INVARIANT RegionDataFresh
PROPERTY ErrorIsFinal
PROPERTY NoSymbolForgotten
