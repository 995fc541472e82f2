\* Three edits of any kind while the sync task fetches, with Wi-Fi gaps.
CONSTANTS
  A = A
  B = B
  Com = Com
  Us = Us
  b1 = b1
  b2 = b2
  b3 = b3
  Symbols <- BothSymbols
  Regions <- BothRegions
  Blocks <- ThreeBlocks
  NoBlock = NoBlock
  MaxSymbols = 2
  MaxStrikes = 2
  Edits <- AllEdits
  EditMax = 3
  InitialLists <- One
  Listed <- BOnlyCom
  Reconnects = TRUE
  AtomicTake = FALSE
SPECIFICATION SyncSpec
CHECK_DEADLOCK FALSE
SYMMETRY BlockSymmetry
INVARIANT BlocksOwned
INVARIANT NullIsNotWritten
PROPERTY ImplementsWatchlist
