\* Two symbols change places while they are fetched.
CONSTANTS
  A = A
  B = B
  Com = Com
  Us = Us
  b1 = b1
  b2 = b2
  b3 = b3
  Symbols <- BothSymbols
  Regions <- BothRegions
  Blocks <- TwoBlocks
  NoBlock = NoBlock
  MaxSymbols = 2
  MaxStrikes = 2
  Edits <- Reordering
  EditMax = 1
  InitialLists <- Two
  Listed <- BOnlyCom
  Reconnects = FALSE
  AtomicTake = TRUE
SPECIFICATION SyncSpec
CHECK_DEADLOCK FALSE
INVARIANT DataIsOwn
