\* Every edit, at any moment of a restart, with a connection that breaks.
CONSTANTS
  A = A
  B = B
  Com = Com
  Us = Us
  b1 = b1
  b2 = b2
  Symbols <- BothSymbols
  Regions <- BothRegions
  Blocks <- TwoBlocks
  NoBlock = NoBlock
  MaxSymbols = 2
  MaxStrikes = 1
  Edits <- AllEdits
  EditMax = 2
  InitialLists <- NoneOrOne
  NoQueue = NoQueue
  UpdateLen = 1
  EventLen = 1
  EarlyEdits = TRUE
  Faults = TRUE
SPECIFICATION WsFairSpec
CHECK_DEADLOCK FALSE
INVARIANT NoLostWakeup
INVARIANT SymbolsStreamed
INVARIANT QueueOutlivesClient
PROPERTY EventsHandled
