\* Ticks of two rows and of a removed one, damaged and split messages, moves.
CONSTANTS
  ScratchMax = 4
  SymbolMax = 1
  Capacity = 3
  Interval = 2
  Watched <- Rows
  Messages <- MCMessages
  Snapshots <- MCSnapshots
  PieceSizes <- Pieces
  UpdateQueueLen = 2
  MaxTime = 4
  MaxMoves = 1
SPECIFICATION StreamSpec
INVARIANT UpdatesAreSaid
INVARIANT CandlesInOrder
PROPERTY ChartsSpec
PROPERTY TicksArrive
PROPERTY ClosedCandlesStay
CHECK_DEADLOCK FALSE
