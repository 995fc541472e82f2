\* Nothing is lost and everyone goes on: what must happen in the end.
CONSTANTS
  A = A
  B = B
  C = C
  Ssids <- TwoNets
  Empty = Empty
  NoFallback = NoFallback
  MaxAttempts = 2
  AuthBlockThreshold = 1
  MaxActions = 4
  UInt8Max = 7
  Right = Right
  Wrong = Wrong
  LeavingMax = 2
  QueueLen = 4
  UserQueueLen = 1
  MaxProfiles = 2
  UserCommands <- Connecting
  Typed <- TypedB
  ConnectMayFail = FALSE
  MayDrop = FALSE
  Prompt = TRUE
  InitialDbs <- NoneOrTwo
SPECIFICATION WifiFairSpec
INVARIANT CursorIsOnCurrent
INVARIANT NeverStuck
INVARIANT ConnectedIsUp
PROPERTY OnlineOrReady
PROPERTY ManualAttemptEnds
