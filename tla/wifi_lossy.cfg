\* A short queue that loses reports, refused connects, timers that fire late.
CONSTANTS
  A = A
  B = B
  C = C
  Ssids <- TwoNets
  Empty = Empty
  NoFallback = NoFallback
  MaxAttempts = 2
  AuthBlockThreshold = 1
  MaxActions = 4
  UInt8Max = 7
  Right = Right
  Wrong = Wrong
  LeavingMax = 1
  QueueLen = 2
  UserQueueLen = 1
  MaxProfiles = 2
  UserCommands <- Lossy
  Typed <- TypedB
  ConnectMayFail = TRUE
  MayDrop = TRUE
  Prompt = FALSE
  InitialDbs <- GoodAndBad
SPECIFICATION WifiSpec
INVARIANT TypeOK
INVARIANT PolicyMirrorsDb
INVARIANT BlockedIsNotTried
PROPERTY RestsUntilAsked
PROPERTY OnlyLossMisleads
