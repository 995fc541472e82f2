CONSTANTS
    Images = {"0.9", "1.0", "1.1"}
    Broken = {"1.0"}
    First = "0.9"
    SlaveImages <- MCSlaveImages
    SlaveVersions <- MCSlaveVersions
    MaxFaults = 2
    MaxNews = 2
SPECIFICATION Spec
INVARIANT AlwaysRecoverable
INVARIANT GoodImageIsKept
PROPERTY ComesUp
PROPERTY ClockIsKnown
CHECK_DEADLOCK FALSE
