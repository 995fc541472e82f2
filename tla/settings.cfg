CONSTANTS
    Domains <- MCDomains
    Default <- MCDefault
    Layout <- MCLayout
    Found <- MCFound
    Junk <- MCJunk
    Cities = {"Denver", "Berlin"}
    UsLabels = {"Denver"}
    Versions = {"v1", "v2"}
    Lists = {"one symbol"}
    ProfileSets = {"home"}
    Levels = {100}
    NightLevel = 10
    Day = 3
    MaxEdits = 3
    MaxFaults = 1
    MaxStarts = 2
SPECIFICATION Spec
INVARIANT LoadedWasSaved
INVARIANT PinnedStays
INVARIANT StreamsFromChosenServer
INVARIANT DisclaimerSeen
INVARIANT NightIsDark
CHECK_DEADLOCK FALSE
