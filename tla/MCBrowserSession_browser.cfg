CONSTANTS
    Total = 4
    ChunkLen = 2
    MaxResumes = 1
    FreshWindow = 0
    MaxBlock = 3
    MaxEpoch = 2
    MaxFaults = 3
    ClearsMayFail = FALSE
    Tabs = {1}
    RingCapacity = 1
    Lookups = {1, 2}
    Overlap = FALSE
SPECIFICATION BrowserSpec
INVARIANTS NeverSpliced NeverMisdecoded
PROPERTIES AlwaysLoadsAgain LookupsSettle
CHECK_DEADLOCK FALSE
