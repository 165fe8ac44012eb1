CONSTANTS
    Total = 3
    ChunkLen = 2
    MaxResumes = 1
    FreshWindow = 0
    MaxBlock = 3
    MaxEpoch = 1
    MaxFaults = 0
    ClearsMayFail = FALSE
    Tabs = {1}
    RingCapacity = 2
    Lookups = {1, 2}
    Overlap = TRUE
SPECIFICATION BrowserSpec
INVARIANTS NeverMisdecoded
CHECK_DEADLOCK FALSE
