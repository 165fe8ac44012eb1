CONSTANTS
    l1 = l1
    l2 = l2
    Layouts <- TwoLayouts
    Processes = {1}
    MaxServed = 3
    MaxStarts = 3
    LoopMayReject = TRUE
    CallsMayFail = FALSE
SPECIFICATION FilesSpec
INVARIANTS SavedIsOneHeight
CHECK_DEADLOCK FALSE
