CONSTANTS
    l1 = l1
    l2 = l2
    Layouts <- TwoLayouts
    Processes = {1}
    MaxServed = 3
    MaxStarts = 3
    LoopMayReject = FALSE
    CallsMayFail = FALSE
SPECIFICATION FilesSpec
INVARIANTS EveryReportIsKept
CHECK_DEADLOCK FALSE
