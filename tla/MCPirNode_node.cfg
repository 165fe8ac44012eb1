CONSTANTS
    s1 = s1
    s2 = s2
    Accounts = {1}
    Slots <- TwoSlots
    Candidates <- AnySlot
    Balances = {0, 1, 2}
    WithdrawalAccounts = {1}
    RingCapacity = 2
    FreshDivisor = 2
    MaxBlock = 3
    MaxEpoch = 2
    Modes = {TRUE, FALSE}
    Persistent = TRUE
    BlocksMayFail = TRUE
    RestartsMayLose = TRUE
SPECIFICATION NodeSpec
SYMMETRY SlotSymmetry
INVARIANTS RingBridgesToHead HintsMatchCells NothingUnjournaled PerBlockMatchesRing TableMatchesChain
CHECK_DEADLOCK FALSE
