CONSTANTS
    s1 = s1
    s2 = s2
    Accounts = {1}
    Slots <- TwoSlots
    Candidates <- AnySlot
    Balances = {0, 1}
    WithdrawalAccounts = {}
    RingCapacity = 2
    FreshDivisor = 2
    MaxBlock = 3
    MaxEpoch = 1
    Modes = {TRUE}
    Persistent = TRUE
    BlocksMayFail = FALSE
    RestartsMayLose = TRUE
    Clients = {1}
    ColumnMates <- OneColumn
    CallsMayFail = FALSE
SPECIFICATION Spec
INVARIANTS NeverWrong
CHECK_DEADLOCK FALSE
