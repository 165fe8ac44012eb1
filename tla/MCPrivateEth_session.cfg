CONSTANTS
    s1 = s1
    s2 = s2
    Accounts = {1}
    Slots <- TwoSlots
    Candidates <- AnySlot
    Balances = {0, 1}
    WithdrawalAccounts = {}
    RingCapacity = 1
    FreshDivisor = 1
    MaxBlock = 4
    MaxEpoch = 2
    Modes = {TRUE}
    Persistent = FALSE
    BlocksMayFail = FALSE
    RestartsMayLose = FALSE
    Clients = {1}
    ColumnMates <- OneColumn
    CallsMayFail = TRUE
SPECIFICATION Spec
SYMMETRY SlotSymmetry
INVARIANTS SessionOnOneLineage NeverWrong
PROPERTIES NeverRewound ImplementsService
CHECK_DEADLOCK FALSE
