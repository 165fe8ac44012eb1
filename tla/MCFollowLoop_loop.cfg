CONSTANTS
    a1 = a1
    a2 = a2
    Accounts = {a1, a2}
    Balances = {0, 1, 2}
    FirstBalances = {0, 1}
    Amounts = {0, 1}
    Modes = {TRUE}
    BootstrapDrifts = TRUE
    MaxCorrections = 1
    ReconcileEvery = 0
    BlocksMayFail = FALSE
    MaxBlock = 3
    Providers = {"p", "q"}
    Honest = {"p"}
    Listed = {a1, a2}
    l1 = l1
    l2 = l2
    Layouts <- TwoLayouts
    Processes = {1}
    MaxServed = 3
    MaxStarts = 3
    LoopMayReject = TRUE
    CallsMayFail = TRUE
SPECIFICATION Spec
INVARIANTS CorrectionsAreTrue
           StateFileIsWhole RestoresToServed NothingAcknowledgedLost JournalKeepsUp
PROPERTIES FeedAlwaysWins CorrectionsHeal OvertakenCorrectionsAreDropped
SYMMETRY Symmetry
CHECK_DEADLOCK FALSE
