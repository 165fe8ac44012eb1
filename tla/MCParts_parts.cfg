CONSTANTS
    Accounts = {1, 2}
    Balances = {0, 1}
    Amounts = {0, 1}
    Modes = {TRUE, FALSE}
    BootstrapDrifts = TRUE
    MaxCorrections = 1
    ReconcileEvery = 1
    BlocksMayFail = TRUE
    MaxBlock = 4
    MaxEvents = 2
    Samples = 1
    RecentDepth = 0
    ReservoirCap = 1
    DrainPer = 1
    Escalation = 2
    Batches = 2
    BatchSize = 2
    RingCapacity = 1
    MaxProbeFaults = 2
    MaxHead = 4
    ChangedLists <- TheLists
    RECENT_CAPACITY = 2
    reconcile_every = 2
    MaxBlocks = 2
    MaxServed = 2
    MaxTroubles = 1
    Messages <- TheMessages
    MaxFlaws = 2
    MaxCalls = 2
    MaxChunks = 2
    RowOrder <- TheRows
    Worlds <- TheWorlds
    SNAPSHOT_BLOCK = 2
    SampleCapacity = 2
    AUDIT_CONCURRENCY = 1
    MaxUpsets = 2
    Callers = {c1, c2}
    MaxRpcHead = 1
    MaxPosts = 1
    GenesisKeys = 3
    InsertsPerBlock = 1
    DeletesPerBlock = 1
    ChangesPerBlock = 3
    Blocks = 2
    Checkpoints = 1
    ContractCount = 1
    NeverExistedCount = 1
    PerBucket = 1
    MinAddresses = 6
    MaxWrong = 1
    Devices <- TheDevices
    MaxSubmits = 2
    MaxPagePolls = 2
    MaxPageHead = 2
    CommandLines <- TheLines
    ForeignFiles <- TheOldFiles
    MAX_PREFETCH = 16
    MaxStarts = 2
    MaxStartHead = 3
    MaxAccidents = 1
    MAX_LOAD_FACTOR <- TheLoads
    PlaintextBits <- TheBits
    VALUE_BITS = 16
    LWE_DIM = 4
    U32 = 64
    Sweeps <- TheSweeps
    FillCandidates <- TheShapes
    Plans <- ThePlans
    DEFAULT_SCALES <- TheScales
    DEFAULT_MID_SCALE = 16
    K_VALUES <- TheChanges
    HEADLINE_K = 2
    WARMUP_BLOCKS = 1
    MEASURED_BLOCKS = 2
    SAFETY_FACTOR = 2
    MAX_PROJECTED_REBUILD_SECS = 40
    MAX_PROJECTED_BYTES = 4500
    BYTES_PER_ACCOUNT = 2
    RebuildTimes = {1, 6, 20}
    Campaigns <- TheCampaigns
    MAX_LISTED_FINDINGS = 1
    DEFAULT_LWE_DIM = 4
    Lookers = {l1, l2}
    Tracked = {"a"}
    Untracked = {"b"}
    MaxAbiHead = 3
    MaxAsks = 3
    MaxAbiFaults = 1
SPECIFICATION Spec
INVARIANTS DeferredIsNotSkipped CheckpointsAreTrue ReportIsTrue StatusIsTrue DecodedOrRefused
           CallsAreTold AuditIsTrue RepliesAreTrue GateIsTrue PageIsHonest DeploymentIsAsSaid
           LookupsReadTheirOwn FiguresAreTrue
CHECK_DEADLOCK FALSE
