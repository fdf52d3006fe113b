SPECIFICATION ServerSpec
CONSTANTS
    manager = manager
    worker1 = worker1
    c1 = c1
    c2 = c2
    Signers = {manager, worker1}
    SignerOrder <- WorkerFirst
    Calls = {c1, c2}
    SignerOf <- EachItsOwn
    Offers <- LowAndHigh
    Minima <- Lowest
    MaxMaxFeePerGas = 3
    BaseFee = 1
    MaxCrashes = 1
    MaxDrops = 1
    MaxFailures = 1
    MaxReorgs = 1
    MaxOrphanAge = 1
    Requests = {"a", "b", "c"}
    Content <- Twice
    MaxRelayNonceGap = 2
    Lag = 1
    Kept = 1
    Deposit = 3
    Serial = TRUE
    FeeLevels = {1, 2}
    MaxChanges = 1
    MaxStarts = 2
    MaxTime = 2
    Timeout = 2
    Audits = {"a1", "a2"}
    Intervals = {"p1"}
    Histories <- AllHistories
    Explorer = TRUE
    Delay = 1
    Expiration = 2
    Prompt = FALSE
    MaxBroadcastFailures = 1
    MaxRestarts = 1
    PaymasterRequests = {"r1", "r2"}
    MaxBlock = 6
    InitialReputation = 3
    MaximumReputation = 4
    ThrottleReputation = 3
    BlockReputation = 0
    AbuseReputationChange = 2
    AbuseTimeWindowBlocks = 3
    AbuseTimeoutReputation = 1
    AlertedDelay = 1
    LateBlocks = FALSE
    UnstakeDelay = 1
    ScanBack = 1
    MaxOwnerCalls = 2
    MaxRegTime = 2
    MaxServerCrashes = 1
    MaxSendFailures = 1
    PromptServer = TRUE
    StartsRegistered = TRUE
    ManagerMin = 1
    ManagerTarget = 4
    WorkerMin = 4
    WorkerTarget = 6
    Surplus = 12
    RelayCost = 2
    HttpRequests = {"r1", "r2"}
    Starts <- FullOrShort
    Overlap = FALSE
    MaxCallFailures = 1
    MaxSent = 2
    Searches = {"s1", "s2"}
    PageSize = 2
    Lists <- AllLists
    MaxList = 4
    MaxExplorerFailures = 1
INVARIANTS
    NoncesSafe RememberedIsTrue CallsSound OneServerAtWork
PROPERTIES
    TransactionsKept MoneyKept PenaltiesSound ReputationSound
CHECK_DEADLOCK FALSE
