SPECIFICATION ClientsSpec
CONSTANTS
    Urls = {"u1", "u2", "u3"}
    Managers = {"m1", "m2", "m3"}
    Registrar <- AllRelays
    ServerOf <- ThreeServers
    Preferred <- ThirdPreferred
    SliceSize = 2
    Requests = {"a", "b"}
    Commands = {"c1"}
    Askable <- AllAsked
    MinimumStake = 2
    MinimumDelay = 1
    MaxRuns = 4
    MaxFailures = 3
    MaxBlock = 5
    MaxPerBlock = 1
    MaxPageSize = 2
    MaxPageCount = 2
    NodeLimit = 1
    MaxAttempts = 2
    MaxBlockAttempts = 2
    MaxSplit = 4
    MaxPageFailures = 1
    MaxQueries = 2
    Paymasters = {"p1", "p2"}
    Hubs = {"h1", "h2"}
    NoContract = "none"
    Sources = {"paymaster", "hub", "none"}
    MaxQuestionFailures = 1
    MaxRedeploys = 1
    MaxDeployRuns = 2
    GivesParts = TRUE
    AppCalls <- AllCalls
    KindOf <- AllKinds
    Eager = FALSE
    MaxInitFailures = 1
    AppRequests = {"r1"}
    Valid = 2
    Lookup = 2
    MaxClock = 5
    LastBlock = 6
    MaxEvents = 4
    Prices = {0, 5, 10, 24, 40}
    Givens = {"both", "gasPrice", "one", "none"}
    Chains = {"legacy", "typeTwo"}
    GasPriceFactorPercent = 20
    MinMaxPriorityFeePerGas = 10
    ServerFactorPercent = 100
    DefaultPriorityFee = 10
    MaxMaxFeePerGas = 30
    EnvironmentFactor = 1
    MaxChanges = 2
INVARIANTS
    RelaysTried QueriesComplete ContractsFit StakeAsAsked

    
CHECK_DEADLOCK FALSE
