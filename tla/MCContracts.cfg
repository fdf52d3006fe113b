SPECIFICATION ContractsSpec
CONSTANTS
    p1 = p1
    p2 = p2
    a1 = a1
    a2 = a2
    alice = alice
    bob = bob
    operator = operator
    hookless = hookless
    wallet = wallet
    refusing = refusing
    erc20 = erc20
    zero = zero
    pool1 = pool1
    pool2 = pool2
    t1 = t1
    t2 = t2
    t3 = t3
    RewardPools = {p1, p2}
    AssetPools = {a1, a2}
    Users = {alice, bob}
    ZeroAddress = zero
    NoName = ""
    ExistingTokens = {erc20}
    MAX_ADMINS = 1
    MAX_TRANSFERRERS = 1
    RoleLists <- MCRoleLists
    Prices = {1}
    WithdrawAddresses = {zero}
    RawNames <- MCRawNames
    ValidNames <- MCValidNames
    Trimmed <- MCTrimmed
    None = None
    RegistryOwner = alice
    Wallets = {wallet, refusing}
    RefusingWallets = {refusing}
    Registry = Registry
    InitialFee = 1
    Fees = {0}
    Values = {0, 1}
    Methods <- MCMethods
    Accounts = {operator, alice, bob, hookless}
    Owner = operator
    Refusing = {hookless}
    TicketPools = {pool1, pool2}
    Ids = {1, 2}
    AssetPoolById <- MCAssetPoolById
    StockPools = {t1, t2, t3}
    NoPool = zero
    FirstPool = pool1
    FirstId = 1
    Price = 2
    InitialStock = 6
    RequestIds = {"r1", "r2"}
    Candidates <- MCCandidates
    Tickets = {0, 1, 2, 3}
    Words = {0, 1, 2, 3, 4, 5, 6, 7, 8, 9, 10, 11}
    Callers = {alice}
    Holders = {alice}
    PoolRegistry = Registry
    Paymasters = {"m1"}
    NoPaymaster = "none"
    Hub = "hub"
    Zero = zero
    Cut = 4
    High = 16
    Selector = 1
    MaxPerTx = 10
    Charge = 1
    MaxDeposit = 1
    Amounts = {0, 1, 10, 11}
    RedeemPrices = {1, 2}
    Balances = {0, 17, 34}
    Totals = {0, 17}
CONSTRAINT FewChanges
INVARIANTS
    PoolsInOrder NamesResolve OwnersAgree DrawIsFair DrawIsEvenHanded
PROPERTIES
    NothingTakenBack 
SYMMETRY AnyAddress
CHECK_DEADLOCK FALSE
