SPECIFICATION Spec
CONSTANTS
    pool = pool
    pool2 = pool2
    owner = owner
    user = user
    hookless = hookless
    erc20 = erc20
    erc721 = erc721
    NativeToken = NativeToken
    ZeroAddress = ZeroAddress
    SharedToken = SharedToken
    AssetPools = {pool}
    Accounts = {owner, hookless}
    Owner = owner
    Admins = {}
    Transferrers = {}
    Refusing = {hookless}
    RedeemMethod = "CustomERC20"
    MaxUint = 4
    InitialBalance <- ThreeForUser
    TransferAmounts = {1}
    BlacklistTargets = {}
    RequestIds = {r1, r2}
    LinkSupply = 2
    Erc20Contracts = {erc20}
    Erc721Contracts = {erc721}
    BoxAmounts = {1, 2}
    NftIds = {1}
    InitialNftOwner <- OwnerHasNfts
    Donatable = {NativeToken}
    Sendable = {}
    Deposits <- MixedDeposits
    Withdrawals <- MixedWithdrawals
    InitialPrice <- PriceOne
    Prices = {}
    WithdrawAddress = owner
    MaxRewardsPerTx = 2
INVARIANTS TypeOK Conservation NftCustody Solvency EveryCardDrawable PromisesCanBeKept
PROPERTIES OneCardPerRequest LedgersKept
SYMMETRY AnyRequest
CHECK_DEADLOCK FALSE
