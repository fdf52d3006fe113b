SPECIFICATION Spec
CONSTANTS
    pool = pool
    pool2 = pool2
    owner = owner
    user = user
    hookless = hookless
    erc20 = erc20
    erc721 = erc721
    NativeToken = NativeToken
    ZeroAddress = ZeroAddress
    SharedToken = SharedToken
    AssetPools = {pool, pool2}
    Accounts = {owner, user}
    Owner = owner
    Admins = {}
    Transferrers = {}
    Refusing = {}
    RedeemMethod = "CustomERC1155"
    MaxUint = 3
    InitialBalance <- ThreeForUser
    TransferAmounts = {1}
    BlacklistTargets = {user}
    RequestIds = {r1, r2}
    LinkSupply = 2
    Erc20Contracts = {}
    Erc721Contracts = {}
    BoxAmounts = {0}
    NftIds = {}
    InitialNftOwner <- OwnerHasNfts
    Donatable = {}
    Sendable = {}
    Deposits <- NativeDeposits
    Withdrawals = {}
    InitialPrice <- PriceOneAndTwo
    Prices = {}
    WithdrawAddress = owner
    MaxRewardsPerTx = 2
INVARIANTS TokensMatchAssets
SYMMETRY AnyRequest
CHECK_DEADLOCK FALSE
