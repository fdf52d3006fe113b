----------------------------- MODULE RewardPool -----------------------------
(***************************************************************************)
(* The reward pools: what each is created with, its roles, and the asset   *)
(* pools it creates and numbers.  Both ends of the number are modelled:    *)
(* the reward pool maps the id to an asset pool, and the asset pool keeps  *)
(* the id it was given, which is its token id in an ERC1155 redeem token.  *)
(*                                                                         *)
(* What an asset pool does is module AssetPool.  A call that reverts is no *)
(* step.                                                                   *)
(***************************************************************************)
EXTENDS Integers, FiniteSets, Sequences, Functions

CONSTANTS RewardPools,       \* addresses of RewardPoolV1 clones
          AssetPools,        \* addresses of AssetPoolV1 clones
          Users,             \* accounts
          ZeroAddress,
          ExistingTokens,    \* ERC20 contracts of others
          ValidNames,        \* trimmed names of 1 to MAX_NAME_LENGTH bytes
          NoName,            \* the empty name
          MAX_ADMINS, MAX_TRANSFERRERS,
          RoleLists,         \* bound: the lists roles are given or taken by
          Prices,            \* bound: the amounts asset pools are created with
          WithdrawAddresses  \* bound: the addresses passed as withdrawAddress

ASSUME RewardPoolAssumption ==
    /\ IsFiniteSet(Users)
    /\ ZeroAddress \notin Users \cup ExistingTokens \cup RewardPools \cup AssetPools
    /\ MAX_ADMINS \in Nat /\ MAX_TRANSFERRERS \in Nat
    /\ RoleLists \subseteq Seq(Users)
    /\ Prices \subseteq Nat
    /\ WithdrawAddresses \subseteq Users \cup {ZeroAddress}

VARIABLES rewardPool,  \* rewardPool[p]: the storage of p
          assetPool    \* assetPool[a]: _rewardPool and _id of a

poolVars == <<rewardPool, assetPool>>

\* Storage before initialize: zeros.
BlankRewardPool == [owner |-> ZeroAddress, name |-> NoName, active |-> FALSE,
                    redeemToken |-> ZeroAddress, withdrawAddress |-> ZeroAddress,
                    admins |-> {}, transferrers |-> {},
                    assetPoolId |-> 0, assetPools |-> <<>>]
BlankAssetPool == [rewardPool |-> ZeroAddress, id |-> 0]

Created(p) == rewardPool[p].owner # ZeroAddress
IsOwner(sender, p) == Created(p) /\ rewardPool[p].owner = sender

PoolInit ==
    /\ rewardPool = [p \in RewardPools |-> BlankRewardPool]
    /\ assetPool = [a \in AssetPools |-> BlankAssetPool]

StorageOK(p, s) ==
    /\ DOMAIN s = DOMAIN BlankRewardPool
    /\ s.owner \in Users \cup {ZeroAddress}
    /\ s.name \in ValidNames \cup {NoName}
    /\ s.active \in BOOLEAN
    /\ s.redeemToken \in ExistingTokens \cup {p, ZeroAddress}
    /\ s.owner # ZeroAddress => s.redeemToken # ZeroAddress
    /\ s.withdrawAddress \in Users \cup {ZeroAddress}
    /\ s.admins \subseteq Users /\ s.transferrers \subseteq Users
    /\ s.assetPoolId \in Nat
    /\ \A k \in DOMAIN s.assetPools : s.assetPools[k] \in AssetPools

PoolTypeOK ==
    /\ DOMAIN rewardPool = RewardPools
    /\ \A p \in RewardPools : StorageOK(p, rewardPool[p])
    /\ assetPool \in [AssetPools -> [rewardPool : RewardPools \cup {ZeroAddress}, id : Nat]]

\* Faulty: the members are not counted.
FitsAlone(list, set, max) == Len(list) <= max

\* require(list.length + set.length() <= max): repeated names and members count as new.
Fits(list, set, max) == Len(list) + Cardinality(set) <= max

-----------------------------------------------------------------------------
(* Calls made in the middle of an operation: a reward pool's storage after *)
(* the call, and the asset pool it initialized.                            *)

\* Faulty: the counter moves before the id is read for the mapping.
AddAssetPoolLate(storage, a) ==
    [storage EXCEPT !.assetPools = [k \in DOMAIN @ \cup {storage.assetPoolId + 1} |->
                                      IF k = storage.assetPoolId + 1 THEN a ELSE @[k]],
                    !.assetPoolId = @ + 1]

\* _addAssetPool and the counter.  _assetPoolIds and _assetPools are the domain and the
\* range of the mapping.
AddAssetPool(storage, a) ==
    [storage EXCEPT !.assetPools = [k \in DOMAIN @ \cup {storage.assetPoolId} |->
                                      IF k = storage.assetPoolId THEN a ELSE @[k]],
                    !.assetPoolId = @ + 1]

\* _createAssetPool, by which storage becomes the storage of p.
CreatesAssetPool(p, storage, a, price) ==
    /\ assetPool[a].rewardPool = ZeroAddress
    /\ price > 0
    /\ assetPool' = [assetPool EXCEPT ![a] = [rewardPool |-> p, id |-> storage.assetPoolId]]
    /\ rewardPool' = [rewardPool EXCEPT ![p] = AddAssetPool(storage, a)]

\* _setOrCreateRedeemToken: a custom token is a contract of its own, named for its pool.
RedeemToken(p, method, token) == IF method = "ExistingERC20" THEN token ELSE p

\* initialize, by the registry's call.
Initialize(p, owner, name, method, token, withdrawAddress, admins, a, price) ==
    /\ ~Created(p)
    /\ method = "ExistingERC20" => token # ZeroAddress
    /\ Fits(admins, {}, MAX_ADMINS)
    /\ CreatesAssetPool(p, [owner |-> owner, name |-> name, active |-> TRUE,
                            redeemToken |-> RedeemToken(p, method, token),
                            withdrawAddress |-> withdrawAddress,
                            admins |-> Range(admins), transferrers |-> {},
                            assetPoolId |-> 1, assetPools |-> <<>>], a, price)

\* setNewName, by the registry's call.
SetNewName(p, name) ==
    /\ rewardPool' = [rewardPool EXCEPT ![p].name = name]
    /\ UNCHANGED assetPool

-----------------------------------------------------------------------------
(* Operations of a reward pool: only its owner may call them. *)

CreateAssetPool(sender, p, a, price) ==
    /\ IsOwner(sender, p)
    /\ CreatesAssetPool(p, rewardPool[p], a, price)

SetWithdrawAddress(sender, p, to) ==
    /\ IsOwner(sender, p)
    /\ rewardPool' = [rewardPool EXCEPT ![p].withdrawAddress = to]
    /\ UNCHANGED assetPool

SetActive(sender, p, flag) ==
    /\ IsOwner(sender, p)
    /\ rewardPool' = [rewardPool EXCEPT ![p].active = flag]
    /\ UNCHANGED assetPool

AddAdmins(sender, p, list) ==
    /\ IsOwner(sender, p)
    /\ Fits(list, rewardPool[p].admins, MAX_ADMINS)
    /\ rewardPool' = [rewardPool EXCEPT ![p].admins = @ \cup Range(list)]
    /\ UNCHANGED assetPool

RemoveAdmins(sender, p, list) ==
    /\ IsOwner(sender, p)
    /\ rewardPool' = [rewardPool EXCEPT ![p].admins = @ \ Range(list)]
    /\ UNCHANGED assetPool

AddTransferrers(sender, p, list) ==
    /\ IsOwner(sender, p)
    /\ Fits(list, rewardPool[p].transferrers, MAX_TRANSFERRERS)
    /\ rewardPool' = [rewardPool EXCEPT ![p].transferrers = @ \cup Range(list)]
    /\ UNCHANGED assetPool

RemoveTransferrers(sender, p, list) ==
    /\ IsOwner(sender, p)
    /\ rewardPool' = [rewardPool EXCEPT ![p].transferrers = @ \ Range(list)]
    /\ UNCHANGED assetPool

PoolNext ==
    \E sender \in Users, p \in RewardPools :
        \/ \E a \in AssetPools, price \in Prices : CreateAssetPool(sender, p, a, price)
        \/ \E to \in WithdrawAddresses : SetWithdrawAddress(sender, p, to)
        \/ \E flag \in BOOLEAN : SetActive(sender, p, flag)
        \/ \E list \in RoleLists :
             \/ AddAdmins(sender, p, list)
             \/ RemoveAdmins(sender, p, list)
             \/ AddTransferrers(sender, p, list)
             \/ RemoveTransferrers(sender, p, list)

-----------------------------------------------------------------------------
(* Properties *)

\* The limits on roles hold whatever lists were added and removed, with the names that
\* occur twice in a list and those that were members before.
RolesBounded ==
    \A p \in RewardPools : Created(p) =>
        /\ Cardinality(rewardPool[p].admins) <= MAX_ADMINS
        /\ Cardinality(rewardPool[p].transferrers) <= MAX_TRANSFERRERS

\* A reward pool and its asset pools agree on the ids: each asset pool is found at its
\* reward pool under the id it keeps, no id is skipped and none is given twice.  In an
\* ERC1155 redeem token two pools with one id would spend one token.
AssetPoolIds ==
    /\ \A p \in RewardPools : Created(p) =>
         LET ids == DOMAIN rewardPool[p].assetPools
         IN  /\ 1 \in ids /\ ids = 1..rewardPool[p].assetPoolId - 1
             /\ \A k \in ids : assetPool[rewardPool[p].assetPools[k]]
                                  = [rewardPool |-> p, id |-> k]
    /\ \A a \in AssetPools : assetPool[a].rewardPool # ZeroAddress =>
         LET p == assetPool[a].rewardPool
         IN  /\ Created(p) /\ assetPool[a].id \in DOMAIN rewardPool[p].assetPools
             /\ rewardPool[p].assetPools[assetPool[a].id] = a
=============================================================================
