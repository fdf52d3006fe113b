------------------------- MODULE RewardPoolRegistry -------------------------
(***************************************************************************)
(* The registry: it creates reward pools under names that are unique       *)
(* once trimmed, takes the fee, and gives every owner one VRF consumer and *)
(* one paymaster.  createRewardPool is one transaction through the         *)
(* factories into RewardPool.Initialize.                                   *)
(*                                                                         *)
(* Names are abstract: Trimmed is what trim makes of an argument (module   *)
(* NameTrim).                                                              *)
(***************************************************************************)
EXTENDS RewardPool

CONSTANTS RawNames,     \* names as callers write them
          Trimmed,      \* [RawNames -> trimmed names]
          None,         \* address(0) in the registry's mappings
          RegistryOwner,
          Wallets,      \* addresses the revenue may go to
          RefusingWallets, \* those that accept no ether
          Registry,     \* the registry's own address
          InitialFee, Fees, Values,  \* bound: fees set and ether sent
          Methods       \* bound: redeem methods with the address passed for the token

ASSUME RegistryAssumption ==
    /\ DOMAIN Trimmed = RawNames
    /\ None \notin RewardPools \cup Users
    /\ NoName \notin ValidNames
    /\ RegistryOwner \in Users
    /\ Registry \notin Wallets /\ Wallets # {}
    /\ InitialFee \in Nat /\ Fees \subseteq Nat /\ Values \subseteq Nat
    /\ \A m \in Methods : m[2] \in ExistingTokens \cup {ZeroAddress}

VARIABLES usedNames,       \* _usedRewardPoolNames
          ownerToPools,    \* _ownerToRewardPools
          poolToOwner,     \* _rewardPoolToOwner
          vrfConsumer,     \* _ownerToVRFConsumer
          paymaster,       \* _ownerToPaymaster
          deployed,        \* consumers and paymasters deployed: the last address
          fee, revenueWallet,
          ether            \* received by the wallets and by the registry

registryVars == <<usedNames, ownerToPools, poolToOwner>>
serviceVars == <<vrfConsumer, paymaster, deployed>>
feeVars == <<fee, revenueWallet, ether>>
vars == <<poolVars, registryVars, serviceVars, feeVars>>

Init ==
    /\ PoolInit
    /\ usedNames = [n \in ValidNames |-> None]
    /\ ownerToPools = [u \in Users |-> <<>>]
    /\ poolToOwner = [p \in RewardPools |-> None]
    /\ vrfConsumer = [u \in Users |-> 0] /\ paymaster = [u \in Users |-> 0] /\ deployed = 0
    /\ fee = InitialFee /\ revenueWallet \in Wallets
    /\ ether = [w \in Wallets \cup {Registry} |-> 0]

TypeOK ==
    /\ PoolTypeOK
    /\ usedNames \in [ValidNames -> RewardPools \cup {None}]
    /\ ownerToPools \in [Users -> Seq(RewardPools)]
    /\ poolToOwner \in [RewardPools -> Users \cup {None}]
    /\ vrfConsumer \in [Users -> Nat] /\ paymaster \in [Users -> Nat] /\ deployed \in Nat
    /\ fee \in Nat /\ revenueWallet \in Wallets
    /\ ether \in [Wallets \cup {Registry} -> Nat]

\* Faulty: the name is looked up as the caller wrote it.
IsFreeName(raw) ==
    /\ Trimmed[raw] \in ValidNames
    /\ raw \in ValidNames => usedNames[raw] = None

\* _validateName: the length and the uniqueness of the trimmed name.
ValidatesName(raw) ==
    /\ Trimmed[raw] \in ValidNames
    /\ usedNames[Trimmed[raw]] = None

\* _transferCreationFee.  Without a fee the value is not looked at: it stays.
TransferCreationFee(value) ==
    IF fee > 0
    THEN /\ value = fee /\ revenueWallet \notin RefusingWallets
         /\ ether' = [ether EXCEPT ![revenueWallet] = @ + value]
    ELSE ether' = [ether EXCEPT ![Registry] = @ + value]

\* Faulty: every reward pool gets a new consumer.
SetVRFConsumerAnew(owner) ==
    /\ deployed' = deployed + 1
    /\ vrfConsumer' = [vrfConsumer EXCEPT ![owner] = deployed']
    /\ UNCHANGED paymaster

\* _setVRFConsumer: one for all the reward pools of an owner.
SetVRFConsumer(owner) ==
    /\ IF vrfConsumer[owner] = 0
       THEN /\ deployed' = deployed + 1
            /\ vrfConsumer' = [vrfConsumer EXCEPT ![owner] = deployed']
       ELSE UNCHANGED <<deployed, vrfConsumer>>
    /\ UNCHANGED paymaster

\* Faulty: the list of an owner is set where the pool should be pushed.
RegisterOnly(owner, p, name) ==
    /\ ownerToPools' = [ownerToPools EXCEPT ![owner] = <<p>>]
    /\ poolToOwner' = [poolToOwner EXCEPT ![p] = owner]
    /\ usedNames' = [usedNames EXCEPT ![name] = p]

\* What createRewardPool writes down once the pool is there.
Register(owner, p, name) ==
    /\ ownerToPools' = [ownerToPools EXCEPT ![owner] = Append(@, p)]
    /\ poolToOwner' = [poolToOwner EXCEPT ![p] = owner]
    /\ usedNames' = [usedNames EXCEPT ![name] = p]

CreateRewardPool(owner, raw, value, method, withdrawAddress, admins, p, a, price) ==
    /\ ValidatesName(raw)
    /\ TransferCreationFee(value)
    /\ SetVRFConsumer(owner)
    /\ Initialize(p, owner, Trimmed[raw], method[1], method[2],
                  IF withdrawAddress = ZeroAddress THEN owner ELSE withdrawAddress,
                  admins, a, price)
    /\ Register(owner, p, Trimmed[raw])
    /\ UNCHANGED <<fee, revenueWallet>>

\* Faulty: the name the pool had is free again.
SetNewRewardPoolNameReleased(sender, p, raw) ==
    /\ poolToOwner[p] = sender
    /\ ValidatesName(raw)
    /\ usedNames' = [usedNames EXCEPT ![Trimmed[raw]] = p, ![rewardPool[p].name] = None]
    /\ SetNewName(p, Trimmed[raw])
    /\ UNCHANGED <<ownerToPools, poolToOwner, serviceVars, feeVars>>

\* The name the pool had stays in use.
SetNewRewardPoolName(sender, p, raw) ==
    /\ poolToOwner[p] = sender
    /\ ValidatesName(raw)
    /\ usedNames' = [usedNames EXCEPT ![Trimmed[raw]] = p]
    /\ SetNewName(p, Trimmed[raw])
    /\ UNCHANGED <<ownerToPools, poolToOwner, serviceVars, feeVars>>

\* A second call does nothing.
CreatePaymaster(owner) ==
    /\ paymaster[owner] = 0
    /\ deployed' = deployed + 1
    /\ paymaster' = [paymaster EXCEPT ![owner] = deployed']
    /\ UNCHANGED <<poolVars, registryVars, vrfConsumer, feeVars>>

SetRewardPoolCreationFee(sender, amount) ==
    /\ sender = RegistryOwner
    /\ fee' = amount
    /\ UNCHANGED <<poolVars, registryVars, serviceVars, revenueWallet, ether>>

SetRevenueWallet(sender, wallet) ==
    /\ sender = RegistryOwner
    /\ revenueWallet' = wallet
    /\ UNCHANGED <<poolVars, registryVars, serviceVars, fee, ether>>

RewardPoolOperation == PoolNext /\ UNCHANGED <<registryVars, serviceVars, feeVars>>

Next ==
    \/ \E sender \in Users :
         \/ \E raw \in RawNames, value \in Values, method \in Methods,
               to \in WithdrawAddresses, admins \in RoleLists,
               p \in RewardPools, a \in AssetPools, price \in Prices :
              CreateRewardPool(sender, raw, value, method, to, admins, p, a, price)
         \/ \E p \in RewardPools, raw \in RawNames : SetNewRewardPoolName(sender, p, raw)
         \/ CreatePaymaster(sender)
         \/ \E amount \in Fees : SetRewardPoolCreationFee(sender, amount)
         \/ \E wallet \in Wallets : SetRevenueWallet(sender, wallet)
    \/ RewardPoolOperation

Spec == Init /\ [][Next]_vars

-----------------------------------------------------------------------------
(* Properties *)

\* The name a reward pool shows leads back to it, whoever renamed pools in between, so no
\* two pools show one name.
NamesResolve ==
    \A p \in RewardPools : Created(p) =>
        rewardPool[p].name \in ValidNames /\ usedNames[rewardPool[p].name] = p

\* A name that once led to a pool leads to it for good: nobody takes the name a pool had.
NamesNeverMove ==
    [][\A n \in ValidNames : usedNames[n] # None => usedNames'[n] = usedNames[n]]_vars

\* The registry and the reward pools agree on the owners: a pool is in the list of its
\* owner, once, and in no other.
OwnersAgree ==
    /\ \A p \in RewardPools :
         /\ Created(p) <=> poolToOwner[p] # None
         /\ Created(p) => poolToOwner[p] = rewardPool[p].owner
    /\ \A u \in Users :
         /\ Range(ownerToPools[u]) = {p \in RewardPools : poolToOwner[p] = u}
         /\ IsInjective(ownerToPools[u])

\* The consumer of an owner is there from its first reward pool on and is never replaced:
\* asset pools take answers from the consumer of their owner only, and a request made
\* through another would stay without an answer.
ConsumerStays ==
    [][\A p \in RewardPools : Created(p) =>
         LET u == rewardPool[p].owner
         IN  vrfConsumer[u] # 0 /\ vrfConsumer'[u] = vrfConsumer[u]]_vars

\* What the registry and the reward pools keep has its types; no sequence of lists makes
\* more admins or transferrers than allowed; and the ids of asset pools agree wherever
\* they are kept, in the reward pool and in the asset pool.
PoolsInOrder == TypeOK /\ RolesBounded /\ AssetPoolIds

\* The registry takes back nothing that others rely on: a name stays with its pool, and an
\* owner keeps its consumer.
NothingTakenBack == NamesNeverMove /\ ConsumerStays
=============================================================================
