----------------------------- MODULE Deployment -----------------------------
(***************************************************************************)
(* What one reward pool is deployed with: its asset pools, the accounts    *)
(* that call them, the roles the reward pool gives those accounts, and the *)
(* redeem method fixed when the pool was created.                          *)
(***************************************************************************)
EXTENDS Counting

CONSTANTS AssetPools,       \* the AssetPoolV1 contracts of the reward pool
          Accounts,         \* every other address that acts
          ZeroAddress,      \* address(0)
          Owner,            \* RewardPoolV1.getOwner()
          Admins,           \* RewardPoolV1.getAdmins()
          Transferrers,     \* RewardPoolV1.getTransferrers()
          Refusing,         \* accounts that are contracts without receive hooks
          RedeemMethod,     \* IRewardPoolV1.RedeemMethod of the reward pool
          MaxUint           \* the largest uint256

Holders == Accounts \cup AssetPools

RedeemMethods == {"ExistingERC20", "CustomERC20", "CustomERC1155"}

ASSUME DeploymentAssumption ==
    /\ IsFiniteSet(AssetPools)
    /\ IsFiniteSet(Accounts)
    /\ AssetPools \cap Accounts = {}
    /\ ZeroAddress \notin Holders
    /\ Owner \in Accounts
    /\ Admins \subseteq Accounts
    /\ Transferrers \subseteq Accounts
    /\ Refusing \subseteq Accounts
    /\ RedeemMethod \in RedeemMethods
    /\ MaxUint \in Nat

\* RewardPoolV1.isAdmin and isTransferrer: the owner has every role.
IsAdmin(a) == a \in Admins \cup {Owner}
IsTransferrer(a) == a \in Transferrers \cup {Owner}

CustomRedeemMethod == RedeemMethod \in {"CustomERC20", "CustomERC1155"}
=============================================================================
