---------------------------- MODULE MCAssetPool -----------------------------
(* Values of AssetPool's constants for TLC. *)
EXTENDS AssetPool, TLC

CONSTANTS pool, pool2, owner, user, hookless, erc20, erc721

E1 == <<erc20, 1>>          \* two ERC20 boxes
E2 == <<erc20, 2>>
N == <<NativeToken, CHOOSE a \in BoxAmounts : \A b \in BoxAmounts : a >= b>>
X == <<erc721, 1>>          \* an NFT

Cards(f) == [s \in Slots |-> IF s \in DOMAIN f THEN f[s] ELSE 0]
Deposit(f, listed) == [cards |-> Cards(f), listed |-> listed, surplus |-> 0]

\* Two ERC20 boxes of a card each; one native box of two; a native card and an NFT.
MixedDeposits == {Deposit(E1 :> 1 @@ E2 :> 1, {erc20}),
                  Deposit(N :> 2, {}),
                  Deposit(N :> 1 @@ X :> 1, {erc721})}
NativeDeposits == {Deposit(N :> 1, {}), Deposit(N :> 2, {})}

\* A row of one card beyond the last contract.
UnmatchedDeposits == {[d EXCEPT !.surplus = 1] : d \in NativeDeposits}

MixedWithdrawals == {Cards(E1 :> 1), Cards(N :> 1 @@ X :> 1)}
NativeWithdrawals == {Cards(N :> 1)}

EveryNft == Nfts
OwnerHasNfts == [s \in Nfts |-> owner]
ThreeForUser == [h \in Holders |-> IF h = user THEN 3 ELSE 0]
PriceOne == [p \in AssetPools |-> 1]
PriceOneAndTwo == [p \in AssetPools |-> IF p = pool THEN 1 ELSE 2]

AnyRequest == Permutations(RequestIds)
=============================================================================
