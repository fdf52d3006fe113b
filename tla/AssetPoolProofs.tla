--------------------------- MODULE AssetPoolProofs --------------------------
(***************************************************************************)
(* What holds of AssetPool for any number of pools, accounts, boxes and    *)
(* requests, and any amounts.                                              *)
(***************************************************************************)
EXTENDS AssetPool, CountingProofs

\* The boxes of a contract are finitely many, like all boxes.
LEMMA SlotsFinite ==
    /\ IsFiniteSet(Slots)
    /\ \A c : IsFiniteSet(SlotsOf(c)) /\ SlotsOf(c) \subseteq Slots
<1> USE AssetPoolAssumption DEF Fungibles
<1>1. IsFiniteSet(Fungibles) /\ IsFiniteSet(Erc721Contracts)
    BY FS_AddElement
<1>2. IsFiniteSet(Fungibles \X BoxAmounts) /\ IsFiniteSet(Nfts)
    BY <1>1, FS_Product DEF Nfts
<1>3. IsFiniteSet(Slots)
    BY <1>2, FS_Union DEF Slots
<1> QED BY <1>3, FS_Subset DEF SlotsOf

\* A box of a fungible contract pays a natural amount.
LEMMA FungibleSlot ==
    ASSUME NEW c \in Fungibles, NEW s \in SlotsOf(c)
    PROVE  s \in Slots /\ s[1] = c /\ s[2] \in Nat /\ s \notin Nfts
BY AssetPoolAssumption DEF Slots, SlotsOf, Nfts, Contracts

\* A box that is no NFT is a box of a fungible contract.
LEMMA SlotKinds ==
    ASSUME NEW s \in Slots
    PROVE  /\ s[1] \in Contracts
           /\ s \in SlotsOf(s[1])
           /\ s \notin Nfts => s[1] \in Fungibles /\ s[2] \in Nat
           /\ s \in Nfts => s[1] \notin Fungibles
BY AssetPoolAssumption DEF Slots, SlotsOf, Nfts, Contracts

\* What cards pay of a fungible contract is a natural amount.
LEMMA ValueType ==
    ASSUME NEW f \in [Slots -> Nat], NEW c \in Fungibles
    PROVE  ValueOf(f, c) \in Nat
<1> DEFINE v == [s \in SlotsOf(c) |-> s[2] * f[s]]
<1>1. \A s \in SlotsOf(c) : s[2] \in Nat /\ f[s] \in Nat
    BY FungibleSlot
<1>2. \A s \in SlotsOf(c) : v[s] \in Nat
    BY <1>1
<1>3. Total(v, SlotsOf(c)) \in Nat
    BY <1>2, SlotsFinite, TotalType
<1> QED BY <1>3 DEF ValueOf

\* A number of cards is a natural.
LEMMA CountType ==
    ASSUME NEW f \in [Slots -> Nat]
    PROVE  /\ Total(f, Slots) \in Nat
           /\ \A c : Total(f, SlotsOf(c)) \in Nat
BY SlotsFinite, TotalType

\* Replacing one value of a table leaves it a table of the same type.
LEMMA UpdateType ==
    ASSUME NEW A, NEW B, NEW C, NEW f \in [A -> [B -> C]], NEW a \in A,
           NEW b \in B, NEW v \in C
    PROVE  [f EXCEPT ![a][b] = v] \in [A -> [B -> C]]
OBVIOUS

\* The calls a pool makes on the redeem token keep balances natural.
LEMMA BalanceType ==
    ASSUME balance \in [RedeemTokens -> [Holders -> Nat]],
           NEW t \in RedeemTokens, NEW h \in Holders, NEW g \in Holders,
           NEW n \in Nat, NEW operator,
           \/ Mint(t, h, n)
           \/ Burn(t, h, n)
           \/ Transfer(operator, t, g, h, n)
    PROVE  balance' \in [RedeemTokens -> [Holders -> Nat]]
<1>1. \A x \in Holders : balance[t][x] \in Nat
    OBVIOUS
<1>2. CASE Mint(t, h, n)
    <2>1. balance[t][h] + n \in Nat
        BY <1>1
    <2> QED BY <1>2, <2>1, UpdateType DEF Mint
<1>3. CASE Burn(t, h, n)
    <2>1. balance[t][h] - n \in Nat
        BY <1>1, <1>3 DEF Burn
    <2> QED BY <1>3, <2>1, UpdateType DEF Burn
<1>4. CASE Transfer(operator, t, g, h, n)
    <2> DEFINE debited == [balance EXCEPT ![t][g] = @ - n]
    <2>1. balance[t][g] - n \in Nat
        BY <1>1, <1>4 DEF Transfer
    <2>2. debited \in [RedeemTokens -> [Holders -> Nat]]
        BY <2>1, UpdateType
    <2>3. balance' = [debited EXCEPT ![t][h] = @ + n]
        BY <1>4 DEF Transfer
    <2> HIDE DEF debited
    <2>4. debited[t][h] + n \in Nat
        BY <2>2
    <2> QED BY <2>2, <2>3, <2>4, UpdateType
<1> QED BY <1>2, <1>3, <1>4

\* Every pool has a redeem token.
LEMMA TokenOfPool ==
    ASSUME NEW p \in AssetPools
    PROVE  RedeemTokenOf(p) \in RedeemTokens
BY DEF RedeemTokens, RedeemTokenOf

-----------------------------------------------------------------------------
(* Types. *)

\* The zero-word requests of a call are finitely many.
LEMMA IdsFinite ==
    ASSUME NEW ids \in SUBSET RequestIds
    PROVE  IsFiniteSet(ids) /\ Cardinality(ids) \in Nat
BY VRFAssumption, FS_Subset, FS_CardinalityType

\* Settling a request leaves a well formed table of requests.
LEMMA SettleType ==
    ASSUME VRFTypeOK, NEW r \in RequestIds, NEW st \in {"fulfilled", "failed"},
           Settle(r, st)
    PROVE  /\ VRFTypeOK'
           /\ requests[r] \in Requests
           /\ requests[r].assetPool \in AssetPools
           /\ requests[r].receiver \in Accounts
<1>1. requests[r].status = "pending"
    BY DEF Settle
<1>2. requests[r] \in Requests
    BY <1>1 DEF VRFTypeOK, NoRequest
<1>3. [requests[r] EXCEPT !.status = st] \in Requests
    BY <1>2 DEF Requests
<1>4. requests' = [requests EXCEPT ![r] = [requests[r] EXCEPT !.status = st]]
    BY DEF Settle
<1>5. requests' \in [RequestIds -> Requests \cup {NoRequest}]
    BY <1>3, <1>4 DEF VRFTypeOK
<1> QED BY <1>2, <1>5 DEF VRFTypeOK, Settle, Requests

\* Asking for random words leaves a well formed table of requests.
LEMMA RequestType ==
    ASSUME VRFTypeOK, NEW p \in AssetPools, NEW receiver \in Accounts,
           NEW ids \in SUBSET RequestIds, RequestRandomWords(p, receiver, ids)
    PROVE  VRFTypeOK'
<1>1. [status |-> "pending", assetPool |-> p, receiver |-> receiver] \in Requests
    BY DEF Requests
<1>2. requests' \in [RequestIds -> Requests \cup {NoRequest}]
    BY <1>1 DEF RequestRandomWords, VRFTypeOK
<1>3. link' \in 0 .. LinkSupply
    BY IdsFinite, VRFAssumption DEF RequestRandomWords, VRFTypeOK
<1> QED BY <1>2, <1>3 DEF VRFTypeOK

\* Every variable keeps its type.
LEMMA TypeStep ==
    ASSUME TypeOK, [Next]_vars
    PROVE  TypeOK'
<1> USE DeploymentAssumption, RedeemTokenAssumption, AssetPoolAssumption
<1> USE DEF TypeOK, TokenTypeOK, Holders
<1>1. ASSUME NEW p \in AssetPools, NEW sender \in Accounts, NEW d \in Deposits,
             DepositAssets(p, sender, d)
      PROVE  TypeOK'
    <2> USE <1>1
    <2> DEFINE n == NumberDeposited(d)
    <2>1. /\ d.cards \in [Slots -> Nat] /\ d.surplus \in Nat
          /\ d.listed \subseteq Contracts
        BY DEF DepositCalls, Contracts, Fungibles
    <2>2. n \in Nat
        <3>1. Total(d.cards, Slots) \in Nat
            BY <2>1, CountType
        <3> QED BY <2>1, <3>1 DEF NumberDeposited
    <2>3. totalNumberOfAssets' \in [AssetPools -> Nat]
        BY <2>2 DEF DepositAssets
    <2>4. Plus(cards[p], d.cards) \in [Slots -> Nat]
        BY <2>1 DEF Plus
    <2>5. cards' \in [AssetPools -> [Slots -> Nat]]
        BY <2>4 DEF DepositAssets
    <2>6. ContractsAfterDeposit(p, d) \subseteq Contracts
        BY <2>1 DEF ContractsAfterDeposit, Contracts, Fungibles
    <2>7. contractAddresses' \in [AssetPools -> SUBSET Contracts]
        BY <2>6 DEF DepositAssets
    <2>8. [c \in Fungibles |-> held[p][c] + AmountDeposited(d, c)] \in [Fungibles -> Nat]
        <3>1. \A c \in Fungibles : AmountDeposited(d, c) \in Nat
            BY <2>1, ValueType DEF AmountDeposited
        <3> QED BY <3>1
    <2>9. held' \in [AssetPools -> [Fungibles -> Nat]]
        BY <2>8 DEF DepositAssets
    <2>10. nftOwner' \in [Nfts -> Holders] /\ depositer' \in [Nfts -> Accounts]
        BY DEF DepositAssets
    <2>11. redeemTokenAmount[p] * n \in Nat
        BY <2>2
    <2>12. balance' \in [RedeemTokens -> [Holders -> Nat]]
        BY <2>11, TokenOfPool, BalanceType DEF DepositAssets, MintRedeemTokens
    <2> QED BY <2>3, <2>5, <2>7, <2>9, <2>10, <2>12 DEF DepositAssets, vrfVars, VRFTypeOK
<1>2. ASSUME NEW p \in AssetPools, NEW sender \in Accounts, NEW w \in Withdrawals,
             WithdrawAssets(p, sender, w)
      PROVE  TypeOK'
    <2> USE <1>2
    <2> DEFINE n == Total(w, Slots)
    <2>1. w \in [Slots -> Nat] /\ n \in Nat
        BY CountType
    <2>2. CanWithdraw(p, w) /\ n <= totalNumberOfAssets[p]
        BY DEF WithdrawAssets
    <2>3. totalNumberOfAssets' \in [AssetPools -> Nat]
        BY <2>1, <2>2 DEF WithdrawAssets
    <2>4. Minus(cards[p], w) \in [Slots -> Nat]
        BY <2>1, <2>2 DEF Minus, CanWithdraw
    <2>5. cards' \in [AssetPools -> [Slots -> Nat]]
        BY <2>4 DEF WithdrawAssets
    <2>6. [c \in Fungibles |-> held[p][c] - ValueOf(w, c)] \in [Fungibles -> Nat]
        <3>1. \A c \in Fungibles : ValueOf(w, c) \in Nat
            BY <2>1, ValueType
        <3>2. \A c \in Fungibles : held[p][c] \in Nat
            OBVIOUS
        <3>3. \A c \in Fungibles : ValueOf(w, c) <= held[p][c]
            BY <2>2 DEF CanWithdraw
        <3> QED BY <3>1, <3>2, <3>3
    <2>7. held' \in [AssetPools -> [Fungibles -> Nat]]
        BY <2>6 DEF WithdrawAssets
    <2>8. nftOwner' \in [Nfts -> Holders]
        BY DEF WithdrawAssets
    <2>9. redeemTokenAmount[p] * n \in Nat
        BY <2>1
    <2>10. balance' \in [RedeemTokens -> [Holders -> Nat]]
        BY <2>9, TokenOfPool, BalanceType DEF WithdrawAssets, BurnRedeemTokens
    <2> QED BY <2>3, <2>5, <2>7, <2>8, <2>10 DEF WithdrawAssets, vrfVars, VRFTypeOK
<1>3. ASSUME NEW p \in AssetPools, NEW receiver \in Accounts,
             NEW ids \in SUBSET RequestIds, RedeemAsset(p, receiver, ids)
      PROVE  TypeOK'
    <2> USE <1>3
    <2> DEFINE n == Cardinality(ids)
    <2>1. n \in Nat /\ n <= totalNumberOfAssets[p]
        BY IdsFinite DEF RedeemAsset, MayRedeem
    <2>2. totalNumberOfAssets' \in [AssetPools -> Nat]
        BY <2>1 DEF RedeemAsset
    <2>3. redeemTokenAmount[p] * n \in Nat
        BY <2>1
    <2>4. SharedToken \in RedeemTokens \/ RedeemMethod # "ExistingERC20"
        BY DEF RedeemTokens
    <2>5. balance' \in [RedeemTokens -> [Holders -> Nat]]
        BY <2>3, <2>4, TokenOfPool, BalanceType DEF RedeemAsset, Pay
    <2>6. VRFTypeOK'
        BY RequestType DEF RedeemAsset
    <2> QED BY <2>2, <2>5, <2>6 DEF RedeemAsset
<1>4. ASSUME NEW r \in RequestIds, FulfillRedeemAsset(r)
      PROVE  TypeOK'
    <2> USE <1>4
    <2> DEFINE p == requests[r].assetPool
               receiver == requests[r].receiver
    <2>1. Settle(r, "fulfilled")
        BY DEF FulfillRedeemAsset
    <2>2. VRFTypeOK' /\ p \in AssetPools /\ receiver \in Accounts
        BY <2>1, SettleType
    <2>3. PICK s \in Drawable(p, receiver) :
             /\ cards' = [cards EXCEPT ![p][s] = UpdateAssetBox(@)]
             /\ contractAddresses' = [contractAddresses EXCEPT
                                          ![p] = ContractsAfterDraw(p, s)]
             /\ IF s \in Nfts
                THEN /\ nftOwner' = [nftOwner EXCEPT ![s] = receiver]
                     /\ UNCHANGED held
                ELSE /\ held' = [held EXCEPT ![p][s[1]] = @ - s[2]]
                     /\ UNCHANGED nftOwner
        BY DEF FulfillRedeemAsset
    <2>4. s \in Slots /\ cards[p][s] > 0 /\ CanDeliver(p, s, receiver)
        BY <2>3 DEF Drawable
    <2>5. UpdateAssetBox(cards[p][s]) \in Nat
        BY <2>2, <2>4 DEF UpdateAssetBox
    <2>6. cards' \in [AssetPools -> [Slots -> Nat]]
        BY <2>2, <2>3, <2>4, <2>5, UpdateType
    <2>7. contractAddresses' \in [AssetPools -> SUBSET Contracts]
        BY <2>2, <2>3 DEF ContractsAfterDraw
    <2>8. nftOwner' \in [Nfts -> Holders]
        BY <2>2, <2>3
    <2>9. held' \in [AssetPools -> [Fungibles -> Nat]]
        <3>1. CASE s \in Nfts
            BY <3>1, <2>3
        <3>2. CASE s \notin Nfts
            <4>1. s[1] \in Fungibles /\ s[2] \in Nat
                BY <3>2, <2>4, SlotKinds
            <4>2. held[p][s[1]] - s[2] \in Nat
                BY <4>1, <3>2, <2>2, <2>4 DEF CanDeliver
            <4>3. held' = [held EXCEPT ![p][s[1]] = held[p][s[1]] - s[2]]
                BY <3>2, <2>3
            <4>4. p \in AssetPools
                BY <2>2
            <4> HIDE DEF p
            <4> QED BY <4>1, <4>2, <4>3, <4>4, UpdateType
        <3> QED BY <3>1, <3>2
    <2> QED BY <2>2, <2>6, <2>7, <2>8, <2>9 DEF FulfillRedeemAsset, tokenVars
<1>5. ASSUME NEW r \in RequestIds, FulfillReverts(r)
      PROVE  TypeOK'
    BY <1>5, SettleType DEF FulfillReverts, poolVars, tokenVars
<1>6. ASSUME NEW p \in AssetPools, NEW sender \in Accounts, NEW to \in Holders,
             NEW n \in Nat, TransferRedeemTokenAmount(p, sender, to, n)
      PROVE  TypeOK'
    <2>1. balance' \in [RedeemTokens -> [Holders -> Nat]]
        BY <1>6, TokenOfPool, BalanceType DEF TransferRedeemTokenAmount
    <2> QED BY <1>6, <2>1 DEF TransferRedeemTokenAmount, poolVars, vrfVars, VRFTypeOK
<1>7. ASSUME NEW p \in AssetPools, NEW sender \in Accounts, NEW n \in TransferAmounts,
             NEW to \in Holders, TransferRedeemTokenNumber(p, sender, to, n)
      PROVE  TypeOK'
    <2>1. n * redeemTokenAmount[p] \in Nat
        OBVIOUS
    <2> QED BY <1>6, <1>7, <2>1 DEF TransferRedeemTokenNumber
<1>8. ASSUME NEW p \in AssetPools, NEW sender \in Accounts, NEW a \in Prices,
             SetRedeemTokenAmount(p, sender, a)
      PROVE  TypeOK'
    BY <1>8 DEF SetRedeemTokenAmount, tokenVars, vrfVars, VRFTypeOK
<1>9. ASSUME NEW p \in AssetPools, NEW c \in Donatable, Donate(p, c)
      PROVE  TypeOK'
    <2>1. held[p][c] + 1 \in Nat /\ c \in Fungibles
        OBVIOUS
    <2>2. held' \in [AssetPools -> [Fungibles -> Nat]]
        BY <1>9, <2>1, UpdateType DEF Donate
    <2> QED BY <1>9, <2>2 DEF Donate, tokenVars, vrfVars, VRFTypeOK
<1>10. ASSUME NEW sender \in Accounts, NEW flag \in BOOLEAN, SetActive(sender, flag)
       PROVE  TypeOK'
    BY <1>10 DEF SetActive, tokenVars, vrfVars, VRFTypeOK
<1>11. ASSUME NEW s \in Sendable, NEW to \in Holders, SendNft(s, to)
       PROVE  TypeOK'
    BY <1>11 DEF SendNft, tokenVars, vrfVars, VRFTypeOK
<1>12. ASSUME TokenStep
       PROVE  TypeOK'
    <2>1. ASSUME NEW t \in RedeemTokens, NEW from \in Accounts, NEW to \in Holders,
                 NEW n \in TransferAmounts, HolderTransfer(t, from, to, n)
          PROVE  TokenTypeOK'
        <3>1. balance' \in [RedeemTokens -> [Holders -> Nat]]
            BY <2>1, BalanceType DEF HolderTransfer
        <3> QED BY <2>1, <3>1 DEF HolderTransfer
    <2>2. ASSUME NEW sender \in Accounts, NEW user \in BlacklistTargets,
                 NEW flag \in BOOLEAN, SetBlacklisted(sender, user, flag)
          PROVE  TokenTypeOK'
        <3>1. user \in Holders \cup {ZeroAddress}
            OBVIOUS
        <3>2. blacklisted' \subseteq blacklisted \cup {user} /\ balance' = balance
            BY <2>2 DEF SetBlacklisted
        <3> QED BY <3>1, <3>2
    <2> HIDE DEF TypeOK, TokenTypeOK, Holders
    <2> HIDE DeploymentAssumption, RedeemTokenAssumption, AssetPoolAssumption
    <2>3. TokenTypeOK'
        <3>1. CASE \E t \in RedeemTokens, from \in Accounts, to \in Holders,
                      n \in TransferAmounts : HolderTransfer(t, from, to, n)
            BY <2>1, <3>1, Zenon
        <3>2. CASE \E sender \in Accounts, user \in BlacklistTargets, flag \in BOOLEAN :
                      SetBlacklisted(sender, user, flag)
            BY <2>2, <3>2, Zenon
        <3> QED BY <1>12, <3>1, <3>2 DEF TokenStep
    <2> USE DEF TypeOK
    <2> QED BY <1>12, <2>3 DEF TokenStep, poolVars, vrfVars, VRFTypeOK
<1>13. ASSUME LinkStep
       PROVE  TypeOK'
    <2>1. VRFTypeOK'
        <3>1. link' \in 0 .. LinkSupply /\ requests' = requests
            BY <1>13, VRFAssumption DEF LinkStep, DepositLink, WithdrawLink, VRFTypeOK
        <3> QED BY <3>1 DEF VRFTypeOK
    <2>2. UNCHANGED <<poolVars, tokenVars>>
        BY <1>13 DEF LinkStep
    <2> QED BY <2>1, <2>2 DEF poolVars, tokenVars
<1>14. CASE UNCHANGED vars
    BY <1>14 DEF vars, poolVars, tokenVars, vrfVars, VRFTypeOK
<1> HIDE DEF TypeOK, TokenTypeOK, Holders
<1>15. TransferAmounts \subseteq Nat
    OBVIOUS
<1> HIDE DeploymentAssumption, RedeemTokenAssumption, AssetPoolAssumption
<1> QED
    BY <1>1, <1>2, <1>3, <1>4, <1>5, <1>6, <1>7, <1>8, <1>9, <1>10, <1>11, <1>12,
       <1>13, <1>14, <1>15 DEF Next, PoolStep, Answer

\* The types hold at first.
LEMMA TypeInit == Init => TypeOK
<1> SUFFICES ASSUME Init PROVE TypeOK
    OBVIOUS
<1>1. TokenTypeOK
    BY RedeemTokenAssumption DEF Init, TokenInit, TokenTypeOK
<1>2. VRFTypeOK
    BY VRFAssumption DEF Init, VRFInit, VRFTypeOK
<1> QED BY <1>1, <1>2, AssetPoolAssumption DEF Init, TypeOK, Holders

\* No sequence of calls takes a variable out of its type: no balance and no
\* counter ever goes below zero.
THEOREM WellTyped == Spec => []TypeOK
<1>1. TypeOK /\ [Next]_vars => TypeOK'
    BY TypeStep
<1> QED BY <1>1, TypeInit, PTL DEF Spec

-----------------------------------------------------------------------------
(* The steps that cards, contracts, totals, assets and requests depend on. *)

ledgers == <<cards, contractAddresses, totalNumberOfAssets, held, nftOwner, requests>>

\* Every other step leaves them all alone.
LEMMA StepCases ==
    ASSUME [Next]_vars
    PROVE  \/ \E p \in AssetPools, sender \in Accounts, d \in Deposits :
                 DepositAssets(p, sender, d)
           \/ \E p \in AssetPools, sender \in Accounts, w \in Withdrawals :
                 WithdrawAssets(p, sender, w)
           \/ \E p \in AssetPools, receiver \in Accounts, ids \in SUBSET RequestIds :
                 RedeemAsset(p, receiver, ids)
           \/ \E r \in RequestIds : FulfillRedeemAsset(r)
           \/ \E r \in RequestIds : FulfillReverts(r)
           \/ \E p \in AssetPools, c \in Donatable : Donate(p, c)
           \/ \E s \in Sendable, to \in Holders : SendNft(s, to)
           \/ UNCHANGED ledgers
<1>1. ASSUME NEW p \in AssetPools, NEW sender, NEW to, NEW n,
             TransferRedeemTokenAmount(p, sender, to, n)
      PROVE  UNCHANGED ledgers
    BY <1>1 DEF TransferRedeemTokenAmount, ledgers, poolVars, vrfVars
<1>2. ASSUME NEW p \in AssetPools, NEW sender, NEW a, SetRedeemTokenAmount(p, sender, a)
      PROVE  UNCHANGED ledgers
    BY <1>2 DEF SetRedeemTokenAmount, ledgers, vrfVars
<1>3. ASSUME NEW sender, NEW flag, SetActive(sender, flag)
      PROVE  UNCHANGED ledgers
    BY <1>3 DEF SetActive, ledgers, vrfVars
<1>4. TokenStep => UNCHANGED ledgers
    BY DEF TokenStep, ledgers, poolVars, vrfVars
<1>5. LinkStep => UNCHANGED ledgers
    BY DEF LinkStep, DepositLink, WithdrawLink, ledgers, poolVars
<1>6. UNCHANGED vars => UNCHANGED ledgers
    BY DEF vars, ledgers, poolVars, vrfVars
<1> QED
    BY <1>1, <1>2, <1>3, <1>4, <1>5, <1>6
       DEF Next, PoolStep, Answer, TransferRedeemTokenNumber

\* One card of box s of p goes to the receiver, for request r.
CardDrawn(r, p, receiver, s) ==
    /\ requests[r].assetPool = p
    /\ cards[p][s] > 0
    /\ cards' = [cards EXCEPT ![p][s] = cards[p][s] - 1]
    /\ contractAddresses' = [contractAddresses EXCEPT
                                 ![p] = ContractsAfterDraw(p, s)]
    /\ s \in Nfts =>
          /\ nftOwner[s] = p
          /\ nftOwner' = [nftOwner EXCEPT ![s] = receiver]
          /\ held' = held
    /\ s \notin Nfts =>
          /\ s[1] \in Fungibles /\ s[2] \in Nat
          /\ held[p][s[1]] >= s[2]
          /\ held' = [held EXCEPT ![p][s[1]] = held[p][s[1]] - s[2]]
          /\ nftOwner' = nftOwner

\* What a fulfilled request does: one card of one box goes to the receiver.
LEMMA OneCardDrawn ==
    ASSUME TypeOK, NEW r \in RequestIds, FulfillRedeemAsset(r)
    PROVE  \E p \in AssetPools, receiver \in Accounts, s \in Slots :
              CardDrawn(r, p, receiver, s)
<1> DEFINE p == requests[r].assetPool
           receiver == requests[r].receiver
<1>1. Settle(r, "fulfilled")
    BY DEF FulfillRedeemAsset
<1>2. p \in AssetPools /\ receiver \in Accounts
    BY <1>1, SettleType DEF TypeOK
<1>3. PICK s \in Drawable(p, receiver) :
         /\ cards' = [cards EXCEPT ![p][s] = UpdateAssetBox(@)]
         /\ contractAddresses' = [contractAddresses EXCEPT
                                      ![p] = ContractsAfterDraw(p, s)]
         /\ IF s \in Nfts
            THEN /\ nftOwner' = [nftOwner EXCEPT ![s] = receiver]
                 /\ UNCHANGED held
            ELSE /\ held' = [held EXCEPT ![p][s[1]] = @ - s[2]]
                 /\ UNCHANGED nftOwner
    BY DEF FulfillRedeemAsset
<1>4. s \in Slots /\ cards[p][s] > 0 /\ CanDeliver(p, s, receiver)
    BY <1>3 DEF Drawable
<1>5. cards' = [cards EXCEPT ![p][s] = cards[p][s] - 1]
    BY <1>3 DEF UpdateAssetBox
<1>6. s \in Nfts =>
         /\ nftOwner[s] = p
         /\ nftOwner' = [nftOwner EXCEPT ![s] = receiver]
         /\ held' = held
    BY <1>3, <1>4 DEF CanDeliver
<1>7. s \notin Nfts =>
         /\ s[1] \in Fungibles /\ s[2] \in Nat
         /\ held[p][s[1]] >= s[2]
         /\ held' = [held EXCEPT ![p][s[1]] = held[p][s[1]] - s[2]]
         /\ nftOwner' = nftOwner
    BY <1>3, <1>4, SlotKinds DEF CanDeliver
<1> HIDE DEF p, receiver
<1>8. p = requests[r].assetPool
    BY DEF p
<1>9. CardDrawn(r, p, receiver, s)
    BY <1>3, <1>4, <1>5, <1>6, <1>7, <1>8 DEF CardDrawn
<1> QED BY <1>2, <1>4, <1>9

-----------------------------------------------------------------------------
(* Which cards there are, and whether a draw can reach them. *)

\* A deposit adds its cards to those of the pool.
LEMMA CardsDeposited ==
    ASSUME TypeOK, NEW p \in AssetPools, NEW sender, NEW d \in Deposits,
           DepositAssets(p, sender, d)
    PROVE  /\ d.cards \in [Slots -> Nat]
           /\ \A s \in Slots : cards'[p][s] = cards[p][s] + d.cards[s]
           /\ \A q \in AssetPools \ {p} : cards'[q] = cards[q]
<1>1. cards' = [cards EXCEPT ![p] = Plus(cards[p], d.cards)]
    BY DEF DepositAssets
<1>2. d.cards \in [Slots -> Nat] /\ cards \in [AssetPools -> [Slots -> Nat]]
    BY AssetPoolAssumption DEF DepositCalls, TypeOK
<1> QED BY <1>1, <1>2 DEF Plus

\* A withdrawal takes its cards away from those of the pool.
LEMMA CardsWithdrawn ==
    ASSUME TypeOK, NEW p \in AssetPools, NEW sender, NEW w \in Withdrawals,
           WithdrawAssets(p, sender, w)
    PROVE  /\ w \in [Slots -> Nat]
           /\ \A s \in Slots : /\ w[s] <= cards[p][s]
                               /\ cards'[p][s] = cards[p][s] - w[s]
           /\ \A q \in AssetPools \ {p} : cards'[q] = cards[q]
<1>1. cards' = [cards EXCEPT ![p] = Minus(cards[p], w)]
    BY DEF WithdrawAssets
<1>2. \A s \in Slots : w[s] <= cards[p][s]
    BY DEF WithdrawAssets, CanWithdraw
<1>3. w \in [Slots -> Nat] /\ cards \in [AssetPools -> [Slots -> Nat]]
    BY AssetPoolAssumption DEF TypeOK
<1> QED BY <1>1, <1>2, <1>3 DEF Minus

\* A box of an NFT stays a single card, backed by the NFT.
LEMMA NftCustodyStep ==
    ASSUME TypeOK, NftCustody, [Next]_vars
    PROVE  NftCustody'
<1> SUFFICES ASSUME NEW q \in AssetPools, NEW s \in Nfts, cards'[q][s] > 0
             PROVE  cards'[q][s] = 1 /\ nftOwner'[s] = q
    BY DEF NftCustody
<1>1. /\ s \in Slots
      /\ cards \in [AssetPools -> [Slots -> Nat]]
      /\ nftOwner \in [Nfts -> Holders]
      /\ AssetPools \cap Accounts = {}
    BY DeploymentAssumption DEF Slots, TypeOK
<1>2. \A p \in AssetPools : cards[p][s] > 0 => cards[p][s] = 1 /\ nftOwner[s] = p
    BY DEF NftCustody
<1>3. ASSUME NEW p \in AssetPools, NEW sender \in Accounts, NEW d \in Deposits,
             DepositAssets(p, sender, d)
      PROVE  cards'[q][s] = 1 /\ nftOwner'[s] = q
    <2>1. d.cards[s] > 0 => d.cards[s] = 1 /\ nftOwner[s] = sender
        BY <1>3 DEF DepositAssets, NftsTransferable
    <2>2. nftOwner'[s] = IF d.cards[s] > 0 THEN p ELSE nftOwner[s]
        BY <1>3 DEF DepositAssets
    <2> QED BY <1>1, <1>2, <1>3, <2>1, <2>2, CardsDeposited
<1>4. ASSUME NEW p \in AssetPools, NEW sender \in Accounts, NEW w \in Withdrawals,
             WithdrawAssets(p, sender, w)
      PROVE  cards'[q][s] = 1 /\ nftOwner'[s] = q
    <2>1. w[s] > 0 => nftOwner[s] = p
        BY <1>4 DEF WithdrawAssets, CanWithdraw
    <2>2. nftOwner'[s] = IF w[s] > 0 THEN depositer[s] ELSE nftOwner[s]
        BY <1>4 DEF WithdrawAssets
    <2> QED BY <1>1, <1>2, <1>4, <2>1, <2>2, CardsWithdrawn
<1>5. ASSUME NEW p \in AssetPools, NEW receiver \in Accounts,
             NEW ids \in SUBSET RequestIds, RedeemAsset(p, receiver, ids)
      PROVE  cards'[q][s] = 1 /\ nftOwner'[s] = q
    BY <1>2, <1>5 DEF RedeemAsset
<1>6. ASSUME NEW r \in RequestIds, FulfillRedeemAsset(r)
      PROVE  cards'[q][s] = 1 /\ nftOwner'[s] = q
    <2>0. PICK p \in AssetPools, receiver \in Accounts, t \in Slots :
             CardDrawn(r, p, receiver, t)
        BY <1>6, OneCardDrawn
    <2>1. /\ cards[p][t] > 0
          /\ cards' = [cards EXCEPT ![p][t] = cards[p][t] - 1]
          /\ t \in Nfts => /\ nftOwner[t] = p
                           /\ nftOwner' = [nftOwner EXCEPT ![t] = receiver]
          /\ t \notin Nfts => nftOwner' = nftOwner
        BY <2>0 DEF CardDrawn
    <2>2. CASE t = s
        <3>1. q # p => cards[q][s] = 0
            BY <1>1, <1>2, <2>1, <2>2
        <3>2. q # p => cards'[q][s] = cards[q][s]
            BY <1>1, <2>1
        <3>3. cards'[p][s] = 0
            BY <1>1, <1>2, <2>1, <2>2
        <3> QED BY <3>1, <3>2, <3>3
    <2>3. CASE t # s
        <3>1. cards'[q][s] = cards[q][s] /\ nftOwner'[s] = nftOwner[s]
            BY <1>1, <2>1, <2>3
        <3> QED BY <1>2, <3>1
    <2> QED BY <2>2, <2>3
<1>7. ASSUME NEW r \in RequestIds, FulfillReverts(r)
      PROVE  cards'[q][s] = 1 /\ nftOwner'[s] = q
    BY <1>2, <1>7 DEF FulfillReverts, poolVars
<1>8. ASSUME NEW p \in AssetPools, NEW c \in Donatable, Donate(p, c)
      PROVE  cards'[q][s] = 1 /\ nftOwner'[s] = q
    BY <1>2, <1>8 DEF Donate
<1>9. ASSUME NEW t \in Sendable, NEW to \in Holders, SendNft(t, to)
      PROVE  cards'[q][s] = 1 /\ nftOwner'[s] = q
    BY <1>1, <1>2, <1>9 DEF SendNft
<1>10. CASE UNCHANGED ledgers
    BY <1>2, <1>10 DEF ledgers
<1> QED BY <1>3, <1>4, <1>5, <1>6, <1>7, <1>8, <1>9, <1>10, StepCases

\* A contract is forgotten only together with its last card.
LEMMA EveryCardDrawableStep ==
    ASSUME TypeOK, EveryCardDrawable, [Next]_vars
    PROVE  EveryCardDrawable'
<1> SUFFICES ASSUME NEW q \in AssetPools, NEW s \in Slots, cards'[q][s] > 0
             PROVE  s[1] \in contractAddresses'[q]
    BY DEF EveryCardDrawable
<1>1. /\ cards \in [AssetPools -> [Slots -> Nat]]
      /\ contractAddresses \in [AssetPools -> SUBSET Contracts]
    BY DEF TypeOK
<1>2. \A p \in AssetPools, t \in Slots : cards[p][t] > 0 => t[1] \in contractAddresses[p]
    BY DEF EveryCardDrawable
<1>3. ASSUME NEW p \in AssetPools, NEW sender \in Accounts, NEW d \in Deposits,
             DepositAssets(p, sender, d)
      PROVE  s[1] \in contractAddresses'[q]
    <2>1. d.cards[s] > 0 => s[1] \in d.listed \cup {NativeToken}
        BY AssetPoolAssumption
    <2>2. contractAddresses' = [contractAddresses EXCEPT
              ![p] = contractAddresses[p] \cup d.listed \cup {NativeToken}]
        BY <1>3 DEF DepositAssets, ContractsAfterDeposit
    <2>3. cards[q][s] > 0 \/ (q = p /\ d.cards[s] > 0)
        BY <1>1, <1>3, CardsDeposited
    <2> QED BY <1>1, <1>2, <2>1, <2>2, <2>3
<1>4. ASSUME NEW p \in AssetPools, NEW sender \in Accounts, NEW w \in Withdrawals,
             WithdrawAssets(p, sender, w)
      PROVE  s[1] \in contractAddresses'[q]
    <2>1. contractAddresses' = contractAddresses
        BY <1>4 DEF WithdrawAssets
    <2>2. cards[q][s] > 0
        BY <1>1, <1>4, CardsWithdrawn
    <2> QED BY <1>2, <2>1, <2>2
<1>5. ASSUME NEW p \in AssetPools, NEW receiver \in Accounts,
             NEW ids \in SUBSET RequestIds, RedeemAsset(p, receiver, ids)
      PROVE  s[1] \in contractAddresses'[q]
    BY <1>2, <1>5 DEF RedeemAsset
<1>6. ASSUME NEW r \in RequestIds, FulfillRedeemAsset(r)
      PROVE  s[1] \in contractAddresses'[q]
    <2>0. PICK p \in AssetPools, receiver \in Accounts, t \in Slots :
             CardDrawn(r, p, receiver, t)
        BY <1>6, OneCardDrawn
    <2>1. /\ cards[p][t] > 0
          /\ cards' = [cards EXCEPT ![p][t] = cards[p][t] - 1]
          /\ contractAddresses' = [contractAddresses EXCEPT
                                       ![p] = ContractsAfterDraw(p, t)]
        BY <2>0 DEF CardDrawn
    <2>2. cards[q][s] > 0 /\ s[1] \in contractAddresses[q]
        BY <1>1, <1>2, <2>1
    <2>3. CASE q = p /\ s[1] = t[1] /\ CardsOf(p, t[1]) = 1
        <3>1. \A u \in SlotsOf(t[1]) : cards[p][u] \in Nat
            BY <1>1, SlotsFinite
        <3>2. t \in SlotsOf(t[1]) /\ s \in SlotsOf(t[1])
            BY <2>3, SlotKinds
        <3>3. /\ cards[p][t] <= CardsOf(p, t[1])
              /\ cards[p][t] = CardsOf(p, t[1])
                    => \A u \in SlotsOf(t[1]) \ {t} : cards[p][u] = 0
            BY <3>1, <3>2, SlotsFinite, TotalTerm DEF CardsOf
        <3>4. cards[p][t] = 1 /\ s = t
            BY <1>1, <2>1, <2>2, <2>3, <3>2, <3>3
        <3> QED BY <1>1, <2>1, <2>3, <3>4
    <2>4. CASE ~(q = p /\ s[1] = t[1] /\ CardsOf(p, t[1]) = 1)
        BY <1>1, <2>1, <2>2, <2>4 DEF ContractsAfterDraw
    <2> QED BY <2>3, <2>4
<1>7. ASSUME NEW r \in RequestIds, FulfillReverts(r)
      PROVE  s[1] \in contractAddresses'[q]
    BY <1>2, <1>7 DEF FulfillReverts, poolVars
<1>8. ASSUME NEW p \in AssetPools, NEW c \in Donatable, Donate(p, c)
      PROVE  s[1] \in contractAddresses'[q]
    BY <1>2, <1>8 DEF Donate
<1>9. ASSUME NEW t \in Sendable, NEW to \in Holders, SendNft(t, to)
      PROVE  s[1] \in contractAddresses'[q]
    BY <1>2, <1>9 DEF SendNft
<1>10. CASE UNCHANGED ledgers
    BY <1>2, <1>10 DEF ledgers
<1> QED BY <1>3, <1>4, <1>5, <1>6, <1>7, <1>8, <1>9, <1>10, StepCases

-----------------------------------------------------------------------------
(* What the cards pay, and what the pool owns. *)

\* The cards of two lots together pay what each lot pays.
LEMMA ValuePlus ==
    ASSUME NEW f \in [Slots -> Nat], NEW g \in [Slots -> Nat], NEW h,
           \A s \in Slots : h[s] = f[s] + g[s], NEW c \in Fungibles
    PROVE  ValueOf(h, c) = ValueOf(f, c) + ValueOf(g, c)
<1> DEFINE F == [s \in SlotsOf(c) |-> s[2] * f[s]]
           G == [s \in SlotsOf(c) |-> s[2] * g[s]]
           H == [s \in SlotsOf(c) |-> s[2] * h[s]]
<1>1. ASSUME NEW s \in SlotsOf(c)
      PROVE  F[s] \in Nat /\ G[s] \in Nat /\ H[s] = F[s] + G[s]
    <2>1. s[2] \in Nat /\ f[s] \in Nat /\ g[s] \in Nat /\ h[s] = f[s] + g[s]
        BY FungibleSlot
    <2>2. s[2] * (f[s] + g[s]) = s[2] * f[s] + s[2] * g[s]
        BY <2>1
    <2>3. s[2] * f[s] \in Nat /\ s[2] * g[s] \in Nat
        BY <2>1
    <2> QED BY <2>1, <2>2, <2>3
<1> HIDE DEF F, G, H
<1>2. Total(H, SlotsOf(c)) = Total(F, SlotsOf(c)) + Total(G, SlotsOf(c))
    BY <1>1, SlotsFinite, TotalPlus
<1> QED BY <1>2 DEF ValueOf, F, G, H

\* One card less pays less by its amount.
LEMMA ValueOneLess ==
    ASSUME NEW f \in [Slots -> Nat], NEW x \in Slots, f[x] > 0, NEW c \in Fungibles
    PROVE  ValueOf([f EXCEPT ![x] = f[x] - 1], c) =
               ValueOf(f, c) - IF x[1] = c THEN x[2] ELSE 0
<1> DEFINE h == [f EXCEPT ![x] = f[x] - 1]
           F == [s \in SlotsOf(c) |-> s[2] * f[s]]
           H == [s \in SlotsOf(c) |-> s[2] * h[s]]
<1>1. \A s \in SlotsOf(c) : s \in Slots /\ s[1] = c /\ s[2] \in Nat
    BY FungibleSlot
<1>2. h \in [Slots -> Nat] /\ h[x] = f[x] - 1 /\ \A s \in Slots \ {x} : h[s] = f[s]
    OBVIOUS
<1> HIDE DEF h
<1>3. \A s \in SlotsOf(c) : F[s] = s[2] * f[s] /\ H[s] = s[2] * h[s]
    OBVIOUS
<1>4. \A s \in SlotsOf(c) : F[s] \in Nat /\ H[s] \in Nat
    <2>1. \A s \in SlotsOf(c) : f[s] \in Nat /\ h[s] \in Nat
        BY <1>1, <1>2
    <2> QED BY <1>1, <1>3, <2>1
<1>5. \A s \in SlotsOf(c) \ {x} : H[s] = F[s]
    BY <1>1, <1>2, <1>3
<1>6. ValueOf(f, c) = Total(F, SlotsOf(c)) /\ ValueOf(h, c) = Total(H, SlotsOf(c))
    BY DEF ValueOf
<1> HIDE DEF F, H
<1>7. CASE x[1] = c
    <2>1. x \in SlotsOf(c)
        BY <1>7 DEF SlotsOf
    <2>2. Total(H, SlotsOf(c)) = Total(F, SlotsOf(c)) - F[x] + H[x]
        BY <1>4, <1>5, <2>1, SlotsFinite, TotalUpdate
    <2>3. x[2] * (f[x] - 1) = x[2] * f[x] - x[2]
        BY <1>1, <2>1
    <2>4. Total(F, SlotsOf(c)) \in Nat
        BY <1>4, SlotsFinite, TotalType
    <2>5. F[x] = x[2] * f[x] /\ H[x] = x[2] * f[x] - x[2]
        BY <1>2, <1>3, <2>1, <2>3
    <2>6. F[x] \in Nat /\ x[2] \in Nat
        BY <1>1, <1>4, <2>1
    <2>7. H[x] = F[x] - x[2]
        BY <2>5
    <2>8. Total(H, SlotsOf(c)) = Total(F, SlotsOf(c)) - x[2]
        BY <2>2, <2>4, <2>6, <2>7
    <2> QED BY <1>6, <1>7, <2>8 DEF h
<1>8. CASE x[1] # c
    <2>1. \A s \in SlotsOf(c) : H[s] = F[s]
        BY <1>1, <1>5, <1>8
    <2>2. Total(H, SlotsOf(c)) = Total(F, SlotsOf(c))
        BY <2>1, TotalSame
    <2>3. ValueOf(f, c) \in Nat
        BY ValueType
    <2> QED BY <1>6, <1>8, <2>2, <2>3 DEF h
<1> QED BY <1>7, <1>8

\* Whatever a step takes from a pool, its cards pay that much less.
LEMMA SolvencyStep ==
    ASSUME TypeOK, Solvency, [Next]_vars
    PROVE  Solvency'
<1> SUFFICES ASSUME NEW q \in AssetPools, NEW c \in Fungibles
             PROVE  held'[q][c] >= ValueOf(cards'[q], c)
    BY DEF Solvency
<1>1. /\ cards \in [AssetPools -> [Slots -> Nat]]
      /\ held \in [AssetPools -> [Fungibles -> Nat]]
    BY DEF TypeOK
<1>2. /\ held[q][c] \in Nat /\ cards[q] \in [Slots -> Nat]
      /\ ValueOf(cards[q], c) \in Nat /\ held[q][c] >= ValueOf(cards[q], c)
    BY <1>1, ValueType DEF Solvency
<1>3. ASSUME NEW p \in AssetPools, NEW sender \in Accounts, NEW d \in Deposits,
             DepositAssets(p, sender, d)
      PROVE  held'[q][c] >= ValueOf(cards'[q], c)
    <2>1. /\ d.cards \in [Slots -> Nat]
          /\ \A s \in Slots : cards'[p][s] = cards[p][s] + d.cards[s]
          /\ \A t \in AssetPools \ {p} : cards'[t] = cards[t]
        BY <1>3, CardsDeposited
    <2>2. held' = [held EXCEPT ![p] =
              [b \in Fungibles |-> held[p][b] + AmountDeposited(d, b)]]
        BY <1>3 DEF DepositAssets
    <2>3. CASE q = p
        <3>1. ValueOf(cards'[p], c) = ValueOf(cards[p], c) + ValueOf(d.cards, c)
            <4>1. cards[p] \in [Slots -> Nat]
                BY <1>1
            <4>2. \A s \in Slots : cards'[p][s] = cards[p][s] + d.cards[s]
                BY <2>1
            <4> QED BY <2>1, <4>1, <4>2, ValuePlus
        <3>2. held'[p][c] = held[p][c] + ValueOf(d.cards, c)
            BY <1>1, <2>2 DEF AmountDeposited
        <3>3. ValueOf(d.cards, c) \in Nat
            BY <2>1, ValueType
        <3> QED BY <1>2, <2>3, <3>1, <3>2, <3>3
    <2>4. CASE q # p
        <3>1. held'[q] = held[q] /\ cards'[q] = cards[q]
            BY <1>1, <2>1, <2>2, <2>4
        <3> QED BY <1>2, <3>1
    <2> QED BY <2>3, <2>4
<1>4. ASSUME NEW p \in AssetPools, NEW sender \in Accounts, NEW w \in Withdrawals,
             WithdrawAssets(p, sender, w)
      PROVE  held'[q][c] >= ValueOf(cards'[q], c)
    <2>1. /\ w \in [Slots -> Nat]
          /\ \A s \in Slots : /\ w[s] <= cards[p][s]
                              /\ cards'[p][s] = cards[p][s] - w[s]
          /\ \A t \in AssetPools \ {p} : cards'[t] = cards[t]
        BY <1>4, CardsWithdrawn
    <2>2. held' = [held EXCEPT ![p] =
              [b \in Fungibles |-> held[p][b] - ValueOf(w, b)]]
        BY <1>4 DEF WithdrawAssets
    <2>3. CASE q = p
        <3>1. cards'[p] \in [Slots -> Nat]
            BY <1>4, TypeStep DEF TypeOK
        <3>2. \A s \in Slots : cards[p][s] = cards'[p][s] + w[s]
            BY <1>1, <2>1
        <3>3. ValueOf(cards[p], c) = ValueOf(cards'[p], c) + ValueOf(w, c)
            BY <2>1, <3>1, <3>2, ValuePlus
        <3>4. held'[p][c] = held[p][c] - ValueOf(w, c)
            BY <1>1, <2>2
        <3>5. ValueOf(w, c) \in Nat /\ ValueOf(cards'[p], c) \in Nat
            BY <2>1, <3>1, ValueType
        <3> QED BY <1>2, <2>3, <3>3, <3>4, <3>5
    <2>4. CASE q # p
        <3>1. held'[q] = held[q] /\ cards'[q] = cards[q]
            BY <1>1, <2>1, <2>2, <2>4
        <3> QED BY <1>2, <3>1
    <2> QED BY <2>3, <2>4
<1>5. ASSUME NEW p \in AssetPools, NEW receiver \in Accounts,
             NEW ids \in SUBSET RequestIds, RedeemAsset(p, receiver, ids)
      PROVE  held'[q][c] >= ValueOf(cards'[q], c)
    BY <1>2, <1>5 DEF RedeemAsset
<1>6. ASSUME NEW r \in RequestIds, FulfillRedeemAsset(r)
      PROVE  held'[q][c] >= ValueOf(cards'[q], c)
    <2>0. PICK p \in AssetPools, receiver \in Accounts, s \in Slots :
             CardDrawn(r, p, receiver, s)
        BY <1>6, OneCardDrawn
    <2>1. /\ cards[p][s] > 0
          /\ cards' = [cards EXCEPT ![p][s] = cards[p][s] - 1]
          /\ s \in Nfts => held' = held
          /\ s \notin Nfts =>
                /\ s[1] \in Fungibles /\ s[2] \in Nat
                /\ held[p][s[1]] >= s[2]
                /\ held' = [held EXCEPT ![p][s[1]] = held[p][s[1]] - s[2]]
        BY <2>0 DEF CardDrawn
    <2>2. CASE q = p
        <3>1. cards'[p] = [cards[p] EXCEPT ![s] = cards[p][s] - 1]
            BY <1>1, <2>1
        <3>2. ValueOf(cards'[p], c) = ValueOf(cards[p], c) - IF s[1] = c THEN s[2] ELSE 0
            BY <1>2, <2>1, <2>2, <3>1, ValueOneLess
        <3>3. held'[p][c] = held[p][c] - IF s[1] = c THEN s[2] ELSE 0
            BY <1>1, <1>2, <2>1, <2>2, SlotKinds
        <3>4. (IF s[1] = c THEN s[2] ELSE 0) \in Nat
            BY <2>1, SlotKinds
        <3> HIDE DEF ValueOf
        <3> QED BY <1>2, <2>2, <3>2, <3>3, <3>4
    <2>3. CASE q # p
        <3>1. held'[q] = held[q] /\ cards'[q] = cards[q]
            BY <1>1, <2>1, <2>3
        <3> QED BY <1>2, <3>1
    <2> QED BY <2>2, <2>3
<1>7. ASSUME NEW r \in RequestIds, FulfillReverts(r)
      PROVE  held'[q][c] >= ValueOf(cards'[q], c)
    BY <1>2, <1>7 DEF FulfillReverts, poolVars
<1>8. ASSUME NEW p \in AssetPools, NEW b \in Donatable, Donate(p, b)
      PROVE  held'[q][c] >= ValueOf(cards'[q], c)
    <2>1. held' = [held EXCEPT ![p][b] = held[p][b] + 1] /\ cards' = cards
        BY <1>8 DEF Donate
    <2>2. held[p][b] \in Nat
        BY <1>1, AssetPoolAssumption
    <2>3. held'[q][c] >= held[q][c] /\ held'[q][c] \in Nat
        BY <1>1, <1>2, <2>1, <2>2
    <2> QED BY <1>2, <2>1, <2>3
<1>9. ASSUME NEW s \in Sendable, NEW to \in Holders, SendNft(s, to)
      PROVE  held'[q][c] >= ValueOf(cards'[q], c)
    BY <1>2, <1>9 DEF SendNft
<1>10. CASE UNCHANGED ledgers
    BY <1>2, <1>10 DEF ledgers
<1> QED BY <1>3, <1>4, <1>5, <1>6, <1>7, <1>8, <1>9, <1>10, StepCases

-----------------------------------------------------------------------------
(* Cards, assets on offer, and requests. *)

\* The requests of a pool in one state are finitely many.
LEMMA RequestsFinite ==
    ASSUME NEW p, NEW st
    PROVE  /\ IsFiniteSet(RequestsIn(p, st)) /\ Cardinality(RequestsIn(p, st)) \in Nat
           /\ Cardinality(RequestsIn(p, st)') \in Nat
BY VRFAssumption, FS_Subset, FS_CardinalityType DEF RequestsIn

\* A call that asks for random words adds its ids to the pending requests.
LEMMA RequestCounts ==
    ASSUME VRFTypeOK, NEW p, NEW receiver, NEW ids \in SUBSET RequestIds,
           RequestRandomWords(p, receiver, ids), NEW q
    PROVE  /\ Pending(q)' = Pending(q) + IF q = p THEN Cardinality(ids) ELSE 0
           /\ Failed(q)' = Failed(q)
<1>1. /\ \A r \in ids : requests[r].status = "none"
      /\ \A r \in RequestIds :
            requests'[r] = IF r \in ids
                           THEN [status |-> "pending", assetPool |-> p,
                                 receiver |-> receiver]
                           ELSE requests[r]
    BY DEF RequestRandomWords
<1>2. RequestsIn(q, "failed")' = RequestsIn(q, "failed")
    BY <1>1 DEF RequestsIn
<1>3. CASE q = p
    <2>1. RequestsIn(q, "pending")' = RequestsIn(q, "pending") \cup ids
        BY <1>1, <1>3 DEF RequestsIn
    <2>2. RequestsIn(q, "pending") \cap ids = {}
        BY <1>1 DEF RequestsIn
    <2>3. Cardinality(RequestsIn(q, "pending") \cap ids) = 0
        BY <2>2, FS_EmptySet
    <2>4. Cardinality(RequestsIn(q, "pending") \cup ids) =
              Cardinality(RequestsIn(q, "pending")) + Cardinality(ids)
                  - Cardinality(RequestsIn(q, "pending") \cap ids)
        BY RequestsFinite, IdsFinite, FS_Union
    <2>5. Cardinality(RequestsIn(q, "pending")) \in Nat /\ Cardinality(ids) \in Nat
        BY RequestsFinite, IdsFinite
    <2>6. Pending(q)' = Pending(q) + Cardinality(ids)
        <3>1. Cardinality(RequestsIn(q, "pending") \cup ids) =
                  Cardinality(RequestsIn(q, "pending")) + Cardinality(ids)
            BY <2>3, <2>4, <2>5
        <3> QED BY <2>1, <3>1 DEF Pending
    <2>7. Failed(q)' = Failed(q)
        BY <1>2 DEF Failed
    <2> QED BY <1>3, <2>6, <2>7
<1>4. CASE q # p
    <2>1. RequestsIn(q, "pending")' = RequestsIn(q, "pending")
        BY <1>1, <1>4 DEF RequestsIn
    <2>2. Pending(q)' = Pending(q) /\ Failed(q)' = Failed(q)
        BY <1>2, <2>1 DEF Pending, Failed
    <2>3. Pending(q) \in Nat
        BY RequestsFinite DEF Pending
    <2> QED BY <1>4, <2>2, <2>3
<1> QED BY <1>3, <1>4

\* An answer takes its request from the pending ones of its pool.
LEMMA SettleCounts ==
    ASSUME VRFTypeOK, NEW r \in RequestIds, NEW st \in {"fulfilled", "failed"},
           Settle(r, st), NEW q
    PROVE  /\ Pending(q)' = Pending(q) - IF q = requests[r].assetPool THEN 1 ELSE 0
           /\ Failed(q)' = Failed(q) +
                 IF q = requests[r].assetPool /\ st = "failed" THEN 1 ELSE 0
<1>1. requests[r].status = "pending"
    BY DEF Settle
<1>2. requests[r] \in Requests
    BY SettleType
<1>3. requests'[r].status = st /\ requests'[r].assetPool = requests[r].assetPool
    BY <1>2 DEF Settle, VRFTypeOK, Requests
<1>4. \A x \in RequestIds \ {r} : requests'[x] = requests[x]
    BY DEF Settle, VRFTypeOK
<1>5. CASE q = requests[r].assetPool
    <2>1. /\ r \in RequestsIn(q, "pending")
          /\ RequestsIn(q, "pending")' = RequestsIn(q, "pending") \ {r}
        BY <1>1, <1>3, <1>4, <1>5 DEF RequestsIn
    <2>2. Pending(q)' = Pending(q) - 1
        BY <2>1, RequestsFinite, FS_RemoveElement DEF Pending
    <2>3. r \notin RequestsIn(q, "failed")
        BY <1>1 DEF RequestsIn
    <2>4. RequestsIn(q, "failed")' = IF st = "failed" THEN RequestsIn(q, "failed") \cup {r}
                                                       ELSE RequestsIn(q, "failed")
        BY <1>1, <1>3, <1>4, <1>5 DEF RequestsIn
    <2>5. Failed(q)' = Failed(q) + IF st = "failed" THEN 1 ELSE 0
        BY <2>3, <2>4, RequestsFinite, FS_AddElement DEF Failed
    <2> QED BY <1>5, <2>2, <2>5
<1>6. CASE q # requests[r].assetPool
    <2>1. /\ RequestsIn(q, "pending")' = RequestsIn(q, "pending")
          /\ RequestsIn(q, "failed")' = RequestsIn(q, "failed")
        BY <1>3, <1>4, <1>6 DEF RequestsIn
    <2> QED BY <1>6, <2>1, RequestsFinite DEF Pending, Failed
<1> QED BY <1>5, <1>6

\* Steps that touch no request leave their numbers alone.
LEMMA SameCounts ==
    ASSUME requests' = requests, NEW q
    PROVE  Pending(q)' = Pending(q) /\ Failed(q)' = Failed(q)
BY DEF Pending, Failed, RequestsIn

\* The pool of a request being answered has a pending request.
LEMMA PendingHere ==
    ASSUME NEW r \in RequestIds, NEW st, Settle(r, st)
    PROVE  Pending(requests[r].assetPool) > 0
<1> DEFINE p == requests[r].assetPool
<1>1. r \in RequestsIn(p, "pending")
    BY DEF Settle, RequestsIn
<1>2. Cardinality(RequestsIn(p, "pending")) # 0
    BY <1>1, RequestsFinite, FS_EmptySet
<1>3. Cardinality(RequestsIn(p, "pending")) \in Nat
    BY RequestsFinite
<1> QED BY <1>2, <1>3 DEF Pending

\* One card less is one card less in all.
LEMMA CountOneLess ==
    ASSUME NEW f \in [Slots -> Nat], NEW x \in Slots, f[x] > 0
    PROVE  Total([f EXCEPT ![x] = f[x] - 1], Slots) = Total(f, Slots) - 1
<1> DEFINE h == [f EXCEPT ![x] = f[x] - 1]
<1>1. /\ h \in [Slots -> Nat] /\ h[x] = f[x] - 1
      /\ \A s \in Slots \ {x} : h[s] = f[s]
    OBVIOUS
<1> HIDE DEF h
<1>2. \A s \in Slots : f[s] \in Nat /\ h[s] \in Nat
    BY <1>1
<1>3. Total(h, Slots) = Total(f, Slots) - f[x] + h[x]
    BY <1>1, <1>2, SlotsFinite, TotalUpdate
<1>4. Total(f, Slots) \in Nat
    BY CountType
<1> QED BY <1>1, <1>2, <1>3, <1>4 DEF h

\* Each step of the pools is a step of the ledger of each pool, or leaves it.
LEMMA LedgerStep ==
    ASSUME TypeOK, MatchedRows, [Next]_vars, NEW q \in AssetPools
    PROVE  [Ledger(q)!Next]_(Ledger(q)!ledger)
<1>1. /\ cards \in [AssetPools -> [Slots -> Nat]]
      /\ totalNumberOfAssets \in [AssetPools -> Nat]
      /\ VRFTypeOK
    BY DEF TypeOK
<1>2. /\ cards[q] \in [Slots -> Nat]
      /\ totalNumberOfAssets[q] \in Nat /\ Pending(q) \in Nat /\ Failed(q) \in Nat
      /\ Total(cards[q], Slots) \in Nat
    BY <1>1, RequestsFinite, CountType DEF Pending, Failed
<1>0. Total(cards'[q], Slots) = Total(cards[q], Slots) /\ UNCHANGED totalNumberOfAssets
          /\ requests' = requests
      => UNCHANGED Ledger(q)!ledger
    BY SameCounts DEF Ledger!ledger, NumberOfCards
<1>3. ASSUME NEW p \in AssetPools, NEW sender \in Accounts, NEW d \in Deposits,
             DepositAssets(p, sender, d)
      PROVE  [Ledger(q)!Next]_(Ledger(q)!ledger)
    <2>1. requests' = requests
        BY <1>3 DEF DepositAssets, vrfVars
    <2>2. Pending(q)' = Pending(q) /\ Failed(q)' = Failed(q)
        BY <2>1, SameCounts
    <2>3. /\ d.cards \in [Slots -> Nat]
          /\ \A s \in Slots : cards'[p][s] = cards[p][s] + d.cards[s]
          /\ \A t \in AssetPools \ {p} : cards'[t] = cards[t]
        BY <1>3, CardsDeposited
    <2>4. totalNumberOfAssets' = [totalNumberOfAssets EXCEPT
              ![p] = totalNumberOfAssets[p] + NumberDeposited(d)]
        BY <1>3 DEF DepositAssets
    <2>5. Total(d.cards, Slots) \in Nat
        BY <2>3, CountType
    <2>6. NumberDeposited(d) = Total(d.cards, Slots)
        BY <2>5 DEF NumberDeposited, MatchedRows
    <2>7. CASE q = p
        <3>1. \A s \in Slots : /\ cards[q][s] \in Nat /\ d.cards[s] \in Nat
                               /\ cards'[q][s] = cards[q][s] + d.cards[s]
            BY <1>2, <2>3, <2>7
        <3>2. Total(cards'[q], Slots) = Total(cards[q], Slots) + Total(d.cards, Slots)
            BY <3>1, SlotsFinite, TotalPlus
        <3>3. totalNumberOfAssets'[q] = totalNumberOfAssets[q] + Total(d.cards, Slots)
            BY <1>1, <2>4, <2>6, <2>7
        <3> QED BY <1>2, <2>2, <2>5, <3>2, <3>3 DEF Ledger!Next, Ledger!Stock, NumberOfCards
    <2>8. CASE q # p
        <3>1. cards'[q] = cards[q] /\ totalNumberOfAssets'[q] = totalNumberOfAssets[q]
            BY <1>1, <2>3, <2>4, <2>8
        <3> QED BY <2>2, <3>1 DEF Ledger!ledger, NumberOfCards
    <2> QED BY <2>7, <2>8
<1>4. ASSUME NEW p \in AssetPools, NEW sender \in Accounts, NEW w \in Withdrawals,
             WithdrawAssets(p, sender, w)
      PROVE  [Ledger(q)!Next]_(Ledger(q)!ledger)
    <2>1. requests' = requests
        BY <1>4 DEF WithdrawAssets, vrfVars
    <2>2. Pending(q)' = Pending(q) /\ Failed(q)' = Failed(q)
        BY <2>1, SameCounts
    <2>3. /\ w \in [Slots -> Nat]
          /\ \A s \in Slots : /\ w[s] <= cards[p][s]
                              /\ cards'[p][s] = cards[p][s] - w[s]
          /\ \A t \in AssetPools \ {p} : cards'[t] = cards[t]
        BY <1>4, CardsWithdrawn
    <2>4. totalNumberOfAssets' = [totalNumberOfAssets EXCEPT
              ![p] = totalNumberOfAssets[p] - Total(w, Slots)]
        BY <1>4 DEF WithdrawAssets
    <2>5. Total(w, Slots) \in Nat
        BY <2>3, CountType
    <2>6. CASE q = p
        <3>1. \A s \in Slots : /\ cards[q][s] \in Nat /\ w[s] \in Nat
                               /\ w[s] <= cards[q][s]
                               /\ cards'[q][s] = cards[q][s] - w[s]
            BY <1>2, <2>3, <2>6
        <3>2. Total(cards'[q], Slots) = Total(cards[q], Slots) - Total(w, Slots)
            BY <3>1, SlotsFinite, TotalMinus
        <3>3. /\ totalNumberOfAssets'[q] = totalNumberOfAssets[q] - Total(w, Slots)
              /\ Total(w, Slots) <= totalNumberOfAssets[q]
            BY <1>1, <1>4, <2>4, <2>6 DEF WithdrawAssets
        <3> QED BY <1>2, <2>2, <2>5, <3>2, <3>3 DEF Ledger!Next, Ledger!Stock, NumberOfCards
    <2>7. CASE q # p
        <3>1. cards'[q] = cards[q] /\ totalNumberOfAssets'[q] = totalNumberOfAssets[q]
            BY <1>1, <2>3, <2>4, <2>7
        <3> QED BY <2>2, <3>1 DEF Ledger!ledger, NumberOfCards
    <2> QED BY <2>6, <2>7
<1>5. ASSUME NEW p \in AssetPools, NEW receiver \in Accounts,
             NEW ids \in SUBSET RequestIds, RedeemAsset(p, receiver, ids)
      PROVE  [Ledger(q)!Next]_(Ledger(q)!ledger)
    <2>1. /\ cards' = cards
          /\ RequestRandomWords(p, receiver, ids)
          /\ totalNumberOfAssets' = [totalNumberOfAssets EXCEPT
                 ![p] = totalNumberOfAssets[p] - Cardinality(ids)]
        BY <1>5 DEF RedeemAsset
    <2>2. /\ Pending(q)' = Pending(q) + IF q = p THEN Cardinality(ids) ELSE 0
          /\ Failed(q)' = Failed(q)
        BY <1>1, <2>1, RequestCounts
    <2>3. /\ Cardinality(ids) \in 1 .. MaxRewardsPerTx
          /\ Cardinality(ids) <= totalNumberOfAssets[p]
        BY <1>5, IdsFinite, AssetPoolAssumption DEF RedeemAsset, MayRedeem
    <2>4. CASE q = p
        <3>1. totalNumberOfAssets'[q] = totalNumberOfAssets[q] - Cardinality(ids)
            BY <1>1, <2>1, <2>4
        <3>2. Pending(q)' = Pending(q) + Cardinality(ids)
            BY <2>2, <2>4
        <3>3. NumberOfCards(q)' = NumberOfCards(q)
            BY <2>1 DEF NumberOfCards
        <3> QED BY <1>2, <2>2, <2>3, <2>4, <3>1, <3>2, <3>3 DEF Ledger!Next, Ledger!Promise
    <2>5. CASE q # p
        <3>1. totalNumberOfAssets'[q] = totalNumberOfAssets[q]
            BY <1>1, <2>1, <2>5
        <3>2. Pending(q)' = Pending(q)
            BY <1>2, <2>2, <2>5
        <3> QED BY <2>1, <2>2, <3>1, <3>2 DEF Ledger!ledger, NumberOfCards
    <2> QED BY <2>4, <2>5
<1>6. ASSUME NEW r \in RequestIds, FulfillRedeemAsset(r)
      PROVE  [Ledger(q)!Next]_(Ledger(q)!ledger)
    <2>0. PICK p \in AssetPools, receiver \in Accounts, s \in Slots :
             CardDrawn(r, p, receiver, s)
        BY <1>6, OneCardDrawn
    <2>1. /\ requests[r].assetPool = p
          /\ cards[p][s] > 0
          /\ cards' = [cards EXCEPT ![p][s] = cards[p][s] - 1]
        BY <2>0 DEF CardDrawn
    <2>2. Settle(r, "fulfilled") /\ totalNumberOfAssets' = totalNumberOfAssets
        BY <1>6 DEF FulfillRedeemAsset
    <2>3. /\ Pending(q)' = Pending(q) - IF q = p THEN 1 ELSE 0
          /\ Failed(q)' = Failed(q)
        BY <1>1, <1>2, <2>1, <2>2, SettleCounts
    <2>4. CASE q = p
        <3>1. cards'[q] = [cards[q] EXCEPT ![s] = cards[q][s] - 1]
            BY <1>1, <2>1, <2>4
        <3>5. Total(cards'[q], Slots) = Total(cards[q], Slots) - 1
            BY <1>2, <2>1, <2>4, <3>1, CountOneLess
        <3>6. Pending(q) > 0
            BY <2>1, <2>2, <2>4, PendingHere
        <3>7. Pending(q)' = Pending(q) - 1
            BY <2>3, <2>4
        <3> QED BY <2>2, <2>3, <3>5, <3>6, <3>7 DEF Ledger!Next, Ledger!Keep, NumberOfCards
    <2>5. CASE q # p
        <3>1. cards'[q] = cards[q]
            BY <1>1, <2>1, <2>5
        <3>2. Pending(q)' = Pending(q)
            BY <1>2, <2>3, <2>5
        <3> QED BY <2>2, <2>3, <3>1, <3>2 DEF Ledger!ledger, NumberOfCards
    <2> QED BY <2>4, <2>5
<1>7. ASSUME NEW r \in RequestIds, FulfillReverts(r)
      PROVE  [Ledger(q)!Next]_(Ledger(q)!ledger)
    <2>1. /\ Settle(r, "failed")
          /\ cards' = cards /\ totalNumberOfAssets' = totalNumberOfAssets
        BY <1>7 DEF FulfillReverts, poolVars
    <2>2. /\ Pending(q)' = Pending(q) - IF q = requests[r].assetPool THEN 1 ELSE 0
          /\ Failed(q)' = Failed(q) + IF q = requests[r].assetPool THEN 1 ELSE 0
        BY <1>1, <2>1, SettleCounts
    <2>3. CASE q = requests[r].assetPool
        <3>1. Pending(q) > 0
            BY <2>1, <2>3, PendingHere
        <3>2. Pending(q)' = Pending(q) - 1 /\ Failed(q)' = Failed(q) + 1
            BY <2>2, <2>3
        <3> QED BY <2>1, <3>1, <3>2 DEF Ledger!Next, Ledger!Break, NumberOfCards
    <2>4. CASE q # requests[r].assetPool
        <3>1. Pending(q)' = Pending(q) /\ Failed(q)' = Failed(q)
            BY <1>2, <2>2, <2>4
        <3> QED BY <2>1, <3>1 DEF Ledger!ledger, NumberOfCards
    <2> QED BY <2>3, <2>4
<1>8. ASSUME NEW p \in AssetPools, NEW c \in Donatable, Donate(p, c)
      PROVE  [Ledger(q)!Next]_(Ledger(q)!ledger)
    BY <1>0, <1>8 DEF Donate, vrfVars
<1>9. ASSUME NEW s \in Sendable, NEW to \in Holders, SendNft(s, to)
      PROVE  [Ledger(q)!Next]_(Ledger(q)!ledger)
    BY <1>0, <1>9 DEF SendNft, vrfVars
<1>10. CASE UNCHANGED ledgers
    BY <1>0, <1>10 DEF ledgers
<1> QED BY <1>3, <1>4, <1>5, <1>6, <1>7, <1>8, <1>9, <1>10, StepCases

\* What the ledger allows keeps the cards equal to their uses.
LEMMA ConservationStep ==
    ASSUME TypeOK, Conservation, [Next]_vars
    PROVE  Conservation'
<1> SUFFICES ASSUME MatchedRows, NEW q \in AssetPools
             PROVE  NumberOfCards(q)' =
                        totalNumberOfAssets'[q] + Pending(q)' + Failed(q)'
    BY DEF Conservation
<1>1. [Ledger(q)!Next]_(Ledger(q)!ledger)
    BY LedgerStep
<1>2. NumberOfCards(q) = totalNumberOfAssets[q] + Pending(q) + Failed(q)
    BY DEF Conservation
<1>3. /\ cards[q] \in [Slots -> Nat] /\ cards'[q] \in [Slots -> Nat]
      /\ totalNumberOfAssets[q] \in Nat /\ totalNumberOfAssets'[q] \in Nat
    BY TypeStep DEF TypeOK
<1>4. NumberOfCards(q) \in Nat /\ NumberOfCards(q)' \in Nat
    BY <1>3, CountType DEF NumberOfCards
<1>5. /\ Pending(q) \in Nat /\ Pending(q)' \in Nat
      /\ Failed(q) \in Nat /\ Failed(q)' \in Nat
    BY RequestsFinite DEF Pending, Failed
<1> HIDE DEF NumberOfCards, Pending, Failed
<1> QED
    BY <1>1, <1>2, <1>3, <1>4, <1>5
       DEF Ledger!Next, Ledger!Stock, Ledger!Promise, Ledger!Keep, Ledger!Break, Ledger!ledger

-----------------------------------------------------------------------------
(* The invariants, for every run of the pools. *)

\* What the safety of the pools rests on.  Each part is kept by every step
\* from a typed state, and none needs another one.
Safe ==
    /\ TypeOK
    /\ NftCustody
    /\ EveryCardDrawable
    /\ Solvency
    /\ Conservation

\* With no cards anywhere, every part holds.
LEMMA SafeInit == Init => Safe
<1> SUFFICES ASSUME Init PROVE Safe
    OBVIOUS
<1>1. TypeOK
    BY TypeInit
<1>2. /\ \A p \in AssetPools : cards[p] = [s \in Slots |-> 0]
      /\ \A p \in AssetPools, s \in Slots : cards[p][s] = 0
    BY DEF Init
<1>3. NftCustody
    BY <1>2 DEF NftCustody, Slots
<1>4. EveryCardDrawable
    BY <1>2 DEF EveryCardDrawable
<1>5. ASSUME NEW p \in AssetPools, NEW c \in Fungibles
      PROVE  held[p][c] >= ValueOf(cards[p], c)
    <2> DEFINE v == [s \in SlotsOf(c) |-> s[2] * cards[p][s]]
    <2>1. \A s \in SlotsOf(c) : s[2] \in Nat /\ cards[p][s] = 0
        BY <1>2, FungibleSlot
    <2>2. \A s \in SlotsOf(c) : v[s] = 0
        BY <2>1
    <2>3. Total(v, SlotsOf(c)) = 0
        BY <2>2, SlotsFinite, TotalZero
    <2>4. held[p][c] = 0
        BY DEF Init
    <2> QED BY <2>3, <2>4 DEF ValueOf
<1>6. ASSUME NEW p \in AssetPools
      PROVE  NumberOfCards(p) = totalNumberOfAssets[p] + Pending(p) + Failed(p)
    <2>1. Total(cards[p], Slots) = 0
        BY <1>2, SlotsFinite, TotalZero
    <2>2. \A r \in RequestIds : requests[r].status = "none"
        BY DEF Init, VRFInit, NoRequest
    <2>3. RequestsIn(p, "pending") = {} /\ RequestsIn(p, "failed") = {}
        BY <2>2 DEF RequestsIn
    <2>4. Pending(p) = 0 /\ Failed(p) = 0
        BY <2>3, FS_EmptySet DEF Pending, Failed
    <2>5. totalNumberOfAssets[p] = 0
        BY DEF Init
    <2> QED BY <2>1, <2>4, <2>5 DEF NumberOfCards
<1> QED BY <1>1, <1>3, <1>4, <1>5, <1>6 DEF Safe, Solvency, Conservation

\* Every reachable state is safe.
THEOREM Safety == Spec => []Safe
<1>1. Safe /\ [Next]_vars => Safe'
    BY TypeStep, NftCustodyStep, EveryCardDrawableStep, SolvencyStep, ConservationStep
       DEF Safe
<1> QED BY <1>1, SafeInit, PTL DEF Spec

\* At first nothing is on any ledger.
LEMMA LedgerInit ==
    ASSUME Init, NEW p \in AssetPools
    PROVE  Ledger(p)!Init
<1>1. \A s \in Slots : cards[p][s] = 0
    BY DEF Init
<1>2. Total(cards[p], Slots) = 0
    BY <1>1, SlotsFinite, TotalZero
<1>3. RequestsIn(p, "pending") = {} /\ RequestsIn(p, "failed") = {}
    BY DEF Init, VRFInit, NoRequest, RequestsIn
<1>4. Pending(p) = 0 /\ Failed(p) = 0
    BY <1>3, FS_EmptySet DEF Pending, Failed
<1>5. totalNumberOfAssets[p] = 0
    BY DEF Init
<1> QED BY <1>2, <1>4, <1>5 DEF Ledger!Init, NumberOfCards

\* When every row of boxes has its contract, each pool implements RedeemLedger:
\* sold cards are the promises, kept or broken one at a time.
THEOREM LedgersImplemented ==
    ASSUME MatchedRows
    PROVE  Spec => LedgersKept
<1>1. Init => \A p \in AssetPools : Ledger(p)!Init
    BY LedgerInit
<1>2. TypeOK /\ [Next]_vars =>
          [\A p \in AssetPools : [Ledger(p)!Next]_(Ledger(p)!ledger)]_vars
    BY LedgerStep
<1> QED BY <1>1, <1>2, WellTyped, PTL DEF Spec, LedgersKept

\* An NFT box always stands for an NFT the pool owns, in one pool only,
\* whatever is deposited, drawn, withdrawn and deposited again.
THEOREM NftsInCustody == Spec => []NftCustody
<1>1. Safe => NftCustody
    BY DEF Safe
<1> QED BY <1>1, Safety, PTL

\* A draw never forgets a contract that still has a card.
THEOREM EveryCardCanBeDrawn == Spec => []EveryCardDrawable
<1>1. Safe => EveryCardDrawable
    BY DEF Safe
<1> QED BY <1>1, Safety, PTL

\* Fungible cards are always covered by what the pool owns.
THEOREM PoolsSolvent == Spec => []Solvency
<1>1. Safe => Solvency
    BY DEF Safe
<1> QED BY <1>1, Safety, PTL

\* Cards are on offer, promised, or left behind by a failed callback.
THEOREM CardsConserved == Spec => []Conservation
<1>1. Safe => Conservation
    BY DEF Safe
<1> QED BY <1>1, Safety, PTL

\* In a safe state a request that waits can be answered with a card: the pool
\* has one (Conservation), the draw can reach it (EveryCardDrawable), and the
\* pool owns what it pays (Solvency, NftCustody).
LEMMA SafeKeepsPromises == Safe => PromisesCanBeKept
<1> SUFFICES ASSUME Safe, MatchedRows, NEW r \in RequestIds,
                    requests[r].status = "pending", requests[r].receiver \notin Refusing
             PROVE  Drawable(requests[r].assetPool, requests[r].receiver) # {}
    BY DEF PromisesCanBeKept
<1> DEFINE p == requests[r].assetPool
           receiver == requests[r].receiver
<1>1. /\ TypeOK /\ VRFTypeOK
      /\ cards \in [AssetPools -> [Slots -> Nat]]
      /\ held \in [AssetPools -> [Fungibles -> Nat]]
      /\ totalNumberOfAssets \in [AssetPools -> Nat]
    BY DEF Safe, TypeOK
<1>2. p \in AssetPools
    BY <1>1 DEF VRFTypeOK, Requests, NoRequest
<1>3. Pending(p) >= 1
    <2>1. r \in RequestsIn(p, "pending")
        BY DEF RequestsIn
    <2>2. Cardinality(RequestsIn(p, "pending")) # 0
        BY <2>1, RequestsFinite, FS_EmptySet
    <2>3. Cardinality(RequestsIn(p, "pending")) \in Nat
        BY RequestsFinite
    <2> QED BY <2>2, <2>3 DEF Pending
<1> HIDE DEF p
<1>4. Total(cards[p], Slots) # 0
    <2>1. Total(cards[p], Slots) = totalNumberOfAssets[p] + Pending(p) + Failed(p)
        BY <1>2 DEF Safe, Conservation, NumberOfCards
    <2>2. totalNumberOfAssets[p] \in Nat /\ Failed(p) \in Nat /\ Pending(p) \in Nat
        BY <1>1, <1>2, RequestsFinite DEF Failed, Pending
    <2> QED BY <1>3, <2>1, <2>2
<1>5. PICK s \in Slots : cards[p][s] > 0
    <2>1. cards[p] \in [Slots -> Nat]
        BY <1>1, <1>2
    <2>2. \A s \in Slots : cards[p][s] \in Nat
        BY <2>1
    <2>3. \E s \in Slots : cards[p][s] # 0
        BY <1>4, <2>2, SlotsFinite, TotalZero
    <2> QED BY <2>2, <2>3
<1>6. s[1] \in contractAddresses[p]
    BY <1>2, <1>5 DEF Safe, EveryCardDrawable
<1>7. CanDeliver(p, s, receiver)
    <2>1. CASE s \in Nfts
        BY <1>2, <1>5, <2>1 DEF Safe, NftCustody, CanDeliver
    <2>2. CASE s \notin Nfts
        <3>1. s[1] \in Fungibles /\ s[2] \in Nat /\ s \in SlotsOf(s[1])
            BY <2>2, SlotKinds
        <3>2. held[p][s[1]] >= ValueOf(cards[p], s[1])
            BY <1>2, <3>1 DEF Safe, Solvency
        <3>3. s[2] <= ValueOf(cards[p], s[1])
            <4> DEFINE v == [t \in SlotsOf(s[1]) |-> t[2] * cards[p][t]]
            <4>1. \A t \in SlotsOf(s[1]) : t[2] \in Nat /\ cards[p][t] \in Nat
                BY <1>1, <1>2, <3>1, FungibleSlot
            <4>2. \A t \in SlotsOf(s[1]) : v[t] \in Nat
                BY <4>1
            <4>3. v[s] <= Total(v, SlotsOf(s[1]))
                BY <3>1, <4>2, SlotsFinite, TotalTerm
            <4>4. v[s] = s[2] * cards[p][s] /\ cards[p][s] \in Nat
                BY <3>1, <4>1
            <4>5. s[2] <= s[2] * cards[p][s]
                BY <1>5, <3>1, <4>4
            <4>6. Total(v, SlotsOf(s[1])) \in Nat
                BY <4>2, SlotsFinite, TotalType
            <4>7. Total(v, SlotsOf(s[1])) = ValueOf(cards[p], s[1])
                BY DEF ValueOf
            <4> HIDE DEF v
            <4> QED BY <3>1, <4>3, <4>4, <4>5, <4>6, <4>7
        <3>4. held[p][s[1]] \in Nat /\ ValueOf(cards[p], s[1]) \in Nat
            BY <1>1, <1>2, <3>1, ValueType
        <3>5. held[p][s[1]] >= s[2]
            BY <3>1, <3>2, <3>3, <3>4
        <3> QED BY <2>2, <3>5 DEF CanDeliver
    <2> QED BY <2>1, <2>2
<1>8. s \in Drawable(p, receiver)
    BY <1>5, <1>6, <1>7 DEF Drawable
<1> QED BY <1>8 DEF p

\* No waiting request is ever left without a card it can be given, whatever
\* is redeemed or withdrawn after it was paid for.
THEOREM PromisesKept == Spec => []PromisesCanBeKept
BY Safety, SafeKeepsPromises, PTL

-----------------------------------------------------------------------------
(* What a step may never do. *)

\* None of the calls on a custom token takes tokens from a blacklisted address.
LEMMA CallsFreeze ==
    ASSUME TokenTypeOK, CustomRedeemMethod,
           NEW t \in RedeemTokens, NEW x \in Holders, NEW y \in Holders,
           NEW n \in Nat, NEW operator,
           \/ Mint(t, x, n)
           \/ Burn(t, x, n)
           \/ Transfer(operator, t, y, x, n),
           NEW u \in RedeemTokens, NEW h \in Holders \cap blacklisted
    PROVE  balance'[u][h] >= balance[u][h]
<1>1. balance \in [RedeemTokens -> [Holders -> Nat]] /\ balance[u][h] \in Nat
    BY DEF TokenTypeOK
<1>2. CASE Mint(t, x, n)
    <2>1. balance' = [balance EXCEPT ![t][x] = balance[t][x] + n]
        BY <1>2 DEF Mint
    <2>2. balance'[u][h] = balance[u][h] \/ balance'[u][h] = balance[u][h] + n
        BY <1>1, <2>1
    <2> QED BY <1>1, <2>2
<1>3. CASE Burn(t, x, n)
    <2>1. x # h
        BY <1>3 DEF Burn, MayMoveFrom
    <2>2. balance' = [balance EXCEPT ![t][x] = balance[t][x] - n]
        BY <1>3 DEF Burn
    <2>3. balance'[u][h] = balance[u][h]
        BY <1>1, <2>1, <2>2
    <2> QED BY <1>1, <2>3
<1>4. CASE Transfer(operator, t, y, x, n)
    <2> DEFINE debited == [balance EXCEPT ![t][y] = @ - n]
    <2>1. y # h
        BY <1>4 DEF Transfer, MayMoveFrom
    <2>2. balance[t][y] - n \in Nat
        BY <1>1, <1>4 DEF Transfer
    <2>3. debited \in [RedeemTokens -> [Holders -> Nat]]
        BY <1>1, <2>2, UpdateType
    <2>4. debited[u][h] = balance[u][h]
        BY <1>1, <2>1
    <2>5. balance' = [debited EXCEPT ![t][x] = debited[t][x] + n]
        BY <1>4 DEF Transfer
    <2> HIDE DEF debited
    <2>6. balance'[u][h] = debited[u][h] \/ balance'[u][h] = debited[u][h] + n
        BY <2>3, <2>5
    <2> QED BY <1>1, <2>4, <2>6
<1> QED BY <1>2, <1>3, <1>4

\* Each step that moves redeem tokens makes one call on the token, if any.
LEMMA BlacklistStep ==
    ASSUME TypeOK, [Next]_vars, CustomRedeemMethod,
           NEW u \in RedeemTokens, NEW h \in Holders \cap blacklisted
    PROVE  balance'[u][h] >= balance[u][h]
<1>1. /\ TokenTypeOK /\ balance[u][h] \in Nat
      /\ redeemTokenAmount \in [AssetPools -> Nat \ {0}]
    BY DEF TypeOK, TokenTypeOK
<1>2. AssetPools \subseteq Holders /\ Accounts \subseteq Holders
    BY DEF Holders
<1>3. ASSUME NEW p \in AssetPools, NEW n \in Nat,
             MintRedeemTokens(p, n) \/ BurnRedeemTokens(p, n)
      PROVE  balance'[u][h] >= balance[u][h]
    <2>1. redeemTokenAmount[p] * n \in Nat
        BY <1>1
    <2>2. Mint(RedeemTokenOf(p), p, redeemTokenAmount[p] * n)
        BY <1>3 DEF MintRedeemTokens, BurnRedeemTokens
    <2> QED BY <1>1, <1>2, <2>1, <2>2, TokenOfPool, CallsFreeze
<1>4. ASSUME NEW p \in AssetPools, NEW sender \in Accounts, NEW d \in Deposits,
             DepositAssets(p, sender, d)
      PROVE  balance'[u][h] >= balance[u][h]
    <2>1. Total(d.cards, Slots) \in Nat /\ d.surplus \in Nat
        BY AssetPoolAssumption, CountType DEF DepositCalls
    <2>2. NumberDeposited(d) \in Nat
        BY <2>1 DEF NumberDeposited
    <2> QED BY <1>3, <1>4, <2>2 DEF DepositAssets
<1>5. ASSUME NEW p \in AssetPools, NEW sender \in Accounts, NEW w \in Withdrawals,
             WithdrawAssets(p, sender, w)
      PROVE  balance'[u][h] >= balance[u][h]
    <2>1. Total(w, Slots) \in Nat
        BY AssetPoolAssumption, CountType
    <2> QED BY <1>3, <1>5, <2>1 DEF WithdrawAssets
<1>6. ASSUME NEW p \in AssetPools, NEW receiver \in Accounts,
             NEW ids \in SUBSET RequestIds, RedeemAsset(p, receiver, ids)
      PROVE  balance'[u][h] >= balance[u][h]
    <2>1. redeemTokenAmount[p] * Cardinality(ids) \in Nat
        BY <1>1, IdsFinite
    <2>2. Burn(RedeemTokenOf(p), receiver, redeemTokenAmount[p] * Cardinality(ids))
        BY <1>6 DEF RedeemAsset, Pay, CustomRedeemMethod
    <2> QED BY <1>1, <1>2, <2>1, <2>2, TokenOfPool, CallsFreeze
<1>7. ASSUME NEW p \in AssetPools, NEW sender \in Accounts, NEW to \in Holders,
             NEW n \in Nat, TransferRedeemTokenAmount(p, sender, to, n)
      PROVE  balance'[u][h] >= balance[u][h]
    <2>1. Transfer(p, RedeemTokenOf(p), p, to, n)
        BY <1>7 DEF TransferRedeemTokenAmount
    <2> QED BY <1>1, <1>2, <2>1, TokenOfPool, CallsFreeze
<1>8. ASSUME NEW p \in AssetPools, NEW sender \in Accounts, NEW to \in Holders,
             NEW n \in TransferAmounts, TransferRedeemTokenNumber(p, sender, to, n)
      PROVE  balance'[u][h] >= balance[u][h]
    <2>1. n * redeemTokenAmount[p] \in Nat
        BY <1>1, RedeemTokenAssumption
    <2> QED BY <1>7, <1>8, <2>1 DEF TransferRedeemTokenNumber
<1>9. ASSUME NEW t \in RedeemTokens, NEW from \in Accounts, NEW to \in Holders,
             NEW n \in TransferAmounts, HolderTransfer(t, from, to, n)
      PROVE  balance'[u][h] >= balance[u][h]
    <2>1. Transfer(from, t, from, to, n) /\ n \in Nat
        BY <1>9, RedeemTokenAssumption DEF HolderTransfer
    <2> QED BY <1>1, <1>2, <2>1, CallsFreeze
<1>10. ASSUME balance' = balance
       PROVE  balance'[u][h] >= balance[u][h]
    BY <1>1, <1>10
<1>11. TransferAmounts \subseteq Nat
    BY RedeemTokenAssumption
<1>12. ASSUME NEW p \in AssetPools, PoolStep(p)
       PROVE  balance'[u][h] >= balance[u][h]
    <2>1. ASSUME NEW sender, NEW a, SetRedeemTokenAmount(p, sender, a)
          PROVE  balance' = balance
        BY <2>1 DEF SetRedeemTokenAmount, tokenVars
    <2>2. ASSUME NEW c, Donate(p, c)
          PROVE  balance' = balance
        BY <2>2 DEF Donate, tokenVars
    <2> QED
        BY <1>4, <1>5, <1>6, <1>7, <1>8, <1>10, <1>11, <1>12, <2>1, <2>2 DEF PoolStep
<1>13. ASSUME TokenStep
       PROVE  balance'[u][h] >= balance[u][h]
    <2>1. ASSUME NEW sender, NEW user, NEW flag, SetBlacklisted(sender, user, flag)
          PROVE  balance' = balance
        BY <2>1 DEF SetBlacklisted
    <2> QED BY <1>9, <1>10, <1>13, <2>1 DEF TokenStep
<1>14. ASSUME \/ \E r \in RequestIds : Answer(r)
              \/ \E sender \in Accounts, flag \in BOOLEAN : SetActive(sender, flag)
              \/ \E s \in Sendable, to \in Holders : SendNft(s, to)
              \/ LinkStep
              \/ UNCHANGED vars
       PROVE  balance' = balance
    BY <1>14 DEF Answer, FulfillRedeemAsset, FulfillReverts, SetActive, SendNft,
                 LinkStep, vars, tokenVars
<1> QED BY <1>10, <1>12, <1>13, <1>14 DEF Next

\* No operation of any contract takes custom redeem tokens from an address
\* while it is blacklisted.
THEOREM BlacklistHolds == Spec => BlacklistFreezes
<1>1. TypeOK /\ [Next]_vars =>
          [CustomRedeemMethod =>
              \A t \in RedeemTokens, h \in Holders \cap blacklisted :
                  balance'[t][h] >= balance[t][h]]_vars
    BY BlacklistStep
<1> QED BY <1>1, WellTyped, PTL DEF Spec, BlacklistFreezes

\* Only its own answer fulfils a request.
LEMMA FulfilledByAnswer ==
    ASSUME TypeOK, [Next]_vars, NEW r \in RequestIds,
           requests[r].status = "pending", requests'[r].status = "fulfilled"
    PROVE  FulfillRedeemAsset(r)
<1>1. VRFTypeOK
    BY DEF TypeOK
<1>2. ASSUME NEW p \in AssetPools, NEW receiver \in Accounts,
             NEW ids \in SUBSET RequestIds, RedeemAsset(p, receiver, ids)
      PROVE  FALSE
    <2>1. requests'[r] = requests[r] \/ requests'[r].status = "pending"
        BY <1>2 DEF RedeemAsset, RequestRandomWords
    <2> QED BY <2>1
<1>3. ASSUME NEW x \in RequestIds, NEW st \in {"fulfilled", "failed"}, Settle(x, st)
      PROVE  x = r /\ st = "fulfilled"
    <2>1. requests[x] \in Requests
        BY <1>1, <1>3, SettleType
    <2>2. requests' = [requests EXCEPT ![x] = [requests[x] EXCEPT !.status = st]]
        BY <1>3 DEF Settle
    <2>3. [requests[x] EXCEPT !.status = st].status = st
        BY <2>1 DEF Requests
    <2>4. requests'[x].status = st /\ (x # r => requests'[r] = requests[r])
        BY <1>1, <2>2, <2>3 DEF VRFTypeOK
    <2> QED BY <2>4
<1>4. ASSUME NEW x \in RequestIds, FulfillRedeemAsset(x)
      PROVE  x = r
    BY <1>3, <1>4 DEF FulfillRedeemAsset
<1>5. ASSUME NEW x \in RequestIds, FulfillReverts(x)
      PROVE  FALSE
    BY <1>3, <1>5 DEF FulfillReverts
<1>6. requests' # requests
    OBVIOUS
<1>7. ASSUME NEW p, NEW sender, NEW d, DepositAssets(p, sender, d) PROVE FALSE
    BY <1>6, <1>7 DEF DepositAssets, vrfVars
<1>8. ASSUME NEW p, NEW sender, NEW w, WithdrawAssets(p, sender, w) PROVE FALSE
    BY <1>6, <1>8 DEF WithdrawAssets, vrfVars
<1>9. ASSUME NEW p, NEW c, Donate(p, c) PROVE FALSE
    BY <1>6, <1>9 DEF Donate, vrfVars
<1>10. ASSUME NEW s, NEW to, SendNft(s, to) PROVE FALSE
    BY <1>6, <1>10 DEF SendNft, vrfVars
<1>11. ~ UNCHANGED ledgers
    BY <1>6 DEF ledgers
<1> QED BY <1>2, <1>4, <1>5, <1>7, <1>8, <1>9, <1>10, <1>11, StepCases

\* The card that goes is worth what the pool loses.
LEMMA OneCardStep ==
    ASSUME TypeOK, [Next]_vars, NEW r \in RequestIds,
           requests[r].status = "pending", requests'[r].status = "fulfilled"
    PROVE  LET p == requests[r].assetPool
           IN  /\ NumberOfCards(p)' = NumberOfCards(p) - 1
               /\ \A c \in Fungibles :
                     held[p][c] - held'[p][c] =
                         ValueOf(cards[p], c) - ValueOf(cards[p], c)'
               /\ \A q \in AssetPools \ {p} :
                     cards'[q] = cards[q] /\ held'[q] = held[q]
<1>1. FulfillRedeemAsset(r)
    BY FulfilledByAnswer
<1>2. Settle(r, "fulfilled")
    BY <1>1 DEF FulfillRedeemAsset
<1>3. requests'[r].assetPool = requests[r].assetPool
    <2>1. VRFTypeOK /\ requests[r] \in Requests
        BY <1>2, SettleType DEF TypeOK
    <2> QED BY <1>2, <2>1 DEF Settle, VRFTypeOK, Requests
<1>4. PICK p \in AssetPools, receiver \in Accounts, s \in Slots :
         CardDrawn(r, p, receiver, s)
    BY <1>1, OneCardDrawn
<1>5. /\ requests[r].assetPool = p
      /\ cards[p][s] > 0
      /\ cards' = [cards EXCEPT ![p][s] = cards[p][s] - 1]
      /\ s \in Nfts => held' = held
      /\ s \notin Nfts =>
            /\ s[1] \in Fungibles /\ s[2] \in Nat
            /\ held' = [held EXCEPT ![p][s[1]] = held[p][s[1]] - s[2]]
    BY <1>4 DEF CardDrawn
<1>6. /\ cards \in [AssetPools -> [Slots -> Nat]]
      /\ held \in [AssetPools -> [Fungibles -> Nat]]
    BY DEF TypeOK
<1>7. /\ cards[p] \in [Slots -> Nat]
      /\ cards'[p] = [cards[p] EXCEPT ![s] = cards[p][s] - 1]
    BY <1>5, <1>6
<1>8. Total(cards'[p], Slots) = Total(cards[p], Slots) - 1
    BY <1>5, <1>7, CountOneLess
<1>9. ASSUME NEW c \in Fungibles
      PROVE  held[p][c] - held'[p][c] = ValueOf(cards[p], c) - ValueOf(cards'[p], c)
    <2> DEFINE paid == IF s[1] = c THEN s[2] ELSE 0
    <2>1. ValueOf(cards'[p], c) = ValueOf(cards[p], c) - paid
        BY <1>5, <1>7, ValueOneLess
    <2>2. held'[p][c] = held[p][c] - paid
        BY <1>3, <1>5, <1>6, SlotKinds
    <2>3. ValueOf(cards[p], c) \in Nat /\ held[p][c] \in Nat
        BY <1>3, <1>6, <1>7, ValueType
    <2>4. s[1] = c => s[2] \in Nat
        BY <1>5, SlotKinds
    <2>5. paid \in Nat
        BY <2>4
    <2> HIDE DEF paid
    <2> QED BY <2>1, <2>2, <2>3, <2>5
<1>10. \A q \in AssetPools \ {p} : cards'[q] = cards[q] /\ held'[q] = held[q]
    BY <1>3, <1>5, <1>6
<1> QED BY <1>3, <1>5, <1>8, <1>9, <1>10 DEF NumberOfCards

\* An answer delivers one card and nothing else, whatever else is waiting.
THEOREM OneCardEach == Spec => OneCardPerRequest
<1>1. TypeOK /\ [Next]_vars =>
          [\A r \in RequestIds :
              (requests[r].status = "pending" /\ requests'[r].status = "fulfilled") =>
                  LET p == requests[r].assetPool
                  IN  /\ NumberOfCards(p)' = NumberOfCards(p) - 1
                      /\ \A c \in Fungibles :
                            held[p][c] - held'[p][c] =
                                ValueOf(cards[p], c) - ValueOf(cards[p], c)'
                      /\ \A q \in AssetPools \ {p} :
                            cards'[q] = cards[q] /\ held'[q] = held[q]]_vars
    BY OneCardStep
<1> QED BY <1>1, WellTyped, PTL DEF Spec, OneCardPerRequest

-----------------------------------------------------------------------------
(* Redeem tokens and the assets they buy. *)

\* Holders are finitely many, so supplies are sums.
LEMMA HoldersFinite == IsFiniteSet(Holders)
BY DeploymentAssumption, FS_Union DEF Holders

\* Adding k tokens to one balance, or taking them from it, moves the supply by k.
LEMMA SupplyUpdate ==
    ASSUME TokenTypeOK, TokenTypeOK',
           NEW t \in RedeemTokens, NEW h \in Holders, NEW k \in Int,
           NEW u \in RedeemTokens,
           \A x \in Holders : (u # t \/ x # h) => balance'[u][x] = balance[u][x],
           u = t => balance'[u][h] = balance[u][h] + k
    PROVE  Supply(u)' = Supply(u) + IF u = t THEN k ELSE 0
<1>1. \A x \in Holders : balance[u][x] \in Nat /\ balance'[u][x] \in Nat
    BY DEF TokenTypeOK
<1>2. Total(balance[u], Holders) \in Nat
    BY <1>1, HoldersFinite, TotalType
<1>3. CASE u = t
    <2>1. \A x \in Holders \ {h} : balance'[u][x] = balance[u][x]
        OBVIOUS
    <2>2. Total(balance'[u], Holders) =
              Total(balance[u], Holders) - balance[u][h] + balance'[u][h]
        BY <1>1, <2>1, HoldersFinite, TotalUpdate
    <2> QED BY <1>1, <1>2, <1>3, <2>2 DEF Supply
<1>4. CASE u # t
    <2>1. \A x \in Holders : balance'[u][x] = balance[u][x]
        BY <1>4
    <2>2. Total(balance'[u], Holders) = Total(balance[u], Holders)
        BY <2>1, TotalSame
    <2> QED BY <1>2, <1>4, <2>2 DEF Supply
<1> QED BY <1>3, <1>4

\* A mint adds to the supply of its token.
LEMMA SupplyMinted ==
    ASSUME TokenTypeOK, TokenTypeOK', NEW t \in RedeemTokens, NEW h \in Holders,
           NEW n \in Nat, Mint(t, h, n), NEW u \in RedeemTokens
    PROVE  Supply(u)' = Supply(u) + IF u = t THEN n ELSE 0
<1>1. /\ \A x \in Holders : (u # t \/ x # h) => balance'[u][x] = balance[u][x]
      /\ u = t => balance'[u][h] = balance[u][h] + n
    BY DEF Mint, TokenTypeOK
<1> QED BY <1>1, SupplyUpdate

\* A burn takes from it.
LEMMA SupplyBurnt ==
    ASSUME TokenTypeOK, TokenTypeOK', NEW t \in RedeemTokens, NEW h \in Holders,
           NEW n \in Nat, Burn(t, h, n), NEW u \in RedeemTokens
    PROVE  Supply(u)' = Supply(u) + IF u = t THEN 0 - n ELSE 0
<1>1. /\ \A x \in Holders : (u # t \/ x # h) => balance'[u][x] = balance[u][x]
      /\ u = t => balance'[u][h] = balance[u][h] + (0 - n)
    BY DEF Burn, TokenTypeOK
<1>2. 0 - n \in Int
    OBVIOUS
<1> QED BY <1>1, <1>2, SupplyUpdate

\* A transfer does neither, not even one to oneself.
LEMMA SupplyTransferred ==
    ASSUME TokenTypeOK, TokenTypeOK', NEW operator, NEW t \in RedeemTokens,
           NEW g \in Holders, NEW h \in Holders, NEW n \in Nat,
           Transfer(operator, t, g, h, n), NEW u \in RedeemTokens
    PROVE  Supply(u)' = Supply(u)
<1> DEFINE debited == [balance EXCEPT ![t][g] = balance[t][g] - n]
<1>1. balance' = [debited EXCEPT ![t][h] = debited[t][h] + n]
    BY DEF Transfer
<1>2. balance \in [RedeemTokens -> [Holders -> Nat]]
    BY DEF TokenTypeOK
<1>3. \A x \in Holders : balance[u][x] \in Nat /\ balance'[u][x] \in Nat
    BY DEF TokenTypeOK
<1>4. CASE u = t /\ g # h
    <2>1. /\ \A x \in Holders \ {g, h} : balance'[u][x] = balance[u][x]
          /\ balance'[u][g] = balance[u][g] - n
          /\ balance'[u][h] = balance[u][h] + n
        BY <1>1, <1>2, <1>4
    <2>2. Total(balance'[u], Holders) =
              Total(balance[u], Holders) - balance[u][g] - balance[u][h]
                  + balance'[u][g] + balance'[u][h]
        BY <1>3, <1>4, <2>1, HoldersFinite, TotalUpdateTwo
    <2>3. Total(balance[u], Holders) \in Nat
        BY <1>3, HoldersFinite, TotalType
    <2>4. Total(balance'[u], Holders) = Total(balance[u], Holders)
        BY <1>3, <2>1, <2>2, <2>3
    <2> QED BY <2>4 DEF Supply
<1>5. CASE ~(u = t /\ g # h)
    <2>1. ASSUME NEW x \in Holders
          PROVE  balance'[u][x] = balance[u][x]
        BY <1>1, <1>2, <1>5
    <2> QED BY <2>1, TotalSame DEF Supply
<1> QED BY <1>4, <1>5

\* When one pool has k more assets on offer, they cost k times its price.
LEMMA PriceMoved ==
    ASSUME TypeOK, NEW p \in AssetPools, NEW k \in Int,
           totalNumberOfAssets[p] + k \in Nat,
           totalNumberOfAssets' = [totalNumberOfAssets EXCEPT
                                       ![p] = totalNumberOfAssets[p] + k],
           redeemTokenAmount' = redeemTokenAmount, NEW t
    PROVE  PriceOfAssets(t)' =
               PriceOfAssets(t) +
                   IF t = RedeemTokenOf(p) THEN redeemTokenAmount[p] * k ELSE 0
<1> DEFINE pools == {q \in AssetPools : RedeemTokenOf(q) = t}
           f == [q \in pools |-> redeemTokenAmount[q] * totalNumberOfAssets[q]]
           h == [q \in pools |-> redeemTokenAmount[q] * totalNumberOfAssets'[q]]
<1>1. IsFiniteSet(pools)
    BY DeploymentAssumption, FS_Subset
<1>2. PriceOfAssets(t) = Total(f, pools) /\ PriceOfAssets(t)' = Total(h, pools)
    BY DEF PriceOfAssets
<1>3. /\ \A q \in AssetPools : redeemTokenAmount[q] \in Nat
      /\ \A q \in AssetPools : totalNumberOfAssets[q] \in Nat
      /\ \A q \in AssetPools : totalNumberOfAssets'[q] \in Nat
    BY DEF TypeOK
<1>4. \A q \in pools : f[q] \in Nat /\ h[q] \in Nat
    BY <1>3
<1>5. \A q \in pools \ {p} : h[q] = f[q]
    BY DEF TypeOK
<1>6. Total(f, pools) \in Nat
    BY <1>1, <1>4, TotalType
<1>7. CASE t = RedeemTokenOf(p)
    <2>1. p \in pools
        BY <1>7
    <2>2. totalNumberOfAssets'[p] = totalNumberOfAssets[p] + k
        BY DEF TypeOK
    <2>3. redeemTokenAmount[p] * (totalNumberOfAssets[p] + k) =
              redeemTokenAmount[p] * totalNumberOfAssets[p] + redeemTokenAmount[p] * k
        BY <1>3
    <2>4. h[p] = f[p] + redeemTokenAmount[p] * k
        BY <2>1, <2>2, <2>3
    <2> HIDE DEF pools, f, h
    <2>5. Total(h, pools) = Total(f, pools) - f[p] + h[p]
        BY <1>1, <1>4, <1>5, <2>1, TotalUpdate
    <2>6. redeemTokenAmount[p] * k \in Int /\ f[p] \in Nat
        BY <1>3, <1>4, <2>1
    <2>7. Total(h, pools) = Total(f, pools) + redeemTokenAmount[p] * k
        BY <1>6, <2>4, <2>5, <2>6
    <2> QED BY <1>2, <1>7, <2>7
<1>8. CASE t # RedeemTokenOf(p)
    <2>1. \A q \in pools : h[q] = f[q]
        BY <1>5, <1>8
    <2> HIDE DEF pools, f, h
    <2>2. Total(h, pools) = Total(f, pools)
        BY <2>1, TotalSame
    <2> QED BY <1>2, <1>6, <1>8, <2>2
<1> QED BY <1>7, <1>8

\* The only calls that touch balances, prices or totals.
LEMMA TokenCases ==
    ASSUME TypeOK, [Next]_vars, Withdrawals = {}, Prices = {}
    PROVE  \/ \E p \in AssetPools, sender \in Accounts, d \in Deposits :
                 DepositAssets(p, sender, d)
           \/ \E p \in AssetPools, receiver \in Accounts, ids \in SUBSET RequestIds :
                 RedeemAsset(p, receiver, ids)
           \/ /\ UNCHANGED <<redeemTokenAmount, totalNumberOfAssets>>
              /\ \E t \in RedeemTokens, operator, from, to \in Holders, n \in Nat :
                    Transfer(operator, t, from, to, n)
           \/ UNCHANGED <<redeemTokenAmount, totalNumberOfAssets, balance>>
<1> DEFINE Still == UNCHANGED <<redeemTokenAmount, totalNumberOfAssets, balance>>
           Moves == /\ UNCHANGED <<redeemTokenAmount, totalNumberOfAssets>>
                    /\ \E t \in RedeemTokens, operator, from, to \in Holders,
                          n \in Nat : Transfer(operator, t, from, to, n)
<1>1. ASSUME NEW p \in AssetPools, NEW sender, NEW to \in Holders, NEW n \in Nat,
             TransferRedeemTokenAmount(p, sender, to, n)
      PROVE  Moves
    <2>1. p \in Holders /\ RedeemTokenOf(p) \in RedeemTokens
        BY TokenOfPool DEF Holders
    <2>2. /\ Transfer(p, RedeemTokenOf(p), p, to, n)
          /\ UNCHANGED <<redeemTokenAmount, totalNumberOfAssets>>
        BY <1>1 DEF TransferRedeemTokenAmount, poolVars
    <2> QED BY <2>1, <2>2
<1>2. ASSUME NEW p \in AssetPools, NEW sender, NEW to \in Holders,
             NEW n \in TransferAmounts, TransferRedeemTokenNumber(p, sender, to, n)
      PROVE  Moves
    <2>1. n * redeemTokenAmount[p] \in Nat
        BY RedeemTokenAssumption DEF TypeOK
    <2>2. TransferRedeemTokenAmount(p, sender, to, n * redeemTokenAmount[p])
        BY <1>2 DEF TransferRedeemTokenNumber
    <2> HIDE DEF Moves
    <2> QED BY <1>1, <2>1, <2>2
<1>3. TokenStep => Moves \/ Still
    <2>1. ASSUME NEW t \in RedeemTokens, NEW from \in Accounts, NEW to \in Holders,
                 NEW n \in TransferAmounts, HolderTransfer(t, from, to, n),
                 UNCHANGED poolVars
          PROVE  Moves
        <3>1. /\ from \in Holders /\ to \in Holders
              /\ t \in RedeemTokens /\ n \in Nat
            BY RedeemTokenAssumption DEF Holders
        <3>2. Transfer(from, t, from, to, n)
            BY <2>1 DEF HolderTransfer
        <3>3. UNCHANGED <<redeemTokenAmount, totalNumberOfAssets>>
            BY <2>1 DEF poolVars
        <3> QED BY <3>1, <3>2, <3>3
    <2>2. ASSUME NEW sender, NEW user, NEW flag, SetBlacklisted(sender, user, flag),
                 UNCHANGED poolVars
          PROVE  Still
        BY <2>2 DEF SetBlacklisted, poolVars
    <2> QED BY <2>1, <2>2 DEF TokenStep
<1>4. ASSUME NEW r, FulfillRedeemAsset(r)
      PROVE  Still
    BY <1>4 DEF FulfillRedeemAsset, tokenVars
<1>5. ASSUME NEW r, FulfillReverts(r)
      PROVE  Still
    BY <1>5 DEF FulfillReverts, poolVars, tokenVars
<1>6. ASSUME NEW p, NEW c, Donate(p, c)
      PROVE  Still
    BY <1>6 DEF Donate, tokenVars
<1>7. ASSUME NEW s, NEW to, SendNft(s, to)
      PROVE  Still
    BY <1>7 DEF SendNft, tokenVars
<1>8. ASSUME NEW sender, NEW flag, SetActive(sender, flag)
      PROVE  Still
    BY <1>8 DEF SetActive, tokenVars
<1>9. LinkStep => Still
    BY DEF LinkStep, poolVars, tokenVars
<1>10. UNCHANGED vars => Still
    BY DEF vars, poolVars, tokenVars
<1>11. TransferAmounts \subseteq Nat
    BY RedeemTokenAssumption
<1> HIDE DEF Still, Moves
<1> SUFFICES \/ \E p \in AssetPools, sender \in Accounts, d \in Deposits :
                    DepositAssets(p, sender, d)
             \/ \E p \in AssetPools, receiver \in Accounts, ids \in SUBSET RequestIds :
                    RedeemAsset(p, receiver, ids)
             \/ Moves
             \/ Still
    BY DEF Moves, Still
<1> QED
    BY <1>1, <1>2, <1>3, <1>4, <1>5, <1>6, <1>7, <1>8, <1>9, <1>10, <1>11
       DEF Next, PoolStep, Answer

\* Minting and burning follow the assets on offer, call by call.
LEMMA TokensMatchStep ==
    ASSUME TypeOK, TypeOK', [Next]_vars,
           CustomRedeemMethod, Withdrawals = {}, Prices = {},
           NEW t \in RedeemTokens, Supply(t) = PriceOfAssets(t)
    PROVE  Supply(t)' = PriceOfAssets(t)'
<1>1. TokenTypeOK /\ TokenTypeOK'
    BY DEF TypeOK
<1>2. ASSUME NEW p \in AssetPools, NEW sender \in Accounts, NEW d \in Deposits,
             DepositAssets(p, sender, d)
      PROVE  Supply(t)' = PriceOfAssets(t)'
    <2> DEFINE n == NumberDeposited(d)
    <2>1. /\ p \in Holders /\ RedeemTokenOf(p) \in RedeemTokens
          /\ n \in Nat
          /\ totalNumberOfAssets[p] \in Nat /\ redeemTokenAmount[p] \in Nat
        <3>1. d.cards \in [Slots -> Nat] /\ d.surplus \in Nat
            BY AssetPoolAssumption DEF DepositCalls
        <3>2. n \in Nat
            BY <3>1, CountType DEF NumberDeposited
        <3> QED BY <3>2, TokenOfPool DEF Holders, TypeOK
    <2>2. /\ totalNumberOfAssets' =
                 [totalNumberOfAssets EXCEPT ![p] = totalNumberOfAssets[p] + n]
          /\ redeemTokenAmount' = redeemTokenAmount
          /\ Mint(RedeemTokenOf(p), p, redeemTokenAmount[p] * n)
        BY <1>2 DEF DepositAssets, MintRedeemTokens
    <2> HIDE DEF n
    <2>3. redeemTokenAmount[p] * n \in Nat
        BY <2>1
    <2>4. Supply(t)' = Supply(t) + IF t = RedeemTokenOf(p)
                                   THEN redeemTokenAmount[p] * n ELSE 0
        BY <1>1, <2>1, <2>2, <2>3, SupplyMinted
    <2>5. totalNumberOfAssets[p] + n \in Nat /\ n \in Int
        BY <2>1
    <2>6. PriceOfAssets(t)' = PriceOfAssets(t) + IF t = RedeemTokenOf(p)
                                                 THEN redeemTokenAmount[p] * n ELSE 0
        BY <2>2, <2>5, PriceMoved
    <2> QED BY <2>4, <2>6
<1>3. ASSUME NEW p \in AssetPools, NEW receiver \in Accounts,
             NEW ids \in SUBSET RequestIds, RedeemAsset(p, receiver, ids)
      PROVE  Supply(t)' = PriceOfAssets(t)'
    <2> DEFINE n == Cardinality(ids)
    <2>1. /\ receiver \in Holders /\ RedeemTokenOf(p) \in RedeemTokens
          /\ n \in Nat
          /\ totalNumberOfAssets[p] \in Nat /\ redeemTokenAmount[p] \in Nat
        BY TokenOfPool, IdsFinite DEF Holders, TypeOK
    <2>2. /\ totalNumberOfAssets' =
                 [totalNumberOfAssets EXCEPT ![p] = totalNumberOfAssets[p] - n]
          /\ redeemTokenAmount' = redeemTokenAmount
          /\ n <= totalNumberOfAssets[p]
          /\ Pay(p, receiver, redeemTokenAmount[p] * n)
        BY <1>3 DEF RedeemAsset, MayRedeem
    <2>3. Burn(RedeemTokenOf(p), receiver, redeemTokenAmount[p] * n)
        BY <2>2 DEF Pay, CustomRedeemMethod
    <2> HIDE DEF n
    <2>4. redeemTokenAmount[p] * n \in Nat
        BY <2>1
    <2>5. Supply(t)' = Supply(t) + IF t = RedeemTokenOf(p)
                                   THEN 0 - redeemTokenAmount[p] * n ELSE 0
        BY <1>1, <2>1, <2>3, <2>4, SupplyBurnt
    <2>6. /\ totalNumberOfAssets[p] + (0 - n) \in Nat /\ 0 - n \in Int
          /\ totalNumberOfAssets[p] - n = totalNumberOfAssets[p] + (0 - n)
        BY <2>1, <2>2
    <2>7. totalNumberOfAssets' =
              [totalNumberOfAssets EXCEPT ![p] = totalNumberOfAssets[p] + (0 - n)]
        BY <2>2, <2>6
    <2>8. PriceOfAssets(t)' =
              PriceOfAssets(t) + IF t = RedeemTokenOf(p)
                                 THEN redeemTokenAmount[p] * (0 - n) ELSE 0
        BY <2>2, <2>6, <2>7, PriceMoved
    <2>9. redeemTokenAmount[p] * (0 - n) = 0 - redeemTokenAmount[p] * n
        BY <2>1
    <2> QED BY <2>5, <2>8, <2>9
<1>4. UNCHANGED <<redeemTokenAmount, totalNumberOfAssets>> =>
          PriceOfAssets(t)' = PriceOfAssets(t)
    BY DEF PriceOfAssets
<1>5. ASSUME NEW operator, NEW u \in RedeemTokens, NEW from \in Holders,
             NEW to \in Holders, NEW n \in Nat, Transfer(operator, u, from, to, n)
      PROVE  Supply(t)' = Supply(t)
    BY <1>1, <1>5, SupplyTransferred
<1>6. UNCHANGED balance => Supply(t)' = Supply(t)
    BY DEF Supply
<1>7. UNCHANGED <<redeemTokenAmount, totalNumberOfAssets, balance>> =>
          UNCHANGED <<redeemTokenAmount, totalNumberOfAssets>> /\ UNCHANGED balance
    OBVIOUS
<1> HIDE DEF TypeOK
<1> QED BY <1>2, <1>3, <1>4, <1>5, <1>6, <1>7, TokenCases

\* Before the first deposit there is no token and no asset.
LEMMA TokensMatchInit ==
    ASSUME Init, CustomRedeemMethod, NEW t \in RedeemTokens
    PROVE  Supply(t) = PriceOfAssets(t)
<1> DEFINE pools == {p \in AssetPools : RedeemTokenOf(p) = t}
           f == [p \in pools |-> redeemTokenAmount[p] * totalNumberOfAssets[p]]
<1>1. \A h \in Holders : balance[t][h] = 0
    BY DEF Init, TokenInit
<1>2. Supply(t) = 0
    BY <1>1, HoldersFinite, TotalZero DEF Supply
<1>3. \A p \in pools : redeemTokenAmount[p] \in Nat /\ totalNumberOfAssets[p] = 0
    BY AssetPoolAssumption DEF Init
<1>4. \A p \in pools : f[p] = 0
    BY <1>3
<1>5. IsFiniteSet(pools)
    BY DeploymentAssumption, FS_Subset
<1>6. PriceOfAssets(t) = Total(f, pools)
    BY DEF PriceOfAssets
<1> HIDE DEF pools, f
<1>7. Total(f, pools) = 0
    BY <1>4, <1>5, TotalZero
<1> QED BY <1>2, <1>6, <1>7

\* As long as prices stay and nothing is withdrawn, what it costs to redeem
\* every asset on offer is exactly the redeem tokens there are.
THEOREM TokensMatch == Spec => []TokensMatchAssets
<1>1. Init => TokensMatchAssets
    BY TokensMatchInit DEF TokensMatchAssets
<1>2. TypeOK /\ TypeOK' /\ TokensMatchAssets /\ [Next]_vars => TokensMatchAssets'
    BY TokensMatchStep DEF TokensMatchAssets, RedeemTokens, CustomRedeemMethod
<1> QED BY <1>1, <1>2, WellTyped, PTL DEF Spec
=============================================================================
