----------------------------- MODULE AssetPool ------------------------------
(***************************************************************************)
(* The asset pools of one reward pool (AssetPoolV1), with the redeem token *)
(* they mint and burn and the VRF consumer they draw through.              *)
(*                                                                         *)
(* An asset box is a number of identical cards, so the boxes of a pool are *)
(* a function: cards[p][<<c, a>>] is the number of cards that pay amount   *)
(* (or token id) a of contract c.  The order of boxes inside a contract's  *)
(* array is dropped: a random word may point at any card.                  *)
(*                                                                         *)
(* Arithmetic is the checked arithmetic of Solidity 0.8: an operation that *)
(* would exceed MaxUint, or go below zero, reverts, and a call that        *)
(* reverts is no step at all.                                              *)
(***************************************************************************)
EXTENDS RedeemToken, RewardVRFConsumer

CONSTANTS Erc20Contracts, Erc721Contracts,  \* contracts assets are held in
          NativeToken,      \* the pool's own address, the key of native boxes
          BoxAmounts,       \* amounts a fungible card may pay
          NftIds,           \* token ids of an ERC721 contract
          InitialNftOwner,  \* who owns each NFT before any deposit
          Deposits,         \* the arguments depositAssets may be called with
          Withdrawals,      \* the cards withdrawAssets may be called with
          InitialPrice,     \* redeemTokenAmount_ of each pool's initialize
          Prices,           \* the arguments of setRedeemTokenAmount
          Donatable,        \* bound: the fungibles sent to a pool unasked
          Sendable,         \* bound: the NFTs accounts send on
          WithdrawAddress,  \* RewardPoolV1.getWithdrawAddress()
          MaxRewardsPerTx   \* RewardPoolV1.MAX_NUMBER_OF_REWARDS_PER_TX

VARIABLES cards,                \* _assetBoxes
          contractAddresses,    \* _contractAddresses, all types together
          totalNumberOfAssets,  \* _totalNumberOfAssets
          redeemTokenAmount,    \* _redeemTokenAmount
          held,                 \* held[p][c]: what p owns of fungible c
          nftOwner,             \* ERC721.ownerOf
          depositer,            \* AssetBox.depositer of the NFT's box
          active                \* RewardPoolV1.isActive()

poolVars == <<cards, contractAddresses, totalNumberOfAssets, redeemTokenAmount,
              held, nftOwner, depositer, active>>
vars == <<poolVars, tokenVars, vrfVars>>

Fungibles == Erc20Contracts \cup {NativeToken}
Contracts == Fungibles \cup Erc721Contracts
Nfts == Erc721Contracts \X NftIds
Slots == (Fungibles \X BoxAmounts) \cup Nfts

TypeOf(c) == CASE c \in Erc20Contracts  -> "ERC20"
               [] c \in Erc721Contracts -> "ERC721"
               [] c = NativeToken       -> "NativeToken"

\* The asset types a random word chooses from.
DepositedAssetTypes(p) == {TypeOf(c) : c \in contractAddresses[p]}

\* The boxes of contract c, and what the cards f hold of it.
SlotsOf(c) == {s \in Slots : s[1] = c}
ValueOf(f, c) == Total([s \in SlotsOf(c) |-> s[2] * f[s]], SlotsOf(c))

NumberOfCards(p) == Total(cards[p], Slots)
CardsOf(p, c) == Total(cards[p], SlotsOf(c))

\* A deposit: the cards that reach a box, the contracts it names, and the
\* cards in rows of _erc20Boxes beyond the end of _erc20ContractAddresses.
DepositCalls == [cards : [Slots -> Nat],
                 listed : SUBSET (Erc20Contracts \cup Erc721Contracts),
                 surplus : Nat]

ASSUME AssetPoolAssumption ==
    /\ IsFiniteSet(Erc20Contracts) /\ IsFiniteSet(Erc721Contracts)
    /\ NativeToken \notin Erc20Contracts
    /\ Erc721Contracts \cap Fungibles = {}
    /\ BoxAmounts \subseteq Nat /\ IsFiniteSet(BoxAmounts)
    /\ IsFiniteSet(NftIds)
    /\ InitialNftOwner \in [Nfts -> Accounts]
    /\ Deposits \subseteq DepositCalls
    /\ \A d \in Deposits : \A s \in Slots :
          d.cards[s] > 0 => s[1] \in d.listed \cup {NativeToken}
    /\ Withdrawals \subseteq [Slots -> Nat]
    /\ InitialPrice \in [AssetPools -> Nat \ {0}]
    /\ Prices \subseteq Nat
    /\ Donatable \subseteq Fungibles
    /\ Sendable \subseteq Nfts
    /\ WithdrawAddress \in Holders
    /\ MaxRewardsPerTx \in Nat

TypeOK ==
    /\ cards \in [AssetPools -> [Slots -> Nat]]
    /\ contractAddresses \in [AssetPools -> SUBSET Contracts]
    /\ totalNumberOfAssets \in [AssetPools -> Nat]
    /\ redeemTokenAmount \in [AssetPools -> Nat \ {0}]
    /\ held \in [AssetPools -> [Fungibles -> Nat]]
    /\ nftOwner \in [Nfts -> Holders]
    /\ depositer \in [Nfts -> Accounts]
    /\ active \in BOOLEAN
    /\ TokenTypeOK
    /\ VRFTypeOK

Init ==
    /\ cards = [p \in AssetPools |-> [s \in Slots |-> 0]]
    /\ contractAddresses = [p \in AssetPools |-> {}]
    /\ totalNumberOfAssets = [p \in AssetPools |-> 0]
    /\ redeemTokenAmount = InitialPrice
    /\ held = [p \in AssetPools |-> [c \in Fungibles |-> 0]]
    /\ nftOwner = InitialNftOwner
    /\ depositer = InitialNftOwner
    /\ active = TRUE
    /\ TokenInit
    /\ VRFInit

-----------------------------------------------------------------------------
(* Depositing and withdrawing assets. *)

\* Faulty: one token per asset, whatever the price.
MintOneEach(p, n) == IF CustomRedeemMethod THEN Mint(RedeemTokenOf(p), p, n)
                                           ELSE UNCHANGED balance

MintRedeemTokens(p, n) ==
    IF CustomRedeemMethod THEN Mint(RedeemTokenOf(p), p, redeemTokenAmount[p] * n)
                          ELSE UNCHANGED balance

\* _burnRedeemTokens calls mint.
BurnRedeemTokens(p, n) ==
    IF CustomRedeemMethod THEN Mint(RedeemTokenOf(p), p, redeemTokenAmount[p] * n)
                          ELSE UNCHANGED balance

\* Faulty: native boxes are not counted.
NumberDepositedNoNative(d) == Total(d.cards, {s \in Slots : s[1] # NativeToken}) + d.surplus

\* _calculateNumberOfAssets counts every row of boxes.
NumberDeposited(d) == Total(d.cards, Slots) + d.surplus

\* Faulty: an amount is paid once per box.
AmountDepositedPerBox(d, c) == Total([s \in SlotsOf(c) |-> IF d.cards[s] > 0 THEN s[2] ELSE 0],
                               SlotsOf(c))

\* _getERC20Amounts and _getNativeTokenAmount: what the depositer pays in.
AmountDeposited(d, c) == ValueOf(d.cards, c)

\* Faulty: an NFT need not be the sender's.
NftsTransferableUnowned(sender, d) == \A s \in Nfts : d.cards[s] \in {0, 1}

\* safeTransferFrom moves each NFT from the sender, once.
NftsTransferable(sender, d) ==
    \A s \in Nfts : d.cards[s] > 0 => d.cards[s] = 1 /\ nftOwner[s] = sender

\* Faulty: ERC20 and ERC721 contracts are not registered.
ContractsAfterDepositNative(p, d) == contractAddresses[p] \cup {NativeToken}

\* Every contract named is registered, and the native key always is.
ContractsAfterDeposit(p, d) == contractAddresses[p] \cup d.listed \cup {NativeToken}

DepositAssets(p, sender, d) ==
    LET n == NumberDeposited(d)
    IN  /\ IsAdmin(sender)
        /\ n >= 1
        /\ totalNumberOfAssets[p] + n <= MaxUint
        /\ \A c \in Fungibles : held[p][c] + AmountDeposited(d, c) <= MaxUint
        /\ NftsTransferable(sender, d)
        /\ totalNumberOfAssets' = [totalNumberOfAssets EXCEPT ![p] = @ + n]
        /\ cards' = [cards EXCEPT ![p] = Plus(@, d.cards)]
        /\ contractAddresses' = [contractAddresses EXCEPT
                                     ![p] = ContractsAfterDeposit(p, d)]
        /\ held' = [held EXCEPT
                       ![p] = [c \in Fungibles |-> @[c] + AmountDeposited(d, c)]]
        /\ nftOwner' = [s \in Nfts |-> IF d.cards[s] > 0 THEN p ELSE nftOwner[s]]
        /\ depositer' = [s \in Nfts |-> IF d.cards[s] > 0 THEN sender
                                                           ELSE depositer[s]]
        /\ MintRedeemTokens(p, n)
        /\ UNCHANGED <<redeemTokenAmount, active, blacklisted, vrfVars>>

\* Faulty: the boxes are not looked up.
CanWithdrawUnfound(p, w) ==
    /\ \A c \in Fungibles : ValueOf(w, c) <= held[p][c]
    /\ \A s \in Nfts : w[s] > 0 => nftOwner[s] = p

\* Each box is found and has the cards, and the transfers succeed.
CanWithdraw(p, w) ==
    /\ \A s \in Slots : w[s] <= cards[p][s]
    /\ \A c \in Fungibles : ValueOf(w, c) <= held[p][c]
    /\ \A s \in Nfts : w[s] > 0 => nftOwner[s] = p

\* Fungible cards go where the caller says, an NFT to whoever deposited it.
\* A contract that has given its last card stays in contractAddresses.
WithdrawAssets(p, sender, w) ==
    LET n == Total(w, Slots)
    IN  /\ sender = Owner
        /\ CanWithdraw(p, w)
        /\ n <= totalNumberOfAssets[p]
        /\ totalNumberOfAssets' = [totalNumberOfAssets EXCEPT ![p] = @ - n]
        /\ cards' = [cards EXCEPT ![p] = Minus(@, w)]
        /\ held' = [held EXCEPT
                       ![p] = [c \in Fungibles |-> @[c] - ValueOf(w, c)]]
        /\ nftOwner' = [s \in Nfts |-> IF w[s] > 0 THEN depositer[s]
                                                   ELSE nftOwner[s]]
        /\ BurnRedeemTokens(p, n)
        /\ UNCHANGED <<contractAddresses, redeemTokenAmount, depositer, active,
                       blacklisted, vrfVars>>

-----------------------------------------------------------------------------
(* Redeeming: pay, ask for random words, and draw a card when they come. *)

Pay(p, receiver, amount) ==
    CASE RedeemMethod = "ExistingERC20" ->
             Transfer(p, SharedToken, receiver, WithdrawAddress, amount)
      [] OTHER -> Burn(RedeemTokenOf(p), receiver, amount)

\* Faulty: the total is not checked.
MayRedeemUnlimited(p, n) == active /\ n >= 1 /\ n <= MaxRewardsPerTx

\* The checks of redeemAsset before anything is paid.
MayRedeem(p, n) ==
    /\ active
    /\ n >= 1
    /\ n <= MaxRewardsPerTx
    /\ n <= totalNumberOfAssets[p]

\* ids are the request ids the wrapper hands out, one per asset.
RedeemAsset(p, receiver, ids) ==
    LET n == Cardinality(ids)
    IN  /\ MayRedeem(p, n)
        /\ totalNumberOfAssets' = [totalNumberOfAssets EXCEPT ![p] = @ - n]
        /\ Pay(p, receiver, redeemTokenAmount[p] * n)
        /\ RequestRandomWords(p, receiver, ids)
        /\ UNCHANGED <<cards, contractAddresses, redeemTokenAmount, held,
                       nftOwner, depositer, active, blacklisted>>

\* Whether the transfer of a card of s from p to the receiver succeeds.
CanDeliver(p, s, receiver) ==
    IF s \in Nfts THEN nftOwner[s] = p /\ receiver \notin Refusing
    ELSE /\ held[p][s[1]] >= s[2]
         /\ s[1] = NativeToken => receiver \notin Refusing

\* Faulty: the box goes with its first card.
UpdateAssetBoxEmptied(n) == 0

\* _updateAssetBox: one card less; the box goes with its last card.
UpdateAssetBox(n) == n - 1

\* Faulty: the contract goes with its first emptied box.
ContractsAfterDrawPerBox(p, s) ==
    IF cards[p][s] = 1 THEN contractAddresses[p] \ {s[1]} ELSE contractAddresses[p]

\* isLast: the contract is forgotten with the last card of all its boxes.
ContractsAfterDraw(p, s) ==
    IF CardsOf(p, s[1]) = 1 THEN contractAddresses[p] \ {s[1]}
                            ELSE contractAddresses[p]

\* The cards that some random words draw and the receiver can be given.
Drawable(p, receiver) ==
    {s \in Slots : /\ s[1] \in contractAddresses[p]
                   /\ cards[p][s] > 0
                   /\ CanDeliver(p, s, receiver)}

\* fulfillRedeemAsset: the words name a type, a contract of that type, and
\* a card of that contract.
FulfillRedeemAsset(r) ==
    LET p == requests[r].assetPool
        receiver == requests[r].receiver
    IN  /\ Settle(r, "fulfilled")
        /\ \E s \in Drawable(p, receiver) :
             /\ cards' = [cards EXCEPT ![p][s] = UpdateAssetBox(@)]
             /\ contractAddresses' = [contractAddresses EXCEPT
                                          ![p] = ContractsAfterDraw(p, s)]
             /\ IF s \in Nfts
                THEN /\ nftOwner' = [nftOwner EXCEPT ![s] = receiver]
                     /\ UNCHANGED held
                ELSE /\ held' = [held EXCEPT ![p][s[1]] = @ - s[2]]
                     /\ UNCHANGED nftOwner
        /\ UNCHANGED <<totalNumberOfAssets, redeemTokenAmount, depositer, active,
                       tokenVars>>

\* Faulty: a refused card does not revert.
DrawRevertsWithoutCard(p, receiver) ==
    DepositedAssetTypes(p) = {} \/ \E c \in contractAddresses[p] : CardsOf(p, c) = 0

\* Some words make the callback revert: they are taken modulo zero (no type
\* is registered, or the contract they name has no card), or they draw a card
\* the receiver cannot be given.
DrawReverts(p, receiver) ==
    \/ DepositedAssetTypes(p) = {}
    \/ \E c \in contractAddresses[p] : CardsOf(p, c) = 0
    \/ \E s \in Slots : /\ s[1] \in contractAddresses[p]
                        /\ cards[p][s] > 0
                        /\ ~CanDeliver(p, s, receiver)

FulfillReverts(r) ==
    /\ Settle(r, "failed")
    /\ DrawReverts(requests[r].assetPool, requests[r].receiver)
    /\ UNCHANGED <<poolVars, tokenVars>>

-----------------------------------------------------------------------------
(* Administration, and what the outside world may send to a pool. *)

TransferRedeemTokenAmount(p, sender, to, amount) ==
    /\ IsTransferrer(sender) \/ IsAdmin(sender)
    /\ CustomRedeemMethod
    /\ Transfer(p, RedeemTokenOf(p), p, to, amount)
    /\ UNCHANGED <<poolVars, blacklisted, vrfVars>>

TransferRedeemTokenNumber(p, sender, to, number) ==
    TransferRedeemTokenAmount(p, sender, to, number * redeemTokenAmount[p])

SetRedeemTokenAmount(p, sender, amount) ==
    /\ sender = Owner
    /\ amount > 0
    /\ redeemTokenAmount' = [redeemTokenAmount EXCEPT ![p] = amount]
    /\ UNCHANGED <<cards, contractAddresses, totalNumberOfAssets, held, nftOwner,
                   depositer, active, tokenVars, vrfVars>>

\* RewardPoolV1.setActive
SetActive(sender, flag) ==
    /\ sender = Owner
    /\ active' = flag
    /\ UNCHANGED <<cards, contractAddresses, totalNumberOfAssets,
                   redeemTokenAmount, held, nftOwner, depositer, tokenVars,
                   vrfVars>>

\* receive(), and an ERC20 transfer to the pool: funds in no box.
Donate(p, c) ==
    /\ held[p][c] < MaxUint
    /\ held' = [held EXCEPT ![p][c] = @ + 1]
    /\ UNCHANGED <<cards, contractAddresses, totalNumberOfAssets,
                   redeemTokenAmount, nftOwner, depositer, active, tokenVars,
                   vrfVars>>

\* An account sends an NFT on; onERC721Received takes it, in no box.
SendNft(s, to) ==
    /\ nftOwner[s] \in Accounts
    /\ nftOwner' = [nftOwner EXCEPT ![s] = to]
    /\ UNCHANGED <<cards, contractAddresses, totalNumberOfAssets,
                   redeemTokenAmount, held, depositer, active, tokenVars,
                   vrfVars>>

TokenStep ==
    /\ \/ \E t \in RedeemTokens, from \in Accounts, to \in Holders,
             n \in TransferAmounts : HolderTransfer(t, from, to, n)
       \/ \E sender \in Accounts, user \in BlacklistTargets, flag \in BOOLEAN :
             SetBlacklisted(sender, user, flag)
    /\ UNCHANGED <<poolVars, vrfVars>>

LinkStep ==
    /\ DepositLink \/ \E sender \in Accounts : WithdrawLink(sender)
    /\ UNCHANGED <<poolVars, tokenVars>>

PoolStep(p) ==
    \/ \E sender \in Accounts, d \in Deposits : DepositAssets(p, sender, d)
    \/ \E sender \in Accounts, w \in Withdrawals : WithdrawAssets(p, sender, w)
    \/ \E receiver \in Accounts, ids \in SUBSET RequestIds :
          RedeemAsset(p, receiver, ids)
    \/ \E sender \in Accounts, to \in Holders, n \in TransferAmounts :
          \/ TransferRedeemTokenAmount(p, sender, to, n)
          \/ TransferRedeemTokenNumber(p, sender, to, n)
    \/ \E sender \in Accounts, a \in Prices : SetRedeemTokenAmount(p, sender, a)
    \/ \E c \in Donatable : Donate(p, c)

\* The wrapper answers request r.
Answer(r) == FulfillRedeemAsset(r) \/ FulfillReverts(r)

Next ==
    \/ \E p \in AssetPools : PoolStep(p)
    \/ \E r \in RequestIds : Answer(r)
    \/ \E sender \in Accounts, flag \in BOOLEAN : SetActive(sender, flag)
    \/ \E s \in Sendable, to \in Holders : SendNft(s, to)
    \/ TokenStep
    \/ LinkStep

Spec == Init /\ [][Next]_vars

\* Chainlink answers every request some day; nothing else has to happen.
FairSpec == Spec /\ \A r \in RequestIds : WF_vars(Answer(r))
-----------------------------------------------------------------------------
(* Properties. *)

\* Every deposit names a contract for each row of boxes.
MatchedRows == \A d \in Deposits : d.surplus = 0

\* Cards are neither created nor lost by the accounting: the cards in the
\* boxes are those still on offer, those promised to a pending request, and
\* those left behind by a request whose callback reverted.
Conservation ==
    MatchedRows =>
        \A p \in AssetPools :
            NumberOfCards(p) = totalNumberOfAssets[p] + Pending(p) + Failed(p)

\* An NFT box stands for an NFT the pool owns, in one box of one pool only.
NftCustody ==
    \A p \in AssetPools, s \in Nfts :
        cards[p][s] > 0 => cards[p][s] = 1 /\ nftOwner[s] = p

\* The pool owns at least what all its fungible cards together pay.
Solvency ==
    \A p \in AssetPools, c \in Fungibles : held[p][c] >= ValueOf(cards[p], c)

\* A random word can reach every card: its contract is registered.
EveryCardDrawable ==
    \A p \in AssetPools, s \in Slots :
        cards[p][s] > 0 => s[1] \in contractAddresses[p]

\* A waiting request whose receiver takes what it is sent can be fulfilled:
\* some random words deliver a card, whoever redeemed or withdrew since.
PromisesCanBeKept ==
    MatchedRows =>
        \A r \in RequestIds :
            (requests[r].status = "pending" /\ requests[r].receiver \notin Refusing)
                => Drawable(requests[r].assetPool, requests[r].receiver) # {}

\* What redeeming every asset still on offer costs, over the pools that take t.
PriceOfAssets(t) ==
    LET pools == {p \in AssetPools : RedeemTokenOf(p) = t}
    IN  Total([p \in pools |-> redeemTokenAmount[p] * totalNumberOfAssets[p]],
              pools)

\* While prices stay and nothing is withdrawn, the redeem tokens in existence
\* are worth exactly the assets on offer, however the pools share a token.
TokensMatchAssets ==
    (CustomRedeemMethod /\ Withdrawals = {} /\ Prices = {}) =>
        \A t \in RedeemTokens : Supply(t) = PriceOfAssets(t)

\* No operation takes redeem tokens from a blacklisted address.
BlacklistFreezes ==
    [][CustomRedeemMethod =>
          \A t \in RedeemTokens, h \in Holders \cap blacklisted :
              balance'[t][h] >= balance[t][h]]_vars

\* A fulfilled request has taken one card, worth what left the pool, and
\* touched no other pool.
OneCardPerRequest ==
    [][\A r \in RequestIds :
          (requests[r].status = "pending" /\ requests'[r].status = "fulfilled") =>
              LET p == requests[r].assetPool
              IN  /\ NumberOfCards(p)' = NumberOfCards(p) - 1
                  /\ \A c \in Fungibles :
                        held[p][c] - held'[p][c] =
                            ValueOf(cards[p], c) - ValueOf(cards[p], c)'
                  /\ \A q \in AssetPools \ {p} :
                        cards'[q] = cards[q] /\ held'[q] = held[q]]_vars

\* The types listed are types of assets deposited in the pool.
ListedTypesHaveCards ==
    \A p \in AssetPools : \A t \in DepositedAssetTypes(p) :
        \E s \in Slots : TypeOf(s[1]) = t /\ cards[p][s] > 0

\* The total counts assets that are in the pool.
TotalIsInPool == \A p \in AssetPools : totalNumberOfAssets[p] <= NumberOfCards(p)

\* Withdrawing n assets burns the n redemptions they were minted for.
WithdrawalBurns ==
    [][\A p \in AssetPools :
          (totalNumberOfAssets'[p] < totalNumberOfAssets[p] /\ UNCHANGED requests) =>
              Supply(RedeemTokenOf(p))' = Supply(RedeemTokenOf(p)) -
                  redeemTokenAmount[p] * (totalNumberOfAssets[p] - totalNumberOfAssets'[p])]_vars

\* Each pool keeps the ledger of RedeemLedger.
Ledger(p) == INSTANCE RedeemLedger WITH
                 MaxPerTx <- MaxRewardsPerTx,
                 cards <- NumberOfCards(p),
                 onOffer <- totalNumberOfAssets[p],
                 promised <- Pending(p),
                 stranded <- Failed(p)

LedgersKept ==
    /\ \A p \in AssetPools : Ledger(p)!Init
    /\ [][\A p \in AssetPools : [Ledger(p)!Next]_(Ledger(p)!ledger)]_vars

\* Every request is settled some day ...
RequestsSettle ==
    \A r \in RequestIds :
        requests[r].status = "pending" ~> requests[r].status \in {"fulfilled", "failed"}

\* ... so that a reward pool that stays paused ends up owing nothing.
PausedPoolDrains ==
    <>[]~active => <>[](\A p \in AssetPools : Pending(p) = 0)

=============================================================================
