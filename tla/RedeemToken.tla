---------------------------- MODULE RedeemToken -----------------------------
(***************************************************************************)
(* The token that is burnt (or taken) when an asset is redeemed.           *)
(*                                                                         *)
(*  CustomERC1155  ERC1155RedeemTokenV1: one token id per asset pool.      *)
(*  CustomERC20    ERC20RedeemTokenV1: one token for the whole reward pool.*)
(*  ExistingERC20  a token the reward pool has no power over.              *)
(*                                                                         *)
(* Mint, Burn and Transfer are the calls an asset pool makes in the middle *)
(* of its own operations; they constrain balance' only.                    *)
(***************************************************************************)
EXTENDS Deployment

CONSTANTS SharedToken,      \* the one ERC20 token of a reward pool
          InitialBalance,   \* what holders own of an existing token
          TransferAmounts,  \* bound: the amounts transfers are called with
          BlacklistTargets  \* bound: the addresses the owner may blacklist

VARIABLES balance,      \* balance[t][h]: redeem tokens t held by h
          blacklisted   \* the addresses whose tokens may not move

tokenVars == <<balance, blacklisted>>

RedeemTokens == IF RedeemMethod = "CustomERC1155" THEN AssetPools
                                                  ELSE {SharedToken}

\* The redeem token of asset pool p.
RedeemTokenOf(p) == IF RedeemMethod = "CustomERC1155" THEN p ELSE SharedToken

Supply(t) == Total(balance[t], Holders)

ASSUME RedeemTokenAssumption ==
    /\ InitialBalance \in [Holders -> Nat]
    /\ TransferAmounts \subseteq Nat
    /\ BlacklistTargets \subseteq Holders \cup {ZeroAddress}

TokenTypeOK ==
    /\ balance \in [RedeemTokens -> [Holders -> Nat]]
    /\ blacklisted \subseteq Holders \cup {ZeroAddress}

TokenInit ==
    /\ balance = [t \in RedeemTokens |-> IF CustomRedeemMethod
                                         THEN [h \in Holders |-> 0]
                                         ELSE InitialBalance]
    /\ blacklisted = {}

\* _beforeTokenTransfer: a custom token does not move out of a blacklisted
\* address; a mint moves it out of the zero address.
MayMoveFrom(h) == CustomRedeemMethod => h \notin blacklisted

\* The acceptance check of ERC1155, which AssetPoolV1.onERC1155Received passes
\* only for transfers the receiving pool started itself.
AcceptsToken(operator, h) ==
    RedeemMethod = "CustomERC1155" => /\ h \notin Refusing
                                      /\ h \in AssetPools => h = operator

\* ERC20 checks its total supply for overflow, ERC1155 the receiving balance.
MintFits(t, to, n) ==
    IF RedeemMethod = "CustomERC1155" THEN balance[t][to] + n <= MaxUint
                                      ELSE Supply(t) + n <= MaxUint

Mint(t, to, n) ==
    /\ MayMoveFrom(ZeroAddress)
    /\ MintFits(t, to, n)
    /\ balance' = [balance EXCEPT ![t][to] = @ + n]

\* Faulty: a burn passes the blacklist by.
BurnBlacklisted(t, from, n) ==
    /\ balance[t][from] >= n
    /\ balance' = [balance EXCEPT ![t][from] = @ - n]

Burn(t, from, n) ==
    /\ MayMoveFrom(from)
    /\ balance[t][from] >= n
    /\ balance' = [balance EXCEPT ![t][from] = @ - n]

Transfer(operator, t, from, to, n) ==
    /\ MayMoveFrom(from)
    /\ AcceptsToken(operator, to)
    /\ balance[t][from] >= n
    /\ from # to /\ RedeemMethod = "CustomERC1155"
          => balance[t][to] + n <= MaxUint
    /\ LET debited == [balance EXCEPT ![t][from] = @ - n]
       IN  balance' = [debited EXCEPT ![t][to] = @ + n]

-----------------------------------------------------------------------------
(* Steps of the token that involve no asset pool operation. *)

\* An account hands redeem tokens on (ERC20 transfer, ERC1155 safeTransferFrom).
HolderTransfer(t, from, to, n) ==
    /\ Transfer(from, t, from, to, n)
    /\ UNCHANGED blacklisted

\* RedeemTokenV1.setBlacklisted: only the owner, only on a custom token.
SetBlacklisted(sender, user, flag) ==
    /\ CustomRedeemMethod
    /\ sender = Owner
    /\ blacklisted' = IF flag THEN blacklisted \cup {user}
                              ELSE blacklisted \ {user}
    /\ UNCHANGED balance
=============================================================================
