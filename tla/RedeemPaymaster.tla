--------------------------- MODULE RedeemPaymaster ---------------------------
(***************************************************************************)
(* RedeemAssetPaymaster: pays the gas of relayed redeemAsset calls.  It    *)
(* looks at the request first (preRelayedCall), the asset pool is called   *)
(* through the hub, and the paymaster is charged whether the pool redeems  *)
(* or reverts.  Paymasters come from the registry's createPaymaster or     *)
(* straight from an account.                                               *)
(*                                                                         *)
(* A word is Cut * High: an argument is preceded by a selector, of as many *)
(* bytes as Cut, and High is what the rest of the word can count.          *)
(***************************************************************************)
EXTENDS Integers

CONSTANTS Holders,      \* accounts: holders, owners, anyone
          PoolRegistry, \* the registry, an owner too
          Paymasters, NoPaymaster,
          Hub, Zero,    \* the zero address
          Cut, High,    \* 2^32 and 2^224 in the code
          Selector,     \* redeemAsset.selector
          MaxPerTx,     \* MAX_NUMBER_OF_REWARDS_PER_TX
          Charge,       \* bound: what a relayed call costs
          MaxDeposit,   \* bound: of a paymaster at the hub
          Amounts,      \* bound: amountOfAssetsToRedeem
          RedeemPrices, \* bound: redeemTokenAmount
          Balances,     \* bound: redeem tokens of an account
          Totals        \* bound: assets in the pool

ASSUME PaymasterAssumption ==
    /\ PoolRegistry \notin Holders /\ NoPaymaster \notin Paymasters
    /\ Zero \notin Holders \cup {Hub, PoolRegistry}
    /\ Cut \in Nat \ {0} /\ High \in Nat \ {0} /\ Selector \in 1..(Cut - 1)
    /\ MaxPerTx \in 1..High
    /\ Charge \in Nat \ {0} /\ MaxDeposit \in Nat
    /\ Amounts \subseteq 0..(Cut * High - 1) /\ RedeemPrices \subseteq 1..(Cut * High - 1)
    /\ Balances \subseteq 0..(Cut * High - 1) /\ Totals \subseteq 0..(Cut * High - 1)
    /\ 0 \in Balances /\ RedeemPrices # {} /\ 0 \in Totals

VARIABLES paymasterOf,  \* _ownerToPaymaster
          owner,        \* owner[m]: Ownable, Zero before m is there
          hub,          \* relayHub
          deposit,      \* the hub's balances
          last,         \* the hub's last event on a relayed call
          erc1155,      \* redeemMethod is CustomERC1155, else one of the ERC20 methods
          price, total, active,  \* the asset pool and its reward pool
          balance,      \* redeem tokens
          barred        \* accounts with no allowance, or that are blacklisted

contractVars == <<paymasterOf, owner, hub, deposit>>
offerVars == <<erc1155, price, total, active, balance, barred>>
paymasterVars == <<contractVars, last, offerVars>>

NoCall == [status |-> "none", paymaster |-> NoPaymaster, from |-> Zero, amount |-> 0]

PaymasterInit ==
    /\ paymasterOf = [u \in Holders |-> NoPaymaster]
    /\ owner = [m \in Paymasters |-> Zero]
    /\ hub = [m \in Paymasters |-> Zero]
    /\ deposit = [m \in Paymasters |-> 0]
    /\ last = NoCall
    /\ erc1155 \in BOOLEAN /\ price \in RedeemPrices /\ total = 0 /\ active = FALSE
    /\ balance = [u \in Holders |-> 0] /\ barred \in SUBSET Holders

Statuses == {"none", "OK", "RelayedCallFailed", "RejectedByPreRelayed"}

PaymasterTypeOK ==
    /\ paymasterOf \in [Holders -> Paymasters \cup {NoPaymaster}]
    /\ owner \in [Paymasters -> Holders \cup {PoolRegistry, Zero}]
    /\ hub \in [Paymasters -> {Hub, Zero}]
    /\ deposit \in [Paymasters -> 0..MaxDeposit]
    /\ last.status \in Statuses
    /\ erc1155 \in BOOLEAN
    /\ price \in Nat \ {0} /\ total \in Nat /\ active \in BOOLEAN
    /\ balance \in [Holders -> Nat] /\ barred \subseteq Holders

-----------------------------------------------------------------------------
(* The asset pool *)

Word == Cut * High

\* redeemAsset goes through.
Redeemable(u, n) ==
    /\ active
    /\ n \in 1..MaxPerTx /\ n <= total
    /\ n * price < Word /\ balance[u] >= n * price
    /\ u \notin barred

Redeem(u, n) ==
    /\ total' = total - n
    /\ balance' = [balance EXCEPT ![u] = @ - n * price]
    /\ UNCHANGED <<erc1155, price, active, barred>>

RedeemAsset(u, n) ==
    /\ Redeemable(u, n) /\ Redeem(u, n)
    /\ last' = NoCall /\ UNCHANGED contractVars

\* The pool's owner and admins, and the redeem token.
PoolChanges ==
    /\ \/ price' \in RedeemPrices /\ UNCHANGED <<total, active, balance, barred>>
       \/ total' \in Totals /\ UNCHANGED <<price, active, balance, barred>>
       \/ active' = ~active /\ UNCHANGED <<price, total, balance, barred>>
       \/ \E u \in Holders, b \in Balances :
            balance' = [balance EXCEPT ![u] = b] /\ UNCHANGED <<price, total, active, barred>>
       \/ \E u \in Holders :
            /\ barred' = IF u \in barred THEN barred \ {u} ELSE barred \cup {u}
            /\ UNCHANGED <<price, total, active, balance>>
    /\ last' = NoCall /\ UNCHANGED <<erc1155, contractVars>>

-----------------------------------------------------------------------------
(* Paymasters and their owners *)

Deployed(m, by) == owner[m] = Zero /\ owner' = [owner EXCEPT ![m] = by]

\* Faulty: the paymaster is handed to the account that asked for it.
NewPaymasterOwned(sender, m) ==
    /\ paymasterOf[sender] = NoPaymaster /\ Deployed(m, sender)
    /\ paymasterOf' = [paymasterOf EXCEPT ![sender] = m]
    /\ last' = NoCall /\ UNCHANGED <<hub, deposit, offerVars>>

\* Ownable makes the deployer the owner, and that is the registry.
NewPaymaster(sender, m) ==
    /\ paymasterOf[sender] = NoPaymaster
    /\ Deployed(m, PoolRegistry)
    /\ paymasterOf' = [paymasterOf EXCEPT ![sender] = m]
    /\ last' = NoCall /\ UNCHANGED <<hub, deposit, offerVars>>

\* An account deploys the contract itself.
DeployPaymaster(sender, m) ==
    /\ Deployed(m, sender)
    /\ last' = NoCall /\ UNCHANGED <<paymasterOf, hub, deposit, offerVars>>

SetRelayHub(sender, m) ==
    /\ owner[m] = sender
    /\ hub' = [hub EXCEPT ![m] = Hub]
    /\ last' = NoCall /\ UNCHANGED <<paymasterOf, owner, deposit, offerVars>>

\* Ether sent to the paymaster, which passes it to its hub.
Receive(m, amount) ==
    /\ hub[m] # Zero /\ deposit[m] + amount <= MaxDeposit
    /\ deposit' = [deposit EXCEPT ![m] = @ + amount]
    /\ last' = NoCall /\ UNCHANGED <<paymasterOf, owner, hub, offerVars>>

\* Anyone may pay for any address at the hub.
DepositFor(m, amount) ==
    /\ deposit[m] + amount <= MaxDeposit
    /\ deposit' = [deposit EXCEPT ![m] = @ + amount]
    /\ last' = NoCall /\ UNCHANGED <<paymasterOf, owner, hub, offerVars>>

WithdrawRelayHubDepositTo(sender, m, amount) ==
    /\ owner[m] = sender /\ hub[m] # Zero /\ deposit[m] >= amount
    /\ deposit' = [deposit EXCEPT ![m] = @ - amount]
    /\ last' = NoCall /\ UNCHANGED <<paymasterOf, owner, hub, offerVars>>

-----------------------------------------------------------------------------
(* A relayed call *)

\* getRedeemTokenBalanceOf: the tokens, or how many prices they make up.
GetRedeemTokenBalanceOf(u) == IF erc1155 THEN balance[u] ELSE balance[u] \div price

\* abi.decode of the first word of the data, which starts with the selector.
Decoded(n) == Selector * High + n \div Cut

\* Faulty: the assets left are not looked at.
AcceptsAnyTotal(u, n) ==
    /\ Decoded(n) * price < Word
    /\ GetRedeemTokenBalanceOf(u) >= Decoded(n) * price

\* The two comparisons of _preRelayedCall; the product reverts when it does not fit.
Accepts(u, n) ==
    /\ Decoded(n) * price < Word
    /\ GetRedeemTokenBalanceOf(u) >= Decoded(n) * price
    /\ total >= Decoded(n)

Event(status, m, u, n) == [status |-> status, paymaster |-> m, from |-> u, amount |-> n]

\* relayCall for a paymaster that has enough at the hub: a request the paymaster
\* reverts on costs it nothing, any other is charged.  A hub that is not the
\* paymaster's is refused as well.
RelayCall(m, u, n) ==
    /\ owner[m] # Zero /\ deposit[m] >= Charge
    /\ IF hub[m] # Hub \/ ~Accepts(u, n)
       THEN /\ last' = Event("RejectedByPreRelayed", m, u, n)
            /\ UNCHANGED <<deposit, offerVars>>
       ELSE /\ deposit' = [deposit EXCEPT ![m] = @ - Charge]
            /\ \/ /\ Redeemable(u, n) /\ Redeem(u, n)
                  /\ last' = Event("OK", m, u, n)
               \/ /\ ~Redeemable(u, n)
                  /\ last' = Event("RelayedCallFailed", m, u, n)
                  /\ UNCHANGED offerVars
    /\ UNCHANGED <<paymasterOf, owner, hub>>

PaymasterNext ==
    \/ PoolChanges
    \/ \E u \in Holders, n \in Amounts : RedeemAsset(u, n)
    \/ \E u \in Holders, m \in Paymasters :
         \/ NewPaymaster(u, m) \/ DeployPaymaster(u, m) \/ SetRelayHub(u, m)
         \/ WithdrawRelayHubDepositTo(u, m, Charge)
    \/ \E m \in Paymasters : Receive(m, Charge) \/ DepositFor(m, Charge)
    \/ \E m \in Paymasters, u \in Holders, n \in Amounts : RelayCall(m, u, n)

PaymasterSpec == PaymasterInit /\ [][PaymasterNext]_paymasterVars

-----------------------------------------------------------------------------
(* Properties *)

\* A paymaster pays for a reverted redemption only for a reason it does not look at: the
\* pool is paused, the number is none or too many, or the token does not move.  Never
\* because tokens or assets are missing.
PaysForNoShortageStep ==
    last'.status = "RelayedCallFailed"
         => ~active \/ last'.amount \notin 1..MaxPerTx \/ last'.from \in barred

\* What is deposited for a paymaster of createPaymaster stays at the hub: nobody can set its hub,
\* so it accepts no call, and nobody can withdraw for it.
CreatedStaysIdleStep ==
    \A u \in Holders : paymasterOf[u] # NoPaymaster
         => deposit'[paymasterOf[u]] >= deposit[paymasterOf[u]]

\* Both, of every paymaster at all times.
PaymastersSound ==
    /\ []PaymasterTypeOK
    /\ [][PaysForNoShortageStep /\ CreatedStaysIdleStep]_paymasterVars

=============================================================================
