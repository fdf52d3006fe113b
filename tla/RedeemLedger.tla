---------------------------- MODULE RedeemLedger ----------------------------
(***************************************************************************)
(* What an asset pool promises, as counters.  Every card in the pool is on *)
(* offer, or promised to a request that waits for its random words, or     *)
(* stranded: left behind by a request that was paid for and will never be  *)
(* answered again.  Only cards on offer are sold or withdrawn, so every    *)
(* waiting request has a card of its own.                                  *)
(***************************************************************************)
EXTENDS Integers

CONSTANTS MaxPerTx      \* the most assets one call may redeem

VARIABLES cards, onOffer, promised, stranded

ledger == <<cards, onOffer, promised, stranded>>

Init == cards = 0 /\ onOffer = 0 /\ promised = 0 /\ stranded = 0

\* Cards come and go with the count of cards on offer.
Stock ==
    /\ onOffer' \in Nat
    /\ cards' - cards = onOffer' - onOffer
    /\ UNCHANGED <<promised, stranded>>

\* A redemption turns cards on offer into promises.
Promise ==
    /\ promised' - promised \in 1 .. MaxPerTx
    /\ onOffer' \in Nat
    /\ onOffer' - onOffer = promised - promised'
    /\ UNCHANGED <<cards, stranded>>

\* A promise is kept with a card, or broken, leaving its card behind.
Keep ==
    /\ promised > 0
    /\ promised' = promised - 1
    /\ cards' = cards - 1
    /\ UNCHANGED <<onOffer, stranded>>

Break ==
    /\ promised > 0
    /\ promised' = promised - 1
    /\ stranded' = stranded + 1
    /\ UNCHANGED <<cards, onOffer>>

Next == Stock \/ Promise \/ Keep \/ Break

Spec == Init /\ [][Next]_ledger
=============================================================================
