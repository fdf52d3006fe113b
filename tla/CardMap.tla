------------------------------ MODULE CardMap -------------------------------
(***************************************************************************)
(* The boxes of one contract as AssetPool sees them: how many cards there  *)
(* are of each amount.  Cards are added in batches, taken away in batches, *)
(* and drawn one at a time.                                                *)
(***************************************************************************)
EXTENDS Integers

CONSTANTS Amounts,    \* the amounts a card may pay
          Batches     \* the numbers of cards, by amount, of one call

VARIABLE cards

Init == cards = [a \in Amounts |-> 0]

Add == \E b \in Batches : cards' = [a \in Amounts |-> cards[a] + b[a]]

TakeAway ==
    \E b \in Batches : /\ \A a \in Amounts : b[a] <= cards[a]
                       /\ cards' = [a \in Amounts |-> cards[a] - b[a]]

Draw == \E a \in Amounts : cards[a] > 0 /\ cards' = [cards EXCEPT ![a] = @ - 1]

Spec == Init /\ [][Add \/ TakeAway \/ Draw]_cards
=============================================================================
