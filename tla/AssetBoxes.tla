----------------------------- MODULE AssetBoxes -----------------------------
(***************************************************************************)
(* The array of boxes AssetPoolV1 keeps for one fungible contract, with    *)
(* the loops that search it: boxes merge on deposit, an emptied box is     *)
(* replaced by the last one, and a random word is turned into a box by     *)
(* laying the cards out one after the other.                               *)
(***************************************************************************)
EXTENDS Counting, SequencesExt

CONSTANTS Amounts,    \* the amounts a card may pay
          BoxLists,   \* the boxes one call may pass
          Words,      \* bound: the random words that may be drawn
          MaxCards    \* bound: the cards the array may hold

VARIABLE boxes

Box == [numberOfCards : Nat, amountOrTokenId : Amounts]

ASSUME AssetBoxesAssumption == Words \subseteq Nat /\ BoxLists \subseteq Seq(Box)

\* Cards in the first i boxes.
CumulativeCards(bs) ==
    LET upTo[i \in 0 .. Len(bs)] ==
            IF i = 0 THEN 0 ELSE upTo[i - 1] + bs[i].numberOfCards
    IN  upTo

TotalCards(bs) == CumulativeCards(bs)[Len(bs)]

\* The boxes of amount a, and the first of them; 0 if there is none.
BoxesOf(bs, a) == {k \in DOMAIN bs : bs[k].amountOrTokenId = a}

FindBox(bs, a) ==
    IF BoxesOf(bs, a) = {} THEN 0
    ELSE CHOOSE k \in BoxesOf(bs, a) : \A j \in BoxesOf(bs, a) : k <= j

\* Faulty: boxes are never merged.
AddBoxAlways(bs, box) == Append(bs, box)

UpdateOrAddBox(bs, box) ==
    LET k == FindBox(bs, box.amountOrTokenId)
    IN  IF k = 0 THEN Append(bs, box)
        ELSE [bs EXCEPT ![k].numberOfCards = @ + box.numberOfCards]

\* Faulty: the last box is dropped for the emptied one.
RemoveLastBox(bs, k) == Front(bs)

RemoveAssetBox(bs, k) ==
    IF k = Len(bs) THEN Front(bs) ELSE Front([bs EXCEPT ![k] = Last(bs)])

UpdateAssetBox(bs, k) ==
    IF bs[k].numberOfCards > 1 THEN [bs EXCEPT ![k].numberOfCards = @ - 1]
                               ELSE RemoveAssetBox(bs, k)

\* Faulty: a card at a boundary belongs to the box before.
RandomBoxIndexOffByOne(bs, word) ==
    LET card == word % TotalCards(bs)
    IN  CHOOSE i \in DOMAIN bs : /\ card <= CumulativeCards(bs)[i]
                                 /\ \A j \in 1 .. i - 1 : card > CumulativeCards(bs)[j]

\* _getRandomBoxIndex: the first box the chosen card is not beyond.
RandomBoxIndex(bs, word) ==
    LET card == word % TotalCards(bs)
    IN  CHOOSE i \in DOMAIN bs : /\ card < CumulativeCards(bs)[i]
                                 /\ \A j \in 1 .. i - 1 : card >= CumulativeCards(bs)[j]

\* Whether the box to withdraw is found in bs with enough cards, and bs after it.
Withdrawable(bs, box) ==
    LET k == FindBox(bs, box.amountOrTokenId)
    IN  k # 0 /\ bs[k].numberOfCards >= box.numberOfCards

TakeCards(bs, box) ==
    LET k == FindBox(bs, box.amountOrTokenId)
    IN  IF bs[k].numberOfCards = box.numberOfCards
        THEN RemoveAssetBox(bs, k)
        ELSE [bs EXCEPT ![k].numberOfCards = @ - box.numberOfCards]

\* The boxes after i turns of the deposit loop.
Deposited(bs, list) ==
    LET after[i \in 0 .. Len(list)] ==
            IF i = 0 THEN bs ELSE UpdateOrAddBox(after[i - 1], list[i])
    IN  after

\* The boxes after i turns of the withdrawal loop: a set, which is empty when
\* a turn reverts.
Withdrawn(bs, list) ==
    LET left[i \in 0 .. Len(list)] ==
            IF i = 0 THEN {bs}
            ELSE {TakeCards(b, list[i]) : b \in {c \in left[i - 1] : Withdrawable(c, list[i])}}
    IN  left

-----------------------------------------------------------------------------
Init == boxes = << >>

DepositBoxes(list) ==
    /\ TotalCards(boxes) + TotalCards(list) <= MaxCards
    /\ boxes' = Deposited(boxes, list)[Len(list)]

WithdrawBoxes(list) == boxes' \in Withdrawn(boxes, list)[Len(list)]

\* The array is deleted with its last card, whatever boxes of no card remain.
DrawBox(word) ==
    /\ TotalCards(boxes) > 0
    /\ boxes' = IF TotalCards(boxes) = 1 THEN << >>
                ELSE UpdateAssetBox(boxes, RandomBoxIndex(boxes, word))

Next ==
    \/ \E list \in BoxLists : DepositBoxes(list) \/ WithdrawBoxes(list)
    \/ \E word \in Words : DrawBox(word)

Spec == Init /\ [][Next]_boxes

-----------------------------------------------------------------------------
\* Each amount has one box, so that a withdrawal finds all of its cards.
OneBoxPerAmount == \A a \in Amounts : Cardinality(BoxesOf(boxes, a)) <= 1

\* Cards of each amount, over all boxes of that amount.
CardsIn(bs) ==
    [a \in Amounts |-> Total([k \in DOMAIN bs |-> bs[k].numberOfCards], BoxesOf(bs, a))]

\* The amount that a word draws.
DrawnBy(word) == boxes[RandomBoxIndex(boxes, word)].amountOrTokenId

\* Of as many successive words as there are cards, each amount is drawn by as
\* many as it has cards: every card has the same chance, whatever was merged,
\* removed or moved before.
DrawIsEven ==
    TotalCards(boxes) > 0 =>
        \A a \in Amounts :
            Cardinality({word \in 0 .. TotalCards(boxes) - 1 : DrawnBy(word) = a}) = CardsIn(boxes)[a]

\* The array does what CardMap says of the cards of each amount.
Map == INSTANCE CardMap WITH cards <- CardsIn(boxes),
                             Batches <- {CardsIn(list) : list \in BoxLists}

KeepsCardMap == Map!Spec
=============================================================================
