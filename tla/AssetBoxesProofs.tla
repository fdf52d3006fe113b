-------------------------- MODULE AssetBoxesProofs --------------------------
(***************************************************************************)
(* The array of boxes for any amounts, any lists of boxes that calls pass, *)
(* any random words and any number of cards.  The loops are recursive      *)
(* functions: what holds after each turn is shown by induction over the    *)
(* turns (CountingProofs).                                                 *)
(***************************************************************************)
EXTENDS AssetBoxes, CountingProofs, SequenceTheorems

\* Arrays in which no amount has two boxes.
Unique(bs) == \A i, j \in 1 .. Len(bs) : bs[i].amountOrTokenId = bs[j].amountOrTokenId => i = j
Arrays == {bs \in Seq(Box) : Unique(bs)}

NumberOf(bs) == [k \in 1 .. Len(bs) |-> bs[k].numberOfCards]

\* The cards of amount a.
CardsOf(bs, a) == Total(NumberOf(bs), BoxesOf(bs, a))

\* A step moves the cards of amount x by d, and those of no other amount.
Moves(bs, bs2, x, d) ==
    \A a \in Amounts : CardsOf(bs2, a) = CardsOf(bs, a) + (IF a = x THEN d ELSE 0)

-----------------------------------------------------------------------------
(* Boxes of an array.                                                      *)

LEMMA BoxAt ==
    ASSUME NEW bs \in Seq(Box), NEW k \in 1 .. Len(bs)
    PROVE  bs[k] \in Box /\ bs[k].numberOfCards \in Nat /\ bs[k].amountOrTokenId \in Amounts
<1>1. bs[k] \in Box
    OBVIOUS
<1> QED BY <1>1 DEF Box

LEMMA CardsInIsCardsOf ==
    ASSUME NEW bs \in Seq(Box), NEW a \in Amounts
    PROVE  CardsIn(bs)[a] = CardsOf(bs, a) /\ CardsOf(bs, a) \in Nat
<1>1. DOMAIN bs = 1 .. Len(bs)
    OBVIOUS
<1>2. CardsIn(bs)[a] = CardsOf(bs, a)
    BY <1>1 DEF CardsIn, CardsOf, NumberOf
<1>3. IsFiniteSet(1 .. Len(bs)) /\ BoxesOf(bs, a) \subseteq 1 .. Len(bs)
    BY <1>1, FS_Interval DEF BoxesOf
<1>4. IsFiniteSet(BoxesOf(bs, a))
    BY <1>3, FS_Subset
<1>5. \A k \in BoxesOf(bs, a) : NumberOf(bs)[k] \in Nat
    BY <1>3, BoxAt DEF NumberOf
<1> QED BY <1>2, <1>4, <1>5, TotalType DEF CardsOf

\* An amount with no box, and one with a box.
LEMMA NoBox ==
    ASSUME NEW bs \in Arrays, NEW a \in Amounts,
           \A k \in 1 .. Len(bs) : bs[k].amountOrTokenId # a
    PROVE  BoxesOf(bs, a) = {} /\ FindBox(bs, a) = 0 /\ CardsOf(bs, a) = 0
<1>1. BoxesOf(bs, a) = {}
    BY DEF BoxesOf, Arrays
<1> QED BY <1>1, TotalOfNone DEF FindBox, CardsOf

LEMMA OneBox ==
    ASSUME NEW bs \in Arrays, NEW k \in 1 .. Len(bs), NEW a, a = bs[k].amountOrTokenId
    PROVE  BoxesOf(bs, a) = {k} /\ FindBox(bs, a) = k /\ CardsOf(bs, a) = bs[k].numberOfCards
<1>1. BoxesOf(bs, a) = {k}
    BY DEF BoxesOf, Arrays, Unique
<1>2. FindBox(bs, a) = k
    BY <1>1 DEF FindBox
<1>3. NumberOf(bs)[k] \in Nat /\ IsFiniteSet({k})
    BY BoxAt, FS_Singleton DEF NumberOf, Arrays
<1>4. Total(NumberOf(bs), {k}) = NumberOf(bs)[k]
    BY <1>3, TotalSingle
<1> QED BY <1>1, <1>2, <1>4 DEF CardsOf, NumberOf

\* So the cards of an amount are those of its box, if it has one.
LEMMA BoxOrNone ==
    ASSUME NEW bs \in Arrays, NEW a \in Amounts
    PROVE  \/ \A k \in 1 .. Len(bs) : bs[k].amountOrTokenId # a
           \/ \E k \in 1 .. Len(bs) : bs[k].amountOrTokenId = a /\ CardsOf(bs, a) = bs[k].numberOfCards
BY OneBox

-----------------------------------------------------------------------------
(* One turn of a loop.                                                     *)

\* A box changes its number of cards.
LEMMA NumberChanges ==
    ASSUME NEW bs \in Arrays, NEW k \in 1 .. Len(bs), NEW n \in Nat
    PROVE  LET bs2 == [bs EXCEPT ![k].numberOfCards = n]
           IN  /\ bs2 \in Arrays /\ Len(bs2) = Len(bs)
               /\ Moves(bs, bs2, bs[k].amountOrTokenId, n - bs[k].numberOfCards)
<1> DEFINE bs2 == [bs EXCEPT ![k].numberOfCards = n]
<1>1. /\ bs2 \in Seq(Box) /\ Len(bs2) = Len(bs)
      /\ \A i \in 1 .. Len(bs) : /\ bs2[i].amountOrTokenId = bs[i].amountOrTokenId
                                 /\ bs2[i].numberOfCards = IF i = k THEN n ELSE bs[i].numberOfCards
    <2>1. bs \in Seq(Box) /\ bs \in [1 .. Len(bs) -> Box]
        BY DEF Arrays
    <2>2. [bs[k] EXCEPT !.numberOfCards = n] \in Box
        BY <2>1 DEF Box
    <2>3. bs2 \in [1 .. Len(bs) -> Box]
        BY <2>1, <2>2
    <2>4. bs2 \in Seq(Box) /\ Len(bs2) = Len(bs)
        <3> HIDE DEF bs2
        <3>1. Len(bs) \in Nat
            BY <2>1
        <3> QED BY <2>3, <3>1
    <2>5. ASSUME NEW i \in 1 .. Len(bs)
          PROVE  /\ bs2[i].amountOrTokenId = bs[i].amountOrTokenId
                 /\ bs2[i].numberOfCards = IF i = k THEN n ELSE bs[i].numberOfCards
        <3>1. bs[i] \in Box
            BY <2>1
        <3>2. bs2[i] = IF i = k THEN [bs[i] EXCEPT !.numberOfCards = n] ELSE bs[i]
            BY <2>1
        <3> QED BY <3>1, <3>2 DEF Box
    <2> QED BY <2>4, <2>5
<1> HIDE DEF bs2
<1>2. bs2 \in Arrays
    BY <1>1 DEF Arrays, Unique
<1>3. ASSUME NEW a \in Amounts
      PROVE  CardsOf(bs2, a) = CardsOf(bs, a) + (IF a = bs[k].amountOrTokenId THEN n - bs[k].numberOfCards ELSE 0)
    <2>1. CASE \A i \in 1 .. Len(bs) : bs[i].amountOrTokenId # a
        BY <2>1, <1>1, <1>2, NoBox
    <2>2. CASE \E i \in 1 .. Len(bs) : bs[i].amountOrTokenId = a
        <3>1. PICK i \in 1 .. Len(bs) : bs[i].amountOrTokenId = a
            BY <2>2
        <3>2. CardsOf(bs, a) = bs[i].numberOfCards /\ CardsOf(bs2, a) = bs2[i].numberOfCards
            BY <3>1, <1>1, <1>2, OneBox
        <3>3. (a = bs[k].amountOrTokenId) <=> i = k
            BY <3>1 DEF Arrays, Unique
        <3>4. bs[i].numberOfCards \in Nat
            BY BoxAt DEF Arrays
        <3> QED BY <1>1, <3>2, <3>3, <3>4
    <2> QED BY <2>1, <2>2
<1>4. Moves(bs, bs2, bs[k].amountOrTokenId, n - bs[k].numberOfCards)
    BY <1>3 DEF Moves
<1> QED BY <1>1, <1>2, <1>4 DEF bs2

\* A box of a new amount comes last.
LEMMA BoxAdded ==
    ASSUME NEW bs \in Arrays, NEW box \in Box,
           \A k \in 1 .. Len(bs) : bs[k].amountOrTokenId # box.amountOrTokenId
    PROVE  /\ Append(bs, box) \in Arrays
           /\ Moves(bs, Append(bs, box), box.amountOrTokenId, box.numberOfCards)
<1> DEFINE bs2 == Append(bs, box)
           n == Len(bs) + 1
<1>1. bs \in Seq(Box) /\ Len(bs) \in Nat
    BY DEF Arrays
<1>2. /\ bs2 \in Seq(Box) /\ Len(bs2) = n /\ n \in 1 .. n /\ bs2[n] = box
      /\ \A i \in 1 .. Len(bs) : i \in 1 .. n /\ bs2[i] = bs[i]
    BY <1>1
<1>3. \A i \in 1 .. n : i = n \/ i \in 1 .. Len(bs)
    BY <1>1
<1> HIDE DEF bs2, n
<1>4. bs2 \in Arrays
    BY <1>2, <1>3 DEF Arrays, Unique
<1>5. box.numberOfCards \in Nat /\ box.amountOrTokenId \in Amounts
    BY DEF Box
<1>6. ASSUME NEW a \in Amounts
      PROVE  CardsOf(bs2, a) = CardsOf(bs, a) + (IF a = box.amountOrTokenId THEN box.numberOfCards ELSE 0)
    <2>1. CASE a = box.amountOrTokenId
        BY <2>1, <1>2, <1>4, <1>5, NoBox, OneBox
    <2>2. CASE a # box.amountOrTokenId /\ \A i \in 1 .. Len(bs) : bs[i].amountOrTokenId # a
        <3>1. \A i \in 1 .. n : bs2[i].amountOrTokenId # a
            BY <2>2, <1>2, <1>3
        <3> QED BY <3>1, <2>2, <1>2, <1>4, NoBox
    <2>3. CASE a # box.amountOrTokenId /\ \E i \in 1 .. Len(bs) : bs[i].amountOrTokenId = a
        <3>1. PICK i \in 1 .. Len(bs) : bs[i].amountOrTokenId = a
            BY <2>3
        <3>2. CardsOf(bs, a) = bs[i].numberOfCards /\ CardsOf(bs2, a) = bs[i].numberOfCards
            BY <3>1, <1>2, <1>4, OneBox
        <3>3. bs[i].numberOfCards \in Nat
            BY <1>1, BoxAt
        <3> QED BY <2>3, <3>2, <3>3
    <2> QED BY <2>1, <2>2, <2>3
<1> QED BY <1>4, <1>6 DEF Moves, bs2

LEMMA FrontOf ==
    ASSUME NEW S, NEW s \in Seq(S), Len(s) \in 1 .. Len(s)
    PROVE  /\ Front(s) \in Seq(S) /\ Len(Front(s)) = Len(s) - 1
           /\ \A i \in 1 .. Len(s) - 1 : i \in 1 .. Len(s) /\ Front(s)[i] = s[i]
<1> DEFINE m == Len(s) - 1
           f == SubSeq(s, 1, m)
<1>1. m \in Int /\ m \in Nat /\ \A i \in 1 .. m : i \in 1 .. Len(s) /\ s[i] \in S
    <2>1. Len(s) \in Nat /\ \A i \in 1 .. Len(s) : s[i] \in S
        BY ElementOfSeq
    <2>2. m \in Int /\ m \in Nat /\ \A i \in 1 .. m : i \in 1 .. Len(s)
        <3> DEFINE l == Len(s)
        <3>1. l \in Nat /\ l \in 1 .. l
            BY <2>1
        <3> HIDE DEF l
        <3>2. l - 1 \in Nat /\ l - 1 \in Int /\ \A i \in 1 .. l - 1 : i \in 1 .. l
            BY <3>1
        <3> QED BY <3>2 DEF l
    <2> QED BY <2>1, <2>2
<1>3. Front(s) = f
    BY DEF Front
<1> HIDE DEF f, m
<1>2. (IF 1 <= m THEN m - 1 + 1 ELSE 0) = m /\ m - 1 + 1 = m /\ \A i \in 1 .. m : 1 + i - 1 = i
    BY <1>1
<1>4. /\ f \in Seq(S) /\ Len(f) = (IF 1 <= m THEN m - 1 + 1 ELSE 0)
      /\ \A i \in 1 .. m - 1 + 1 : f[i] = s[1 + i - 1]
    BY <1>1, SubSeqProperties, 1 \in Int DEF f
<1> QED BY <1>1, <1>2, <1>3, <1>4 DEF m

\* A box is removed: the last one takes its place.
LEMMA BoxRemoved ==
    ASSUME NEW bs \in Arrays, NEW k \in 1 .. Len(bs)
    PROVE  /\ RemoveAssetBox(bs, k) \in Arrays
           /\ Moves(bs, RemoveAssetBox(bs, k), bs[k].amountOrTokenId, 0 - bs[k].numberOfCards)
<1> DEFINE bs2 == RemoveAssetBox(bs, k)
           n == Len(bs)
<1>1. bs \in Seq(Box) /\ n \in Nat /\ n \in 1 .. n /\ bs \in [1 .. n -> Box]
    BY DEF Arrays
<1>2. /\ bs2 \in Seq(Box) /\ Len(bs2) = n - 1
      /\ \A i \in 1 .. n - 1 : bs2[i] = IF i = k THEN bs[n] ELSE bs[i]
    <2>1. CASE k = n
        <3>1. bs2 = Front(bs)
            BY <2>1 DEF RemoveAssetBox
        <3>2. \A i \in 1 .. n - 1 : i # k
            BY <2>1
        <3> QED BY <1>1, <3>1, <3>2, FrontOf
    <2>2. CASE k # n
        <3> DEFINE moved == [bs EXCEPT ![k] = bs[n]]
        <3>1. moved \in [1 .. n -> Box] /\ \A i \in 1 .. n : moved[i] = IF i = k THEN bs[n] ELSE bs[i]
            BY <1>1
        <3>2. bs2 = Front(moved)
            BY <2>2 DEF RemoveAssetBox, Last
        <3> HIDE DEF moved, bs2, n
        <3>3. moved \in Seq(Box) /\ Len(moved) = n
            BY <3>1, <1>1
        <3>4. bs2 \in Seq(Box) /\ Len(bs2) = n - 1 /\ \A i \in 1 .. n - 1 : i \in 1 .. n /\ bs2[i] = moved[i]
            BY <1>1, <3>2, <3>3, FrontOf
        <3> QED BY <3>1, <3>4
    <2> QED BY <2>1, <2>2
<1> HIDE DEF bs2, n
<1>3. bs2 \in Arrays
    <2>1. ASSUME NEW i \in 1 .. n - 1, NEW j \in 1 .. n - 1, bs2[i].amountOrTokenId = bs2[j].amountOrTokenId
          PROVE  i = j
        BY <1>1, <1>2, <2>1 DEF Arrays, Unique, n
    <2> QED BY <2>1, <1>2 DEF Arrays, Unique
<1>4. ASSUME NEW a \in Amounts
      PROVE  CardsOf(bs2, a) = CardsOf(bs, a) + (IF a = bs[k].amountOrTokenId THEN 0 - bs[k].numberOfCards ELSE 0)
    <2>1. CASE a = bs[k].amountOrTokenId
        <3>1. \A i \in 1 .. n - 1 : bs2[i].amountOrTokenId # a
            BY <2>1, <1>1, <1>2 DEF Arrays, Unique, n
        <3>2. CardsOf(bs2, a) = 0 /\ CardsOf(bs, a) = bs[k].numberOfCards
            BY <2>1, <3>1, <1>2, <1>3, NoBox, OneBox
        <3>3. bs[k].numberOfCards \in Nat
            BY <1>1, BoxAt
        <3> QED BY <2>1, <3>2, <3>3
    <2>2. CASE \A i \in 1 .. n : bs[i].amountOrTokenId # a
        <3>1. \A i \in 1 .. n - 1 : bs2[i].amountOrTokenId # a
            BY <2>2, <1>1, <1>2
        <3>2. CardsOf(bs2, a) = 0 /\ CardsOf(bs, a) = 0
            BY <2>2, <3>1, <1>2, <1>3, NoBox DEF n
        <3> QED BY <2>2, <3>2 DEF n
    <2>3. CASE a # bs[k].amountOrTokenId /\ \E i \in 1 .. n : bs[i].amountOrTokenId = a
        <3>1. PICK i \in 1 .. n : bs[i].amountOrTokenId = a
            BY <2>3
        <3>2. PICK j \in 1 .. n - 1 : bs2[j] = bs[i]
            <4>1. CASE i = n
                BY <4>1, <2>3, <3>1, <1>1, <1>2 DEF n
            <4>2. CASE i # n
                BY <4>2, <2>3, <3>1, <1>1, <1>2
            <4> QED BY <4>1, <4>2
        <3>3. CardsOf(bs, a) = bs[i].numberOfCards /\ CardsOf(bs2, a) = bs[i].numberOfCards
            BY <3>1, <3>2, <1>2, <1>3, OneBox DEF n
        <3>4. bs[i].numberOfCards \in Nat
            BY <1>1, BoxAt DEF n
        <3> QED BY <2>3, <3>3, <3>4
    <2> QED BY <2>1, <2>2, <2>3 DEF n
<1> QED BY <1>3, <1>4 DEF Moves, bs2

\* One turn of the deposit loop.
LEMMA DepositTurn ==
    ASSUME NEW bs \in Arrays, NEW box \in Box
    PROVE  /\ UpdateOrAddBox(bs, box) \in Arrays
           /\ Moves(bs, UpdateOrAddBox(bs, box), box.amountOrTokenId, box.numberOfCards)
<1> DEFINE a == box.amountOrTokenId
<1>1. box.numberOfCards \in Nat /\ a \in Amounts
    BY DEF Box
<1>2. CASE \A k \in 1 .. Len(bs) : bs[k].amountOrTokenId # a
    BY <1>1, <1>2, NoBox, BoxAdded DEF UpdateOrAddBox
<1>3. CASE \E k \in 1 .. Len(bs) : bs[k].amountOrTokenId = a
    <2>1. PICK k \in 1 .. Len(bs) : bs[k].amountOrTokenId = a
        BY <1>3
    <2>2. bs[k].numberOfCards \in Nat /\ k # 0
        BY BoxAt DEF Arrays
    <2>3. FindBox(bs, a) = k
        BY <2>1, OneBox
    <2> DEFINE n == bs[k].numberOfCards + box.numberOfCards
    <2>4. UpdateOrAddBox(bs, box) = [bs EXCEPT ![k].numberOfCards = n]
        BY <2>2, <2>3 DEF UpdateOrAddBox
    <2>5. n \in Nat /\ n - bs[k].numberOfCards = box.numberOfCards
        BY <1>1, <2>2
    <2> HIDE DEF n
    <2> QED BY <2>1, <2>4, <2>5, NumberChanges
<1> QED BY <1>2, <1>3

\* One turn of the withdrawal loop, when it does not revert.
LEMMA WithdrawTurn ==
    ASSUME NEW bs \in Arrays, NEW box \in Box, Withdrawable(bs, box)
    PROVE  /\ TakeCards(bs, box) \in Arrays
           /\ Moves(bs, TakeCards(bs, box), box.amountOrTokenId, 0 - box.numberOfCards)
<1> DEFINE a == box.amountOrTokenId
<1>1. box.numberOfCards \in Nat /\ a \in Amounts
    BY DEF Box
<1>2. FindBox(bs, a) # 0
    BY DEF Withdrawable
<1>3. PICK k \in 1 .. Len(bs) : bs[k].amountOrTokenId = a
    BY <1>1, <1>2, NoBox
<1>4. FindBox(bs, a) = k
    BY <1>3, OneBox
<1>5. bs[k].numberOfCards \in Nat /\ bs[k].numberOfCards >= box.numberOfCards
    BY <1>4, BoxAt DEF Arrays, Withdrawable
<1>6. CASE bs[k].numberOfCards = box.numberOfCards
    BY <1>3, <1>4, <1>6, BoxRemoved DEF TakeCards
<1>7. CASE bs[k].numberOfCards # box.numberOfCards
    <2> DEFINE n == bs[k].numberOfCards - box.numberOfCards
    <2>1. TakeCards(bs, box) = [bs EXCEPT ![k].numberOfCards = n]
        BY <1>4, <1>7 DEF TakeCards
    <2>2. n \in Nat /\ n - bs[k].numberOfCards = 0 - box.numberOfCards
        BY <1>1, <1>5
    <2> HIDE DEF n
    <2> QED BY <1>3, <2>1, <2>2, NumberChanges
<1> QED BY <1>6, <1>7

\* A card is drawn from a box that has one.
LEMMA DrawTurn ==
    ASSUME NEW bs \in Arrays, NEW k \in 1 .. Len(bs), bs[k].numberOfCards > 0
    PROVE  /\ UpdateAssetBox(bs, k) \in Arrays
           /\ Moves(bs, UpdateAssetBox(bs, k), bs[k].amountOrTokenId, 0 - 1)
<1>1. bs[k].numberOfCards \in Nat
    BY BoxAt DEF Arrays
<1>2. CASE bs[k].numberOfCards > 1
    <2> DEFINE n == bs[k].numberOfCards - 1
    <2>1. UpdateAssetBox(bs, k) = [bs EXCEPT ![k].numberOfCards = n]
        BY <1>2 DEF UpdateAssetBox
    <2>2. n \in Nat /\ n - bs[k].numberOfCards = 0 - 1
        BY <1>1, <1>2
    <2> HIDE DEF n
    <2> QED BY <2>1, <2>2, NumberChanges
<1>3. CASE ~ (bs[k].numberOfCards > 1)
    <2>1. bs[k].numberOfCards = 1
        BY <1>1, <1>3
    <2> QED BY <1>3, <2>1, BoxRemoved DEF UpdateAssetBox
<1> QED BY <1>2, <1>3

-----------------------------------------------------------------------------
(* The loops, turn by turn.                                                *)

\* The cards of amount a in the first i boxes of a list.
ListedUpto(list, a, i) == {k \in 1 .. i : list[k].amountOrTokenId = a}
CardsUpto(list, a, i) == Total(NumberOf(list), ListedUpto(list, a, i))

LEMMA CardsUptoTurn ==
    ASSUME NEW list \in Seq(Box), NEW a \in Amounts
    PROVE  /\ CardsUpto(list, a, 0) = 0
           /\ CardsUpto(list, a, Len(list)) = CardsIn(list)[a]
           /\ \A i \in 1 .. Len(list) :
                  /\ CardsUpto(list, a, i - 1) \in Nat
                  /\ CardsUpto(list, a, i) = CardsUpto(list, a, i - 1)
                         + (IF a = list[i].amountOrTokenId THEN list[i].numberOfCards ELSE 0)
<1> DEFINE n == Len(list)
<1>1. n \in Nat /\ DOMAIN list = 1 .. n
    OBVIOUS
<1>2. CardsUpto(list, a, 0) = 0
    <2>1. ListedUpto(list, a, 0) = {}
        BY DEF ListedUpto
    <2> QED BY <2>1, TotalOfNone DEF CardsUpto
<1>3. CardsUpto(list, a, n) = CardsIn(list)[a]
    <2>1. ListedUpto(list, a, n) = BoxesOf(list, a)
        BY <1>1 DEF ListedUpto, BoxesOf
    <2> QED BY <2>1, CardsInIsCardsOf DEF CardsUpto, CardsOf
<1>4. ASSUME NEW i \in 1 .. n
      PROVE  /\ CardsUpto(list, a, i - 1) \in Nat
             /\ CardsUpto(list, a, i) = CardsUpto(list, a, i - 1)
                    + (IF a = list[i].amountOrTokenId THEN list[i].numberOfCards ELSE 0)
    <2> DEFINE S == ListedUpto(list, a, i - 1)
    <2>1. 1 .. i - 1 \subseteq 1 .. n /\ i \notin 1 .. i - 1 /\ 1 .. i = (1 .. i - 1) \cup {i}
        BY <1>1
    <2>2. \A k \in 1 .. n : NumberOf(list)[k] = list[k].numberOfCards /\ NumberOf(list)[k] \in Nat
        BY BoxAt DEF NumberOf
    <2>3. S \subseteq 1 .. i - 1 /\ S \subseteq 1 .. n /\ i \notin S
        BY <2>1 DEF ListedUpto
    <2>4. IsFiniteSet(S)
        <3>1. IsFiniteSet(1 .. n)
            BY <1>1, FS_Interval, 1 \in Int
        <3> QED BY <2>3, <3>1, FS_Subset
    <2>5. Total(NumberOf(list), S) \in Nat
        BY <2>2, <2>3, <2>4, TotalType
    <2>6. CASE a = list[i].amountOrTokenId
        <3>1. ListedUpto(list, a, i) = S \cup {i}
            BY <2>1, <2>6 DEF ListedUpto
        <3>2. \A k \in S \cup {i} : NumberOf(list)[k] \in Nat
            BY <2>2, <2>3
        <3>3. Total(NumberOf(list), S \cup {i}) = Total(NumberOf(list), S) + NumberOf(list)[i]
            BY <2>3, <2>4, <3>2, TotalOneMore
        <3> QED BY <2>2, <2>5, <2>6, <3>1, <3>3 DEF CardsUpto
    <2>7. CASE a # list[i].amountOrTokenId
        <3>1. ListedUpto(list, a, i) = S
            BY <2>1, <2>7 DEF ListedUpto
        <3> QED BY <2>5, <2>7, <3>1 DEF CardsUpto
    <2> QED BY <2>6, <2>7
<1> QED BY <1>2, <1>3, <1>4

\* What the deposit loop returns: the cards of the list are added.
LEMMA DepositLoop ==
    ASSUME NEW bs \in Arrays, NEW list \in Seq(Box)
    PROVE  LET bs2 == Deposited(bs, list)[Len(list)]
           IN  /\ bs2 \in Arrays
               /\ \A a \in Amounts : CardsOf(bs2, a) = CardsOf(bs, a) + CardsIn(list)[a]
<1> DEFINE n == Len(list)
           Equation(g) == g = [i \in 0 .. n |-> IF i = 0 THEN bs ELSE UpdateOrAddBox(g[i - 1], list[i])]
           turn == [p \in (1 .. n) \X Arrays |-> UpdateOrAddBox(p[2], list[p[1]])]
           after == Deposited(bs, list)
<1>1. n \in Nat /\ \A i \in 1 .. n : list[i] \in Box
    OBVIOUS
<1>2. turn \in Steps(n, Arrays)
    BY <1>1, DepositTurn DEF Steps
<1>3. PICK f : Follows(f, n, Arrays, bs, turn)
    <2> HIDE DEF turn, n
    <2> QED BY <1>1, <1>2, RecursionExists
<1>4. \A i \in 1 .. n : i - 1 \in 0 .. n /\ f[i - 1] \in Arrays /\ f[i] = UpdateOrAddBox(f[i - 1], list[i])
    <2>1. ASSUME NEW i \in 1 .. n
          PROVE  i - 1 \in 0 .. n /\ f[i - 1] \in Arrays /\ f[i] = UpdateOrAddBox(f[i - 1], list[i])
        <3>1. i - 1 \in 0 .. n
            BY <1>1
        <3>2. f[i - 1] \in Arrays
            BY <1>3, <3>1 DEF Follows
        <3>3. <<i, f[i - 1]>> \in (1 .. n) \X Arrays
            BY <3>2
        <3>4. turn[<<i, f[i - 1]>>] = UpdateOrAddBox(f[i - 1], list[i])
            BY <3>3
        <3> QED BY <1>3, <3>1, <3>2, <3>4 DEF Follows
    <2> QED BY <2>1
<1>5. Equation(f)
    <2>1. \A i \in 0 .. n : i = 0 \/ i \in 1 .. n
        BY <1>1
    <2> HIDE DEF turn, n
    <2> QED BY <1>3, <1>4, <2>1 DEF Follows
<1>6. after = CHOOSE g : Equation(g)
    BY DEF Deposited
<1>7. Equation(after)
    <2> HIDE DEF Equation, after
    <2> QED BY <1>5, <1>6
<1> DEFINE Right == {i \in 0 .. n : /\ after[i] \in Arrays
                                     /\ \A a \in Amounts : CardsOf(after[i], a) = CardsOf(bs, a) + CardsUpto(list, a, i)}
<1>8. after[0] = bs /\ \A i \in 1 .. n : after[i] = UpdateOrAddBox(after[i - 1], list[i])
    <2>1. \A i \in 0 .. n : after[i] = IF i = 0 THEN bs ELSE UpdateOrAddBox(after[i - 1], list[i])
        <3> HIDE DEF after, n
        <3> QED BY <1>7, Zenon
    <2>2. 0 \in 0 .. n /\ \A i \in 1 .. n : i \in 0 .. n /\ i # 0
        BY <1>1
    <2> HIDE DEF after, Equation, n
    <2> QED BY <2>1, <2>2
<1> HIDE DEF after, Equation, turn
<1>9. \A a \in Amounts : CardsOf(bs, a) \in Nat
    BY CardsInIsCardsOf DEF Arrays
<1>10. 0 \in Right
    BY <1>1, <1>8, <1>9, CardsUptoTurn
<1>11. ASSUME NEW i \in 1 .. n, i - 1 \in Right
       PROVE  i \in Right
    <2>1. after[i - 1] \in Arrays /\ list[i] \in Box
        BY <1>1, <1>11
    <2>2. after[i] \in Arrays /\ Moves(after[i - 1], after[i], list[i].amountOrTokenId, list[i].numberOfCards)
        BY <1>8, <2>1, DepositTurn
    <2>3. ASSUME NEW a \in Amounts
          PROVE  CardsOf(after[i], a) = CardsOf(bs, a) + CardsUpto(list, a, i)
        <3>1. CardsOf(after[i - 1], a) = CardsOf(bs, a) + CardsUpto(list, a, i - 1)
            BY <1>11
        <3>2. CardsOf(after[i], a) = CardsOf(after[i - 1], a) + (IF a = list[i].amountOrTokenId THEN list[i].numberOfCards ELSE 0)
            BY <2>2 DEF Moves
        <3>3. list[i].numberOfCards \in Nat
            BY <2>1 DEF Box
        <3>4. /\ CardsUpto(list, a, i - 1) \in Nat
              /\ CardsUpto(list, a, i) = CardsUpto(list, a, i - 1)
                         + (IF a = list[i].amountOrTokenId THEN list[i].numberOfCards ELSE 0)
            BY CardsUptoTurn
        <3> QED BY <1>9, <3>1, <3>2, <3>3, <3>4
    <2>4. i \in 0 .. n
        BY <1>1
    <2> QED BY <2>2, <2>3, <2>4
<1>12. \A i \in 0 .. n : i \in Right
    <2> HIDE DEF Right, n
    <2> QED BY <1>1, <1>10, <1>11, Induction
<1>13. n \in Right
    BY <1>1, <1>12
<1> QED BY <1>13, CardsUptoTurn DEF after

\* What the withdrawal loop returns unless it reverts: the cards of the list
\* were there and are taken away.
LEMMA WithdrawLoop ==
    ASSUME NEW bs \in Arrays, NEW list \in Seq(Box), NEW bs2 \in Withdrawn(bs, list)[Len(list)]
    PROVE  /\ bs2 \in Arrays
           /\ \A a \in Amounts : /\ CardsIn(list)[a] <= CardsOf(bs, a)
                                 /\ CardsOf(bs2, a) = CardsOf(bs, a) - CardsIn(list)[a]
<1> DEFINE n == Len(list)
           Taken(S, i) == {TakeCards(b, list[i]) : b \in {c \in S : Withdrawable(c, list[i])}}
           Equation(g) == g = [i \in 0 .. n |-> IF i = 0 THEN {bs} ELSE Taken(g[i - 1], i)]
           turn == [p \in (1 .. n) \X SUBSET Arrays |-> Taken(p[2], p[1])]
           left == Withdrawn(bs, list)
<1>1. n \in Nat /\ \A i \in 1 .. n : list[i] \in Box
    OBVIOUS
<1>2. ASSUME NEW i \in 1 .. n, NEW S \in SUBSET Arrays
      PROVE  Taken(S, i) \in SUBSET Arrays
    BY <1>1, WithdrawTurn
<1>3. left = CHOOSE g : Equation(g)
    BY DEF Withdrawn
<1> HIDE DEF Taken, left
<1>4. turn \in Steps(n, SUBSET Arrays)
    BY <1>2 DEF Steps
<1>5. PICK f : Follows(f, n, SUBSET Arrays, {bs}, turn)
    <2>1. {bs} \in SUBSET Arrays
        OBVIOUS
    <2> HIDE DEF turn, n
    <2> QED BY <1>1, <1>4, <2>1, RecursionExists
<1>6. \A i \in 1 .. n : i - 1 \in 0 .. n /\ f[i] = Taken(f[i - 1], i)
    <2>1. ASSUME NEW i \in 1 .. n
          PROVE  i - 1 \in 0 .. n /\ f[i] = Taken(f[i - 1], i)
        <3>1. i - 1 \in 0 .. n
            BY <1>1
        <3>2. f[i - 1] \in SUBSET Arrays
            BY <1>5, <3>1 DEF Follows
        <3>3. <<i, f[i - 1]>> \in (1 .. n) \X SUBSET Arrays
            BY <3>2
        <3>4. turn[<<i, f[i - 1]>>] = Taken(f[i - 1], i)
            BY <3>3
        <3> QED BY <1>5, <3>1, <3>4 DEF Follows
    <2> QED BY <2>1
<1>7. Equation(f)
    <2>1. \A i \in 0 .. n : i = 0 \/ i \in 1 .. n
        BY <1>1
    <2> HIDE DEF turn, n
    <2> QED BY <1>5, <1>6, <2>1 DEF Follows
<1>8. Equation(left)
    <2> HIDE DEF Equation
    <2> QED BY <1>3, <1>7
<1>9. left[0] = {bs} /\ \A i \in 1 .. n : left[i] = Taken(left[i - 1], i)
    <2>1. \A i \in 0 .. n : left[i] = IF i = 0 THEN {bs} ELSE Taken(left[i - 1], i)
        <3> HIDE DEF n
        <3> QED BY <1>8, Zenon
    <2>2. 0 \in 0 .. n /\ \A i \in 1 .. n : i \in 0 .. n /\ i # 0
        BY <1>1
    <2> HIDE DEF Equation, n
    <2> QED BY <2>1, <2>2
<1> DEFINE Right == {i \in 0 .. n : \A b \in left[i] :
                        /\ b \in Arrays
                        /\ \A a \in Amounts : CardsOf(b, a) = CardsOf(bs, a) - CardsUpto(list, a, i)}
<1> HIDE DEF Equation, turn
<1>10. \A a \in Amounts : CardsOf(bs, a) \in Nat
    BY CardsInIsCardsOf DEF Arrays
<1>11. 0 \in Right
    BY <1>1, <1>9, <1>10, CardsUptoTurn
<1>12. ASSUME NEW i \in 1 .. n, i - 1 \in Right
       PROVE  i \in Right
    <2>1. ASSUME NEW b2 \in left[i]
          PROVE  /\ b2 \in Arrays
                 /\ \A a \in Amounts : CardsOf(b2, a) = CardsOf(bs, a) - CardsUpto(list, a, i)
        <3>1. PICK b \in left[i - 1] : Withdrawable(b, list[i]) /\ b2 = TakeCards(b, list[i])
            BY <1>9, <2>1 DEF Taken
        <3>2. b \in Arrays /\ list[i] \in Box
            BY <1>1, <1>12
        <3>3. b2 \in Arrays /\ Moves(b, b2, list[i].amountOrTokenId, 0 - list[i].numberOfCards)
            BY <3>1, <3>2, WithdrawTurn
        <3>4. ASSUME NEW a \in Amounts
              PROVE  CardsOf(b2, a) = CardsOf(bs, a) - CardsUpto(list, a, i)
            <4>1. CardsOf(b, a) = CardsOf(bs, a) - CardsUpto(list, a, i - 1)
                BY <1>12
            <4>2. CardsOf(b2, a) = CardsOf(b, a) + (IF a = list[i].amountOrTokenId THEN 0 - list[i].numberOfCards ELSE 0)
                BY <3>3 DEF Moves
            <4>3. list[i].numberOfCards \in Nat
                BY <3>2 DEF Box
            <4>4. /\ CardsUpto(list, a, i - 1) \in Nat
                  /\ CardsUpto(list, a, i) = CardsUpto(list, a, i - 1)
                         + (IF a = list[i].amountOrTokenId THEN list[i].numberOfCards ELSE 0)
                BY CardsUptoTurn
            <4> QED BY <1>10, <4>1, <4>2, <4>3, <4>4
        <3> QED BY <3>3, <3>4
    <2>2. i \in 0 .. n
        BY <1>1
    <2> QED BY <2>1, <2>2
<1>13. \A i \in 0 .. n : i \in Right
    <2> HIDE DEF Right, n
    <2> QED BY <1>1, <1>11, <1>12, Induction
<1>14. n \in Right
    BY <1>1, <1>13
<1>15. bs2 \in Arrays /\ \A a \in Amounts : CardsOf(bs2, a) = CardsOf(bs, a) - CardsIn(list)[a]
    BY <1>14, CardsUptoTurn DEF left
<1>16. \A a \in Amounts : CardsOf(bs2, a) \in Nat /\ CardsIn(list)[a] \in Nat
    BY <1>15, CardsInIsCardsOf DEF Arrays
<1> QED BY <1>10, <1>15, <1>16

-----------------------------------------------------------------------------
(* Laying the cards out.                                                   *)

\* Each box adds its cards to those before it.
LEMMA LayoutTurn ==
    ASSUME NEW bs \in Seq(Box)
    PROVE  /\ CumulativeCards(bs)[0] = 0
           /\ \A i \in 0 .. Len(bs) : CumulativeCards(bs)[i] \in Nat
           /\ \A i \in 1 .. Len(bs) :
                  /\ i - 1 \in 0 .. Len(bs)
                  /\ CumulativeCards(bs)[i] = CumulativeCards(bs)[i - 1] + bs[i].numberOfCards
<1> DEFINE n == Len(bs)
           Equation(g) == g = [i \in 0 .. n |-> IF i = 0 THEN 0 ELSE g[i - 1] + bs[i].numberOfCards]
           turn == [p \in (1 .. n) \X Nat |-> p[2] + bs[p[1]].numberOfCards]
           upTo == CumulativeCards(bs)
<1>1. n \in Nat /\ \A i \in 1 .. n : bs[i].numberOfCards \in Nat
    BY BoxAt
<1>2. upTo = CHOOSE g : Equation(g)
    BY DEF CumulativeCards
<1> HIDE DEF upTo
<1>3. turn \in Steps(n, Nat)
    BY <1>1 DEF Steps
<1>4. PICK f : Follows(f, n, Nat, 0, turn)
    <2> HIDE DEF turn, n
    <2> QED BY <1>1, <1>3, RecursionExists
<1>5. \A i \in 1 .. n : i - 1 \in 0 .. n /\ f[i] = f[i - 1] + bs[i].numberOfCards
    <2>1. ASSUME NEW i \in 1 .. n
          PROVE  i - 1 \in 0 .. n /\ f[i] = f[i - 1] + bs[i].numberOfCards
        <3>1. i - 1 \in 0 .. n
            BY <1>1
        <3>2. f[i - 1] \in Nat
            BY <1>4, <3>1 DEF Follows
        <3>3. <<i, f[i - 1]>> \in (1 .. n) \X Nat
            BY <3>2
        <3>4. turn[<<i, f[i - 1]>>] = f[i - 1] + bs[i].numberOfCards
            BY <3>3
        <3> QED BY <1>4, <3>1, <3>4 DEF Follows
    <2> QED BY <2>1
<1>6. Equation(f)
    <2>1. \A i \in 0 .. n : i = 0 \/ i \in 1 .. n
        BY <1>1
    <2> HIDE DEF turn, n
    <2> QED BY <1>4, <1>5, <2>1 DEF Follows
<1>7. Equation(upTo)
    <2> HIDE DEF Equation
    <2> QED BY <1>2, <1>6
<1>8. \A i \in 0 .. n : upTo[i] = IF i = 0 THEN 0 ELSE upTo[i - 1] + bs[i].numberOfCards
    <2> HIDE DEF n
    <2> QED BY <1>7, Zenon
<1>9. 0 \in 0 .. n /\ \A i \in 1 .. n : i \in 0 .. n /\ i # 0 /\ i - 1 \in 0 .. n
    BY <1>1
<1> HIDE DEF Equation, turn, n
<1>10. upTo[0] = 0 /\ \A i \in 1 .. n : upTo[i] = upTo[i - 1] + bs[i].numberOfCards
    BY <1>8, <1>9
<1> DEFINE P == {i \in 0 .. n : upTo[i] \in Nat}
<1>11. 0 \in P
    BY <1>9, <1>10
<1>12. ASSUME NEW i \in 1 .. n, i - 1 \in P
       PROVE  i \in P
    BY <1>1, <1>9, <1>10, <1>12
<1>13. \A i \in 0 .. n : i \in P
    <2> HIDE DEF P
    <2> QED BY <1>1, <1>11, <1>12, Induction
<1> QED BY <1>9, <1>10, <1>13 DEF upTo, n

\* So a later box ends where an earlier one does, or after it.
LEMMA LayoutGrows ==
    ASSUME NEW bs \in Seq(Box), NEW i \in 0 .. Len(bs)
    PROVE  \A j \in 0 .. Len(bs) : i <= j => CumulativeCards(bs)[i] <= CumulativeCards(bs)[j]
<1> DEFINE n == Len(bs)
           upTo == CumulativeCards(bs)
           P == {j \in 0 .. n : i <= j => upTo[i] <= upTo[j]}
<1>1. n \in Nat /\ \A j \in 1 .. n : bs[j].numberOfCards \in Nat
    BY BoxAt
<1>2. /\ \A j \in 0 .. n : upTo[j] \in Nat
      /\ \A j \in 1 .. n : j - 1 \in 0 .. n /\ upTo[j] = upTo[j - 1] + bs[j].numberOfCards
    BY LayoutTurn
<1> HIDE DEF upTo
<1>3. 0 \in P
    BY <1>1, <1>2
<1>4. ASSUME NEW j \in 1 .. n, j - 1 \in P
      PROVE  j \in P
    <2>1. j \in 0 .. n /\ j \in Int
        BY <1>1
    <2>2. upTo[i] \in Nat /\ upTo[j - 1] \in Nat /\ upTo[j] = upTo[j - 1] + bs[j].numberOfCards /\ bs[j].numberOfCards \in Nat
        BY <1>1, <1>2
    <2>3. i = j \/ i <= j - 1 \/ ~ (i <= j)
        BY <2>1
    <2>4. i <= j - 1 => upTo[i] <= upTo[j - 1]
        BY <1>4
    <2> QED BY <2>1, <2>2, <2>3, <2>4
<1>5. \A j \in 0 .. n : j \in P
    <2> HIDE DEF P, n
    <2> QED BY <1>1, <1>3, <1>4, Induction
<1> QED BY <1>5 DEF upTo

-----------------------------------------------------------------------------
(* Drawing a card.                                                         *)

\* The box drawn is where the card is, and so has a card.
LEMMA BoxDrawn ==
    ASSUME NEW bs \in Seq(Box), TotalCards(bs) > 0, NEW word \in Nat
    PROVE  LET k == RandomBoxIndex(bs, word)
               card == word % TotalCards(bs)
           IN  /\ k \in 1 .. Len(bs)
               /\ CumulativeCards(bs)[k - 1] <= card /\ card < CumulativeCards(bs)[k]
               /\ bs[k].numberOfCards > 0
<1> DEFINE n == Len(bs)
           upTo == CumulativeCards(bs)
           card == word % TotalCards(bs)
           Chosen(i) == /\ card < upTo[i]
                        /\ \A j \in 1 .. i - 1 : card >= upTo[j]
           k == RandomBoxIndex(bs, word)
           Beyond == {i \in 1 .. n : card < upTo[i]}
<1>1. n \in Nat /\ n \in 0 .. n /\ DOMAIN bs = 1 .. n
    OBVIOUS
<1>2. /\ upTo[0] = 0
      /\ \A i \in 0 .. n : upTo[i] \in Nat
      /\ \A i \in 1 .. n : i - 1 \in 0 .. n /\ upTo[i] = upTo[i - 1] + bs[i].numberOfCards
    BY LayoutTurn
<1>3. TotalCards(bs) = upTo[n]
    BY DEF TotalCards
<1>4. k = CHOOSE i \in 1 .. n : Chosen(i)
    BY <1>1 DEF RandomBoxIndex
<1> HIDE DEF upTo, k, n
<1>5. card \in Nat /\ card < upTo[n]
    BY <1>1, <1>2, <1>3
<1> HIDE DEF card
<1>6. n \in Beyond
    <2>1. n # 0
        BY <1>2, <1>5
    <2> QED BY <1>1, <1>5, <2>1
<1>7. PICK m \in Beyond : \A i \in Beyond : m <= i
    <2>1. Beyond \in SUBSET Nat /\ Beyond # {}
        BY <1>1, <1>6
    <2> HIDE DEF Beyond
    <2> QED BY <2>1, LeastNumber
<1>8. Chosen(m)
    <2>1. ASSUME NEW j \in 1 .. m - 1
          PROVE  card >= upTo[j]
        <3>1. j \in 1 .. n /\ ~ (m <= j) /\ j \in 0 .. n
            BY <1>1, <1>7
        <3>2. ~ (card < upTo[j])
            BY <1>7, <3>1
        <3> QED BY <1>2, <1>5, <3>1, <3>2
    <2> QED BY <1>7, <2>1
<1>9. k \in 1 .. n /\ Chosen(k)
    <2> HIDE DEF Chosen
    <2> QED BY <1>4, <1>7, <1>8
<1>10. upTo[k - 1] <= card
    <2>1. CASE k = 1
        BY <2>1, <1>2, <1>5
    <2>2. CASE k # 1
        <3>1. k - 1 \in 1 .. k - 1 /\ k - 1 \in 0 .. n
            BY <1>1, <1>9, <2>2
        <3> QED BY <1>2, <1>5, <1>9, <3>1
    <2> QED BY <2>1, <2>2
<1>11. bs[k].numberOfCards > 0
    <2>1. bs[k].numberOfCards \in Nat
        BY <1>9, BoxAt DEF n
    <2>2. k - 1 \in 0 .. n /\ k \in 0 .. n
        BY <1>1, <1>9
    <2>3. upTo[k - 1] \in Nat /\ upTo[k] \in Nat /\ upTo[k] = upTo[k - 1] + bs[k].numberOfCards
        BY <1>2, <1>9, <2>2
    <2> QED BY <1>5, <1>9, <1>10, <2>1, <2>3
<1> QED BY <1>9, <1>10, <1>11 DEF k, upTo, card, n

\* The words that draw box k are as many as it has cards.
LEMMA WordsOfBox ==
    ASSUME NEW bs \in Seq(Box), TotalCards(bs) > 0, NEW k \in 1 .. Len(bs)
    PROVE  Cardinality({word \in 0 .. TotalCards(bs) - 1 : RandomBoxIndex(bs, word) = k}) = bs[k].numberOfCards
<1> DEFINE n == Len(bs)
           upTo == CumulativeCards(bs)
           total == TotalCards(bs)
           WordsOf == {word \in 0 .. total - 1 : RandomBoxIndex(bs, word) = k}
<1>1. n \in Nat /\ n \in 0 .. n /\ k - 1 \in 0 .. n /\ k \in 0 .. n
    OBVIOUS
<1>2. /\ \A i \in 0 .. n : upTo[i] \in Nat
      /\ upTo[k] = upTo[k - 1] + bs[k].numberOfCards
    BY LayoutTurn
<1>3. total = upTo[n] /\ total \in Nat
    BY <1>1, <1>2 DEF TotalCards
<1>4. bs[k].numberOfCards \in Nat
    BY BoxAt
<1>5. ASSUME NEW i \in 0 .. n, NEW j \in 0 .. n, i <= j
      PROVE  upTo[i] <= upTo[j]
    BY <1>5, LayoutGrows
<1>6. ASSUME NEW word \in 0 .. total - 1
      PROVE  /\ RandomBoxIndex(bs, word) \in 1 .. n
             /\ upTo[RandomBoxIndex(bs, word) - 1] <= word
             /\ word < upTo[RandomBoxIndex(bs, word)]
    <2>1. word \in Nat /\ word % total = word
        BY <1>3
    <2> QED BY <2>1, BoxDrawn
<1> HIDE DEF upTo, total, n
<1>7. ASSUME NEW word \in 0 .. total - 1
      PROVE  RandomBoxIndex(bs, word) = k <=> word \in upTo[k - 1] .. upTo[k] - 1
    <2> DEFINE r == RandomBoxIndex(bs, word)
    <2>1. r \in 1 .. n /\ upTo[r - 1] <= word /\ word < upTo[r]
        BY <1>6
    <2> HIDE DEF r
    <2>2. r - 1 \in 0 .. n /\ r \in 0 .. n
        BY <2>1, <1>1
    <2>3. word \in Int /\ upTo[k] \in Nat /\ upTo[k - 1] \in Nat /\ upTo[r] \in Nat /\ upTo[r - 1] \in Nat
        BY <1>1, <1>2, <1>3, <2>2
    <2>4. CASE r = k
        BY <2>1, <2>3, <2>4 DEF r
    <2>5. CASE r < k
        <3>1. r <= k - 1
            BY <2>1, <2>5, <1>1
        <3>2. upTo[r] <= upTo[k - 1]
            BY <3>1, <1>1, <2>2, <1>5
        <3> QED BY <2>1, <2>3, <2>5, <3>2 DEF r
    <2>6. CASE k < r
        <3>1. k <= r - 1
            BY <2>1, <2>6, <1>1
        <3>2. upTo[k] <= upTo[r - 1]
            BY <3>1, <1>1, <2>2, <1>5
        <3> QED BY <2>1, <2>3, <2>6, <3>2 DEF r
    <2>7. r = k \/ r < k \/ k < r
        BY <2>1, <1>1
    <2> QED BY <2>4, <2>5, <2>6, <2>7
<1>8. WordsOf = upTo[k - 1] .. upTo[k] - 1
    <2>1. upTo[k] <= total /\ upTo[k] \in Nat /\ upTo[k - 1] \in Nat
        <3>1. k <= n
            BY <1>1 DEF n
        <3> QED BY <1>1, <1>2, <1>3, <1>5, <3>1
    <2>2. \A word \in upTo[k - 1] .. upTo[k] - 1 : word \in 0 .. total - 1
        BY <2>1, <1>3
    <2> QED BY <2>2, <1>7
<1>9. Cardinality(upTo[k - 1] .. upTo[k] - 1) = bs[k].numberOfCards
    <2>1. upTo[k - 1] \in Nat /\ upTo[k] \in Nat
        BY <1>1, <1>2
    <2>2. upTo[k - 1] \in Int /\ upTo[k] - 1 \in Int
        BY <2>1
    <2>3. Cardinality(upTo[k - 1] .. upTo[k] - 1) = IF upTo[k - 1] > upTo[k] - 1 THEN 0 ELSE upTo[k] - 1 - upTo[k - 1] + 1
        BY <2>2, FS_Interval
    <2> QED BY <2>1, <2>3, <1>2, <1>4
<1> QED BY <1>8, <1>9 DEF total

\* The last card of all: no other box has one.
LEMMA LastCard ==
    ASSUME NEW bs \in Seq(Box), TotalCards(bs) = 1
    PROVE  \E k \in 1 .. Len(bs) : /\ bs[k].numberOfCards = 1
                                   /\ \A i \in 1 .. Len(bs) : i # k => bs[i].numberOfCards = 0
<1> DEFINE n == Len(bs)
           upTo == CumulativeCards(bs)
           k == RandomBoxIndex(bs, 0)
<1>1. k \in 1 .. n /\ bs[k].numberOfCards > 0
    BY BoxDrawn
<1>2. n \in Nat /\ n \in 0 .. n /\ \A i \in 1 .. n : i \in 0 .. n /\ i - 1 \in 0 .. n /\ i <= n
    OBVIOUS
<1>3. /\ \A i \in 0 .. n : upTo[i] \in Nat
      /\ \A i \in 1 .. n : upTo[i] = upTo[i - 1] + bs[i].numberOfCards
    BY LayoutTurn
<1>4. upTo[n] = 1
    BY DEF TotalCards
<1>5. ASSUME NEW i \in 0 .. n, NEW j \in 0 .. n, i <= j
      PROVE  upTo[i] <= upTo[j]
    BY <1>5, LayoutGrows
<1>6. \A i \in 1 .. n : bs[i].numberOfCards \in Nat
    BY BoxAt
<1> HIDE DEF n, upTo, k
<1>7. \A i \in 1 .. n : upTo[i] <= 1 /\ upTo[i] \in Nat /\ upTo[i - 1] \in Nat /\ bs[i].numberOfCards <= 1
    BY <1>2, <1>3, <1>4, <1>5, <1>6
<1>8. bs[k].numberOfCards = 1 /\ upTo[k] = 1 /\ upTo[k - 1] = 0
    BY <1>1, <1>3, <1>6, <1>7
<1>9. ASSUME NEW i \in 1 .. n, i # k
      PROVE  bs[i].numberOfCards = 0
    <2>1. CASE i < k
        <3>1. i <= k - 1
            BY <2>1, <1>1, <1>2
        <3>2. upTo[i] <= upTo[k - 1]
            BY <3>1, <1>1, <1>2, <1>5
        <3> QED BY <3>2, <1>3, <1>6, <1>7, <1>8
    <2>2. CASE k < i
        <3>1. k <= i - 1
            BY <2>2, <1>1, <1>2
        <3>2. upTo[k] <= upTo[i - 1]
            BY <3>1, <1>1, <1>2, <1>5
        <3> QED BY <3>2, <1>3, <1>6, <1>7, <1>8
    <2>3. i < k \/ k < i
        BY <1>1, <1>2, <1>9
    <2> QED BY <2>1, <2>2, <2>3
<1> QED BY <1>1, <1>8, <1>9 DEF n

-----------------------------------------------------------------------------
(* The specification.                                                      *)

\* The inductive invariant: no two boxes are of the same amount.
IInv == boxes \in Arrays

\* The cards of each amount, as the refinement mapping has them.
LEMMA CardsByAmount ==
    ASSUME NEW bs \in Arrays
    PROVE  CardsIn(bs) = [a \in Amounts |-> CardsOf(bs, a)]
<1>1. bs \in Seq(Box)
    BY DEF Arrays
<1>2. \A a \in Amounts : CardsIn(bs)[a] = CardsOf(bs, a)
    BY <1>1, CardsInIsCardsOf
<1>3. CardsIn(bs) = [a \in Amounts |-> CardsIn(bs)[a]]
    BY DEF CardsIn
<1> HIDE DEF CardsIn
<1> QED BY <1>2, <1>3

LEMMA NoCards == << >> \in Arrays /\ \A a \in Amounts : CardsOf(<< >>, a) = 0
<1>1. << >> \in Arrays
    BY DEF Arrays, Unique
<1> QED BY <1>1, NoBox

\* A deposit adds the cards of the list, by amount.
LEMMA DepositStep ==
    ASSUME IInv, NEW list \in BoxLists, DepositBoxes(list)
    PROVE  IInv' /\ Map!Add
<1>1. list \in Seq(Box) /\ boxes \in Arrays
    BY AssetBoxesAssumption DEF IInv
<1>2. boxes' \in Arrays /\ \A a \in Amounts : CardsOf(boxes', a) = CardsOf(boxes, a) + CardsIn(list)[a]
    BY <1>1, DepositLoop DEF DepositBoxes
<1>3. \A a \in Amounts : CardsIn(boxes)[a] = CardsOf(boxes, a)
    BY <1>1, CardsByAmount
<1>4. CardsIn(boxes') = [a \in Amounts |-> CardsIn(boxes)[a] + CardsIn(list)[a]]
    BY <1>2, <1>3, CardsByAmount
<1> QED BY <1>2, <1>4 DEF IInv, Map!Add

\* A withdrawal takes the cards of the list away, and they were there.
LEMMA WithdrawStep ==
    ASSUME IInv, NEW list \in BoxLists, WithdrawBoxes(list)
    PROVE  IInv' /\ Map!TakeAway
<1>1. list \in Seq(Box) /\ boxes \in Arrays
    BY AssetBoxesAssumption DEF IInv
<1>2. /\ boxes' \in Arrays
      /\ \A a \in Amounts : /\ CardsIn(list)[a] <= CardsOf(boxes, a)
                            /\ CardsOf(boxes', a) = CardsOf(boxes, a) - CardsIn(list)[a]
    BY <1>1, WithdrawLoop DEF WithdrawBoxes
<1>3. \A a \in Amounts : CardsIn(boxes)[a] = CardsOf(boxes, a)
    BY <1>1, CardsByAmount
<1>4. CardsIn(boxes') = [a \in Amounts |-> CardsIn(boxes)[a] - CardsIn(list)[a]]
    BY <1>2, <1>3, CardsByAmount
<1>5. \A a \in Amounts : CardsIn(list)[a] <= CardsIn(boxes)[a]
    BY <1>2, <1>3
<1> QED BY <1>2, <1>4, <1>5 DEF IInv, Map!TakeAway

\* A draw takes one card of one amount that has some.
LEMMA DrawStep ==
    ASSUME IInv, NEW word \in Words, DrawBox(word)
    PROVE  IInv' /\ Map!Draw
<1>1. /\ word \in Nat /\ boxes \in Arrays /\ boxes \in Seq(Box)
      /\ TotalCards(boxes) > 0
    BY AssetBoxesAssumption DEF IInv, Arrays, DrawBox
<1>2. CASE TotalCards(boxes) = 1
    <2>1. PICK k \in 1 .. Len(boxes) :
              /\ boxes[k].numberOfCards = 1
              /\ \A i \in 1 .. Len(boxes) : i # k => boxes[i].numberOfCards = 0
        BY <1>1, <1>2, LastCard
    <2> DEFINE x == boxes[k].amountOrTokenId
    <2>2. boxes' = << >> /\ boxes' \in Arrays /\ \A a \in Amounts : CardsOf(boxes', a) = 0
        BY <1>2, NoCards DEF DrawBox
    <2>3. x \in Amounts /\ CardsOf(boxes, x) = 1
        BY <1>1, <2>1, BoxAt, OneBox
    <2>4. ASSUME NEW a \in Amounts, a # x
          PROVE  CardsOf(boxes, a) = 0
        <3>1. CASE \A i \in 1 .. Len(boxes) : boxes[i].amountOrTokenId # a
            BY <1>1, <3>1, NoBox
        <3>2. CASE \E i \in 1 .. Len(boxes) : boxes[i].amountOrTokenId = a
            BY <1>1, <2>1, <2>4, <3>2, OneBox
        <3> QED BY <3>1, <3>2
    <2> HIDE DEF x
    <2>5. CardsIn(boxes)[x] > 0
        BY <1>1, <2>3, CardsByAmount
    <2>6. CardsIn(boxes') = [CardsIn(boxes) EXCEPT ![x] = @ - 1]
        BY <1>1, <2>2, <2>3, <2>4, CardsByAmount
    <2> QED BY <2>2, <2>3, <2>5, <2>6 DEF IInv, Map!Draw
<1>3. CASE TotalCards(boxes) # 1
    <2> DEFINE k == RandomBoxIndex(boxes, word)
               x == boxes[k].amountOrTokenId
    <2>1. k \in 1 .. Len(boxes) /\ boxes[k].numberOfCards > 0
        BY <1>1, BoxDrawn
    <2>2. boxes' = UpdateAssetBox(boxes, k)
        BY <1>3 DEF DrawBox
    <2> HIDE DEF k
    <2>3. boxes' \in Arrays /\ Moves(boxes, boxes', x, 0 - 1)
        BY <1>1, <2>1, <2>2, DrawTurn
    <2>4. x \in Amounts /\ CardsOf(boxes, x) > 0
        BY <1>1, <2>1, BoxAt, OneBox
    <2> HIDE DEF x
    <2>5. \A a \in Amounts : CardsOf(boxes, a) \in Nat
        BY <1>1, CardsInIsCardsOf
    <2>6. CardsOf(boxes', x) = CardsOf(boxes, x) - 1 /\ \A a \in Amounts : a # x => CardsOf(boxes', a) = CardsOf(boxes, a)
        BY <2>3, <2>4, <2>5 DEF Moves
    <2>7. CardsIn(boxes)[x] > 0
        BY <1>1, <2>4, CardsByAmount
    <2>8. CardsIn(boxes') = [CardsIn(boxes) EXCEPT ![x] = @ - 1]
        BY <1>1, <2>3, <2>4, <2>6, CardsByAmount
    <2> QED BY <2>3, <2>4, <2>7, <2>8 DEF IInv, Map!Draw
<1> QED BY <1>2, <1>3

\* Every step keeps the inductive invariant and is a step of CardMap.
LEMMA EveryStep ==
    ASSUME IInv, [Next]_boxes
    PROVE  IInv' /\ [Map!Add \/ Map!TakeAway \/ Map!Draw]_(CardsIn(boxes))
<1>1. CASE Next
    BY <1>1, DepositStep, WithdrawStep, DrawStep DEF Next
<1>2. CASE UNCHANGED boxes
    BY <1>2 DEF IInv
<1> QED BY <1>1, <1>2

LEMMA AtFirst == Init => IInv /\ Map!Init
<1> SUFFICES ASSUME Init PROVE IInv /\ Map!Init
    OBVIOUS
<1>1. boxes = << >>
    BY DEF Init
<1>2. CardsIn(boxes) = [a \in Amounts |-> 0]
    BY <1>1, NoCards, CardsByAmount
<1> QED BY <1>1, <1>2, NoCards DEF IInv, Map!Init

\* The array always holds boxes of different amounts.
THEOREM Invariant == Spec => []IInv
<1>1. Init => IInv
    BY AtFirst
<1>2. IInv /\ [Next]_boxes => IInv'
    BY EveryStep
<1> QED BY <1>1, <1>2, PTL DEF Spec

\* An amount has at most one box, whatever was deposited, withdrawn and
\* drawn: _updateOrAddBox merges and _removeAssetBox moves without copying.
THEOREM BoxesAreMerged == Spec => []OneBoxPerAmount
<1>1. IInv => OneBoxPerAmount
    <2> SUFFICES ASSUME IInv, NEW a \in Amounts PROVE Cardinality(BoxesOf(boxes, a)) <= 1
        BY DEF OneBoxPerAmount
    <2>1. boxes \in Arrays
        BY DEF IInv
    <2>2. CASE \A k \in 1 .. Len(boxes) : boxes[k].amountOrTokenId # a
        <3>1. BoxesOf(boxes, a) = {}
            BY <2>1, <2>2, NoBox
        <3>2. Cardinality({}) = 0
            BY FS_EmptySet
        <3> QED BY <3>1, <3>2
    <2>3. CASE \E k \in 1 .. Len(boxes) : boxes[k].amountOrTokenId = a
        <3>1. PICK k \in 1 .. Len(boxes) : boxes[k].amountOrTokenId = a
            BY <2>3
        <3>2. BoxesOf(boxes, a) = {k}
            BY <2>1, <3>1, OneBox
        <3>3. Cardinality({k}) = 1
            BY FS_Singleton
        <3> QED BY <3>2, <3>3
    <2> QED BY <2>2, <2>3
<1> QED BY <1>1, Invariant, PTL

\* Each amount is drawn by exactly as many of the words below the number of
\* cards as it has cards: _getRandomBoxIndex gives every card the same chance.
THEOREM DrawsAreEven == Spec => []DrawIsEven
<1>1. IInv => DrawIsEven
    <2> SUFFICES ASSUME IInv, TotalCards(boxes) > 0, NEW a \in Amounts
                 PROVE  Cardinality({word \in 0 .. TotalCards(boxes) - 1 : DrawnBy(word) = a}) = CardsIn(boxes)[a]
        BY DEF DrawIsEven
    <2> DEFINE WordsOf(k) == {word \in 0 .. TotalCards(boxes) - 1 : RandomBoxIndex(boxes, word) = k}
               Drawing == {word \in 0 .. TotalCards(boxes) - 1 : DrawnBy(word) = a}
    <2>1. boxes \in Arrays /\ boxes \in Seq(Box) /\ CardsIn(boxes)[a] = CardsOf(boxes, a)
        BY CardsInIsCardsOf DEF IInv, Arrays
    <2>2. TotalCards(boxes) \in Nat
        BY <2>1, LayoutTurn DEF TotalCards
    <2>3. \A word \in 0 .. TotalCards(boxes) - 1 : RandomBoxIndex(boxes, word) \in 1 .. Len(boxes)
        BY <2>1, <2>2, BoxDrawn
    <2>4. CASE \A k \in 1 .. Len(boxes) : boxes[k].amountOrTokenId # a
        <3>1. Drawing = {}
            BY <2>3, <2>4 DEF DrawnBy
        <3> QED BY <3>1, <2>1, <2>4, NoBox, FS_EmptySet
    <2>5. CASE \E k \in 1 .. Len(boxes) : boxes[k].amountOrTokenId = a
        <3>1. PICK k \in 1 .. Len(boxes) : boxes[k].amountOrTokenId = a
            BY <2>5
        <3>2. \A i \in 1 .. Len(boxes) : boxes[i].amountOrTokenId = a <=> i = k
            BY <2>1, <3>1 DEF Arrays, Unique
        <3>3. Drawing = WordsOf(k)
            BY <2>3, <3>2 DEF DrawnBy
        <3>4. Cardinality(WordsOf(k)) = boxes[k].numberOfCards
            BY <2>1, WordsOfBox
        <3>5. CardsOf(boxes, a) = boxes[k].numberOfCards
            BY <2>1, <3>1, OneBox
        <3> QED BY <2>1, <3>3, <3>4, <3>5
    <2> QED BY <2>4, <2>5
<1> QED BY <1>1, Invariant, PTL

\* The array, with its merging, swapping and searching, does to the cards of
\* each amount exactly what CardMap says: AssetPool may use the map for it.
THEOREM ArrayIsCardMap == Spec => KeepsCardMap
<1>1. Init => Map!Init
    BY AtFirst
<1>2. IInv /\ [Next]_boxes => [Map!Add \/ Map!TakeAway \/ Map!Draw]_(CardsIn(boxes))
    BY EveryStep
<1> QED BY <1>1, <1>2, Invariant, PTL DEF Spec, KeepsCardMap, Map!Spec

=============================================================================
