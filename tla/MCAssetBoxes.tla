---------------------------- MODULE MCAssetBoxes ----------------------------
(* Values of AssetBoxes' constants for TLC: boxes of up to two cards. *)
EXTENDS AssetBoxes

SmallBox == [numberOfCards : 0 .. 2, amountOrTokenId : Amounts]

\* One box, or two in either order, of the same amount or not.
OneOrTwoBoxes == {<<b>> : b \in SmallBox} \cup (SmallBox \X SmallBox)

FirstWords == 0 .. 11
=============================================================================
