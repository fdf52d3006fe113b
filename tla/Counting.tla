------------------------------ MODULE Counting ------------------------------
(***************************************************************************)
(* Sums over finite sets.  A sum of naturals is the number of units laid   *)
(* out one after the other: the way AssetPoolV1 describes drawing a card   *)
(* ("lay out cards sequentially").  Counting units keeps the definition    *)
(* free of recursion, so that theorems can be proved about it.             *)
(***************************************************************************)
EXTENDS Integers, FiniteSets

\* f[s] units for each s of S, each unit named by s and its position.
Units(f, S) == UNION {{s} \X (1 .. f[s]) : s \in S}

\* The sum of f[s] over S.
Total(f, S) == Cardinality(Units(f, S))

\* Pointwise sum and difference of two functions on the same domain.
Plus(f, g) == [s \in DOMAIN f |-> f[s] + g[s]]
Minus(f, g) == [s \in DOMAIN f |-> f[s] - g[s]]
=============================================================================
