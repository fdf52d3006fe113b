--------------------------- MODULE CountingProofs ---------------------------
(***************************************************************************)
(* Sums by counting units: what Total adds up to, with no induction.  The  *)
(* one fact that needs an argument is TotalPlus: the units of f + g are    *)
(* those of f followed, in each row, by a copy of those of g.  And         *)
(* induction and recursion over the numbers up to a bound, stated of sets  *)
(* and functions.                                                          *)
(***************************************************************************)
EXTENDS Counting, FiniteSetTheorems, FunctionTheorems, WellFoundedInduction, TLAPS

\* The units of a function to the naturals on a finite set are finitely many.
LEMMA UnitsFinite ==
    ASSUME NEW S, IsFiniteSet(S), NEW f, \A s \in S : f[s] \in Nat
    PROVE  IsFiniteSet(Units(f, S))
<1> DEFINE Rows == {{s} \X (1 .. f[s]) : s \in S}
           row == [s \in S |-> {s} \X (1 .. f[s])]
<1>1. row \in Surjection(S, Rows)
    BY DEF Surjection
<1>2. IsFiniteSet(Rows)
    BY <1>1, FS_Surjection
<1>3. ASSUME NEW s \in S
      PROVE  IsFiniteSet({s} \X (1 .. f[s]))
    <2>1. IsFiniteSet({s})
        BY FS_Singleton
    <2>2. IsFiniteSet(1 .. f[s])
        BY FS_Interval
    <2> QED BY <2>1, <2>2, FS_Product
<1>4. \A R \in Rows : IsFiniteSet(R)
    BY <1>3
<1> QED BY <1>2, <1>4, FS_UNION DEF Units

\* A sum of naturals is a natural.
LEMMA TotalType ==
    ASSUME NEW S, IsFiniteSet(S), NEW f, \A s \in S : f[s] \in Nat
    PROVE  Total(f, S) \in Nat
BY UnitsFinite, FS_CardinalityType DEF Total

\* Which pairs are units.
LEMMA UnitsElement ==
    ASSUME NEW S, NEW f, NEW u
    PROVE  u \in Units(f, S) <=>
               u = <<u[1], u[2]>> /\ u[1] \in S /\ u[2] \in 1 .. f[u[1]]
BY DEF Units

\* Only the values on S count.
LEMMA TotalSame ==
    ASSUME NEW S, NEW f, NEW g, \A s \in S : f[s] = g[s]
    PROVE  Total(f, S) = Total(g, S)
<1>1. {{s} \X (1 .. f[s]) : s \in S} = {{s} \X (1 .. g[s]) : s \in S}
    OBVIOUS
<1> QED BY <1>1 DEF Total, Units

\* A sum is zero exactly when each of its terms is.
LEMMA TotalZero ==
    ASSUME NEW S, IsFiniteSet(S), NEW f, \A s \in S : f[s] \in Nat
    PROVE  Total(f, S) = 0 <=> \A s \in S : f[s] = 0
<1>1. Total(f, S) = 0 <=> Units(f, S) = {}
    BY UnitsFinite, FS_EmptySet DEF Total
<1>2. ASSUME Units(f, S) = {}, NEW s \in S
      PROVE  f[s] = 0
    <2> SUFFICES ASSUME f[s] # 0 PROVE FALSE
        OBVIOUS
    <2>1. 1 \in 1 .. f[s]
        OBVIOUS
    <2>2. <<s, 1>> \in Units(f, S)
        BY <2>1, UnitsElement
    <2> QED BY <2>2, <1>2
<1>3. ASSUME \A s \in S : f[s] = 0
      PROVE  Units(f, S) = {}
    <2>1. \A s \in S : 1 .. f[s] = {}
        BY <1>3
    <2> QED BY <2>1, UnitsElement
<1> QED BY <1>1, <1>2, <1>3

\* Sums add up term by term.
THEOREM TotalPlus ==
    ASSUME NEW S, IsFiniteSet(S), NEW f, NEW g, NEW h,
           \A s \in S : f[s] \in Nat /\ g[s] \in Nat /\ h[s] = f[s] + g[s]
    PROVE  Total(h, S) = Total(f, S) + Total(g, S)
<1> DEFINE F == Units(f, S)
           G == Units(g, S)
           Copy == {<<u[1], f[u[1]] + u[2]>> : u \in G}
           copy == [u \in G |-> <<u[1], f[u[1]] + u[2]>>]
<1>1. \A u \in G : u = <<u[1], u[2]>> /\ u[1] \in S /\ u[2] \in 1 .. g[u[1]]
    BY UnitsElement
<1>2. copy \in Bijection(G, Copy)
    <2>1. copy \in [G -> Copy]
        OBVIOUS
    <2>2. \A t \in Copy : \E u \in G : copy[u] = t
        OBVIOUS
    <2>3. ASSUME NEW u \in G, NEW v \in G, copy[u] = copy[v]
          PROVE  u = v
        <3>1. u[1] = v[1] /\ f[u[1]] + u[2] = f[v[1]] + v[2]
            BY <2>3
        <3>2. u[2] = v[2]
            BY <3>1, <1>1
        <3> QED BY <3>1, <3>2, <1>1
    <2> QED BY <2>1, <2>2, <2>3, Fun_IsBij
<1>3. IsFiniteSet(F) /\ IsFiniteSet(G)
    BY UnitsFinite
<1>4. IsFiniteSet(Copy) /\ Cardinality(Copy) = Cardinality(G)
    BY <1>2, <1>3, FS_Bijection DEF ExistsBijection
<1>5. F \cap Copy = {}
    <2> SUFFICES ASSUME NEW t \in F, NEW u \in G, t = <<u[1], f[u[1]] + u[2]>>
                 PROVE  FALSE
        OBVIOUS
    <2>1. t[1] \in S /\ t[2] \in 1 .. f[t[1]]
        BY UnitsElement
    <2>2. t[1] = u[1] /\ t[2] = f[u[1]] + u[2]
        OBVIOUS
    <2>3. u[1] \in S /\ u[2] \in 1 .. g[u[1]]
        BY <1>1
    <2> QED BY <2>1, <2>2, <2>3
<1>6. Units(h, S) = F \cup Copy
    <2>1. ASSUME NEW t \in Units(h, S)
          PROVE  t \in F \cup Copy
        <3>1. t = <<t[1], t[2]>> /\ t[1] \in S /\ t[2] \in 1 .. h[t[1]]
            BY UnitsElement
        <3>2. CASE t[2] <= f[t[1]]
            <4>1. t[2] \in 1 .. f[t[1]]
                BY <3>1, <3>2
            <4> QED BY <3>1, <4>1, UnitsElement
        <3>3. CASE t[2] > f[t[1]]
            <4> DEFINE v == <<t[1], t[2] - f[t[1]]>>
            <4>1. t[2] - f[t[1]] \in 1 .. g[t[1]]
                BY <3>1, <3>3
            <4>2. v \in G
                BY <3>1, <4>1, UnitsElement
            <4>3. <<v[1], f[v[1]] + v[2]>> = t
                BY <3>1, <3>3
            <4> QED BY <4>2, <4>3
        <3>4. f[t[1]] \in Nat /\ t[2] \in Nat
            BY <3>1
        <3> QED BY <3>2, <3>3, <3>4
    <2>2. ASSUME NEW t \in F
          PROVE  t \in Units(h, S)
        <3>1. t = <<t[1], t[2]>> /\ t[1] \in S /\ t[2] \in 1 .. f[t[1]]
            BY UnitsElement
        <3>2. t[2] \in 1 .. h[t[1]]
            BY <3>1
        <3> QED BY <3>1, <3>2, UnitsElement
    <2>3. ASSUME NEW u \in G
          PROVE  <<u[1], f[u[1]] + u[2]>> \in Units(h, S)
        <3>1. u[1] \in S /\ f[u[1]] + u[2] \in 1 .. h[u[1]]
            BY <1>1
        <3> QED BY <3>1, UnitsElement
    <2> QED BY <2>1, <2>2, <2>3
<1>7. Cardinality(F \cup Copy) = Cardinality(F) + Cardinality(Copy) - Cardinality(F \cap Copy)
    BY <1>3, <1>4, FS_Union
<1>8. Cardinality(F \cap Copy) = 0
    BY <1>5, FS_EmptySet
<1>9. Cardinality(F) \in Nat /\ Cardinality(G) \in Nat
    BY <1>3, FS_CardinalityType
<1> QED BY <1>4, <1>6, <1>7, <1>8, <1>9 DEF Total

\* What was added can be taken away.
LEMMA TotalMinus ==
    ASSUME NEW S, IsFiniteSet(S), NEW f, NEW g, NEW h,
           \A s \in S : /\ f[s] \in Nat /\ g[s] \in Nat /\ g[s] <= f[s]
                       /\ h[s] = f[s] - g[s]
    PROVE  Total(h, S) = Total(f, S) - Total(g, S)
<1>1. \A s \in S : h[s] \in Nat /\ f[s] = h[s] + g[s]
    OBVIOUS
<1>2. Total(f, S) = Total(h, S) + Total(g, S)
    BY <1>1, TotalPlus
<1>3. Total(f, S) \in Nat /\ Total(g, S) \in Nat /\ Total(h, S) \in Nat
    BY <1>1, TotalType
<1> QED BY <1>2, <1>3

\* A sum with one term that is not zero is that term.
LEMMA TotalSingle ==
    ASSUME NEW S, IsFiniteSet(S), NEW x \in S, NEW f, f[x] \in Nat,
           \A s \in S \ {x} : f[s] = 0
    PROVE  Total(f, S) = f[x]
<1>1. Units(f, S) = {x} \X (1 .. f[x])
    <2>1. ASSUME NEW u \in Units(f, S)
          PROVE  u \in {x} \X (1 .. f[x])
        <3>1. u = <<u[1], u[2]>> /\ u[1] \in S /\ u[2] \in 1 .. f[u[1]]
            BY UnitsElement
        <3>2. u[1] = x
            BY <3>1
        <3> QED BY <3>1, <3>2
    <2>2. ASSUME NEW u \in {x} \X (1 .. f[x])
          PROVE  u \in Units(f, S)
        BY UnitsElement
    <2> QED BY <2>1, <2>2
<1>2. IsFiniteSet({x}) /\ Cardinality({x}) = 1
    BY FS_Singleton
<1>3. IsFiniteSet(1 .. f[x]) /\ Cardinality(1 .. f[x]) = f[x]
    <2>1. 1 \in Int /\ f[x] \in Int
        OBVIOUS
    <2>2. /\ IsFiniteSet(1 .. f[x])
          /\ Cardinality(1 .. f[x]) = IF 1 > f[x] THEN 0 ELSE f[x] - 1 + 1
        BY <2>1, FS_Interval
    <2> QED BY <2>2
<1>4. Cardinality({x} \X (1 .. f[x])) = Cardinality({x}) * Cardinality(1 .. f[x])
    BY <1>2, <1>3, FS_Product
<1>5. Cardinality({x}) * Cardinality(1 .. f[x]) = f[x]
    BY <1>2, <1>3
<1> QED BY <1>1, <1>4, <1>5 DEF Total

\* Changing one term changes the sum by the difference.
THEOREM TotalUpdate ==
    ASSUME NEW S, IsFiniteSet(S), NEW x \in S, NEW f, NEW h,
           \A s \in S : f[s] \in Nat /\ h[s] \in Nat,
           \A s \in S \ {x} : h[s] = f[s]
    PROVE  Total(h, S) = Total(f, S) - f[x] + h[x]
<1> DEFINE rest == [s \in S |-> IF s = x THEN 0 ELSE f[s]]
           old == [s \in S |-> IF s = x THEN f[x] ELSE 0]
           new == [s \in S |-> IF s = x THEN h[x] ELSE 0]
<1>1. Total(f, S) = Total(rest, S) + Total(old, S)
    BY TotalPlus
<1>2. Total(h, S) = Total(rest, S) + Total(new, S)
    BY TotalPlus
<1>3. Total(old, S) = old[x] /\ Total(new, S) = new[x]
    BY TotalSingle
<1>4. Total(rest, S) \in Nat
    BY TotalType
<1> QED BY <1>1, <1>2, <1>3, <1>4

\* The same for two terms.
LEMMA TotalUpdateTwo ==
    ASSUME NEW S, IsFiniteSet(S), NEW x \in S, NEW y \in S, x # y, NEW f, NEW h,
           \A s \in S : f[s] \in Nat /\ h[s] \in Nat,
           \A s \in S \ {x, y} : h[s] = f[s]
    PROVE  Total(h, S) = Total(f, S) - f[x] - f[y] + h[x] + h[y]
<1> DEFINE g == [s \in S |-> IF s = x THEN h[x] ELSE f[s]]
<1>1. /\ \A s \in S : g[s] \in Nat
      /\ \A s \in S \ {x} : g[s] = f[s]
      /\ \A s \in S \ {y} : h[s] = g[s]
      /\ g[x] = h[x] /\ g[y] = f[y]
    OBVIOUS
<1> HIDE DEF g
<1>2. Total(g, S) = Total(f, S) - f[x] + g[x]
    BY <1>1, TotalUpdate
<1>3. Total(h, S) = Total(g, S) - g[y] + h[y]
    BY <1>1, TotalUpdate
<1>4. Total(f, S) \in Nat
    BY TotalType
<1> QED BY <1>1, <1>2, <1>3, <1>4

\* No term exceeds the sum, and what is left of the sum is left for the others.
LEMMA TotalTerm ==
    ASSUME NEW S, IsFiniteSet(S), NEW x \in S, NEW f, \A s \in S : f[s] \in Nat
    PROVE  /\ f[x] <= Total(f, S)
           /\ f[x] = Total(f, S) => \A s \in S \ {x} : f[s] = 0
<1> DEFINE rest == [s \in S |-> IF s = x THEN 0 ELSE f[s]]
<1>1. Total(rest, S) = Total(f, S) - f[x] + rest[x]
    BY TotalUpdate
<1>2. Total(rest, S) \in Nat /\ Total(f, S) \in Nat
    BY TotalType
<1>3. Total(rest, S) = 0 <=> \A s \in S : rest[s] = 0
    BY TotalZero
<1> QED BY <1>1, <1>2, <1>3

-----------------------------------------------------------------------------
(* What is defined or proved step by step.  The theorems of the library that
   do so take operators; these take sets and functions, and rest on the well-
   foundedness of the finite sets. *)

\* A set of numbers that is not empty has a least one.
LEMMA LeastNumber ==
    ASSUME NEW S \in SUBSET Nat, S # {}
    PROVE  \E m \in S : \A k \in S : m <= k
  <1> DEFINE T == {0..k : k \in S}
             R == StrictSubsetOrdering(Nat)
  <1>1. T \subseteq FiniteSubsetsOf(Nat) /\ T # {}
    <2>1. ASSUME NEW k \in S
          PROVE  IsFiniteSet(0..k) /\ 0..k \in SUBSET Nat
      BY FS_Interval
    <2> QED
      BY <2>1 DEF FiniteSubsetsOf
  <1>2. IsWellFoundedOn(R, FiniteSubsetsOf(Nat))
    BY FS_StrictSubsetOrderingWellFounded
  <1> HIDE DEF R, T
  <1>3. PICK X \in T : \A Y \in T : ~ (<<Y, X>> \in R)
    BY <1>1, <1>2, WFMin
  <1>4. PICK m \in S : X = 0..m
    BY <1>3 DEF T
  <1>5. ASSUME NEW k \in S, k < m
        PROVE  FALSE
    <2>1. 0..k \in T
      BY DEF T
    <2>2. 0..k \subseteq 0..m /\ 0..k # 0..m /\ 0..m \in SUBSET Nat /\ 0..k \in SUBSET Nat
      <3>1. m \in 0..m /\ m \notin 0..k
        BY <1>5
      <3> QED
        BY <3>1, <1>5
    <2>3. <<0..k, 0..m>> \in R
      BY <2>2 DEF R, StrictSubsetOrdering
    <2> QED
      BY <2>1, <2>3, <1>3, <1>4
  <1> QED
    BY <1>5

\* What holds at first, and is kept by every step up to n, holds up to n.
LEMMA Induction ==
    ASSUME NEW n \in Nat, NEW P, 0 \in P, \A i \in 1 .. n : i - 1 \in P => i \in P
    PROVE  \A i \in 0 .. n : i \in P
<1> DEFINE Missing == {i \in 0 .. n : i \notin P}
<1> SUFFICES ASSUME Missing # {} PROVE FALSE
    OBVIOUS
<1>1. Missing \in SUBSET Nat
    OBVIOUS
<1>2. PICK m \in Missing : \A k \in Missing : m <= k
    <2> HIDE DEF Missing
    <2> QED BY <1>1, LeastNumber
<1>3. m \in 1 .. n
    BY <1>2
<1>4. m - 1 \in 0 .. n /\ ~(m <= m - 1)
    BY <1>3
<1> QED BY <1>2, <1>3, <1>4

\* Step functions for n turns on elements of S, and the sequence of elements
\* that starts with b and takes the n steps.
Steps(n, S) == [(1 .. n) \X S -> S]
Follows(f, n, S, b, step) ==
    f \in [0 .. n -> S] /\ f[0] = b /\ \A i \in 1 .. n : f[i] = step[<<i, f[i - 1]>>]

\* There is such a sequence.
LEMMA RecursionExists ==
    ASSUME NEW n \in Nat, NEW S, NEW b \in S, NEW step \in Steps(n, S)
    PROVE  \E f : Follows(f, n, S, b, step)
<1> USE DEF Steps
<1> DEFINE Upto(f, k) == f \in [0 .. k -> S] /\ f[0] = b /\ \A i \in 1 .. k : f[i] = step[<<i, f[i - 1]>>]
           P == {k \in 0 .. n : \E f : Upto(f, k)}
<1>1. 0 \in P
    <2>1. Upto([i \in 0 .. 0 |-> b], 0)
        OBVIOUS
    <2>2. 0 \in 0 .. n
        OBVIOUS
    <2> HIDE DEF Upto
    <2> QED BY <2>1, <2>2
<1>2. ASSUME NEW k \in 1 .. n, k - 1 \in P
      PROVE  k \in P
    <2>1. PICK f : Upto(f, k - 1)
        BY <1>2
    <2> DEFINE g == [i \in 0 .. k |-> IF i = k THEN step[<<k, f[k - 1]>>] ELSE f[i]]
    <2>2. k - 1 \in 0 .. k - 1 /\ f[k - 1] \in S
        BY <2>1
    <2>3. step[<<k, f[k - 1]>>] \in S
        BY <2>2
    <2>4. \A i \in 0 .. k : i # k => i \in 0 .. k - 1
        OBVIOUS
    <2>5. g \in [0 .. k -> S] /\ g[0] = b
        BY <2>1, <2>3, <2>4
    <2>6. ASSUME NEW i \in 1 .. k
          PROVE  g[i] = step[<<i, g[i - 1]>>]
        <3>1. i - 1 \in 0 .. k /\ i - 1 # k /\ g[i - 1] = f[i - 1]
            OBVIOUS
        <3>2. CASE i = k
            BY <3>1, <3>2
        <3>3. CASE i # k
            <4>1. i \in 1 .. k - 1 /\ g[i] = f[i]
                BY <3>3
            <4> QED BY <4>1, <3>1, <2>1
        <3> QED BY <3>2, <3>3
    <2> HIDE DEF g
    <2>7. Upto(g, k)
        BY <2>5, <2>6
    <2> QED BY <2>7
<1> HIDE DEF P
<1>3. n \in P
    BY <1>1, <1>2, Induction
<1> QED BY <1>3 DEF P, Follows

-----------------------------------------------------------------------------

\* The sum over nothing.
LEMMA TotalOfNone ==
    ASSUME NEW f
    PROVE  Total(f, {}) = 0
<1>1. Units(f, {}) = {}
    BY DEF Units
<1> QED BY <1>1, FS_EmptySet DEF Total

\* The sum over one element more.
LEMMA TotalOneMore ==
    ASSUME NEW S, IsFiniteSet(S), NEW x, x \notin S, NEW f, \A s \in S \cup {x} : f[s] \in Nat
    PROVE  Total(f, S \cup {x}) = Total(f, S) + f[x]
<1> DEFINE T == S \cup {x}
           g == [s \in T |-> IF s = x THEN 0 ELSE f[s]]
<1>1. IsFiniteSet(T)
    BY FS_AddElement
<1>2. Total(f, T) = Total(g, T) - g[x] + f[x]
    <2>1. /\ \A s \in T : g[s] \in Nat /\ f[s] \in Nat
          /\ \A s \in T \ {x} : f[s] = g[s]
          /\ x \in T
        OBVIOUS
    <2> HIDE DEF g, T
    <2> QED BY <1>1, <2>1, TotalUpdate
<1>3. Total(g, T) = Total(f, S)
    <2>1. ASSUME NEW u \in Units(g, T)
          PROVE  u \in Units(f, S)
        <3>1. u = <<u[1], u[2]>> /\ u[1] \in T /\ u[2] \in 1 .. g[u[1]]
            BY UnitsElement
        <3>2. u[1] # x
            BY <3>1
        <3> QED BY <3>1, <3>2, UnitsElement
    <2>2. ASSUME NEW u \in Units(f, S)
          PROVE  u \in Units(g, T)
        <3>1. u = <<u[1], u[2]>> /\ u[1] \in S /\ u[2] \in 1 .. f[u[1]]
            BY UnitsElement
        <3>2. u[1] \in T /\ g[u[1]] = f[u[1]]
            BY <3>1
        <3>3. u[2] \in 1 .. g[u[1]]
            BY <3>1, <3>2
        <3> HIDE DEF g, T
        <3> QED BY <3>1, <3>2, <3>3, UnitsElement
    <2> HIDE DEF g, T
    <2>3. Units(g, T) = Units(f, S)
        BY <2>1, <2>2
    <2> QED BY <2>3 DEF Total
<1>4. g[x] = 0
    OBVIOUS
<1>5. Total(f, S) \in Nat
    BY TotalType
<1> QED BY <1>2, <1>3, <1>4, <1>5
=============================================================================
