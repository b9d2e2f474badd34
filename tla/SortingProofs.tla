---------------------------- MODULE SortingProofs ----------------------------
(***************************************************************************)
(* Proofs about lists made by ranks, for lists of any length.  Induction   *)
(* over a list is replaced by counting: n different ranks below n are all  *)
(* of them.                                                                *)
(***************************************************************************)
EXTENDS Sorting, FiniteSetsExt, FunctionTheorems, FiniteSetTheorems,
        SequenceTheorems, TLAPS

-----------------------------------------------------------------------------
(***************************************************************************)
(* Ranks.                                                                  *)
(***************************************************************************)

\* B orders a set: which elements come before which.
StrictOrder(B, S) ==
  /\ \A x \in S : <<x, x>> \notin B
  /\ \A x, y \in S : x # y => <<x, y>> \in B \/ <<y, x>> \in B
  /\ \A x, y, z \in S : <<x, y>> \in B /\ <<y, z>> \in B => <<x, z>> \in B

Before(B, S, x) == {y \in S : <<y, x>> \in B}

Rank(B, S, x) == Cardinality(Before(B, S, x))

\* A part of a finite set that misses an element is smaller.
LEMMA PartIsSmaller ==
  ASSUME NEW T, IsFiniteSet(T), NEW S \in SUBSET T, NEW x \in T, x \notin S
  PROVE  /\ Cardinality(S) \in Nat /\ Cardinality(T) \in Nat
         /\ Cardinality(S) < Cardinality(T)
<1>1. S # T  OBVIOUS
<1>2. IsFiniteSet(S) /\ Cardinality(S) <= Cardinality(T)  BY FS_Subset
<1>3. Cardinality(S) # Cardinality(T)  BY <1>1, FS_Subset
<1>4. Cardinality(S) \in Nat  BY <1>2, FS_CardinalityType
<1>5. Cardinality(T) \in Nat  BY FS_CardinalityType
<1>. QED  BY <1>2, <1>3, <1>4, <1>5

\* The ranks of n elements are the numbers below n, in the order of the
\* elements.
LEMMA Ranks ==
  ASSUME NEW S, IsFiniteSet(S), NEW B, StrictOrder(B, S)
  PROVE  /\ \A x \in S : Rank(B, S, x) \in 0 .. Cardinality(S) - 1
         /\ \A x, y \in S : <<x, y>> \in B => Rank(B, S, x) < Rank(B, S, y)
         /\ \A k \in 1 .. Cardinality(S) : \E x \in S : Rank(B, S, x) = k - 1
<1>. DEFINE n == Cardinality(S)
<1>1. n \in Nat  BY FS_CardinalityType
<1>2. ASSUME NEW x \in S PROVE Rank(B, S, x) \in 0 .. n - 1
  <2>1. Before(B, S, x) \in SUBSET S /\ x \notin Before(B, S, x)
    BY DEF Before, StrictOrder
  <2>2. Rank(B, S, x) \in Nat /\ Rank(B, S, x) < n
    BY <2>1, PartIsSmaller DEF Rank
  <2>. QED  BY <1>1, <2>2
<1>3. ASSUME NEW x \in S, NEW y \in S, <<x, y>> \in B
      PROVE  Rank(B, S, x) < Rank(B, S, y)
  <2>1. Before(B, S, y) \in SUBSET S  BY DEF Before
  <2>2. IsFiniteSet(Before(B, S, y))  BY <2>1, FS_Subset
  <2>3. Before(B, S, x) \in SUBSET Before(B, S, y)
    BY <1>3 DEF Before, StrictOrder
  <2>4. x \in Before(B, S, y) /\ x \notin Before(B, S, x)
    BY <1>3 DEF Before, StrictOrder
  <2>. QED  BY <2>2, <2>3, <2>4, PartIsSmaller DEF Rank
<1>4. ASSUME NEW k \in 1 .. n PROVE \E x \in S : Rank(B, S, x) = k - 1
  <2>. DEFINE f == [x \in S |-> Rank(B, S, x) + 1]
  <2>0. \A x \in S : Rank(B, S, x) + 1 \in 1 .. n  BY <1>1, <1>2
  <2>1. f \in [S -> 1 .. n]  BY <2>0
  <2>2. ASSUME NEW x \in S, NEW y \in S, x # y
        PROVE  Rank(B, S, x) # Rank(B, S, y)
    <3>1. <<x, y>> \in B \/ <<y, x>> \in B  BY <2>2 DEF StrictOrder
    <3>2. Rank(B, S, x) < Rank(B, S, y) \/ Rank(B, S, y) < Rank(B, S, x)
      BY <1>3, <3>1
    <3>3. Rank(B, S, x) \in 0 .. n - 1 /\ Rank(B, S, y) \in 0 .. n - 1  BY <1>2
    <3>. QED  BY <1>1, <3>2, <3>3
  <2>3. \A x, y \in S : x # y => f[x] # f[y]  BY <1>1, <1>2, <2>2
  <2>4. f \in Injection(S, 1 .. n)  BY <2>1, <2>3 DEF Injection, IsInjective
  <2>5. \A x \in S : f[x] = Rank(B, S, x) + 1  OBVIOUS
  <2>. HIDE DEF f
  <2>6. IsFiniteSet(1 .. n) /\ Cardinality(1 .. n) = n  BY <1>1, FS_Interval
  <2>7. f \in Surjection(S, 1 .. n)  BY <2>4, <2>6, FS_Injection
  <2>8. PICK x \in S : f[x] = k  BY <2>7 DEF Surjection
  <2>. QED  BY <1>1, <1>2, <2>5, <2>8
<1>. QED  BY <1>2, <1>3, <1>4

\* A finite set of numbers has a least one.
LEMMA Least ==
  ASSUME NEW S \in SUBSET Int, IsFiniteSet(S), S # {}
  PROVE  Min(S) \in S /\ \A x \in S : Min(S) <= x
<1>. DEFINE B == {p \in S \X S : p[1] < p[2]}
<1>1. \A x, y \in S : <<x, y>> \in B <=> x < y  OBVIOUS
<1>. HIDE DEF B
<1>2. StrictOrder(B, S)  BY <1>1 DEF StrictOrder
<1>3. Cardinality(S) \in Nat /\ Cardinality(S) # 0
  BY FS_CardinalityType, FS_EmptySet
<1>4. 1 \in 1 .. Cardinality(S)  BY <1>3
<1>5. PICK m \in S : Rank(B, S, m) = 0  BY <1>2, <1>4, Ranks
<1>6. \A x \in S : Rank(B, S, x) \in Nat  BY <1>2, <1>3, Ranks
<1>7. \A x \in S : <<x, m>> \notin B
  BY <1>2, <1>5, <1>6, Ranks
<1>8. \A x \in S : x \in Int  OBVIOUS
<1>9. \A x \in S : ~ (x < m)  BY <1>1, <1>7
<1>10. \A x \in S : m <= x  BY <1>8, <1>9
<1>. QED  BY <1>10 DEF Min

-----------------------------------------------------------------------------
(***************************************************************************)
(* Enumerations.                                                           *)
(***************************************************************************)

\* f lists the elements of S, each of them and in the order B.
Enumerates(f, n, S, B) ==
  /\ f \in [1 .. n -> S]
  /\ \A x \in S : \E k \in 1 .. n : f[k] = x
  /\ \A k, l \in 1 .. n : k < l => <<f[k], f[l]>> \in B

\* There is one: each element at its rank.
LEMMA EnumerationExists ==
  ASSUME NEW S, IsFiniteSet(S), NEW B, StrictOrder(B, S)
  PROVE  \E f : Enumerates(f, Cardinality(S), S, B)
<1>. DEFINE n == Cardinality(S)
            f == [k \in 1 .. n |-> CHOOSE x \in S : Rank(B, S, x) = k - 1]
<1>1. n \in Nat  BY FS_CardinalityType
<1>2. /\ \A x \in S : Rank(B, S, x) \in 0 .. n - 1
      /\ \A x, y \in S : <<x, y>> \in B => Rank(B, S, x) < Rank(B, S, y)
      /\ \A k \in 1 .. n : \E x \in S : Rank(B, S, x) = k - 1
  BY Ranks
<1>. HIDE DEF n
<1>3. \A k \in 1 .. n : f[k] \in S /\ Rank(B, S, f[k]) = k - 1  BY <1>2
<1>4. f \in [1 .. n -> S]  BY <1>3
<1>5. \A x, y \in S : Rank(B, S, x) = Rank(B, S, y) => x = y
  <2>1. SUFFICES ASSUME NEW x \in S, NEW y \in S, x # y
                 PROVE  Rank(B, S, x) # Rank(B, S, y)
    OBVIOUS
  <2>2. <<x, y>> \in B \/ <<y, x>> \in B  BY <2>1 DEF StrictOrder
  <2>3. Rank(B, S, x) \in Int /\ Rank(B, S, y) \in Int  BY <1>1, <1>2
  <2>. QED  BY <1>2, <2>2, <2>3
<1>. HIDE DEF f
<1>6. ASSUME NEW x \in S PROVE \E k \in 1 .. n : f[k] = x
  <2>1. Rank(B, S, x) + 1 \in 1 .. n /\ Rank(B, S, x) = (Rank(B, S, x) + 1) - 1
    BY <1>1, <1>2
  <2>. QED  BY <1>3, <1>5, <2>1
<1>7. ASSUME NEW k \in 1 .. n, NEW l \in 1 .. n, k < l
      PROVE  <<f[k], f[l]>> \in B
  <2>1. f[k] \in S /\ f[l] \in S /\ Rank(B, S, f[k]) = k - 1
        /\ Rank(B, S, f[l]) = l - 1
    BY <1>3
  <2>2. k \in Int /\ l \in Int  BY <1>1
  <2>3. f[k] # f[l]  BY <1>7, <2>1, <2>2
  <2>4. ~ (l - 1 < k - 1)  BY <1>7, <2>2
  <2>5. <<f[l], f[k]>> \notin B  BY <1>2, <2>1, <2>4
  <2>. QED  BY <2>1, <2>3, <2>5 DEF StrictOrder
<1>8. Enumerates(f, n, S, B)  BY <1>4, <1>6, <1>7 DEF Enumerates
<1>. QED  BY <1>8 DEF n

\* An enumeration has no element twice, and has as many as there are.
LEMMA EnumerationCounts ==
  ASSUME NEW S, NEW B, StrictOrder(B, S), NEW n \in Nat, NEW f,
         Enumerates(f, n, S, B)
  PROVE  /\ \A k, l \in 1 .. n : f[k] = f[l] => k = l
         /\ f \in Bijection(1 .. n, S)
         /\ IsFiniteSet(S) /\ Cardinality(S) = n
<1>1. f \in [1 .. n -> S] /\ \A k \in 1 .. n : f[k] \in S  BY DEF Enumerates
<1>2. ASSUME NEW k \in 1 .. n, NEW l \in 1 .. n, k # l PROVE f[k] # f[l]
  <2>1. k < l \/ l < k  BY <1>2
  <2>2. <<f[k], f[l]>> \in B \/ <<f[l], f[k]>> \in B  BY <2>1 DEF Enumerates
  <2>. QED  BY <1>1, <2>2 DEF StrictOrder
<1>3. f \in Bijection(1 .. n, S)
  <2>1. f \in Injection(1 .. n, S)  BY <1>1, <1>2 DEF Injection, IsInjective
  <2>2. f \in Surjection(1 .. n, S)  BY <1>1 DEF Enumerates, Surjection
  <2>. QED  BY <2>1, <2>2 DEF Bijection
<1>4. ExistsBijection(1 .. n, S)  BY <1>3 DEF ExistsBijection
<1>5. IsFiniteSet(1 .. n)  BY FS_Interval
<1>6. IsFiniteSet(S)  BY <1>4, <1>5, FS_Bijection
<1>7. Cardinality(S) = n  BY <1>4, FS_CountingElements
<1>. QED  BY <1>2, <1>3, <1>6, <1>7

\* As many elements as there are, in the order, are all of them.
LEMMA EnumerationFills ==
  ASSUME NEW S, IsFiniteSet(S), NEW B, StrictOrder(B, S),
         NEW f \in [1 .. Cardinality(S) -> S],
         \A k, l \in 1 .. Cardinality(S) : k < l => <<f[k], f[l]>> \in B
  PROVE  Enumerates(f, Cardinality(S), S, B)
<1>. DEFINE n == Cardinality(S)
            N == 1 .. n
<1>1. n \in Nat  BY FS_CardinalityType
<1>. HIDE DEF n
<1>2. IsFiniteSet(N) /\ Cardinality(N) = n  BY <1>1, FS_Interval
<1>3. \A k \in N : f[k] \in S  BY DEF n
<1>4. ASSUME NEW k \in N, NEW l \in N, k # l PROVE f[k] # f[l]
  <2>1. k < l \/ l < k  BY <1>1, <1>4
  <2>2. <<f[k], f[l]>> \in B \/ <<f[l], f[k]>> \in B  BY <2>1 DEF n
  <2>. QED  BY <1>3, <2>2 DEF StrictOrder
<1>5. f \in Injection(N, S)  BY <1>4 DEF Injection, IsInjective, n
<1>. HIDE DEF N
<1>6. f \in Surjection(N, S)  BY <1>2, <1>5, FS_Injection DEF n
<1>. QED  BY <1>6 DEF Surjection, Enumerates, N, n

\* It lists an element at its rank.
LEMMA EnumerationRanks ==
  ASSUME NEW S, NEW B, StrictOrder(B, S), NEW n \in Nat, NEW f,
         Enumerates(f, n, S, B), NEW k \in 1 .. n
  PROVE  Rank(B, S, f[k]) = k - 1
<1>1. /\ f \in [1 .. n -> S] /\ \A l \in 1 .. n : f[l] \in S
      /\ \A x \in S : \E l \in 1 .. n : f[l] = x
      /\ \A l, m \in 1 .. n : l < m => <<f[l], f[m]>> \in B
  BY DEF Enumerates
<1>2. \A l, m \in 1 .. n : f[l] = f[m] => l = m  BY EnumerationCounts
<1>3. k \in Int /\ k - 1 \in Nat /\ 1 .. k - 1 \subseteq 1 .. n
      /\ \A l \in 1 .. k - 1 : l < k
  OBVIOUS
<1>4. \A l \in 1 .. n : <<f[l], f[k]>> \in B => l \in 1 .. k - 1
  <2>1. SUFFICES ASSUME NEW l \in 1 .. n, <<f[l], f[k]>> \in B
                 PROVE  l < k
    BY <1>3
  <2>2. ~ (k < l)
    <3>1. SUFFICES ASSUME k < l PROVE FALSE  OBVIOUS
    <3>2. <<f[k], f[l]>> \in B  BY <1>1, <3>1
    <3>3. <<f[k], f[k]>> \in B  BY <1>1, <2>1, <3>2 DEF StrictOrder
    <3>. QED  BY <1>1, <3>3 DEF StrictOrder
  <2>3. l # k  BY <1>1, <2>1 DEF StrictOrder
  <2>. QED  BY <1>3, <2>2, <2>3
<1>. DEFINE g == [l \in 1 .. k - 1 |-> f[l]]
            T == Before(B, S, f[k])
<1>5. g \in [1 .. k - 1 -> T]
  <2>1. \A l \in 1 .. k - 1 : f[l] \in S /\ <<f[l], f[k]>> \in B
    BY <1>1, <1>3
  <2>. QED  BY <2>1 DEF Before
<1>6. \A x \in T : \E l \in 1 .. k - 1 : g[l] = x
  <2>1. SUFFICES ASSUME NEW x \in S, <<x, f[k]>> \in B
                 PROVE  \E l \in 1 .. k - 1 : f[l] = x
    BY DEF Before
  <2>. QED  BY <1>1, <1>4, <2>1
<1>7. \A l, m \in 1 .. k - 1 : g[l] = g[m] => l = m  BY <1>2, <1>3
<1>. HIDE DEF g, T
<1>8. g \in Bijection(1 .. k - 1, T)
  BY <1>5, <1>6, <1>7 DEF Bijection, Injection, IsInjective, Surjection
<1>9. ExistsBijection(1 .. k - 1, T)  BY <1>8 DEF ExistsBijection
<1>10. Cardinality(T) = k - 1  BY <1>3, <1>9, FS_CountingElements
<1>. QED  BY <1>10 DEF T, Rank

\* There is only one.
LEMMA EnumerationUnique ==
  ASSUME NEW S, NEW B, StrictOrder(B, S), NEW n \in Nat, NEW f, NEW g,
         Enumerates(f, n, S, B), NEW m \in Nat, Enumerates(g, m, S, B)
  PROVE  m = n /\ f = g
<1>1. m = n  BY EnumerationCounts
<1>2. /\ f \in [1 .. n -> S] /\ g \in [1 .. n -> S]
  BY <1>1 DEF Enumerates
<1>3. IsFiniteSet(S)  BY EnumerationCounts
<1>4. \A x, y \in S : <<x, y>> \in B => Rank(B, S, x) < Rank(B, S, y)
  BY <1>3, Ranks
<1>5. ASSUME NEW k \in 1 .. n PROVE f[k] = g[k]
  <2>1. f[k] \in S /\ g[k] \in S  BY <1>2
  <2>2. Rank(B, S, f[k]) = k - 1  BY EnumerationRanks
  <2>3. Rank(B, S, g[k]) = k - 1  BY <1>1, EnumerationRanks
  <2>4. ~ (k - 1 < k - 1)  OBVIOUS
  <2>5. <<f[k], g[k]>> \notin B /\ <<g[k], f[k]>> \notin B
    BY <1>4, <2>1, <2>2, <2>3, <2>4
  <2>. QED  BY <2>1, <2>5 DEF StrictOrder
<1>6. f = [k \in 1 .. n |-> f[k]] /\ g = [k \in 1 .. n |-> g[k]]  BY <1>2
<1>7. [k \in 1 .. n |-> f[k]] = [k \in 1 .. n |-> g[k]]  BY <1>5
<1>. QED  BY <1>1, <1>6, <1>7

-----------------------------------------------------------------------------
(***************************************************************************)
(* Arrangements.                                                           *)
(***************************************************************************)

\* The elements of a list at the places f(1), ..., f(n).
Picked(list, f, n) == [k \in 1 .. n |-> list[f[k]]]

\* To know what Arrange makes of a list, give an enumeration of the places.
LEMMA Arrangement ==
  ASSUME NEW list, NEW places, NEW ahead, StrictOrder(ahead, places),
         NEW n \in Nat, NEW f, Enumerates(f, n, places, ahead)
  PROVE  Arrange(list, places, ahead) = Picked(list, f, n)
<1>. DEFINE Place(i) == Cardinality({j \in places : <<j, i>> \in ahead})
            g == [k \in 1 .. n |-> CHOOSE i \in places : Place(i) = k - 1]
<1>1. IsFiniteSet(places) /\ Cardinality(places) = n  BY EnumerationCounts
<1>2. Arrange(list, places, ahead) = [k \in 1 .. n |-> list[g[k]]]
  BY <1>1 DEF Arrange
<1>3. \A i \in places : Place(i) = Rank(ahead, places, i)  BY DEF Rank, Before
<1>4. f \in [1 .. n -> places]  BY DEF Enumerates
<1>5. \A k \in 1 .. n : f[k] \in places /\ Place(f[k]) = k - 1
  BY <1>3, <1>4, EnumerationRanks
<1>. HIDE DEF Place
<1>6. \A k \in 1 .. n : g[k] \in places /\ Place(g[k]) = k - 1  BY <1>5
<1>7. \A x, y \in places : <<x, y>> \in ahead => Place(x) < Place(y)
  BY <1>1, <1>3, Ranks
<1>. HIDE DEF g
<1>8. ASSUME NEW k \in 1 .. n PROVE g[k] = f[k]
  <2>1. ~ (k - 1 < k - 1)  OBVIOUS
  <2>2. f[k] \in places /\ g[k] \in places /\ Place(f[k]) = k - 1
        /\ Place(g[k]) = k - 1
    BY <1>5, <1>6
  <2>3. <<f[k], g[k]>> \notin ahead /\ <<g[k], f[k]>> \notin ahead
    BY <1>7, <2>1, <2>2
  <2>. QED  BY <2>2, <2>3 DEF StrictOrder
<1>. QED  BY <1>2, <1>8 DEF Picked

\* An arrangement has an element for each place, and no others.
LEMMA ArrangementRange ==
  ASSUME NEW list, NEW places, IsFiniteSet(places),
         NEW ahead, StrictOrder(ahead, places)
  PROVE  \E f : /\ Enumerates(f, Cardinality(places), places, ahead)
                /\ Arrange(list, places, ahead)
                     = Picked(list, f, Cardinality(places))
<1>. DEFINE n == Cardinality(places)
<1>1. n \in Nat  BY FS_CardinalityType
<1>2. PICK f : Enumerates(f, n, places, ahead)  BY EnumerationExists
<1>. HIDE DEF n
<1>3. Arrange(list, places, ahead) = Picked(list, f, n)
  BY <1>1, <1>2, Arrangement
<1>. QED  BY <1>2, <1>3 DEF n

-----------------------------------------------------------------------------
(***************************************************************************)
(* The stable sort.                                                        *)
(***************************************************************************)

\* L is a set of pairs of places: the element at the first is less than the
\* one at the second.
WeakOrder(L, n) ==
  /\ \A i, j \in 1 .. n : <<i, j>> \in L => <<j, i>> \notin L
  /\ \A i, j, k \in 1 .. n :
       <<i, k>> \in L => <<i, j>> \in L \/ <<j, k>> \in L

\* What a stable sort puts before what.
Stably(L, n) ==
  {p \in (1 .. n) \X (1 .. n) :
     p \in L \/ (<<p[2], p[1]>> \notin L /\ p[1] < p[2])}

LEMMA StablyPairs ==
  ASSUME NEW n \in Nat, NEW L, NEW i \in 1 .. n, NEW j \in 1 .. n
  PROVE  <<i, j>> \in Stably(L, n)
           <=> <<i, j>> \in L \/ (<<j, i>> \notin L /\ i < j)
BY DEF Stably

LEMMA StableOrder ==
  ASSUME NEW n \in Nat, NEW L, WeakOrder(L, n)
  PROVE  StrictOrder(Stably(L, n), 1 .. n)
<1>. DEFINE B == Stably(L, n)
            b(i, j) == <<i, j>> \in B
            less(i, j) == <<i, j>> \in L
<1>1. \A i, j \in 1 .. n : b(i, j) <=> less(i, j) \/ (~less(j, i) /\ i < j)
  BY StablyPairs
<1>2. \A i \in 1 .. n : i \in Int  OBVIOUS
<1>3. \A i, j \in 1 .. n : less(i, j) => ~less(j, i)  BY DEF WeakOrder
<1>4. \A i, j, k \in 1 .. n : less(i, k) => less(i, j) \/ less(j, k)
  BY DEF WeakOrder
<1>. HIDE DEF B, b, less
<1>5. \A i \in 1 .. n : ~b(i, i)  BY <1>1, <1>2, <1>3
<1>6. \A i, j \in 1 .. n : i # j => b(i, j) \/ b(j, i)
  <2>1. SUFFICES ASSUME NEW i \in 1 .. n, NEW j \in 1 .. n, i # j
                 PROVE  b(i, j) \/ b(j, i)
    OBVIOUS
  <2>2. i < j \/ j < i  BY <1>2, <2>1
  <2>. QED  BY <1>1, <2>2
<1>7. ASSUME NEW i \in 1 .. n, NEW j \in 1 .. n, NEW k \in 1 .. n,
             b(i, j), b(j, k)
      PROVE  b(i, k)
  <2>1. ~less(j, i) /\ ~less(k, j)  BY <1>1, <1>3, <1>7
  <2>2. ~less(k, i)  BY <1>4, <2>1
  <2>3. CASE less(i, j) \/ less(j, k)
    <3>1. less(i, k)  BY <1>4, <2>1, <2>3
    <3>. QED  BY <1>1, <3>1
  <2>4. CASE ~less(i, j) /\ ~less(j, k)
    <3>1. i < j /\ j < k  BY <1>1, <1>7, <2>4
    <3>2. i < k  BY <1>2, <3>1
    <3>. QED  BY <1>1, <2>2, <3>2
  <2>. QED  BY <2>3, <2>4
<1>8. \A i, j, k \in 1 .. n : b(i, j) /\ b(j, k) => b(i, k)  BY <1>7
<1>. QED  BY <1>5, <1>6, <1>8 DEF StrictOrder, B, b

\* A permutation of the places, in the order of the sort and, where that does
\* not tell, of the list.
SortsStably(f, n, L) ==
  /\ f \in [1 .. n -> 1 .. n]
  /\ \A i \in 1 .. n : \E k \in 1 .. n : f[k] = i
  /\ \A k, l \in 1 .. n : f[k] = f[l] => k = l
  /\ \A k, l \in 1 .. n : k < l =>
       /\ <<f[l], f[k]>> \notin L
       /\ <<f[k], f[l]>> \in L \/ f[k] < f[l]

\* A stable sort is one.
LEMMA StableArrangement ==
  ASSUME NEW list, NEW n \in Nat, NEW L, WeakOrder(L, n)
  PROVE  \E f : /\ Arrange(list, 1 .. n, Stably(L, n)) = Picked(list, f, n)
                /\ SortsStably(f, n, L)
<1>. DEFINE S == 1 .. n
            B == Stably(L, n)
<1>1. IsFiniteSet(S) /\ Cardinality(S) = n  BY FS_Interval
<1>2. StrictOrder(B, S)  BY StableOrder
<1>. HIDE DEF S, B
<1>3. PICK f : /\ Enumerates(f, n, S, B)
               /\ Arrange(list, S, B) = Picked(list, f, n)
  BY <1>1, <1>2, ArrangementRange
<1>4. /\ f \in [1 .. n -> S]
      /\ \A x \in S : \E k \in 1 .. n : f[k] = x
      /\ \A k, l \in 1 .. n : k < l => <<f[k], f[l]>> \in B
  BY <1>3 DEF Enumerates
<1>5. \A k, l \in 1 .. n : f[k] = f[l] => k = l
  BY <1>2, <1>3, EnumerationCounts
<1>6. ASSUME NEW k \in 1 .. n, NEW l \in 1 .. n, k < l
      PROVE  /\ <<f[l], f[k]>> \notin L
             /\ <<f[k], f[l]>> \in L \/ f[k] < f[l]
  <2>1. f[k] \in 1 .. n /\ f[l] \in 1 .. n  BY <1>4 DEF S
  <2>2. <<f[k], f[l]>> \in Stably(L, n)  BY <1>4, <1>6 DEF B
  <2>. QED  BY <2>1, <2>2, StablyPairs DEF WeakOrder
<1>7. SortsStably(f, n, L)  BY <1>4, <1>5, <1>6 DEF SortsStably, S
<1>. QED  BY <1>3, <1>7 DEF S, B

\* A list that is sorted stays as it is.
LEMMA SortedStays ==
  ASSUME NEW list, NEW n \in Nat, NEW L, WeakOrder(L, n),
         \A k, l \in 1 .. n : k < l => <<l, k>> \notin L
  PROVE  Arrange(list, 1 .. n, Stably(L, n)) = [k \in 1 .. n |-> list[k]]
<1>. DEFINE S == 1 .. n
            B == Stably(L, n)
            f == [k \in 1 .. n |-> k]
<1>1. StrictOrder(B, S)  BY StableOrder
<1>2. \A k, l \in 1 .. n : k < l => <<k, l>> \in B
  BY StablyPairs
<1>3. \A k \in 1 .. n : f[k] = k  OBVIOUS
<1>4. f \in [1 .. n -> S]  OBVIOUS
<1>. HIDE DEF f, B
<1>5. Enumerates(f, n, S, B)  BY <1>2, <1>3, <1>4 DEF Enumerates
<1>. HIDE DEF S
<1>6. Arrange(list, S, B) = Picked(list, f, n)
  BY <1>1, <1>5, Arrangement
<1>7. \A k \in 1 .. n : list[f[k]] = list[k]  BY <1>3
<1>. QED  BY <1>6, <1>7 DEF S, B, Picked

-----------------------------------------------------------------------------
(***************************************************************************)
(* A choice of places.                                                     *)
(***************************************************************************)

Upward(places) == {p \in places \X places : p[1] < p[2]}

LEMMA UpwardPairs ==
  ASSUME NEW S, NEW i \in S, NEW j \in S
  PROVE  <<i, j>> \in Upward(S) <=> i < j
BY DEF Upward

LEMMA UpwardOrder ==
  ASSUME NEW S \in SUBSET Int PROVE StrictOrder(Upward(S), S)
<1>1. \A i, j \in S : <<i, j>> \in Upward(S) <=> i < j  BY UpwardPairs
<1>2. \A i \in S : i \in Int  OBVIOUS
<1>. QED  BY <1>1, <1>2 DEF StrictOrder

\* The elements that are chosen, in their order.
LEMMA ChosenList ==
  ASSUME NEW list, NEW S \in SUBSET Int, IsFiniteSet(S)
  PROVE  \E f : /\ Enumerates(f, Cardinality(S), S, Upward(S))
                /\ Chosen(list, S) = Picked(list, f, Cardinality(S))
                /\ f \in [1 .. Cardinality(S) -> S]
                /\ \A x \in S : \E k \in 1 .. Cardinality(S) : f[k] = x
                /\ \A k, l \in 1 .. Cardinality(S) : k < l => f[k] < f[l]
<1>1. StrictOrder(Upward(S), S)  BY UpwardOrder
<1>2. Chosen(list, S) = Arrange(list, S, Upward(S))  BY DEF Chosen, Upward
<1>. DEFINE n == Cardinality(S)
<1>3. PICK f : /\ Enumerates(f, n, S, Upward(S))
               /\ Arrange(list, S, Upward(S)) = Picked(list, f, n)
  BY <1>1, ArrangementRange
<1>. HIDE DEF n
<1>4. /\ f \in [1 .. n -> S]
      /\ \A x \in S : \E k \in 1 .. n : f[k] = x
      /\ \A k, l \in 1 .. n : k < l => <<f[k], f[l]>> \in Upward(S)
  BY <1>3 DEF Enumerates
<1>5. \A k, l \in 1 .. n : k < l => f[k] < f[l]
  BY <1>4, UpwardPairs
<1>. QED  BY <1>2, <1>3, <1>4, <1>5 DEF n

\* s takes the places of one choice to those of another, in their order.
Carries(s, S, T) ==
  /\ s \in [S -> T]
  /\ \A j \in T : \E i \in S : s[i] = j
  /\ \A i, j \in S : i < j => s[i] < s[j]

\* If it takes elements to equal ones, the two choices are equal.
LEMMA SameChoice ==
  ASSUME NEW S \in SUBSET Int, IsFiniteSet(S), NEW T \in SUBSET Int,
         NEW s, Carries(s, S, T), NEW list, NEW other,
         \A i \in S : other[s[i]] = list[i]
  PROVE  Chosen(other, T) = Chosen(list, S)
<1>. DEFINE n == Cardinality(S)
<1>1. n \in Nat  BY FS_CardinalityType
<1>2. PICK f : /\ Chosen(list, S) = Picked(list, f, n)
               /\ f \in [1 .. n -> S]
               /\ \A x \in S : \E k \in 1 .. n : f[k] = x
               /\ \A k, l \in 1 .. n : k < l => f[k] < f[l]
  BY ChosenList
<1>. HIDE DEF n
<1>3. /\ s \in [S -> T]
      /\ \A j \in T : \E i \in S : s[i] = j
      /\ \A i, j \in S : i < j => s[i] < s[j]
  BY DEF Carries
<1>. DEFINE g == [k \in 1 .. n |-> s[f[k]]]
<1>4. \A k \in 1 .. n : f[k] \in S /\ s[f[k]] \in T /\ g[k] = s[f[k]]
  BY <1>2, <1>3
<1>5. g \in [1 .. n -> T]  BY <1>4
<1>. HIDE DEF g
<1>6. \A j \in T : \E k \in 1 .. n : g[k] = j  BY <1>2, <1>3, <1>4
<1>7. \A k, l \in 1 .. n : k < l => <<g[k], g[l]>> \in Upward(T)
  <2>1. SUFFICES ASSUME NEW k \in 1 .. n, NEW l \in 1 .. n, k < l
                 PROVE  <<g[k], g[l]>> \in Upward(T)
    OBVIOUS
  <2>2. f[k] < f[l] /\ f[k] \in S /\ f[l] \in S  BY <1>2, <1>4, <2>1
  <2>3. s[f[k]] < s[f[l]]  BY <1>3, <2>2
  <2>4. g[k] < g[l] /\ g[k] \in T /\ g[l] \in T  BY <1>4, <2>3
  <2>. QED  BY <2>4, UpwardPairs
<1>8. Enumerates(g, n, T, Upward(T))  BY <1>5, <1>6, <1>7 DEF Enumerates
<1>9. Arrange(other, T, Upward(T)) = Picked(other, g, n)
  BY <1>1, <1>8, UpwardOrder, Arrangement
<1>10. Chosen(other, T) = Picked(other, g, n)
  BY <1>9 DEF Chosen, Upward
<1>11. \A k \in 1 .. n : other[g[k]] = list[f[k]]  BY <1>4
<1>. QED  BY <1>2, <1>10, <1>11 DEF Picked

-----------------------------------------------------------------------------
(***************************************************************************)
(* Lists of the elements of a set.                                         *)
(***************************************************************************)

\* l has every element of S once.
Lists(l, n, S) ==
  /\ l \in [1 .. n -> S]
  /\ \A x \in S : \E k \in 1 .. n : l[k] = x
  /\ \A k, m \in 1 .. n : l[k] = l[m] => k = m

\* Its length is the number of the elements.
LEMMA ListLength ==
  ASSUME NEW S, NEW n \in Nat, NEW l, Lists(l, n, S)
  PROVE  /\ IsFiniteSet(S) /\ Cardinality(S) = n
         /\ l \in Seq(S) /\ DOMAIN l = 1 .. n /\ Len(l) = n
         /\ Range(l) = S
<1>1. /\ l \in [1 .. n -> S]
      /\ \A x \in S : \E k \in 1 .. n : l[k] = x
      /\ \A k, m \in 1 .. n : l[k] = l[m] => k = m
  BY DEF Lists
<1>2. l \in Bijection(1 .. n, S)
  BY <1>1 DEF Bijection, Injection, IsInjective, Surjection
<1>3. ExistsBijection(1 .. n, S)  BY <1>2 DEF ExistsBijection
<1>4. IsFiniteSet(1 .. n)  BY FS_Interval
<1>5. IsFiniteSet(S)  BY <1>3, <1>4, FS_Bijection
<1>6. Cardinality(S) = n  BY <1>3, FS_CountingElements
<1>7. l \in Seq(S) /\ DOMAIN l = 1 .. n /\ Len(l) = n  BY <1>1
<1>8. Range(l) = S  BY <1>1, <1>7 DEF Range
<1>. QED  BY <1>5, <1>6, <1>7, <1>8

\* A permutation of a list has the same elements.
LEMMA StableLists ==
  ASSUME NEW S, NEW n \in Nat, NEW l, Lists(l, n, S),
         NEW f, NEW L, SortsStably(f, n, L)
  PROVE  Lists(Picked(l, f, n), n, S)
<1>. DEFINE r == Picked(l, f, n)
<1>1. /\ l \in [1 .. n -> S]
      /\ \A x \in S : \E k \in 1 .. n : l[k] = x
      /\ \A k, m \in 1 .. n : l[k] = l[m] => k = m
  BY DEF Lists
<1>2. /\ \A k \in 1 .. n : f[k] \in 1 .. n
      /\ \A i \in 1 .. n : \E k \in 1 .. n : f[k] = i
      /\ \A k, m \in 1 .. n : f[k] = f[m] => k = m
  BY DEF SortsStably
<1>3. r = [k \in 1 .. n |-> l[f[k]]]  BY DEF Picked
<1>. HIDE DEF r
<1>4. r \in [1 .. n -> S]  BY <1>1, <1>2, <1>3
<1>5. \A k \in 1 .. n : r[k] = l[f[k]]  BY <1>3
<1>6. ASSUME NEW x \in S PROVE \E k \in 1 .. n : r[k] = x
  <2>1. PICK i \in 1 .. n : l[i] = x  BY <1>1
  <2>2. PICK k \in 1 .. n : f[k] = i  BY <1>2
  <2>. QED  BY <1>5, <2>1, <2>2
<1>7. ASSUME NEW k \in 1 .. n, NEW m \in 1 .. n, r[k] = r[m] PROVE k = m
  <2>1. l[f[k]] = l[f[m]] /\ f[k] \in 1 .. n /\ f[m] \in 1 .. n
    BY <1>2, <1>5, <1>7
  <2>. QED  BY <1>1, <1>2, <2>1
<1>. QED  BY <1>4, <1>6, <1>7 DEF Lists, r

\* f takes the places of a choice to those of the list, in their order.
Climbs(f, m, n) ==
  /\ f \in [1 .. m -> 1 .. n]
  /\ \A k, i \in 1 .. m : k < i => f[k] < f[i]

\* A choice of the elements of a list has those elements once.
LEMMA ChosenLists ==
  ASSUME NEW S, NEW n \in Nat, NEW l, Lists(l, n, S), NEW C,
         NEW r, r = Chosen(l, {i \in DOMAIN l : l[i] \in C})
  PROVE  \E m \in Nat : \E f : /\ r = Picked(l, f, m)
                               /\ Climbs(f, m, n)
                               /\ Lists(r, m, S \cap C)
<1>. DEFINE P == {i \in DOMAIN l : l[i] \in C}
            m == Cardinality(P)
<1>1. /\ l \in [1 .. n -> S] /\ DOMAIN l = 1 .. n
      /\ \A x \in S : \E k \in 1 .. n : l[k] = x
      /\ \A k, i \in 1 .. n : l[k] = l[i] => k = i
  BY DEF Lists
<1>2. P \in SUBSET (1 .. n)  BY <1>1
<1>3. \A i \in 1 .. n : i \in P <=> l[i] \in C  BY <1>1
<1>4. r = Chosen(l, P)  OBVIOUS
<1>. HIDE DEF P
<1>5. P \in SUBSET Int /\ IsFiniteSet(P)
  <2>1. IsFiniteSet(1 .. n)  BY FS_Interval
  <2>2. IsFiniteSet(P)  BY <1>2, <2>1, FS_Subset
  <2>3. P \in SUBSET Int  BY <1>2
  <2>. QED  BY <2>2, <2>3
<1>6. m \in Nat  BY <1>5, FS_CardinalityType
<1>7. PICK f : /\ Enumerates(f, m, P, Upward(P))
               /\ Chosen(l, P) = Picked(l, f, m)
               /\ f \in [1 .. m -> P]
               /\ \A x \in P : \E k \in 1 .. m : f[k] = x
               /\ \A k, i \in 1 .. m : k < i => f[k] < f[i]
  BY <1>5, ChosenList
<1>. HIDE DEF m
<1>8. Climbs(f, m, n)
  <2>1. f \in [1 .. m -> 1 .. n]  BY <1>2, <1>7
  <2>. QED  BY <1>7, <2>1 DEF Climbs
<1>9. r = [k \in 1 .. m |-> l[f[k]]]  BY <1>4, <1>7 DEF Picked
<1>10. \A k \in 1 .. m : f[k] \in 1 .. n /\ l[f[k]] \in S \cap C
  BY <1>1, <1>2, <1>3, <1>7
<1>11. r \in [1 .. m -> S \cap C]  BY <1>9, <1>10
<1>12. \A k \in 1 .. m : r[k] = l[f[k]]  BY <1>9
<1>13. ASSUME NEW x \in S \cap C PROVE \E k \in 1 .. m : r[k] = x
  <2>1. PICK i \in 1 .. n : l[i] = x  BY <1>1
  <2>2. PICK k \in 1 .. m : f[k] = i  BY <1>3, <1>7, <2>1
  <2>. QED  BY <1>12, <2>1, <2>2
<1>14. ASSUME NEW k \in 1 .. m, NEW i \in 1 .. m, r[k] = r[i] PROVE k = i
  <2>1. f[k] = f[i]  BY <1>1, <1>10, <1>12, <1>14
  <2>2. ~(f[k] < f[i]) /\ ~(f[i] < f[k])
    <3>1. f[k] \in Int /\ f[i] \in Int  BY <1>6, <1>10
    <3>. QED  BY <2>1, <3>1
  <2>3. ~(k < i) /\ ~(i < k)  BY <1>7, <2>2
  <2>. QED  BY <1>6, <2>3
<1>15. Lists(r, m, S \cap C)  BY <1>11, <1>13, <1>14 DEF Lists
<1>. QED  BY <1>4, <1>6, <1>7, <1>8, <1>15
=============================================================================
