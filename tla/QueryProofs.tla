---------------------------- MODULE QueryProofs ----------------------------
(***************************************************************************)
(* Proofs about the reading of requests, for any requests, any questions   *)
(* and lists of any length.  What is said of a list that was read follows  *)
(* from the types of its requests alone; only the report on the agents,    *)
(* which is read in several transactions, needs an invariant.              *)
(***************************************************************************)
EXTENDS LoadReports, SortingProofs

-----------------------------------------------------------------------------
(***************************************************************************)
(* Sums.                                                                   *)
(***************************************************************************)

\* A sum of numbers is the number of the pairs of an index and a number up to
\* its value.
Units(f) == UNION {{x} \X (1 .. f[x]) : x \in DOMAIN f}

LEMMA UnitPairs ==
  ASSUME NEW D, NEW f \in [D -> Nat]
  PROVE  \A u : u \in Units(f) <=> \E x \in D : \E k \in 1 .. f[x] : u = <<x, k>>
<1>1. DOMAIN f = D  OBVIOUS
<1>2. \A u : u \in Units(f) <=> \E x \in D : u \in {x} \X (1 .. f[x])
  BY <1>1 DEF Units
<1>. QED  BY <1>2

\* Finitely many numbers have a sum.
LEMMA TotalType ==
  ASSUME NEW D, IsFiniteSet(D), NEW f \in [D -> Nat]
  PROVE  IsFiniteSet(Units(f)) /\ Total(f) \in Nat /\ Total(f) = Cardinality(Units(f))
<1>. DEFINE Part(x) == {x} \X (1 .. f[x])
            Parts == {Part(x) : x \in D}
            p == [x \in D |-> Part(x)]
<1>1. p \in Surjection(D, Parts)  BY DEF Surjection
<1>2. ASSUME NEW x \in D PROVE IsFiniteSet(Part(x))
  <2>1. f[x] \in Nat  OBVIOUS
  <2>. DEFINE n == f[x]
              A == {x}
              B == 1 .. n
  <2>2. IsFiniteSet(A) /\ IsFiniteSet(B)
    <3>1. n \in Nat  BY <2>1
    <3>. HIDE DEF n
    <3>2. IsFiniteSet(1 .. n)  BY <3>1, FS_Interval
    <3>. QED  BY <3>2, FS_Singleton
  <2>3. Part(x) = A \X B  OBVIOUS
  <2>. HIDE DEF A, B, Part
  <2>4. IsFiniteSet(A \X B)  BY <2>2, FS_Product
  <2>. QED  BY <2>3, <2>4
<1>3. Units(f) = UNION Parts  BY DEF Units
<1>4. \A T \in Parts : IsFiniteSet(T)  BY <1>2
<1>. HIDE DEF p, Parts
<1>5. IsFiniteSet(Parts)  BY <1>1, FS_Surjection
<1>6. IsFiniteSet(Units(f))  BY <1>3, <1>4, <1>5, FS_UNION
<1>7. Total(f) = Cardinality(Units(f))  BY DEF Total, Units
<1>. QED  BY <1>6, <1>7, FS_CardinalityType

\* Greater numbers have a greater sum.
LEMMA TotalGrows ==
  ASSUME NEW D, IsFiniteSet(D), NEW f \in [D -> Nat], NEW g \in [D -> Nat],
         \A x \in D : f[x] <= g[x]
  PROVE  Total(f) <= Total(g)
<1>1. \A u \in Units(f) : u \in Units(g)
  <2>1. SUFFICES ASSUME NEW u \in Units(f) PROVE u \in Units(g)
    OBVIOUS
  <2>2. PICK x \in D : \E k \in 1 .. f[x] : u = <<x, k>>  BY UnitPairs
  <2>3. PICK k \in 1 .. f[x] : u = <<x, k>>  BY <2>2
  <2>4. f[x] \in Nat /\ g[x] \in Nat /\ f[x] <= g[x]  OBVIOUS
  <2>5. k \in 1 .. g[x]  BY <2>4
  <2>. QED  BY <2>3, <2>5, UnitPairs
<1>2. IsFiniteSet(Units(g)) /\ Units(f) \in SUBSET Units(g)
  BY <1>1, TotalType
<1>3. Cardinality(Units(f)) <= Cardinality(Units(g))  BY <1>2, FS_Subset
<1>. QED  BY <1>3, TotalType

\* A sum is at least the number of its positive parts.
LEMMA TotalAtLeast ==
  ASSUME NEW D, IsFiniteSet(D), NEW f \in [D -> Nat],
         NEW S \in SUBSET D, \A x \in S : f[x] >= 1
  PROVE  Cardinality(S) <= Total(f)
<1>. DEFINE i == [x \in S |-> <<x, 1>>]
<1>1. ASSUME NEW x \in S PROVE <<x, 1>> \in Units(f)
  <2>1. x \in D /\ f[x] \in Nat /\ f[x] >= 1  OBVIOUS
  <2>2. 1 \in 1 .. f[x]  BY <2>1
  <2>. QED  BY <2>1, <2>2, UnitPairs
<1>2. i \in [S -> Units(f)]  BY <1>1
<1>3. \A x, y \in S : i[x] = i[y] => x = y  OBVIOUS
<1>. HIDE DEF i
<1>4. i \in Injection(S, Units(f))  BY <1>2, <1>3 DEF Injection, IsInjective
<1>5. Cardinality(S) <= Cardinality(Units(f))
  BY <1>4, TotalType, FS_Injection
<1>. QED  BY <1>5, TotalType

\* A sum of numbers up to b is at most b for each.
LEMMA TotalAtMost ==
  ASSUME NEW D, IsFiniteSet(D), NEW b \in Nat, NEW f \in [D -> 0 .. b]
  PROVE  Total(f) <= Cardinality(D) * b
<1>0. f \in [D -> Nat]  OBVIOUS
<1>. DEFINE B == 1 .. b
            P == D \X B
<1>1. IsFiniteSet(B) /\ Cardinality(B) = b  BY FS_Interval
<1>2. ASSUME NEW u \in Units(f) PROVE u \in P
  <2>1. PICK x \in D : \E k \in 1 .. f[x] : u = <<x, k>>  BY <1>0, UnitPairs
  <2>2. PICK k \in 1 .. f[x] : u = <<x, k>>  BY <2>1
  <2>3. f[x] \in 0 .. b  OBVIOUS
  <2>4. k \in B  BY <2>3
  <2>. QED  BY <2>2, <2>4
<1>3. Units(f) \in SUBSET P  BY <1>2
<1>. HIDE DEF B
<1>4. IsFiniteSet(P) /\ Cardinality(P) = Cardinality(D) * b  BY <1>1, FS_Product
<1>. HIDE DEF P
<1>5. Cardinality(Units(f)) <= Cardinality(P)  BY <1>3, <1>4, FS_Subset
<1>. QED  BY <1>0, <1>4, <1>5, TotalType

\* What a bijection gives, in one fact.
LEMMA BijectionIs ==
  ASSUME NEW P, NEW Q, NEW c \in Bijection(P, Q)
  PROVE  /\ c \in [P -> Q]
         /\ \A x \in Q : \E k \in P : c[k] = x
         /\ \A k, l \in P : c[k] = c[l] => k = l
<1>1. c \in [P -> Q]  BY Fun_BijectionProperties
<1>2. \A x \in Q : \E k \in P : c[k] = x  BY Fun_BijectionProperties
<1>3. \A k, l \in P : c[k] = c[l] => k = l  BY Fun_BijectionProperties
<1>. QED  BY <1>1, <1>2, <1>3, Zenon

\* If every element of a set belongs to one index, the elements of all the
\* indices sum up to those of the set.
LEMMA TotalCounts ==
  ASSUME NEW D, IsFiniteSet(D), NEW S, IsFiniteSet(S), NEW owner \in [S -> D],
         NEW f, f = [d \in D |-> Cardinality({x \in S : owner[x] = d})]
  PROVE  f \in [D -> Nat] /\ Total(f) = Cardinality(S)
<1>. DEFINE Own(d) == {x \in S : owner[x] = d}
<1>1. ASSUME NEW d \in D
      PROVE  /\ f[d] \in Nat /\ f[d] = Cardinality(Own(d))
             /\ \E b : b \in Bijection(1 .. f[d], Own(d))
  <2>1. Own(d) \in SUBSET S /\ f[d] = Cardinality(Own(d))  OBVIOUS
  <2>. HIDE DEF Own
  <2>2. IsFiniteSet(Own(d))  BY <2>1, FS_Subset
  <2>3. f[d] \in Nat /\ ExistsBijection(1 .. f[d], Own(d))
    BY <2>1, <2>2, FS_CardinalityType
  <2>. QED  BY <2>1, <2>3 DEF ExistsBijection
<1>2. f \in [D -> Nat]  BY <1>1
<1>. DEFINE b == [d \in D |-> CHOOSE c : c \in Bijection(1 .. f[d], Own(d))]
<1>3. \A d \in D : b[d] \in Bijection(1 .. f[d], Own(d))
  <2>. HIDE DEF Own
  <2>. QED  BY <1>1
<1>4. \A d \in D : \A x \in Own(d) : x \in S /\ owner[x] = d  OBVIOUS
<1>5. \A x \in S : owner[x] \in D /\ x \in Own(owner[x])  OBVIOUS
<1>. HIDE DEF b, Own
<1>6. \A d \in D : /\ b[d] \in [1 .. f[d] -> Own(d)]
                   /\ \A x \in Own(d) : \E k \in 1 .. f[d] : b[d][k] = x
                   /\ \A k, l \in 1 .. f[d] : b[d][k] = b[d][l] => k = l
  <2>. TAKE d \in D
  <2>. DEFINE I == 1 .. f[d]
              O == Own(d)
              c == b[d]
  <2>1. c \in Bijection(I, O)  BY <1>3
  <2>. HIDE DEF I, O, c
  <2>2. /\ c \in [I -> O]
        /\ \A x \in O : \E k \in I : c[k] = x
        /\ \A k, l \in I : c[k] = c[l] => k = l
    BY <2>1, BijectionIs
  <2>. QED  BY <2>2, Zenon DEF I, O, c
<1>7. \A d \in D : \A k \in 1 .. f[d] : b[d][k] \in S /\ owner[b[d][k]] = d
  BY <1>4, <1>6
<1>. DEFINE h == [u \in Units(f) |-> b[u[1]][u[2]]]
<1>8. \A d \in D : \A k \in 1 .. f[d] :
        <<d, k>> \in Units(f) /\ h[<<d, k>>] = b[d][k]
  BY <1>2, UnitPairs
<1>9. \A u \in Units(f) : \E d \in D : \E k \in 1 .. f[d] : u = <<d, k>>
  BY <1>2, UnitPairs
<1>10. ASSUME NEW u \in Units(f) PROVE b[u[1]][u[2]] \in S
  <2>1. PICK d \in D : \E k \in 1 .. f[d] : u = <<d, k>>  BY <1>9
  <2>2. PICK k \in 1 .. f[d] : u = <<d, k>>  BY <2>1
  <2>3. u[1] = d /\ u[2] = k  BY <2>2
  <2>. QED  BY <1>7, <2>3
<1>11. h \in [Units(f) -> S]  BY <1>10
<1>. HIDE DEF h
<1>12. ASSUME NEW x \in S PROVE \E u \in Units(f) : h[u] = x
  <2>1. owner[x] \in D /\ x \in Own(owner[x])  BY <1>5
  <2>2. PICK k \in 1 .. f[owner[x]] : b[owner[x]][k] = x  BY <1>6, <2>1
  <2>. QED  BY <1>8, <2>1, <2>2
<1>13. ASSUME NEW u \in Units(f), NEW v \in Units(f), h[u] = h[v] PROVE u = v
  <2>1. PICK d \in D : \E k \in 1 .. f[d] : u = <<d, k>>  BY <1>9
  <2>2. PICK k \in 1 .. f[d] : u = <<d, k>>  BY <2>1
  <2>3. PICK e \in D : \E l \in 1 .. f[e] : v = <<e, l>>  BY <1>9
  <2>4. PICK l \in 1 .. f[e] : v = <<e, l>>  BY <2>3
  <2>5. b[d][k] = b[e][l]  BY <1>8, <1>13, <2>2, <2>4
  <2>6. d = e  BY <1>7, <2>5
  <2>7. k = l  BY <1>6, <2>5, <2>6
  <2>. QED  BY <2>2, <2>4, <2>6, <2>7
<1>14. h \in Bijection(Units(f), S)
  BY <1>11, <1>12, <1>13 DEF Bijection, Injection, IsInjective, Surjection
<1>15. ExistsBijection(Units(f), S)  BY <1>14 DEF ExistsBijection
<1>16. Cardinality(S) = Cardinality(Units(f))
  BY <1>2, <1>15, TotalType, FS_Bijection
<1>. QED  BY <1>2, <1>16, TotalType

-----------------------------------------------------------------------------
(***************************************************************************)
(* The types.                                                              *)
(***************************************************************************)

\* The requests that are stored are finitely many, each of the values a
\* request may have.
LEMMA StoredType ==
  ASSUME TypeOK
  PROVE  /\ IsFiniteSet(Stored) /\ Stored \in SUBSET Ids
         /\ \A id \in Stored :
              /\ bucket[id].status \in AllowedStatuses \cup Others
              /\ bucket[id].group \in Groups \cup {Nil}
              /\ bucket[id].assignee \in Users \cup {Nil}
              /\ bucket[id].priority \in 1 .. 5
              /\ bucket[id].created \in Nat \ {0}
              /\ bucket[id].tags \in Seq(Tags \cup {Nil})
<1>1. Stored \in SUBSET Ids  BY DEF Stored
<1>2. IsFiniteSet(Stored)  BY <1>1, QueryAssumption, FS_Subset
<1>3. ASSUME NEW id \in Stored PROVE bucket[id] \in Request
  BY QueryAssumption DEF Stored, TypeOK
<1>. QED  BY <1>1, <1>2, <1>3 DEF Request

LEMMA TypeInit == Init => TypeOK
BY DEF Init, TypeOK

LEMMA TypeStep == TypeOK /\ [Next]_vars => TypeOK'
<1>. SUFFICES ASSUME TypeOK, [Next]_vars PROVE TypeOK'  OBVIOUS
<1>1. ASSUME NEW id \in Ids, NEW value \in Requests, PutRequest(id, value)
      PROVE  TypeOK'
  BY <1>1 DEF PutRequest, TypeOK
<1>2. ASSUME NEW id \in Ids, NEW value \in Requests, UpdateRequestStatus(id, value)
      PROVE  TypeOK'
  BY <1>2 DEF UpdateRequestStatus, TypeOK
<1>3. ASSUME NEW id \in Ids, DeleteRequest(id) PROVE TypeOK'
  BY <1>3 DEF DeleteRequest, TypeOK
<1>4. CASE UNCHANGED vars  BY <1>4 DEF vars, TypeOK
<1>. QED  BY <1>1, <1>2, <1>3, <1>4 DEF Next

\* The requests keep their types, whoever writes them.
THEOREM QueryTypes == Spec => []TypeOK
BY TypeInit, TypeStep, PTL DEF Spec

-----------------------------------------------------------------------------
(***************************************************************************)
(* Lists of requests.                                                      *)
(***************************************************************************)

\* What ListRequests returns has every stored request once, by age.
LEMMA ListingLists ==
  ASSUME TypeOK, NEW list \in ListRequests
  PROVE  /\ Cardinality(Stored) \in Nat
         /\ Lists(list, Cardinality(Stored), Stored)
         /\ \A i, j \in 1 .. Cardinality(Stored) :
              i < j => ~Earlier(list[j], list[i])
<1>. DEFINE n == Cardinality(Stored)
            N == 1 .. n
<1>1. IsFiniteSet(Stored) /\ n \in Nat  BY StoredType, FS_CardinalityType
<1>2. /\ list \in [N -> Stored]
      /\ \A i, j \in N : list[i] = list[j] => i = j
      /\ \A i, j \in N : i < j => ~Earlier(list[j], list[i])
  BY DEF ListRequests, IsInjective, Sorted
<1>3. list \in Injection(N, Stored)  BY <1>2 DEF Injection, IsInjective
<1>4. IsFiniteSet(N) /\ Cardinality(N) = n
  <2>. HIDE DEF n
  <2>. QED  BY <1>1, FS_Interval
<1>. HIDE DEF N
<1>5. list \in Surjection(N, Stored)  BY <1>1, <1>3, <1>4, FS_Injection
<1>6. \A x \in Stored : \E k \in N : list[k] = x  BY <1>5 DEF Surjection
<1>. QED  BY <1>1, <1>2, <1>6 DEF Lists, N

\* A selection has the requests that are selected once.
LEMMA SelectLists ==
  ASSUME NEW S, NEW n \in Nat, NEW l, Lists(l, n, S), NEW C
  PROVE  /\ Lists(Select(l, C), Cardinality(S \cap C), S \cap C)
         /\ IsFiniteSet(S \cap C) /\ Cardinality(S \cap C) \in Nat
         /\ Len(Select(l, C)) = Cardinality(S \cap C)
         /\ Range(Select(l, C)) = S \cap C
         /\ Count(Select(l, C)) = Cardinality(S \cap C)
<1>. DEFINE r == Select(l, C)
            T == S \cap C
<1>1. r = Chosen(l, {i \in DOMAIN l : l[i] \in C})  BY DEF Select
<1>. HIDE DEF r
<1>2. PICK m \in Nat : \E f : /\ r = Picked(l, f, m) /\ Climbs(f, m, n)
                              /\ Lists(r, m, S \cap C)
  BY <1>1, ChosenLists
<1>3. Lists(r, m, T)  BY <1>2
<1>. HIDE DEF T
<1>4. /\ IsFiniteSet(T) /\ Cardinality(T) = m /\ DOMAIN r = 1 .. m
      /\ Len(r) = m /\ Range(r) = T
  BY <1>3, ListLength
<1>5. IsFiniteSet(1 .. m) /\ Cardinality(1 .. m) = m  BY FS_Interval
<1>6. Count(r) = m  BY <1>4, <1>5 DEF Count
<1>. QED  BY <1>3, <1>4, <1>6 DEF r, T

\* A selection from a list of the requests.
LEMMA Selected ==
  ASSUME TypeOK, NEW list \in ListRequests, NEW C
  PROVE  /\ IsFiniteSet(Stored \cap C) /\ Cardinality(Stored \cap C) \in Nat
         /\ Len(Select(list, C)) = Cardinality(Stored \cap C)
         /\ Range(Select(list, C)) = Stored \cap C
         /\ Count(Select(list, C)) = Cardinality(Stored \cap C)
         /\ Lists(Select(list, C), Cardinality(Stored \cap C), Stored \cap C)
<1>. DEFINE n == Cardinality(Stored)
            S == Stored
<1>1. n \in Nat /\ Lists(list, n, S)  BY ListingLists
<1>. HIDE DEF n, S
<1>2. Lists(Select(list, C), Cardinality(S \cap C), S \cap C)
  BY <1>1, SelectLists
<1>3. IsFiniteSet(S \cap C) /\ Cardinality(S \cap C) \in Nat
  BY <1>1, SelectLists
<1>. DEFINE T == S \cap C
            m == Cardinality(T)
            r == Select(list, C)
<1>4. Lists(r, m, T) /\ m \in Nat  BY <1>2, <1>3
<1>. HIDE DEF T, m, r
<1>5. Len(r) = m /\ Range(r) = T /\ DOMAIN r = 1 .. m  BY <1>4, ListLength
<1>6. Count(r) = m
  <2>1. Cardinality(1 .. m) = m  BY <1>4, FS_Interval
  <2>. QED  BY <1>5, <2>1 DEF Count
<1>. QED  BY <1>2, <1>3, <1>5, <1>6 DEF S, T, m, r

\* The sort of Apply keeps the requests and puts the urgent ones first.
LEMMA UrgentLists ==
  ASSUME TypeOK, NEW S \in SUBSET Stored, NEW n \in Nat, NEW l, Lists(l, n, S)
  PROVE  /\ Lists(StableSort(l, Urgent), n, S)
         /\ \A i, j \in 1 .. n : i < j =>
              ~Urgent(StableSort(l, Urgent)[j], StableSort(l, Urgent)[i])
<1>. DEFINE L == {p \in (1 .. n) \X (1 .. n) : Urgent(l[p[1]], l[p[2]])}
            r == StableSort(l, Urgent)
            u(i) == bucket[l[i]].priority
            c(i) == bucket[l[i]].created
<1>1. l \in [1 .. n -> S]  BY DEF Lists
<1>2. \A i \in 1 .. n : u(i) \in Int /\ c(i) \in Int  BY <1>1, StoredType
<1>3. \A i, j \in 1 .. n :
        <<i, j>> \in L <=> u(i) > u(j) \/ (u(i) = u(j) /\ c(i) < c(j))
  BY DEF Urgent, Earlier
<1>4. \A i, j \in 1 .. n : <<i, j>> \in L <=> Urgent(l[i], l[j])  OBVIOUS
<1>5. WeakOrder(L, n)
  <2>. HIDE DEF L, u, c
  <2>1. ASSUME NEW i \in 1 .. n, NEW j \in 1 .. n, <<i, j>> \in L
        PROVE  <<j, i>> \notin L
    <3>1. u(i) \in Int /\ u(j) \in Int /\ c(i) \in Int /\ c(j) \in Int  BY <1>2
    <3>2. u(i) > u(j) \/ (u(i) = u(j) /\ c(i) < c(j))  BY <1>3, <2>1
    <3>3. ~(u(j) > u(i) \/ (u(j) = u(i) /\ c(j) < c(i)))  BY <3>1, <3>2
    <3>. QED  BY <1>3, <3>3
  <2>2. ASSUME NEW i \in 1 .. n, NEW j \in 1 .. n, NEW k \in 1 .. n,
               <<i, k>> \in L
        PROVE  <<i, j>> \in L \/ <<j, k>> \in L
    <3>1. /\ u(i) \in Int /\ u(j) \in Int /\ u(k) \in Int
          /\ c(i) \in Int /\ c(j) \in Int /\ c(k) \in Int
      BY <1>2
    <3>2. u(i) > u(k) \/ (u(i) = u(k) /\ c(i) < c(k))  BY <1>3, <2>2
    <3>3. \/ u(i) > u(j) \/ (u(i) = u(j) /\ c(i) < c(j))
          \/ u(j) > u(k) \/ (u(j) = u(k) /\ c(j) < c(k))
      BY <3>1, <3>2
    <3>. QED  BY <1>3, <3>3
  <2>. QED  BY <2>1, <2>2 DEF WeakOrder
<1>6. r = Arrange(l, 1 .. n, Stably(L, n))
  <2>1. DOMAIN l = 1 .. n  BY <1>1
  <2>2. Stably(L, n) = {p \in (DOMAIN l) \X (DOMAIN l) :
                          \/ Urgent(l[p[1]], l[p[2]])
                          \/ ~Urgent(l[p[2]], l[p[1]]) /\ p[1] < p[2]}
    BY <2>1 DEF Stably
  <2>. QED  BY <2>1, <2>2 DEF StableSort
<1>. HIDE DEF L, r
<1>7. PICK f : /\ Arrange(l, 1 .. n, Stably(L, n)) = Picked(l, f, n)
               /\ SortsStably(f, n, L)
  BY <1>5, StableArrangement
<1>8. Lists(r, n, S)  BY <1>6, <1>7, StableLists
<1>9. ASSUME NEW i \in 1 .. n, NEW j \in 1 .. n, i < j
      PROVE  ~Urgent(r[j], r[i])
  <2>1. r[i] = l[f[i]] /\ r[j] = l[f[j]]  BY <1>6, <1>7 DEF Picked
  <2>2. f[i] \in 1 .. n /\ f[j] \in 1 .. n /\ <<f[j], f[i]>> \notin L
    BY <1>7, <1>9 DEF SortsStably
  <2>. QED  BY <1>4, <2>1, <2>2
<1>. QED  BY <1>8, <1>9 DEF r

Matches(query) == {id \in Stored : Match(id, query)}

\* A query finds the requests that match it, the urgent ones first.
LEMMA ApplyLists ==
  ASSUME TypeOK, NEW list \in ListRequests, NEW query
  PROVE  /\ Lists(Apply(list, query), Cardinality(Matches(query)), Matches(query))
         /\ IsFiniteSet(Matches(query)) /\ Cardinality(Matches(query)) \in Nat
         /\ Range(Apply(list, query)) = Matches(query)
         /\ Len(Apply(list, query)) = Cardinality(Matches(query))
         /\ DOMAIN Apply(list, query) = 1 .. Cardinality(Matches(query))
         /\ \A i, j \in 1 .. Cardinality(Matches(query)) : i < j =>
              ~Urgent(Apply(list, query)[j], Apply(list, query)[i])
<1>. DEFINE M == Matches(query)
            n == Cardinality(Stored)
            m == Cardinality(M)
            l == Select(list, M)
            r == Apply(list, query)
<1>1. n \in Nat /\ Lists(list, n, Stored)  BY ListingLists
<1>2. M \in SUBSET Stored /\ Stored \cap M = M  BY DEF Matches
<1>3. r = StableSort(l, Urgent)  BY DEF Apply, Matches
<1>. HIDE DEF M, n, r
<1>4. Lists(l, m, M) /\ IsFiniteSet(M) /\ m \in Nat
  <2>1. /\ Lists(Select(list, M), Cardinality(Stored \cap M), Stored \cap M)
        /\ IsFiniteSet(Stored \cap M) /\ Cardinality(Stored \cap M) \in Nat
    BY <1>1, SelectLists
  <2>. QED  BY <1>2, <2>1
<1>. HIDE DEF l, m
<1>5. Lists(r, m, M) /\ \A i, j \in 1 .. m : i < j => ~Urgent(r[j], r[i])
  BY <1>2, <1>3, <1>4, UrgentLists
<1>6. Range(r) = M /\ Len(r) = m /\ DOMAIN r = 1 .. m
  BY <1>4, <1>5, ListLength
<1>. QED  BY <1>4, <1>5, <1>6 DEF M, m, r

Fields == {"status", "group", "assignee", "tag", "priority", "from", "to"}

\* The fields of a query are tested one by one, and a field that is not given
\* is met by every request.
LEMMA MatchByFields ==
  ASSUME NEW id, NEW query
  PROVE  /\ Match(id, query) <=> \A field \in Fields : Match(id, Alone(query, field))
         /\ \A field \in Fields :
              query[field] = Everything[field] => Match(id, Alone(query, field))
<1>. DEFINE r == bucket[id]
            met(field) == Match(id, Alone(query, field))
<1>1. met("status") <=> query.status \in {Nil, r.status}
  BY DEF Match, Alone, Everything, Within
<1>2. met("group") <=> query.group \in {Nil, r.group}
  BY DEF Match, Alone, Everything, Within
<1>3. met("assignee") <=> query.assignee \in {Nil, r.assignee}
  BY DEF Match, Alone, Everything, Within
<1>4. met("tag") <=> (query.tag # Nil => query.tag \in Range(r.tags))
  BY DEF Match, Alone, Everything, Within
<1>5. met("priority") <=> (query.priority > 0 => r.priority = query.priority)
  BY DEF Match, Alone, Everything, Within
<1>6. met("from") <=> (query.from # 0 => r.created >= query.from)
  BY DEF Match, Alone, Everything, Within
<1>7. met("to") <=> (query.to # 0 => r.created <= query.to)
  BY DEF Match, Alone, Everything, Within
<1>8. Match(id, query) <=>
        /\ query.status \in {Nil, r.status}
        /\ query.group \in {Nil, r.group}
        /\ query.assignee \in {Nil, r.assignee}
        /\ query.tag # Nil => query.tag \in Range(r.tags)
        /\ query.priority > 0 => r.priority = query.priority
        /\ query.from # 0 => r.created >= query.from
        /\ query.to # 0 => r.created <= query.to
  BY DEF Match, Within
<1>9. ASSUME NEW field \in Fields, query[field] = Everything[field] PROVE met(field)
  <2>1. Alone(query, field) = Everything  BY <1>9 DEF Alone, Everything
  <2>2. Match(id, Everything)  BY DEF Match, Everything, Within
  <2>. QED  BY <2>1, <2>2
<1>. HIDE DEF met, r
<1>10. (\A field \in Fields : met(field)) <=>
         /\ met("status") /\ met("group") /\ met("assignee") /\ met("tag")
         /\ met("priority") /\ met("from") /\ met("to")
  BY DEF Fields
<1>11. Match(id, query) <=> \A field \in Fields : met(field)
  BY <1>1, <1>2, <1>3, <1>4, <1>5, <1>6, <1>7, <1>8, <1>10
<1>. QED  BY <1>9, <1>11 DEF met

\* What a question becomes.
LEMMA ParsedType ==
  ASSUME NEW question \in Questions, NEW query, query = ParseFilter(question)
  PROVE  /\ DOMAIN query = Fields /\ DOMAIN Everything = Fields
         /\ query.priority \in Nat /\ query.from \in Nat /\ query.to \in Nat
<1>1. question \in Question  BY QueryAssumption
<1>2. /\ question.priority \in Int \cup {Absent, Bad}
      /\ question.from \in Nat \cup {Absent, Bad}
      /\ question.to \in Nat \cup {Absent, Bad}
  BY <1>1 DEF Question
<1>3. /\ Value(question.priority, 0) \in Int
      /\ Value(question.from, 0) \in Nat /\ Value(question.to, 0) \in Nat
  BY <1>2 DEF Value
<1>. HIDE DEF Value
<1>4. /\ DOMAIN query = Fields /\ query.from = Value(question.from, 0)
      /\ query.to = Value(question.to, 0)
      /\ query.priority = IF Value(question.priority, 0) > 0
                          THEN Value(question.priority, 0) ELSE 0
  BY DEF ParseFilter, Fields
<1>5. DOMAIN Everything = Fields  BY DEF Everything, Fields
<1>. QED  BY <1>3, <1>4, <1>5

\* A query for one group, one agent or a period finds what the function of
\* the report package for it finds.
LEMMA OneFieldFinds ==
  ASSUME TypeOK, NEW list \in ListRequests
  PROVE  /\ \A from \in Nat, to \in Nat :
              Range(Apply(list, Window(from, to))) = Range(TimeRange(list, from, to))
         /\ \A g \in Groups :
              Range(Apply(list, [Everything EXCEPT !.group = g]))
                = Range(RequestsForGroup(list, g))
         /\ \A a \in Users :
              Range(Apply(list, [Everything EXCEPT !.assignee = a]))
                = Range(RequestsForAssignee(list, a))
<1>. DEFINE n == Cardinality(Stored)
<1>1. n \in Nat /\ Lists(list, n, Stored)  BY ListingLists
<1>. HIDE DEF n
<1>2. ASSUME NEW from \in Nat, NEW to \in Nat
      PROVE  Range(Apply(list, Window(from, to))) = Range(TimeRange(list, from, to))
  <2>. DEFINE C == {id \in Stored : /\ from # 0 => bucket[id].created >= from
                                    /\ to # 0 => bucket[id].created <= to}
  <2>1. Matches(Window(from, to)) = Stored \cap C
    BY DEF Matches, Match, Window, Everything, Within
  <2>2. TimeRange(list, from, to) = Select(list, C)  BY DEF TimeRange
  <2>. HIDE DEF C
  <2>3. Range(Select(list, C)) = Stored \cap C  BY <1>1, SelectLists
  <2>. QED  BY <2>1, <2>2, <2>3, ApplyLists
<1>3. ASSUME NEW g \in Groups
      PROVE  Range(Apply(list, [Everything EXCEPT !.group = g]))
               = Range(RequestsForGroup(list, g))
  <2>. DEFINE C == {id \in Stored : bucket[id].group = g}
              query == [Everything EXCEPT !.group = g]
  <2>0. g # Nil  BY QueryAssumption
  <2>1. Matches(query) = Stored \cap C
    BY <2>0 DEF Matches, Match, Everything, Within
  <2>2. RequestsForGroup(list, g) = Select(list, C)  BY DEF RequestsForGroup
  <2>. HIDE DEF C, query
  <2>3. Range(Select(list, C)) = Stored \cap C  BY <1>1, SelectLists
  <2>4. Range(Apply(list, query)) = Matches(query)  BY ApplyLists
  <2>. QED  BY <2>1, <2>2, <2>3, <2>4 DEF query
<1>4. ASSUME NEW a \in Users
      PROVE  Range(Apply(list, [Everything EXCEPT !.assignee = a]))
               = Range(RequestsForAssignee(list, a))
  <2>. DEFINE C == {id \in Stored : bucket[id].assignee = a}
              query == [Everything EXCEPT !.assignee = a]
  <2>0. a # Nil  BY QueryAssumption
  <2>1. Matches(query) = Stored \cap C
    BY <2>0 DEF Matches, Match, Everything, Within
  <2>2. RequestsForAssignee(list, a) = Select(list, C)  BY DEF RequestsForAssignee
  <2>. HIDE DEF C, query
  <2>3. Range(Select(list, C)) = Stored \cap C  BY <1>1, SelectLists
  <2>4. Range(Apply(list, query)) = Matches(query)  BY ApplyLists
  <2>. QED  BY <2>1, <2>2, <2>3, <2>4 DEF query
<1>. QED  BY <1>2, <1>3, <1>4

\* A query with several fields finds what the queries with one find together,
\* and its period finds what the report's does.
FindsTogether(list, query) ==
  LET found == Apply(list, query)
      asked == {field \in DOMAIN query : query[field] # Everything[field]}
      alone == [field \in asked |-> Range(Apply(list, Alone(query, field)))]
  IN /\ Range(found) = {id \in Stored : \A field \in asked : id \in alone[field]}
     /\ \A i, j \in DOMAIN found : i < j =>
          bucket[found[i]].priority >= bucket[found[j]].priority
     /\ Range(Apply(list, Window(query.from, query.to)))
          = Range(TimeRange(list, query.from, query.to))

LEMMA FieldsTogether ==
  ASSUME TypeOK, NEW list \in ListRequests, NEW query,
         DOMAIN query = Fields, DOMAIN Everything = Fields,
         query.from \in Nat, query.to \in Nat
  PROVE  FindsTogether(list, query)
<1>. DEFINE found == Apply(list, query)
            asked == {field \in DOMAIN query : query[field] # Everything[field]}
            alone == [field \in asked |-> Range(Apply(list, Alone(query, field)))]
            m == Cardinality(Matches(query))
<1>1. /\ Range(found) = Matches(query) /\ DOMAIN found = 1 .. m
      /\ found \in [1 .. m -> Matches(query)]
      /\ \A i, j \in 1 .. m : i < j => ~Urgent(found[j], found[i])
  BY ApplyLists DEF Lists
<1>2. \A field \in asked : alone[field] = Matches(Alone(query, field))
  BY ApplyLists
<1>3. ASSUME NEW id \in Stored
      PROVE  id \in Matches(query) <=> \A field \in asked : id \in alone[field]
  <2>1. \A field \in asked : id \in alone[field] <=> Match(id, Alone(query, field))
    BY <1>2 DEF Matches
  <2>2. \A field \in Fields : field \in asked \/ Match(id, Alone(query, field))
    BY MatchByFields
  <2>3. asked \subseteq Fields  OBVIOUS
  <2>4. Match(id, query) <=> \A field \in Fields : Match(id, Alone(query, field))
    BY MatchByFields
  <2>. HIDE DEF asked, alone
  <2>5. Match(id, query) <=> \A field \in asked : id \in alone[field]
    BY <2>1, <2>2, <2>3, <2>4
  <2>. QED  BY <2>5 DEF Matches
<1>4. Matches(query) \subseteq Stored  BY DEF Matches
<1>5. ASSUME NEW i \in DOMAIN found, NEW j \in DOMAIN found, i < j
      PROVE  bucket[found[i]].priority >= bucket[found[j]].priority
  <2>. HIDE DEF found, m
  <2>1. i \in 1 .. m /\ j \in 1 .. m  BY <1>1
  <2>2. found[i] \in Stored /\ found[j] \in Stored /\ ~Urgent(found[j], found[i])
    BY <1>1, <1>4, <1>5, <2>1
  <2>3. bucket[found[i]].priority \in Int /\ bucket[found[j]].priority \in Int
    BY <2>2, StoredType
  <2>. QED  BY <2>2, <2>3 DEF Urgent
<1>6. Range(found) = {id \in Stored : \A field \in asked : id \in alone[field]}
  BY <1>1, <1>3, <1>4
<1>7. Range(Apply(list, Window(query.from, query.to)))
        = Range(TimeRange(list, query.from, query.to))
  BY OneFieldFinds
<1>. QED  BY <1>5, <1>6, <1>7 DEF FindsTogether

\* The lengths of two selections that share no request add up.
LEMMA SelectionsAdd ==
  ASSUME TypeOK, NEW list \in ListRequests, NEW C, NEW D,
         Stored \cap C \cap D = {}
  PROVE  Len(Select(list, C)) + Len(Select(list, D)) = Len(Select(list, C \cup D))
<1>. DEFINE A == Stored \cap C
            B == Stored \cap D
            U == Stored \cap (C \cup D)
<1>1. A \cap B = {} /\ U = A \cup B  OBVIOUS
<1>2. IsFiniteSet(A) /\ Len(Select(list, C)) = Cardinality(A)  BY Selected
<1>3. IsFiniteSet(B) /\ Len(Select(list, D)) = Cardinality(B)  BY Selected
<1>4. Len(Select(list, C \cup D)) = Cardinality(U)  BY Selected
<1>. HIDE DEF A, B, U
<1>5. /\ Cardinality(A) \in Nat /\ Cardinality(B) \in Nat
      /\ Cardinality(A \cup B)
           = Cardinality(A) + Cardinality(B) - Cardinality(A \cap B)
  BY <1>2, <1>3, FS_Union, FS_CardinalityType
<1>6. Cardinality(A \cap B) = 0  BY <1>1, FS_EmptySet
<1>. QED  BY <1>1, <1>2, <1>3, <1>4, <1>5, <1>6

\* All that is stored is selected in a list as long as the list.
LEMMA SelectAll ==
  ASSUME TypeOK, NEW list \in ListRequests, NEW C, Stored \subseteq C
  PROVE  Len(Select(list, C)) = Len(list)
<1>. DEFINE n == Cardinality(Stored)
            S == Stored
<1>1. n \in Nat /\ Lists(list, n, S) /\ S \cap C = S  BY ListingLists
<1>2. Len(Select(list, C)) = Cardinality(S \cap C)  BY Selected
<1>. HIDE DEF n, S
<1>3. Len(list) = n /\ n = Cardinality(S)  BY <1>1, ListLength
<1>. QED  BY <1>1, <1>2, <1>3

\* What the lists agree on follows from the types.
LEMMA AgreeingLists == TypeOK => ListingsAgree
<1>. SUFFICES ASSUME TypeOK, NEW list \in ListRequests
     PROVE  /\ \A question \in Questions : FindsTogether(list, ParseFilter(question))
            /\ \A g \in Groups :
                 /\ Range(Apply(list, [Everything EXCEPT !.group = g]))
                      = Range(RequestsForGroup(list, g))
                 /\ Len(ExcludeGroup(list, g)) + Len(RequestsForGroup(list, g))
                      = Len(list)
            /\ \A a \in Users : Range(Apply(list, [Everything EXCEPT !.assignee = a]))
                                  = Range(RequestsForAssignee(list, a))
  BY DEF ListingsAgree, FindsTogether
<1>1. ASSUME NEW question \in Questions
      PROVE  FindsTogether(list, ParseFilter(question))
  BY ParsedType, FieldsTogether
<1>2. ASSUME NEW g \in Groups
      PROVE  Len(ExcludeGroup(list, g)) + Len(RequestsForGroup(list, g)) = Len(list)
  <2>. DEFINE C == {id \in Stored : bucket[id].group # g}
              D == {id \in Stored : bucket[id].group = g}
  <2>1. ExcludeGroup(list, g) = Select(list, C)  BY DEF ExcludeGroup
  <2>2. RequestsForGroup(list, g) = Select(list, D)  BY DEF RequestsForGroup
  <2>3. Stored \cap C \cap D = {} /\ Stored \subseteq C \cup D  OBVIOUS
  <2>. HIDE DEF C, D
  <2>4. Len(Select(list, C)) + Len(Select(list, D)) = Len(Select(list, C \cup D))
    BY <2>3, SelectionsAdd
  <2>5. Len(Select(list, C \cup D)) = Len(list)  BY <2>3, SelectAll
  <2>. QED  BY <2>1, <2>2, <2>4, <2>5
<1>. QED  BY <1>1, <1>2, OneFieldFinds

\* However requests of one moment are listed, what a query finds does not
\* depend on it, nor on which of two ways a group, an agent or a period is
\* asked for.
THEOREM ListingsAlwaysAgree == Spec => []ListingsAgree
BY AgreeingLists, QueryTypes, PTL

\* A query that no request matches finds nothing.
LEMMA NothingFound ==
  ASSUME TypeOK, NEW list \in ListRequests, NEW query, Matches(query) = {}
  PROVE  Apply(list, query) = << >>
<1>. DEFINE r == Apply(list, query)
            m == Cardinality(Matches(query))
<1>1. Lists(r, m, Matches(query)) /\ m = 0  BY ApplyLists, FS_EmptySet
<1>. HIDE DEF r, m
<1>2. r \in Seq(Matches(query)) /\ Len(r) = 0  BY <1>1, ListLength
<1>3. r = << >>  BY <1>2, EmptySeq
<1>. QED  BY <1>3 DEF r

\* What a question asks of the two parsers.
LEMMA QuestionIs ==
  ASSUME NEW question \in Questions
  PROVE  /\ question \in Question /\ DOMAIN question = Fields
         /\ \A field \in {"status", "group", "assignee", "tag"} :
              question[field] \in Words /\ Trim[question[field]] \in Words
         /\ question.priority \in Int \cup {Absent, Bad}
         /\ question.from \in Nat \cup {Absent, Bad}
         /\ question.to \in Nat \cup {Absent, Bad}
         /\ Value(question.priority, 0) \in Int
         /\ Value(question.from, 0) \in Nat /\ Value(question.to, 0) \in Nat
<1>1. question \in Question  BY QueryAssumption
<1>2. DOMAIN question = Fields  BY <1>1 DEF Question, Fields
<1>. QED  BY <1>1, <1>2, QueryAssumption DEF Question, Value

\* What filter.Parse accepts is read alike, if nothing is cut.
LEMMA ReadAlike ==
  ASSUME NEW question \in Questions, ~Refused(question)
  PROVE  /\ Parse(question).priority = ParseFilter(question).priority
         /\ Parse(question).from = ParseFilter(question).from
         /\ Parse(question).to = ParseFilter(question).to
         /\ (\A field \in {"status", "group", "assignee", "tag"} :
               Trim[question[field]] = question[field])
              => Parse(question) = ParseFilter(question)
<1>1. question.priority = Absent \/ question.priority \in 1 .. 5  BY DEF Refused
<1>2. Value(question.priority, 0)
        = IF Value(question.priority, 0) > 0 THEN Value(question.priority, 0) ELSE 0
  BY <1>1, QueryAssumption DEF Value
<1>. HIDE DEF Value
<1>. QED  BY <1>2 DEF Parse, ParseFilter

\* If blanks are all that is cut, the routes ask for more than filter.Parse.
LEMMA EmptiedWidens ==
  ASSUME NEW question \in Questions, ~Refused(question), NEW id,
         \A field \in {"status", "group", "assignee", "tag"} :
           Trim[question[field]] \in {question[field], Nil},
         Match(id, ParseFilter(question))
  PROVE  Match(id, Parse(question))
<1>. DEFINE p == Parse(question)
            f == ParseFilter(question)
<1>1. p.priority = f.priority /\ p.from = f.from /\ p.to = f.to  BY ReadAlike
<1>2. /\ p.status \in {f.status, Nil} /\ p.group \in {f.group, Nil}
      /\ p.assignee \in {f.assignee, Nil} /\ p.tag \in {f.tag, Nil}
  <2>1. /\ p.status = Trim[question.status] /\ p.group = Trim[question.group]
        /\ p.assignee = Trim[question.assignee] /\ p.tag = Trim[question.tag]
        /\ f.status = question.status /\ f.group = question.group
        /\ f.assignee = question.assignee /\ f.tag = question.tag
    BY DEF Parse, ParseFilter
  <2>2. /\ Trim[question["status"]] \in {question["status"], Nil}
        /\ Trim[question["group"]] \in {question["group"], Nil}
        /\ Trim[question["assignee"]] \in {question["assignee"], Nil}
        /\ Trim[question["tag"]] \in {question["tag"], Nil}
    OBVIOUS
  <2>. QED  BY <2>1, <2>2
<1>3. Match(id, f)  OBVIOUS
<1>. HIDE DEF p, f
<1>4. Match(id, p)  BY <1>1, <1>2, <1>3 DEF Match
<1>. QED  BY <1>4 DEF p

\* With blanks around its word for a status, a group or an assignee a question
\* finds nothing of what it finds without.
LEMMA BlanksPart ==
  ASSUME NEW question \in Questions, NEW id,
         NEW field \in {"status", "group", "assignee"},
         Trim[question[field]] \notin {question[field], Nil},
         Match(id, ParseFilter(question)), Match(id, Parse(question))
  PROVE  FALSE
<1>. DEFINE p == Parse(question)
            f == ParseFilter(question)
<1>0. Trim[Nil] = Nil  BY QueryAssumption
<1>1. /\ p.status = Trim[question.status] /\ p.group = Trim[question.group]
      /\ p.assignee = Trim[question.assignee]
      /\ f.status = question.status /\ f.group = question.group
      /\ f.assignee = question.assignee
  BY DEF Parse, ParseFilter
<1>2. Match(id, f) /\ Match(id, p)  OBVIOUS
<1>. HIDE DEF p, f
<1>3. /\ f.status \in {Nil, bucket[id].status} /\ p.status \in {Nil, bucket[id].status}
      /\ f.group \in {Nil, bucket[id].group} /\ p.group \in {Nil, bucket[id].group}
      /\ f.assignee \in {Nil, bucket[id].assignee}
      /\ p.assignee \in {Nil, bucket[id].assignee}
  BY <1>2 DEF Match
<1>4. CASE field = "status"  BY <1>0, <1>1, <1>3, <1>4
<1>5. CASE field = "group"  BY <1>0, <1>1, <1>3, <1>5
<1>6. CASE field = "assignee"  BY <1>0, <1>1, <1>3, <1>6
<1>. QED  BY <1>4, <1>5, <1>6

\* What is refused although it can be read matches nothing.
LEMMA RefusedMatchesNothing ==
  ASSUME TypeOK, NEW question \in Questions, Refused(question),
         Unread(question) = {}, NEW id \in Stored
  PROVE  ~Match(id, ParseFilter(question))
<1>. DEFINE f == ParseFilter(question)
            priority == Value(question.priority, 0)
            from == Value(question.from, 0)
            to == Value(question.to, 0)
<1>1. bucket[id].created \in Nat /\ bucket[id].priority \in 1 .. 5  BY StoredType
<1>2. priority \in Int /\ from \in Nat /\ to \in Nat
      /\ question.priority \in Int \cup {Absent, Bad}
  BY QuestionIs
<1>3. /\ question["priority"] # Bad /\ question["from"] # Bad /\ question["to"] # Bad
      /\ question["priority"] = Absent \/ ~(question["priority"] < 1)
  BY DEF Unread
<1>4. /\ f.priority = IF priority > 0 THEN priority ELSE 0
      /\ f.from = from /\ f.to = to
  BY DEF ParseFilter
<1>5. \/ /\ question.priority # Absent /\ question.priority \notin 1 .. 5
      \/ from # 0 /\ to # 0 /\ from > to
  BY <1>3 DEF Refused
<1>6. ASSUME Match(id, f)
      PROVE  /\ f.priority > 0 => bucket[id].priority = f.priority
             /\ f.from # 0 => bucket[id].created >= f.from
             /\ f.to # 0 => bucket[id].created <= f.to
  BY <1>6 DEF Match, Within
<1>7. question.priority \notin {Absent, Bad} => priority = question.priority
  BY DEF Value
<1>. HIDE DEF f, priority, from, to
<1>8. CASE question.priority # Absent /\ question.priority \notin 1 .. 5
  <2>1. question.priority \in Int /\ question.priority > 5  BY <1>2, <1>3, <1>8
  <2>2. priority = question.priority  BY <1>3, <1>7, <1>8
  <2>3. f.priority = priority /\ f.priority > 5  BY <1>4, <2>1, <2>2
  <2>. QED  BY <1>1, <1>2, <1>6, <2>3 DEF f
<1>9. CASE from # 0 /\ to # 0 /\ from > to
  BY <1>1, <1>2, <1>4, <1>6, <1>9 DEF f
<1>. QED  BY <1>5, <1>8, <1>9

\* A field that is dropped is met by every request.
LEMMA UnreadWidens ==
  ASSUME NEW question \in Questions, NEW other \in Questions,
         NEW field \in Unread(question),
         other = [question EXCEPT ![field] = other[field]], NEW id,
         Match(id, ParseFilter(other))
  PROVE  Match(id, ParseFilter(question))
<1>. DEFINE f == ParseFilter(question)
            o == ParseFilter(other)
<1>1. field \in {"priority", "from", "to"} /\ DOMAIN question = Fields
  BY QuestionIs DEF Unread
<1>2. \A e \in Fields \ {field} : other[e] = question[e]
  BY <1>1
<1>3. /\ f.status = question.status /\ f.group = question.group
      /\ f.assignee = question.assignee /\ f.tag = question.tag
      /\ f.priority = IF Value(question.priority, 0) > 0
                      THEN Value(question.priority, 0) ELSE 0
      /\ f.from = Value(question.from, 0) /\ f.to = Value(question.to, 0)
      /\ o.status = other.status /\ o.group = other.group
      /\ o.assignee = other.assignee /\ o.tag = other.tag
      /\ o.priority = IF Value(other.priority, 0) > 0
                      THEN Value(other.priority, 0) ELSE 0
      /\ o.from = Value(other.from, 0) /\ o.to = Value(other.to, 0)
  BY DEF ParseFilter
<1>4. /\ other["status"] = question["status"] /\ other["group"] = question["group"]
      /\ other["assignee"] = question["assignee"] /\ other["tag"] = question["tag"]
      /\ field # "priority" => other["priority"] = question["priority"]
      /\ field # "from" => other["from"] = question["from"]
      /\ field # "to" => other["to"] = question["to"]
  BY <1>1, <1>2 DEF Fields
<1>5. /\ f.status = o.status /\ f.group = o.group /\ f.assignee = o.assignee
      /\ f.tag = o.tag
      /\ field # "priority" => f.priority = o.priority
      /\ field # "from" => f.from = o.from
      /\ field # "to" => f.to = o.to
  <2>. HIDE DEF f, o
  <2>. QED  BY <1>3, <1>4
<1>6. /\ field = "priority" => ~(f.priority > 0)
      /\ field = "from" => f.from = 0
      /\ field = "to" => f.to = 0
  <2>1. \/ question[field] = Bad
        \/ field = "priority" /\ question[field] # Absent /\ question[field] < 1
    BY DEF Unread
  <2>2. question[field] = Bad => Value(question[field], 0) = 0  BY DEF Value
  <2>3. Value(question.priority, 0) \in Int  BY QuestionIs
  <2>4. ASSUME field = "priority" PROVE ~(Value(question.priority, 0) > 0)
    <3>1. CASE question.priority = Bad  BY <3>1 DEF Value
    <3>2. CASE question.priority # Bad
      <4>1. question.priority # Absent /\ question.priority < 1
        BY <2>1, <2>4, <3>2
      <4>2. Value(question.priority, 0) = question.priority
        BY <3>2, <4>1 DEF Value
      <4>. QED  BY <2>3, <4>1, <4>2
    <3>. QED  BY <3>1, <3>2
  <2>. HIDE DEF f, o
  <2>. QED  BY <1>3, <2>1, <2>2, <2>4
<1>7. Match(id, o)  OBVIOUS
<1>. HIDE DEF f, o
<1>8. /\ o.status \in {Nil, bucket[id].status} /\ o.group \in {Nil, bucket[id].group}
      /\ o.assignee \in {Nil, bucket[id].assignee}
      /\ o.priority > 0 => bucket[id].priority = o.priority
      /\ o.from # 0 => bucket[id].created >= o.from
      /\ o.to # 0 => bucket[id].created <= o.to
      /\ o.tag # Nil => o.tag \in Range(bucket[id].tags)
  BY <1>7 DEF Match, Within
<1>9. f.priority > 0 => bucket[id].priority = f.priority  BY <1>5, <1>6, <1>8
<1>10. f.from # 0 => bucket[id].created >= f.from  BY <1>5, <1>6, <1>8
<1>11. f.to # 0 => bucket[id].created <= f.to  BY <1>5, <1>6, <1>8
<1>12. Match(id, f)  BY <1>5, <1>8, <1>9, <1>10, <1>11 DEF Match, Within
<1>. QED  BY <1>12 DEF f

\* What the parsers agree on follows from the types.
LEMMA AgreeingParsers == TypeOK => ParsersAgree
<1>. SUFFICES ASSUME TypeOK, NEW question \in Questions, NEW list \in ListRequests
     PROVE  LET Found(query) == Range(Apply(list, query))
                routed == Found(ParseFilter(question))
                words == {"status", "group", "assignee", "tag"}
                cut == {field \in words : Trim[question[field]] # question[field]}
                emptied == {field \in cut : Trim[question[field]] = Nil}
            IN /\ ~Refused(question) =>
                    /\ cut = {} => Parse(question) = ParseFilter(question)
                    /\ cut = emptied => routed \subseteq Found(Parse(question))
                    /\ \/ cut \ emptied \subseteq {"tag"}
                       \/ routed \cap Found(Parse(question)) = {}
               /\ Refused(question) /\ Unread(question) = {} => routed = {}
               /\ \A field \in Unread(question), other \in Questions :
                    other = [question EXCEPT ![field] = other[field]] =>
                      Found(ParseFilter(other)) \subseteq routed
  BY DEF ParsersAgree
<1>. DEFINE words == {"status", "group", "assignee", "tag"}
            cut == {field \in words : Trim[question[field]] # question[field]}
            emptied == {field \in cut : Trim[question[field]] = Nil}
            routed == Range(Apply(list, ParseFilter(question)))
            strict == Range(Apply(list, Parse(question)))
<1>1. \A query : Range(Apply(list, query)) = Matches(query)  BY ApplyLists
<1>2. ~Refused(question) /\ cut = {} => Parse(question) = ParseFilter(question)
  BY ReadAlike
<1>3. ASSUME ~Refused(question), cut = emptied PROVE routed \subseteq strict
  <2>1. \A field \in words : Trim[question[field]] \in {question[field], Nil}
    BY <1>3
  <2>2. Matches(ParseFilter(question)) \subseteq Matches(Parse(question))
    BY <1>3, <2>1, EmptiedWidens DEF Matches
  <2>. QED  BY <1>1, <2>2
<1>4. ASSUME NEW field \in cut \ emptied, field # "tag" PROVE routed \cap strict = {}
  <2>1. /\ field \in {"status", "group", "assignee"}
        /\ Trim[question[field]] \notin {question[field], Nil}
    BY <1>4
  <2>2. Matches(ParseFilter(question)) \cap Matches(Parse(question)) = {}
    BY <2>1, BlanksPart DEF Matches
  <2>. QED  BY <1>1, <2>2
<1>5. ASSUME Refused(question), Unread(question) = {} PROVE routed = {}
  <2>1. Matches(ParseFilter(question)) = {}
    BY <1>5, RefusedMatchesNothing DEF Matches
  <2>. QED  BY <1>1, <2>1
<1>6. ASSUME NEW field \in Unread(question), NEW other \in Questions,
             other = [question EXCEPT ![field] = other[field]]
      PROVE  Range(Apply(list, ParseFilter(other))) \subseteq routed
  <2>1. Matches(ParseFilter(other)) \subseteq Matches(ParseFilter(question))
    BY <1>6, UnreadWidens DEF Matches
  <2>. QED  BY <1>1, <2>1
<1>. HIDE DEF cut, emptied
<1>7. cut \ emptied \subseteq {"tag"} \/ routed \cap strict = {}  BY <1>4
<1>. QED  BY <1>2, <1>3, <1>5, <1>6, <1>7 DEF cut, emptied

\* What filter.Parse accepts the routes read alike but for blanks, what it
\* refuses and they can read finds nothing, and what they cannot read widens
\* the answer.
THEOREM ParsersAlwaysAgree == Spec => []ParsersAgree
BY AgreeingParsers, QueryTypes, PTL

-----------------------------------------------------------------------------
(***************************************************************************)
(* Pages.                                                                  *)
(***************************************************************************)

\* The numbers 0, 1, ... in rows of s.
LEMMA Rows ==
  ASSUME NEW s \in Nat \ {0}
  PROVE  /\ \A a \in Nat : a * s \in Nat /\ a <= a * s
         /\ \A a, b \in Nat : a < b => a * s + s <= b * s
<1>1. ASSUME NEW a \in Nat PROVE a * s \in Nat /\ a <= a * s  OBVIOUS
<1>2. ASSUME NEW a \in Nat, NEW b \in Nat, a < b PROVE a * s + s <= b * s
  <2>1. PICK c \in Nat : b = (a + 1) + c
    <3>1. b - (a + 1) \in Nat /\ b = (a + 1) + (b - (a + 1))  BY <1>2
    <3>. QED  BY <3>1
  <2>2. b * s = a * s + s + c * s  BY <2>1
  <2>3. a * s \in Nat /\ c * s \in Nat  BY <1>1
  <2>. QED  BY <2>2, <2>3
<1>. QED  BY <1>1, <1>2

LEMMA RowOf ==
  ASSUME NEW s \in Nat \ {0}, NEW x \in Nat
  PROVE  \E a \in Nat : \E k \in 1 .. s : x + 1 = a * s + k
<1>1. x \div s \in Nat /\ x % s \in 0 .. s - 1 /\ x = (x \div s) * s + (x % s)
  OBVIOUS
<1>. DEFINE a == x \div s
            k == (x % s) + 1
<1>2. a \in Nat /\ k \in 1 .. s  BY <1>1
<1>3. x + 1 = a * s + k
  <2>1. a * s \in Nat  BY <1>2
  <2>. QED  BY <1>1, <2>1
<1>. QED  BY <1>2, <1>3

\* A number that fits into an int is what it is in int arithmetic.
LEMMA WrapFits ==
  ASSUME NEW x \in Nat, x < Limit PROVE Wrap(x) = x
<1>. DEFINE a == x + Limit
            b == 2 * Limit
<1>1. Limit \in Nat \ {0}  BY QueryAssumption
<1>2. a \in Nat /\ b \in Nat \ {0} /\ a < b /\ a - Limit = x  BY <1>1
<1>3. Wrap(x) = (a % b) - Limit  BY DEF Wrap
<1>. HIDE DEF a, b
<1>4. a % b = a  BY <1>2
<1>. QED  BY <1>2, <1>3, <1>4

Fitting(ps) == {n \in 1 .. Limit : (n - 1) * ps < Limit}

\* The place in the list of the request at place k of page m.
At(ps, m, k) == (m - 1) * ps + k

\* What a page holds: the requests from its first on, up to its size.
LEMMA PageHolds ==
  ASSUME TypeOK, NEW list \in ListRequests, NEW size \in Sizes,
         NEW m \in Fitting(PageSize(size)),
         NEW r, r = Paginate(list, m, size)
  PROVE  /\ PageSize(size) \in Nat \ {0}
         /\ r \in Seq(Ids) /\ Len(r) <= PageSize(size)
         /\ \A k \in 1 .. PageSize(size) :
              /\ k \in DOMAIN r <=> (m - 1) * PageSize(size) + k <= Len(list)
              /\ k \in DOMAIN r => r[k] = list[(m - 1) * PageSize(size) + k]
<1>. DEFINE ps == PageSize(size)
            n == Len(list)
            start == (m - 1) * ps
            end == IF start + ps > n THEN n ELSE start + ps
<1>1. ps \in Nat \ {0}  BY QueryAssumption DEF PageSize
<1>2. n \in Nat /\ list \in Seq(Ids) /\ DOMAIN list = 1 .. n
  <2>. DEFINE c == Cardinality(Stored)
              S == Stored
  <2>1. c \in Nat /\ Lists(list, c, S) /\ S \in SUBSET Ids
    BY ListingLists, StoredType
  <2>. HIDE DEF c, S
  <2>2. list \in Seq(S) /\ DOMAIN list = 1 .. c /\ Len(list) = c
    BY <2>1, ListLength
  <2>. QED  BY <2>1, <2>2
<1>3. m \in 1 .. Limit /\ start < Limit  BY DEF Fitting
<1>. HIDE DEF ps, n
<1>4. start \in Nat
  <2>1. m - 1 \in Nat  BY <1>3
  <2>. QED  BY <1>1, <2>1, Rows
<1>5. Start(PageNumber(m), ps) = start
  <2>1. PageNumber(m) = m  BY <1>3 DEF PageNumber
  <2>. HIDE DEF start
  <2>2. Wrap(start) = start  BY <1>3, <1>4, WrapFits
  <2>. QED  BY <2>1, <2>2 DEF Start, start
<1>. HIDE DEF start
<1>6. r = IF start >= n THEN << >>
          ELSE IF start < 0 THEN Panic ELSE SubSeq(list, start + 1, end)
  BY <1>5 DEF Paginate, ps, n
<1>7. CASE start >= n
  <2>1. r = << >>  BY <1>6, <1>7
  <2>. QED  BY <1>1, <1>2, <1>4, <1>7, <2>1 DEF ps, n, start
<1>8. CASE start < n
  <2>1. end \in start + 1 .. n /\ end - start <= ps
    BY <1>1, <1>2, <1>4, <1>8
  <2>2. \A k \in 1 .. ps : k <= end - start <=> start + k <= n
    BY <1>1, <1>2, <1>4, <1>8
  <2>. HIDE DEF end
  <2>3. r = SubSeq(list, start + 1, end)
    <3>1. ~(start >= n) /\ ~(start < 0)  BY <1>2, <1>4, <1>8
    <3>. QED  BY <1>6, <3>1
  <2>4. /\ r \in Seq(Ids) /\ Len(r) = end - start
        /\ \A k \in 1 .. end - start : r[k] = list[start + k]
    <3>1. start + 1 \in 1 .. n + 1 /\ end \in start .. n  BY <1>2, <1>4, <2>1
    <3>2. r = [k \in 1 .. (end - start) |-> list[start + k]]
      <4>1. r = [k \in 1 .. (end - (start + 1) + 1) |-> list[k + (start + 1) - 1]]
        BY <1>2, <1>4, <2>1, <2>3
      <4>2. end - (start + 1) + 1 = end - start  BY <1>4, <2>1
      <4>3. \A k \in 1 .. end - start : k + (start + 1) - 1 = start + k
        BY <1>4, <2>1
      <4>. QED  BY <4>1, <4>2, <4>3
    <3>3. \A k \in 1 .. end - start : start + k \in 1 .. n  BY <1>2, <1>4, <2>1
    <3>4. \A k \in 1 .. end - start : list[start + k] \in Ids  BY <1>2, <3>3
    <3>5. end - start \in Nat  BY <1>4, <2>1
    <3>. QED  BY <3>2, <3>4, <3>5
  <2>5. DOMAIN r = 1 .. end - start  BY <2>4
  <2>. QED  BY <1>1, <1>4, <2>1, <2>2, <2>4, <2>5 DEF ps, n, start
<1>. QED  BY <1>2, <1>4, <1>7, <1>8

\* A place of a list is on a page ...
LEMMA SomePlace ==
  ASSUME NEW ps \in Nat \ {0}, NEW n \in Nat, n < Limit, NEW i \in 1 .. n
  PROVE  \E m \in Fitting(ps) : \E k \in 1 .. ps : At(ps, m, k) = i
<1>1. i - 1 \in Nat /\ (i - 1) + 1 = i /\ Limit \in Nat  BY QueryAssumption
<1>2. PICK a \in Nat : \E k \in 1 .. ps : (i - 1) + 1 = a * ps + k
  BY <1>1, RowOf
<1>3. PICK k \in 1 .. ps : i = a * ps + k  BY <1>1, <1>2
<1>. DEFINE m == a + 1
<1>4. a * ps \in Nat /\ a <= a * ps  BY Rows
<1>5. a * ps < Limit /\ a + 1 <= Limit  BY <1>1, <1>3, <1>4
<1>6. m - 1 = a /\ m \in 1 .. Limit  BY <1>1, <1>5
<1>7. m \in Fitting(ps)  BY <1>5, <1>6 DEF Fitting
<1>8. At(ps, m, k) = i  BY <1>3, <1>6 DEF At
<1>. HIDE DEF m
<1>. QED  BY <1>7, <1>8

\* ... and on no other, since the pages do not overlap.
LEMMA PagesInOrder ==
  ASSUME NEW ps \in Nat \ {0}, NEW l \in Fitting(ps), NEW m \in Fitting(ps),
         NEW j \in 1 .. ps, NEW k \in 1 .. ps, l < m
  PROVE  At(ps, l, j) < At(ps, m, k)
<1>1. l - 1 \in Nat /\ m - 1 \in Nat /\ l - 1 < m - 1  BY DEF Fitting
<1>2. (l - 1) * ps + ps <= (m - 1) * ps  BY <1>1, Rows
<1>3. (l - 1) * ps \in Nat /\ (m - 1) * ps \in Nat  BY <1>1, Rows
<1>. QED  BY <1>2, <1>3 DEF At

LEMMA OnePlace ==
  ASSUME NEW ps \in Nat \ {0}, NEW l \in Fitting(ps), NEW m \in Fitting(ps),
         NEW j \in 1 .. ps, NEW k \in 1 .. ps, At(ps, l, j) = At(ps, m, k)
  PROVE  l = m /\ j = k
<1>1. l - 1 \in Nat /\ m - 1 \in Nat /\ l \in Nat /\ m \in Nat  BY DEF Fitting
<1>2. (l - 1) * ps \in Nat /\ (m - 1) * ps \in Nat  BY <1>1, Rows
<1>3. At(ps, l, j) \in Nat /\ At(ps, m, k) \in Nat  BY <1>2 DEF At
<1>4. ~(l < m) /\ ~(m < l)  BY <1>3, PagesInOrder
<1>5. l = m  BY <1>1, <1>4
<1>. QED  BY <1>2, <1>5 DEF At

LEMMA Partition == TypeOK => PagesPartition
<1>. SUFFICES ASSUME TypeOK, NEW list \in ListRequests, NEW size \in Sizes
     PROVE  LET fitting == {n \in 1 .. Limit : (n - 1) * PageSize(size) < Limit}
                page == [n \in fitting |-> Paginate(list, n, size)]
                places == {p \in fitting \X (1 .. PageSize(size)) :
                             p[2] \in DOMAIN page[p[1]]}
            IN /\ \A n \in fitting : page[n] # Panic /\ Len(page[n]) <= PageSize(size)
               /\ \A i \in DOMAIN list :
                    Cardinality({p \in places : page[p[1]][p[2]] = list[i]}) = 1
               /\ \A p, q \in places : p[1] < q[1] =>
                    ~Earlier(page[q[1]][q[2]], page[p[1]][p[2]])
               /\ \A number \in Numbers :
                    number < 1 => Paginate(list, number, size) = page[1]
  BY DEF PagesPartition
<1>. DEFINE n == Cardinality(Stored)
            ps == PageSize(size)
            fitting == Fitting(ps)
            page == [m \in fitting |-> Paginate(list, m, size)]
            places == {p \in fitting \X (1 .. ps) : p[2] \in DOMAIN page[p[1]]}
            at(m, k) == At(ps, m, k)
<1>1. /\ n \in Nat /\ DOMAIN list = 1 .. n /\ Len(list) = n
      /\ \A i, j \in 1 .. n : list[i] = list[j] => i = j
      /\ \A i, j \in 1 .. n : i < j => ~Earlier(list[j], list[i])
  <2>. DEFINE S == Stored
  <2>1. /\ n \in Nat /\ Lists(list, n, S)
        /\ \A i, j \in 1 .. n : i < j => ~Earlier(list[j], list[i])
    BY ListingLists
  <2>. HIDE DEF n, S
  <2>. QED  BY <2>1, ListLength DEF Lists
<1>2. n < Limit
  <2>1. Stored \in SUBSET Ids /\ IsFiniteSet(Ids) /\ Cardinality(Ids) < Limit
        /\ Limit \in Nat
    BY StoredType, QueryAssumption
  <2>2. n <= Cardinality(Ids) /\ Cardinality(Ids) \in Nat
    BY <2>1, FS_Subset, FS_CardinalityType
  <2>. QED  BY <1>1, <2>1, <2>2
<1>. HIDE DEF n
<1>3. ps \in Nat \ {0} /\ Limit \in Nat \ {0}
  BY QueryAssumption DEF PageSize
<1>. HIDE DEF ps
<1>4. ASSUME NEW m \in fitting
      PROVE  /\ page[m] \in Seq(Ids) /\ Len(page[m]) <= ps
             /\ \A k \in 1 .. ps :
                  /\ k \in DOMAIN page[m] <=> at(m, k) <= n
                  /\ k \in DOMAIN page[m] => page[m][k] = list[at(m, k)]
  <2>1. page[m] = Paginate(list, m, size)  OBVIOUS
  <2>. HIDE DEF page
  <2>2. /\ page[m] \in Seq(Ids) /\ Len(page[m]) <= ps
        /\ \A k \in 1 .. ps :
             /\ k \in DOMAIN page[m] <=> (m - 1) * ps + k <= Len(list)
             /\ k \in DOMAIN page[m] => page[m][k] = list[(m - 1) * ps + k]
    BY <2>1, PageHolds DEF ps
  <2>. QED  BY <1>1, <2>2 DEF At
<1>. HIDE DEF page
<1>5. \A m \in fitting : page[m] # Panic /\ Len(page[m]) <= ps
  BY <1>4, QueryAssumption
<1>6. \A m \in fitting : \A k \in 1 .. ps : at(m, k) \in Nat /\ at(m, k) >= 1
  <2>1. ASSUME NEW m \in fitting, NEW k \in 1 .. ps
        PROVE  at(m, k) \in Nat /\ at(m, k) >= 1
    <3>1. m - 1 \in Nat  BY DEF Fitting
    <3>2. (m - 1) * ps \in Nat  BY <1>3, <3>1, Rows
    <3>. QED  BY <1>3, <3>2 DEF At
  <2>. QED  BY <2>1
<1>7. \A p \in places : /\ p[1] \in fitting /\ p[2] \in 1 .. ps
                        /\ p = <<p[1], p[2]>>
                        /\ at(p[1], p[2]) \in 1 .. n
                        /\ page[p[1]][p[2]] = list[at(p[1], p[2])]
  <2>1. SUFFICES ASSUME NEW p \in places
                 PROVE  /\ p[1] \in fitting /\ p[2] \in 1 .. ps
                        /\ p = <<p[1], p[2]>>
                        /\ at(p[1], p[2]) \in 1 .. n
                        /\ page[p[1]][p[2]] = list[at(p[1], p[2])]
    OBVIOUS
  <2>2. /\ p[1] \in fitting /\ p[2] \in 1 .. ps /\ p = <<p[1], p[2]>>
        /\ p[2] \in DOMAIN page[p[1]]
    OBVIOUS
  <2>3. at(p[1], p[2]) <= n /\ page[p[1]][p[2]] = list[at(p[1], p[2])]
    BY <1>4, <2>2
  <2>4. at(p[1], p[2]) \in 1 .. n  BY <1>1, <1>6, <2>2, <2>3
  <2>. QED  BY <2>2, <2>3, <2>4
<1>8. \A m \in fitting : \A k \in 1 .. ps : at(m, k) <= n => <<m, k>> \in places
  BY <1>4
<1>. HIDE DEF places, fitting
<1>9. ASSUME NEW i \in DOMAIN list
      PROVE  Cardinality({p \in places : page[p[1]][p[2]] = list[i]}) = 1
  <2>1. i \in 1 .. n  BY <1>1
  <2>2. PICK m \in fitting : \E k \in 1 .. ps : at(m, k) = i
    BY <1>1, <1>2, <1>3, <2>1, SomePlace DEF fitting
  <2>3. PICK k \in 1 .. ps : at(m, k) = i  BY <2>2
  <2>4. \A l \in fitting : \A j \in 1 .. ps : at(l, j) = i => l = m /\ j = k
    BY <1>3, <2>3, OnePlace DEF fitting
  <2>5. <<m, k>> \in places
    <3>1. at(m, k) <= n  BY <1>1, <2>1, <2>3
    <3>. QED  BY <1>8, <3>1
  <2>6. page[m][k] = list[i]  BY <1>7, <2>3, <2>5
  <2>7. ASSUME NEW p \in places, page[p[1]][p[2]] = list[i] PROVE p = <<m, k>>
    <3>1. at(p[1], p[2]) = i  BY <1>1, <1>7, <2>1, <2>7
    <3>2. p[1] = m /\ p[2] = k  BY <1>7, <2>4, <3>1
    <3>. QED  BY <1>7, <3>2
  <2>8. {p \in places : page[p[1]][p[2]] = list[i]} = {<<m, k>>}
    BY <2>5, <2>6, <2>7
  <2>. QED  BY <2>8, FS_Singleton
<1>10. ASSUME NEW p \in places, NEW q \in places, p[1] < q[1]
       PROVE  ~Earlier(page[q[1]][q[2]], page[p[1]][p[2]])
  <2>1. at(p[1], p[2]) < at(q[1], q[2])
    BY <1>3, <1>7, <1>10, PagesInOrder DEF fitting
  <2>. QED  BY <1>1, <1>7, <2>1
<1>11. ASSUME NEW number \in Numbers, number < 1
       PROVE  Paginate(list, number, size) = page[1]
  <2>1. PageNumber(number) = 1 /\ PageNumber(1) = 1  BY <1>11 DEF PageNumber
  <2>2. Paginate(list, number, size) = Paginate(list, 1, size)
    BY <2>1 DEF Paginate
  <2>3. 1 \in fitting
    <3>1. (1 - 1) * ps = 0  BY <1>3
    <3>. QED  BY <1>3, <3>1 DEF Fitting, fitting
  <2>. HIDE DEF Paginate
  <2>. QED  BY <2>2, <2>3 DEF page
<1>. QED  BY <1>5, <1>9, <1>10, <1>11 DEF ps, fitting, page, places, Fitting

\* The pages whose offset fits into an int hold every request of a list once,
\* in its order, for lists and pages of any size.
THEOREM PagesAlwaysPartition == Spec => []PagesPartition
BY Partition, QueryTypes, PTL

-----------------------------------------------------------------------------
(***************************************************************************)
(* Counts.                                                                 *)
(***************************************************************************)

Open == {id \in Stored : IsOpen(bucket[id].status)}

Terminal == {id \in Stored : IsTerminal(bucket[id].status)}

Unknown == {id \in Stored : bucket[id].status \notin AllowedStatuses}

OfStatus(s) == {id \in Stored : bucket[id].status = s}

OfGroup(g) == {id \in Stored : bucket[id].group = g}

LEMMA CountOf ==
  ASSUME TypeOK, NEW list \in ListRequests, NEW C \in SUBSET Stored
  PROVE  /\ IsFiniteSet(C) /\ Cardinality(C) \in Nat
         /\ Len(Select(list, C)) = Cardinality(C)
         /\ Count(Select(list, C)) = Cardinality(C)
         /\ Lists(Select(list, C), Cardinality(C), C)
<1>1. Stored \cap C = C  OBVIOUS
<1>. QED  BY <1>1, Selected

\* A list that was read.
LEMMA WholeList ==
  ASSUME TypeOK, NEW list \in ListRequests
  PROVE  /\ Len(list) = Cardinality(Stored) /\ Len(list) \in Nat
         /\ Range(list) = Stored /\ DOMAIN list = 1 .. Len(list)
         /\ Lists(list, Len(list), Stored)
         /\ \A i, j \in 1 .. Len(list) : i < j => ~Earlier(list[j], list[i])
<1>. DEFINE n == Cardinality(Stored)
            S == Stored
<1>1. /\ n \in Nat /\ Lists(list, n, S)
      /\ \A i, j \in 1 .. n : i < j => ~Earlier(list[j], list[i])
  BY ListingLists
<1>. HIDE DEF n, S
<1>2. Len(list) = n /\ Range(list) = S /\ DOMAIN list = 1 .. n
  BY <1>1, ListLength
<1>. QED  BY <1>1, <1>2 DEF n, S

\* Open, terminal and other requests are all requests.
LEMMA TotalOfList ==
  ASSUME TypeOK, NEW list \in ListRequests
  PROVE  Len(list) = Len(OpenOnly(list)) + Len(TerminalOnly(list))
                     + Len(Select(list, Unknown))
<1>. DEFINE A == Open
            B == Terminal
            C == Unknown
            AB == A \cup B
<1>1. Stored \cap A \cap B = {} /\ Stored \cap AB \cap C = {}
      /\ Stored \subseteq AB \cup C
  BY StoredType
     DEF Open, Terminal, Unknown, IsOpen, IsTerminal, AllowedStatuses
<1>2. OpenOnly(list) = Select(list, A) /\ TerminalOnly(list) = Select(list, B)
  BY DEF OpenOnly, TerminalOnly, Open, Terminal
<1>. HIDE DEF A, B, C
<1>3. Len(Select(list, A)) + Len(Select(list, B)) = Len(Select(list, AB))
  BY <1>1, SelectionsAdd
<1>. HIDE DEF AB
<1>4. Len(Select(list, AB)) + Len(Select(list, C)) = Len(Select(list, AB \cup C))
  BY <1>1, SelectionsAdd
<1>5. Len(Select(list, AB \cup C)) = Len(list)  BY <1>1, SelectAll
<1>. QED  BY <1>2, <1>3, <1>4, <1>5 DEF C

\* As many requests are counted with a status as are found with it.
LEMMA StatusFound ==
  ASSUME TypeOK, NEW list \in ListRequests, NEW s \in DOMAIN StatusCount(list)
  PROVE  StatusCount(list)[s] = Len(Apply(list, [Everything EXCEPT !.status = s]))
<1>. DEFINE C == OfStatus(s)
            query == [Everything EXCEPT !.status = s]
<1>1. s # Nil
  <2>1. s \in {bucket[id].status : id \in Range(list)}  BY DEF StatusCount
  <2>. QED  BY <2>1, WholeList, StoredType, QueryAssumption
<1>2. StatusCount(list)[s] = Count(Select(list, C))  BY DEF StatusCount, OfStatus
<1>3. Matches(query) = C
  BY <1>1 DEF Matches, Match, Everything, Within, OfStatus
<1>4. C \in SUBSET Stored  BY DEF OfStatus
<1>. HIDE DEF C, query
<1>5. Count(Select(list, C)) = Cardinality(C)  BY <1>4, CountOf
<1>6. Len(Apply(list, query)) = Cardinality(Matches(query))  BY ApplyLists
<1>. QED  BY <1>2, <1>3, <1>5, <1>6 DEF query

\* A request is found by a tag no more often than its spellings are counted.
LEMMA TagFound ==
  ASSUME TypeOK, NEW list \in ListRequests,
         NEW t \in DOMAIN BuildFacets(list).tags \ {Nil}
  PROVE  BuildFacets(list).tags[t] >= Len(Apply(list, [Everything EXCEPT !.tag = t]))
<1>. DEFINE spelled(id) == {k \in DOMAIN bucket[id].tags : bucket[id].tags[k] = t}
            D == Stored
            f == [id \in D |-> Cardinality(spelled(id))]
            query == [Everything EXCEPT !.tag = t]
            M == Matches(query)
<1>1. Range(list) = D  BY WholeList
<1>2. BuildFacets(list).tags = [u \in UNION {Range(bucket[id].tags) : id \in Range(list)} |->
        Total([id \in Range(list) |->
                 Cardinality({k \in DOMAIN bucket[id].tags : bucket[id].tags[k] = u})])]
  BY DEF BuildFacets
<1>3. PICK id \in D : t \in Range(bucket[id].tags)  BY <1>1, <1>2
<1>4. \A i \in D : bucket[i].tags \in Seq(Tags \cup {Nil})  BY StoredType
<1>5. t # Nil  OBVIOUS
<1>6. BuildFacets(list).tags[t] = Total(f)  BY <1>1, <1>2
<1>7. M = {i \in D : t \in Range(bucket[i].tags)}
  BY <1>5 DEF Matches, Match, Everything, Within
<1>8. ASSUME NEW i \in D PROVE IsFiniteSet(spelled(i)) /\ Cardinality(spelled(i)) \in Nat
  <2>. DEFINE n == Len(bucket[i].tags)
  <2>1. n \in Nat /\ DOMAIN bucket[i].tags = 1 .. n  BY <1>4
  <2>. HIDE DEF n
  <2>2. IsFiniteSet(1 .. n)  BY <2>1, FS_Interval
  <2>3. spelled(i) \in SUBSET (1 .. n)  BY <2>1
  <2>. HIDE DEF spelled
  <2>4. IsFiniteSet(spelled(i))  BY <2>2, <2>3, FS_Subset
  <2>. QED  BY <2>4, FS_CardinalityType
<1>9. ASSUME NEW i \in M PROVE f[i] >= 1
  <2>1. i \in D /\ t \in Range(bucket[i].tags)  BY <1>7
  <2>2. PICK k \in DOMAIN bucket[i].tags : bucket[i].tags[k] = t  BY <2>1 DEF Range
  <2>3. spelled(i) # {}  BY <2>2
  <2>4. f[i] = Cardinality(spelled(i))  BY <2>1
  <2>. HIDE DEF spelled, f
  <2>5. Cardinality(spelled(i)) # 0  BY <1>8, <2>1, <2>3, FS_EmptySet
  <2>. QED  BY <1>8, <2>1, <2>4, <2>5
<1>10. M \in SUBSET D  BY <1>7
<1>11. IsFiniteSet(D)  BY StoredType
<1>12. f \in [D -> Nat]  BY <1>8
<1>. HIDE DEF f, M, D
<1>13. Cardinality(M) <= Total(f)  BY <1>9, <1>10, <1>11, <1>12, TotalAtLeast
<1>. HIDE DEF query
<1>14. Len(Apply(list, query)) = Cardinality(M) /\ Cardinality(M) \in Nat
  BY ApplyLists DEF M
<1>15. Total(f) \in Nat  BY <1>11, <1>12, TotalType
<1>. QED  BY <1>6, <1>13, <1>14, <1>15 DEF query

\* A priority is between 1 and 5, so their sum is within those bounds.
LEMMA PriorityBounds ==
  ASSUME TypeOK, NEW list \in ListRequests
  PROVE  BuildDashboard(list).priorities \in Len(list) .. 5 * Len(list)
<1>. DEFINE D == Stored
            f == [id \in D |-> bucket[id].priority]
            n == Cardinality(D)
<1>1. Range(list) = D /\ Len(list) = n /\ n \in Nat  BY WholeList
<1>2. BuildDashboard(list).priorities = Total(f)  BY <1>1 DEF BuildDashboard
<1>3. /\ f \in [D -> 0 .. 5] /\ f \in [D -> Nat] /\ \A x \in D : f[x] >= 1
      /\ IsFiniteSet(D)
  BY StoredType
<1>. HIDE DEF f, D
<1>4. n <= Total(f)  BY <1>3, TotalAtLeast
<1>5. Total(f) <= n * 5  BY <1>3, TotalAtMost
<1>6. Total(f) \in Nat  BY <1>3, TotalType
<1>. QED  BY <1>1, <1>2, <1>4, <1>5, <1>6

\* By age, and by age the other way round, requests have a weak order.
LEMMA AgeOrder ==
  ASSUME TypeOK, NEW list \in ListRequests, NEW n \in Nat, n = Len(list),
         NEW L, \/ L = {p \in (1 .. n) \X (1 .. n) : Earlier(list[p[1]], list[p[2]])}
                \/ L = {p \in (1 .. n) \X (1 .. n) : Later(list[p[1]], list[p[2]])}
  PROVE  WeakOrder(L, n)
<1>. DEFINE c(i) == bucket[list[i]].created
<1>1. \A i \in 1 .. n : c(i) \in Int
  BY WholeList, StoredType DEF Lists
<1>2. \/ \A i, j \in 1 .. n : <<i, j>> \in L <=> c(i) < c(j)
      \/ \A i, j \in 1 .. n : <<i, j>> \in L <=> c(j) < c(i)
  BY DEF Earlier, Later
<1>. HIDE DEF c
<1>3. ASSUME NEW i \in 1 .. n, NEW j \in 1 .. n, <<i, j>> \in L
      PROVE  <<j, i>> \notin L
  BY <1>1, <1>2, <1>3
<1>4. ASSUME NEW i \in 1 .. n, NEW j \in 1 .. n, NEW k \in 1 .. n, <<i, k>> \in L
      PROVE  <<i, j>> \in L \/ <<j, k>> \in L
  <2>1. c(i) \in Int /\ c(j) \in Int /\ c(k) \in Int  BY <1>1
  <2>. QED  BY <1>2, <1>4, <2>1
<1>. QED  BY <1>3, <1>4 DEF WeakOrder

\* The oldest request is the first of the list, with either sort for the
\* manager in its place: first of the ascending one, and the last of the
\* descending one is of its moment.
LEMMA OldestFirst ==
  ASSUME TypeOK, NEW list \in ListRequests, list # << >>
  PROVE  BuildDashboard(list).oldest = list[1] /\ 1 \in 1 .. Len(list)
<1>. DEFINE n == Len(list)
            S == {i \in DOMAIN list : \A j \in DOMAIN list : ~Earlier(list[j], list[i])}
<1>1. /\ n \in Nat /\ DOMAIN list = 1 .. n /\ Lists(list, n, Stored)
      /\ \A i, j \in 1 .. n : i < j => ~Earlier(list[j], list[i])
  BY WholeList
<1>2. list \in Seq(Stored)  BY <1>1, ListLength
<1>3. n >= 1  BY <1>1, <1>2, EmptySeq
<1>4. BuildDashboard(list).oldest = list[Min(S)]  BY DEF BuildDashboard
<1>5. ~Earlier(list[1], list[1])
  <2>1. bucket[list[1]].created \in Nat  BY <1>1, <1>3, StoredType DEF Lists
  <2>. QED  BY <2>1 DEF Earlier
<1>6. \A j \in 1 .. n : j = 1 \/ 1 < j  BY <1>1
<1>. HIDE DEF n
<1>7. 1 \in S /\ S \in SUBSET (1 .. n)  BY <1>1, <1>3, <1>5, <1>6
<1>. HIDE DEF S
<1>8. IsFiniteSet(1 .. n)  BY <1>1, FS_Interval
<1>9. IsFiniteSet(S)  BY <1>7, <1>8, FS_Subset
<1>10. Min(S) \in S /\ \A x \in S : Min(S) <= x  BY <1>7, <1>9, Least
<1>11. Min(S) = 1
  <2>1. Min(S) \in 1 .. n /\ Min(S) <= 1  BY <1>7, <1>10
  <2>. QED  BY <1>1, <2>1
<1>. QED  BY <1>1, <1>3, <1>4, <1>11 DEF n

LEMMA ForManagerOldest ==
  ASSUME TypeOK, NEW list \in ListRequests, list # << >>
  PROVE  Head(SortForManager(list, FALSE)) = list[1]
<1>. DEFINE n == Len(list)
            L == {p \in (1 .. n) \X (1 .. n) : Earlier(list[p[1]], list[p[2]])}
            r == SortForManager(list, FALSE)
<1>1. /\ n \in Nat /\ DOMAIN list = 1 .. n
      /\ \A i, j \in 1 .. n : i < j => ~Earlier(list[j], list[i])
  BY WholeList
<1>2. \A k, l \in 1 .. n : k < l => <<l, k>> \notin L  BY <1>1
<1>3. r = Arrange(list, 1 .. n, Stably(L, n))
  <2>1. Stably(L, n) = {p \in (DOMAIN list) \X (DOMAIN list) :
                          \/ Earlier(list[p[1]], list[p[2]])
                          \/ ~Earlier(list[p[2]], list[p[1]]) /\ p[1] < p[2]}
    BY <1>1 DEF Stably
  <2>. QED  BY <1>1, <2>1 DEF SortForManager, StableSort
<1>4. WeakOrder(L, n)  BY <1>1, AgeOrder
<1>. HIDE DEF L
<1>5. r = [k \in 1 .. n |-> list[k]]  BY <1>1, <1>2, <1>3, <1>4, SortedStays
<1>6. list \in Seq(Stored) /\ r = list
  <2>1. list \in [1 .. n -> Stored]  BY WholeList DEF Lists
  <2>. HIDE DEF r, n
  <2>2. list = [k \in 1 .. n |-> list[k]]  BY <2>1
  <2>. QED  BY <1>1, <1>5, <2>1, <2>2
<1>. HIDE DEF r
<1>7. Head(list) = list[1]  BY <1>6
<1>. QED  BY <1>6, <1>7 DEF r

LEMMA ForManagerNewest ==
  ASSUME TypeOK, NEW list \in ListRequests, list # << >>
  PROVE  ~Earlier(list[1], SortForManager(list, TRUE)[Len(list)])
<1>. DEFINE n == Len(list)
            L == {p \in (1 .. n) \X (1 .. n) : Later(list[p[1]], list[p[2]])}
            r == SortForManager(list, TRUE)
<1>1. n \in Nat /\ DOMAIN list = 1 .. n /\ 1 \in 1 .. n  BY WholeList, OldestFirst
<1>2. r = Arrange(list, 1 .. n, Stably(L, n))
  <2>1. Stably(L, n) = {p \in (DOMAIN list) \X (DOMAIN list) :
                          \/ Later(list[p[1]], list[p[2]])
                          \/ ~Later(list[p[2]], list[p[1]]) /\ p[1] < p[2]}
    BY <1>1 DEF Stably
  <2>. QED  BY <1>1, <2>1 DEF SortForManager, StableSort
<1>3. WeakOrder(L, n)  BY <1>1, AgeOrder
<1>4. \A i, j \in 1 .. n : <<i, j>> \in L <=> Earlier(list[j], list[i])  BY DEF Later
<1>5. ~Earlier(list[1], list[1])
  <2>1. bucket[list[1]].created \in Nat
    <3>1. list[1] \in Stored  BY <1>1, WholeList DEF Lists
    <3>. QED  BY <3>1, StoredType
  <2>. QED  BY <2>1 DEF Earlier
<1>. HIDE DEF L, r, n
<1>6. PICK f : /\ Arrange(list, 1 .. n, Stably(L, n)) = Picked(list, f, n)
               /\ SortsStably(f, n, L)
  BY <1>1, <1>3, StableArrangement
<1>7. PICK k \in 1 .. n : f[k] = 1  BY <1>1, <1>6 DEF SortsStably
<1>8. n \in 1 .. n /\ (k = n \/ k < n)  BY <1>1
<1>9. r[n] = list[f[n]]  BY <1>2, <1>6, <1>8 DEF Picked
<1>10. f[n] \in 1 .. n  BY <1>6, <1>8 DEF SortsStably
<1>11. CASE k = n  BY <1>5, <1>7, <1>9, <1>11 DEF r, n
<1>12. CASE k < n
  <2>1. <<f[n], f[k]>> \notin L  BY <1>6, <1>8, <1>12 DEF SortsStably
  <2>2. ~Earlier(list[1], list[f[n]])  BY <1>1, <1>4, <1>7, <1>10, <2>1
  <2>. QED  BY <1>9, <2>2 DEF r, n
<1>. QED  BY <1>8, <1>11, <1>12

LEMMA AgreeingCounts == TypeOK => CountsAgree
<1>. SUFFICES ASSUME TypeOK, NEW list \in ListRequests
     PROVE  LET all == BuildDashboard(list)
                facets == BuildFacets(list)
            IN /\ all.total = all.open + Len(TerminalOnly(list))
                     + Len(Select(list, {id \in Stored :
                                           bucket[id].status \notin AllowedStatuses}))
               /\ \A g \in UniqueGroups(list) : all.byGroup[g] = facets.groups[g]
               /\ \A s \in DOMAIN facets.status :
                    facets.status[s] = Len(Apply(list, [Everything EXCEPT !.status = s]))
               /\ \A t \in DOMAIN facets.tags \ {Nil} :
                    facets.tags[t] >= Len(Apply(list, [Everything EXCEPT !.tag = t]))
               /\ all.priorities \in all.total .. 5 * all.total
               /\ list # << >> =>
                    /\ all.oldest = Head(SortForManager(list, FALSE))
                    /\ ~Earlier(all.oldest, SortForManager(list, TRUE)[Len(list)])
  BY DEF CountsAgree
<1>. DEFINE all == BuildDashboard(list)
            facets == BuildFacets(list)
<1>1. all.total = Len(list) /\ all.open = Len(OpenOnly(list))
  BY DEF BuildDashboard
<1>2. \A g \in UniqueGroups(list) : all.byGroup[g] = facets.groups[g]
  BY DEF BuildDashboard, BuildFacets, UniqueGroups
<1>3. facets.status = StatusCount(list)  BY DEF BuildFacets
<1>. HIDE DEF all, facets
<1>4. all.total = all.open + Len(TerminalOnly(list))
        + Len(Select(list, {id \in Stored : bucket[id].status \notin AllowedStatuses}))
  BY <1>1, TotalOfList DEF Unknown
<1>6. \A s \in DOMAIN facets.status :
        facets.status[s] = Len(Apply(list, [Everything EXCEPT !.status = s]))
  BY <1>3, StatusFound
<1>7. \A t \in DOMAIN facets.tags \ {Nil} :
        facets.tags[t] >= Len(Apply(list, [Everything EXCEPT !.tag = t]))
  BY TagFound DEF facets
<1>8. all.priorities \in all.total .. 5 * all.total
  BY <1>1, PriorityBounds DEF all
<1>9. ASSUME list # << >>
      PROVE  /\ all.oldest = Head(SortForManager(list, FALSE))
             /\ ~Earlier(all.oldest, SortForManager(list, TRUE)[Len(list)])
  BY <1>9, OldestFirst, ForManagerOldest, ForManagerNewest DEF all
<1>. QED  BY <1>2, <1>4, <1>6, <1>7, <1>8, <1>9 DEF all, facets

\* The reports that are made of one list add up, however many requests, groups
\* and tags there are.
THEOREM CountsAlwaysAgree == Spec => []CountsAgree
BY AgreeingCounts, QueryTypes, PTL

-----------------------------------------------------------------------------
(***************************************************************************)
(* The rows of the reports.                                                *)
(***************************************************************************)

\* The requests of a group that are selected.
LEMMA SelectOfGroup ==
  ASSUME TypeOK, NEW list \in ListRequests, NEW g, NEW C
  PROVE  /\ IsFiniteSet(OfGroup(g) \cap C) /\ Cardinality(OfGroup(g) \cap C) \in Nat
         /\ Len(Select(RequestsForGroup(list, g), C)) = Cardinality(OfGroup(g) \cap C)
<1>. DEFINE G == OfGroup(g)
            l == Select(list, G)
            n == Cardinality(G)
            T == G \cap C
            m == Cardinality(T)
            r == Select(l, C)
<1>1. Lists(l, n, G) /\ n \in Nat  BY CountOf DEF OfGroup
<1>2. RequestsForGroup(list, g) = l  BY DEF RequestsForGroup, OfGroup
<1>. HIDE DEF l, n, G
<1>3. Lists(r, m, T) /\ IsFiniteSet(T) /\ m \in Nat  BY <1>1, SelectLists
<1>. HIDE DEF r, m, T
<1>4. Len(r) = m  BY <1>3, ListLength
<1>. QED  BY <1>2, <1>3, <1>4 DEF r, m, T, G

\* The row of a group counts its open and its assigned requests.
LEMMA GroupLoadIs ==
  ASSUME TypeOK, NEW list \in ListRequests, NEW g
  PROVE  /\ GroupLoad(list, g) \in GroupRow
         /\ GroupLoad(list, g).open = Cardinality(OfGroup(g) \cap Open)
<1>. DEFINE own == RequestsForGroup(list, g)
            A == {id \in Stored : bucket[id].status = "assigned"}
<1>1. OpenOnly(own) = Select(own, Open)  BY DEF OpenOnly, Open
<1>2. GroupLoad(list, g) = [open |-> Len(Select(own, Open)),
                           assigned |-> Len(Select(own, A))]
  BY <1>1 DEF GroupLoad
<1>. HIDE DEF own, A
<1>3. /\ Cardinality(OfGroup(g) \cap Open) \in Nat
      /\ Len(Select(own, Open)) = Cardinality(OfGroup(g) \cap Open)
  BY SelectOfGroup DEF own
<1>4. /\ Cardinality(OfGroup(g) \cap A) \in Nat
      /\ Len(Select(own, A)) = Cardinality(OfGroup(g) \cap A)
  BY SelectOfGroup DEF own
<1>. QED  BY <1>2, <1>3, <1>4 DEF GroupRow

\* The open requests are those of the groups that have a row and the others.
LEMMA OpenOfGroups ==
  ASSUME TypeOK, NEW list \in ListRequests, NEW K, IsFiniteSet(K),
         NEW f, f = [g \in K |-> Cardinality(OfGroup(g) \cap Open)]
  PROVE  Len(OpenOnly(list))
           = Total(f) + Cardinality({id \in Stored : /\ IsOpen(bucket[id].status)
                                                     /\ bucket[id].group \notin K})
<1>. DEFINE N == {id \in Stored : IsOpen(bucket[id].status) /\ bucket[id].group \notin K}
            S == {id \in Open : bucket[id].group \in K}
            owner == [id \in S |-> bucket[id].group]
            C == Open
            h == [g \in K |-> Cardinality({id \in S : owner[id] = g})]
<1>1. f = h
  <2>1. \A g \in K : {id \in S : owner[id] = g} = OfGroup(g) \cap Open
    BY DEF Open, OfGroup
  <2>. QED  BY <2>1
<1>2. owner \in [S -> K]  OBVIOUS
<1>3. OpenOnly(list) = Select(list, C) /\ C \in SUBSET Stored
  BY DEF OpenOnly, Open
<1>4. C = N \cup S /\ N \cap S = {}  BY DEF Open
<1>. HIDE DEF S, owner, C, N, h
<1>5. IsFiniteSet(C) /\ Len(Select(list, C)) = Cardinality(C)  BY <1>3, CountOf
<1>6. S \in SUBSET C /\ N \in SUBSET C  BY <1>4
<1>7. IsFiniteSet(S) /\ IsFiniteSet(N)  BY <1>5, <1>6, FS_Subset
<1>8. Total(f) = Cardinality(S)
  <2>1. h = [g \in K |-> Cardinality({id \in S : owner[id] = g})]  BY DEF h
  <2>2. Total(h) = Cardinality(S)  BY <1>2, <1>7, <2>1, TotalCounts
  <2>. QED  BY <1>1, <2>2
<1>9. /\ Cardinality(N) \in Nat /\ Cardinality(S) \in Nat
      /\ Cardinality(N \cup S)
           = Cardinality(N) + Cardinality(S) - Cardinality(N \cap S)
  BY <1>7, FS_Union, FS_CardinalityType
<1>10. Cardinality(N \cap S) = 0  BY <1>4, FS_EmptySet
<1>. QED  BY <1>3, <1>4, <1>5, <1>8, <1>9, <1>10 DEF N

\* Reading the rows of the groups.
LEMMA RowsOfGroups ==
  ASSUME TypeOK, NEW list \in ListRequests,
         NEW K, IsFiniteSet(K), NEW r, r = [g \in K |-> GroupLoad(list, g)]
  PROVE  /\ r \in [K -> GroupRow]
         /\ Len(OpenOnly(list))
              = Total([g \in K |-> r[g].open])
                + Cardinality({id \in Stored : /\ IsOpen(bucket[id].status)
                                               /\ bucket[id].group \notin K})
         /\ \A l \in ListRequests : Len(OpenOnly(l)) = Len(OpenOnly(list))
<1>1. r \in [K -> GroupRow]  BY GroupLoadIs
<1>2. [g \in K |-> r[g].open] = [g \in K |-> Cardinality(OfGroup(g) \cap Open)]
  <2>1. \A g \in K : r[g].open = Cardinality(OfGroup(g) \cap Open)
    BY GroupLoadIs
  <2>. QED  BY <2>1
<1>3. ASSUME NEW l \in ListRequests PROVE Len(OpenOnly(l)) = Cardinality(Open)
  <2>1. OpenOnly(l) = Select(l, Open) /\ Open \in SUBSET Stored
    BY DEF OpenOnly, Open
  <2>. QED  BY <2>1, CountOf
<1>. HIDE DEF Open, OfGroup
<1>. QED  BY <1>1, <1>2, <1>3, OpenOfGroups

\* The requests of an agent of a kind.
Own(a, statuses) ==
  {id \in Stored : bucket[id].assignee = a /\ bucket[id].status \in statuses}

LEMMA OwnType ==
  ASSUME TypeOK, NEW a, NEW statuses
  PROVE  IsFiniteSet(Own(a, statuses)) /\ Cardinality(Own(a, statuses)) \in Nat
<1>1. IsFiniteSet(Stored)  BY StoredType
<1>2. Own(a, statuses) \in SUBSET Stored  BY DEF Own
<1>3. IsFiniteSet(Own(a, statuses))  BY <1>1, <1>2, FS_Subset
<1>. QED  BY <1>3, FS_CardinalityType

LEMMA AgentLoadIs ==
  ASSUME NEW a
  PROVE  AgentLoad(a) = [assigned |-> Cardinality(Own(a, {"assigned"})),
                         pending |-> Cardinality(Own(a, {"pending"})),
                         resolved |-> Cardinality(Own(a, {"resolved"}))]
BY DEF AgentLoad, Own

-----------------------------------------------------------------------------
(***************************************************************************)
(* What the reports keep.                                                  *)
(***************************************************************************)

\* A write leaves all but the requests and the history alone.
LEMMA WriteTypes ==
  ASSUME ReportTypeOK, Write
  PROVE  /\ TypeOK' /\ steady' \subseteq steady /\ taken' \in BOOLEAN
         /\ UNCHANGED <<agents, groups, listed, rows, known, table>>
<1>1. TypeOK'  BY TypeStep DEF ReportTypeOK, Write
<1>2. UNCHANGED <<agents, groups, listed, rows, known, table>>  BY DEF Write
<1>3. steady' \subseteq steady /\ taken' \in BOOLEAN  BY DEF Write, ReportTypeOK
<1>. QED  BY <1>1, <1>2, <1>3

LEMMA ReportTypeInit == ReportInit => ReportTypeOK
<1>1. IsFiniteSet({})  BY FS_EmptySet
<1>. QED  BY <1>1, TypeInit DEF ReportInit, ReportTypeOK

LEMMA ReportTypeStep == ReportTypeOK /\ [ReportNext]_reportVars => ReportTypeOK'
<1>. SUFFICES ASSUME ReportTypeOK, [ReportNext]_reportVars PROVE ReportTypeOK'
  OBVIOUS
<1>1. CASE Write
  <2>1. /\ TypeOK' /\ steady' \subseteq steady /\ taken' \in BOOLEAN
        /\ UNCHANGED <<agents, groups, listed, rows, known, table>>
    BY <1>1, WriteTypes
  <2>. QED  BY <2>1 DEF ReportTypeOK
<1>2. ASSUME NEW u \in Users, NEW role, RegisterUser(u, role) PROVE ReportTypeOK'
  <2>1. agents' \subseteq Users  BY <1>2 DEF RegisterUser, ReportTypeOK
  <2>2. IsFiniteSet(agents')
    BY <1>2, FS_AddElement, FS_RemoveElement DEF RegisterUser, ReportTypeOK
  <2>. QED  BY <1>2, <2>1, <2>2 DEF RegisterUser, ReportTypeOK, TypeOK
<1>3. ASSUME NEW g \in Groups, CreateGroup(g) PROVE ReportTypeOK'
  <2>1. groups' \subseteq Groups /\ groups \subseteq groups'
    BY <1>3 DEF CreateGroup, ReportTypeOK
  <2>2. IsFiniteSet(groups')  BY <1>3, FS_AddElement DEF CreateGroup, ReportTypeOK
  <2>. QED  BY <1>3, <2>1, <2>2 DEF CreateGroup, ReportTypeOK, TypeOK
<1>4. CASE ListGroups  BY <1>4 DEF ListGroups, ReportTypeOK, TypeOK
<1>5. CASE ReadGroupRows
  <2>1. PICK list \in ListRequests : table' = [g \in known |-> GroupLoad(list, g)]
    BY <1>5 DEF ReadGroupRows
  <2>2. table' \in [known -> GroupRow]  BY <2>1, GroupLoadIs DEF ReportTypeOK
  <2>. QED  BY <1>5, <2>2 DEF ReadGroupRows, ReportTypeOK, TypeOK
<1>6. CASE GroupsSent  BY <1>6 DEF GroupsSent, ReportTypeOK, TypeOK
<1>7. CASE ListAgents  BY <1>7 DEF ListAgents, ReportTypeOK, TypeOK
<1>8. ASSUME NEW a \in Users, ReadAgent(a) PROVE ReportTypeOK'
  <2>1. AgentLoad(a) \in AgentRow
    BY AgentLoadIs, OwnType DEF AgentRow, ReportTypeOK
  <2>. HIDE DEF AgentLoad
  <2>. QED  BY <1>8, <2>1 DEF ReadAgent, ReportTypeOK, TypeOK
<1>9. CASE ReportSent  BY <1>9 DEF ReportSent, ReportTypeOK, TypeOK
<1>10. CASE UNCHANGED reportVars  BY <1>10 DEF reportVars, ReportTypeOK, TypeOK
<1>. QED
  BY <1>1, <1>2, <1>3, <1>4, <1>5, <1>6, <1>7, <1>8, <1>9, <1>10 DEF ReportNext

\* The reports keep their types, whatever is registered and written meanwhile.
THEOREM ReportTypes == ReportSpec => []ReportTypeOK
BY ReportTypeInit, ReportTypeStep, PTL DEF ReportSpec

\* The rows of the groups and a dashboard of the same moment differ in the
\* requests of no listed group alone.
THEOREM GroupRowsAlwaysAddUp == ReportSpec => GroupRowsAddUp
<1>. DEFINE RowsRead == known # Nil /\ table = Nil /\ table' # Nil
            Adds == \A list \in ListRequests :
                      BuildDashboard(list).open
                        = Total([g \in known |-> table'[g].open])
                          + Cardinality({id \in Stored :
                               /\ IsOpen(bucket[id].status)
                               /\ bucket[id].group \notin known})
<1>1. ASSUME ReportTypeOK, ReportNext, RowsRead PROVE Adds
  <2>1. ReadGroupRows
    BY <1>1 DEF ReportNext, Write, RegisterUser, CreateGroup, ListGroups,
                GroupsSent, ListAgents, ReadAgent, ReportSent
  <2>2. PICK list \in ListRequests : table' = [g \in known |-> GroupLoad(list, g)]
    BY <2>1 DEF ReadGroupRows
  <2>3. IsFiniteSet(known) /\ TypeOK
    <3>1. known \in SUBSET groups /\ IsFiniteSet(groups)  BY <1>1 DEF ReportTypeOK
    <3>. QED  BY <1>1, <3>1, FS_Subset DEF ReportTypeOK
  <2>. DEFINE rest == {id \in Stored : /\ IsOpen(bucket[id].status)
                                       /\ bucket[id].group \notin known}
              sums == [g \in known |-> table'[g].open]
  <2>4. Len(OpenOnly(list)) = Total(sums) + Cardinality(rest)
    BY <2>2, <2>3, RowsOfGroups
  <2>5. \A l \in ListRequests : Len(OpenOnly(l)) = Len(OpenOnly(list))
    BY <2>2, <2>3, RowsOfGroups
  <2>. HIDE DEF rest, sums
  <2>6. \A l \in ListRequests : BuildDashboard(l).open = Len(OpenOnly(l))
    BY DEF BuildDashboard
  <2>7. \A l \in ListRequests :
          BuildDashboard(l).open = Total(sums) + Cardinality(rest)
    BY <2>4, <2>5, <2>6
  <2>. QED  BY <2>7 DEF rest, sums
<1>2. ReportTypeOK /\ [ReportNext]_reportVars => [RowsRead => Adds]_reportVars
  BY <1>1
<1>3. GroupRowsAddUp <=> [][RowsRead => Adds]_reportVars
  BY DEF GroupRowsAddUp
<1>. HIDE DEF RowsRead, Adds
<1>. QED  BY <1>2, <1>3, ReportTypes, PTL DEF ReportSpec

-----------------------------------------------------------------------------
(***************************************************************************)
(* The report on the agents.                                               *)
(***************************************************************************)

Sum(row) == row.assigned + row.pending + row.resolved

\* What a row of an agent should count, and the most that it may count while
\* no agent loses a request.
Counted(a) ==
  {id \in Ids : /\ bucket[id] # Nil /\ bucket[id].assignee = a
                /\ bucket[id].status \in {"assigned", "pending", "resolved"}}

Possible(a) ==
  {id \in Ids : /\ bucket[id] # Nil /\ bucket[id].assignee = a
                /\ id \in Counted(a) \/ id \notin steady}

\* A row that was read counts the requests that stayed as they were, and no
\* more than are still the agent's.
RowOK(a) ==
  /\ Cardinality(steady \cap Counted(a)) <= Sum(rows[a])
  /\ ~taken => Sum(rows[a]) <= Cardinality(Possible(a))

LoadsInv ==
  /\ listed = Nil => \A u \in Users : rows[u] = Nil
  /\ listed # Nil => \A a \in listed : rows[a] # Nil => RowOK(a)

LEMMA CountedType ==
  ASSUME ReportTypeOK, NEW a
  PROVE  /\ IsFiniteSet(Counted(a)) /\ IsFiniteSet(steady \cap Counted(a))
         /\ IsFiniteSet(Possible(a))
         /\ Cardinality(Counted(a)) \in Nat
         /\ Cardinality(steady \cap Counted(a)) \in Nat
         /\ Cardinality(Possible(a)) \in Nat
<1>1. /\ Counted(a) \in SUBSET Ids /\ Possible(a) \in SUBSET Ids
      /\ steady \cap Counted(a) \in SUBSET Ids
  BY DEF Counted, Possible
<1>2. /\ IsFiniteSet(Counted(a)) /\ IsFiniteSet(steady \cap Counted(a))
      /\ IsFiniteSet(Possible(a))
  BY <1>1, QueryAssumption, FS_Subset
<1>. QED  BY <1>2, FS_CardinalityType

\* The elements of two disjoint sets together.
LEMMA DisjointUnion ==
  ASSUME NEW S, NEW T, IsFiniteSet(S), IsFiniteSet(T), S \cap T = {}
  PROVE  /\ IsFiniteSet(S \cup T)
         /\ Cardinality(S \cup T) = Cardinality(S) + Cardinality(T)
<1>1. Cardinality(S \cap T) = 0  BY FS_EmptySet
<1>2. Cardinality(S) \in Nat /\ Cardinality(T) \in Nat
  BY FS_CardinalityType
<1>3. /\ IsFiniteSet(S \cup T)
      /\ Cardinality(S \cup T)
           = Cardinality(S) + Cardinality(T) - Cardinality(S \cap T)
  BY FS_Union
<1>. QED  BY <1>1, <1>2, <1>3

\* The row that is read counts every request of the agent once.
LEMMA RowCounts ==
  ASSUME TypeOK, NEW a
  PROVE  Sum(AgentLoad(a)) = Cardinality(Counted(a))
<1>. DEFINE A == Own(a, {"assigned"})
            P == Own(a, {"pending"})
            R == Own(a, {"resolved"})
            AP == A \cup P
<1>1. /\ IsFiniteSet(A) /\ IsFiniteSet(P) /\ IsFiniteSet(R)
      /\ Cardinality(A) \in Nat /\ Cardinality(P) \in Nat
      /\ Cardinality(R) \in Nat
  BY OwnType
<1>2. A \cap P = {} /\ AP \cap R = {}  BY DEF Own
<1>3. Counted(a) = AP \cup R  BY DEF Counted, Own, Stored
<1>5. Sum(AgentLoad(a)) = Cardinality(A) + Cardinality(P) + Cardinality(R)
  BY AgentLoadIs DEF Sum
<1>. HIDE DEF A, P, R
<1>6. IsFiniteSet(AP) /\ Cardinality(AP) = Cardinality(A) + Cardinality(P)
  BY <1>1, <1>2, DisjointUnion
<1>. HIDE DEF AP
<1>7. Cardinality(AP \cup R) = Cardinality(AP) + Cardinality(R)
  BY <1>1, <1>2, <1>6, DisjointUnion
<1>. QED  BY <1>3, <1>5, <1>6, <1>7

\* Reading a row.
LEMMA ReadAgentOK ==
  ASSUME ReportTypeOK, LoadsInv, NEW b \in Users, ReadAgent(b) PROVE LoadsInv'
<1>1. /\ rows' = [rows EXCEPT ![b] = AgentLoad(b)] /\ listed # Nil
      /\ bucket' = bucket /\ steady' = steady /\ taken' = taken /\ listed' = listed
  BY DEF ReadAgent
<1>2. \A a : Counted(a)' = Counted(a) /\ Possible(a)' = Possible(a)
  BY <1>1 DEF Counted, Possible
<1>3. ASSUME NEW a \in listed, rows'[a] # Nil PROVE RowOK(a)'
  <2>0. a \in Users  BY <1>1 DEF ReportTypeOK
  <2>1. CASE a # b
    <3>1. rows'[a] = rows[a]  BY <1>1, <2>0, <2>1 DEF ReportTypeOK
    <3>2. RowOK(a)  BY <1>1, <1>3, <3>1 DEF LoadsInv
    <3>. QED  BY <1>1, <1>2, <3>1, <3>2 DEF RowOK
  <2>2. CASE a = b
    <3>1. rows'[a] = AgentLoad(a)  BY <1>1, <2>0, <2>2 DEF ReportTypeOK
    <3>2. Sum(rows'[a]) = Cardinality(Counted(a))
      BY <3>1, RowCounts DEF ReportTypeOK
    <3>3. /\ Cardinality(steady \cap Counted(a)) <= Cardinality(Counted(a))
          /\ Cardinality(Counted(a)) <= Cardinality(Possible(a))
      <4>1. Counted(a) \in SUBSET Possible(a)  BY DEF Counted, Possible
      <4>2. steady \cap Counted(a) \in SUBSET Counted(a)  OBVIOUS
      <4>. QED  BY <4>1, <4>2, CountedType, FS_Subset
    <3>. QED  BY <1>1, <1>2, <3>2, <3>3 DEF RowOK
  <2>. QED  BY <2>1, <2>2
<1>. QED  BY <1>1, <1>3 DEF LoadsInv

\* Writing requests while the report is read.
LEMMA WriteOK ==
  ASSUME ReportTypeOK, LoadsInv, Write PROVE LoadsInv'
<1>1. rows' = rows /\ listed' = listed  BY DEF Write
<1>2. CASE listed = Nil  BY <1>1, <1>2 DEF LoadsInv
<1>3. ASSUME listed # Nil, NEW a \in listed, rows[a] # Nil PROVE RowOK(a)'
  <2>1. /\ RowOK(a) /\ rows[a] \in AgentRow
    <3>1. a \in Users  BY <1>3 DEF ReportTypeOK
    <3>. QED  BY <1>3, <3>1 DEF LoadsInv, ReportTypeOK
  <2>2. steady' = {id \in steady : bucket'[id] = bucket[id]}  BY <1>3 DEF Write
  <2>. DEFINE now == steady \cap Counted(a)
              next == (steady \cap Counted(a))'
              may == Possible(a)
              might == Possible(a)'
  <2>3. next \in SUBSET now  BY <2>2 DEF Counted
  <2>4. ASSUME ~taken' PROVE may \in SUBSET might
    <3>1. \A id \in Stored : bucket[id].assignee = a =>
            bucket'[id] # Nil /\ bucket'[id].assignee = a
      BY <1>3, <2>4 DEF Write
    <3>2. ASSUME NEW x \in may PROVE x \in might
      <4>1. /\ x \in Ids /\ x \in Stored /\ bucket[x].assignee = a
            /\ x \in Counted(a) \/ x \notin steady
        BY DEF Possible, Stored
      <4>2. bucket'[x] # Nil /\ bucket'[x].assignee = a  BY <3>1, <4>1
      <4>3. CASE bucket'[x] = bucket[x]
        <5>1. x \in Counted(a)' \/ x \notin steady'
          BY <2>2, <4>1, <4>3 DEF Counted
        <5>. QED  BY <4>1, <4>2, <5>1 DEF Possible
      <4>4. CASE bucket'[x] # bucket[x]
        <5>1. x \notin steady'  BY <2>2, <4>4
        <5>. QED  BY <4>1, <4>2, <5>1 DEF Possible
      <4>. QED  BY <4>3, <4>4
    <3>. QED  BY <3>2
  <2>5. might \in SUBSET Ids  BY DEF Possible
  <2>6. /\ IsFiniteSet(now) /\ Cardinality(now) \in Nat
        /\ Cardinality(may) \in Nat
        /\ Cardinality(now) <= Sum(rows[a])
        /\ ~taken => Sum(rows[a]) <= Cardinality(may)
        /\ Sum(rows[a]) \in Nat
    <3>1. IsFiniteSet(now) /\ Cardinality(now) \in Nat /\ Cardinality(may) \in Nat
      BY CountedType
    <3>2. Sum(rows[a]) \in Nat  BY <2>1 DEF AgentRow, Sum
    <3>3. /\ Cardinality(now) <= Sum(rows[a])
          /\ ~taken => Sum(rows[a]) <= Cardinality(may)
      BY <2>1 DEF RowOK
    <3>. QED  BY <3>1, <3>2, <3>3
  <2>7. ~taken' => ~taken  BY DEF Write
  <2>8. RowOK(a)' <=> /\ Cardinality(next) <= Sum(rows[a])
                      /\ ~taken' => Sum(rows[a]) <= Cardinality(might)
    BY <1>1 DEF RowOK
  <2>. HIDE DEF now, next, may, might, Sum
  <2>9. Cardinality(next) <= Cardinality(now) /\ Cardinality(next) \in Nat
    <3>1. IsFiniteSet(next) /\ Cardinality(next) <= Cardinality(now)
      BY <2>3, <2>6, FS_Subset
    <3>. QED  BY <3>1, FS_CardinalityType
  <2>10. IsFiniteSet(might) /\ Cardinality(might) \in Nat
    <3>1. IsFiniteSet(might)  BY <2>5, QueryAssumption, FS_Subset
    <3>. QED  BY <3>1, FS_CardinalityType
  <2>11. ~taken' => Cardinality(may) <= Cardinality(might)
    BY <2>4, <2>10, FS_Subset
  <2>. QED  BY <2>6, <2>7, <2>8, <2>9, <2>10, <2>11
<1>. QED  BY <1>1, <1>2, <1>3 DEF LoadsInv

LEMMA LoadsInitially == ReportInit => LoadsInv
BY DEF ReportInit, LoadsInv

LEMMA LoadsStep == ReportTypeOK /\ LoadsInv /\ [ReportNext]_reportVars => LoadsInv'
<1>. SUFFICES ASSUME ReportTypeOK, LoadsInv, [ReportNext]_reportVars PROVE LoadsInv'
  OBVIOUS
<1>1. CASE Write  BY <1>1, WriteOK
<1>2. ASSUME NEW a \in Users, ReadAgent(a) PROVE LoadsInv'  BY <1>2, ReadAgentOK
<1>3. CASE ReportSent  BY <1>3 DEF ReportSent, LoadsInv
<1>4. CASE ListAgents
  <2>1. \A u \in Users : rows[u] = Nil  BY <1>4 DEF ListAgents, LoadsInv
  <2>2. listed' = agents /\ rows' = rows  BY <1>4 DEF ListAgents
  <2>. QED  BY <2>1, <2>2 DEF LoadsInv, ReportTypeOK
<1>5. ASSUME UNCHANGED <<bucket, listed, rows, steady, taken>> PROVE LoadsInv'
  <2>1. \A a : Counted(a)' = Counted(a) /\ Possible(a)' = Possible(a)
    BY <1>5 DEF Counted, Possible
  <2>2. \A a : RowOK(a)' <=> RowOK(a)  BY <1>5, <2>1 DEF RowOK
  <2>. QED  BY <1>5, <2>2 DEF LoadsInv
<1>6. \/ Write \/ (\E a \in Users : ReadAgent(a)) \/ ReportSent \/ ListAgents
      \/ UNCHANGED <<bucket, listed, rows, steady, taken>>
  BY DEF ReportNext, reportVars, RegisterUser, CreateGroup, ListGroups,
         ReadGroupRows, GroupsSent
<1>. QED  BY <1>1, <1>2, <1>3, <1>4, <1>5, <1>6

\* What the rows count together, of what is counted per agent.
LEMMA RowsTogether ==
  ASSUME ReportTypeOK, LoadsInv, ReportDone PROVE LoadsAddUp
<1>. DEFINE sums == [a \in listed |->
                       rows[a].assigned + rows[a].pending + rows[a].resolved]
            S == {id \in steady : Countable(id)}
            F == [a \in listed |-> Cardinality({id \in S : bucket[id].assignee = a})]
            T == {id \in Ids : Countable(id) \/ id \notin steady}
            U == {id \in T : bucket[id] # Nil /\ bucket[id].assignee \in listed}
            G == [a \in listed |-> Cardinality({id \in U : bucket[id].assignee = a})]
            owner(X) == [id \in X |-> bucket[id].assignee]
<1>1. IsFiniteSet(listed) /\ listed \subseteq Users
  BY DEF ReportDone, ReportTypeOK
<1>2. \A a \in listed : sums[a] = Sum(rows[a]) /\ sums[a] \in Nat
                        /\ Sum(rows[a]) \in Nat /\ RowOK(a)
  <2>1. \A a \in listed : rows[a] \in AgentRow /\ RowOK(a)
    BY <1>1 DEF ReportDone, LoadsInv, ReportTypeOK
  <2>. QED  BY <2>1 DEF Sum, AgentRow
<1>3. sums \in [listed -> Nat]  BY <1>2
<1>4. S \in SUBSET Ids /\ T \in SUBSET Ids /\ U \in SUBSET T
  BY DEF ReportTypeOK
<1>5. \A a \in listed : /\ {id \in S : bucket[id].assignee = a} = steady \cap Counted(a)
                        /\ {id \in U : bucket[id].assignee = a} = Possible(a)
  BY DEF Counted, Possible, Countable, ReportTypeOK
<1>6. owner(S) \in [S -> listed] /\ owner(U) \in [U -> listed]
  BY DEF Countable
<1>7. F = [a \in listed |-> Cardinality({id \in S : owner(S)[id] = a})]
  OBVIOUS
<1>8. G = [a \in listed |-> Cardinality({id \in U : owner(U)[id] = a})]
  OBVIOUS
<1>9. \A a \in listed : F[a] = Cardinality(steady \cap Counted(a))
                        /\ G[a] = Cardinality(Possible(a))
  BY <1>5
<1>10. LoadsAddUp <=> /\ Cardinality(S) <= Total(sums)
                      /\ ~taken => Total(sums) <= Cardinality(T)
  BY DEF LoadsAddUp
<1>. HIDE DEF S, T, U, F, G, sums
<1>11. IsFiniteSet(S) /\ IsFiniteSet(T) /\ IsFiniteSet(U)
  BY <1>4, QueryAssumption, FS_Subset
<1>12. F \in [listed -> Nat] /\ Total(F) = Cardinality(S)
  <2>. DEFINE o == owner(S)
  <2>1. o \in [S -> listed]
        /\ F = [a \in listed |-> Cardinality({id \in S : o[id] = a})]
    BY <1>6, <1>7
  <2>. HIDE DEF o
  <2>. QED  BY <1>1, <1>11, <2>1, TotalCounts
<1>13. G \in [listed -> Nat] /\ Total(G) = Cardinality(U)
  <2>. DEFINE o == owner(U)
  <2>1. o \in [U -> listed]
        /\ G = [a \in listed |-> Cardinality({id \in U : o[id] = a})]
    BY <1>6, <1>8
  <2>. HIDE DEF o
  <2>. QED  BY <1>1, <1>11, <2>1, TotalCounts
<1>. HIDE DEF owner
<1>14. Cardinality(S) <= Total(sums)
  <2>1. \A a \in listed : F[a] <= sums[a]  BY <1>2, <1>9 DEF RowOK
  <2>. QED  BY <1>1, <1>3, <1>12, <2>1, TotalGrows
<1>15. ASSUME ~taken PROVE Total(sums) <= Cardinality(T)
  <2>1. \A a \in listed : sums[a] <= G[a]  BY <1>2, <1>9, <1>15 DEF RowOK
  <2>2. Total(sums) <= Total(G)  BY <1>1, <1>3, <1>13, <2>1, TotalGrows
  <2>3. Cardinality(U) <= Cardinality(T) /\ Cardinality(U) \in Nat
        /\ Cardinality(T) \in Nat
    BY <1>4, <1>11, FS_Subset, FS_CardinalityType
  <2>4. Total(sums) \in Nat  BY <1>1, <1>3, TotalType
  <2>. QED  BY <1>13, <2>2, <2>3, <2>4
<1>. QED  BY <1>10, <1>14, <1>15

\* The report on the agents misses no request that stayed as it was, and
\* counts none twice unless a listed agent lost one meanwhile, whatever
\* assignees requests have and however accounts change their role.
THEOREM LoadsAlwaysAddUp == ReportSpec => []LoadsAddUp
<1>1. ReportTypeOK /\ LoadsInv => LoadsAddUp
  BY RowsTogether DEF LoadsAddUp
<1>. QED  BY <1>1, ReportTypes, LoadsInitially, LoadsStep, PTL DEF ReportSpec
=============================================================================
