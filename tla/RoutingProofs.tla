--------------------------- MODULE RoutingProofs ---------------------------
(***************************************************************************)
(* Proofs about the routing policy, for any rules that callers may offer   *)
(* and lists of any length.                                                *)
(***************************************************************************)
EXTENDS RoutingPolicy, SortingProofs

-----------------------------------------------------------------------------
(***************************************************************************)
(* The two sorts.                                                          *)
(***************************************************************************)

\* What both sorts make of a list: the same rules at other places, in the
\* order of their orders.
Arranged(sorted, list) ==
  /\ sorted \in Seq(Rule)
  /\ \A k \in DOMAIN sorted : \E i \in DOMAIN list : sorted[k] = list[i]
  /\ \A i \in DOMAIN list : \E k \in DOMAIN sorted : sorted[k] = list[i]
  /\ Distinct(list) => Distinct(sorted)
  /\ \A k, l \in DOMAIN sorted : k < l => sorted[k].order <= sorted[l].order

\* What a rule is sorted by is a number.
LEMMA OrderType == \A r \in Rule : r.order \in Int /\ r.id \in Nat
BY PolicyAssumption DEF Rule

\* A permutation of the places that respects the orders.
Permutes(f, n, list) ==
  /\ f \in [1 .. n -> 1 .. n]
  /\ \A i \in 1 .. n : \E k \in 1 .. n : f[k] = i
  /\ \A k, l \in 1 .. n : f[k] = f[l] => k = l
  /\ \A k, l \in 1 .. n : k < l => list[f[k]].order <= list[f[l]].order

LEMMA ArrangedBy ==
  ASSUME NEW list \in Seq(Rule), NEW n \in Nat, DOMAIN list = 1 .. n,
         NEW f, Permutes(f, n, list)
  PROVE  Arranged(Picked(list, f, n), list)
<1>. DEFINE sorted == Picked(list, f, n)
<1>1. \A i \in 1 .. n : list[i] \in Rule  OBVIOUS
<1>2. /\ \A k \in 1 .. n : f[k] \in 1 .. n
      /\ \A i \in 1 .. n : \E k \in 1 .. n : f[k] = i
      /\ \A k, l \in 1 .. n : f[k] = f[l] => k = l
      /\ \A k, l \in 1 .. n : k < l => list[f[k]].order <= list[f[l]].order
  BY DEF Permutes
<1>3. sorted = [k \in 1 .. n |-> list[f[k]]]  BY DEF Picked
<1>. HIDE DEF sorted
<1>4. sorted \in [1 .. n -> Rule]  BY <1>1, <1>2, <1>3
<1>5. sorted \in Seq(Rule) /\ DOMAIN sorted = 1 .. n  BY <1>4
<1>6. \A k \in 1 .. n : sorted[k] = list[f[k]]  BY <1>3
<1>7. ASSUME Distinct(list) PROVE Distinct(sorted)
  <2>1. SUFFICES ASSUME NEW k \in 1 .. n, NEW l \in 1 .. n,
                        sorted[k].id = sorted[l].id
                 PROVE  k = l
    BY <1>5 DEF Distinct
  <2>2. f[k] \in DOMAIN list /\ f[l] \in DOMAIN list  BY <1>2
  <2>3. list[f[k]].id = list[f[l]].id  BY <1>6, <2>1
  <2>4. f[k] = f[l]  BY <1>7, <2>2, <2>3 DEF Distinct
  <2>. QED  BY <1>2, <2>4
<1>8. ASSUME NEW k \in 1 .. n, NEW l \in 1 .. n, k < l
      PROVE  sorted[k].order <= sorted[l].order
  <2>1. list[f[k]].order <= list[f[l]].order  BY <1>2, <1>8
  <2>. QED  BY <1>6, <2>1
<1>9. \A k \in DOMAIN sorted : \E i \in DOMAIN list : sorted[k] = list[i]
  BY <1>2, <1>5, <1>6
<1>10. \A i \in DOMAIN list : \E k \in DOMAIN sorted : sorted[k] = list[i]
  <2>1. SUFFICES ASSUME NEW i \in 1 .. n
                 PROVE  \E k \in 1 .. n : sorted[k] = list[i]
    BY <1>5
  <2>2. PICK k \in 1 .. n : f[k] = i  BY <1>2
  <2>. QED  BY <1>6, <2>2
<1>. QED  BY <1>5, <1>7, <1>8, <1>9, <1>10 DEF Arranged, sorted

\* The places of rules of a lower order, and those that NewPolicy puts first.
Lower(list, n) ==
  {p \in (1 .. n) \X (1 .. n) : ByOrder(list[p[1]], list[p[2]])}

LowerOrId(list, n) ==
  {p \in (1 .. n) \X (1 .. n) : ByOrderAndId(list[p[1]], list[p[2]])}

LEMMA LowerOrder ==
  ASSUME NEW list \in Seq(Rule), NEW n \in Nat, DOMAIN list = 1 .. n
  PROVE  /\ WeakOrder(Lower(list, n), n)
         /\ Resort(list) = Arrange(list, 1 .. n, Stably(Lower(list, n), n))
         /\ \A i, j \in 1 .. n :
              <<i, j>> \in Lower(list, n) <=> list[i].order < list[j].order
<1>. DEFINE L == Lower(list, n)
            o(i) == list[i].order
<1>1. \A i, j \in 1 .. n : <<i, j>> \in L <=> o(i) < o(j)
  BY DEF Lower, ByOrder
<1>2. \A i \in 1 .. n : o(i) \in Int  BY OrderType
<1>3. WeakOrder(L, n)
  <2>. HIDE DEF L, o
  <2>1. \A i, j \in 1 .. n : <<i, j>> \in L => <<j, i>> \notin L  BY <1>1, <1>2
  <2>2. \A i, j, k \in 1 .. n :
          <<i, k>> \in L => <<i, j>> \in L \/ <<j, k>> \in L
    BY <1>1, <1>2
  <2>. QED  BY <2>1, <2>2 DEF WeakOrder
<1>4. Stably(L, n) = {p \in (DOMAIN list) \X (DOMAIN list) :
                        \/ ByOrder(list[p[1]], list[p[2]])
                        \/ ~ByOrder(list[p[2]], list[p[1]]) /\ p[1] < p[2]}
  BY DEF Stably, Lower
<1>5. Resort(list) = Arrange(list, 1 .. n, Stably(L, n))
  BY <1>4 DEF Resort, StableSort
<1>. QED  BY <1>1, <1>3, <1>5

LEMMA LowerOrIdOrder ==
  ASSUME NEW list \in Seq(Rule), NEW n \in Nat, DOMAIN list = 1 .. n
  PROVE  /\ WeakOrder(LowerOrId(list, n), n)
         /\ Ordered(list) = Arrange(list, 1 .. n, Stably(LowerOrId(list, n), n))
         /\ \A i, j \in 1 .. n : <<i, j>> \notin LowerOrId(list, n) =>
              list[j].order <= list[i].order
<1>. DEFINE L == LowerOrId(list, n)
            o(i) == list[i].order
            d(i) == list[i].id
<1>1. \A i, j \in 1 .. n :
        <<i, j>> \in L <=> o(i) < o(j) \/ (o(i) = o(j) /\ d(i) < d(j))
  BY DEF LowerOrId, ByOrderAndId
<1>2. \A i \in 1 .. n : o(i) \in Int /\ d(i) \in Int  BY OrderType
<1>3. WeakOrder(L, n)
  <2>. HIDE DEF L, o, d
  <2>1. ASSUME NEW i \in 1 .. n, NEW j \in 1 .. n, <<i, j>> \in L
        PROVE  <<j, i>> \notin L
    <3>1. o(i) \in Int /\ o(j) \in Int /\ d(i) \in Int /\ d(j) \in Int  BY <1>2
    <3>2. o(i) < o(j) \/ (o(i) = o(j) /\ d(i) < d(j))  BY <1>1, <2>1
    <3>3. ~(o(j) < o(i) \/ (o(j) = o(i) /\ d(j) < d(i)))  BY <3>1, <3>2
    <3>. QED  BY <1>1, <3>3
  <2>2. ASSUME NEW i \in 1 .. n, NEW j \in 1 .. n, NEW k \in 1 .. n,
               <<i, k>> \in L
        PROVE  <<i, j>> \in L \/ <<j, k>> \in L
    <3>1. /\ o(i) \in Int /\ o(j) \in Int /\ o(k) \in Int
          /\ d(i) \in Int /\ d(j) \in Int /\ d(k) \in Int
      BY <1>2
    <3>2. o(i) < o(k) \/ (o(i) = o(k) /\ d(i) < d(k))  BY <1>1, <2>2
    <3>3. \/ o(i) < o(j) \/ (o(i) = o(j) /\ d(i) < d(j))
          \/ o(j) < o(k) \/ (o(j) = o(k) /\ d(j) < d(k))
      BY <3>1, <3>2
    <3>. QED  BY <1>1, <3>3
  <2>. QED  BY <2>1, <2>2 DEF WeakOrder
<1>4. Stably(L, n) = {p \in (DOMAIN list) \X (DOMAIN list) :
                        \/ ByOrderAndId(list[p[1]], list[p[2]])
                        \/ ~ByOrderAndId(list[p[2]], list[p[1]]) /\ p[1] < p[2]}
  BY DEF Stably, LowerOrId
<1>5. Ordered(list) = Arrange(list, 1 .. n, Stably(L, n))
  BY <1>4 DEF Ordered, StableSort
<1>6. \A i, j \in 1 .. n : <<i, j>> \notin L => o(j) <= o(i)
  <2>. HIDE DEF L, o, d
  <2>. QED  BY <1>1, <1>2
<1>. QED  BY <1>3, <1>5, <1>6

\* The sort of Replace arranges a list.
LEMMA ResortArranges ==
  ASSUME NEW list \in Seq(Rule) PROVE Arranged(Resort(list), list)
<1>. DEFINE n == Len(list)
            L == Lower(list, n)
<1>1. n \in Nat /\ DOMAIN list = 1 .. n  OBVIOUS
<1>. HIDE DEF n
<1>2. /\ WeakOrder(L, n)
      /\ Resort(list) = Arrange(list, 1 .. n, Stably(L, n))
      /\ \A i, j \in 1 .. n : <<i, j>> \in L <=> list[i].order < list[j].order
  BY <1>1, LowerOrder
<1>. HIDE DEF L
<1>3. PICK f : /\ Arrange(list, 1 .. n, Stably(L, n)) = Picked(list, f, n)
               /\ SortsStably(f, n, L)
  BY <1>1, <1>2, StableArrangement
<1>4. \A i \in 1 .. n : list[i].order \in Int  BY <1>1, OrderType
<1>5. ASSUME NEW k \in 1 .. n, NEW l \in 1 .. n, k < l
      PROVE  list[f[k]].order <= list[f[l]].order
  <2>1. f[k] \in 1 .. n /\ f[l] \in 1 .. n /\ <<f[l], f[k]>> \notin L
    BY <1>3, <1>5 DEF SortsStably
  <2>2. ~(list[f[l]].order < list[f[k]].order)  BY <1>2, <2>1
  <2>. QED  BY <1>4, <2>1, <2>2
<1>6. Permutes(f, n, list)  BY <1>3, <1>5 DEF Permutes, SortsStably
<1>. QED  BY <1>1, <1>2, <1>3, <1>6, ArrangedBy

\* The sort of NewPolicy arranges a list, by id where two orders are equal.
LEMMA OrderedArranges ==
  ASSUME NEW list \in Seq(Rule) PROVE Arranged(Ordered(list), list)
<1>. DEFINE n == Len(list)
            L == LowerOrId(list, n)
<1>1. n \in Nat /\ DOMAIN list = 1 .. n  OBVIOUS
<1>. HIDE DEF n
<1>2. /\ WeakOrder(L, n)
      /\ Ordered(list) = Arrange(list, 1 .. n, Stably(L, n))
      /\ \A i, j \in 1 .. n : <<i, j>> \notin L => list[j].order <= list[i].order
  BY <1>1, LowerOrIdOrder
<1>. HIDE DEF L
<1>3. PICK f : /\ Arrange(list, 1 .. n, Stably(L, n)) = Picked(list, f, n)
               /\ SortsStably(f, n, L)
  BY <1>1, <1>2, StableArrangement
<1>4. ASSUME NEW k \in 1 .. n, NEW l \in 1 .. n, k < l
      PROVE  list[f[k]].order <= list[f[l]].order
  <2>1. f[k] \in 1 .. n /\ f[l] \in 1 .. n /\ <<f[l], f[k]>> \notin L
    BY <1>3, <1>4 DEF SortsStably
  <2>. QED  BY <1>2, <2>1
<1>5. Permutes(f, n, list)  BY <1>3, <1>4 DEF Permutes, SortsStably
<1>. QED  BY <1>1, <1>2, <1>3, <1>5, ArrangedBy

\* What is arranged from an accepted list is accepted.
LEMMA ArrangedAccepted ==
  ASSUME NEW list \in Seq(Rule), Accepted(list), NEW sorted,
         Arranged(sorted, list)
  PROVE  Accepted(sorted)
BY DEF Arranged, Accepted

-----------------------------------------------------------------------------
(***************************************************************************)
(* The invariant.                                                          *)
(***************************************************************************)

\* Some places of a list are a finite set of numbers.
LEMMA PlacesAreFinite ==
  ASSUME NEW list \in Seq(Rule), NEW S \in SUBSET DOMAIN list
  PROVE  S \in SUBSET Int /\ IsFiniteSet(S) /\ \A i \in S : i \in 1 .. Len(list)
<1>1. Len(list) \in Nat /\ DOMAIN list = 1 .. Len(list)  OBVIOUS
<1>2. IsFiniteSet(1 .. Len(list))  BY <1>1, FS_Interval
<1>3. IsFiniteSet(S)  BY <1>1, <1>2, FS_Subset
<1>. QED  BY <1>1, <1>3

\* A rule replaced by one with its id, or added with an id of its own, leaves
\* the ids distinct.
LEMMA WithRuleAccepted ==
  ASSUME NEW list \in Seq(Rule), Accepted(list), NEW r \in Rule, Validate(r)
  PROVE  WithRule(list, r) \in Seq(Rule) /\ Accepted(WithRule(list, r))
<1>1. CASE Places(list, r.id) = {}
  <2>. DEFINE l == Append(list, r)
  <2>1. WithRule(list, r) = l  BY <1>1 DEF WithRule
  <2>2. l \in Seq(Rule) /\ Len(l) = Len(list) + 1  OBVIOUS
  <2>3. \A i \in 1 .. Len(list) + 1 :
          l[i] = IF i <= Len(list) THEN list[i] ELSE r
    OBVIOUS
  <2>. HIDE DEF l
  <2>4. \A i \in 1 .. Len(list) : list[i].id # r.id  BY <1>1 DEF Places
  <2>5. Distinct(l)  BY <2>2, <2>3, <2>4 DEF Distinct, Accepted
  <2>6. \A i \in DOMAIN l : Validate(l[i])  BY <2>2, <2>3 DEF Accepted
  <2>. QED  BY <2>1, <2>2, <2>5, <2>6 DEF Accepted
<1>2. CASE Places(list, r.id) # {}
  <2>. DEFINE m == Min(Places(list, r.id))
              l == [list EXCEPT ![m] = r]
  <2>1. WithRule(list, r) = l  BY <1>2 DEF WithRule
  <2>2. m \in DOMAIN list /\ list[m].id = r.id
    <3>1. Places(list, r.id) \in SUBSET DOMAIN list  BY DEF Places
    <3>2. m \in Places(list, r.id)  BY <1>2, <3>1, PlacesAreFinite, Least
    <3>. QED  BY <3>2 DEF Places
  <2>. HIDE DEF m
  <2>3. l \in Seq(Rule) /\ DOMAIN l = DOMAIN list  BY <2>2
  <2>4. \A i \in DOMAIN list : l[i] = IF i = m THEN r ELSE list[i]  BY <2>2
  <2>. HIDE DEF l
  <2>5. Distinct(l)  BY <2>2, <2>3, <2>4 DEF Distinct, Accepted
  <2>6. \A i \in DOMAIN l : Validate(l[i])  BY <2>3, <2>4 DEF Accepted
  <2>. QED  BY <2>1, <2>3, <2>5, <2>6 DEF Accepted
<1>. QED  BY <1>1, <1>2

\* A list without one of its places.
Cut(list, i) == SubSeq(list, 1, i - 1) \o SubSeq(list, i + 1, Len(list))

\* What is left of it: the places before, and those behind moved up by one.
LEMMA CutList ==
  ASSUME NEW list \in Seq(Rule), NEW i \in DOMAIN list, NEW l, l = Cut(list, i)
  PROVE  /\ l \in Seq(Rule) /\ DOMAIN l = 1 .. Len(list) - 1
         /\ \A k \in DOMAIN l : l[k] = IF k < i THEN list[k] ELSE list[k + 1]
<1>. DEFINE n == Len(list)
            a == SubSeq(list, 1, i - 1)
            b == SubSeq(list, i + 1, n)
<1>1. n \in Nat /\ i \in 1 .. n /\ i \in Int  OBVIOUS
<1>2. \A k \in 1 .. n : list[k] \in Rule  OBVIOUS
<1>. HIDE DEF n
<1>3. /\ a \in Seq(Rule) /\ Len(a) = i - 1
      /\ \A k \in 1 .. i - 1 : a[k] = list[k]
  BY <1>1, <1>2, SubSeqProperties
<1>4. /\ b \in Seq(Rule) /\ Len(b) = n - i
      /\ \A k \in 1 .. n - i : b[k] = list[i + k]
  <2>1. i + 1 \in Int /\ n \in Int /\ \A k \in i + 1 .. n : list[k] \in Rule
    BY <1>1, <1>2
  <2>2. /\ b \in Seq(Rule)
        /\ Len(b) = IF i + 1 <= n THEN n - (i + 1) + 1 ELSE 0
        /\ \A k \in 1 .. n - (i + 1) + 1 : b[k] = list[(i + 1) + k - 1]
    BY <2>1, SubSeqProperties
  <2>3. n - (i + 1) + 1 = n - i  BY <1>1
  <2>4. \A k \in 1 .. n - i : (i + 1) + k - 1 = i + k  BY <1>1
  <2>5. Len(b) = n - i  BY <1>1, <2>2
  <2>. QED  BY <2>2, <2>3, <2>4, <2>5
<1>5. l = a \o b  BY DEF n, Cut
<1>. HIDE DEF a, b
<1>6. /\ l \in Seq(Rule) /\ Len(l) = (i - 1) + (n - i)
      /\ \A k \in 1 .. (i - 1) + (n - i) :
           l[k] = IF k <= i - 1 THEN a[k] ELSE b[k - (i - 1)]
  <2>1. a \in Seq(Rule) /\ b \in Seq(Rule)  BY <1>3, <1>4
  <2>2. /\ l \in Seq(Rule) /\ Len(l) = Len(a) + Len(b)
        /\ \A k \in 1 .. Len(a) + Len(b) :
             l[k] = IF k <= Len(a) THEN a[k] ELSE b[k - Len(a)]
    BY <1>5, <2>1, ConcatProperties
  <2>3. Len(a) = i - 1 /\ Len(b) = n - i  BY <1>3, <1>4
  <2>. QED  BY <2>2, <2>3
<1>7. (i - 1) + (n - i) = n - 1  BY <1>1
<1>8. l \in Seq(Rule) /\ DOMAIN l = 1 .. n - 1  BY <1>6, <1>7
<1>9. ASSUME NEW k \in 1 .. n - 1
      PROVE  l[k] = IF k < i THEN list[k] ELSE list[k + 1]
  <2>0. k \in Int  BY <1>1
  <2>1. CASE k < i
    <3>1. k <= i - 1 /\ k \in 1 .. i - 1  BY <1>1, <2>0, <2>1
    <3>2. l[k] = a[k]  BY <1>6, <1>7, <3>1
    <3>. QED  BY <1>3, <2>1, <3>1, <3>2
  <2>2. CASE ~(k < i)
    <3>1. k - (i - 1) \in 1 .. n - i /\ ~(k <= i - 1)  BY <1>1, <2>0, <2>2
    <3>2. l[k] = b[k - (i - 1)]  BY <1>6, <1>7, <3>1
    <3>3. i + (k - (i - 1)) = k + 1  BY <1>1, <2>0
    <3>. QED  BY <1>4, <2>2, <3>1, <3>2, <3>3
  <2>. QED  BY <2>1, <2>2
<1>. QED  BY <1>8, <1>9 DEF n

-----------------------------------------------------------------------------
(***************************************************************************)
(* What the methods make of the rules.                                     *)
(***************************************************************************)

\* The invariant that the properties follow from is PolicyOK itself.
LEMMA InitOK == Init => PolicyOK
<1>. SUFFICES ASSUME Init PROVE PolicyOK  OBVIOUS
<1>1. PICK r \in Offers, s \in Offers :
        Accepted(<<r, s>>) /\ rules = Ordered(<<r, s>>)
  BY DEF Init
<1>. DEFINE list == <<r, s>>
<1>2. list \in Seq(Rule)
  <2>1. r \in Rule /\ s \in Rule  BY PolicyAssumption
  <2>. QED  BY <2>1
<1>3. Accepted(list) /\ rules = Ordered(list)  BY <1>1
<1>. HIDE DEF list
<1>4. Arranged(rules, list)  BY <1>2, <1>3, OrderedArranges
<1>5. Accepted(rules)  BY <1>2, <1>3, <1>4, ArrangedAccepted
<1>6. fallback \in Groups  BY DEF Init
<1>. QED  BY <1>4, <1>5, <1>6 DEF Arranged, PolicyOK, TypeOK

\* Policy.Replace keeps a policy well formed.
LEMMA ReplaceOK ==
  ASSUME PolicyOK, NEW r \in Offers, Replace(r) PROVE PolicyOK'
<1>1. r \in Rule /\ rules \in Seq(Rule) /\ Accepted(rules) /\ Validate(r)
  BY PolicyAssumption DEF PolicyOK, TypeOK, Replace
<1>. DEFINE list == WithRule(rules, r)
<1>2. list \in Seq(Rule) /\ Accepted(list)  BY <1>1, WithRuleAccepted
<1>3. rules' = Resort(list) /\ fallback' \in Groups
  BY DEF Replace, PolicyOK, TypeOK
<1>. HIDE DEF list
<1>4. Arranged(rules', list)  BY <1>2, <1>3, ResortArranges
<1>5. Accepted(rules')  BY <1>2, <1>4, ArrangedAccepted
<1>. QED  BY <1>3, <1>4, <1>5 DEF Arranged, PolicyOK, TypeOK

\* So does building it anew from its own rules.
LEMMA RebuildOK ==
  ASSUME PolicyOK, Rebuild PROVE PolicyOK'
<1>1. rules \in Seq(Rule) /\ Accepted(rules)  BY DEF PolicyOK, TypeOK
<1>2. rules' = Ordered(rules) /\ fallback' \in Groups
  BY DEF Rebuild, PolicyOK, TypeOK
<1>3. Arranged(rules', rules)  BY <1>1, <1>2, OrderedArranges
<1>4. Accepted(rules')  BY <1>1, <1>3, ArrangedAccepted
<1>. QED  BY <1>2, <1>3, <1>4 DEF Arranged, PolicyOK, TypeOK

\* So does Policy.Remove: no other rule is lost or moved.
LEMMA RemoveOK ==
  ASSUME PolicyOK, NEW id \in RuleIds, Remove(id) PROVE PolicyOK'
<1>. DEFINE i == Min(Places(rules, id))
            n == Len(rules)
<1>1. rules \in Seq(Rule) /\ Accepted(rules) /\ fallback' \in Groups
      /\ \A k, l \in DOMAIN rules : k < l => rules[k].order <= rules[l].order
  BY DEF PolicyOK, TypeOK, Remove
<1>2. i \in DOMAIN rules
  <2>1. Places(rules, id) \in SUBSET DOMAIN rules /\ Places(rules, id) # {}
    BY DEF Places, Remove
  <2>. QED  BY <1>1, <2>1, PlacesAreFinite, Least
<1>3. rules' = Cut(rules, i)  BY DEF Remove, Cut
<1>4. n \in Nat /\ DOMAIN rules = 1 .. n  BY <1>1
<1>. HIDE DEF i
<1>5. /\ rules' \in Seq(Rule) /\ DOMAIN rules' = 1 .. n - 1
      /\ \A k \in DOMAIN rules' :
           rules'[k] = IF k < i THEN rules[k] ELSE rules[k + 1]
  BY <1>1, <1>2, <1>3, CutList
<1>. HIDE DEF n
<1>. DEFINE p(k) == IF k < i THEN k ELSE k + 1
<1>6. \A k \in 1 .. n - 1 : p(k) \in 1 .. n /\ rules'[k] = rules[p(k)]
  BY <1>2, <1>4, <1>5
<1>7. \A k, l \in 1 .. n - 1 : k < l => p(k) < p(l)  BY <1>2, <1>4
<1>8. \A k, l \in 1 .. n - 1 : p(k) = p(l) => k = l  BY <1>2, <1>4
<1>. HIDE DEF p
<1>9. Accepted(rules')
  <2>1. Distinct(rules')  BY <1>1, <1>4, <1>5, <1>6, <1>8 DEF Accepted, Distinct
  <2>. QED  BY <1>1, <1>4, <1>5, <1>6, <2>1 DEF Accepted
<1>10. \A k, l \in DOMAIN rules' : k < l => rules'[k].order <= rules'[l].order
  BY <1>1, <1>4, <1>5, <1>6, <1>7
<1>. QED  BY <1>1, <1>5, <1>9, <1>10 DEF PolicyOK, TypeOK

\* No method breaks the invariant.
LEMMA StepOK == PolicyOK /\ [Next]_vars => PolicyOK'
<1>. SUFFICES ASSUME PolicyOK, [Next]_vars PROVE PolicyOK'  OBVIOUS
<1>1. ASSUME NEW r \in Offers, Replace(r) PROVE PolicyOK'
  BY <1>1, ReplaceOK
<1>2. ASSUME NEW id \in RuleIds, Remove(id) PROVE PolicyOK'
  BY <1>2, RemoveOK
<1>3. ASSUME NEW group \in Groups \cup {NoGroup}, SetFallback(group)
      PROVE  PolicyOK'
  BY <1>3 DEF SetFallback, PolicyOK, TypeOK
<1>4. CASE Rebuild  BY <1>4, RebuildOK
<1>5. CASE UNCHANGED vars  BY <1>5 DEF vars, PolicyOK, TypeOK
<1>. QED  BY <1>1, <1>2, <1>3, <1>4, <1>5 DEF Next

\* However long a policy is and whatever rules callers offer, the methods
\* keep its rules valid, their ids distinct and their orders ascending.
THEOREM PolicyStaysOK == Spec => []PolicyOK
BY InitOK, StepOK, PTL DEF Spec

-----------------------------------------------------------------------------
(***************************************************************************)
(* What a policy decides.                                                  *)
(***************************************************************************)

Matching(list, request, hour) ==
  {i \in DOMAIN list : Match(list[i], request, hour)}

\* The rule that decides matches, and none before it does.
LEMMA FirstMatches ==
  ASSUME NEW list \in Seq(Rule), NEW request, NEW hour
  PROVE  /\ Matching(list, request, hour) = {} =>
              FirstMatch(list, request, hour) = 0
         /\ Matching(list, request, hour) # {} =>
              /\ FirstMatch(list, request, hour) \in Matching(list, request, hour)
              /\ FirstMatch(list, request, hour) # 0
              /\ \A j \in Matching(list, request, hour) :
                   FirstMatch(list, request, hour) <= j
<1>. DEFINE matching == Matching(list, request, hour)
<1>1. matching \in SUBSET DOMAIN list  BY DEF Matching
<1>2. FirstMatch(list, request, hour)
        = IF matching = {} THEN 0 ELSE Min(matching)
  BY DEF FirstMatch, Matching
<1>. HIDE DEF matching
<1>3. matching \in SUBSET Int /\ IsFiniteSet(matching)
      /\ \A i \in matching : i \in 1 .. Len(list)
  BY <1>1, PlacesAreFinite
<1>4. \A i \in matching : i # 0
  <2>1. Len(list) \in Nat  OBVIOUS
  <2>. QED  BY <1>3, <2>1
<1>5. matching # {} =>
        Min(matching) \in matching /\ \A j \in matching : Min(matching) <= j
  BY <1>3, Least
<1>. QED  BY <1>2, <1>4, <1>5 DEF matching

\* A decision is the best there is, for every request and every hour.
THEOREM DecisionsAreBest == Spec => []DecisionIsBest
<1>1. PolicyOK => DecisionIsBest
  <2>. SUFFICES ASSUME PolicyOK, NEW request \in Requests, NEW hour \in Hours
                PROVE
         LET decision == Decide(rules, fallback, request, hour)
             matching == {i \in DOMAIN rules : Match(rules[i], request, hour)}
         IN /\ decision.matched <=> matching # {}
            /\ ~decision.matched => decision.group = fallback
            /\ decision.matched =>
                 \E i \in matching :
                   /\ rules[i].id = decision.rule
                   /\ rules[i].group = decision.group
                   /\ \A j \in matching : rules[i].order <= rules[j].order
    BY DEF DecisionIsBest
  <2>. DEFINE matching == {i \in DOMAIN rules : Match(rules[i], request, hour)}
              first == FirstMatch(rules, request, hour)
              decision == Decide(rules, fallback, request, hour)
  <2>1. rules \in Seq(Rule)
        /\ \A i, j \in DOMAIN rules : i < j => rules[i].order <= rules[j].order
    BY DEF PolicyOK, TypeOK
  <2>2. /\ matching = {} => first = 0
        /\ matching # {} => first \in matching /\ first # 0
                            /\ \A j \in matching : first <= j
    <3>1. matching = Matching(rules, request, hour)  BY DEF Matching
    <3>. HIDE DEF matching
    <3>. QED  BY <2>1, <3>1, FirstMatches
  <2>3. decision = IF first = 0
                   THEN [group |-> fallback, rule |-> 0, matched |-> FALSE]
                   ELSE [group |-> rules[first].group, rule |-> rules[first].id,
                         matched |-> TRUE]
    BY DEF Decide
  <2>4. matching \subseteq DOMAIN rules  OBVIOUS
  <2>. HIDE DEF matching, first, decision
  <2>5. CASE matching = {}  BY <2>2, <2>3, <2>5 DEF matching, decision
  <2>6. CASE matching # {}
    <3>1. decision = [group |-> rules[first].group, rule |-> rules[first].id,
                      matched |-> TRUE]
      BY <2>2, <2>3, <2>6
    <3>2. \A j \in matching : rules[first].order <= rules[j].order
      <4>. TAKE j \in matching
      <4>1. first \in DOMAIN rules /\ j \in DOMAIN rules /\ first <= j
        BY <2>2, <2>4, <2>6
      <4>2. rules[first].order \in Int /\ first \in Int /\ j \in Int
        BY <2>1, <4>1, OrderType
      <4>. QED  BY <2>1, <4>1, <4>2
    <3>3. first \in matching  BY <2>2, <2>6
    <3>. QED  BY <2>6, <3>1, <3>2, <3>3 DEF matching, decision
  <2>. QED  BY <2>5, <2>6
<1>. QED  BY <1>1, PolicyStaysOK, PTL

\* A policy that passed ValidateGroups serves every request.
THEOREM ValidatedPoliciesServe == Spec => []ValidatedPolicyServes
<1>1. PolicyOK => ValidatedPolicyServes
  <2>. SUFFICES ASSUME PolicyOK, NEW active \in SUBSET Groups,
                       ValidateGroups(active),
                       NEW request \in Requests, NEW hour \in Hours
                PROVE  Decide(rules, fallback, request, hour).group \in active
    BY DEF ValidatedPolicyServes
  <2>. DEFINE matching == {i \in DOMAIN rules : Match(rules[i], request, hour)}
              first == FirstMatch(rules, request, hour)
  <2>1. rules \in Seq(Rule)  BY DEF PolicyOK, TypeOK
  <2>2. /\ matching = {} => first = 0
        /\ matching # {} => first \in matching /\ first # 0
                            /\ \A j \in matching : first <= j
    <3>1. matching = Matching(rules, request, hour)  BY DEF Matching
    <3>. HIDE DEF matching
    <3>. QED  BY <2>1, <3>1, FirstMatches
  <2>3. CASE first = 0
    BY <2>3 DEF Decide, ValidateGroups
  <2>4. CASE first # 0
    <3>1. first \in DOMAIN rules /\ rules[first].enabled
      BY <2>2, <2>4 DEF Match
    <3>2. rules[first].group \in active  BY <3>1 DEF ValidateGroups
    <3>. QED  BY <2>4, <3>2 DEF Decide
  <2>. QED  BY <2>3, <2>4
<1>. QED  BY <1>1, PolicyStaysOK, PTL

\* On the 24 hours, a remainder turns back once at most.
LEMMA Remainder ==
  \A x \in -24 .. 47 :
    x % 24 = IF x < 0 THEN x + 24 ELSE IF x >= 24 THEN x - 24 ELSE x
OBVIOUS

\* The hours of every rule are an arc of the clock.
THEOREM HoursAreArcs == Spec => []HoursAreAnArc
<1>1. PolicyOK => HoursAreAnArc
  <2>. SUFFICES ASSUME PolicyOK, NEW i \in DOMAIN rules
                PROVE
         LET r == rules[i]
             length == (r.end - r.start) % 24
         IN {hour \in Hours : InHours(r, hour)} =
              IF length = 0 THEN Hours
              ELSE {(r.start + k) % 24 : k \in 0 .. length - 1}
    BY DEF HoursAreAnArc
  <2>. DEFINE r == rules[i]
              s == rules[i].start
              e == rules[i].end
              length == (e - s) % 24
  <2>1. s \in 0 .. 23 /\ e \in 0 .. 24
    BY DEF PolicyOK, Accepted, Validate, Hours
  <2>2. \A hour \in Hours : InHours(r, hour) <=>
          \/ s = e
          \/ s < e /\ hour >= s /\ hour < e
          \/ s > e /\ (hour >= s \/ hour < e)
    BY DEF InHours
  <2>. HIDE DEF r, s, e
  <2>3. e - s \in -24 .. 47  BY <2>1
  <2>4. length = IF e < s THEN e - s + 24 ELSE IF e - s = 24 THEN 0 ELSE e - s
    BY <2>1, <2>3, Remainder
  <2>5. ASSUME NEW k \in 0 .. length - 1
        PROVE  (s + k) % 24 = IF s + k >= 24 THEN s + k - 24 ELSE s + k
    BY <2>1, <2>4, Remainder
  <2>. HIDE DEF length
  <2>6. CASE length = 0
    <3>1. \A hour \in Hours : InHours(r, hour)
      BY <2>1, <2>2, <2>4, <2>6 DEF Hours
    <3>. QED  BY <2>6, <3>1 DEF r, s, e, length
  <2>7. CASE length # 0
    <3>1. ASSUME NEW hour \in Hours, InHours(r, hour)
          PROVE  \E k \in 0 .. length - 1 : hour = (s + k) % 24
      <4>1. CASE hour >= s
        <5>1. hour - s \in 0 .. length - 1  BY <2>1, <2>2, <2>4, <2>7, <3>1, <4>1 DEF Hours
        <5>2. hour = (s + (hour - s)) % 24  BY <2>1, <2>5, <4>1, <5>1 DEF Hours
        <5>. QED  BY <5>1, <5>2
      <4>2. CASE hour < s
        <5>1. hour + 24 - s \in 0 .. length - 1
          BY <2>1, <2>2, <2>4, <2>7, <3>1, <4>2 DEF Hours
        <5>2. hour = (s + (hour + 24 - s)) % 24
          BY <2>1, <2>5, <4>2, <5>1 DEF Hours
        <5>. QED  BY <5>1, <5>2
      <4>. QED  BY <2>1, <4>1, <4>2 DEF Hours
    <3>2. ASSUME NEW k \in 0 .. length - 1
          PROVE  (s + k) % 24 \in Hours /\ InHours(r, (s + k) % 24)
      <4>. DEFINE h == (s + k) % 24
      <4>1. h = IF s + k >= 24 THEN s + k - 24 ELSE s + k  BY <2>5
      <4>. HIDE DEF h
      <4>2. h \in Hours  BY <2>1, <2>4, <2>7, <4>1 DEF Hours
      <4>3. \/ s < e /\ h >= s /\ h < e
            \/ s > e /\ (h >= s \/ h < e)
        BY <2>1, <2>4, <2>7, <4>1
      <4>4. h \in Hours /\ InHours(r, h)  BY <2>2, <4>2, <4>3
      <4>. QED  BY <4>4 DEF h
    <3>3. {hour \in Hours : InHours(r, hour)}
            = {(s + k) % 24 : k \in 0 .. length - 1}
      BY <3>1, <3>2
    <3>. QED  BY <2>7, <3>3 DEF r, s, e, length
  <2>. QED  BY <2>6, <2>7
<1>. QED  BY <1>1, PolicyStaysOK, PTL

-----------------------------------------------------------------------------
(***************************************************************************)
(* Merging and replacing.                                                  *)
(***************************************************************************)

\* What a rule replaces leaves of a list, and the rule.
RulesWith(list, r) == {r} \cup {s \in Range(list) : s.id # r.id}

ByBoth(S) == {p \in S \X S : ByOrderAndId(p[1], p[2])}

LEMMA RangeOfRules ==
  ASSUME NEW list \in Seq(Rule)
  PROVE  /\ Range(list) \in SUBSET Rule /\ IsFiniteSet(Range(list))
         /\ \A s : s \in Range(list) <=> \E i \in DOMAIN list : s = list[i]
<1>. DEFINE n == Len(list)
<1>1. n \in Nat /\ DOMAIN list = 1 .. n  OBVIOUS
<1>2. \A i \in 1 .. n : list[i] \in Rule  OBVIOUS
<1>. HIDE DEF n
<1>3. IsFiniteSet(1 .. n)  BY <1>1, FS_Interval
<1>. DEFINE S == Range(list)
<1>4. S = {list[i] : i \in 1 .. n}  BY <1>1 DEF Range
<1>5. list \in Surjection(1 .. n, S)
  <2>1. list = [i \in 1 .. n |-> list[i]]  BY <1>1
  <2>. QED  BY <1>4, <2>1 DEF Surjection
<1>. HIDE DEF S
<1>6. IsFiniteSet(S)  BY <1>3, <1>5, FS_Surjection
<1>. QED  BY <1>1, <1>2, <1>4, <1>6 DEF S

\* The order by order and id is one of rules whose ids differ.
LEMMA RulesAreOrdered ==
  ASSUME NEW S \in SUBSET Rule, \A r, s \in S : r.id = s.id => r = s
  PROVE  /\ StrictOrder(ByBoth(S), S)
         /\ \A r, s \in S : <<r, s>> \in ByBoth(S) <=> ByOrderAndId(r, s)
<1>. DEFINE B == ByBoth(S)
            o(r) == r.order
            d(r) == r.id
<1>1. \A r, s \in S :
        <<r, s>> \in B <=> o(r) < o(s) \/ (o(r) = o(s) /\ d(r) < d(s))
  BY DEF ByBoth, ByOrderAndId
<1>2. \A r \in S : o(r) \in Int /\ d(r) \in Int  BY OrderType
<1>3. \A r, s \in S : d(r) = d(s) => r = s  OBVIOUS
<1>4. \A r, s \in S : <<r, s>> \in B <=> ByOrderAndId(r, s)
  BY DEF ByBoth
<1>. HIDE DEF B, o, d
<1>5. \A r \in S : <<r, r>> \notin B  BY <1>1, <1>2
<1>6. ASSUME NEW r \in S, NEW s \in S, r # s
      PROVE  <<r, s>> \in B \/ <<s, r>> \in B
  <2>1. o(r) \in Int /\ o(s) \in Int /\ d(r) \in Int /\ d(s) \in Int  BY <1>2
  <2>2. d(r) # d(s)  BY <1>3, <1>6
  <2>3. \/ o(r) < o(s) \/ (o(r) = o(s) /\ d(r) < d(s))
        \/ o(s) < o(r) \/ (o(s) = o(r) /\ d(s) < d(r))
    BY <2>1, <2>2
  <2>. QED  BY <1>1, <2>3
<1>7. ASSUME NEW r \in S, NEW s \in S, NEW t \in S,
             <<r, s>> \in B, <<s, t>> \in B
      PROVE  <<r, t>> \in B
  <2>1. /\ o(r) \in Int /\ o(s) \in Int /\ o(t) \in Int
        /\ d(r) \in Int /\ d(s) \in Int /\ d(t) \in Int
    BY <1>2
  <2>2. /\ o(r) < o(s) \/ (o(r) = o(s) /\ d(r) < d(s))
        /\ o(s) < o(t) \/ (o(s) = o(t) /\ d(s) < d(t))
    BY <1>1, <1>7
  <2>3. o(r) < o(t) \/ (o(r) = o(t) /\ d(r) < d(t))  BY <2>1, <2>2
  <2>. QED  BY <1>1, <2>3
<1>. QED  BY <1>4, <1>5, <1>6, <1>7 DEF StrictOrder, B

\* The overrides that count are rules, one for an id.
LEMMA LastRules ==
  ASSUME NEW overrides \in Seq(Rule)
  PROVE  /\ LastOf(overrides) \in SUBSET Range(overrides)
         /\ LastOf(overrides) \in SUBSET Rule /\ IsFiniteSet(LastOf(overrides))
         /\ \A s, t \in LastOf(overrides) : s.id = t.id => s = t
<1>1. DOMAIN overrides \in SUBSET Int  OBVIOUS
<1>2. /\ Range(overrides) \in SUBSET Rule /\ IsFiniteSet(Range(overrides))
      /\ \A s : s \in Range(overrides) <=> \E i \in DOMAIN overrides : s = overrides[i]
  BY RangeOfRules
<1>3. LastOf(overrides) \in SUBSET Range(overrides)  BY <1>2 DEF LastOf
<1>4. IsFiniteSet(LastOf(overrides))  BY <1>2, <1>3, FS_Subset
<1>5. ASSUME NEW s \in LastOf(overrides), NEW t \in LastOf(overrides), s.id = t.id
      PROVE  s = t
  <2>1. PICK i \in DOMAIN overrides :
          /\ s = overrides[i]
          /\ \A k \in DOMAIN overrides : k > i => overrides[k].id # overrides[i].id
    BY DEF LastOf
  <2>2. PICK j \in DOMAIN overrides :
          /\ t = overrides[j]
          /\ \A k \in DOMAIN overrides : k > j => overrides[k].id # overrides[j].id
    BY DEF LastOf
  <2>3. ~(i > j) /\ ~(j > i)  BY <1>5, <2>1, <2>2
  <2>4. i = j  BY <1>1, <2>3
  <2>. QED  BY <2>1, <2>2, <2>4
<1>. QED  BY <1>2, <1>3, <1>4, <1>5

\* The merged rules are finitely many and their ids differ.
LEMMA OverriddenRules ==
  ASSUME NEW list \in Seq(Rule), Distinct(list), NEW overrides \in Seq(Rule)
  PROVE  /\ Overridden(list, overrides) \in SUBSET Rule
         /\ IsFiniteSet(Overridden(list, overrides))
         /\ \A s, t \in Overridden(list, overrides) : s.id = t.id => s = t
<1>. DEFINE last == LastOf(overrides)
            kept == {s \in Range(list) : \A t \in last : t.id # s.id}
<1>1. /\ Range(list) \in SUBSET Rule /\ IsFiniteSet(Range(list))
      /\ \A s : s \in Range(list) <=> \E i \in DOMAIN list : s = list[i]
  BY RangeOfRules
<1>2. /\ last \in SUBSET Rule /\ IsFiniteSet(last)
      /\ \A s, t \in last : s.id = t.id => s = t
  BY LastRules
<1>3. Overridden(list, overrides) = last \cup kept  BY DEF Overridden
<1>. HIDE DEF last
<1>4. kept \in SUBSET Range(list) /\ \A s \in kept, t \in last : t.id # s.id
  OBVIOUS
<1>5. \A s, t \in kept : s.id = t.id => s = t  BY <1>1 DEF Distinct
<1>. HIDE DEF kept
<1>6. IsFiniteSet(kept)  BY <1>1, <1>4, FS_Subset
<1>7. IsFiniteSet(last \cup kept)  BY <1>2, <1>6, FS_Union
<1>. QED  BY <1>1, <1>2, <1>3, <1>4, <1>5, <1>7

\* What MergeRules makes of them.
LEMMA MergedRules ==
  ASSUME NEW list \in Seq(Rule), Distinct(list), NEW overrides \in Seq(Rule)
  PROVE  Enumerates(Merged(list, overrides),
                    Cardinality(Overridden(list, overrides)),
                    Overridden(list, overrides),
                    ByBoth(Overridden(list, overrides)))
<1>. DEFINE S == Overridden(list, overrides)
            n == Cardinality(S)
            Sorts(l) == \A i, j \in DOMAIN l : i < j => ByOrderAndId(l[i], l[j])
<1>4. Merged(list, overrides) = CHOOSE l \in [1 .. n -> S] : Sorts(l)
  BY DEF Merged
<1>5. /\ S \in SUBSET Rule /\ IsFiniteSet(S)
      /\ \A s, t \in S : s.id = t.id => s = t
  BY OverriddenRules
<1>. HIDE DEF S
<1>6. /\ StrictOrder(ByBoth(S), S)
      /\ \A s, t \in S : <<s, t>> \in ByBoth(S) <=> ByOrderAndId(s, t)
  BY <1>5, RulesAreOrdered
<1>7. PICK f : Enumerates(f, n, S, ByBoth(S))
  BY <1>5, <1>6, EnumerationExists
<1>8. f \in [1 .. n -> S] /\ Sorts(f)
  BY <1>6, <1>7 DEF Enumerates
<1>. DEFINE m == Merged(list, overrides)
<1>9. m \in [1 .. n -> S] /\ Sorts(m)
  <2>. HIDE DEF Sorts, n
  <2>. QED  BY <1>4, <1>8
<1>. HIDE DEF m
<1>10. \A k, l \in 1 .. n : k < l => <<m[k], m[l]>> \in ByBoth(S)
  BY <1>6, <1>9
<1>11. Enumerates(m, n, S, ByBoth(S))
  BY <1>5, <1>6, <1>9, <1>10, EnumerationFills
<1>. QED  BY <1>11 DEF m, S

\* It is a list of these rules and no id is in it twice.
LEMMA MergedList ==
  ASSUME NEW list \in Seq(Rule), Distinct(list), NEW overrides \in Seq(Rule)
  PROVE  /\ Merged(list, overrides) \in Seq(Rule)
         /\ Distinct(Merged(list, overrides))
         /\ Range(Merged(list, overrides)) = Overridden(list, overrides)
<1>. DEFINE S == Overridden(list, overrides)
            n == Cardinality(S)
            m == Merged(list, overrides)
<1>1. /\ S \in SUBSET Rule /\ IsFiniteSet(S)
      /\ \A s, t \in S : s.id = t.id => s = t
  BY OverriddenRules
<1>2. Enumerates(m, n, S, ByBoth(S))  BY MergedRules
<1>. HIDE DEF S, m
<1>3. n \in Nat  BY <1>1, FS_CardinalityType
<1>4. StrictOrder(ByBoth(S), S)  BY <1>1, RulesAreOrdered
<1>. HIDE DEF n
<1>5. \A k, l \in 1 .. n : m[k] = m[l] => k = l
  BY <1>2, <1>3, <1>4, EnumerationCounts
<1>6. m \in [1 .. n -> S] /\ \A s \in S : \E k \in 1 .. n : m[k] = s
  BY <1>2 DEF Enumerates
<1>7. m \in Seq(Rule) /\ DOMAIN m = 1 .. n  BY <1>1, <1>3, <1>6
<1>8. Distinct(m)  BY <1>1, <1>5, <1>6, <1>7 DEF Distinct
<1>9. Range(m) = S  BY <1>6 DEF Range
<1>. QED  BY <1>7, <1>8, <1>9 DEF m, S

\* One more override takes the place of the one with its id.
LEMMA LastOfAppended ==
  ASSUME NEW overrides \in Seq(Rule), NEW r \in Rule
  PROVE  LastOf(Append(overrides, r)) = {r} \cup {s \in LastOf(overrides) : s.id # r.id}
<1>. DEFINE n == Len(overrides)
            e == n + 1
            l == Append(overrides, r)
            Is(list, D, i, s) ==
              /\ s = list[i]
              /\ \A k \in D : k > i => list[k].id # list[i].id
<1>1. /\ n \in Nat /\ DOMAIN overrides = 1 .. n
      /\ DOMAIN l = 1 .. e /\ l[e] = r /\ \A i \in 1 .. n : l[i] = overrides[i]
  OBVIOUS
<1>2. /\ \A s : s \in LastOf(l) <=> \E i \in 1 .. e : Is(l, 1 .. e, i, s)
      /\ \A s : s \in LastOf(overrides) <=> \E i \in 1 .. n : Is(overrides, 1 .. n, i, s)
  BY <1>1 DEF LastOf
<1>. HIDE DEF n, l
<1>3. /\ \A i \in 1 .. e : i \in 1 .. n \/ i = e
      /\ \A i \in 1 .. n : i \in 1 .. e /\ e > i
      /\ e \in 1 .. e /\ \A i \in 1 .. e : ~(i > e)
  BY <1>1
<1>. HIDE DEF e
<1>4. ASSUME NEW s \in LastOf(l)
      PROVE  s = r \/ (s \in LastOf(overrides) /\ s.id # r.id)
  <2>1. PICK i \in 1 .. e : Is(l, 1 .. e, i, s)  BY <1>2
  <2>2. CASE i = e  BY <1>1, <2>1, <2>2
  <2>3. CASE i \in 1 .. n
    <3>1. s = overrides[i] /\ s.id # r.id  BY <1>1, <1>3, <2>1, <2>3
    <3>2. Is(overrides, 1 .. n, i, s)  BY <1>1, <1>3, <2>1, <2>3
    <3>. QED  BY <1>2, <2>3, <3>1, <3>2
  <2>. QED  BY <1>3, <2>2, <2>3
<1>5. r \in LastOf(l)
  <2>1. Is(l, 1 .. e, e, r)  BY <1>1, <1>3
  <2>. QED  BY <1>2, <1>3, <2>1
<1>6. ASSUME NEW s \in LastOf(overrides), s.id # r.id PROVE s \in LastOf(l)
  <2>1. PICK i \in 1 .. n : Is(overrides, 1 .. n, i, s)  BY <1>2
  <2>2. Is(l, 1 .. e, i, s)  BY <1>1, <1>3, <1>6, <2>1
  <2>. QED  BY <1>2, <1>3, <2>2
<1>. QED  BY <1>4, <1>5, <1>6 DEF l

\* So merging one more rule leaves the rules that replacing it leaves.
LEMMA OverriddenAppended ==
  ASSUME NEW list \in Seq(Rule), NEW overrides \in Seq(Rule), NEW r \in Rule, NEW m,
         Range(m) = Overridden(list, overrides)
  PROVE  RulesWith(m, r) = Overridden(list, Append(overrides, r))
<1>. DEFINE last == LastOf(overrides)
            more == LastOf(Append(overrides, r))
<1>1. more = {r} \cup {s \in last : s.id # r.id}  BY LastOfAppended
<1>2. /\ Range(m) = last \cup {t \in Range(list) : \A s \in last : s.id # t.id}
      /\ Overridden(list, Append(overrides, r))
           = more \cup {t \in Range(list) : \A s \in more : s.id # t.id}
  BY DEF Overridden
<1>. HIDE DEF last, more
<1>3. ASSUME NEW t \in Range(list)
      PROVE  (\A s \in more : s.id # t.id) <=>
                t.id # r.id /\ \A s \in last : s.id # t.id
  BY <1>1
<1>. QED  BY <1>1, <1>2, <1>3 DEF RulesWith

\* Replacing a rule leaves the same rules.
LEMMA WithRuleRange ==
  ASSUME NEW list \in Seq(Rule), Distinct(list), NEW r \in Rule
  PROVE  Range(WithRule(list, r)) = RulesWith(list, r)
<1>. DEFINE l == WithRule(list, r)
<1>0. \A s : s \in Range(list) <=> \E i \in DOMAIN list : s = list[i]
  BY RangeOfRules
<1>1. CASE Places(list, r.id) = {}
  <2>1. l = Append(list, r)  BY <1>1 DEF WithRule
  <2>2. \A i \in DOMAIN list : list[i].id # r.id  BY <1>1 DEF Places
  <2>3. Range(l) = {r} \cup Range(list)
    <3>. DEFINE n == Len(list)
                e == n + 1
    <3>1. n \in Nat /\ DOMAIN list = 1 .. n  OBVIOUS
    <3>2. /\ DOMAIN l = 1 .. e
          /\ \A i \in 1 .. n : l[i] = list[i]
          /\ l[e] = r
      BY <2>1
    <3>. HIDE DEF l, n
    <3>3. /\ \A i \in 1 .. e : i \in 1 .. n \/ i = e
          /\ \A i \in 1 .. n : i \in 1 .. e
          /\ e \in 1 .. e
      BY <3>1
    <3>. HIDE DEF e
    <3>4. \A s : s \in Range(l) <=> \E i \in 1 .. e : s = l[i]
      BY <3>2 DEF Range
    <3>5. ASSUME NEW s \in Range(l) PROVE s = r \/ s \in Range(list)
      <4>1. PICK i \in 1 .. e : s = l[i]  BY <3>4
      <4>2. CASE i = e  BY <3>2, <4>1, <4>2
      <4>3. CASE i \in 1 .. n  BY <1>0, <3>1, <3>2, <4>1, <4>3
      <4>. QED  BY <3>3, <4>2, <4>3
    <3>6. r \in Range(l)  BY <3>2, <3>3, <3>4
    <3>7. ASSUME NEW s \in Range(list) PROVE s \in Range(l)
      <4>1. PICK i \in 1 .. n : s = list[i]  BY <1>0, <3>1
      <4>. QED  BY <3>2, <3>3, <3>4, <4>1
    <3>. QED  BY <3>5, <3>6, <3>7
  <2>. QED  BY <1>0, <2>2, <2>3 DEF RulesWith
<1>2. CASE Places(list, r.id) # {}
  <2>. DEFINE m == Min(Places(list, r.id))
  <2>1. l = [list EXCEPT ![m] = r]  BY <1>2 DEF WithRule
  <2>2. m \in DOMAIN list /\ list[m].id = r.id
    <3>1. Places(list, r.id) \in SUBSET DOMAIN list  BY DEF Places
    <3>2. m \in Places(list, r.id)  BY <1>2, <3>1, PlacesAreFinite, Least
    <3>. QED  BY <3>2 DEF Places
  <2>. HIDE DEF m
  <2>3. DOMAIN l = DOMAIN list /\ l[m] = r
        /\ \A i \in DOMAIN list : i # m => l[i] = list[i]
    BY <2>1, <2>2
  <2>4. \A i \in DOMAIN list : i # m <=> list[i].id # r.id
    BY <2>2 DEF Distinct
  <2>. HIDE DEF l
  <2>5. \A s : s \in Range(l) <=> \E i \in DOMAIN list : s = l[i]
    BY <2>3 DEF Range
  <2>6. \A s : s \in Range(l) <=>
          s = r \/ \E i \in DOMAIN list : i # m /\ s = list[i]
    BY <2>2, <2>3, <2>5
  <2>7. \A s : s \in Range(l) <=> s = r \/ (s \in Range(list) /\ s.id # r.id)
    BY <1>0, <2>4, <2>6
  <2>. QED  BY <2>7 DEF RulesWith, l
<1>. QED  BY <1>1, <1>2

\* The sort of NewPolicy enumerates the rules of a list by order and id.
LEMMA OrderedEnumerates ==
  ASSUME NEW list \in Seq(Rule), Distinct(list)
  PROVE  Enumerates(Ordered(list), Len(list), Range(list), ByBoth(Range(list)))
<1>. DEFINE n == Len(list)
            S == Range(list)
            L == LowerOrId(list, n)
            o == Ordered(list)
<1>1. n \in Nat /\ DOMAIN list = 1 .. n /\ list \in [1 .. n -> Rule]  OBVIOUS
<1>. HIDE DEF n
<1>2. S \in SUBSET Rule /\ \A s : s \in S <=> \E i \in 1 .. n : s = list[i]
  BY <1>1, RangeOfRules
<1>. HIDE DEF S
<1>3. /\ WeakOrder(L, n)
      /\ o = Arrange(list, 1 .. n, Stably(L, n))
  BY <1>1, LowerOrIdOrder
<1>4. PICK f : /\ Arrange(list, 1 .. n, Stably(L, n)) = Picked(list, f, n)
               /\ SortsStably(f, n, L)
  BY <1>1, <1>3, StableArrangement
<1>5. o = [k \in 1 .. n |-> list[f[k]]]  BY <1>3, <1>4 DEF Picked
<1>6. /\ \A k \in 1 .. n : f[k] \in 1 .. n
      /\ \A i \in 1 .. n : \E k \in 1 .. n : f[k] = i
      /\ \A k, l \in 1 .. n : f[k] = f[l] => k = l
      /\ \A k, l \in 1 .. n : k < l => <<f[l], f[k]>> \notin L
  BY <1>4 DEF SortsStably
<1>7. ASSUME NEW i \in 1 .. n, NEW j \in 1 .. n, i # j, <<j, i>> \notin L
      PROVE  ByOrderAndId(list[i], list[j])
  <2>1. /\ list[i].order \in Int /\ list[j].order \in Int
        /\ list[i].id \in Int /\ list[j].id \in Int
    BY <1>1, OrderType
  <2>2. list[i].id # list[j].id  BY <1>1, <1>7 DEF Distinct
  <2>3. ~ByOrderAndId(list[j], list[i])  BY <1>7 DEF LowerOrId
  <2>. QED  BY <2>1, <2>2, <2>3 DEF ByOrderAndId
<1>. HIDE DEF o, L
<1>8. o \in [1 .. n -> S]  BY <1>2, <1>5, <1>6
<1>9. ASSUME NEW s \in S PROVE \E k \in 1 .. n : o[k] = s
  <2>1. PICK i \in 1 .. n : s = list[i]  BY <1>2
  <2>2. PICK k \in 1 .. n : f[k] = i  BY <1>6
  <2>. QED  BY <1>5, <2>1, <2>2
<1>10. ASSUME NEW k \in 1 .. n, NEW l \in 1 .. n, k < l
       PROVE  <<o[k], o[l]>> \in ByBoth(S)
  <2>1. k # l  BY <1>1, <1>10
  <2>2. ByOrderAndId(list[f[k]], list[f[l]])  BY <1>6, <1>7, <1>10, <2>1
  <2>3. o[k] = list[f[k]] /\ o[l] = list[f[l]]  BY <1>5
  <2>. QED  BY <1>8, <2>2, <2>3 DEF ByBoth
<1>. QED  BY <1>8, <1>9, <1>10 DEF Enumerates, S, n, o

\* An arranged list has the same rules.
LEMMA ArrangedRange ==
  ASSUME NEW list \in Seq(Rule), NEW sorted, Arranged(sorted, list)
  PROVE  Range(sorted) = Range(list)
<1>1. sorted \in Seq(Rule)  BY DEF Arranged
<1>2. \A s : s \in Range(sorted) <=> \E i \in DOMAIN sorted : s = sorted[i]
  BY <1>1, RangeOfRules
<1>3. \A s : s \in Range(list) <=> \E i \in DOMAIN list : s = list[i]
  BY RangeOfRules
<1>. QED  BY <1>2, <1>3 DEF Arranged

\* Two lists that enumerate the same rules by order and id are one.
LEMMA OneEnumeration ==
  ASSUME NEW list \in Seq(Rule), Distinct(list), NEW overrides \in Seq(Rule),
         NEW l \in Seq(Rule), Distinct(l), Range(l) = Overridden(list, overrides)
  PROVE  Merged(list, overrides) = Ordered(l)
<1>. DEFINE S == Overridden(list, overrides)
<1>1. /\ S \in SUBSET Rule /\ IsFiniteSet(S)
      /\ \A s, t \in S : s.id = t.id => s = t
  BY OverriddenRules
<1>2. Enumerates(Merged(list, overrides), Cardinality(S), S, ByBoth(S))
  BY MergedRules
<1>3. Enumerates(Ordered(l), Len(l), S, ByBoth(S))  BY OrderedEnumerates
<1>. HIDE DEF S
<1>4. StrictOrder(ByBoth(S), S)  BY <1>1, RulesAreOrdered
<1>5. Len(l) \in Nat /\ Cardinality(S) \in Nat  BY <1>1, FS_CardinalityType
<1>. QED  BY <1>2, <1>3, <1>4, <1>5, EnumerationUnique

\* Merging one more override, after any number of others, is replacing that
\* rule in what they made of the rules and building the policy anew; merging
\* none is building it anew.
THEOREM MergingIsReplacing == Spec => []MergeIsReplace
<1>1. PolicyOK => MergeIsReplace
  <2>. SUFFICES ASSUME PolicyOK PROVE MergeIsReplace
    OBVIOUS
  <2>1. rules \in Seq(Rule) /\ Accepted(rules) /\ Distinct(rules)
    BY DEF PolicyOK, TypeOK, Accepted
  <2>2. Merged(rules, << >>) = Ordered(rules)
    <3>1. << >> \in Seq(Rule) /\ LastOf(<< >>) = {}  BY DEF LastOf
    <3>2. Overridden(rules, << >>) = Range(rules)  BY <3>1 DEF Overridden
    <3>. QED  BY <2>1, <3>1, <3>2, OneEnumeration
  <2>3. ASSUME NEW overrides \in Overrides, NEW r \in Offers, Validate(r)
        PROVE  Merged(rules, Append(overrides, r))
                 = Ordered(Resort(WithRule(Merged(rules, overrides), r)))
    <3>. DEFINE m == Merged(rules, overrides)
                x == WithRule(m, r)
                y == Resort(x)
                more == Append(overrides, r)
    <3>1. r \in Rule  BY PolicyAssumption
    <3>2. /\ overrides \in Seq(Rule) /\ more \in Seq(Rule)
          /\ \A s \in Range(overrides) : Validate(s)
      <4>1. PICK n \in 0 .. MaxMerged : overrides \in [1 .. n -> {s \in Offers : Validate(s)}]
        BY DEF Overrides
      <4>2. n \in Nat  BY PolicyAssumption
      <4>3. overrides \in Seq(Rule)  BY <4>1, <4>2, PolicyAssumption
      <4>4. \A s \in Range(overrides) : Validate(s)  BY <4>1 DEF Range
      <4>. QED  BY <3>1, <4>3, <4>4
    <3>3. m \in Seq(Rule) /\ Distinct(m) /\ Range(m) = Overridden(rules, overrides)
      BY <2>1, <3>2, MergedList
    <3>4. Accepted(m)
      <4>1. \A s : s \in Range(m) <=> \E i \in DOMAIN m : s = m[i]
        BY <3>3, RangeOfRules
      <4>2. \A s : s \in Range(rules) <=> \E i \in DOMAIN rules : s = rules[i]
        BY <2>1, RangeOfRules
      <4>3. LastOf(overrides) \subseteq Range(overrides)  BY <3>2, LastRules
      <4>. QED  BY <2>1, <3>2, <3>3, <4>1, <4>2, <4>3 DEF Overridden, Accepted
    <3>. HIDE DEF m, more
    <3>5. /\ x \in Seq(Rule) /\ Accepted(x)
          /\ Range(x) = RulesWith(m, r)
      BY <2>3, <3>1, <3>3, <3>4, WithRuleAccepted, WithRuleRange
    <3>6. RulesWith(m, r) = Overridden(rules, more)
      BY <2>1, <3>1, <3>2, <3>3, OverriddenAppended DEF more
    <3>. HIDE DEF x
    <3>7. Arranged(y, x)  BY <3>5, ResortArranges
    <3>8. y \in Seq(Rule) /\ Distinct(y) /\ Range(y) = Range(x)
      BY <3>5, <3>7, ArrangedRange DEF Arranged, Accepted
    <3>. HIDE DEF y
    <3>9. Merged(rules, more) = Ordered(y)
      BY <2>1, <3>2, <3>5, <3>6, <3>8, OneEnumeration
    <3>. QED  BY <3>9 DEF m, x, y, more
  <2>. QED  BY <2>2, <2>3 DEF MergeIsReplace
<1>. QED  BY <1>1, PolicyStaysOK, PTL

-----------------------------------------------------------------------------
(***************************************************************************)
(* The other rules.                                                        *)
(***************************************************************************)

OtherPlaces(list, id) == {i \in DOMAIN list : list[i].id # id}

\* Two lists that differ where the rule with an id is.
DifferAt(l, list, id) ==
  /\ \A i \in OtherPlaces(list, id) : i \in DOMAIN l /\ l[i] = list[i]
  /\ OtherPlaces(l, id) \subseteq OtherPlaces(list, id)

LEMMA OthersOf ==
  ASSUME NEW list \in Seq(Rule), NEW id
  PROVE  /\ Others(list, id) = Chosen(list, OtherPlaces(list, id))
         /\ OtherPlaces(list, id) \in SUBSET Int
         /\ IsFiniteSet(OtherPlaces(list, id))
<1>1. OtherPlaces(list, id) \in SUBSET DOMAIN list  BY DEF OtherPlaces
<1>2. Others(list, id) = Chosen(list, OtherPlaces(list, id))
  BY DEF Others, OtherPlaces
<1>. QED  BY <1>1, <1>2, PlacesAreFinite

\* The sort of Replace moves none of the others past another one.
LEMMA ResortKeepsOthers ==
  ASSUME NEW list \in Seq(Rule), NEW l \in Seq(Rule), NEW id,
         \A i, j \in DOMAIN list : i < j => list[i].order <= list[j].order,
         DifferAt(l, list, id)
  PROVE  Others(Resort(l), id) = Others(list, id)
<1>. DEFINE n == Len(l)
            L == Lower(l, n)
            S == OtherPlaces(list, id)
            R == Resort(l)
            T == OtherPlaces(R, id)
<1>1. n \in Nat /\ DOMAIN l = 1 .. n  OBVIOUS
<1>. HIDE DEF n
<1>2. /\ WeakOrder(L, n)
      /\ R = Arrange(l, 1 .. n, Stably(L, n))
      /\ \A i, j \in 1 .. n : <<i, j>> \in L <=> l[i].order < l[j].order
  BY <1>1, LowerOrder
<1>3. R \in Seq(Rule)  BY ResortArranges DEF Arranged
<1>. HIDE DEF L, R
<1>4. PICK f : /\ Arrange(l, 1 .. n, Stably(L, n)) = Picked(l, f, n)
               /\ SortsStably(f, n, L)
  BY <1>1, <1>2, StableArrangement
<1>0. /\ f \in [1 .. n -> 1 .. n]
      /\ \A i \in 1 .. n : \E k \in 1 .. n : f[k] = i
      /\ \A k, m \in 1 .. n : f[k] = f[m] => k = m
      /\ \A k, m \in 1 .. n : k < m =>
           /\ <<f[m], f[k]>> \notin L
           /\ <<f[k], f[m]>> \in L \/ f[k] < f[m]
  BY <1>4 DEF SortsStably
<1>5. DOMAIN R = 1 .. n /\ \A k \in 1 .. n : R[k] = l[f[k]]
  BY <1>2, <1>4 DEF Picked
<1>6. \A i \in S : /\ i \in DOMAIN list /\ list[i].id # id
                   /\ i \in 1 .. n /\ l[i] = list[i]
  BY <1>1 DEF DifferAt, OtherPlaces
<1>7. \A k \in T : k \in 1 .. n /\ f[k] \in S
  <2>1. SUFFICES ASSUME NEW k \in T PROVE k \in 1 .. n /\ f[k] \in S
    OBVIOUS
  <2>2. k \in 1 .. n /\ R[k].id # id  BY <1>5 DEF OtherPlaces
  <2>3. f[k] \in 1 .. n  BY <1>0, <2>2
  <2>4. l[f[k]].id # id  BY <1>5, <2>2
  <2>5. f[k] \in OtherPlaces(l, id)  BY <1>1, <2>3, <2>4 DEF OtherPlaces
  <2>. QED  BY <2>2, <2>5 DEF DifferAt
<1>8. \A k \in 1 .. n : f[k] \in S => k \in T
  BY <1>5, <1>6 DEF OtherPlaces
<1>. DEFINE s == [i \in S |-> CHOOSE k \in 1 .. n : f[k] = i]
<1>9. \A i \in S : s[i] \in 1 .. n /\ f[s[i]] = i  BY <1>0, <1>6
<1>10. s \in [S -> T]  BY <1>8, <1>9
<1>. HIDE DEF s, S, T
<1>11. \A k \in T : \E i \in S : s[i] = k
  <2>1. SUFFICES ASSUME NEW k \in T PROVE s[f[k]] = k
    BY <1>7
  <2>2. f[k] \in S /\ k \in 1 .. n  BY <1>7
  <2>3. s[f[k]] \in 1 .. n /\ f[s[f[k]]] = f[k]  BY <1>9, <2>2
  <2>. QED  BY <1>0, <2>2, <2>3
<1>12. ASSUME NEW i \in S, NEW j \in S, i < j PROVE s[i] < s[j]
  <2>1. i \in DOMAIN list /\ j \in DOMAIN list
        /\ i \in 1 .. n /\ j \in 1 .. n /\ l[i] = list[i] /\ l[j] = list[j]
    BY <1>6
  <2>2. list[i].order <= list[j].order
        /\ list[i].order \in Int /\ list[j].order \in Int
    BY <1>12, <2>1, OrderType
  <2>3. ~(l[j].order < l[i].order)  BY <2>1, <2>2
  <2>4. <<j, i>> \notin L  BY <1>2, <2>1, <2>3
  <2>5. s[i] \in 1 .. n /\ s[j] \in 1 .. n /\ f[s[i]] = i /\ f[s[j]] = j
    BY <1>9
  <2>6. ~(j < i) /\ i # j  BY <1>12, <2>1
  <2>7. ~(s[j] < s[i])
    <3>1. SUFFICES ASSUME s[j] < s[i] PROVE FALSE  OBVIOUS
    <3>2. <<f[s[j]], f[s[i]]>> \in L \/ f[s[j]] < f[s[i]]
      BY <1>0, <2>5, <3>1
    <3>. QED  BY <2>4, <2>5, <2>6, <3>2
  <2>8. s[i] # s[j]  BY <2>5, <2>6
  <2>. QED  BY <2>5, <2>7, <2>8
<1>13. Carries(s, S, T)  BY <1>10, <1>11, <1>12 DEF Carries
<1>14. \A i \in S : R[s[i]] = list[i]  BY <1>5, <1>6, <1>9
<1>15. /\ Others(list, id) = Chosen(list, S)
       /\ S \in SUBSET Int /\ IsFiniteSet(S)
  BY OthersOf DEF S
<1>16. Others(R, id) = Chosen(R, T) /\ T \in SUBSET Int  BY <1>3, OthersOf DEF T
<1>17. Chosen(R, T) = Chosen(list, S)  BY <1>13, <1>14, <1>15, <1>16, SameChoice
<1>. QED  BY <1>15, <1>16, <1>17 DEF R

\* A rule that replaces one of the same order stays at its place.
LEMMA ResortStays ==
  ASSUME NEW list \in Seq(Rule),
         \A i, j \in DOMAIN list : i < j => list[i].order <= list[j].order
  PROVE  Resort(list) = list
<1>. DEFINE n == Len(list)
            L == Lower(list, n)
<1>1. n \in Nat /\ DOMAIN list = 1 .. n /\ list = [k \in 1 .. n |-> list[k]]
  OBVIOUS
<1>. HIDE DEF n
<1>2. /\ WeakOrder(L, n)
      /\ Resort(list) = Arrange(list, 1 .. n, Stably(L, n))
      /\ \A i, j \in 1 .. n : <<i, j>> \in L <=> list[i].order < list[j].order
  BY <1>1, LowerOrder
<1>. HIDE DEF L
<1>3. \A i \in 1 .. n : list[i].order \in Int  BY <1>1, OrderType
<1>4. ASSUME NEW k \in 1 .. n, NEW l \in 1 .. n, k < l PROVE <<l, k>> \notin L
  <2>1. list[k].order <= list[l].order  BY <1>1, <1>4
  <2>2. ~(list[l].order < list[k].order)  BY <1>3, <2>1
  <2>. QED  BY <1>2, <2>2
<1>5. Arrange(list, 1 .. n, Stably(L, n)) = [k \in 1 .. n |-> list[k]]
  BY <1>1, <1>2, <1>4, SortedStays
<1>. QED  BY <1>1, <1>2, <1>5

\* The list that Replace sorts differs from the rules at one id, and is sorted
\* already if it has a rule of that id and order.
LEMMA WithRuleDiffers ==
  ASSUME NEW list \in Seq(Rule), Distinct(list), NEW r \in Rule
  PROVE  DifferAt(WithRule(list, r), list, r.id)
<1>. DEFINE l == WithRule(list, r)
            n == Len(list)
<1>1. n \in Nat /\ DOMAIN list = 1 .. n  OBVIOUS
<1>2. CASE Places(list, r.id) = {}
  <2>. DEFINE e == n + 1
  <2>1. l = Append(list, r)  BY <1>2 DEF WithRule
  <2>2. /\ DOMAIN l = 1 .. e
        /\ \A i \in 1 .. n : l[i] = list[i]
        /\ l[e] = r
    BY <2>1
  <2>. HIDE DEF l, n
  <2>3. /\ \A i \in 1 .. e : i \in 1 .. n \/ i = e
        /\ \A i \in 1 .. n : i \in 1 .. e
    BY <1>1
  <2>. HIDE DEF e
  <2>4. \A i \in OtherPlaces(list, r.id) : i \in DOMAIN l /\ l[i] = list[i]
    BY <1>1, <2>2, <2>3 DEF OtherPlaces
  <2>5. ASSUME NEW i \in OtherPlaces(l, r.id)
        PROVE  i \in OtherPlaces(list, r.id)
    <3>1. i \in 1 .. e /\ l[i].id # r.id  BY <2>2 DEF OtherPlaces
    <3>2. i \in 1 .. n  BY <2>2, <2>3, <3>1
    <3>. QED  BY <1>1, <2>2, <3>1, <3>2 DEF OtherPlaces
  <2>. QED  BY <2>4, <2>5 DEF DifferAt, l
<1>3. CASE Places(list, r.id) # {}
  <2>. DEFINE m == Min(Places(list, r.id))
  <2>1. l = [list EXCEPT ![m] = r]  BY <1>3 DEF WithRule
  <2>2. m \in DOMAIN list /\ list[m].id = r.id
    <3>1. Places(list, r.id) \in SUBSET DOMAIN list  BY DEF Places
    <3>2. m \in Places(list, r.id)  BY <1>3, <3>1, PlacesAreFinite, Least
    <3>. QED  BY <3>2 DEF Places
  <2>. HIDE DEF m
  <2>3. DOMAIN l = DOMAIN list /\ l[m] = r
        /\ \A i \in DOMAIN list : i # m => l[i] = list[i]
    BY <2>1, <2>2
  <2>. HIDE DEF l
  <2>4. \A i \in OtherPlaces(list, r.id) : i \in DOMAIN l /\ l[i] = list[i]
    BY <2>2, <2>3 DEF OtherPlaces
  <2>5. OtherPlaces(l, r.id) \subseteq OtherPlaces(list, r.id)
    BY <2>2, <2>3 DEF OtherPlaces
  <2>. QED  BY <2>4, <2>5 DEF DifferAt, l
<1>. QED  BY <1>2, <1>3

LEMMA SameOrderStays ==
  ASSUME NEW list \in Seq(Rule), Distinct(list),
         \A k, l \in DOMAIN list : k < l => list[k].order <= list[l].order,
         NEW r \in Rule, NEW i \in DOMAIN list,
         list[i].id = r.id, list[i].order = r.order
  PROVE  /\ Resort(WithRule(list, r)) = WithRule(list, r)
         /\ Orders(WithRule(list, r)) = Orders(list)
<1>. DEFINE l == WithRule(list, r)
            m == Min(Places(list, r.id))
<1>1. Places(list, r.id) # {}  BY DEF Places
<1>2. l = [list EXCEPT ![m] = r]  BY <1>1 DEF WithRule
<1>3. m = i
  <2>1. Places(list, r.id) \in SUBSET DOMAIN list  BY DEF Places
  <2>2. m \in Places(list, r.id)  BY <1>1, <2>1, PlacesAreFinite, Least
  <2>. QED  BY <2>2 DEF Places, Distinct
<1>. HIDE DEF m
<1>4. l \in Seq(Rule) /\ DOMAIN l = DOMAIN list
  BY <1>2, <1>3
<1>5. \A k \in DOMAIN list : l[k].id = list[k].id /\ l[k].order = list[k].order
  BY <1>2, <1>3
<1>. HIDE DEF l
<1>6. \A j, k \in DOMAIN l : j < k => l[j].order <= l[k].order
  BY <1>4, <1>5
<1>7. Resort(l) = l  BY <1>4, <1>6, ResortStays
<1>8. Orders(l) = Orders(list)  BY <1>4, <1>5 DEF Orders
<1>. QED  BY <1>7, <1>8 DEF l

\* Policy.Replace keeps the others in their order.
LEMMA ReplaceChangesOne ==
  ASSUME PolicyOK, NEW r \in Offers, Replace(r) PROVE ChangesOne
<1>1. /\ r \in Rule /\ r.id \in RuleIds
      /\ rules \in Seq(Rule) /\ Accepted(rules) /\ Validate(r)
      /\ \A i, j \in DOMAIN rules : i < j => rules[i].order <= rules[j].order
  BY PolicyAssumption DEF PolicyOK, TypeOK, Replace, Rule
<1>. DEFINE list == WithRule(rules, r)
<1>2. Distinct(rules)  BY <1>1 DEF Accepted
<1>3. list \in Seq(Rule) /\ Accepted(list)  BY <1>1, WithRuleAccepted
<1>4. DifferAt(list, rules, r.id)  BY <1>1, <1>2, WithRuleDiffers
<1>5. rules' = Resort(list)  BY DEF Replace
<1>6. Others(rules', r.id) = Others(rules, r.id)
  <2>. HIDE DEF list
  <2>. QED  BY <1>1, <1>3, <1>4, <1>5, ResortKeepsOthers
<1>7. Arranged(rules', list)  BY <1>3, <1>5, ResortArranges
<1>8. ASSUME NEW i \in DOMAIN rules, NEW j \in DOMAIN rules',
             rules[i].id = r.id, rules'[j].id = r.id,
             rules[i].order = rules'[j].order
      PROVE  Orders(rules') = Orders(rules)
  <2>1. rules'[j] = r
    <3>1. PICK k \in DOMAIN list : rules'[j] = list[k]  BY <1>7 DEF Arranged
    <3>2. r \in Range(list)  BY <1>1, <1>2, WithRuleRange DEF RulesWith
    <3>. HIDE DEF list
    <3>3. PICK m \in DOMAIN list : list[m] = r  BY <1>3, <3>2, RangeOfRules
    <3>4. k = m  BY <1>3, <1>8, <3>1, <3>3 DEF Accepted, Distinct
    <3>. QED  BY <3>1, <3>3, <3>4
  <2>2. rules[i].order = r.order  BY <1>8, <2>1
  <2>. QED  BY <1>1, <1>2, <1>5, <1>8, <2>2, SameOrderStays
<1>. QED  BY <1>1, <1>6, <1>8 DEF ChangesOne

\* So does Policy.Remove.
LEMMA RemoveChangesOne ==
  ASSUME PolicyOK, NEW id \in RuleIds, Remove(id) PROVE ChangesOne
<1>. DEFINE i == Min(Places(rules, id))
            n == Len(rules)
            S == OtherPlaces(rules, id)
            T == OtherPlaces(rules', id)
<1>1. rules \in Seq(Rule) /\ Distinct(rules)
  BY DEF PolicyOK, TypeOK, Accepted
<1>2. i \in DOMAIN rules /\ rules[i].id = id
  <2>1. Places(rules, id) \in SUBSET DOMAIN rules /\ Places(rules, id) # {}
    BY DEF Places, Remove
  <2>2. i \in Places(rules, id)  BY <1>1, <2>1, PlacesAreFinite, Least
  <2>. QED  BY <2>2 DEF Places
<1>3. rules' = Cut(rules, i)  BY DEF Remove, Cut
<1>4. n \in Nat /\ DOMAIN rules = 1 .. n  BY <1>1
<1>. HIDE DEF i
<1>5. /\ rules' \in Seq(Rule) /\ DOMAIN rules' = 1 .. n - 1
      /\ \A k \in DOMAIN rules' :
           rules'[k] = IF k < i THEN rules[k] ELSE rules[k + 1]
  BY <1>1, <1>2, <1>3, CutList
<1>. HIDE DEF n
<1>6. i \in Int /\ i \in 1 .. n  BY <1>2, <1>4
<1>7. ASSUME NEW k \in 1 .. n, k # i
      PROVE  rules[k].id # id
  BY <1>1, <1>2, <1>4, <1>7 DEF Distinct
<1>8. \A k \in DOMAIN rules' : rules'[k].id # id
  <2>1. SUFFICES ASSUME NEW k \in 1 .. n - 1 PROVE rules'[k].id # id
    BY <1>5
  <2>2. CASE k < i
    <3>1. k \in 1 .. n /\ k # i  BY <1>4, <1>6, <2>2
    <3>. QED  BY <1>5, <1>7, <2>2, <3>1
  <2>3. CASE ~(k < i)
    <3>1. k + 1 \in 1 .. n /\ k + 1 # i  BY <1>4, <1>6, <2>3
    <3>. QED  BY <1>5, <1>7, <2>3, <3>1
  <2>. QED  BY <2>2, <2>3
<1>9. S = (1 .. n) \ {i}  BY <1>2, <1>4, <1>7 DEF OtherPlaces
<1>10. T = 1 .. n - 1  BY <1>5, <1>8 DEF OtherPlaces
<1>. DEFINE s == [k \in S |-> IF k < i THEN k ELSE k - 1]
<1>11. \A k \in S : k \in Int /\ k \in 1 .. n /\ k # i  BY <1>4, <1>9
<1>12. ASSUME NEW k \in S
       PROVE  s[k] \in T /\ rules'[s[k]] = rules[k]
  <2>1. k \in Int /\ k \in 1 .. n /\ k # i  BY <1>11
  <2>2. CASE k < i
    <3>1. s[k] = k /\ k \in 1 .. n - 1  BY <1>4, <1>6, <2>1, <2>2
    <3>. QED  BY <1>5, <1>10, <2>2, <3>1
  <2>3. CASE ~(k < i)
    <3>1. s[k] = k - 1 /\ k - 1 \in 1 .. n - 1 /\ ~(k - 1 < i)
          /\ (k - 1) + 1 = k
      BY <1>4, <1>6, <2>1, <2>3
    <3>2. rules'[k - 1] = rules[(k - 1) + 1]  BY <1>5, <3>1
    <3>. QED  BY <1>10, <3>1, <3>2
  <2>. QED  BY <2>2, <2>3
<1>13. s \in [S -> T]
  <2>1. \A k \in S : (IF k < i THEN k ELSE k - 1) \in T  BY <1>12
  <2>. HIDE DEF S, T
  <2>. QED  BY <2>1
<1>14. ASSUME NEW k \in T PROVE \E l \in S : s[l] = k
  <2>1. k \in 1 .. n - 1 /\ k \in Int /\ k + 1 \in Int  BY <1>4, <1>10
  <2>2. CASE k < i
    <3>1. k \in S  BY <1>4, <1>6, <1>9, <2>1, <2>2
    <3>. QED  BY <2>2, <3>1
  <2>3. CASE ~(k < i)
    <3>1. k + 1 \in S /\ ~(k + 1 < i) /\ (k + 1) - 1 = k
      BY <1>4, <1>6, <1>9, <2>1, <2>3
    <3>2. s[k + 1] = (k + 1) - 1  BY <3>1
    <3>. QED  BY <3>1, <3>2
  <2>. QED  BY <2>2, <2>3
<1>15. ASSUME NEW k \in S, NEW l \in S, k < l PROVE s[k] < s[l]
  BY <1>6, <1>11, <1>15
<1>. HIDE DEF s, S, T
<1>16. Carries(s, S, T)  BY <1>13, <1>14, <1>15 DEF Carries
<1>17. /\ Others(rules, id) = Chosen(rules, S)
       /\ S \in SUBSET Int /\ IsFiniteSet(S)
  BY <1>1, OthersOf DEF S
<1>18. Others(rules', id) = Chosen(rules', T) /\ T \in SUBSET Int
  BY <1>5, OthersOf DEF T
<1>19. Chosen(rules', T) = Chosen(rules, S)
  <2>. DEFINE other == rules'
  <2>1. \A k \in S : other[s[k]] = rules[k]  BY <1>12
  <2>. HIDE DEF other
  <2>2. Chosen(other, T) = Chosen(rules, S)
    BY <1>16, <1>17, <1>18, <2>1, SameChoice
  <2>. QED  BY <2>2 DEF other
<1>20. Others(rules', id) = Others(rules, id)  BY <1>17, <1>18, <1>19
<1>. QED  BY <1>8, <1>20 DEF ChangesOne

\* A change of one rule does not reorder the others.
THEOREM OthersStay == Spec => OthersKeepOrder
<1>1. PolicyOK /\ [Next]_vars => [ChangesOne \/ rules' = Ordered(rules)]_rules
  <2>. SUFFICES ASSUME PolicyOK, [Next]_vars
                PROVE  ChangesOne \/ rules' = Ordered(rules) \/ UNCHANGED rules
    OBVIOUS
  <2>1. ASSUME NEW r \in Offers, Replace(r) PROVE ChangesOne
    BY <2>1, ReplaceChangesOne
  <2>2. ASSUME NEW id \in RuleIds, Remove(id) PROVE ChangesOne
    BY <2>2, RemoveChangesOne
  <2>3. ASSUME NEW group \in Groups \cup {NoGroup}, SetFallback(group)
        PROVE  UNCHANGED rules
    BY <2>3 DEF SetFallback
  <2>4. CASE Rebuild  BY <2>4 DEF Rebuild
  <2>5. CASE UNCHANGED vars  BY <2>5 DEF vars
  <2>. QED  BY <2>1, <2>2, <2>3, <2>4, <2>5 DEF Next
<1>. QED  BY <1>1, PolicyStaysOK, PTL DEF Spec, OthersKeepOrder
=============================================================================
