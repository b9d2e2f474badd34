------------------------------ MODULE Sorting ------------------------------
(***************************************************************************)
(* Lists made of lists: what sort.SliceStable makes of one, and a loop     *)
(* that appends the elements it chooses.  Both are defined by ranks, the   *)
(* number of places that come before a place: SelectSeq computes the same  *)
(* list as Chosen does, with a recursion that cannot be reasoned about.    *)
(***************************************************************************)
EXTENDS Integers, Sequences, FiniteSets

\* The elements at some places of a list, in the order that ahead gives them:
\* <<j, i>> is in ahead if the element at j comes before the one at i.
Arrange(list, places, ahead) ==
  LET Rank(i) == Cardinality({j \in places : <<j, i>> \in ahead})
  IN [k \in 1 .. Cardinality(places) |->
        list[CHOOSE i \in places : Rank(i) = k - 1]]

\* An element stands behind those that are less and those that are equal and
\* were before it.
StableSort(list, Less(_, _)) ==
  Arrange(list, DOMAIN list,
          {p \in (DOMAIN list) \X (DOMAIN list) :
             \/ Less(list[p[1]], list[p[2]])
             \/ ~Less(list[p[2]], list[p[1]]) /\ p[1] < p[2]})

\* The elements at some places, in the order of the list.
Chosen(list, places) ==
  Arrange(list, places, {p \in places \X places : p[1] < p[2]})

Sorted(list, Less(_, _)) ==
  \A i, j \in DOMAIN list : i < j => ~Less(list[j], list[i])
=============================================================================
