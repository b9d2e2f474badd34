----------------------------- MODULE MCDispatch -----------------------------
(***************************************************************************)
(* Instances of Dispatch for TLC.                                          *)
(***************************************************************************)
EXTENDS DispatchInv, TLC

CONSTANTS r1, r2, g1, g2, u1, u2

Draft(r, g, s, a) == [id |-> r, group |-> g, status |-> s, assignee |-> a]

\* Two requests as the web form sends them.
QueuedDrafts == {Draft(r, g1, "queued", Nil) : r \in Ids}

\* The same id sent twice with different bodies, one of them for a group
\* that does not exist, one with a status of its own.
RivalDrafts == {Draft(r1, g1, "queued", Nil), Draft(r1, g2, "pending", u2)}

OneGroup(members) == [active |-> TRUE, members |-> members]

Active1 == {OneGroup(<<u1>>)}

ActiveOrNot == {OneGroup(<<u1>>), [active |-> FALSE, members |-> <<u1>>]}

BothAgents == {OneGroup(<<u1, u2>>)}

HandlerSymmetry == Permutations(Handlers)
=============================================================================
