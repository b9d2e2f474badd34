-------------------------- MODULE MCRoutingPolicy --------------------------
(***************************************************************************)
(* Instances of RoutingPolicy for TLC.                                     *)
(***************************************************************************)
EXTENDS RoutingPolicy

CONSTANTS g1, g2, acme, vip

Plain(id, group, order) ==
  [id |-> id, group |-> group, customer |-> Anyone, tags |-> {}, min |-> 0,
   max |-> 0, start |-> 0, end |-> 0, enabled |-> TRUE, order |-> order]

\* Rules that tie, move, overlap, are disabled or fail to validate; windows
\* over midnight, up to midnight, of no length and of one hour.
SomeOffers ==
  {Plain(1, g1, 1),
   [Plain(1, g2, 2) EXCEPT !.start = 22, !.end = 6],
   [Plain(1, g1, 2) EXCEPT !.enabled = FALSE],
   [Plain(2, g2, 1) EXCEPT !.start = 18, !.end = 24, !.customer = acme],
   [Plain(2, g1, 2) EXCEPT !.min = 4, !.tags = {vip}],
   [Plain(3, g2, 1) EXCEPT !.max = 2, !.start = 23, !.end = 0],
   [Plain(3, g1, 3) EXCEPT !.start = 7, !.end = 7],
   [Plain(4, g2, 1) EXCEPT !.start = 5, !.end = 6, !.customer = acme],
   Plain(0, g1, 1), Plain(2, NoGroup, 1),
   [Plain(3, g1, 1) EXCEPT !.min = 5, !.max = 4],
   [Plain(3, g1, 1) EXCEPT !.start = 24]}

SomeRequests ==
  [customer: Customers, priority: {1, 5}, tags: SUBSET Tags]
============================================================================
