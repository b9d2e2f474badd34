---------------------------- MODULE MCLoadReports ----------------------------
(***************************************************************************)
(* Instances of LoadReports for TLC.                                       *)
(***************************************************************************)
EXTENDS LoadReports

CONSTANTS a1, a2, g1, g2

Of(s, g, a) == [status |-> s, group |-> g, assignee |-> a, priority |-> 3,
                created |-> 1, tags |-> << >>]

\* Requests that go from one agent to another and from open to terminal, one
\* without an assignee, two of an agent that no row of his counts.
SomeRequests ==
  {Of("queued", g1, Nil), Of("assigned", g1, a1), Of("pending", g2, a2),
   Of("resolved", g2, a1), Of("rejected", g1, a2), Of("other", g1, a1)}

NothingCut == [w \in Words |-> w]
=============================================================================
