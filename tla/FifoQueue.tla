----------------------------- MODULE FifoQueue -----------------------------
(***************************************************************************)
(* What the job queue promises to its callers: a bounded first-in          *)
(* first-out queue that takes no job any more once it is closed.  Every    *)
(* accepted job is delivered at most once and in order; what is left in    *)
(* the queue when it is closed may stay there for good.                    *)
(***************************************************************************)
EXTENDS Naturals, Sequences

CONSTANTS
  Jobs,      \* what the queue holds
  Capacity   \* how many it holds, at least 1

VARIABLES items, shut, delivered

vars == <<items, shut, delivered>>

Init == items = << >> /\ shut = FALSE /\ delivered = << >>

Put(job) ==
  /\ ~shut
  /\ Len(items) < Capacity
  /\ items' = Append(items, job)
  /\ UNCHANGED <<shut, delivered>>

Get ==
  /\ items # << >>
  /\ items' = Tail(items)
  /\ delivered' = Append(delivered, Head(items))
  /\ UNCHANGED shut

Shut ==
  /\ shut' = TRUE
  /\ UNCHANGED <<items, delivered>>

Next == (\E job \in Jobs : Put(job)) \/ Get \/ Shut

Spec == Init /\ [][Next]_vars
=============================================================================
