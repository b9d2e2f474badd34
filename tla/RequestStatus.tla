--------------------------- MODULE RequestStatus ---------------------------
(***************************************************************************)
(* The status machine of a service request: internal/model/transition.go   *)
(* and the status predicates of internal/model/entities.go.                *)
(*                                                                         *)
(* A status is a string that a client may choose when it creates a         *)
(* request: nothing compares it with the five constants of the model       *)
(* package, so "other" stands for every string that is none of them.       *)
(***************************************************************************)

AllowedStatuses == {"queued", "assigned", "pending", "resolved", "rejected"}

Statuses == AllowedStatuses \cup {"other"}

\* Mutant of IsOpen: a request that waits for something is not open.
OpenUntilPending(status) == status \in {"queued", "assigned"}

IsOpen(status) == status \in {"queued", "assigned", "pending"}

IsTerminal(status) == status \in {"resolved", "rejected"}

\* Mutant of CanTransition: the terminal statuses lost their case.
ReopeningTransition(from, to) ==
  \/ from = to
  \/ from = "queued"   /\ to \in {"assigned", "rejected"}
  \/ from = "assigned" /\ to \in {"pending", "resolved", "rejected"}
  \/ from \in {"pending", "resolved", "rejected"}
       /\ to \in {"assigned", "resolved", "rejected"}

\* The first test of the code, from == to, comes before the table: every
\* status, a terminal or an unknown one too, may be written over itself.
CanTransition(from, to) ==
  \/ from = to
  \/ from = "queued"   /\ to \in {"assigned", "rejected"}
  \/ from = "assigned" /\ to \in {"pending", "resolved", "rejected"}
  \/ from = "pending"  /\ to \in {"assigned", "resolved", "rejected"}

\* What the status route makes of the word in a PATCH body.
NormalizeStatus(word) == IF word \in AllowedStatuses THEN word ELSE "queued"
============================================================================
