----------------------------- MODULE Lifecycle -----------------------------
(***************************************************************************)
(* What the dispatcher promises about a stored request, whatever its       *)
(* handlers do at the same time.                                           *)
(*                                                                         *)
(* A create call first stores the request tentatively and may withdraw it; *)
(* one request at a time is tentative.  Once the request is kept, because  *)
(* its job was queued or because nobody is left to withdraw it, it is in   *)
(* the store for good.  In both phases its status moves along the          *)
(* transition table only.                                                  *)
(***************************************************************************)
EXTENDS RequestStatus

CONSTANTS
  Ids,      \* ids of requests
  Absent    \* the status of a request that is not stored, none of Statuses

VARIABLES phase, status

vars == <<phase, status>>

Phases == {"none", "tentative", "kept"}

Init ==
  /\ phase = [r \in Ids |-> "none"]
  /\ status = [r \in Ids |-> Absent]

Offer(r, s) ==
  /\ phase[r] = "none"
  /\ \A q \in Ids : phase[q] # "tentative"
  /\ phase' = [phase EXCEPT ![r] = "tentative"]
  /\ status' = [status EXCEPT ![r] = s]

Withdraw(r) ==
  /\ phase[r] = "tentative"
  /\ phase' = [phase EXCEPT ![r] = "none"]
  /\ status' = [status EXCEPT ![r] = Absent]

Keep(r) ==
  /\ phase[r] = "tentative"
  /\ phase' = [phase EXCEPT ![r] = "kept"]
  /\ UNCHANGED status

Move(r, s) ==
  /\ phase[r] # "none"
  /\ CanTransition(status[r], s)
  /\ status' = [status EXCEPT ![r] = s]
  /\ UNCHANGED phase

Next == \E r \in Ids : \/ \E s \in Statuses : Offer(r, s) \/ Move(r, s)
                       \/ Withdraw(r)
                       \/ Keep(r)

Spec == Init /\ [][Next]_vars
============================================================================
