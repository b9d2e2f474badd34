----------------------------- MODULE DispatchInv -----------------------------
(***************************************************************************)
(* The inductive invariant of the dispatch core: why its safety invariants *)
(* hold.  The argument is in README.md, the proof in DispatchProofs.       *)
(***************************************************************************)
EXTENDS Dispatch

\* Handlers that hold a job they have received.
Carrying == Dispatching \cup {"dispatched"}

\* Create calls whose request nobody but themselves works for.
Fresh == {"put"} \cup Tentative

\* The audited outcomes of the life of a request.
Outcomes == {"created", "dispatched", "dispatch_failed"}

\* The mutex is held by the handler inside the critical section.
MutexHeld == \A h \in Handlers : pc[h] \in Creating <=> mu = h

\* A busy handler knows its request, a scan has a member left to look at and
\* a chosen agent is a user.
TaskOK(h) ==
  /\ pc[h] \notin Ready \cup {"receive"} => task[h] \in Task
  /\ pc[h] \in {"member", "choose"} => scan[h] # << >>
  /\ pc[h] \in {"assign", "attempt", "dispatched"} => task[h].assignee \in Users

TaskInv == \A h \in Handlers : TaskOK(h)

\* The record that the holder of the mutex has put is there ...
RecordInv ==
  \A h \in Handlers :
    pc[h] \in Tentative \cup {"created"} => requests[task[h].id] # Nil

\* ... and before that there is none.
UnstoredInv ==
  \A h \in Handlers : pc[h] = "put" => requests[task[h].id] = Nil

\* A queued or received job has its record, no attempt and no failure yet.
QueueInv ==
  \A i \in 1 .. Len(queue) :
    /\ requests[queue[i].id] # Nil
    /\ attempts[queue[i].id] = << >>
    /\ "dispatch_failed" \notin audits[queue[i].id]

CarryInv ==
  \A h \in Handlers : pc[h] \in Carrying =>
    /\ requests[task[h].id] # Nil
    /\ pc[h] # "dispatched" => attempts[task[h].id] = << >>
    /\ pc[h] = "dispatched" => attempts[task[h].id] # << >>
    /\ "dispatch_failed" \notin audits[task[h].id]

\* There is one job for a request, in one place.
QueueDistinct ==
  \A i, j \in 1 .. Len(queue) : queue[i].id = queue[j].id => i = j

CarryDistinct ==
  \A h, k \in Handlers :
    pc[h] \in Carrying /\ pc[k] \in Carrying /\ task[h].id = task[k].id => h = k

QueueOrCarry ==
  \A h \in Handlers, i \in 1 .. Len(queue) :
    pc[h] \in Carrying => queue[i].id # task[h].id

\* A request that may still be withdrawn has no job and no past.
FreshInv ==
  \A h \in Handlers : pc[h] \in Fresh =>
    /\ attempts[task[h].id] = << >>
    /\ audits[task[h].id] \cap Outcomes = {}
    /\ \A i \in 1 .. Len(queue) : queue[i].id # task[h].id
    /\ \A k \in Handlers : pc[k] \in Carrying => task[k].id # task[h].id

\* Nor has a request that is not stored.
AbsentInv ==
  \A r \in Ids : requests[r] = Nil =>
    attempts[r] = << >> /\ audits[r] \cap Outcomes = {}

DispatchedInv ==
  \A r \in Ids :
    "dispatched" \in audits[r] =>
      attempts[r] # << >> /\ "dispatch_failed" \notin audits[r]

\* The lock of CreateAndDispatch keeps a request fresh until its one job is
\* in the queue; from then on the job is in one place, the request is in the
\* store, and its one attempt comes before its outcome on the trail.
CoreInv ==
  /\ RecordInv
  /\ QueueInv
  /\ CarryInv
  /\ QueueDistinct
  /\ CarryDistinct
  /\ QueueOrCarry
  /\ FreshInv
  /\ AbsentInv
  /\ DispatchedInv
  /\ AtMostOneDispatch

\* It holds of each job, whatever else may put requests into the store.
JobInv == TypeOK /\ TaskInv /\ MutexHeld /\ CoreInv

\* In the dispatcher nothing else does.
IInv == JobInv /\ UnstoredInv
=============================================================================
