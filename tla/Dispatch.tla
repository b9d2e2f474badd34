------------------------------ MODULE Dispatch ------------------------------
(***************************************************************************)
(* The dispatch core: internal/service/service.go over internal/store and  *)
(* internal/queue, driven by the handlers of internal/httpapi.             *)
(*                                                                         *)
(* net/http runs each call in a goroutine of its own.  A handler here is   *)
(* such a goroutine; it runs CreateAndDispatch, ProcessQueue or            *)
(* ChangeStatus to the end and is then free for another call.  A step of a *)
(* handler is one bbolt transaction, one operation on the queue or one on  *)
(* the service mutex: transactions are serialised by bbolt and all the     *)
(* rest of a handler is local.  The store outlives the process, the queue, *)
(* the mutex and the handlers do not.                                      *)
(***************************************************************************)
EXTENDS Naturals, Sequences, FiniteSets, RequestStatus

CONSTANTS
  Handlers,      \* goroutines that serve calls
  Ids,           \* request ids
  Groups,        \* ids of agent groups
  Users,         \* ids of user accounts
  Nil,           \* the empty string, and the value of a missing key
  Drafts,        \* bodies of POST /api/requests that pass Validate
  GroupValues,   \* values that may be saved for an agent group
  StatusInputs,  \* words sent to PATCH /api/requests/<id>/status
  Capacity,      \* size of the job channel
  MaxFaults,     \* bound on the failing write transactions
  MaxRestarts    \* bound on the restarts of the process

\* A call's view of a request.  For CreateAndDispatch it is the body, for
\* ProcessQueue the job and then the chosen agent, for ChangeStatus what it
\* read with the status it was asked for: always the record the call is
\* about to write.
Task == [id: Ids, group: Groups, assignee: Users \cup {Nil}, status: Statuses]

Request == [status: Statuses, group: Groups, assignee: Users \cup {Nil}]

AgentGroup == [active: BOOLEAN, members: Seq(Users)]

Job == [id: Ids, group: Groups]

Attempt == [group: Groups, agent: Users]

AuditAction == {"created", "dispatched", "dispatch_failed", "status_changed"}

ASSUME NilAssumption ==
  Nil \notin Handlers \cup Ids \cup Groups \cup Users

ASSUME NilIsNoRecord ==
  Nil \notin Request \cup Task \cup AgentGroup \cup Statuses

ASSUME InputAssumption ==
  /\ Drafts \subseteq Task
  /\ GroupValues \subseteq AgentGroup
  /\ StatusInputs \subseteq Statuses

ASSUME BoundAssumption ==
  Capacity \in Nat \ {0} /\ MaxFaults \in Nat /\ MaxRestarts \in Nat

VARIABLES
  requests,   \* bucket service_requests
  groups,     \* bucket agent_groups
  agents,     \* the users whose account is enabled and has the role agent
  attempts,   \* bucket dispatch_attempts, per request, oldest first
  audits,     \* bucket audit_events: the actions on record per request
  queue,      \* Queue.jobs
  closed,     \* Queue.closed
  mu,         \* holder of Service.mu, Nil when it is free
  pc,         \* where each handler is, or how its last call ended
  task,       \* the request each handler is working on
  scan,       \* the members a handler has still to look at
  faults,     \* write transactions that failed so far
  restarts    \* restarts of the process so far

store    == <<requests, attempts, audits>>
directory == <<groups, agents>>
channel  == <<queue, closed>>
bounds   == <<faults, restarts>>
vars     == <<requests, groups, agents, attempts, audits, queue, closed,
              mu, pc, task, scan, faults, restarts>>

Ready == {"idle", "ok", "error"}

\* CreateAndDispatch, from the moment it holds the mutex.
Creating == {"put", "group", "member", "enqueue", "send", "created", "undo"}

\* ProcessQueue, from the receipt of a job to the saved attempt.
Dispatching == {"load", "chooseGroup", "choose", "failed", "assign", "attempt"}

PCs == Ready \cup Creating \cup Dispatching
         \cup {"check", "receive", "dispatched", "update", "changed"}

Record(t) == [status |-> t.status, group |-> t.group, assignee |-> t.assignee]

TypeOK ==
  /\ requests \in [Ids -> Request \cup {Nil}]
  /\ groups \in [Groups -> AgentGroup \cup {Nil}]
  /\ agents \subseteq Users
  /\ attempts \in [Ids -> Seq(Attempt)]
  /\ audits \in [Ids -> SUBSET AuditAction]
  /\ queue \in Seq(Job) /\ Len(queue) <= Capacity
  /\ closed \in BOOLEAN
  /\ mu \in Handlers \cup {Nil}
  /\ pc \in [Handlers -> PCs]
  /\ task \in [Handlers -> Task \cup {Nil}]
  /\ scan \in [Handlers -> Seq(Users)]
  /\ faults \in 0 .. MaxFaults
  /\ restarts \in 0 .. MaxRestarts

Init ==
  /\ requests = [r \in Ids |-> Nil]
  /\ groups \in [Groups -> GroupValues \cup {Nil}]
  /\ agents \in SUBSET Users
  /\ attempts = [r \in Ids |-> << >>]
  /\ audits = [r \in Ids |-> {}]
  /\ queue = << >>
  /\ closed = FALSE
  /\ mu = Nil
  /\ pc = [h \in Handlers |-> "idle"]
  /\ task = [h \in Handlers |-> Nil]
  /\ scan = [h \in Handlers |-> << >>]
  /\ faults = 0
  /\ restarts = 0

-----------------------------------------------------------------------------
\* Control flow of a handler.

Goto(h, label) == pc' = [pc EXCEPT ![h] = label]

Return(h, outcome) ==
  /\ Goto(h, outcome)
  /\ task' = [task EXCEPT ![h] = Nil]
  /\ scan' = [scan EXCEPT ![h] = << >>]

\* db.Update returned an error: bbolt has rolled the transaction back.
StoreFails == faults < MaxFaults /\ faults' = faults + 1

Audit(r, action) == audits' = [audits EXCEPT ![r] = @ \cup {action}]

-----------------------------------------------------------------------------
(***************************************************************************)
(* CreateAndDispatch (POST /api/requests).  The mutex is held from the     *)
(* duplicate check to the return, the wait for room in the queue included. *)
(***************************************************************************)

ReturnFromCreate(h, outcome) == Return(h, outcome) /\ mu' = Nil

\* The handler decodes the body; defaults and Validate are local to the call.
CreateCall(h, draft) ==
  /\ pc[h] \in Ready
  /\ Goto(h, "check")
  /\ task' = [task EXCEPT ![h] = draft]
  /\ UNCHANGED <<store, directory, channel, bounds, mu, scan>>

\* Mutant of MutexFree: the critical section lost its lock.
MutexIgnored == TRUE

MutexFree == mu = Nil

\* s.mu.Lock and the duplicate check.  A duplicate returns at once, with
\* the mutex free again.
CheckExists(h) ==
  /\ pc[h] = "check"
  /\ MutexFree
  /\ \/ /\ requests[task[h].id] # Nil
        /\ Return(h, "error")
        /\ UNCHANGED mu
     \/ /\ requests[task[h].id] = Nil
        /\ mu' = h
        /\ Goto(h, "put")
        /\ UNCHANGED <<task, scan>>
  /\ UNCHANGED <<store, directory, channel, bounds>>

PutRequest(h) ==
  /\ pc[h] = "put"
  /\ \/ /\ requests' = [requests EXCEPT ![task[h].id] = Record(task[h])]
        /\ Goto(h, "group")
        /\ UNCHANGED <<mu, task, scan, faults>>
     \/ /\ StoreFails
        /\ ReturnFromCreate(h, "error")
        /\ UNCHANGED requests
  /\ UNCHANGED <<attempts, audits, directory, channel, restarts>>

\* validateDispatchTarget: the group is read once, then each member in a
\* transaction of its own until one is an enabled agent.
ValidateGroup(h) ==
  /\ pc[h] = "group"
  /\ LET group == groups[task[h].group]
         usable == group # Nil /\ group.active /\ group.members # << >>
     IN \/ /\ usable
           /\ scan' = [scan EXCEPT ![h] = group.members]
           /\ Goto(h, "member")
        \/ /\ ~usable
           /\ Goto(h, "undo")
           /\ UNCHANGED scan
  /\ UNCHANGED <<store, directory, channel, bounds, mu, task>>

ValidateMember(h) ==
  /\ pc[h] = "member"
  /\ \/ /\ Head(scan[h]) \in agents
        /\ scan' = [scan EXCEPT ![h] = << >>]
        /\ Goto(h, "enqueue")
     \/ /\ Head(scan[h]) \notin agents
        /\ scan' = [scan EXCEPT ![h] = Tail(@)]
        /\ Goto(h, IF Tail(scan[h]) = << >> THEN "undo" ELSE "member")
  /\ UNCHANGED <<store, directory, channel, bounds, mu, task>>

\* Queue.Enqueue up to the test of the closed channel, under the read lock.
Enqueue(h) ==
  /\ pc[h] = "enqueue"
  /\ Goto(h, IF closed THEN "undo" ELSE "send")
  /\ UNCHANGED <<store, directory, channel, bounds, mu, task, scan>>

HasRoom == Len(queue) < Capacity

\* The send case of the select in Enqueue.
Send(h) ==
  /\ pc[h] = "send"
  /\ HasRoom
  /\ queue' = Append(queue, [id |-> task[h].id, group |-> task[h].group])
  /\ Goto(h, "created")
  /\ UNCHANGED <<store, directory, closed, bounds, mu, task, scan>>

\* Mutant of CancelSend: a client that gave up gets its error, and the
\* record stays behind.
ForgottenRollback(h) ==
  /\ pc[h] = "send"
  /\ ReturnFromCreate(h, "error")
  /\ UNCHANGED <<store, directory, channel, bounds>>

\* The other case: the client is gone and its context is done.  It may be at
\* any time, and select may choose this case when there is room too.
CancelSend(h) ==
  /\ pc[h] = "send"
  /\ Goto(h, "undo")
  /\ UNCHANGED <<store, directory, channel, bounds, mu, task, scan>>

\* Mutant of UndoRequest: the failing return forgets to unlock the mutex.
UndoWithoutUnlock(h) ==
  /\ pc[h] = "undo"
  /\ requests' = [requests EXCEPT ![task[h].id] = Nil]
  /\ Return(h, "error")
  /\ UNCHANGED <<attempts, audits, directory, channel, mu, bounds>>

\* The record of step 1 is deleted; an error of the deletion is dropped.
UndoRequest(h) ==
  /\ pc[h] = "undo"
  /\ \/ /\ requests' = [requests EXCEPT ![task[h].id] = Nil]
        /\ UNCHANGED faults
     \/ StoreFails /\ UNCHANGED requests
  /\ ReturnFromCreate(h, "error")
  /\ UNCHANGED <<attempts, audits, directory, channel, restarts>>

\* Mutant of RecordCreated: the request is rolled back when its creation
\* cannot be audited, although its job is in the queue already.
UndoUnaudited(h) ==
  /\ pc[h] = "created"
  /\ \/ /\ Audit(task[h].id, "created")
        /\ ReturnFromCreate(h, "ok")
        /\ UNCHANGED faults
     \/ /\ StoreFails
        /\ Goto(h, "undo")
        /\ UNCHANGED <<audits, mu, task, scan>>
  /\ UNCHANGED <<requests, attempts, directory, channel, restarts>>

\* The audit event of a created request.  Without it the call fails, but
\* the request is stored and its job queued.
RecordCreated(h) ==
  /\ pc[h] = "created"
  /\ \/ /\ Audit(task[h].id, "created")
        /\ ReturnFromCreate(h, "ok")
        /\ UNCHANGED faults
     \/ /\ StoreFails
        /\ ReturnFromCreate(h, "error")
        /\ UNCHANGED audits
  /\ UNCHANGED <<requests, attempts, directory, channel, restarts>>

-----------------------------------------------------------------------------
(***************************************************************************)
(* Store.UpdateRequestStatus: one transaction that reads the record, asks  *)
(* CanTransition about the status it finds, and writes the caller's group, *)
(* assignee and status.                                                    *)
(***************************************************************************)
UpdateRequestStatus(h, next) ==
  LET stored == requests[task[h].id]
      allowed == stored # Nil /\ CanTransition(stored.status, task[h].status)
  IN /\ \/ /\ allowed
           /\ requests' = [requests EXCEPT ![task[h].id] = Record(task[h])]
           /\ Goto(h, next)
           /\ UNCHANGED <<task, scan, faults>>
        \/ /\ ~allowed
           /\ Return(h, "error")
           /\ UNCHANGED <<requests, faults>>
        \/ /\ allowed
           /\ StoreFails
           /\ Return(h, "error")
           /\ UNCHANGED requests
     /\ UNCHANGED <<attempts, audits, directory, channel, mu, restarts>>

-----------------------------------------------------------------------------
(***************************************************************************)
(* ProcessQueue (POST /api/requests/<id>/process).  The id of the route is *)
(* not used: the call takes the oldest job of the channel.  Once received, *)
(* a job is never put back.                                                *)
(***************************************************************************)

ProcessCall(h) ==
  /\ pc[h] \in Ready
  /\ Goto(h, "receive")
  /\ UNCHANGED <<store, directory, channel, bounds, mu, task, scan>>

\* Queue.Receive.  Its select does not look at the channels in an order:
\* a job may still be received after Close.
Receive(h) ==
  /\ pc[h] = "receive"
  /\ queue # << >>
  /\ task' = [task EXCEPT ![h] = [id |-> Head(queue).id,
                                  group |-> Head(queue).group,
                                  assignee |-> Nil,
                                  status |-> "assigned"]]
  /\ queue' = Tail(queue)
  /\ Goto(h, "load")
  /\ UNCHANGED <<store, directory, closed, bounds, mu, scan>>

\* The queue is closed, or the client is gone.
ReceiveNothing(h) ==
  /\ pc[h] = "receive"
  /\ Return(h, "error")
  /\ UNCHANGED <<store, directory, channel, bounds, mu>>

LoadRequest(h) ==
  /\ pc[h] = "load"
  /\ \/ /\ requests[task[h].id] = Nil
        /\ Return(h, "error")
     \/ /\ requests[task[h].id] # Nil
        /\ Goto(h, "chooseGroup")
        /\ UNCHANGED <<task, scan>>
  /\ UNCHANGED <<store, directory, channel, bounds, mu>>

\* chooseAgent: the group, then its members one transaction at a time.
ChooseGroup(h) ==
  /\ pc[h] = "chooseGroup"
  /\ LET group == groups[task[h].group]
         usable == group # Nil /\ group.active /\ group.members # << >>
     IN \/ /\ usable
           /\ scan' = [scan EXCEPT ![h] = group.members]
           /\ Goto(h, "choose")
        \/ /\ ~usable
           /\ Goto(h, "failed")
           /\ UNCHANGED scan
  /\ UNCHANGED <<store, directory, channel, bounds, mu, task>>

ChooseMember(h) ==
  /\ pc[h] = "choose"
  /\ \/ /\ Head(scan[h]) \in agents
        /\ task' = [task EXCEPT ![h].assignee = Head(scan[h])]
        /\ scan' = [scan EXCEPT ![h] = << >>]
        /\ Goto(h, "assign")
     \/ /\ Head(scan[h]) \notin agents
        /\ scan' = [scan EXCEPT ![h] = Tail(@)]
        /\ Goto(h, IF Tail(scan[h]) = << >> THEN "failed" ELSE "choose")
        /\ UNCHANGED task
  /\ UNCHANGED <<store, directory, channel, bounds, mu>>

\* Mutant of RecordFailure: the failed dispatch leaves no trace.
SilentFailure(h) ==
  /\ pc[h] = "failed"
  /\ Return(h, "error")
  /\ UNCHANGED <<store, directory, channel, bounds, mu>>

\* No agent: the failure is audited (an error of that is dropped) and the
\* job is gone.
RecordFailure(h) ==
  /\ pc[h] = "failed"
  /\ \/ Audit(task[h].id, "dispatch_failed") /\ UNCHANGED faults
     \/ StoreFails /\ UNCHANGED audits
  /\ Return(h, "error")
  /\ UNCHANGED <<requests, attempts, directory, channel, mu, restarts>>

\* Mutant of Assign: the audit event is written before the attempt is saved,
\* and the attempt never.
AssignWithoutAttempt(h) ==
  pc[h] = "assign" /\ UpdateRequestStatus(h, "dispatched")

Assign(h) == pc[h] = "assign" /\ UpdateRequestStatus(h, "attempt")

\* Mutant of SaveAttempt: the call ends without an audit event.
AttemptEndsCall(h) ==
  /\ pc[h] = "attempt"
  /\ attempts' = [attempts EXCEPT ![task[h].id] =
       Append(@, [group |-> task[h].group, agent |-> task[h].assignee])]
  /\ Return(h, "ok")
  /\ UNCHANGED <<requests, audits, directory, channel, mu, bounds>>

\* Mutant of SaveAttempt: the error of the write is dropped and the call goes
\* on to record a dispatch.
AttemptErrorDropped(h) ==
  /\ pc[h] = "attempt"
  /\ Goto(h, "dispatched")
  /\ \/ /\ attempts' = [attempts EXCEPT ![task[h].id] =
             Append(@, [group |-> task[h].group, agent |-> task[h].assignee])]
        /\ UNCHANGED faults
     \/ StoreFails /\ UNCHANGED attempts
  /\ UNCHANGED <<requests, audits, task, scan, directory, channel, mu,
                 restarts>>

SaveAttempt(h) ==
  /\ pc[h] = "attempt"
  /\ \/ /\ attempts' = [attempts EXCEPT ![task[h].id] =
             Append(@, [group |-> task[h].group, agent |-> task[h].assignee])]
        /\ Goto(h, "dispatched")
        /\ UNCHANGED <<task, scan, faults>>
     \/ /\ StoreFails
        /\ Return(h, "error")
        /\ UNCHANGED attempts
  /\ UNCHANGED <<requests, audits, directory, channel, mu, restarts>>

RecordDispatched(h) ==
  /\ pc[h] = "dispatched"
  /\ \/ /\ Audit(task[h].id, "dispatched")
        /\ Return(h, "ok")
        /\ UNCHANGED faults
     \/ /\ StoreFails
        /\ Return(h, "error")
        /\ UNCHANGED audits
  /\ UNCHANGED <<requests, attempts, directory, channel, mu, restarts>>

-----------------------------------------------------------------------------
(***************************************************************************)
(* ChangeStatus (PATCH /api/requests/<id>/status).  What it read decides   *)
(* whether the request is terminal and what group and assignee the update  *)
(* will write, one transaction later.                                      *)
(***************************************************************************)

\* A word that is no status is refused by the route; a missing or terminal
\* request, and a resolution that nobody signs, by the service.
Changeable(r, word, actor) ==
  /\ NormalizeStatus(word) = word
  /\ requests[r] # Nil
  /\ ~IsTerminal(requests[r].status)
  /\ word = "resolved" => actor # Nil

ChangeCall(h, r, word, actor) ==
  /\ pc[h] \in Ready
  /\ \/ /\ ~Changeable(r, word, actor)
        /\ Goto(h, "error")
        /\ UNCHANGED task
     \/ /\ Changeable(r, word, actor)
        /\ Goto(h, "update")
        /\ task' = [task EXCEPT ![h] = [id |-> r, group |-> requests[r].group,
                                        assignee |-> requests[r].assignee,
                                        status |-> word]]
  /\ UNCHANGED <<store, directory, channel, bounds, mu, scan>>

ChangeStatus(h) == pc[h] = "update" /\ UpdateRequestStatus(h, "changed")

RecordChanged(h) ==
  /\ pc[h] = "changed"
  /\ \/ /\ Audit(task[h].id, "status_changed")
        /\ Return(h, "ok")
        /\ UNCHANGED faults
     \/ /\ StoreFails
        /\ Return(h, "error")
        /\ UNCHANGED audits
  /\ UNCHANGED <<requests, attempts, directory, channel, mu, restarts>>

-----------------------------------------------------------------------------
(***************************************************************************)
(* The directory changes under the handlers: each commit of an operation   *)
(* on accounts or groups is one step.                                      *)
(***************************************************************************)

\* PutUser and SetUserEnabled, seen through chooseAgent's test.
SaveUser(u) ==
  /\ agents' \in {agents \cup {u}, agents \ {u}}
  /\ UNCHANGED <<store, groups, channel, bounds, mu, pc, task, scan>>

\* PutGroup, ReplaceGroupMembers and SetGroupActive.  No operation deletes
\* a group.
SaveGroup(g, group) ==
  /\ groups' = [groups EXCEPT ![g] = group]
  /\ UNCHANGED <<store, agents, channel, bounds, mu, pc, task, scan>>

\* Queue.Close waits for the write lock: no sender is inside Enqueue.
Close ==
  /\ \A h \in Handlers : pc[h] # "send"
  /\ closed' = TRUE
  /\ UNCHANGED <<store, directory, queue, bounds, mu, pc, task, scan>>

\* The process ends, by a crash or because main does not wait longer than
\* two seconds for its handlers, and a new one opens the same database.
\* main starts with an empty queue: nothing reads the stored requests back.
Restart ==
  /\ restarts < MaxRestarts
  /\ restarts' = restarts + 1
  /\ queue' = << >>
  /\ closed' = FALSE
  /\ mu' = Nil
  /\ pc' = [h \in Handlers |-> "idle"]
  /\ task' = [h \in Handlers |-> Nil]
  /\ scan' = [h \in Handlers |-> << >>]
  /\ UNCHANGED <<store, directory, faults>>

-----------------------------------------------------------------------------

CreateStep(h) ==
  \/ PutRequest(h) \/ ValidateGroup(h) \/ ValidateMember(h)
  \/ Enqueue(h) \/ Send(h) \/ UndoRequest(h) \/ RecordCreated(h)

ProcessStep(h) ==
  \/ LoadRequest(h) \/ ChooseGroup(h) \/ ChooseMember(h) \/ RecordFailure(h)
  \/ Assign(h) \/ SaveAttempt(h) \/ RecordDispatched(h)

ChangeStep(h) == ChangeStatus(h) \/ RecordChanged(h)

Call(h) ==
  \/ \E d \in Drafts : CreateCall(h, d)
  \/ ProcessCall(h)
  \/ \E r \in Ids, word \in StatusInputs, actor \in Users \cup {Nil} :
       ChangeCall(h, r, word, actor)

Environment ==
  \/ \E u \in Users : SaveUser(u)
  \/ \E g \in Groups, group \in GroupValues : SaveGroup(g, group)
  \/ Close
  \/ Restart

Next ==
  \/ \E h \in Handlers : \/ Call(h)
                         \/ CheckExists(h) \/ CreateStep(h) \/ CancelSend(h)
                         \/ Receive(h) \/ ReceiveNothing(h) \/ ProcessStep(h)
                         \/ ChangeStep(h)
  \/ Environment

Spec == Init /\ [][Next]_vars

-----------------------------------------------------------------------------
(***************************************************************************)
(* Safety.                                                                 *)
(***************************************************************************)

Stored(r) == requests[r] # Nil

Queued(r) == \E i \in 1 .. Len(queue) : queue[i].id = r

\* A handler works on request r at one of these places.
At(places, r) == \E h \in Handlers : pc[h] \in places /\ task[h].id = r

\* Places of a create call that has stored its request and not queued it.
Tentative == {"group", "member", "enqueue", "send", "undo"}

\* A job always finds its request: from the moment it is in the queue until
\* its dispatch is recorded, no rollback of a create call, its own or that
\* of another call with the same id, takes the record away.  The branch of
\* ProcessQueue for a missing request is dead code.
JobHasRecord ==
  \A r \in Ids :
    Queued(r) \/ At(Dispatching \cup {"dispatched"}, r) => Stored(r)

\* However many calls race on an id, and across restarts, a request is
\* dispatched at most once: there is never a second attempt.
AtMostOneDispatch == \A r \in Ids : Len(attempts[r]) <= 1

\* The audit trail never runs ahead of the store and never contradicts
\* itself: an outcome of a dispatch is on record only for a stored request,
\* "dispatched" only after its attempt, and never beside "dispatch_failed".
TrailIsTruthful ==
  \A r \in Ids :
    /\ audits[r] \cap {"created", "dispatched", "dispatch_failed"} # {}
         => Stored(r)
    /\ "dispatched" \in audits[r]
         => attempts[r] # << >> /\ "dispatch_failed" \notin audits[r]

Undisturbed == faults = 0 /\ restarts = 0

\* As long as no write failed and the process did not restart, the trail of
\* a request nobody works on is complete: its creation is on record, and an
\* attempt is on record as a dispatch.
TrailIsComplete ==
  \A r \in Ids :
    Undisturbed /\ ~At(Creating \cup Dispatching \cup {"dispatched"}, r) =>
      /\ Stored(r) => "created" \in audits[r]
      /\ attempts[r] # << >> => "dispatched" \in audits[r]

\* A request that waits in status "queued" with no job and no handler left
\* to dispatch it was given up on the record: its trail holds the failed
\* dispatch, unless a write failed or the process restarted.
StrandedIsExplained ==
  \A r \in Ids :
    /\ Stored(r) /\ requests[r].status = "queued"
    /\ ~Queued(r) /\ ~At(Creating \cup Dispatching, r)
    /\ Undisturbed
    => "dispatch_failed" \in audits[r]

\* An assignee that no client wrote into a request comes from a dispatch of
\* that request: updates that write back what they read earlier may restore
\* an old assignee, never invent one.
AssigneeWasDispatched ==
  \A r \in Ids :
    Stored(r) /\ requests[r].assignee # Nil /\ Undisturbed =>
      LET agent == requests[r].assignee
      IN \/ \E d \in Drafts : d.id = r /\ d.assignee = agent
         \/ \E i \in 1 .. Len(attempts[r]) : attempts[r][i].agent = agent
         \/ \E h \in Handlers : /\ pc[h] = "attempt"
                                /\ task[h].id = r
                                /\ task[h].assignee = agent

\* A terminal status is final: no handler, whatever it read before, moves a
\* resolved or rejected request to another status.
TerminalStatusFinal ==
  [][\A r \in Ids :
       Stored(r) /\ IsTerminal(requests[r].status) /\ Stored(r)' =>
         requests'[r].status = requests[r].status]_vars

\* A terminal request is left alone altogether.  The code promises less:
\* the status written over itself passes CanTransition.
TerminalRecordFrozen ==
  [][\A r \in Ids :
       Stored(r) /\ IsTerminal(requests[r].status) /\ Stored(r)' =>
         requests'[r] = requests[r]]_vars

\* A create call that fails after it stored its request takes it back.
FailedCreateLeavesNoRecord ==
  [][\A h \in Handlers :
       pc[h] \in Creating /\ pc'[h] = "error" =>
         requests'[task[h].id] = Nil]_vars

\* The stored requests behave as Lifecycle says: at most one is tentative,
\* a kept one is never withdrawn, a status moves along the table.
phase == [r \in Ids |-> IF ~Stored(r) THEN "none"
                        ELSE IF At(Tentative, r) THEN "tentative" ELSE "kept"]

status == [r \in Ids |-> IF Stored(r) THEN requests[r].status ELSE Nil]

Promise == INSTANCE Lifecycle WITH Absent <- Nil

ImplementsLifecycle == Promise!Spec

=============================================================================
