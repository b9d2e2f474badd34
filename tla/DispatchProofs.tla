--------------------------- MODULE DispatchProofs ---------------------------
(***************************************************************************)
(* Proofs about the dispatch core, for any number of handlers, requests,   *)
(* groups and users, any capacity of the queue and any number of failing   *)
(* writes and restarts.                                                    *)
(***************************************************************************)
EXTENDS DispatchInv, SequenceTheorems, TLAPS

\* A step of handler h leaves the other handlers where they are.
OthersStay(h) ==
  \A k \in Handlers \ {h} :
    pc'[k] = pc[k] /\ task'[k] = task[k] /\ scan'[k] = scan[k]

LEMMA Moved ==
  ASSUME TypeOK, NEW h \in Handlers, NEW label \in PCs, Goto(h, label)
  PROVE  /\ pc' \in [Handlers -> PCs]
         /\ pc'[h] = label
         /\ \A k \in Handlers \ {h} : pc'[k] = pc[k]
BY DEF TypeOK, Goto

\* A move of pc alone.
LEMMA MovedAlone ==
  ASSUME TypeOK, NEW h \in Handlers, NEW label \in PCs, Goto(h, label),
         UNCHANGED <<task, scan>>
  PROVE  /\ pc' \in [Handlers -> PCs]
         /\ pc'[h] = label
         /\ OthersStay(h)
BY Moved DEF OthersStay

\* A return leaves the handler free, without a request and without a scan.
LEMMA Returned ==
  ASSUME TypeOK, NEW h \in Handlers, NEW outcome \in Ready, Return(h, outcome)
  PROVE  /\ pc' \in [Handlers -> PCs]
         /\ pc'[h] = outcome
         /\ task' \in [Handlers -> Task \cup {Nil}]
         /\ scan' \in [Handlers -> Seq(Users)]
         /\ OthersStay(h)
BY DEF TypeOK, Goto, Return, PCs, OthersStay

\* A step of one handler can only break what TaskInv says of that handler.
LEMMA TaskFrame ==
  ASSUME TaskInv, NEW h \in Handlers, OthersStay(h), TaskOK(h)'
  PROVE  TaskInv'
BY DEF TaskInv, TaskOK, OthersStay

LEMMA ReadyTask ==
  ASSUME TaskInv, NEW h \in Handlers, OthersStay(h), pc'[h] \in Ready
  PROVE  TaskInv'
<1>1. TaskOK(h)'  BY DEF TaskOK, Ready
<1>. QED  BY <1>1, TaskFrame

\* The types survive a return that touches nothing but the handler.
LEMMA ReturnTypes ==
  ASSUME TypeOK, TaskInv, NEW h \in Handlers, NEW outcome \in Ready,
         Return(h, outcome),
         requests' \in [Ids -> Request \cup {Nil}],
         attempts' \in [Ids -> Seq(Attempt)],
         audits' \in [Ids -> SUBSET AuditAction],
         faults' \in 0 .. MaxFaults,
         mu' \in Handlers \cup {Nil},
         UNCHANGED <<groups, agents, queue, closed, restarts>>
  PROVE  TypeOK' /\ TaskInv'
<1>1. TypeOK'  BY Returned DEF TypeOK
<1>2. TaskInv'  BY Returned, ReadyTask
<1>. QED  BY <1>1, <1>2

LEMMA MoveTypes ==
  ASSUME TypeOK, TaskInv, NEW h \in Handlers, NEW label \in PCs,
         Goto(h, label),
         requests' \in [Ids -> Request \cup {Nil}],
         attempts' \in [Ids -> Seq(Attempt)],
         audits' \in [Ids -> SUBSET AuditAction],
         queue' \in Seq(Job), Len(queue') <= Capacity,
         faults' \in 0 .. MaxFaults,
         mu' \in Handlers \cup {Nil},
         task' \in [Handlers -> Task \cup {Nil}],
         scan' \in [Handlers -> Seq(Users)],
         OthersStay(h), TaskOK(h)',
         UNCHANGED <<groups, agents, closed, restarts>>
  PROVE  TypeOK' /\ TaskInv'
<1>1. TypeOK'  BY Moved DEF TypeOK
<1>2. TaskInv'  BY TaskFrame
<1>. QED  BY <1>1, <1>2

\* A failed transaction is counted.
LEMMA FaultCounted ==
  ASSUME TypeOK, StoreFails PROVE faults' \in 0 .. MaxFaults
BY BoundAssumption DEF TypeOK, StoreFails

\* The record of a task has the type of a stored request.
LEMMA RecordType ==
  ASSUME NEW t \in Task PROVE Record(t) \in Request
BY DEF Task, Record, Request

LEMMA Audited ==
  ASSUME TypeOK, NEW r, NEW action \in AuditAction,
         Audit(r, action) \/ UNCHANGED audits
  PROVE  audits' \in [Ids -> SUBSET AuditAction]
<1>1. CASE UNCHANGED audits  BY <1>1 DEF TypeOK
<1>2. CASE Audit(r, action)
  <2>1. ASSUME NEW q \in Ids PROVE audits'[q] \in SUBSET AuditAction
    <3>1. audits[q] \in SUBSET AuditAction  BY DEF TypeOK
    <3>2. audits'[q] = audits[q] \/ audits'[q] = audits[q] \cup {action}
      BY <1>2 DEF TypeOK, Audit
    <3>. QED  BY <3>1, <3>2
  <2>2. audits' = [q \in Ids |-> audits'[q]]  BY <1>2 DEF TypeOK, Audit
  <2>. QED  BY <2>1, <2>2
<1>. QED  BY <1>1, <1>2

-----------------------------------------------------------------------------
(***************************************************************************)
(* Types: one lemma per part of the system.                                *)
(***************************************************************************)

LEMMA CreateTypes ==
  ASSUME TypeOK, TaskInv, NEW h \in Handlers,
         \/ \E d \in Drafts : CreateCall(h, d)
         \/ CheckExists(h) \/ CreateStep(h) \/ CancelSend(h)
  PROVE  TypeOK' /\ TaskInv'
<1>. USE DEF store, directory, channel, bounds
<1>1. ASSUME NEW d \in Drafts, CreateCall(h, d) PROVE TypeOK' /\ TaskInv'
  <2>1. "check" \in PCs  BY DEF PCs
  <2>2. d \in Task  BY InputAssumption
  <2>3. /\ task' \in [Handlers -> Task \cup {Nil}] /\ task'[h] = d
        /\ OthersStay(h) /\ pc'[h] = "check" /\ scan' = scan
    BY <1>1, <2>1, <2>2, Moved DEF CreateCall, TypeOK, OthersStay
  <2>4. TaskOK(h)'  BY <2>2, <2>3 DEF TaskOK
  <2>. QED  BY <1>1, <2>1, <2>3, <2>4, MoveTypes DEF CreateCall, TypeOK
<1>2. CASE CheckExists(h)
  <2>1. CASE Return(h, "error") /\ UNCHANGED mu
    BY <1>2, <2>1, ReturnTypes DEF CheckExists, TypeOK, Ready
  <2>2. CASE mu' = h /\ Goto(h, "put") /\ UNCHANGED <<task, scan>>
    <3>1. "put" \in PCs  BY DEF PCs, Creating
    <3>2. pc'[h] = "put" /\ OthersStay(h)  BY <2>2, <3>1, MovedAlone
    <3>3. TaskOK(h)'
      BY <1>2, <2>2, <3>2 DEF CheckExists, TaskInv, TaskOK, Ready
    <3>. QED  BY <1>2, <2>2, <3>1, <3>2, <3>3, MoveTypes DEF CheckExists, TypeOK
  <2>. QED  BY <1>2, <2>1, <2>2 DEF CheckExists
<1>3. CASE PutRequest(h)
  <2>1. task[h] \in Task /\ "group" \in PCs
    BY <1>3 DEF PutRequest, TaskInv, TaskOK, Ready, PCs, Creating
  <2>2. CASE /\ requests' = [requests EXCEPT ![task[h].id] = Record(task[h])]
             /\ Goto(h, "group")
             /\ UNCHANGED <<mu, task, scan, faults>>
    <3>1. requests' \in [Ids -> Request \cup {Nil}]
      BY <2>1, <2>2, RecordType DEF TypeOK
    <3>2. pc'[h] = "group" /\ OthersStay(h)  BY <2>1, <2>2, MovedAlone
    <3>3. TaskOK(h)'  BY <2>1, <2>2, <3>2 DEF TaskOK
    <3>. QED
      BY <1>3, <2>1, <2>2, <3>1, <3>2, <3>3, MoveTypes DEF PutRequest, TypeOK
  <2>3. CASE StoreFails /\ ReturnFromCreate(h, "error") /\ UNCHANGED requests
    BY <1>3, <2>3, FaultCounted, ReturnTypes
       DEF PutRequest, ReturnFromCreate, TypeOK, Ready
  <2>. QED  BY <1>3, <2>2, <2>3 DEF PutRequest
<1>4. CASE ValidateGroup(h)
  <2>. DEFINE group == groups[task[h].group]
              usable == group # Nil /\ group.active /\ group.members # << >>
  <2>1. task[h] \in Task /\ {"member", "undo"} \subseteq PCs
    BY <1>4 DEF ValidateGroup, TaskInv, TaskOK, Ready, PCs, Creating
  <2>2. CASE /\ usable
             /\ scan' = [scan EXCEPT ![h] = group.members]
             /\ Goto(h, "member")
    <3>1. group.members \in Seq(Users) \ {<< >>}
      BY <2>1, <2>2 DEF TypeOK, AgentGroup, Task
    <3>2. /\ scan' \in [Handlers -> Seq(Users)] /\ scan'[h] # << >>
          /\ pc'[h] = "member" /\ OthersStay(h) /\ task' = task
      BY <1>4, <2>1, <2>2, <3>1, Moved DEF ValidateGroup, TypeOK, OthersStay
    <3>3. TaskOK(h)'  BY <2>1, <3>2 DEF TaskOK
    <3>. HIDE DEF group, usable
    <3>. QED
      BY <1>4, <2>1, <2>2, <3>2, <3>3, MoveTypes DEF ValidateGroup, TypeOK
  <2>3. CASE Goto(h, "undo") /\ UNCHANGED scan
    <3>1. pc'[h] = "undo" /\ OthersStay(h) /\ task' = task
      BY <1>4, <2>1, <2>3, MovedAlone DEF ValidateGroup
    <3>2. TaskOK(h)'  BY <2>1, <3>1 DEF TaskOK
    <3>. QED
      BY <1>4, <2>1, <2>3, <3>1, <3>2, MoveTypes DEF ValidateGroup, TypeOK
  <2>. QED  BY <1>4, <2>2, <2>3 DEF ValidateGroup
<1>5. CASE ValidateMember(h)
  <2>1. task[h] \in Task /\ scan[h] \in Seq(Users) /\ scan[h] # << >>
    BY <1>5 DEF ValidateMember, TypeOK, TaskInv, TaskOK, Ready
  <2>2. Tail(scan[h]) \in Seq(Users)  BY <2>1
  <2>3. PICK label \in {"member", "enqueue", "undo"}, rest \in Seq(Users) :
          /\ Goto(h, label)
          /\ scan' = [scan EXCEPT ![h] = rest]
          /\ label = "member" => rest # << >>
    <3>1. CASE scan' = [scan EXCEPT ![h] = << >>] /\ Goto(h, "enqueue")
      <4>1. << >> \in Seq(Users)  OBVIOUS
      <4>. QED  BY <3>1, <4>1
    <3>2. CASE /\ scan' = [scan EXCEPT ![h] = Tail(@)]
               /\ Goto(h, IF Tail(scan[h]) = << >> THEN "undo" ELSE "member")
      <4>1. scan' = [scan EXCEPT ![h] = Tail(scan[h])]  BY <3>2
      <4>2. CASE Tail(scan[h]) = << >>  BY <2>2, <3>2, <4>1, <4>2
      <4>3. CASE Tail(scan[h]) # << >>  BY <2>2, <3>2, <4>1, <4>3
      <4>. QED  BY <4>2, <4>3
    <3>. QED  BY <1>5, <3>1, <3>2 DEF ValidateMember
  <2>4. label \in PCs  BY DEF PCs, Creating
  <2>5. /\ pc'[h] = label /\ OthersStay(h) /\ task' = task
        /\ scan' \in [Handlers -> Seq(Users)] /\ scan'[h] = rest
    BY <1>5, <2>3, <2>4, Moved DEF ValidateMember, OthersStay, TypeOK
  <2>6. TaskOK(h)'  BY <2>1, <2>3, <2>5 DEF TaskOK
  <2>. QED
    BY <1>5, <2>3, <2>4, <2>5, <2>6, MoveTypes DEF ValidateMember, TypeOK
<1>6. CASE Enqueue(h)
  <2>1. PICK label \in {"undo", "send"} : Goto(h, label)
    BY <1>6 DEF Enqueue
  <2>2. task[h] \in Task /\ label \in PCs
    BY <1>6 DEF Enqueue, TaskInv, TaskOK, Ready, PCs, Creating
  <2>3. pc'[h] = label /\ OthersStay(h)
    BY <1>6, <2>1, <2>2, MovedAlone DEF Enqueue
  <2>4. TaskOK(h)'  BY <1>6, <2>2, <2>3 DEF Enqueue, TaskOK
  <2>. QED  BY <1>6, <2>1, <2>2, <2>3, <2>4, MoveTypes DEF Enqueue, TypeOK
<1>7. CASE Send(h)
  <2>1. task[h] \in Task /\ "created" \in PCs
    BY <1>7 DEF Send, TaskInv, TaskOK, Ready, PCs, Creating
  <2>. DEFINE job == [id |-> task[h].id, group |-> task[h].group]
  <2>2. job \in Job  BY <2>1 DEF Task, Job
  <2>3. queue' \in Seq(Job) /\ Len(queue') <= Capacity
    BY <1>7, <2>2, BoundAssumption DEF Send, HasRoom, TypeOK
  <2>4. pc'[h] = "created" /\ OthersStay(h)
    BY <1>7, <2>1, MovedAlone DEF Send
  <2>5. TaskOK(h)'  BY <1>7, <2>1, <2>4 DEF Send, TaskOK
  <2>. QED  BY <1>7, <2>1, <2>3, <2>4, <2>5, MoveTypes DEF Send, TypeOK
<1>8. CASE CancelSend(h)
  <2>1. task[h] \in Task /\ "undo" \in PCs
    BY <1>8 DEF CancelSend, TaskInv, TaskOK, Ready, PCs, Creating
  <2>2. pc'[h] = "undo" /\ OthersStay(h)
    BY <1>8, <2>1, MovedAlone DEF CancelSend
  <2>3. TaskOK(h)'  BY <1>8, <2>1, <2>2 DEF CancelSend, TaskOK
  <2>. QED  BY <1>8, <2>1, <2>2, <2>3, MoveTypes DEF CancelSend, TypeOK
<1>9. CASE UndoRequest(h)
  <2>1. requests' \in [Ids -> Request \cup {Nil}] /\ faults' \in 0 .. MaxFaults
    BY <1>9, FaultCounted DEF UndoRequest, TypeOK
  <2>. QED
    BY <1>9, <2>1, ReturnTypes DEF UndoRequest, ReturnFromCreate, TypeOK, Ready
<1>10. CASE RecordCreated(h)
  <2>0. "created" \in AuditAction  BY DEF AuditAction
  <2>1. audits' \in [Ids -> SUBSET AuditAction] /\ faults' \in 0 .. MaxFaults
    BY <1>10, <2>0, Audited, FaultCounted DEF RecordCreated, TypeOK
  <2>2. PICK outcome \in {"ok", "error"} : ReturnFromCreate(h, outcome)
    BY <1>10 DEF RecordCreated
  <2>. QED
    BY <1>10, <2>1, <2>2, ReturnTypes
       DEF RecordCreated, ReturnFromCreate, TypeOK, Ready
<1>. QED
  BY <1>1, <1>2, <1>3, <1>4, <1>5, <1>6, <1>7, <1>8, <1>9, <1>10 DEF CreateStep

LEMMA UpdateTypes ==
  ASSUME TypeOK, TaskInv, NEW h \in Handlers,
         NEW next \in {"attempt", "changed"},
         task[h] \in Task,
         next = "attempt" => task[h].assignee \in Users,
         UpdateRequestStatus(h, next)
  PROVE  TypeOK' /\ TaskInv'
<1>. USE DEF directory, channel
<1>1. next \in PCs  BY DEF PCs, Dispatching
<1>2. CASE /\ requests' = [requests EXCEPT ![task[h].id] = Record(task[h])]
           /\ Goto(h, next)
           /\ UNCHANGED <<task, scan, faults>>
  <2>1. requests' \in [Ids -> Request \cup {Nil}]
    BY <1>2, RecordType DEF TypeOK
  <2>2. pc'[h] = next /\ OthersStay(h)  BY <1>1, <1>2, MovedAlone
  <2>3. TaskOK(h)'  BY <1>2, <2>2 DEF TaskOK
  <2>. QED
    BY <1>1, <1>2, <2>1, <2>2, <2>3, MoveTypes DEF UpdateRequestStatus, TypeOK
<1>3. CASE Return(h, "error") /\ UNCHANGED requests /\ faults' \in {faults, faults + 1}
  <2>1. faults' \in 0 .. MaxFaults
    BY FaultCounted DEF UpdateRequestStatus, TypeOK
  <2>. QED
    BY <1>3, <2>1, ReturnTypes DEF UpdateRequestStatus, TypeOK, Ready
<1>. QED
  BY <1>2, <1>3 DEF UpdateRequestStatus, StoreFails

LEMMA ProcessTypes ==
  ASSUME TypeOK, TaskInv, NEW h \in Handlers,
         ProcessCall(h) \/ Receive(h) \/ ReceiveNothing(h) \/ ProcessStep(h)
  PROVE  TypeOK' /\ TaskInv'
<1>. USE DEF store, directory, channel, bounds
<1>1. CASE ProcessCall(h)
  <2>1. "receive" \in PCs  BY DEF PCs
  <2>2. pc'[h] = "receive" /\ OthersStay(h)
    BY <1>1, <2>1, MovedAlone DEF ProcessCall
  <2>3. TaskOK(h)'  BY <2>2 DEF TaskOK
  <2>. QED  BY <1>1, <2>1, <2>2, <2>3, MoveTypes DEF ProcessCall, TypeOK
<1>2. CASE Receive(h)
  <2>. DEFINE received == [id |-> Head(queue).id, group |-> Head(queue).group,
                           assignee |-> Nil, status |-> "assigned"]
  <2>1. queue \in Seq(Job) /\ queue # << >>  BY <1>2 DEF Receive, TypeOK
  <2>2. Head(queue) \in Job /\ Tail(queue) \in Seq(Job)
        /\ Len(Tail(queue)) = Len(queue) - 1 /\ Len(queue) \in Nat
    BY <2>1
  <2>3. received \in Task
    BY <2>2 DEF Job, Task, Statuses, AllowedStatuses
  <2>4. "load" \in PCs  BY DEF PCs, Dispatching
  <2>5. queue' \in Seq(Job) /\ Len(queue') <= Capacity
    BY <1>2, <2>2, BoundAssumption DEF Receive, TypeOK
  <2>6. /\ task' \in [Handlers -> Task \cup {Nil}] /\ task'[h] \in Task
        /\ pc'[h] = "load" /\ OthersStay(h)
    BY <1>2, <2>3, <2>4, Moved DEF Receive, TypeOK, OthersStay
  <2>7. TaskOK(h)'  BY <2>6 DEF TaskOK
  <2>. QED  BY <1>2, <2>4, <2>5, <2>6, <2>7, MoveTypes DEF Receive, TypeOK
<1>3. CASE ReceiveNothing(h)
  BY <1>3, ReturnTypes DEF ReceiveNothing, TypeOK, Ready
<1>4. CASE LoadRequest(h)
  <2>1. CASE Return(h, "error")
    BY <1>4, <2>1, ReturnTypes DEF LoadRequest, TypeOK, Ready
  <2>2. CASE Goto(h, "chooseGroup") /\ UNCHANGED <<task, scan>>
    <3>1. "chooseGroup" \in PCs /\ task[h] \in Task
      BY <1>4 DEF LoadRequest, PCs, Dispatching, TaskInv, TaskOK, Ready
    <3>2. pc'[h] = "chooseGroup" /\ OthersStay(h)  BY <2>2, <3>1, MovedAlone
    <3>3. TaskOK(h)'  BY <2>2, <3>1, <3>2 DEF TaskOK
    <3>. QED
      BY <1>4, <2>2, <3>1, <3>2, <3>3, MoveTypes DEF LoadRequest, TypeOK
  <2>. QED  BY <1>4, <2>1, <2>2 DEF LoadRequest
<1>5. CASE ChooseGroup(h)
  <2>. DEFINE group == groups[task[h].group]
              usable == group # Nil /\ group.active /\ group.members # << >>
  <2>1. task[h] \in Task /\ {"choose", "failed"} \subseteq PCs
    BY <1>5 DEF ChooseGroup, TaskInv, TaskOK, Ready, PCs, Dispatching
  <2>2. CASE /\ usable
             /\ scan' = [scan EXCEPT ![h] = group.members]
             /\ Goto(h, "choose")
    <3>1. group.members \in Seq(Users) \ {<< >>}
      BY <2>1, <2>2 DEF TypeOK, AgentGroup, Task
    <3>2. /\ scan' \in [Handlers -> Seq(Users)] /\ scan'[h] # << >>
          /\ pc'[h] = "choose" /\ OthersStay(h) /\ task' = task
      BY <1>5, <2>1, <2>2, <3>1, Moved DEF ChooseGroup, TypeOK, OthersStay
    <3>3. TaskOK(h)'  BY <2>1, <3>2 DEF TaskOK
    <3>. HIDE DEF group, usable
    <3>. QED
      BY <1>5, <2>1, <2>2, <3>2, <3>3, MoveTypes DEF ChooseGroup, TypeOK
  <2>3. CASE Goto(h, "failed") /\ UNCHANGED scan
    <3>1. pc'[h] = "failed" /\ OthersStay(h) /\ task' = task
      BY <1>5, <2>1, <2>3, MovedAlone DEF ChooseGroup
    <3>2. TaskOK(h)'  BY <2>1, <3>1 DEF TaskOK
    <3>. QED
      BY <1>5, <2>1, <2>3, <3>1, <3>2, MoveTypes DEF ChooseGroup, TypeOK
  <2>. QED  BY <1>5, <2>2, <2>3 DEF ChooseGroup
<1>6. CASE ChooseMember(h)
  <2>1. /\ task[h] \in Task /\ scan[h] \in Seq(Users) /\ scan[h] # << >>
        /\ {"assign", "choose", "failed"} \subseteq PCs
    BY <1>6 DEF ChooseMember, TypeOK, TaskInv, TaskOK, Ready, PCs, Dispatching
  <2>2. Head(scan[h]) \in Users /\ Tail(scan[h]) \in Seq(Users)  BY <2>1
  <2>3. CASE /\ task' = [task EXCEPT ![h].assignee = Head(scan[h])]
             /\ scan' = [scan EXCEPT ![h] = << >>]
             /\ Goto(h, "assign")
    <3>1. task'[h] = [task[h] EXCEPT !.assignee = Head(scan[h])]
      BY <2>3 DEF TypeOK
    <3>2. task'[h] \in Task /\ task'[h].assignee \in Users
      BY <2>1, <2>2, <3>1 DEF Task
    <3>3. /\ task' \in [Handlers -> Task \cup {Nil}]
          /\ scan' \in [Handlers -> Seq(Users)]
          /\ pc'[h] = "assign" /\ OthersStay(h)
      BY <2>1, <2>3, <3>2, Moved DEF TypeOK, OthersStay
    <3>4. TaskOK(h)'  BY <3>2, <3>3 DEF TaskOK
    <3>. QED
      BY <1>6, <2>1, <2>3, <3>3, <3>4, MoveTypes DEF ChooseMember, TypeOK
  <2>4. CASE /\ scan' = [scan EXCEPT ![h] = Tail(@)]
             /\ Goto(h, IF Tail(scan[h]) = << >> THEN "failed" ELSE "choose")
             /\ UNCHANGED task
    <3>1. PICK label \in {"failed", "choose"} :
            Goto(h, label) /\ (label = "choose" => Tail(scan[h]) # << >>)
      BY <2>4
    <3>2. /\ scan' \in [Handlers -> Seq(Users)] /\ scan'[h] = Tail(scan[h])
          /\ pc'[h] = label /\ OthersStay(h)
      BY <2>1, <2>2, <2>4, <3>1, Moved DEF TypeOK, OthersStay
    <3>3. TaskOK(h)'  BY <2>1, <2>4, <3>1, <3>2 DEF TaskOK
    <3>. QED
      BY <1>6, <2>1, <2>4, <3>1, <3>2, <3>3, MoveTypes DEF ChooseMember, TypeOK
  <2>. QED  BY <1>6, <2>3, <2>4 DEF ChooseMember
<1>7. CASE RecordFailure(h)
  <2>0. "dispatch_failed" \in AuditAction  BY DEF AuditAction
  <2>1. audits' \in [Ids -> SUBSET AuditAction] /\ faults' \in 0 .. MaxFaults
    BY <1>7, <2>0, Audited, FaultCounted DEF RecordFailure, TypeOK
  <2>. QED  BY <1>7, <2>1, ReturnTypes DEF RecordFailure, TypeOK, Ready
<1>8. CASE Assign(h)
  <2>1. task[h] \in Task /\ task[h].assignee \in Users
    BY <1>8 DEF Assign, TaskInv, TaskOK, Ready
  <2>. QED  BY <1>8, <2>1, UpdateTypes DEF Assign
<1>9. CASE SaveAttempt(h)
  <2>1. task[h] \in Task /\ task[h].assignee \in Users /\ "dispatched" \in PCs
    BY <1>9 DEF SaveAttempt, TaskInv, TaskOK, Ready, PCs
  <2>. DEFINE attempt == [group |-> task[h].group, agent |-> task[h].assignee]
  <2>2. CASE /\ attempts' = [attempts EXCEPT ![task[h].id] = Append(@, attempt)]
             /\ Goto(h, "dispatched")
             /\ UNCHANGED <<task, scan, faults>>
    <3>1. attempt \in Attempt  BY <2>1 DEF Task, Attempt
    <3>2. task[h].id \in Ids  BY <2>1 DEF Task
    <3>3. attempts' \in [Ids -> Seq(Attempt)]
      BY <2>2, <3>1, <3>2 DEF TypeOK
    <3>4. pc'[h] = "dispatched" /\ OthersStay(h)  BY <2>1, <2>2, MovedAlone
    <3>5. TaskOK(h)'  BY <2>1, <2>2, <3>4 DEF TaskOK
    <3>. QED
      BY <1>9, <2>1, <2>2, <3>3, <3>4, <3>5, MoveTypes DEF SaveAttempt, TypeOK
  <2>3. CASE StoreFails /\ Return(h, "error") /\ UNCHANGED attempts
    BY <1>9, <2>3, FaultCounted, ReturnTypes DEF SaveAttempt, TypeOK, Ready
  <2>. QED  BY <1>9, <2>2, <2>3 DEF SaveAttempt
<1>10. CASE RecordDispatched(h)
  <2>0. "dispatched" \in AuditAction  BY DEF AuditAction
  <2>1. audits' \in [Ids -> SUBSET AuditAction] /\ faults' \in 0 .. MaxFaults
    BY <1>10, <2>0, Audited, FaultCounted DEF RecordDispatched, TypeOK
  <2>2. PICK outcome \in {"ok", "error"} : Return(h, outcome)
    BY <1>10 DEF RecordDispatched
  <2>. QED
    BY <1>10, <2>1, <2>2, ReturnTypes DEF RecordDispatched, TypeOK, Ready
<1>. QED
  BY <1>1, <1>2, <1>3, <1>4, <1>5, <1>6, <1>7, <1>8, <1>9, <1>10
     DEF ProcessStep

LEMMA ChangeTypes ==
  ASSUME TypeOK, TaskInv, NEW h \in Handlers,
         \/ \E r \in Ids, word \in StatusInputs, actor \in Users \cup {Nil} :
              ChangeCall(h, r, word, actor)
         \/ ChangeStep(h)
  PROVE  TypeOK' /\ TaskInv'
<1>. USE DEF store, directory, channel, bounds
<1>1. ASSUME NEW r \in Ids, NEW word \in StatusInputs,
             NEW actor \in Users \cup {Nil}, ChangeCall(h, r, word, actor)
      PROVE  TypeOK' /\ TaskInv'
  <2>1. CASE Goto(h, "error") /\ UNCHANGED task
    <3>1. "error" \in PCs  BY DEF PCs, Ready
    <3>2. pc'[h] = "error" /\ OthersStay(h)
      BY <1>1, <2>1, <3>1, MovedAlone DEF ChangeCall
    <3>3. TaskOK(h)'  BY <3>2 DEF TaskOK, Ready
    <3>. QED
      BY <1>1, <2>1, <3>1, <3>2, <3>3, MoveTypes DEF ChangeCall, TypeOK
  <2>2. CASE /\ Changeable(r, word, actor)
             /\ Goto(h, "update")
             /\ task' = [task EXCEPT ![h] =
                           [id |-> r, group |-> requests[r].group,
                            assignee |-> requests[r].assignee, status |-> word]]
    <3>1. requests[r] \in Request  BY <2>2 DEF Changeable, TypeOK
    <3>2. [id |-> r, group |-> requests[r].group,
           assignee |-> requests[r].assignee, status |-> word] \in Task
      BY <3>1, InputAssumption DEF Request, Task
    <3>3. "update" \in PCs  BY DEF PCs
    <3>4. /\ task' \in [Handlers -> Task \cup {Nil}] /\ task'[h] \in Task
          /\ pc'[h] = "update" /\ OthersStay(h)
      BY <1>1, <2>2, <3>2, <3>3, Moved DEF ChangeCall, TypeOK, OthersStay
    <3>5. TaskOK(h)'  BY <3>4 DEF TaskOK
    <3>. QED
      BY <1>1, <2>2, <3>3, <3>4, <3>5, MoveTypes DEF ChangeCall, TypeOK
  <2>. QED  BY <1>1, <2>1, <2>2 DEF ChangeCall
<1>2. CASE ChangeStatus(h)
  <2>1. task[h] \in Task  BY <1>2 DEF ChangeStatus, TaskInv, TaskOK, Ready
  <2>. QED  BY <1>2, <2>1, UpdateTypes DEF ChangeStatus
<1>3. CASE RecordChanged(h)
  <2>0. "status_changed" \in AuditAction  BY DEF AuditAction
  <2>1. audits' \in [Ids -> SUBSET AuditAction] /\ faults' \in 0 .. MaxFaults
    BY <1>3, <2>0, Audited, FaultCounted DEF RecordChanged, TypeOK
  <2>2. PICK outcome \in {"ok", "error"} : Return(h, outcome)
    BY <1>3 DEF RecordChanged
  <2>. QED  BY <1>3, <2>1, <2>2, ReturnTypes DEF RecordChanged, TypeOK, Ready
<1>. QED  BY <1>1, <1>2, <1>3 DEF ChangeStep

LEMMA EnvironmentTypes ==
  ASSUME TypeOK, TaskInv, Environment PROVE TypeOK' /\ TaskInv'
<1>. USE DEF store, directory, channel, bounds, TypeOK, TaskInv, TaskOK
<1>1. ASSUME NEW u \in Users, SaveUser(u) PROVE TypeOK' /\ TaskInv'
  BY <1>1 DEF SaveUser
<1>2. ASSUME NEW g \in Groups, NEW group \in GroupValues, SaveGroup(g, group)
      PROVE  TypeOK' /\ TaskInv'
  BY <1>2, InputAssumption DEF SaveGroup
<1>3. CASE Close  BY <1>3 DEF Close
<1>4. CASE Restart
  <2>1. restarts' \in 0 .. MaxRestarts  BY <1>4, BoundAssumption DEF Restart
  <2>2. "idle" \in PCs  BY DEF PCs, Ready
  <2>3. queue' \in Seq(Job) /\ Len(queue') <= Capacity
    BY <1>4, BoundAssumption DEF Restart
  <2>4. TypeOK'
    <3>1. /\ pc' \in [Handlers -> PCs]
          /\ task' \in [Handlers -> Task \cup {Nil}]
          /\ mu' \in Handlers \cup {Nil}
      BY <1>4, <2>2 DEF Restart
    <3>2. scan' \in [Handlers -> Seq(Users)]  BY <1>4 DEF Restart
    <3>. QED  BY <1>4, <2>1, <2>3, <3>1, <3>2 DEF Restart
  <2>5. \A h \in Handlers : pc'[h] = "idle"  BY <1>4 DEF Restart
  <2>6. TaskInv'  BY <2>5 DEF Ready
  <2>. QED  BY <2>4, <2>6
<1>. QED  BY <1>1, <1>2, <1>3, <1>4 DEF Environment

LEMMA InitTypes == Init => TypeOK /\ TaskInv
<1>. SUFFICES ASSUME Init PROVE TypeOK /\ TaskInv
  OBVIOUS
<1>1. "idle" \in PCs  BY DEF PCs, Ready
<1>2. queue \in Seq(Job) /\ Len(queue) <= Capacity
  BY BoundAssumption DEF Init
<1>3. groups \in [Groups -> AgentGroup \cup {Nil}]
  BY InputAssumption DEF Init
<1>4. faults \in 0 .. MaxFaults /\ restarts \in 0 .. MaxRestarts
  BY BoundAssumption DEF Init
<1>5. scan \in [Handlers -> Seq(Users)] /\ attempts \in [Ids -> Seq(Attempt)]
  BY DEF Init
<1>6. /\ requests \in [Ids -> Request \cup {Nil}]
      /\ audits \in [Ids -> SUBSET AuditAction]
      /\ pc \in [Handlers -> PCs]
      /\ task \in [Handlers -> Task \cup {Nil}]
  BY <1>1 DEF Init
<1>7. TypeOK  BY <1>2, <1>3, <1>4, <1>5, <1>6 DEF Init, TypeOK
<1>8. TaskInv  BY DEF Init, TaskInv, TaskOK, Ready
<1>. QED  BY <1>7, <1>8

LEMMA TypeStep ==
  ASSUME TypeOK, TaskInv, [Next]_vars PROVE TypeOK' /\ TaskInv'
<1>1. CASE UNCHANGED vars  BY <1>1 DEF vars, TypeOK, TaskInv, TaskOK
<1>2. CASE Next
  BY <1>2, CreateTypes, ProcessTypes, ChangeTypes, EnvironmentTypes
     DEF Next, Call
<1>. QED  BY <1>1, <1>2

\* Every variable keeps its type: the queue its capacity, the faults and the
\* restarts their bounds.
THEOREM TypeCorrect == Spec => []TypeOK
<1>1. Init => TypeOK /\ TaskInv  BY InitTypes
<1>2. TypeOK /\ TaskInv /\ [Next]_vars => (TypeOK /\ TaskInv)'  BY TypeStep
<1>. QED  BY <1>1, <1>2, PTL DEF Spec

-----------------------------------------------------------------------------
(***************************************************************************)
(* The mutex and the life of a job.                                        *)
(***************************************************************************)

LEMMA MutexFrame ==
  ASSUME MutexHeld, NEW h \in Handlers, OthersStay(h), mu' = mu,
         pc'[h] \in Creating <=> pc[h] \in Creating
  PROVE  MutexHeld'
BY DEF MutexHeld, OthersStay

\* The holder leaves the critical section and frees the mutex.
LEMMA MutexFreed ==
  ASSUME MutexHeld, NEW h \in Handlers, OthersStay(h), mu' = Nil,
         pc[h] \in Creating, pc'[h] \notin Creating
  PROVE  MutexHeld'
BY NilAssumption DEF MutexHeld, OthersStay

\* While one handler is in the critical section no other is.
LEMMA Alone ==
  ASSUME MutexHeld, NEW h \in Handlers, pc[h] \in Creating
  PROVE  \A k \in Handlers \ {h} : pc[k] \notin Creating
BY DEF MutexHeld

\* The places of a create call that RecordInv and FreshInv speak about lie
\* in the critical section.
LEMMA Places ==
  /\ Fresh \subseteq Creating
  /\ Tentative \cup {"put", "created"} \subseteq Creating
  /\ Creating \cap Carrying = {}
  /\ Creating \cap (Ready \cup {"check", "receive", "update", "changed"}) = {}
  /\ Carrying \cap (Ready \cup {"check", "receive", "update", "changed"}) = {}
  /\ {"put", "created", "dispatched"} \cap (Ready \cup Tentative \cup Dispatching) = {}
  /\ "put" \in Fresh /\ "created" \notin Fresh
  /\ "dispatched" \in Carrying /\ "put" # "created"
BY DEF Fresh, Creating, Tentative, Carrying, Dispatching, Ready

\* Every request a handler or the queue speaks of is a request id.
IdsKnown ==
  /\ \A k \in Handlers : pc[k] \notin Ready \cup {"receive"} => task[k].id \in Ids
  /\ \A k \in Handlers : pc[k] \in Creating \cup Carrying => task[k].id \in Ids
  /\ \A i \in 1 .. Len(queue) : queue[i].id \in Ids

LEMMA IdTypes ==
  /\ TypeOK /\ TaskInv => IdsKnown
  /\ TypeOK' /\ TaskInv' => IdsKnown'
<1>1. ASSUME TypeOK, TaskInv PROVE IdsKnown
  <2>1. \A k \in Handlers : pc[k] \notin Ready \cup {"receive"} => task[k].id \in Ids
    BY <1>1 DEF TaskInv, TaskOK, Task
  <2>2. \A i \in 1 .. Len(queue) : queue[i] \in Job  BY <1>1 DEF TypeOK
  <2>. QED  BY <2>1, <2>2, Places DEF Job, IdsKnown
<1>2. ASSUME TypeOK', TaskInv' PROVE IdsKnown'
  <2>1. \A k \in Handlers : pc'[k] \notin Ready \cup {"receive"} => task'[k].id \in Ids
    BY <1>2 DEF TaskInv, TaskOK, Task
  <2>2. \A i \in 1 .. Len(queue') : queue'[i] \in Job  BY <1>2 DEF TypeOK
  <2>. QED  BY <2>1, <2>2, Places DEF Job, IdsKnown
<1>. QED  BY <1>1, <1>2

\* A step that neither stores nor deletes a request, leaves queue, attempts
\* and outcomes alone, and gives its handler no new duty, cannot break the
\* invariant.
LEMMA QuietStep ==
  ASSUME CoreInv, NEW h \in Handlers, OthersStay(h),
         \A r \in Ids : requests'[r] = Nil <=> requests[r] = Nil,
         \A r \in Ids : audits'[r] \cap Outcomes = audits[r] \cap Outcomes,
         UNCHANGED <<attempts, queue>>,
         IdsKnown, IdsKnown',
         pc'[h] \notin {"put", "created", "dispatched"},
         pc'[h] \in Tentative => pc[h] \in Tentative /\ task'[h].id = task[h].id,
         pc'[h] \in Dispatching => pc[h] \in Dispatching /\ task'[h].id = task[h].id
  PROVE  CoreInv'
<1>1. \A r \in Ids : "dispatch_failed" \in audits'[r] <=> "dispatch_failed" \in audits[r]
  BY DEF Outcomes
<1>2. \A r \in Ids : "dispatched" \in audits'[r] <=> "dispatched" \in audits[r]
  BY DEF Outcomes
<1>3. RecordInv'
  BY Places DEF CoreInv, RecordInv, OthersStay, IdsKnown
<1>4. QueueInv'  BY <1>1 DEF CoreInv, QueueInv, IdsKnown
<1>5. CarryInv'
  BY <1>1, Places DEF CoreInv, CarryInv, OthersStay, Carrying, IdsKnown
<1>6. QueueDistinct'  BY DEF CoreInv, QueueDistinct
<1>7. CarryDistinct'  BY DEF CoreInv, CarryDistinct, OthersStay, Carrying
<1>8. QueueOrCarry'  BY DEF CoreInv, QueueOrCarry, OthersStay, Carrying
<1>9. FreshInv'
  BY Places DEF CoreInv, FreshInv, OthersStay, Carrying, Fresh, IdsKnown
<1>10. AbsentInv'  BY DEF CoreInv, AbsentInv
<1>11. DispatchedInv'  BY <1>1, <1>2 DEF CoreInv, DispatchedInv
<1>12. AtMostOneDispatch'  BY DEF CoreInv, AtMostOneDispatch
<1>. QED
  BY <1>3, <1>4, <1>5, <1>6, <1>7, <1>8, <1>9, <1>10, <1>11, <1>12 DEF CoreInv

\* Handler h goes on with the request it has, or stays without one.
LEMMA QuietMove ==
  ASSUME TypeOK, TaskInv, TypeOK', TaskInv', MutexHeld, CoreInv,
         NEW h \in Handlers, OthersStay(h), mu' = mu,
         \A r \in Ids : requests'[r] = Nil <=> requests[r] = Nil,
         UNCHANGED <<attempts, audits, queue>>,
         \/ /\ pc'[h] \in Ready \cup {"check", "receive", "update", "changed"}
            /\ pc[h] \notin Creating
         \/ /\ pc[h] \in Tentative /\ pc'[h] \in Tentative
            /\ task'[h].id = task[h].id
         \/ /\ pc[h] \in Dispatching /\ pc'[h] \in Dispatching
            /\ task'[h].id = task[h].id
  PROVE  MutexHeld' /\ CoreInv'
<1>1. Dispatching \cap Creating = {} /\ Tentative \cap Dispatching = {}
  BY DEF Creating, Tentative, Dispatching
<1>2. MutexHeld'  BY <1>1, MutexFrame, Places
<1>3. /\ pc'[h] \notin {"put", "created", "dispatched"}
      /\ pc'[h] \in Tentative => pc[h] \in Tentative /\ task'[h].id = task[h].id
      /\ pc'[h] \in Dispatching => pc[h] \in Dispatching /\ task'[h].id = task[h].id
  BY <1>1, Places DEF Carrying
<1>4. \A r \in Ids : audits'[r] \cap Outcomes = audits[r] \cap Outcomes
  OBVIOUS
<1>5. CoreInv'  BY <1>3, <1>4, IdTypes, QuietStep
<1>. QED  BY <1>2, <1>5

\* Handler h leaves its call; outside the critical section it held no mutex.
LEMMA QuietReturn ==
  ASSUME TypeOK, TaskInv, TypeOK', TaskInv', MutexHeld, CoreInv,
         NEW h \in Handlers, NEW outcome \in Ready, Return(h, outcome),
         \/ pc[h] \in Creating /\ mu' = Nil
         \/ pc[h] \notin Creating /\ mu' = mu,
         \A r \in Ids : requests'[r] = Nil <=> requests[r] = Nil,
         \A r \in Ids : audits'[r] \cap Outcomes = audits[r] \cap Outcomes,
         UNCHANGED <<attempts, queue>>
  PROVE  MutexHeld' /\ CoreInv'
<1>1. OthersStay(h) /\ pc'[h] \in Ready  BY Returned
<1>2. MutexHeld'  BY <1>1, MutexFrame, MutexFreed, Places
<1>3. pc'[h] \notin {"put", "created", "dispatched"} \cup Tentative \cup Dispatching
  BY <1>1, Places DEF Carrying
<1>4. CoreInv'  BY <1>1, <1>3, IdTypes, QuietStep
<1>. QED  BY <1>2, <1>4

-----------------------------------------------------------------------------
(***************************************************************************)
(* One lemma for each step that stores, deletes, queues, takes or records. *)
(***************************************************************************)

\* A request that is not stored has no past and no job.
LEMMA TakeMutex ==
  ASSUME JobInv, TypeOK', TaskInv', NEW h \in Handlers, CheckExists(h),
         requests[task[h].id] = Nil, mu' = h, Goto(h, "put"),
         UNCHANGED <<task, scan>>
  PROVE  MutexHeld' /\ CoreInv'
<1>. USE DEF JobInv
<1>. USE DEF store, channel
<1>1. UNCHANGED <<requests, attempts, audits, queue>> /\ mu = Nil /\ pc[h] = "check"
  BY DEF CheckExists, MutexFree
<1>2. "put" \in PCs  BY DEF PCs, Creating
<1>3. pc'[h] = "put" /\ OthersStay(h)  BY <1>2, MovedAlone
<1>4. \A k \in Handlers : pc[k] \notin Creating
  BY <1>1, NilAssumption DEF MutexHeld
<1>5. MutexHeld'  BY <1>3, <1>4, Places DEF MutexHeld, OthersStay
<1>6. task[h].id \in Ids /\ IdsKnown /\ IdsKnown'
  BY <1>1, IdTypes, Places DEF IdsKnown, Ready
<1>7. RecordInv'
  BY <1>1, <1>3, <1>4, Places DEF RecordInv, OthersStay
<1>8. QueueInv' /\ QueueDistinct' /\ AbsentInv' /\ DispatchedInv' /\ AtMostOneDispatch'
  BY <1>1 DEF CoreInv, QueueInv, QueueDistinct, AbsentInv, DispatchedInv,
              AtMostOneDispatch
<1>9. CarryInv' /\ CarryDistinct' /\ QueueOrCarry'
  BY <1>1, <1>3, Places
     DEF CoreInv, CarryInv, CarryDistinct, QueueOrCarry, OthersStay
<1>10. FreshInv'
  <2>1. /\ attempts[task[h].id] = << >>
        /\ audits[task[h].id] \cap Outcomes = {}
    BY <1>6 DEF CoreInv, AbsentInv
  <2>2. \A i \in 1 .. Len(queue) : queue[i].id # task[h].id
    BY DEF CoreInv, QueueInv
  <2>3. \A k \in Handlers : pc[k] \in Carrying => task[k].id # task[h].id
    BY DEF CoreInv, CarryInv
  <2>4. \A k \in Handlers : pc'[k] \in Carrying => pc[k] \in Carrying
    BY <1>3, Places DEF OthersStay
  <2>5. \A k \in Handlers \ {h} : pc'[k] \notin Fresh
    BY <1>3, <1>4, Places DEF OthersStay
  <2>. QED  BY <1>1, <2>1, <2>2, <2>3, <2>4, <2>5 DEF FreshInv
<1>. QED  BY <1>5, <1>7, <1>8, <1>9, <1>10 DEF CoreInv

LEMMA StoreRequest ==
  ASSUME JobInv, TypeOK', TaskInv', NEW h \in Handlers, PutRequest(h),
         requests' = [requests EXCEPT ![task[h].id] = Record(task[h])],
         Goto(h, "group"), UNCHANGED <<mu, task, scan, faults>>
  PROVE  MutexHeld' /\ CoreInv'
<1>. USE DEF JobInv, channel
<1>1. /\ UNCHANGED <<attempts, audits, queue>> /\ pc[h] = "put"
      /\ {"put", "group"} \subseteq Creating /\ "group" \in Tentative
      /\ "group" \in PCs
  BY DEF PutRequest, Creating, Tentative, PCs
<1>2. pc'[h] = "group" /\ OthersStay(h)  BY <1>1, MovedAlone
<1>3. \A k \in Handlers \ {h} : pc[k] \notin Creating  BY <1>1, Alone
<1>4. MutexHeld'  BY <1>1, <1>2, MutexFrame
<1>5. IdsKnown /\ task[h] \in Task
  BY <1>1, IdTypes DEF Ready, TaskInv, TaskOK
<1>6. /\ requests'[task[h].id] # Nil
      /\ \A r \in Ids : requests[r] # Nil => requests'[r] # Nil
  BY <1>5, RecordType, NilIsNoRecord DEF TypeOK, Task
<1>7. RecordInv'
  BY <1>1, <1>2, <1>3, <1>6, Places DEF RecordInv, OthersStay
<1>8. QueueInv' /\ QueueDistinct'
  BY <1>1, <1>5, <1>6 DEF CoreInv, QueueInv, QueueDistinct, IdsKnown
<1>9. AbsentInv' /\ DispatchedInv' /\ AtMostOneDispatch'
  BY <1>1, <1>6 DEF CoreInv, AbsentInv, DispatchedInv, AtMostOneDispatch
<1>10. pc'[h] \notin Carrying  BY <1>1, <1>2, Places
<1>11. CarryInv' /\ CarryDistinct' /\ QueueOrCarry'
  BY <1>1, <1>2, <1>5, <1>6, <1>10
     DEF CoreInv, CarryInv, CarryDistinct, QueueOrCarry, OthersStay, IdsKnown
<1>12. FreshInv'
  BY <1>1, <1>2, <1>3, <1>10, Places DEF CoreInv, FreshInv, OthersStay
<1>. QED  BY <1>4, <1>7, <1>8, <1>9, <1>11, <1>12 DEF CoreInv

\* A fresh request gets its one job.
LEMMA SendJob ==
  ASSUME JobInv, TypeOK', TaskInv', NEW h \in Handlers, Send(h)
  PROVE  MutexHeld' /\ CoreInv'
<1>. USE DEF JobInv, store
<1>. DEFINE r == task[h].id
<1>1. /\ UNCHANGED <<requests, attempts, audits, task, scan, mu>>
      /\ pc[h] = "send" /\ {"send", "created"} \subseteq Creating
      /\ "send" \in Tentative /\ "created" \in PCs
      /\ Goto(h, "created")
  BY DEF Send, Creating, Tentative, PCs
<1>2. pc'[h] = "created" /\ OthersStay(h)  BY <1>1, MovedAlone
<1>3. \A k \in Handlers \ {h} : pc[k] \notin Creating  BY <1>1, Alone
<1>4. MutexHeld'  BY <1>1, <1>2, MutexFrame
<1>5. /\ Len(queue) \in Nat /\ Len(queue') = Len(queue) + 1
      /\ \A i \in 1 .. Len(queue) : queue'[i] = queue[i]
      /\ queue'[Len(queue) + 1].id = r
  BY DEF Send, TypeOK
<1>6. requests[r] # Nil  BY <1>1 DEF CoreInv, RecordInv
<1>7. pc[h] \in Fresh  BY <1>1 DEF Fresh
<1>8. /\ attempts[r] = << >> /\ audits[r] \cap Outcomes = {}
      /\ \A i \in 1 .. Len(queue) : queue[i].id # r
      /\ \A k \in Handlers : pc[k] \in Carrying => task[k].id # r
  BY <1>7 DEF CoreInv, FreshInv
<1>9. "dispatch_failed" \notin audits[r]  BY <1>8 DEF Outcomes
<1>10. RecordInv'
  BY <1>1, <1>2, <1>3, <1>6, Places DEF RecordInv, OthersStay
<1>11. QueueInv'
  <2>. SUFFICES ASSUME NEW i \in 1 .. Len(queue')
                PROVE  /\ requests[queue'[i].id] # Nil
                       /\ attempts[queue'[i].id] = << >>
                       /\ "dispatch_failed" \notin audits[queue'[i].id]
    BY <1>1 DEF QueueInv
  <2>1. CASE i \in 1 .. Len(queue)
    BY <1>5, <2>1 DEF CoreInv, QueueInv
  <2>2. CASE i = Len(queue) + 1
    BY <1>5, <1>6, <1>8, <1>9, <2>2
  <2>. QED  BY <1>5, <2>1, <2>2
<1>12. QueueDistinct'
  <2>. SUFFICES ASSUME NEW i \in 1 .. Len(queue'), NEW j \in 1 .. Len(queue'),
                       queue'[i].id = queue'[j].id
                PROVE  i = j
    BY DEF QueueDistinct
  <2>. HIDE DEF r
  <2>1. CASE i \in 1 .. Len(queue) /\ j \in 1 .. Len(queue)
    BY <1>5, <2>1 DEF CoreInv, QueueDistinct
  <2>2. CASE i = Len(queue) + 1 \/ j = Len(queue) + 1
    BY <1>5, <1>8, <2>2
  <2>. QED  BY <1>5, <2>1, <2>2
<1>13. AbsentInv' /\ DispatchedInv' /\ AtMostOneDispatch'
  BY <1>1 DEF CoreInv, AbsentInv, DispatchedInv, AtMostOneDispatch
<1>14. pc'[h] \notin Carrying  BY <1>1, <1>2, Places
<1>15. CarryInv' /\ CarryDistinct'
  BY <1>1, <1>2, <1>14 DEF CoreInv, CarryInv, CarryDistinct, OthersStay
<1>16. QueueOrCarry'
  <2>. SUFFICES ASSUME NEW k \in Handlers, NEW i \in 1 .. Len(queue'),
                       pc'[k] \in Carrying
                PROVE  queue'[i].id # task[k].id
    BY <1>1 DEF QueueOrCarry
  <2>1. k # h /\ pc[k] \in Carrying  BY <1>2, <1>14 DEF OthersStay
  <2>2. CASE i \in 1 .. Len(queue)
    BY <1>5, <2>1, <2>2 DEF CoreInv, QueueOrCarry
  <2>3. CASE i = Len(queue) + 1  BY <1>5, <1>8, <2>1, <2>3
  <2>. QED  BY <1>5, <2>2, <2>3
<1>17. FreshInv'
  BY <1>2, <1>3, Places DEF FreshInv, OthersStay
<1>. QED
  BY <1>4, <1>10, <1>11, <1>12, <1>13, <1>15, <1>16, <1>17 DEF CoreInv

\* What is withdrawn is fresh: no job loses its request.
LEMMA Undo ==
  ASSUME JobInv, TypeOK', TaskInv', NEW h \in Handlers, UndoRequest(h)
  PROVE  MutexHeld' /\ CoreInv'
<1>. USE DEF JobInv, channel
<1>. DEFINE r == task[h].id
<1>1. /\ UNCHANGED <<attempts, audits, queue>>
      /\ pc[h] = "undo" /\ "undo" \in Creating /\ "undo" \in Tentative
      /\ Return(h, "error") /\ mu' = Nil /\ "error" \in Ready
  BY DEF UndoRequest, ReturnFromCreate, Creating, Tentative, Ready
<1>2. pc'[h] = "error" /\ OthersStay(h)  BY <1>1, Returned
<1>3. pc'[h] \notin Creating \cup Carrying \cup Fresh  BY <1>1, <1>2, Places
<1>4. \A k \in Handlers \ {h} : pc[k] \notin Creating  BY <1>1, Alone
<1>5. MutexHeld'  BY <1>1, <1>2, <1>3, MutexFreed
<1>6. IdsKnown /\ r \in Ids
  BY <1>1, IdTypes DEF Ready, IdsKnown
<1>7. \A q \in Ids \ {r} : requests'[q] = requests[q]
  BY DEF UndoRequest, TypeOK
<1>8. pc[h] \in Fresh  BY <1>1 DEF Fresh
<1>9. /\ attempts[r] = << >> /\ audits[r] \cap Outcomes = {}
      /\ \A i \in 1 .. Len(queue) : queue[i].id # r
      /\ \A k \in Handlers : pc[k] \in Carrying => task[k].id # r
  BY <1>8 DEF CoreInv, FreshInv
<1>. HIDE DEF r
<1>10. RecordInv'
  BY <1>2, <1>3, <1>4, Places DEF RecordInv, OthersStay
<1>11. QueueInv' /\ QueueDistinct'
  BY <1>1, <1>6, <1>7, <1>9 DEF CoreInv, QueueInv, QueueDistinct, IdsKnown
<1>12. CarryInv' /\ CarryDistinct' /\ QueueOrCarry'
  <2>1. \A k \in Handlers : pc'[k] \in Carrying =>
          pc[k] = pc'[k] /\ task'[k] = task[k] /\ task[k].id \in Ids \ {r}
    BY <1>2, <1>3, <1>6, <1>9 DEF OthersStay, IdsKnown
  <2>2. CarryInv'  BY <1>1, <1>7, <2>1 DEF CoreInv, CarryInv
  <2>3. CarryDistinct'  BY <2>1 DEF CoreInv, CarryDistinct
  <2>4. QueueOrCarry'  BY <1>1, <2>1 DEF CoreInv, QueueOrCarry
  <2>. QED  BY <2>2, <2>3, <2>4
<1>13. FreshInv'  BY <1>2, <1>3, <1>4, Places DEF FreshInv, OthersStay
<1>14. AbsentInv'  BY <1>1, <1>6, <1>7, <1>9 DEF CoreInv, AbsentInv
<1>15. DispatchedInv' /\ AtMostOneDispatch'
  BY <1>1 DEF CoreInv, DispatchedInv, AtMostOneDispatch
<1>. QED
  BY <1>5, <1>10, <1>11, <1>12, <1>13, <1>14, <1>15 DEF CoreInv

\* Handler h returns with an outcome on the trail of request r: nobody may
\* still withdraw r, a failure ends its last job, a dispatch has its attempt.
LEMMA OutcomeRecorded ==
  ASSUME JobInv, IdsKnown, NEW h \in Handlers, NEW outcome \in Ready,
         Return(h, outcome), NEW r \in Ids, NEW action \in Outcomes,
         Audit(r, action), UNCHANGED <<requests, attempts, queue>>,
         requests[r] # Nil,
         \A k \in Handlers \ {h} : pc[k] \in Fresh => task[k].id # r,
         action = "dispatch_failed" =>
           /\ \A i \in 1 .. Len(queue) : queue[i].id # r
           /\ \A k \in Handlers \ {h} : pc[k] \in Carrying => task[k].id # r
           /\ "dispatched" \notin audits[r],
         action = "dispatched" =>
           attempts[r] # << >> /\ "dispatch_failed" \notin audits[r]
  PROVE  CoreInv'
<1>. USE DEF JobInv
<1>1. pc'[h] = outcome /\ OthersStay(h)  BY Returned
<1>2. pc'[h] \notin Creating \cup Carrying \cup Fresh \cup {"put", "created"}
  BY <1>1, Places
<1>3. /\ audits'[r] = audits[r] \cup {action}
      /\ \A q \in Ids \ {r} : audits'[q] = audits[q]
  BY DEF Audit, TypeOK
<1>4. /\ \A q \in Ids : "dispatch_failed" \in audits'[q] <=>
           "dispatch_failed" \in audits[q] \/ (q = r /\ action = "dispatch_failed")
      /\ \A q \in Ids : "dispatched" \in audits'[q] <=>
           "dispatched" \in audits[q] \/ (q = r /\ action = "dispatched")
  BY <1>3
<1>5. \A k \in Handlers \ {h} : pc'[k] = pc[k] /\ task'[k] = task[k]
  BY <1>1 DEF OthersStay
<1>6. RecordInv'
  BY <1>2, <1>5, Places DEF CoreInv, RecordInv
<1>7. QueueInv'  BY <1>4 DEF CoreInv, QueueInv, IdsKnown
<1>8. CarryInv'  BY <1>2, <1>4, <1>5 DEF CoreInv, CarryInv, IdsKnown
<1>9. QueueDistinct' /\ CarryDistinct' /\ QueueOrCarry'
  BY <1>2, <1>5 DEF CoreInv, QueueDistinct, CarryDistinct, QueueOrCarry
<1>10. FreshInv'
  <2>. SUFFICES ASSUME NEW k \in Handlers, pc'[k] \in Fresh
                PROVE  /\ attempts[task[k].id] = << >>
                       /\ audits'[task[k].id] \cap Outcomes = {}
                       /\ \A i \in 1 .. Len(queue) : queue[i].id # task[k].id
                       /\ \A j \in Handlers : pc'[j] \in Carrying =>
                            task'[j].id # task[k].id
    BY <1>2, <1>5 DEF FreshInv
  <2>1. k # h /\ pc[k] \in Fresh /\ task[k].id \in Ids \ {r}
    BY <1>2, <1>5, Places DEF IdsKnown
  <2>2. \A j \in Handlers : pc'[j] \in Carrying => pc[j] \in Carrying /\ task'[j] = task[j]
    BY <1>2, <1>5
  <2>. QED  BY <1>3, <2>1, <2>2 DEF CoreInv, FreshInv
<1>11. AbsentInv'  BY <1>3 DEF CoreInv, AbsentInv
<1>12. DispatchedInv'  BY <1>4 DEF CoreInv, DispatchedInv
<1>13. AtMostOneDispatch'  BY DEF CoreInv, AtMostOneDispatch
<1>. QED
  BY <1>6, <1>7, <1>8, <1>9, <1>10, <1>11, <1>12, <1>13 DEF CoreInv

LEMMA CreationRecorded ==
  ASSUME JobInv, TypeOK', TaskInv', NEW h \in Handlers, RecordCreated(h)
  PROVE  MutexHeld' /\ CoreInv'
<1>. USE DEF JobInv, channel
<1>1. /\ UNCHANGED <<requests, attempts, queue>>
      /\ pc[h] = "created" /\ "created" \in Creating
      /\ {"ok", "error"} \subseteq Ready
  BY DEF RecordCreated, Creating, Ready
<1>2. IdsKnown /\ task[h].id \in Ids  BY <1>1, IdTypes DEF Ready, IdsKnown
<1>3. CASE Audit(task[h].id, "created") /\ ReturnFromCreate(h, "ok")
  <2>1. OthersStay(h) /\ pc'[h] = "ok" /\ mu' = Nil /\ Return(h, "ok")
    BY <1>1, <1>3, Returned DEF ReturnFromCreate
  <2>2. MutexHeld'  BY <1>1, <2>1, MutexFreed, Places
  <2>3. \A k \in Handlers \ {h} : pc[k] \notin Fresh
    BY <1>1, Alone, Places
  <2>4. requests[task[h].id] # Nil  BY <1>1 DEF CoreInv, RecordInv
  <2>5. "created" \in Outcomes  BY DEF Outcomes
  <2>6. CoreInv'
    BY <1>1, <1>2, <1>3, <2>1, <2>3, <2>4, <2>5, OutcomeRecorded
  <2>. QED  BY <2>2, <2>6
<1>4. CASE ReturnFromCreate(h, "error") /\ UNCHANGED audits
  BY <1>1, <1>4, QuietReturn DEF ReturnFromCreate
<1>. QED  BY <1>3, <1>4 DEF RecordCreated

\* The oldest job changes hands; no other is for its request.
LEMMA ReceiveJob ==
  ASSUME JobInv, TypeOK', TaskInv', NEW h \in Handlers, Receive(h)
  PROVE  MutexHeld' /\ CoreInv'
<1>. USE DEF JobInv, store
<1>1. /\ UNCHANGED <<requests, attempts, audits, mu>>
      /\ pc[h] = "receive" /\ "load" \in Carrying /\ "load" \in PCs
      /\ "load" \notin Creating \cup Fresh \cup {"dispatched"}
  BY DEF Receive, Carrying, Dispatching, PCs, Creating, Fresh, Tentative
<1>2. pc'[h] = "load" /\ OthersStay(h)
  BY <1>1, Moved DEF Receive, OthersStay, TypeOK
<1>3. MutexHeld'  BY <1>1, <1>2, MutexFrame, Places
<1>4. queue \in Seq(Job) /\ queue # << >> /\ queue' = Tail(queue)
  BY DEF Receive, TypeOK
<1>5. /\ Len(queue) \in Nat \ {0} /\ Len(queue') = Len(queue) - 1
      /\ Head(queue) = queue[1]
      /\ \A i \in 1 .. Len(queue') : queue'[i] = queue[i + 1]
  BY <1>4
<1>6. task'[h].id = queue[1].id  BY <1>5 DEF Receive, TypeOK
<1>7. \A i \in 1 .. Len(queue') :
        i + 1 \in 2 .. Len(queue) /\ queue'[i].id # queue[1].id
  BY <1>5 DEF CoreInv, QueueDistinct
<1>8. 1 \in 1 .. Len(queue)  BY <1>5
<1>. HIDE DEF JobInv
<1>9. CoreInv  BY DEF JobInv
<1>10. \A k \in Handlers \ {h} : pc'[k] = pc[k] /\ task'[k] = task[k]
  BY <1>2 DEF OthersStay
<1>11. pc[h] \notin Creating \cup Carrying  BY <1>1, Places
<1>12. RecordInv'
  BY <1>1, <1>2, <1>9, <1>10, Places DEF CoreInv, RecordInv
<1>13. QueueInv'
  <2> SUFFICES ASSUME NEW i \in 1 .. Len(queue')
               PROVE  /\ requests[queue[i + 1].id] # Nil
                      /\ attempts[queue[i + 1].id] = << >>
                      /\ "dispatch_failed" \notin audits[queue[i + 1].id]
    BY <1>1, <1>5 DEF QueueInv
  <2>1. i + 1 \in 1 .. Len(queue)  BY <1>5
  <2> QED  BY <2>1, <1>9 DEF CoreInv, QueueInv
<1>14. CarryInv'
  BY <1>1, <1>2, <1>6, <1>8, <1>9, <1>10 DEF CoreInv, CarryInv, QueueInv
<1>15. QueueDistinct'
  BY <1>5, <1>7, <1>9 DEF CoreInv, QueueDistinct
<1>16. CarryDistinct'
  <2>1. \A k \in Handlers \ {h} : pc'[k] \in Carrying => task'[k].id # task'[h].id
    BY <1>6, <1>8, <1>9, <1>10 DEF CoreInv, QueueOrCarry
  <2>. QED  BY <1>9, <1>10, <2>1 DEF CoreInv, CarryDistinct
<1>17. QueueOrCarry'
  BY <1>2, <1>5, <1>6, <1>7, <1>9, <1>10 DEF CoreInv, QueueOrCarry
<1>18. FreshInv'
  <2>. SUFFICES ASSUME NEW k \in Handlers, pc'[k] \in Fresh
                PROVE  /\ attempts[task'[k].id] = << >>
                       /\ audits[task'[k].id] \cap Outcomes = {}
                       /\ \A i \in 1 .. Len(queue') : queue'[i].id # task'[k].id
                       /\ \A j \in Handlers : pc'[j] \in Carrying =>
                            task'[j].id # task'[k].id
    BY <1>1 DEF FreshInv
  <2>1. k # h /\ pc[k] \in Fresh /\ task'[k] = task[k]
    BY <1>1, <1>2, <1>10
  <2>2. \A i \in 1 .. Len(queue) : queue[i].id # task[k].id
    BY <1>9, <2>1 DEF CoreInv, FreshInv
  <2>3. ASSUME NEW i \in 1 .. Len(queue') PROVE queue'[i].id # task[k].id
    <3>1. i + 1 \in 1 .. Len(queue) /\ queue'[i] = queue[i + 1]  BY <1>5
    <3>. QED  BY <2>2, <3>1
  <2>4. task'[h].id # task[k].id  BY <1>6, <1>8, <2>2
  <2>5. \A j \in Handlers \ {h} : pc'[j] \in Carrying => task'[j].id # task[k].id
    BY <1>9, <1>10, <2>1 DEF CoreInv, FreshInv
  <2>. QED  BY <1>9, <2>1, <2>3, <2>4, <2>5 DEF CoreInv, FreshInv
<1>19. AbsentInv' /\ DispatchedInv' /\ AtMostOneDispatch'
  BY <1>1, <1>9 DEF CoreInv, AbsentInv, DispatchedInv, AtMostOneDispatch
<1>. QED
  BY <1>3, <1>12, <1>13, <1>14, <1>15, <1>16, <1>17, <1>18, <1>19 DEF CoreInv

LEMMA FailureRecorded ==
  ASSUME JobInv, TypeOK', TaskInv', NEW h \in Handlers, RecordFailure(h)
  PROVE  MutexHeld' /\ CoreInv'
<1>. USE DEF JobInv, channel
<1>. DEFINE r == task[h].id
<1>1. /\ UNCHANGED <<requests, attempts, queue, mu>>
      /\ pc[h] = "failed" /\ "failed" \in Carrying /\ "failed" # "dispatched"
      /\ Return(h, "error") /\ "error" \in Ready
  BY DEF RecordFailure, Carrying, Dispatching, Ready
<1>2. IdsKnown /\ r \in Ids  BY <1>1, IdTypes DEF Ready, IdsKnown
<1>3. pc[h] \notin Creating  BY <1>1, Places
<1>4. CASE Audit(r, "dispatch_failed")
  <2>1. OthersStay(h) /\ pc'[h] = "error"  BY <1>1, Returned
  <2>2. MutexHeld'  BY <1>1, <1>3, <2>1, MutexFrame, Places
  <2>3. requests[r] # Nil /\ attempts[r] = << >>
    BY <1>1 DEF CoreInv, CarryInv
  <2>4. \A k \in Handlers : pc[k] \in Fresh => task[k].id # r
    BY <1>1 DEF CoreInv, FreshInv
  <2>5. \A i \in 1 .. Len(queue) : queue[i].id # r
    BY <1>1 DEF CoreInv, QueueOrCarry
  <2>6. \A k \in Handlers \ {h} : pc[k] \in Carrying => task[k].id # r
    BY <1>1 DEF CoreInv, CarryDistinct
  <2>7. "dispatched" \notin audits[r]
    BY <1>2, <2>3 DEF CoreInv, DispatchedInv
  <2>8. "dispatch_failed" \in Outcomes  BY DEF Outcomes
  <2>9. CoreInv'
    BY <1>1, <1>2, <1>4, <2>3, <2>4, <2>5, <2>6, <2>7, <2>8, OutcomeRecorded
  <2>. QED  BY <2>2, <2>9
<1>5. CASE UNCHANGED audits
  BY <1>1, <1>3, <1>5, QuietReturn
<1>. QED  BY <1>4, <1>5 DEF RecordFailure

LEMMA DispatchRecorded ==
  ASSUME JobInv, TypeOK', TaskInv', NEW h \in Handlers, RecordDispatched(h)
  PROVE  MutexHeld' /\ CoreInv'
<1>. USE DEF JobInv, channel
<1>. DEFINE r == task[h].id
<1>1. /\ UNCHANGED <<requests, attempts, queue, mu>>
      /\ pc[h] = "dispatched" /\ "dispatched" \in Carrying
      /\ {"ok", "error"} \subseteq Ready
  BY DEF RecordDispatched, Carrying, Ready
<1>2. IdsKnown /\ r \in Ids  BY <1>1, IdTypes DEF Ready, IdsKnown
<1>3. pc[h] \notin Creating  BY <1>1, Places
<1>4. CASE Audit(r, "dispatched") /\ Return(h, "ok")
  <2>1. OthersStay(h) /\ pc'[h] = "ok"  BY <1>1, <1>4, Returned
  <2>2. MutexHeld'  BY <1>1, <1>3, <2>1, MutexFrame, Places
  <2>3. /\ requests[r] # Nil /\ attempts[r] # << >>
        /\ "dispatch_failed" \notin audits[r]
    BY <1>1 DEF CoreInv, CarryInv
  <2>4. \A k \in Handlers : pc[k] \in Fresh => task[k].id # r
    BY <1>1 DEF CoreInv, FreshInv
  <2>5. "dispatched" \in Outcomes /\ "dispatched" # "dispatch_failed"
    BY DEF Outcomes
  <2>6. CoreInv'
    BY <1>1, <1>2, <1>4, <2>3, <2>4, <2>5, OutcomeRecorded
  <2>. QED  BY <2>2, <2>6
<1>5. CASE Return(h, "error") /\ UNCHANGED audits
  BY <1>1, <1>3, <1>5, QuietReturn
<1>. QED  BY <1>4, <1>5 DEF RecordDispatched

\* The first attempt of its request.
LEMMA AttemptSaved ==
  ASSUME JobInv, TypeOK', TaskInv', NEW h \in Handlers, SaveAttempt(h)
  PROVE  MutexHeld' /\ CoreInv'
<1>. USE DEF JobInv, channel
<1>. DEFINE r == task[h].id
            attempt == [group |-> task[h].group, agent |-> task[h].assignee]
<1>1. /\ UNCHANGED <<requests, audits, queue, mu>>
      /\ pc[h] = "attempt" /\ "attempt" \in Carrying /\ "attempt" # "dispatched"
      /\ "dispatched" \in Carrying /\ "dispatched" \in PCs
      /\ "dispatched" \notin Creating /\ "attempt" \notin Creating
      /\ "error" \in Ready
  BY DEF SaveAttempt, Carrying, Dispatching, PCs, Creating, Ready
<1>2. IdsKnown /\ r \in Ids  BY <1>1, IdTypes DEF Ready, IdsKnown
<1>3. CASE /\ attempts' = [attempts EXCEPT ![r] = Append(@, attempt)]
           /\ Goto(h, "dispatched")
           /\ UNCHANGED <<task, scan, faults>>
  <2>1. pc'[h] = "dispatched" /\ OthersStay(h)  BY <1>1, <1>3, MovedAlone
  <2>2. MutexHeld'  BY <1>1, <2>1, MutexFrame
  <2>3. /\ requests[r] # Nil /\ attempts[r] = << >>
        /\ "dispatch_failed" \notin audits[r]
    BY <1>1 DEF CoreInv, CarryInv
  <2>4. attempts'[r] = Append(attempts[r], attempt)
    BY <1>2, <1>3 DEF TypeOK
  <2>5. attempts'[r] = <<attempt>>  BY <2>3, <2>4
  <2>6. attempts'[r] # << >> /\ Len(attempts'[r]) = 1  BY <2>5
  <2>7. \A q \in Ids \ {r} : attempts'[q] = attempts[q]
    BY <1>3 DEF TypeOK
  <2>8. \A k \in Handlers : pc[k] \in Fresh => task[k].id # r
    BY <1>1 DEF CoreInv, FreshInv
  <2>9. \A i \in 1 .. Len(queue) : queue[i].id # r
    BY <1>1 DEF CoreInv, QueueOrCarry
  <2>10. \A k \in Handlers \ {h} : pc[k] \in Carrying => task[k].id # r
    BY <1>1 DEF CoreInv, CarryDistinct
  <2>11. /\ \A k \in Handlers \ {h} : pc'[k] = pc[k]
         /\ task' = task
    BY <1>3, <2>1 DEF OthersStay
  <2>12. pc'[h] \notin Fresh \cup Tentative \cup {"put", "created"}
    BY <2>1, Places
  <2>. HIDE DEF r, attempt
  <2>13. RecordInv'
    BY <1>1, <2>11, <2>12 DEF CoreInv, RecordInv
  <2>14. QueueInv'
    BY <1>1, <1>2, <2>7, <2>9 DEF CoreInv, QueueInv, IdsKnown
  <2>15. CarryInv'
    <3>. SUFFICES ASSUME NEW k \in Handlers, pc'[k] \in Carrying
                  PROVE  /\ requests[task[k].id] # Nil
                         /\ pc'[k] # "dispatched" => attempts'[task[k].id] = << >>
                         /\ pc'[k] = "dispatched" => attempts'[task[k].id] # << >>
                         /\ "dispatch_failed" \notin audits[task[k].id]
      BY <1>1, <2>11 DEF CarryInv
    <3>1. CASE k = h  BY <2>1, <2>3, <2>6, <3>1 DEF r
    <3>2. CASE k # h
      BY <1>2, <2>7, <2>10, <2>11, <3>2 DEF CoreInv, CarryInv, IdsKnown
    <3>. QED  BY <3>1, <3>2
  <2>16. QueueDistinct' /\ CarryDistinct' /\ QueueOrCarry'
    BY <1>1, <2>11 DEF CoreInv, QueueDistinct, CarryDistinct, QueueOrCarry
  <2>17. FreshInv'
    <3>1. \A k \in Handlers : pc'[k] \in Fresh => pc[k] \in Fresh /\ task[k].id \in Ids \ {r}
      BY <1>2, <2>8, <2>11, <2>12, Places DEF IdsKnown
    <3>2. \A k \in Handlers : pc'[k] \in Carrying => pc[k] \in Carrying
      BY <1>1, <2>11
    <3>. QED  BY <1>1, <2>7, <2>11, <3>1, <3>2 DEF CoreInv, FreshInv
  <2>18. AbsentInv'  BY <1>1, <2>3, <2>7 DEF CoreInv, AbsentInv
  <2>19. DispatchedInv'  BY <1>1, <2>3, <2>6, <2>7 DEF CoreInv, DispatchedInv
  <2>20. AtMostOneDispatch'
    <3>1. Len(attempts'[r]) <= 1  BY <2>6
    <3>2. \A q \in Ids \ {r} : Len(attempts'[q]) <= 1
      BY <2>7 DEF CoreInv, AtMostOneDispatch
    <3>. QED  BY <3>1, <3>2 DEF AtMostOneDispatch
  <2>. QED
    BY <2>2, <2>13, <2>14, <2>15, <2>16, <2>17, <2>18, <2>19, <2>20 DEF CoreInv
<1>4. CASE Return(h, "error") /\ UNCHANGED attempts
  BY <1>1, <1>4, QuietReturn
<1>. QED  BY <1>3, <1>4 DEF SaveAttempt

-----------------------------------------------------------------------------
(***************************************************************************)
(* Every step keeps the invariant.                                         *)
(***************************************************************************)

\* An update changes no more than the fields of a stored request.
LEMMA UpdateKeeps ==
  ASSUME JobInv, TypeOK', TaskInv', NEW h \in Handlers, Assign(h) \/ ChangeStatus(h)
  PROVE  MutexHeld' /\ CoreInv'
<1>. USE DEF JobInv, channel
<1>1. PICK next \in {"attempt", "changed"} :
        /\ UpdateRequestStatus(h, next)
        /\ \/ pc[h] = "assign" /\ next = "attempt"
           \/ pc[h] = "update" /\ next = "changed"
  <2>1. CASE Assign(h)  BY <2>1 DEF Assign
  <2>2. CASE ChangeStatus(h)  BY <2>2 DEF ChangeStatus
  <2>. QED  BY <2>1, <2>2
<1>2. /\ UNCHANGED <<attempts, audits, queue, mu>>
      /\ pc[h] \notin Creating /\ next \in PCs /\ "error" \in Ready
      /\ {"assign", "attempt"} \subseteq Dispatching
  BY <1>1 DEF UpdateRequestStatus, Creating, PCs, Dispatching, Ready
<1>3. task[h] \in Task /\ task[h].id \in Ids
  BY <1>1 DEF TaskInv, TaskOK, Ready, Task
<1>4. CASE /\ requests[task[h].id] # Nil
           /\ requests' = [requests EXCEPT ![task[h].id] = Record(task[h])]
           /\ Goto(h, next)
           /\ UNCHANGED <<task, scan, faults>>
  <2>1. \A r \in Ids : requests'[r] = Nil <=> requests[r] = Nil
    BY <1>3, <1>4, RecordType, NilIsNoRecord DEF TypeOK
  <2>2. pc'[h] = next /\ OthersStay(h)  BY <1>2, <1>4, MovedAlone
  <2>3. task' = task  BY <1>4
  <2>. QED  BY <1>1, <1>2, <2>1, <2>2, <2>3, QuietMove
<1>5. CASE Return(h, "error") /\ UNCHANGED requests
  BY <1>2, <1>5, QuietReturn
<1>. QED  BY <1>1, <1>4, <1>5 DEF UpdateRequestStatus

LEMMA CreateKeeps ==
  ASSUME JobInv, TypeOK', TaskInv', NEW h \in Handlers,
         \/ \E d \in Drafts : CreateCall(h, d)
         \/ CheckExists(h) \/ CreateStep(h) \/ CancelSend(h)
  PROVE  MutexHeld' /\ CoreInv'
<1>. USE DEF JobInv, store, channel
<1>1. ASSUME NEW d \in Drafts, CreateCall(h, d) PROVE MutexHeld' /\ CoreInv'
  <2>1. "check" \in PCs /\ pc[h] \in Ready  BY <1>1 DEF PCs, CreateCall
  <2>2. pc'[h] = "check" /\ OthersStay(h)
    BY <1>1, <2>1, Moved DEF CreateCall, TypeOK, OthersStay
  <2>. QED  BY <1>1, <2>1, <2>2, Places, QuietMove DEF CreateCall
<1>2. CASE CheckExists(h)
  <2>1. CASE Return(h, "error") /\ UNCHANGED mu
    <3>1. pc[h] \notin Creating /\ "error" \in Ready
      BY <1>2 DEF CheckExists, Creating, Ready
    <3>. QED  BY <1>2, <2>1, <3>1, QuietReturn DEF CheckExists
  <2>. QED  BY <1>2, <2>1, TakeMutex DEF CheckExists
<1>3. CASE PutRequest(h)
  <2>1. CASE ReturnFromCreate(h, "error") /\ UNCHANGED requests
    <3>1. pc[h] \in Creating /\ "error" \in Ready
      BY <1>3 DEF PutRequest, Creating, Ready
    <3>. QED
      BY <1>3, <2>1, <3>1, QuietReturn DEF PutRequest, ReturnFromCreate
  <2>. QED  BY <1>3, <2>1, StoreRequest DEF PutRequest
<1>4. CASE ValidateGroup(h) \/ ValidateMember(h) \/ Enqueue(h) \/ CancelSend(h)
  <2>1. PICK label \in Tentative : Goto(h, label)
    BY <1>4
       DEF ValidateGroup, ValidateMember, Enqueue, CancelSend, Tentative
  <2>2. /\ pc[h] \in Tentative /\ label \in PCs
        /\ UNCHANGED <<requests, attempts, audits, queue, mu, task>>
    BY <1>4
       DEF ValidateGroup, ValidateMember, Enqueue, CancelSend, Tentative, PCs,
           Creating
  <2>3. \A k \in Handlers \ {h} : scan'[k] = scan[k]
    BY <1>4 DEF ValidateGroup, ValidateMember, Enqueue, CancelSend, TypeOK
  <2>4. pc'[h] = label /\ OthersStay(h)
    BY <2>1, <2>2, <2>3, Moved DEF OthersStay
  <2>. QED  BY <2>2, <2>4, QuietMove
<1>. QED
  BY <1>1, <1>2, <1>3, <1>4, SendJob, Undo, CreationRecorded DEF CreateStep

LEMMA ProcessKeeps ==
  ASSUME JobInv, TypeOK', TaskInv', NEW h \in Handlers,
         ProcessCall(h) \/ Receive(h) \/ ReceiveNothing(h) \/ ProcessStep(h)
  PROVE  MutexHeld' /\ CoreInv'
<1>. USE DEF JobInv, store, channel
<1>1. CASE ProcessCall(h)
  <2>1. "receive" \in PCs /\ pc[h] \in Ready  BY <1>1 DEF PCs, ProcessCall
  <2>2. pc'[h] = "receive" /\ OthersStay(h)
    BY <1>1, <2>1, MovedAlone DEF ProcessCall
  <2>. QED  BY <1>1, <2>1, <2>2, Places, QuietMove DEF ProcessCall
<1>2. CASE ReceiveNothing(h) \/ (LoadRequest(h) /\ Return(h, "error"))
  <2>1. pc[h] \notin Creating /\ "error" \in Ready
    BY <1>2 DEF ReceiveNothing, LoadRequest, Creating, Ready
  <2>2. UNCHANGED <<requests, attempts, audits, queue, mu>> /\ Return(h, "error")
    BY <1>2 DEF ReceiveNothing, LoadRequest
  <2>. QED  BY <2>1, <2>2, QuietReturn
<1>3. CASE \/ LoadRequest(h) /\ Goto(h, "chooseGroup") /\ UNCHANGED <<task, scan>>
           \/ ChooseGroup(h)
           \/ ChooseMember(h)
  <2>1. PICK label \in Dispatching : Goto(h, label)
    BY <1>3 DEF ChooseGroup, ChooseMember, Dispatching
  <2>2. /\ pc[h] \in Dispatching /\ label \in PCs
        /\ UNCHANGED <<requests, attempts, audits, queue, mu>>
    BY <1>3 DEF LoadRequest, ChooseGroup, ChooseMember, Dispatching, PCs
  <2>3. task[h] \in Task  BY <2>2 DEF TaskInv, TaskOK, Ready, Dispatching
  <2>4. task'[h].id = task[h].id
    BY <1>3, <2>3 DEF LoadRequest, ChooseGroup, ChooseMember, Task, TypeOK
  <2>5. \A k \in Handlers \ {h} : task'[k] = task[k] /\ scan'[k] = scan[k]
    BY <1>3 DEF LoadRequest, ChooseGroup, ChooseMember, TypeOK
  <2>6. pc'[h] = label /\ OthersStay(h)
    BY <2>1, <2>2, <2>5, Moved DEF OthersStay
  <2>. QED  BY <2>2, <2>4, <2>6, QuietMove
<1>4. LoadRequest(h) => \/ Return(h, "error")
                        \/ Goto(h, "chooseGroup") /\ UNCHANGED <<task, scan>>
  BY DEF LoadRequest
<1>. QED
  BY <1>1, <1>2, <1>3, <1>4, ReceiveJob, FailureRecorded, UpdateKeeps,
     AttemptSaved, DispatchRecorded DEF ProcessStep

LEMMA ChangeKeeps ==
  ASSUME JobInv, TypeOK', TaskInv', NEW h \in Handlers,
         \/ \E r \in Ids, word \in StatusInputs, actor \in Users \cup {Nil} :
              ChangeCall(h, r, word, actor)
         \/ ChangeStep(h)
  PROVE  MutexHeld' /\ CoreInv'
<1>. USE DEF JobInv, store, channel
<1>1. ASSUME NEW r \in Ids, NEW word \in StatusInputs,
             NEW actor \in Users \cup {Nil}, ChangeCall(h, r, word, actor)
      PROVE  MutexHeld' /\ CoreInv'
  <2>1. PICK label \in {"error", "update"} : Goto(h, label)
    BY <1>1 DEF ChangeCall
  <2>2. label \in PCs /\ pc[h] \in Ready /\ label \in Ready \cup {"update"}
    BY <1>1 DEF ChangeCall, PCs, Ready
  <2>3. pc'[h] = label /\ OthersStay(h)
    BY <1>1, <2>1, <2>2, Moved DEF ChangeCall, TypeOK, OthersStay
  <2>. QED  BY <1>1, <2>2, <2>3, Places, QuietMove DEF ChangeCall
<1>2. CASE RecordChanged(h)
  <2>1. pc[h] \notin Creating /\ {"ok", "error"} \subseteq Ready
    BY <1>2 DEF RecordChanged, Creating, Ready
  <2>2. PICK outcome \in {"ok", "error"} : Return(h, outcome)
    BY <1>2 DEF RecordChanged
  <2>3. \A r \in Ids : audits'[r] \cap Outcomes = audits[r] \cap Outcomes
    <3>1. \A r \in Ids : audits'[r] \in {audits[r], audits[r] \cup {"status_changed"}}
      BY <1>2 DEF RecordChanged, Audit, TypeOK
    <3>2. "status_changed" \notin Outcomes  BY DEF Outcomes
    <3>. QED  BY <3>1, <3>2
  <2>. QED  BY <1>2, <2>1, <2>2, <2>3, QuietReturn DEF RecordChanged
<1>. QED  BY <1>1, <1>2, UpdateKeeps DEF ChangeStep

LEMMA EnvironmentKeeps ==
  ASSUME JobInv, Environment PROVE MutexHeld' /\ CoreInv'
<1>. USE DEF JobInv, store, directory, channel
<1>1. CASE Restart
  <2>1. /\ \A h \in Handlers : pc'[h] = "idle"
        /\ mu' = Nil /\ queue' = << >> /\ Len(queue') = 0
        /\ UNCHANGED <<requests, attempts, audits>>
    BY <1>1 DEF Restart
  <2>2. "idle" \notin Creating \cup Carrying \cup Fresh \cup {"put", "created"}
    BY Places DEF Ready
  <2>3. MutexHeld'  BY <2>1, <2>2, NilAssumption DEF MutexHeld
  <2>4. RecordInv' /\ CarryInv' /\ CarryDistinct' /\ FreshInv'
    BY <2>1, <2>2, Places
       DEF RecordInv, CarryInv, CarryDistinct, FreshInv
  <2>5. QueueInv' /\ QueueDistinct' /\ QueueOrCarry'
    BY <2>1 DEF QueueInv, QueueDistinct, QueueOrCarry
  <2>6. AbsentInv' /\ DispatchedInv' /\ AtMostOneDispatch'
    BY <2>1 DEF CoreInv, AbsentInv, DispatchedInv, AtMostOneDispatch
  <2>. QED  BY <2>3, <2>4, <2>5, <2>6 DEF CoreInv
<1>2. CASE UNCHANGED <<requests, attempts, audits, queue, mu, pc, task>>
  BY <1>2
     DEF MutexHeld, CoreInv, RecordInv, QueueInv, CarryInv, QueueDistinct,
         CarryDistinct, QueueOrCarry, FreshInv, AbsentInv, DispatchedInv,
         AtMostOneDispatch
<1>. QED
  BY <1>1, <1>2 DEF Environment, SaveUser, SaveGroup, Close

LEMMA InitCore == Init => MutexHeld /\ CoreInv
<1>. SUFFICES ASSUME Init PROVE MutexHeld /\ CoreInv
  OBVIOUS
<1>1. "idle" \notin Creating \cup Carrying \cup Fresh \cup {"put", "created"}
  BY Places DEF Ready
<1>2. MutexHeld  BY <1>1, NilAssumption DEF Init, MutexHeld
<1>3. RecordInv /\ CarryInv /\ CarryDistinct /\ FreshInv
  BY <1>1, Places DEF Init, RecordInv, CarryInv, CarryDistinct, FreshInv
<1>4. queue = << >> /\ Len(queue) = 0  BY DEF Init
<1>5. QueueInv /\ QueueDistinct /\ QueueOrCarry
  BY <1>4 DEF QueueInv, QueueDistinct, QueueOrCarry
<1>6. \A r \in Ids : attempts[r] = << >> /\ Len(attempts[r]) = 0 /\ audits[r] = {}
  BY DEF Init
<1>7. AbsentInv /\ DispatchedInv /\ AtMostOneDispatch
  BY <1>6 DEF AbsentInv, DispatchedInv, AtMostOneDispatch
<1>. QED  BY <1>2, <1>3, <1>5, <1>7 DEF CoreInv

LEMMA JobStep == JobInv /\ [Next]_vars => JobInv'
<1>. SUFFICES ASSUME JobInv, [Next]_vars PROVE JobInv'
  OBVIOUS
<1>1. TypeOK' /\ TaskInv'  BY TypeStep DEF JobInv
<1>2. CASE UNCHANGED vars
  BY <1>1, <1>2
     DEF vars, JobInv, MutexHeld, CoreInv, RecordInv, QueueInv, CarryInv,
         QueueDistinct, CarryDistinct, QueueOrCarry, FreshInv, AbsentInv,
         DispatchedInv, AtMostOneDispatch
<1>3. CASE Next
  <2>1. MutexHeld' /\ CoreInv'
    BY <1>1, <1>3, CreateKeeps, ProcessKeeps, ChangeKeeps, EnvironmentKeeps
       DEF Next, Call
  <2>. QED  BY <1>1, <2>1 DEF JobInv
<1>. QED  BY <1>2, <1>3

\* Nobody comes to a put but from the duplicate check, and nobody stores a
\* request but from a put.
LEMMA PutFrame ==
  ASSUME JobInv, UnstoredInv,
         \A k \in Handlers : pc'[k] = "put" => pc[k] = "put" /\ task'[k] = task[k],
         \A r \in Ids : requests[r] = Nil => requests'[r] = Nil
  PROVE  UnstoredInv'
<1>1. IdsKnown  BY IdTypes DEF JobInv
<1>2. ASSUME NEW k \in Handlers, pc'[k] = "put" PROVE requests'[task'[k].id] = Nil
  <2>1. pc[k] = "put" /\ task'[k] = task[k]  BY <1>2
  <2>2. task[k].id \in Ids  BY <1>1, <2>1 DEF IdsKnown, Ready
  <2>. QED  BY <2>1, <2>2 DEF UnstoredInv
<1>. QED  BY <1>2 DEF UnstoredInv

LEMMA UnstoredStep ==
  ASSUME JobInv, UnstoredInv, [Next]_vars PROVE UnstoredInv'
<1>. USE DEF store, directory, channel, bounds
<1>0. pc \in [Handlers -> PCs] /\ task \in [Handlers -> Task \cup {Nil}]
      /\ requests \in [Ids -> Request \cup {Nil}]
  BY DEF JobInv, TypeOK
<1>1. ASSUME NEW h \in Handlers, CheckExists(h) PROVE UnstoredInv'
  <2>1. CASE Return(h, "error")
    <3>1. \A k \in Handlers : pc'[k] = "put" => pc[k] = "put" /\ task'[k] = task[k]
      BY <1>0, <2>1 DEF Return, Goto
    <3>. QED  BY <1>1, <3>1, PutFrame DEF CheckExists
  <2>2. CASE requests[task[h].id] = Nil /\ Goto(h, "put") /\ UNCHANGED task
    <3>1. /\ \A k \in Handlers \ {h} : pc'[k] = pc[k]
          /\ requests' = requests /\ task' = task
      BY <1>0, <1>1, <2>2 DEF CheckExists, Goto
    <3>. QED  BY <2>2, <3>1 DEF UnstoredInv
  <2>. QED  BY <1>1, <2>1, <2>2 DEF CheckExists
<1>2. ASSUME NEW h \in Handlers, PutRequest(h) PROVE UnstoredInv'
  <2>1. pc[h] \in Creating /\ pc[h] = "put"  BY <1>2 DEF PutRequest, Creating
  <2>2. \A k \in Handlers \ {h} : pc[k] # "put"
    BY <2>1, Alone, Places DEF JobInv
  <2>3. pc'[h] # "put" /\ \A k \in Handlers \ {h} : pc'[k] = pc[k]
    BY <1>0, <1>2 DEF PutRequest, ReturnFromCreate, Return, Goto
  <2>. QED  BY <2>2, <2>3 DEF UnstoredInv
<1>3. ASSUME NEW h \in Handlers, Assign(h) \/ ChangeStatus(h) PROVE UnstoredInv'
  <2>1. PICK next \in {"attempt", "changed"} : UpdateRequestStatus(h, next)
    BY <1>3 DEF Assign, ChangeStatus
  <2>2. \A k \in Handlers : pc'[k] = "put" => pc[k] = "put" /\ task'[k] = task[k]
    BY <1>0, <2>1 DEF UpdateRequestStatus, Return, Goto
  <2>3. \A r \in Ids : requests[r] = Nil => requests'[r] = Nil
    BY <1>0, <2>1 DEF UpdateRequestStatus
  <2>. QED  BY <2>2, <2>3, PutFrame
<1>4. ASSUME NEW h \in Handlers, UndoRequest(h) PROVE UnstoredInv'
  <2>1. \A k \in Handlers : pc'[k] = "put" => pc[k] = "put" /\ task'[k] = task[k]
    BY <1>0, <1>4 DEF UndoRequest, ReturnFromCreate, Return, Goto
  <2>2. \A r \in Ids : requests[r] = Nil => requests'[r] = Nil
    BY <1>0, <1>4 DEF UndoRequest
  <2>. QED  BY <2>1, <2>2, PutFrame
<1>5. ASSUME NEW h \in Handlers, Call(h) PROVE UnstoredInv'
  <2>1. PICK label \in Ready \cup {"check", "receive", "update"} : Goto(h, label)
    BY <1>5 DEF Call, CreateCall, ProcessCall, ChangeCall, Ready
  <2>2. requests' = requests /\ \A k \in Handlers \ {h} : task'[k] = task[k]
    BY <1>0, <1>5 DEF Call, CreateCall, ProcessCall, ChangeCall
  <2>3. \A k \in Handlers : pc'[k] = "put" => pc[k] = "put" /\ task'[k] = task[k]
    BY <1>0, <2>1, <2>2 DEF Goto, Ready
  <2>. QED  BY <2>2, <2>3, PutFrame
<1>6. ASSUME NEW h \in Handlers,
             \/ ValidateGroup(h) \/ ValidateMember(h) \/ Enqueue(h) \/ Send(h)
             \/ CancelSend(h) \/ Receive(h) \/ LoadRequest(h) \/ ChooseGroup(h)
             \/ ChooseMember(h) \/ SaveAttempt(h) \/ RecordCreated(h)
             \/ ReceiveNothing(h) \/ RecordFailure(h) \/ RecordDispatched(h)
             \/ RecordChanged(h)
      PROVE  UnstoredInv'
  <2>1. requests' = requests
    BY <1>6 DEF ValidateGroup, ValidateMember, Enqueue, Send, CancelSend, Receive,
       LoadRequest, ChooseGroup, ChooseMember, SaveAttempt, RecordCreated,
       ReceiveNothing, RecordFailure, RecordDispatched, RecordChanged
  <2>2. PICK label \in (PCs \ {"put"}) : Goto(h, label)
    BY <1>6 DEF ValidateGroup, ValidateMember, Enqueue, Send, CancelSend, Receive,
       LoadRequest, ChooseGroup, ChooseMember, SaveAttempt, RecordCreated,
       ReceiveNothing, RecordFailure, RecordDispatched, RecordChanged, Return,
       ReturnFromCreate, PCs, Ready, Creating, Dispatching
  <2>3. \A k \in Handlers \ {h} : task'[k] = task[k]
    BY <1>0, <1>6 DEF ValidateGroup, ValidateMember, Enqueue, Send, CancelSend,
       Receive, LoadRequest, ChooseGroup, ChooseMember, SaveAttempt, RecordCreated,
       ReceiveNothing, RecordFailure, RecordDispatched, RecordChanged, Return,
       ReturnFromCreate
  <2>4. \A k \in Handlers : pc'[k] = "put" => pc[k] = "put" /\ task'[k] = task[k]
    BY <1>0, <2>2, <2>3 DEF Goto
  <2>. QED  BY <2>1, <2>4, PutFrame
<1>7. CASE Environment
  <2>1. \A k \in Handlers : pc'[k] = "put" => pc[k] = "put" /\ task'[k] = task[k]
    BY <1>7 DEF Environment, SaveUser, SaveGroup, Close, Restart
  <2>2. requests' = requests
    BY <1>7 DEF Environment, SaveUser, SaveGroup, Close, Restart
  <2>. QED  BY <2>1, <2>2, PutFrame
<1>8. CASE UNCHANGED vars  BY <1>8, PutFrame DEF vars
<1>. QED
  BY <1>1, <1>2, <1>3, <1>4, <1>5, <1>6, <1>7, <1>8
     DEF Next, CreateStep, ProcessStep, ChangeStep

LEMMA InvStep == IInv /\ [Next]_vars => IInv'
BY JobStep, UnstoredStep DEF IInv

LEMMA InitInv == Init => IInv
<1>. SUFFICES ASSUME Init PROVE IInv
  OBVIOUS
<1>1. JobInv  BY InitTypes, InitCore DEF JobInv
<1>2. UnstoredInv  BY DEF Init, UnstoredInv
<1>. QED  BY <1>1, <1>2 DEF IInv

\* The strengthening that makes the safety of the dispatch core inductive.
THEOREM Inductive == Spec => []IInv
<1>1. Init => IInv  BY InitInv
<1>2. IInv /\ [Next]_vars => IInv'  BY InvStep
<1>. QED  BY <1>1, <1>2, PTL DEF Spec

\* A queued or received job finds its request: no rollback removes it.
THEOREM JobsHaveRecords == Spec => []JobHasRecord
<1>1. IInv => JobHasRecord
  BY DEF IInv, JobInv, CoreInv, QueueInv, CarryInv, JobHasRecord, Queued, At, Stored,
         Carrying
<1>. QED  BY <1>1, Inductive, PTL

\* No request is dispatched twice, whatever fails and however often the
\* process restarts.
THEOREM DispatchedOnce == Spec => []AtMostOneDispatch
<1>1. IInv => AtMostOneDispatch  BY DEF IInv, JobInv, CoreInv
<1>. QED  BY <1>1, Inductive, PTL

\* The audit trail states no outcome that the store does not bear out.
THEOREM TruthfulTrail == Spec => []TrailIsTruthful
<1>1. IInv => TrailIsTruthful
  BY DEF IInv, JobInv, CoreInv, AbsentInv, DispatchedInv, TrailIsTruthful, Stored,
         Outcomes
<1>. QED  BY <1>1, Inductive, PTL

-----------------------------------------------------------------------------
(***************************************************************************)
(* What a step does to the stored requests.                                *)
(***************************************************************************)

\* Request r, of which the store and the create calls change nothing.
Unmoved(r) == requests'[r] = requests[r] /\ (At(Tentative, r)' <=> At(Tentative, r))

\* The steps of a stored request, as the code takes them.
Offered(r) ==
  /\ requests[r] = Nil /\ requests'[r] \in Request
  /\ At(Tentative, r)'
  /\ \A q \in Ids : ~At(Tentative, q)

Withdrawn(r) ==
  /\ requests[r] # Nil /\ requests'[r] = Nil
  /\ At(Tentative, r)

Kept(r) ==
  /\ requests[r] # Nil /\ requests'[r] = requests[r]
  /\ At(Tentative, r) /\ ~At(Tentative, r)'

Updated(r) ==
  /\ requests[r] # Nil /\ requests'[r] \in Request
  /\ CanTransition(requests[r].status, requests'[r].status)
  /\ At(Tentative, r)' <=> At(Tentative, r)

RequestMoves ==
  \/ \A r \in Ids : Unmoved(r)
  \/ \E r \in Ids : /\ Offered(r) \/ Withdrawn(r) \/ Kept(r) \/ Updated(r)
                    /\ \A q \in Ids \ {r} : Unmoved(q)

\* A step of handler h outside the creating places moves no request.
LEMMA Unconcerned ==
  ASSUME UNCHANGED requests, NEW h \in Handlers, OthersStay(h),
         \/ pc[h] \notin Tentative /\ pc'[h] \notin Tentative
         \/ /\ pc[h] \in Tentative /\ pc'[h] \in Tentative
            /\ task'[h].id = task[h].id
  PROVE  RequestMoves
<1>1. ASSUME NEW r \in Ids PROVE At(Tentative, r)' <=> At(Tentative, r)
  BY DEF At, OthersStay
<1>. QED  BY <1>1 DEF RequestMoves, Unmoved

\* Handler h, alone in the critical section, is the only one that may make
\* a request tentative.
LEMMA OneTentative ==
  ASSUME MutexHeld, NEW h \in Handlers, pc[h] \in Creating
  PROVE  \A r \in Ids : At(Tentative, r) <=> pc[h] \in Tentative /\ task[h].id = r
BY Alone, Places DEF At

LEMMA CreateMoves ==
  ASSUME IInv, TypeOK', TaskInv', NEW h \in Handlers,
         \/ \E d \in Drafts : CreateCall(h, d)
         \/ CheckExists(h) \/ CreateStep(h) \/ CancelSend(h)
  PROVE  RequestMoves
<1>. USE DEF IInv, JobInv, store, channel
<1>1. ASSUME NEW d \in Drafts, CreateCall(h, d) PROVE RequestMoves
  <2>1. "check" \in PCs /\ pc[h] \in Ready  BY <1>1 DEF PCs, CreateCall
  <2>2. pc'[h] = "check" /\ OthersStay(h)
    BY <1>1, <2>1, Moved DEF CreateCall, TypeOK, OthersStay
  <2>. QED  BY <1>1, <2>1, <2>2, Places, Unconcerned DEF CreateCall
<1>2. CASE CheckExists(h)
  <2>1. /\ pc[h] = "check" /\ "check" \notin Tentative /\ UNCHANGED requests
        /\ "put" \in PCs /\ "error" \in Ready /\ {"put", "error"} \cap Tentative = {}
    BY <1>2 DEF CheckExists, Tentative, PCs, Creating, Ready
  <2>2. pc'[h] \in {"put", "error"} /\ OthersStay(h)
    BY <1>2, <2>1, MovedAlone, Returned DEF CheckExists
  <2>. QED  BY <2>1, <2>2, Unconcerned
<1>3. CASE PutRequest(h)
  <2>1. /\ pc[h] = "put" /\ "put" \in Creating /\ "put" \notin Tentative
        /\ "group" \in PCs /\ "group" \in Tentative
        /\ "error" \in Ready /\ "error" \notin Tentative
    BY <1>3 DEF PutRequest, PCs, Creating, Tentative, Ready
  <2>2. CASE /\ requests' = [requests EXCEPT ![task[h].id] = Record(task[h])]
             /\ Goto(h, "group")
             /\ UNCHANGED <<mu, task, scan, faults>>
    <3>1. pc'[h] = "group" /\ OthersStay(h)  BY <2>1, <2>2, MovedAlone
    <3>2. task[h] \in Task  BY <2>1 DEF TaskInv, TaskOK, Ready
    <3>3. PICK r \in Ids : r = task[h].id  BY <3>2 DEF Task
    <3>4. \A k \in Handlers \ {h} : pc'[k] \notin Tentative
      BY <2>1, <3>1, Alone, Places DEF OthersStay
    <3>5. \A q \in Ids : ~At(Tentative, q)  BY <2>1, OneTentative
    <3>6. task'[h].id = r  BY <2>2, <3>3
    <3>7. \A q \in Ids : At(Tentative, q)' <=> r = q
      BY <2>1, <3>1, <3>4, <3>6 DEF At
    <3>8. requests[r] = Nil
      BY <2>1, <3>3 DEF UnstoredInv
    <3>9. requests'[r] \in Request
      BY <2>2, <3>2, <3>3, RecordType DEF TypeOK
    <3>10. Offered(r)  BY <3>5, <3>7, <3>8, <3>9 DEF Offered
    <3>11. \A q \in Ids \ {r} : requests'[q] = requests[q]
      BY <2>2, <3>3 DEF TypeOK
    <3>12. \A q \in Ids \ {r} : Unmoved(q)
      BY <3>5, <3>7, <3>11 DEF Unmoved
    <3>. QED  BY <3>10, <3>12 DEF RequestMoves
  <2>3. CASE ReturnFromCreate(h, "error") /\ UNCHANGED requests
    <3>1. OthersStay(h) /\ pc'[h] = "error"
      BY <2>1, <2>3, Returned DEF ReturnFromCreate
    <3>. QED  BY <2>1, <2>3, <3>1, Unconcerned
  <2>. QED  BY <1>3, <2>2, <2>3 DEF PutRequest
<1>4. CASE ValidateGroup(h) \/ ValidateMember(h) \/ Enqueue(h) \/ CancelSend(h)
  <2>1. PICK label \in Tentative : Goto(h, label)
    BY <1>4
       DEF ValidateGroup, ValidateMember, Enqueue, CancelSend, Tentative
  <2>2. pc[h] \in Tentative /\ label \in PCs /\ UNCHANGED <<requests, task>>
    BY <1>4
       DEF ValidateGroup, ValidateMember, Enqueue, CancelSend, Tentative, PCs,
           Creating
  <2>3. \A k \in Handlers \ {h} : scan'[k] = scan[k]
    BY <1>4 DEF ValidateGroup, ValidateMember, Enqueue, CancelSend, TypeOK
  <2>4. pc'[h] = label /\ OthersStay(h)
    BY <2>1, <2>2, <2>3, Moved DEF OthersStay
  <2>. QED  BY <2>2, <2>4, Unconcerned
<1>5. CASE Send(h) \/ UndoRequest(h)
  <2>1. pc[h] \in {"send", "undo"} /\ {"send", "undo"} \subseteq Creating \cap Tentative
    BY <1>5 DEF Send, UndoRequest, Creating, Tentative
  <2>2. PICK r \in Ids : r = task[h].id
    <3>1. pc[h] \in Creating /\ IdsKnown  BY <2>1, IdTypes
    <3>. QED  BY <3>1 DEF IdsKnown
  <2>3. /\ {"created", "error"} \subseteq PCs \ Tentative
        /\ "error" \in Ready
    BY DEF PCs, Creating, Tentative, Ready
  <2>4. pc'[h] \notin Tentative /\ OthersStay(h)
    BY <1>5, <2>3, MovedAlone, Returned DEF Send, UndoRequest, ReturnFromCreate
  <2>5. \A q \in Ids : At(Tentative, q) <=> r = q
    BY <2>1, <2>2, OneTentative
  <2>6. \A k \in Handlers : pc'[k] \notin Tentative
    BY <2>1, <2>4, Alone, Places DEF OthersStay
  <2>7. \A q \in Ids : ~At(Tentative, q)'  BY <2>6 DEF At
  <2>8. requests[r] # Nil
    BY <2>1, <2>2 DEF CoreInv, RecordInv
  <2>9. requests'[r] = requests[r] \/ requests'[r] = Nil
    BY <1>5, <2>2 DEF Send, UndoRequest, TypeOK
  <2>10. \A q \in Ids \ {r} : requests'[q] = requests[q]
    BY <1>5, <2>2 DEF Send, UndoRequest, TypeOK
  <2>11. Kept(r) \/ Withdrawn(r)
    BY <2>2, <2>5, <2>7, <2>8, <2>9 DEF Kept, Withdrawn
  <2>12. \A q \in Ids \ {r} : Unmoved(q)
    BY <2>5, <2>7, <2>10 DEF Unmoved
  <2>. QED  BY <2>2, <2>11, <2>12 DEF RequestMoves
<1>6. CASE RecordCreated(h)
  <2>1. PICK outcome \in {"ok", "error"} : ReturnFromCreate(h, outcome)
    BY <1>6 DEF RecordCreated
  <2>2. /\ outcome \in Ready /\ outcome \notin Tentative
        /\ pc[h] \notin Tentative /\ UNCHANGED requests
    BY <1>6 DEF RecordCreated, Ready, Tentative
  <2>3. OthersStay(h) /\ pc'[h] = outcome
    BY <2>1, <2>2, Returned DEF ReturnFromCreate
  <2>. QED  BY <2>2, <2>3, Unconcerned
<1>. QED  BY <1>1, <1>2, <1>3, <1>4, <1>5, <1>6 DEF CreateStep

LEMMA UpdateMoves ==
  ASSUME IInv, TypeOK', TaskInv', NEW h \in Handlers, Assign(h) \/ ChangeStatus(h)
  PROVE  RequestMoves
<1>. USE DEF IInv, JobInv
<1>1. PICK next \in {"attempt", "changed"} :
        UpdateRequestStatus(h, next) /\ pc[h] \in {"assign", "update"}
  <2>1. CASE Assign(h)  BY <2>1 DEF Assign
  <2>2. CASE ChangeStatus(h)  BY <2>2 DEF ChangeStatus
  <2>. QED  BY <2>1, <2>2
<1>2. /\ next \in PCs /\ {next, pc[h], "error"} \cap Tentative = {}
      /\ "error" \in Ready
  <2>1. next \in PCs /\ "error" \in Ready
    BY <1>1 DEF PCs, Dispatching, Ready
  <2>2. /\ next \notin Tentative /\ pc[h] \notin Tentative
        /\ "error" \notin Tentative
    BY <1>1 DEF Tentative
  <2>. QED  BY <2>1, <2>2
<1>3. task[h] \in Task  BY <1>1 DEF TaskInv, TaskOK, Ready
<1>4. CASE /\ requests[task[h].id] # Nil
           /\ CanTransition(requests[task[h].id].status, task[h].status)
           /\ requests' = [requests EXCEPT ![task[h].id] = Record(task[h])]
           /\ Goto(h, next)
           /\ UNCHANGED <<task, scan, faults>>
  <2>1. pc'[h] = next /\ OthersStay(h)  BY <1>2, <1>4, MovedAlone
  <2>2. PICK r \in Ids : r = task[h].id  BY <1>3 DEF Task
  <2>3. \A q \in Ids : At(Tentative, q)' <=> At(Tentative, q)
    BY <1>2, <2>1 DEF At, OthersStay
  <2>4. requests'[r] = Record(task[h])  BY <1>4, <2>2 DEF TypeOK
  <2>5. requests'[r] \in Request /\ requests'[r].status = task[h].status
    BY <1>3, <2>4, RecordType DEF Record
  <2>6. Updated(r)  BY <1>4, <2>2, <2>3, <2>5 DEF Updated
  <2>7. \A q \in Ids \ {r} : requests'[q] = requests[q]
    BY <1>4, <2>2 DEF TypeOK
  <2>8. \A q \in Ids \ {r} : Unmoved(q)  BY <2>3, <2>7 DEF Unmoved
  <2>. QED  BY <2>6, <2>8 DEF RequestMoves
<1>5. CASE Return(h, "error") /\ UNCHANGED requests
  <2>1. OthersStay(h) /\ pc'[h] = "error"  BY <1>2, <1>5, Returned
  <2>. QED  BY <1>2, <1>5, <2>1, Unconcerned
<1>. QED  BY <1>1, <1>4, <1>5 DEF UpdateRequestStatus

LEMMA ProcessMoves ==
  ASSUME IInv, TypeOK', TaskInv', NEW h \in Handlers,
         ProcessCall(h) \/ Receive(h) \/ ReceiveNothing(h) \/ ProcessStep(h)
  PROVE  RequestMoves
<1>. USE DEF IInv, JobInv, store, channel
<1>1. CASE Assign(h)  BY <1>1, UpdateMoves
<1>2. CASE ~Assign(h)
  <2>1. pc[h] \notin Tentative /\ UNCHANGED requests
    BY <1>2, Places
       DEF ProcessCall, Receive, ReceiveNothing, ProcessStep, LoadRequest,
           ChooseGroup, ChooseMember, RecordFailure, SaveAttempt,
           RecordDispatched, Tentative, Ready
  <2>2. PICK label \in PCs \ Tentative : Goto(h, label)
    <3>1. {"receive", "load", "chooseGroup", "choose", "failed", "assign",
           "dispatched", "ok", "error"} \subseteq PCs \ Tentative
      BY DEF PCs, Dispatching, Ready, Tentative
    <3>. QED
      BY <1>2, <3>1
         DEF ProcessCall, Receive, ReceiveNothing, ProcessStep, LoadRequest,
             ChooseGroup, ChooseMember, RecordFailure, SaveAttempt,
             RecordDispatched, Return
  <2>3. \A k \in Handlers \ {h} : task'[k] = task[k] /\ scan'[k] = scan[k]
    BY <1>2
       DEF TypeOK, ProcessCall, Receive, ReceiveNothing, ProcessStep,
           LoadRequest, ChooseGroup, ChooseMember, RecordFailure, SaveAttempt,
           RecordDispatched, Return
  <2>4. pc'[h] = label /\ OthersStay(h)
    BY <2>2, <2>3, Moved DEF OthersStay
  <2>. QED  BY <2>1, <2>2, <2>4, Unconcerned
<1>. QED  BY <1>1, <1>2

LEMMA ChangeMoves ==
  ASSUME IInv, TypeOK', TaskInv', NEW h \in Handlers,
         \/ \E r \in Ids, word \in StatusInputs, actor \in Users \cup {Nil} :
              ChangeCall(h, r, word, actor)
         \/ ChangeStep(h)
  PROVE  RequestMoves
<1>. USE DEF IInv, JobInv, store
<1>1. ASSUME NEW r \in Ids, NEW word \in StatusInputs,
             NEW actor \in Users \cup {Nil}, ChangeCall(h, r, word, actor)
      PROVE  RequestMoves
  <2>1. PICK label \in {"error", "update"} : Goto(h, label)
    BY <1>1 DEF ChangeCall
  <2>2. label \in PCs /\ label \notin Tentative /\ pc[h] \notin Tentative
    BY <1>1 DEF ChangeCall, PCs, Ready, Tentative
  <2>3. pc'[h] = label /\ OthersStay(h)
    BY <1>1, <2>1, <2>2, Moved DEF ChangeCall, TypeOK, OthersStay
  <2>. QED  BY <1>1, <2>2, <2>3, Unconcerned DEF ChangeCall
<1>2. CASE RecordChanged(h)
  <2>1. PICK outcome \in {"ok", "error"} : Return(h, outcome)
    BY <1>2 DEF RecordChanged
  <2>2. /\ outcome \in Ready /\ outcome \notin Tentative
        /\ pc[h] \notin Tentative /\ UNCHANGED requests
    BY <1>2 DEF RecordChanged, Ready, Tentative
  <2>3. OthersStay(h) /\ pc'[h] = outcome  BY <2>1, <2>2, Returned
  <2>. QED  BY <2>2, <2>3, Unconcerned
<1>. QED  BY <1>1, <1>2, UpdateMoves DEF ChangeStep

\* A restart keeps the request that was tentative, if there was one.
LEMMA RestartMoves ==
  ASSUME IInv, Restart PROVE RequestMoves
<1>. USE DEF IInv, JobInv, store
<1>1. /\ \A h \in Handlers : pc'[h] = "idle"
      /\ UNCHANGED requests /\ "idle" \notin Tentative
  BY DEF Restart, Tentative
<1>2. \A q \in Ids : ~At(Tentative, q)'  BY <1>1 DEF At
<1>3. CASE \A q \in Ids : ~At(Tentative, q)
  BY <1>1, <1>2, <1>3 DEF RequestMoves, Unmoved
<1>4. ASSUME NEW r \in Ids, At(Tentative, r) PROVE RequestMoves
  <2>1. PICK h \in Handlers : pc[h] \in Tentative /\ task[h].id = r
    BY <1>4 DEF At
  <2>2. pc[h] \in Creating  BY <2>1, Places
  <2>3. \A q \in Ids \ {r} : ~At(Tentative, q)  BY <2>1, <2>2, OneTentative
  <2>4. requests[r] # Nil  BY <2>1 DEF CoreInv, RecordInv
  <2>5. Kept(r)  BY <1>1, <1>2, <1>4, <2>4 DEF Kept
  <2>6. \A q \in Ids \ {r} : Unmoved(q)  BY <1>1, <1>2, <2>3 DEF Unmoved
  <2>. QED  BY <2>5, <2>6 DEF RequestMoves
<1>. QED  BY <1>3, <1>4

LEMMA StepMoves ==
  ASSUME IInv, [Next]_vars PROVE RequestMoves
<1>1. TypeOK' /\ TaskInv'  BY TypeStep DEF IInv, JobInv
<1>2. CASE UNCHANGED <<requests, pc, task>>
  BY <1>2 DEF RequestMoves, Unmoved, At
<1>3. CASE Environment
  BY <1>2, <1>3, RestartMoves
     DEF Environment, SaveUser, SaveGroup, Close, store
<1>4. CASE UNCHANGED vars  BY <1>2, <1>4 DEF vars
<1>5. CASE Next
  BY <1>1, <1>3, <1>5, CreateMoves, ProcessMoves, ChangeMoves DEF Next, Call
<1>. QED  BY <1>4, <1>5

\* A resolved or rejected request keeps its status for as long as it is in
\* the store, also against handlers that read it before it was terminal.
THEOREM TerminalIsFinal == Spec => TerminalStatusFinal
<1>. DEFINE Final ==
       \A r \in Ids :
         Stored(r) /\ IsTerminal(requests[r].status) /\ Stored(r)' =>
           requests'[r].status = requests[r].status
<1>1. IInv /\ [Next]_vars => Final
  <2>. SUFFICES ASSUME IInv, [Next]_vars, NEW r \in Ids,
                       Stored(r), IsTerminal(requests[r].status), Stored(r)'
                PROVE  requests'[r].status = requests[r].status
    OBVIOUS
  <2>1. \/ requests'[r] = requests[r]
        \/ Offered(r) \/ Withdrawn(r) \/ Kept(r) \/ Updated(r)
    BY StepMoves DEF RequestMoves, Unmoved
  <2>2. CASE Updated(r)
    BY <2>2 DEF Updated, CanTransition, IsTerminal
  <2>. QED  BY <2>1, <2>2 DEF Offered, Withdrawn, Kept, Stored
<1>. HIDE DEF Final
<1>2. Spec => [][Final]_vars  BY <1>1, Inductive, PTL DEF Spec
<1>. QED  BY <1>2, PTL DEF TerminalStatusFinal, Final

-----------------------------------------------------------------------------
(***************************************************************************)
(* The dispatcher implements the life cycle of a request.                  *)
(***************************************************************************)

LEMMA InitRefines == Init => Promise!Init
<1>. SUFFICES ASSUME Init PROVE Promise!Init
  OBVIOUS
<1>1. \A r \in Ids : ~Stored(r)  BY DEF Init, Stored
<1>2. phase = [r \in Ids |-> "none"]  BY <1>1 DEF phase
<1>3. status = [r \in Ids |-> Nil]  BY <1>1 DEF status
<1>. QED  BY <1>2, <1>3 DEF Promise!Init

LEMMA SameStatuses == Promise!Statuses = Statuses
BY DEF Promise!Statuses, Promise!AllowedStatuses, Statuses, AllowedStatuses

\* Where a request does not move, its phase and its status do not either.
LEMMA UnmovedStutters ==
  ASSUME NEW r \in Ids, Unmoved(r)
  PROVE  phase'[r] = phase[r] /\ status'[r] = status[r]
BY DEF Unmoved, phase, status, Stored

LEMMA StepRefines ==
  ASSUME IInv, [Next]_vars PROVE [Promise!Next]_Promise!vars
<1>1. RequestMoves  BY StepMoves
<1>2. /\ phase = [r \in Ids |-> phase[r]] /\ phase' = [r \in Ids |-> phase'[r]]
      /\ status = [r \in Ids |-> status[r]] /\ status' = [r \in Ids |-> status'[r]]
  BY DEF phase, status
<1>3. CASE \A r \in Ids : Unmoved(r)
  <2>1. \A r \in Ids : phase'[r] = phase[r] /\ status'[r] = status[r]
    BY <1>3, UnmovedStutters
  <2>. QED  BY <1>2, <2>1 DEF Promise!vars
<1>4. ASSUME NEW r \in Ids, Offered(r) \/ Withdrawn(r) \/ Kept(r) \/ Updated(r),
             \A q \in Ids \ {r} : Unmoved(q)
      PROVE  Promise!Next
  <2>1. \A q \in Ids \ {r} : phase'[q] = phase[q] /\ status'[q] = status[q]
    BY <1>4, UnmovedStutters
  <2>2. /\ phase' = [phase EXCEPT ![r] = phase'[r]]
        /\ status' = [status EXCEPT ![r] = status'[r]]
    BY <1>2, <2>1
  <2>3. /\ phase[r] = IF requests[r] = Nil THEN "none"
                      ELSE IF At(Tentative, r) THEN "tentative" ELSE "kept"
        /\ phase'[r] = IF requests'[r] = Nil THEN "none"
                       ELSE IF At(Tentative, r)' THEN "tentative" ELSE "kept"
        /\ status[r] = IF requests[r] = Nil THEN Nil ELSE requests[r].status
        /\ status'[r] = IF requests'[r] = Nil THEN Nil ELSE requests'[r].status
    BY DEF phase, status, Stored
  <2>4. CASE Offered(r)
    <3>1. /\ phase[r] = "none" /\ phase'[r] = "tentative"
          /\ status'[r] = requests'[r].status /\ status'[r] \in Statuses
      BY <2>3, <2>4, NilIsNoRecord DEF Offered, Request
    <3>2. \A q \in Ids : phase[q] # "tentative"
      BY <2>4 DEF Offered, phase
    <3>3. Promise!Offer(r, status'[r])
      BY <2>2, <3>1, <3>2 DEF Promise!Offer
    <3>. QED  BY <3>1, <3>3, SameStatuses DEF Promise!Next
  <2>5. CASE Withdrawn(r)
    <3>1. phase[r] = "tentative" /\ phase'[r] = "none" /\ status'[r] = Nil
      BY <2>3, <2>5 DEF Withdrawn
    <3>. QED  BY <2>2, <3>1 DEF Promise!Withdraw, Promise!Next
  <2>6. CASE Kept(r)
    <3>1. phase[r] = "tentative" /\ phase'[r] = "kept" /\ status'[r] = status[r]
      BY <2>3, <2>6 DEF Kept
    <3>2. status' = status  BY <1>2, <2>1, <3>1
    <3>. QED  BY <2>2, <3>1, <3>2 DEF Promise!Keep, Promise!Next
  <2>7. CASE Updated(r)
    <3>1. /\ phase[r] # "none" /\ phase'[r] = phase[r]
          /\ CanTransition(status[r], status'[r]) /\ status'[r] \in Statuses
      BY <2>3, <2>7, NilIsNoRecord DEF Updated, Request
    <3>2. phase' = phase  BY <1>2, <2>1, <3>1
    <3>3. Promise!Move(r, status'[r])
      BY <2>2, <3>1, <3>2 DEF Promise!Move, Promise!CanTransition, CanTransition
    <3>. QED  BY <3>1, <3>3, SameStatuses DEF Promise!Next
  <2>. QED  BY <1>4, <2>4, <2>5, <2>6, <2>7
<1>. QED  BY <1>1, <1>3, <1>4 DEF RequestMoves

\* The stored requests behave as Lifecycle promises, whatever the handlers
\* interleave and wherever a write fails or the process restarts.
THEOREM Refinement == Spec => ImplementsLifecycle
<1>1. IInv /\ [Next]_vars => [Promise!Next]_Promise!vars  BY StepRefines
<1>. QED
  BY <1>1, InitRefines, Inductive, PTL DEF Spec, ImplementsLifecycle, Promise!Spec

-----------------------------------------------------------------------------
(***************************************************************************)
(* What the store and the trail say as long as nothing fails: that the     *)
(* trail is complete, that a request is not stranded without a reason, and *)
(* that an assignee was dispatched.                                        *)
(***************************************************************************)

\* A stored request has its creation on record, an attempt its dispatch, or
\* the handler that is to record it has not yet done so.
RecordedInv ==
  \A r \in Ids :
    /\ Stored(r) => "created" \in audits[r] \/ At(Tentative \cup {"created"}, r)
    /\ attempts[r] # << >> => "dispatched" \in audits[r] \/ At({"dispatched"}, r)

\* Who has not yet assigned the job it has received.
Deciding == Dispatching \ {"attempt"}

Waits(r) == Stored(r) /\ requests[r].status = "queued"

\* A queued request has a job, or the failure of its dispatch is on record.
AccountedInv ==
  \A r \in Ids :
    Waits(r) =>
      \/ Queued(r) \/ At(Tentative \cup Deciding, r)
      \/ "dispatch_failed" \in audits[r]

\* Where an agent named in a record may come from.
Named(r, agent) ==
  \/ agent = Nil
  \/ \E d \in Drafts : d.id = r /\ d.assignee = agent
  \/ \E i \in 1 .. Len(attempts[r]) : attempts[r][i].agent = agent
  \/ \E h \in Handlers : /\ pc[h] = "attempt"
                         /\ task[h].id = r
                         /\ task[h].assignee = agent

\* What a status call read was true of the record at some time.
NamedInv ==
  \A r \in Ids, agent \in Users \cup {Nil} :
    /\ Stored(r) /\ requests[r].assignee = agent => Named(r, agent)
    /\ \A h \in Handlers :
         pc[h] = "update" /\ task[h].id = r /\ task[h].assignee = agent =>
           Named(r, agent)

CleanInv == RecordedInv /\ AccountedInv /\ NamedInv

\* The parts do not need each other.
CleanKept ==
  /\ RecordedInv => RecordedInv'
  /\ AccountedInv => AccountedInv'
  /\ NamedInv => NamedInv'

\* A create call works on its body, a dispatch is to assign its request.
BodyInv ==
  \A h \in Handlers :
    /\ pc[h] \in Creating \cup {"check"} => task[h] \in Drafts
    /\ pc[h] \in Dispatching => task[h].status = "assigned"

-----------------------------------------------------------------------------
(***************************************************************************)
(* What a step of handler h must not do, for each part of CleanInv.        *)
(***************************************************************************)

TrailGrows == \A r \in Ids : audits[r] \subseteq audits'[r]

LEMMA RecordedStays ==
  ASSUME IInv, RecordedInv, NEW h \in Handlers, OthersStay(h), TrailGrows,
         \A r \in Ids : Stored(r)' =>
           \/ Stored(r)
           \/ pc'[h] \in Tentative \cup {"created"} /\ task'[h].id = r,
         \A r \in Ids : attempts'[r] # << >> =>
           \/ attempts[r] # << >>
           \/ pc'[h] = "dispatched" /\ task'[h].id = r,
         \A r \in Ids : pc[h] \in Tentative \cup {"created"} /\ task[h].id = r =>
           \/ pc'[h] \in Tentative \cup {"created"} /\ task'[h].id = r
           \/ "created" \in audits'[r] \/ ~Stored(r)',
         \A r \in Ids : pc[h] = "dispatched" /\ task[h].id = r =>
           "dispatched" \in audits'[r]
  PROVE  RecordedInv'
<1>. SUFFICES ASSUME NEW r \in Ids
     PROVE  /\ Stored(r)' => \/ "created" \in audits'[r]
                             \/ At(Tentative \cup {"created"}, r)'
            /\ attempts'[r] # << >> => \/ "dispatched" \in audits'[r]
                                       \/ At({"dispatched"}, r)'
  BY DEF RecordedInv
<1>1. ASSUME At(Tentative \cup {"created"}, r), Stored(r)'
      PROVE  "created" \in audits'[r] \/ At(Tentative \cup {"created"}, r)'
  BY <1>1 DEF At, OthersStay
<1>2. ASSUME At({"dispatched"}, r)
      PROVE  "dispatched" \in audits'[r] \/ At({"dispatched"}, r)'
  BY <1>2 DEF At, OthersStay
<1>3. pc'[h] \in Tentative \cup {"created"} /\ task'[h].id = r =>
        At(Tentative \cup {"created"}, r)'
  BY DEF At
<1>4. pc'[h] = "dispatched" /\ task'[h].id = r => At({"dispatched"}, r)'
  BY DEF At
<1>. QED  BY <1>1, <1>2, <1>3, <1>4 DEF RecordedInv, TrailGrows

LEMMA AccountedStays ==
  ASSUME AccountedInv, NEW h \in Handlers, OthersStay(h), TrailGrows,
         \A r \in Ids : Waits(r)' =>
           \/ Waits(r)
           \/ pc'[h] \in Tentative /\ task'[h].id = r,
         \A r \in Ids : Queued(r) =>
           \/ Queued(r)'
           \/ pc'[h] \in Deciding /\ task'[h].id = r,
         \A r \in Ids : pc[h] \in Tentative \cup Deciding /\ task[h].id = r =>
           \/ pc'[h] \in Tentative \cup Deciding /\ task'[h].id = r
           \/ Queued(r)' \/ ~Waits(r)' \/ "dispatch_failed" \in audits'[r]
  PROVE  AccountedInv'
<1>. SUFFICES ASSUME NEW r \in Ids, Waits(r)'
     PROVE  \/ Queued(r)' \/ At(Tentative \cup Deciding, r)'
            \/ "dispatch_failed" \in audits'[r]
  BY DEF AccountedInv
<1>1. pc'[h] \in Tentative \cup Deciding /\ task'[h].id = r =>
        At(Tentative \cup Deciding, r)'
  BY DEF At
<1>2. ASSUME At(Tentative \cup Deciding, r)
      PROVE  \/ Queued(r)' \/ At(Tentative \cup Deciding, r)'
             \/ "dispatch_failed" \in audits'[r]
  BY <1>2 DEF At, OthersStay
<1>. QED  BY <1>1, <1>2 DEF AccountedInv, TrailGrows

LEMMA NamedStays ==
  ASSUME NamedInv, NEW h \in Handlers, OthersStay(h),
         \A r \in Ids, agent \in Users \cup {Nil} : Named(r, agent) => Named(r, agent)',
         \A r \in Ids, agent \in Users \cup {Nil} :
           Stored(r)' /\ requests'[r].assignee = agent =>
             \/ Stored(r) /\ requests[r].assignee = agent
             \/ Named(r, agent)',
         \A r \in Ids, agent \in Users \cup {Nil} :
           pc'[h] = "update" /\ task'[h].id = r /\ task'[h].assignee = agent =>
             Named(r, agent)'
  PROVE  NamedInv'
<1>. SUFFICES ASSUME NEW r \in Ids, NEW agent \in Users \cup {Nil}
     PROVE  /\ Stored(r)' /\ requests'[r].assignee = agent => Named(r, agent)'
            /\ \A k \in Handlers :
                 pc'[k] = "update" /\ task'[k].id = r /\ task'[k].assignee = agent =>
                   Named(r, agent)'
  BY DEF NamedInv
<1>1. ASSUME NEW k \in Handlers, k # h, pc'[k] = "update",
             task'[k].id = r, task'[k].assignee = agent
      PROVE  Named(r, agent)'
  BY <1>1 DEF NamedInv, OthersStay
<1>. QED  BY <1>1 DEF NamedInv

\* Attempts are only added, and h is not about to add one.
LEMMA NameStays ==
  ASSUME NEW h \in Handlers, OthersStay(h), attempts' = attempts, pc[h] # "attempt"
  PROVE  \A r \in Ids, agent \in Users \cup {Nil} : Named(r, agent) => Named(r, agent)'
BY DEF Named, OthersStay

\* A step that leaves the store, the trail and the queue alone and gives up
\* nothing that is still to be done.
LEMMA NothingDropped ==
  ASSUME IInv, NEW h \in Handlers, OthersStay(h),
         UNCHANGED <<requests, attempts, audits, queue>>,
         pc[h] \notin {"created", "attempt", "dispatched"},
         pc[h] \in Tentative => pc'[h] \in Tentative /\ task'[h].id = task[h].id,
         pc[h] \in Deciding => pc'[h] \in Deciding /\ task'[h].id = task[h].id,
         NamedInv =>
           \A r \in Ids, agent \in Users \cup {Nil} :
             pc'[h] = "update" /\ task'[h].id = r /\ task'[h].assignee = agent =>
               Named(r, agent)
  PROVE  CleanKept
<1>1. TrailGrows  BY DEF TrailGrows
<1>2. \A r \in Ids : (Stored(r)' <=> Stored(r)) /\ (Waits(r)' <=> Waits(r))
  BY DEF Stored, Waits
<1>3. \A r \in Ids : Queued(r)' <=> Queued(r)  BY DEF Queued
<1>4. ASSUME RecordedInv PROVE RecordedInv'
  BY <1>4, <1>1, <1>2, RecordedStays
<1>5. ASSUME AccountedInv PROVE AccountedInv'
  BY <1>5, <1>1, <1>2, <1>3, AccountedStays
<1>6. \A r \in Ids, agent \in Users \cup {Nil} : Named(r, agent) => Named(r, agent)'
  BY NameStays
<1>7. ASSUME NamedInv PROVE NamedInv'
  BY <1>7, <1>2, <1>6, NamedStays
<1>. QED  BY <1>4, <1>5, <1>7 DEF CleanKept

\* A step that records an outcome and ends its call.
LEMMA OutcomeOnRecord ==
  ASSUME IInv, NEW h \in Handlers, NEW action \in AuditAction,
         OthersStay(h), Audit(task[h].id, action), task[h].id \in Ids,
         UNCHANGED <<requests, attempts, queue>>,
         pc'[h] \in Ready,
         \/ pc[h] = "created" /\ action = "created"
         \/ pc[h] = "failed" /\ action = "dispatch_failed"
         \/ pc[h] = "dispatched" /\ action = "dispatched"
         \/ pc[h] = "changed"
  PROVE  CleanKept
<1>1. TrailGrows /\ action \in audits'[task[h].id]
  BY DEF TrailGrows, Audit, IInv, JobInv, TypeOK
<1>2. \A r \in Ids : (Stored(r)' <=> Stored(r)) /\ (Waits(r)' <=> Waits(r))
  BY DEF Stored, Waits
<1>3. \A r \in Ids : Queued(r)' <=> Queued(r)  BY DEF Queued
<1>4. ASSUME RecordedInv PROVE RecordedInv'
  BY <1>4, <1>1, <1>2, RecordedStays DEF Tentative
<1>5. ASSUME AccountedInv PROVE AccountedInv'
  BY <1>5, <1>1, <1>2, <1>3, AccountedStays DEF Tentative, Deciding, Dispatching
<1>6. \A r \in Ids, agent \in Users \cup {Nil} : Named(r, agent) => Named(r, agent)'
  BY NameStays
<1>7. pc'[h] # "update"  BY DEF Ready
<1>8. ASSUME NamedInv PROVE NamedInv'
  BY <1>8, <1>2, <1>6, <1>7, NamedStays
<1>. QED  BY <1>4, <1>5, <1>8 DEF CleanKept

-----------------------------------------------------------------------------
(***************************************************************************)
(* The steps that write, while no write fails.                             *)
(***************************************************************************)

\* The assignee of a call is a user or nobody, and its request has an id.
LEMMA TaskTypes ==
  ASSUME IInv, NEW h \in Handlers, pc[h] \notin Ready \cup {"receive"}
  PROVE  /\ task[h] \in Task
         /\ task[h].id \in Ids /\ task[h].assignee \in Users \cup {Nil}
         /\ Record(task[h]) # Nil
<1>1. task[h] \in Task  BY DEF IInv, JobInv, TaskInv, TaskOK
<1>2. task[h].id \in Ids /\ task[h].assignee \in Users \cup {Nil}
  BY <1>1 DEF Task
<1>3. Record(task[h]) \in Request  BY <1>1 DEF Record, Request, Task
<1>. QED  BY <1>1, <1>2, <1>3, NilIsNoRecord

LEMMA PutIsClean ==
  ASSUME IInv, BodyInv, NEW h \in Handlers, PutRequest(h), faults' = faults
  PROVE  CleanKept
<1>1. /\ requests' = [requests EXCEPT ![task[h].id] = Record(task[h])]
      /\ Goto(h, "group") /\ pc[h] = "put"
      /\ UNCHANGED <<task, scan, attempts, audits, queue>>
  BY DEF PutRequest, StoreFails, channel, IInv, JobInv, TypeOK
<1>2. pc'[h] = "group" /\ OthersStay(h) /\ task'[h] = task[h]
  BY <1>1, MovedAlone DEF IInv, JobInv, PCs, Creating
<1>3. task[h].id \in Ids /\ Record(task[h]) # Nil /\ requests[task[h].id] = Nil
  BY <1>1, TaskTypes DEF Ready, IInv, UnstoredInv
<1>4. /\ requests'[task[h].id] = Record(task[h])
      /\ \A r \in Ids \ {task[h].id} : requests'[r] = requests[r]
  BY <1>1, <1>3 DEF IInv, JobInv, TypeOK
<1>5. \A r \in Ids \ {task[h].id} : (Stored(r)' <=> Stored(r)) /\ (Waits(r)' <=> Waits(r))
  BY <1>4 DEF Stored, Waits
<1>6. TrailGrows /\ \A r \in Ids : Queued(r)' <=> Queued(r)
  BY <1>1 DEF TrailGrows, Queued
<1>7. ASSUME RecordedInv PROVE RecordedInv'
  BY <1>7, <1>1, <1>2, <1>5, <1>6, RecordedStays DEF Tentative
<1>8. ASSUME AccountedInv PROVE AccountedInv'
  BY <1>8, <1>1, <1>2, <1>5, <1>6, AccountedStays
     DEF Tentative, Deciding, Dispatching
<1>9. \A r \in Ids, agent \in Users \cup {Nil} : Named(r, agent) => Named(r, agent)'
  BY <1>1, <1>2, NameStays
<1>10. ASSUME NEW agent \in Users \cup {Nil}, requests'[task[h].id].assignee = agent
       PROVE  \A r \in Ids : r = task[h].id => Named(r, agent)'
  <2>1. task[h] \in Drafts  BY <1>1 DEF BodyInv, Creating
  <2>2. task[h].assignee = agent  BY <1>4, <1>10 DEF Record
  <2>. QED  BY <2>1, <2>2 DEF Named
<1>11. ASSUME NamedInv PROVE NamedInv'
  <2>1. \A r \in Ids, agent \in Users \cup {Nil} :
          Stored(r)' /\ requests'[r].assignee = agent =>
            \/ Stored(r) /\ requests[r].assignee = agent
            \/ Named(r, agent)'
    BY <1>4, <1>5, <1>10
  <2>. QED  BY <1>11, <1>2, <1>9, <2>1, NamedStays
<1>. QED  BY <1>7, <1>8, <1>11 DEF CleanKept

LEMMA SendIsClean ==
  ASSUME IInv, NEW h \in Handlers, Send(h)
  PROVE  CleanKept
<1>1. /\ queue' = Append(queue, [id |-> task[h].id, group |-> task[h].group])
      /\ Goto(h, "created") /\ pc[h] = "send"
      /\ UNCHANGED <<task, scan, requests, attempts, audits>>
  BY DEF Send, store
<1>2. pc'[h] = "created" /\ OthersStay(h) /\ task'[h] = task[h]
  BY <1>1, MovedAlone DEF IInv, JobInv, PCs, Creating
<1>3. TrailGrows /\ \A r \in Ids : (Stored(r)' <=> Stored(r)) /\ (Waits(r)' <=> Waits(r))
  BY <1>1 DEF TrailGrows, Stored, Waits
<1>4. queue \in Seq(Job) /\ [id |-> task[h].id, group |-> task[h].group] \in Job
  BY <1>1, TaskTypes DEF Ready, Task, Job, IInv, JobInv, TypeOK
<1>5. /\ Len(queue') = Len(queue) + 1
      /\ \A i \in 1 .. Len(queue) : queue'[i] = queue[i]
      /\ queue'[Len(queue) + 1].id = task[h].id
  BY <1>1, <1>4
<1>6. \A r \in Ids : Queued(r) => Queued(r)'
  BY <1>4, <1>5 DEF Queued
<1>7. \A r \in Ids : task[h].id = r => Queued(r)'
  BY <1>4, <1>5 DEF Queued
<1>8. ASSUME RecordedInv PROVE RecordedInv'
  BY <1>8, <1>1, <1>2, <1>3, RecordedStays DEF Tentative
<1>9. ASSUME AccountedInv PROVE AccountedInv'
  BY <1>9, <1>1, <1>2, <1>3, <1>6, <1>7, AccountedStays
     DEF Tentative, Deciding, Dispatching
<1>10. \A r \in Ids, agent \in Users \cup {Nil} : Named(r, agent) => Named(r, agent)'
  BY <1>1, <1>2, NameStays
<1>11. ASSUME NamedInv PROVE NamedInv'
  BY <1>11, <1>1, <1>2, <1>3, <1>10, NamedStays
<1>. QED  BY <1>8, <1>9, <1>11 DEF CleanKept

LEMMA UndoIsClean ==
  ASSUME IInv, NEW h \in Handlers, UndoRequest(h), faults' = faults
  PROVE  CleanKept
<1>1. /\ requests' = [requests EXCEPT ![task[h].id] = Nil]
      /\ Return(h, "error") /\ pc[h] = "undo"
      /\ UNCHANGED <<attempts, audits, queue>>
  BY DEF UndoRequest, ReturnFromCreate, StoreFails, channel, IInv, JobInv, TypeOK
<1>2. pc'[h] = "error" /\ OthersStay(h)
  BY <1>1, Returned DEF IInv, JobInv, Ready
<1>3. task[h].id \in Ids  BY <1>1, TaskTypes DEF Ready
<1>4. /\ requests'[task[h].id] = Nil
      /\ \A r \in Ids \ {task[h].id} : requests'[r] = requests[r]
  BY <1>1, <1>3 DEF IInv, JobInv, TypeOK
<1>5. /\ \A r \in Ids : r = task[h].id => ~Stored(r)' /\ ~Waits(r)'
      /\ \A r \in Ids \ {task[h].id} : (Stored(r)' <=> Stored(r)) /\ (Waits(r)' <=> Waits(r))
  BY <1>4 DEF Stored, Waits
<1>6. TrailGrows /\ \A r \in Ids : Queued(r)' <=> Queued(r)
  BY <1>1 DEF TrailGrows, Queued
<1>7. ASSUME RecordedInv PROVE RecordedInv'
  BY <1>7, <1>1, <1>2, <1>5, <1>6, RecordedStays DEF Tentative
<1>8. ASSUME AccountedInv PROVE AccountedInv'
  BY <1>8, <1>1, <1>2, <1>5, <1>6, AccountedStays
     DEF Tentative, Deciding, Dispatching
<1>9. \A r \in Ids, agent \in Users \cup {Nil} : Named(r, agent) => Named(r, agent)'
  BY <1>1, <1>2, NameStays
<1>10. ASSUME NamedInv PROVE NamedInv'
  BY <1>10, <1>2, <1>4, <1>5, <1>9, NamedStays
<1>. QED  BY <1>7, <1>8, <1>10 DEF CleanKept

LEMMA ReceiveIsClean ==
  ASSUME IInv, NEW h \in Handlers, Receive(h)
  PROVE  CleanKept
<1>1. /\ queue # << >> /\ queue' = Tail(queue) /\ pc[h] = "receive"
      /\ Goto(h, "load")
      /\ task' = [task EXCEPT ![h] = [id |-> Head(queue).id,
                                      group |-> Head(queue).group,
                                      assignee |-> Nil,
                                      status |-> "assigned"]]
      /\ UNCHANGED <<scan, requests, attempts, audits>>
  BY DEF Receive, store
<1>2. pc'[h] = "load" /\ task'[h].id = Head(queue).id
  BY <1>1, Moved DEF IInv, JobInv, TypeOK, PCs, Dispatching
<1>3. OthersStay(h)
  BY <1>1, Moved DEF IInv, JobInv, TypeOK, PCs, Dispatching, OthersStay
<1>4. TrailGrows /\ \A r \in Ids : (Stored(r)' <=> Stored(r)) /\ (Waits(r)' <=> Waits(r))
  BY <1>1 DEF TrailGrows, Stored, Waits
<1>5. ASSUME NEW r \in Ids, Queued(r), Head(queue).id # r PROVE Queued(r)'
  <2>1. queue \in Seq(Job)  BY DEF IInv, JobInv, TypeOK
  <2>2. PICK i \in 1 .. Len(queue) : queue[i].id = r  BY <1>5 DEF Queued
  <2>3. i # 1  BY <1>5, <2>1, <2>2
  <2>4. i - 1 \in 1 .. Len(queue') /\ queue'[i - 1] = queue[i]
    BY <1>1, <2>1, <2>3
  <2>. QED  BY <2>2, <2>4 DEF Queued
<1>6. ASSUME RecordedInv PROVE RecordedInv'
  BY <1>6, <1>1, <1>2, <1>3, <1>4, RecordedStays DEF Tentative
<1>7. ASSUME AccountedInv PROVE AccountedInv'
  BY <1>7, <1>1, <1>2, <1>3, <1>4, <1>5, AccountedStays
     DEF Tentative, Deciding, Dispatching
<1>8. \A r \in Ids, agent \in Users \cup {Nil} : Named(r, agent) => Named(r, agent)'
  BY <1>1, <1>3, NameStays
<1>9. ASSUME NamedInv PROVE NamedInv'
  BY <1>9, <1>1, <1>2, <1>3, <1>4, <1>8, NamedStays
<1>. QED  BY <1>6, <1>7, <1>9 DEF CleanKept

\* UpdateRequestStatus, which commits or does not allow the change.
LEMMA UpdateIsClean ==
  ASSUME IInv, BodyInv, NEW h \in Handlers, NEW next \in {"attempt", "changed"},
         UpdateRequestStatus(h, next), faults' = faults,
         \/ pc[h] = "assign" /\ next = "attempt"
         \/ pc[h] = "update" /\ next = "changed"
  PROVE  CleanKept
<1>1. UNCHANGED <<attempts, audits, queue>>
  BY DEF UpdateRequestStatus, channel
<1>2. TrailGrows /\ \A r \in Ids : Queued(r)' <=> Queued(r)
  BY <1>1 DEF TrailGrows, Queued
<1>3. task[h].id \in Ids /\ Record(task[h]) # Nil /\ task[h].assignee \in Users \cup {Nil}
  BY TaskTypes DEF Ready
<1>4. CASE /\ requests[task[h].id] # Nil
           /\ CanTransition(requests[task[h].id].status, task[h].status)
           /\ requests' = [requests EXCEPT ![task[h].id] = Record(task[h])]
           /\ Goto(h, next)
           /\ UNCHANGED <<task, scan>>
  <2>1. pc'[h] = next /\ OthersStay(h) /\ task'[h] = task[h]
    BY <1>4, MovedAlone DEF IInv, JobInv, PCs, Dispatching
  <2>2. /\ requests'[task[h].id] = Record(task[h])
        /\ \A r \in Ids \ {task[h].id} : requests'[r] = requests[r]
    BY <1>3, <1>4 DEF IInv, JobInv, TypeOK
  <2>3. \A r \in Ids : Stored(r)' => Stored(r)
    BY <1>4, <2>2 DEF Stored
  <2>4. \A r \in Ids : r # task[h].id => (Waits(r)' <=> Waits(r))
    BY <2>2 DEF Stored, Waits
  <2>5. \A r \in Ids : r = task[h].id /\ Waits(r)' => Waits(r) /\ task[h].status = "queued"
    <3>1. ASSUME task[h].status = "queued"
          PROVE  requests[task[h].id].status = "queued"
      BY <1>4, <3>1 DEF CanTransition
    <3>. QED  BY <1>4, <2>2, <3>1 DEF Stored, Waits, Record
  <2>12. pc[h] = "assign" => task[h].status # "queued"  BY DEF BodyInv, Dispatching
  <2>6. ASSUME RecordedInv PROVE RecordedInv'
    BY <2>6, <1>1, <1>2, <2>1, <2>3, RecordedStays DEF Tentative
  <2>7. ASSUME AccountedInv PROVE AccountedInv'
    BY <2>7, <1>2, <2>1, <2>4, <2>5, <2>12, AccountedStays
       DEF Tentative, Deciding, Dispatching
  <2>8. \A r \in Ids, agent \in Users \cup {Nil} : Named(r, agent) => Named(r, agent)'
    BY <1>1, <2>1, NameStays
  <2>9. ASSUME NamedInv, NEW agent \in Users \cup {Nil}, task[h].assignee = agent
        PROVE  \A r \in Ids : r = task[h].id => Named(r, agent)'
    <3>1. CASE next = "attempt"  BY <2>1, <2>9, <3>1 DEF Named
    <3>2. CASE next = "changed"  BY <2>8, <2>9, <3>2 DEF NamedInv
    <3>. QED  BY <3>1, <3>2
  <2>10. ASSUME NamedInv
         PROVE  \A r \in Ids, agent \in Users \cup {Nil} :
                  Stored(r)' /\ requests'[r].assignee = agent =>
                    \/ Stored(r) /\ requests[r].assignee = agent
                    \/ Named(r, agent)'
    <3>1. requests'[task[h].id].assignee = task[h].assignee  BY <2>2 DEF Record
    <3>. QED  BY <2>2, <2>3, <2>9, <2>10, <3>1
  <2>11. ASSUME NamedInv PROVE NamedInv'
    BY <2>11, <2>1, <2>8, <2>10, NamedStays
  <2>. QED  BY <2>6, <2>7, <2>11 DEF CleanKept
<1>5. CASE /\ \/ requests[task[h].id] = Nil
              \/ ~CanTransition(requests[task[h].id].status, task[h].status)
           /\ Return(h, "error")
           /\ UNCHANGED requests
  <2>1. pc'[h] = "error" /\ OthersStay(h)
    BY <1>5, Returned DEF IInv, JobInv, Ready
  <2>2. \A r \in Ids : (Stored(r)' <=> Stored(r)) /\ (Waits(r)' <=> Waits(r))
    BY <1>5 DEF Stored, Waits
  <2>3. ASSUME pc[h] = "assign" PROVE \A r \in Ids : r = task[h].id => ~Waits(r)'
    <3>1. requests[task[h].id] # Nil
      BY <2>3 DEF IInv, JobInv, CoreInv, CarryInv, Carrying, Dispatching
    <3>2. task[h].status = "assigned"  BY <2>3 DEF BodyInv, Dispatching
    <3>3. requests[task[h].id].status # "queued"
      BY <1>5, <3>1, <3>2 DEF CanTransition
    <3>. QED  BY <1>5, <3>3 DEF Waits
  <2>6. ASSUME RecordedInv PROVE RecordedInv'
    BY <2>6, <1>1, <1>2, <2>1, <2>2, RecordedStays DEF Tentative
  <2>7. ASSUME AccountedInv PROVE AccountedInv'
    BY <2>7, <1>2, <2>1, <2>2, <2>3, AccountedStays
       DEF Tentative, Deciding, Dispatching
  <2>8. \A r \in Ids, agent \in Users \cup {Nil} : Named(r, agent) => Named(r, agent)'
    BY <1>1, <2>1, NameStays
  <2>9. ASSUME NamedInv PROVE NamedInv'
    BY <2>9, <1>5, <2>1, <2>2, <2>8, NamedStays
  <2>. QED  BY <2>6, <2>7, <2>9 DEF CleanKept
<1>. QED
  BY <1>4, <1>5 DEF UpdateRequestStatus, StoreFails, IInv, JobInv, TypeOK

LEMMA AttemptIsClean ==
  ASSUME IInv, NEW h \in Handlers, SaveAttempt(h), faults' = faults
  PROVE  CleanKept
<1>1. /\ attempts' = [attempts EXCEPT ![task[h].id] =
           Append(@, [group |-> task[h].group, agent |-> task[h].assignee])]
      /\ Goto(h, "dispatched") /\ pc[h] = "attempt"
      /\ UNCHANGED <<task, scan, requests, audits, queue>>
  BY DEF SaveAttempt, StoreFails, channel, IInv, JobInv, TypeOK
<1>2. pc'[h] = "dispatched" /\ OthersStay(h) /\ task'[h] = task[h]
  BY <1>1, MovedAlone DEF IInv, JobInv, PCs
<1>3. /\ task[h].id \in Ids /\ attempts[task[h].id] = << >>
      /\ task[h].group \in Groups /\ task[h].assignee \in Users
  <2>1. task[h] \in Task  BY <1>1, TaskTypes DEF Ready
  <2>2. attempts[task[h].id] = << >>
    BY <1>1 DEF IInv, JobInv, CoreInv, CarryInv, Carrying, Dispatching
  <2>3. task[h].assignee \in Users  BY <1>1 DEF IInv, JobInv, TaskInv, TaskOK
  <2>. QED  BY <2>1, <2>2, <2>3 DEF Task
<1>4. /\ Len(attempts'[task[h].id]) = 1
      /\ attempts'[task[h].id][1].agent = task[h].assignee
      /\ \A r \in Ids \ {task[h].id} : attempts'[r] = attempts[r]
  <2>1. attempts'[task[h].id] =
          Append(<< >>, [group |-> task[h].group, agent |-> task[h].assignee])
    BY <1>1, <1>3 DEF IInv, JobInv, TypeOK
  <2>2. \A r \in Ids \ {task[h].id} : attempts'[r] = attempts[r]
    BY <1>1, <1>3 DEF IInv, JobInv, TypeOK
  <2>. QED  BY <2>1, <2>2
<1>5. TrailGrows /\ \A r \in Ids : (Stored(r)' <=> Stored(r)) /\ (Waits(r)' <=> Waits(r))
  BY <1>1 DEF TrailGrows, Stored, Waits
<1>6. \A r \in Ids : Queued(r)' <=> Queued(r)  BY <1>1 DEF Queued
<1>7. ASSUME RecordedInv PROVE RecordedInv'
  BY <1>7, <1>1, <1>2, <1>4, <1>5, RecordedStays DEF Tentative
<1>8. ASSUME AccountedInv PROVE AccountedInv'
  BY <1>8, <1>1, <1>2, <1>5, <1>6, AccountedStays
     DEF Tentative, Deciding, Dispatching
<1>9. ASSUME NEW r \in Ids, NEW agent \in Users \cup {Nil}, Named(r, agent)
      PROVE  Named(r, agent)'
  <2>1. CASE r = task[h].id /\ agent = task[h].assignee
    BY <1>4, <2>1 DEF Named
  <2>2. CASE \E i \in 1 .. Len(attempts[r]) : attempts[r][i].agent = agent
    <3>1. r # task[h].id  BY <1>3, <2>2
    <3>. QED  BY <1>4, <2>2, <3>1 DEF Named
  <2>3. CASE \E k \in Handlers : /\ pc[k] = "attempt"
                                 /\ task[k].id = r /\ task[k].assignee = agent
    <3>1. PICK k \in Handlers : /\ pc[k] = "attempt"
                                /\ task[k].id = r /\ task[k].assignee = agent
      BY <2>3
    <3>2. CASE k = h  BY <2>1, <3>1, <3>2
    <3>3. CASE k # h  BY <1>2, <3>1, <3>3 DEF Named, OthersStay
    <3>. QED  BY <3>2, <3>3
  <2>. QED  BY <1>9, <2>2, <2>3 DEF Named
<1>10. ASSUME NamedInv PROVE NamedInv'
  BY <1>10, <1>1, <1>2, <1>5, <1>9, NamedStays
<1>. QED  BY <1>7, <1>8, <1>10 DEF CleanKept

\* The steps that record an outcome.
LEMMA RecordIsClean ==
  ASSUME IInv, NEW h \in Handlers, faults' = faults,
         \/ RecordCreated(h) \/ RecordFailure(h)
         \/ RecordDispatched(h) \/ RecordChanged(h)
  PROVE  CleanKept
<1>. ~StoreFails  BY DEF StoreFails, IInv, JobInv, TypeOK
<1>1. CASE RecordCreated(h)
  <2>1. /\ pc[h] = "created" /\ Audit(task[h].id, "created")
        /\ Return(h, "ok") /\ UNCHANGED <<requests, attempts, queue>>
    BY <1>1 DEF RecordCreated, ReturnFromCreate, channel
  <2>2. OthersStay(h) /\ pc'[h] \in Ready /\ task[h].id \in Ids
    BY <2>1, Returned, TaskTypes DEF IInv, JobInv, Ready
  <2>. QED  BY <2>1, <2>2, OutcomeOnRecord DEF AuditAction
<1>2. CASE RecordFailure(h)
  <2>1. /\ pc[h] = "failed" /\ Audit(task[h].id, "dispatch_failed")
        /\ Return(h, "error") /\ UNCHANGED <<requests, attempts, queue>>
    BY <1>2 DEF RecordFailure, channel
  <2>2. OthersStay(h) /\ pc'[h] \in Ready /\ task[h].id \in Ids
    BY <2>1, Returned, TaskTypes DEF IInv, JobInv, Ready
  <2>. QED  BY <2>1, <2>2, OutcomeOnRecord DEF AuditAction
<1>3. CASE RecordDispatched(h)
  <2>1. /\ pc[h] = "dispatched" /\ Audit(task[h].id, "dispatched")
        /\ Return(h, "ok") /\ UNCHANGED <<requests, attempts, queue>>
    BY <1>3 DEF RecordDispatched, channel
  <2>2. OthersStay(h) /\ pc'[h] \in Ready /\ task[h].id \in Ids
    BY <2>1, Returned, TaskTypes DEF IInv, JobInv, Ready
  <2>. QED  BY <2>1, <2>2, OutcomeOnRecord DEF AuditAction
<1>4. CASE RecordChanged(h)
  <2>1. /\ pc[h] = "changed" /\ Audit(task[h].id, "status_changed")
        /\ Return(h, "ok") /\ UNCHANGED <<requests, attempts, queue>>
    BY <1>4 DEF RecordChanged, channel
  <2>2. OthersStay(h) /\ pc'[h] \in Ready /\ task[h].id \in Ids
    BY <2>1, Returned, TaskTypes DEF IInv, JobInv, Ready
  <2>. QED  BY <2>1, <2>2, OutcomeOnRecord DEF AuditAction
<1>. QED  BY <1>1, <1>2, <1>3, <1>4

-----------------------------------------------------------------------------
(***************************************************************************)
(* The steps that write nothing.                                           *)
(***************************************************************************)

LEMMA CallIsClean ==
  ASSUME IInv, NEW h \in Handlers, Call(h)
  PROVE  CleanKept
<1>. USE DEF Ready, Tentative, Deciding, Dispatching, PCs
<1>1. CASE \E d \in Drafts : CreateCall(h, d)
  <2>1. PICK d \in Drafts : CreateCall(h, d)  BY <1>1
  <2>2. /\ pc[h] \in Ready /\ Goto(h, "check") /\ UNCHANGED scan
        /\ task' = [task EXCEPT ![h] = d]
        /\ UNCHANGED <<requests, attempts, audits, queue>>
    BY <2>1 DEF CreateCall, store, channel
  <2>3. pc'[h] = "check" /\ OthersStay(h)
    BY <2>2, Moved DEF IInv, JobInv, TypeOK, OthersStay
  <2>. QED  BY <2>2, <2>3, NothingDropped
<1>2. CASE ProcessCall(h)
  <2>1. /\ pc[h] \in Ready /\ Goto(h, "receive") /\ UNCHANGED <<task, scan>>
        /\ UNCHANGED <<requests, attempts, audits, queue>>
    BY <1>2 DEF ProcessCall, store, channel
  <2>2. pc'[h] = "receive" /\ OthersStay(h)
    BY <2>1, MovedAlone DEF IInv, JobInv
  <2>. QED  BY <2>1, <2>2, NothingDropped
<1>3. CASE \E r \in Ids, word \in StatusInputs, actor \in Users \cup {Nil} :
             ChangeCall(h, r, word, actor)
  <2>1. PICK r \in Ids, word \in StatusInputs, actor \in Users \cup {Nil} :
          ChangeCall(h, r, word, actor)
    BY <1>3
  <2>2. pc[h] \in Ready /\ UNCHANGED <<scan, requests, attempts, audits, queue>>
    BY <2>1 DEF ChangeCall, store, channel
  <2>3. CASE Goto(h, "error") /\ UNCHANGED task
    <3>1. pc'[h] = "error" /\ OthersStay(h)
      BY <2>2, <2>3, MovedAlone DEF IInv, JobInv
    <3>. QED  BY <2>2, <3>1, NothingDropped
  <2>4. CASE /\ requests[r] # Nil /\ Goto(h, "update")
             /\ task' = [task EXCEPT ![h] = [id |-> r, group |-> requests[r].group,
                                            assignee |-> requests[r].assignee,
                                            status |-> word]]
    <3>1. pc'[h] = "update" /\ OthersStay(h)
      BY <2>2, <2>4, Moved DEF IInv, JobInv, TypeOK, OthersStay
    <3>2. task'[h].id = r /\ task'[h].assignee = requests[r].assignee
      BY <2>4 DEF IInv, JobInv, TypeOK
    <3>3. NamedInv => \A agent \in Users \cup {Nil} :
            requests[r].assignee = agent => Named(r, agent)
      BY <2>4 DEF NamedInv, Stored
    <3>. QED  BY <2>2, <3>1, <3>2, <3>3, NothingDropped
  <2>. QED  BY <2>1, <2>3, <2>4 DEF ChangeCall, Changeable
<1>. QED  BY <1>1, <1>2, <1>3 DEF Call

LEMMA QuietIsClean ==
  ASSUME IInv, NEW h \in Handlers,
         \/ CheckExists(h) \/ ValidateGroup(h) \/ ValidateMember(h)
         \/ Enqueue(h) \/ CancelSend(h) \/ ReceiveNothing(h)
         \/ LoadRequest(h) \/ ChooseGroup(h) \/ ChooseMember(h)
  PROVE  CleanKept
<1>. USE DEF Ready, Tentative, Deciding, Dispatching, PCs, Creating
<1>1. UNCHANGED <<requests, attempts, audits, queue>>
  BY DEF CheckExists, ValidateGroup, ValidateMember, Enqueue, CancelSend,
         ReceiveNothing, LoadRequest, ChooseGroup, ChooseMember, store, channel
<1>2. CASE CheckExists(h)
  <2>1. pc[h] = "check" /\ OthersStay(h) /\ pc'[h] \in {"error", "put"}
    BY <1>2, Returned, MovedAlone DEF CheckExists, IInv, JobInv
  <2>. QED  BY <1>1, <2>1, NothingDropped
<1>3. CASE ValidateGroup(h)
  <2>1. pc[h] = "group" /\ OthersStay(h) /\ pc'[h] \in {"member", "undo"}
        /\ task' = task
    BY <1>3, Moved DEF ValidateGroup, IInv, JobInv, TypeOK, OthersStay
  <2>. QED  BY <1>1, <2>1, NothingDropped
<1>4. CASE ValidateMember(h)
  <2>1. pc[h] = "member" /\ OthersStay(h) /\ task' = task
        /\ pc'[h] \in {"enqueue", "undo", "member"}
    BY <1>4, Moved DEF ValidateMember, IInv, JobInv, TypeOK, OthersStay
  <2>. QED  BY <1>1, <2>1, NothingDropped
<1>5. CASE Enqueue(h)
  <2>1. pc[h] = "enqueue" /\ OthersStay(h) /\ pc'[h] \in {"undo", "send"}
        /\ task' = task
    BY <1>5, MovedAlone DEF Enqueue, IInv, JobInv
  <2>. QED  BY <1>1, <2>1, NothingDropped
<1>6. CASE CancelSend(h)
  <2>1. pc[h] = "send" /\ OthersStay(h) /\ pc'[h] = "undo" /\ task' = task
    BY <1>6, MovedAlone DEF CancelSend, IInv, JobInv
  <2>. QED  BY <1>1, <2>1, NothingDropped
<1>7. CASE ReceiveNothing(h)
  <2>1. pc[h] = "receive" /\ OthersStay(h) /\ pc'[h] = "error"
    BY <1>7, Returned DEF ReceiveNothing, IInv, JobInv
  <2>. QED  BY <1>1, <2>1, NothingDropped
<1>8. CASE LoadRequest(h)
  <2>1. requests[task[h].id] # Nil
    BY <1>8 DEF LoadRequest, IInv, JobInv, CoreInv, CarryInv, Carrying
  <2>2. pc[h] = "load" /\ OthersStay(h) /\ pc'[h] = "chooseGroup" /\ task' = task
    BY <1>8, <2>1, MovedAlone DEF LoadRequest, IInv, JobInv
  <2>. QED  BY <1>1, <2>2, NothingDropped
<1>9. CASE ChooseGroup(h)
  <2>1. pc[h] = "chooseGroup" /\ OthersStay(h) /\ task' = task
        /\ pc'[h] \in {"choose", "failed"}
    BY <1>9, Moved DEF ChooseGroup, IInv, JobInv, TypeOK, OthersStay
  <2>. QED  BY <1>1, <2>1, NothingDropped
<1>10. CASE ChooseMember(h)
  <2>1. /\ pc[h] = "choose" /\ OthersStay(h)
        /\ pc'[h] \in {"assign", "failed", "choose"}
    BY <1>10, Moved DEF ChooseMember, IInv, JobInv, TypeOK, OthersStay
  <2>2. task'[h].id = task[h].id
    <3>1. task[h] \in Task /\ task \in [Handlers -> Task \cup {Nil}]
      BY <2>1, TaskTypes DEF IInv, JobInv, TypeOK
    <3>2. CASE task' = [task EXCEPT ![h].assignee = Head(scan[h])]
      BY <3>1, <3>2 DEF Task
    <3>3. CASE task' = task  BY <3>3
    <3>. QED  BY <1>10, <3>2, <3>3 DEF ChooseMember
  <2>. QED  BY <1>1, <2>1, <2>2, NothingDropped
<1>. QED
  BY <1>2, <1>3, <1>4, <1>5, <1>6, <1>7, <1>8, <1>9, <1>10

-----------------------------------------------------------------------------
(***************************************************************************)
(* The invariants of an undisturbed run.                                   *)
(***************************************************************************)

LEMMA BodyStays ==
  ASSUME IInv, BodyInv, NEW h \in Handlers, OthersStay(h),
         pc'[h] \in Creating \cup {"check"} => task'[h] \in Drafts,
         pc'[h] \in Dispatching => task'[h].status = "assigned"
  PROVE  BodyInv'
BY DEF BodyInv, OthersStay

LEMMA BodyStep == IInv /\ BodyInv /\ [Next]_vars => BodyInv'
<1>. SUFFICES ASSUME IInv, BodyInv, [Next]_vars PROVE BodyInv'
  OBVIOUS
<1>. USE DEF IInv, JobInv, TypeOK
<1>1. ASSUME NEW h \in Handlers, Call(h) PROVE BodyInv'
  <2>1. ASSUME NEW d \in Drafts, CreateCall(h, d) PROVE BodyInv'
    <3>1. pc'[h] = "check" /\ task'[h] = d /\ OthersStay(h)
      BY <2>1, Moved DEF CreateCall, OthersStay, PCs
    <3>. QED  BY <3>1, BodyStays DEF Dispatching
  <2>2. CASE ProcessCall(h)
    <3>1. pc'[h] = "receive" /\ OthersStay(h)
      BY <2>2, MovedAlone DEF ProcessCall, PCs
    <3>. QED  BY <3>1, BodyStays DEF Dispatching, Creating
  <2>3. ASSUME NEW r \in Ids, NEW word \in StatusInputs,
               NEW actor \in Users \cup {Nil}, ChangeCall(h, r, word, actor)
        PROVE  BodyInv'
    <3>1. pc'[h] \in {"error", "update"} /\ OthersStay(h)
      BY <2>3, Moved DEF ChangeCall, OthersStay, PCs, Ready
    <3>. QED  BY <3>1, BodyStays DEF Dispatching, Creating
  <2>. QED  BY <1>1, <2>1, <2>2, <2>3 DEF Call
<1>2. ASSUME NEW h \in Handlers, CheckExists(h) PROVE BodyInv'
  <2>1. CASE Return(h, "error")
    <3>1. pc'[h] = "error" /\ OthersStay(h)  BY <2>1, Returned DEF Ready
    <3>. QED  BY <3>1, BodyStays DEF Dispatching, Creating
  <2>2. CASE Goto(h, "put") /\ UNCHANGED <<task, scan>>
    <3>1. pc'[h] = "put" /\ task'[h] = task[h] /\ OthersStay(h)
      BY <2>2, MovedAlone DEF PCs, Creating
    <3>. QED  BY <1>2, <3>1, BodyStays DEF CheckExists, BodyInv, Dispatching
  <2>. QED  BY <1>2, <2>1, <2>2 DEF CheckExists
<1>3. ASSUME NEW h \in Handlers, CreateStep(h) \/ CancelSend(h) PROVE BodyInv'
  <2>1. pc[h] \in Creating
    BY <1>3 DEF CreateStep, CancelSend, PutRequest, ValidateGroup, ValidateMember,
                Enqueue, Send, UndoRequest, RecordCreated, Creating
  <2>2. /\ OthersStay(h)
        /\ \/ pc'[h] \in Creating /\ task' = task
           \/ pc'[h] \in Ready
    <3>1. CASE Return(h, "error") \/ Return(h, "ok")
      BY <3>1, Returned DEF Ready
    <3>2. CASE /\ UNCHANGED task
               /\ \E label \in Creating : Goto(h, label)
               /\ \A k \in Handlers \ {h} : scan'[k] = scan[k]
      BY <3>2, Moved DEF PCs, OthersStay
    <3>. QED
      BY <1>3, <3>1, <3>2
         DEF CreateStep, CancelSend, PutRequest, ValidateGroup, ValidateMember,
             Enqueue, Send, UndoRequest, RecordCreated, ReturnFromCreate, Creating
  <2>. QED  BY <2>1, <2>2, BodyStays DEF BodyInv, Creating, Dispatching, Ready
<1>4. ASSUME NEW h \in Handlers, Receive(h) PROVE BodyInv'
  <2>1. pc'[h] = "load" /\ OthersStay(h)
    BY <1>4, Moved DEF Receive, OthersStay, PCs, Dispatching
  <2>2. task'[h].status = "assigned"  BY <1>4 DEF Receive
  <2>. QED  BY <2>1, <2>2, BodyStays DEF Creating
<1>5. ASSUME NEW h \in Handlers, ReceiveNothing(h) PROVE BodyInv'
  <2>1. pc'[h] = "error" /\ OthersStay(h)
    BY <1>5, Returned DEF ReceiveNothing, Ready
  <2>. QED  BY <2>1, BodyStays DEF Dispatching, Creating
<1>6. ASSUME NEW h \in Handlers, ProcessStep(h) PROVE BodyInv'
  <2>1. pc[h] \in Dispatching \cup {"dispatched"}
    BY <1>6 DEF ProcessStep, LoadRequest, ChooseGroup, ChooseMember, RecordFailure,
                Assign, SaveAttempt, RecordDispatched, Dispatching
  <2>2. OthersStay(h) /\ pc'[h] \notin Creating \cup {"check"}
    <3>1. CASE Return(h, "error") \/ Return(h, "ok")
      BY <3>1, Returned DEF Ready, Creating
    <3>2. CASE /\ \E label \in Dispatching \cup {"dispatched"} : Goto(h, label)
               /\ \A k \in Handlers \ {h} : task'[k] = task[k] /\ scan'[k] = scan[k]
      BY <3>2, Moved DEF PCs, OthersStay, Dispatching, Creating
    <3>. QED
      BY <1>6, <3>1, <3>2
         DEF ProcessStep, LoadRequest, ChooseGroup, ChooseMember, RecordFailure,
             Assign, SaveAttempt, RecordDispatched, UpdateRequestStatus, Dispatching
  <2>3. ASSUME pc'[h] \in Dispatching
        PROVE  pc[h] \in Dispatching /\ task'[h].status = task[h].status
    <3>1. pc[h] \in Dispatching
      <4>1. RecordDispatched(h) => pc'[h] \in Ready
        BY Returned DEF RecordDispatched, Ready
      <4>2. pc[h] = "dispatched" => RecordDispatched(h)
        BY <1>6 DEF ProcessStep, LoadRequest, ChooseGroup, ChooseMember,
                    RecordFailure, Assign, SaveAttempt
      <4>3. Dispatching \cap Ready = {}  BY DEF Dispatching, Ready
      <4>. QED  BY <2>1, <2>3, <4>1, <4>2, <4>3
    <3>2. CASE ChooseMember(h)
      <4>1. task[h] \in Task /\ task \in [Handlers -> Task \cup {Nil}]
        BY <3>1, TaskTypes DEF Dispatching, Ready
      <4>2. CASE task' = [task EXCEPT ![h].assignee = Head(scan[h])]
        BY <3>1, <4>1, <4>2 DEF Task
      <4>. QED  BY <3>1, <3>2, <4>2 DEF ChooseMember
    <3>3. CASE Return(h, "error") \/ Return(h, "ok")
      BY <2>3, <3>3, Returned DEF Ready, Dispatching
    <3>4. CASE task' = task  BY <3>1, <3>4
    <3>. QED
      BY <1>6, <3>2, <3>3, <3>4
         DEF ProcessStep, LoadRequest, ChooseGroup, RecordFailure, Assign,
             SaveAttempt, RecordDispatched, UpdateRequestStatus
  <2>. QED  BY <2>2, <2>3, BodyStays DEF BodyInv
<1>7. ASSUME NEW h \in Handlers, ChangeStep(h) PROVE BodyInv'
  <2>1. OthersStay(h) /\ pc'[h] \in Ready \cup {"changed"}
    <3>1. CASE Return(h, "error") \/ Return(h, "ok")
      BY <3>1, Returned DEF Ready
    <3>2. CASE Goto(h, "changed") /\ UNCHANGED <<task, scan>>
      BY <3>2, MovedAlone DEF PCs
    <3>. QED
      BY <1>7, <3>1, <3>2 DEF ChangeStep, ChangeStatus, RecordChanged, UpdateRequestStatus
  <2>. QED  BY <2>1, BodyStays DEF Dispatching, Creating, Ready
<1>8. CASE Environment
  <2>1. CASE Restart
    <3>1. \A h \in Handlers : pc'[h] = "idle"  BY <2>1 DEF Restart
    <3>. QED  BY <3>1 DEF BodyInv, Creating, Dispatching
  <2>2. CASE UNCHANGED <<pc, task>>  BY <2>2 DEF BodyInv
  <2>. QED  BY <1>8, <2>1, <2>2 DEF Environment, SaveUser, SaveGroup, Close
<1>9. CASE UNCHANGED vars  BY <1>9 DEF vars, BodyInv
<1>. QED
  BY <1>1, <1>2, <1>3, <1>4, <1>5, <1>6, <1>7, <1>8, <1>9 DEF Next

\* Without a failing write and a restart every step keeps all the parts.
LEMMA CleanStep ==
  ASSUME IInv, BodyInv, [Next]_vars, UNCHANGED bounds
  PROVE  CleanKept
<1>. USE DEF bounds
<1>1. ASSUME NEW h \in Handlers, Call(h) PROVE CleanKept
  BY <1>1, CallIsClean
<1>2. ASSUME NEW h \in Handlers,
             CheckExists(h) \/ CancelSend(h) \/ ReceiveNothing(h)
      PROVE  CleanKept
  BY <1>2, QuietIsClean
<1>3. ASSUME NEW h \in Handlers, CreateStep(h) PROVE CleanKept
  BY <1>3, PutIsClean, QuietIsClean, SendIsClean, UndoIsClean, RecordIsClean
     DEF CreateStep
<1>4. ASSUME NEW h \in Handlers, Receive(h) PROVE CleanKept
  BY <1>4, ReceiveIsClean
<1>5. ASSUME NEW h \in Handlers, ProcessStep(h) PROVE CleanKept
  <2>1. CASE Assign(h)
    BY <2>1, UpdateIsClean DEF Assign
  <2>. QED
    BY <1>5, <2>1, QuietIsClean, RecordIsClean, AttemptIsClean DEF ProcessStep
<1>6. ASSUME NEW h \in Handlers, ChangeStep(h) PROVE CleanKept
  <2>1. CASE ChangeStatus(h)
    BY <2>1, UpdateIsClean DEF ChangeStatus
  <2>. QED  BY <1>6, <2>1, RecordIsClean DEF ChangeStep
<1>7. ASSUME UNCHANGED <<requests, attempts, audits, queue, pc, task>>
      PROVE  CleanKept
  <2>1. RecordedInv => RecordedInv'
    BY <1>7 DEF RecordedInv, Stored, At
  <2>2. AccountedInv => AccountedInv'
    BY <1>7 DEF AccountedInv, Waits, Stored, Queued, At
  <2>3. NamedInv => NamedInv'
    BY <1>7 DEF NamedInv, Named, Stored
  <2>. QED  BY <2>1, <2>2, <2>3 DEF CleanKept
<1>8. CASE Environment
  BY <1>7, <1>8 DEF Environment, SaveUser, SaveGroup, Close, Restart, store,
                    channel, IInv, JobInv, TypeOK
<1>9. CASE UNCHANGED vars
  BY <1>7, <1>9 DEF vars
<1>. QED
  BY <1>1, <1>2, <1>3, <1>4, <1>5, <1>6, <1>8, <1>9 DEF Next

TrailInv == IInv /\ BodyInv /\ (Undisturbed => CleanInv)

\* A failing write is counted.
LEMMA FaultsCounted ==
  ASSUME [Next]_vars
  PROVE  faults' = faults \/ StoreFails
<1>1. ASSUME NEW h \in Handlers, Call(h) PROVE faults' = faults
  BY <1>1 DEF Call, CreateCall, ProcessCall, ChangeCall, bounds
<1>2. ASSUME NEW h \in Handlers,
             \/ CheckExists(h) \/ CreateStep(h) \/ CancelSend(h)
             \/ Receive(h) \/ ReceiveNothing(h)
      PROVE  faults' = faults \/ StoreFails
  BY <1>2 DEF CheckExists, CreateStep, CancelSend, Receive, ReceiveNothing,
              PutRequest, ValidateGroup, ValidateMember, Enqueue, Send,
              UndoRequest, RecordCreated, bounds
<1>3. ASSUME NEW h \in Handlers, ProcessStep(h) \/ ChangeStep(h)
      PROVE  faults' = faults \/ StoreFails
  BY <1>3 DEF ProcessStep, ChangeStep, LoadRequest, ChooseGroup, ChooseMember,
              RecordFailure, Assign, SaveAttempt, RecordDispatched, ChangeStatus,
              RecordChanged, UpdateRequestStatus, bounds
<1>4. Environment => faults' = faults
  BY DEF Environment, SaveUser, SaveGroup, Close, Restart, bounds
<1>. QED  BY <1>1, <1>2, <1>3, <1>4 DEF Next, vars

\* A failing write and a restart are never forgotten.
LEMMA StillUndisturbed ==
  ASSUME TypeOK, [Next]_vars, Undisturbed'
  PROVE  Undisturbed /\ UNCHANGED bounds
<1>1. restarts' = restarts \/ restarts' = restarts + 1
  <2>1. ASSUME NEW h \in Handlers, Call(h) PROVE restarts' = restarts
    BY <2>1 DEF Call, CreateCall, ProcessCall, ChangeCall, bounds
  <2>2. ASSUME NEW h \in Handlers,
               \/ CheckExists(h) \/ CreateStep(h) \/ CancelSend(h)
               \/ Receive(h) \/ ReceiveNothing(h)
        PROVE  restarts' = restarts
    BY <2>2 DEF CheckExists, CreateStep, CancelSend, Receive, ReceiveNothing,
                PutRequest, ValidateGroup, ValidateMember, Enqueue, Send,
                UndoRequest, RecordCreated, bounds
  <2>3. ASSUME NEW h \in Handlers, ProcessStep(h) \/ ChangeStep(h)
        PROVE  restarts' = restarts
    BY <2>3 DEF ProcessStep, ChangeStep, LoadRequest, ChooseGroup, ChooseMember,
                RecordFailure, Assign, SaveAttempt, RecordDispatched, ChangeStatus,
                RecordChanged, UpdateRequestStatus, bounds
  <2>4. Environment => restarts' = restarts \/ restarts' = restarts + 1
    BY DEF Environment, SaveUser, SaveGroup, Close, Restart, bounds
  <2>. QED  BY <2>1, <2>2, <2>3, <2>4 DEF Next, vars
<1>. QED
  BY <1>1, FaultsCounted, BoundAssumption DEF StoreFails, TypeOK, Undisturbed, bounds

LEMMA InitIsClean == Init => BodyInv /\ CleanInv
<1>. SUFFICES ASSUME Init PROVE BodyInv /\ CleanInv
  OBVIOUS
<1>1. BodyInv  BY DEF Init, BodyInv, Creating, Dispatching
<1>2. \A r \in Ids : ~Stored(r) /\ attempts[r] = << >>  BY DEF Init, Stored
<1>3. RecordedInv /\ AccountedInv  BY <1>2 DEF RecordedInv, AccountedInv, Waits
<1>4. NamedInv  BY <1>2 DEF Init, NamedInv
<1>. QED  BY <1>1, <1>3, <1>4 DEF CleanInv

\* The invariant of the trail: as long as nothing fails, what is stored is on
\* record, a queued request has a job or a reason, and an agent was dispatched.
THEOREM TrailInductive == Spec => []TrailInv
<1>1. Init => TrailInv
  BY InitIsClean, InitInv DEF TrailInv
<1>2. TrailInv /\ [Next]_vars => TrailInv'
  BY BodyStep, InvStep, CleanStep, StillUndisturbed
     DEF TrailInv, IInv, JobInv, CleanInv, CleanKept
<1>. QED  BY <1>1, <1>2, PTL DEF Spec

\* CreateAndDispatch and ProcessQueue audit what they did: as long as no write
\* failed and the process did not restart, the trail of a request nobody
\* works on is complete.
THEOREM CompleteTrail == Spec => []TrailIsComplete
<1>1. TrailInv => TrailIsComplete
  BY DEF TrailInv, CleanInv, RecordedInv, TrailIsComplete, At, Tentative,
         Creating
<1>. QED  BY <1>1, TrailInductive, PTL

\* ProcessQueue drops a job that finds no agent, and says so: a request that
\* waits with no job and nobody to dispatch it has its failure on record.
THEOREM ExplainedStranding == Spec => []StrandedIsExplained
<1>1. TrailInv => StrandedIsExplained
  BY DEF TrailInv, CleanInv, AccountedInv, StrandedIsExplained, Waits, At,
         Tentative, Creating, Deciding
<1>. QED  BY <1>1, TrailInductive, PTL

\* ChangeStatus writes back the assignee it has read: it may bring an old one
\* back, but all come from a dispatch or from the body of the create.
THEOREM DispatchedAssignee == Spec => []AssigneeWasDispatched
<1>1. TrailInv => AssigneeWasDispatched
  <2>. SUFFICES ASSUME TrailInv, NEW r \in Ids, Stored(r),
                       requests[r].assignee # Nil, Undisturbed
                PROVE  Named(r, requests[r].assignee)
    BY DEF AssigneeWasDispatched, Named
  <2>1. requests[r].assignee \in Users \cup {Nil}
    BY DEF TrailInv, IInv, JobInv, TypeOK, Stored, Request
  <2>. QED  BY <2>1 DEF TrailInv, CleanInv, NamedInv
<1>. QED  BY <1>1, TrailInductive, PTL

-----------------------------------------------------------------------------

\* Only the rollback ends a create with an error, if no write can fail.
LEMMA ErrorIsUndone ==
  ASSUME IInv, [Next]_vars, MaxFaults = 0, NEW h \in Handlers,
         pc[h] \in Creating, pc'[h] = "error"
  PROVE  requests'[task[h].id] = Nil
<1>. USE DEF IInv, JobInv
<1>. ~StoreFails  BY DEF StoreFails, TypeOK
<1>1. ASSUME NEW k \in Handlers, OthersStay(k), k # h PROVE FALSE
  BY <1>1 DEF OthersStay, Creating
<1>2. ASSUME NEW k \in Handlers,
             \/ Call(k) \/ CheckExists(k) \/ ReceiveNothing(k) \/ Receive(k)
             \/ ProcessStep(k) \/ ChangeStep(k)
      PROVE  FALSE
  <2>1. k # h
    BY <1>2 DEF Call, CreateCall, ProcessCall, ChangeCall, CheckExists,
                ReceiveNothing, Receive, ProcessStep, LoadRequest, ChooseGroup,
                ChooseMember, RecordFailure, Assign, SaveAttempt, RecordDispatched,
                ChangeStep, ChangeStatus, RecordChanged, Ready, Creating
  <2>2. pc' = [pc EXCEPT ![k] = pc'[k]]
    BY <1>2 DEF Call, CreateCall, ProcessCall, ChangeCall, CheckExists,
                ReceiveNothing, Receive, ProcessStep, LoadRequest, ChooseGroup,
                ChooseMember, RecordFailure, Assign, SaveAttempt, RecordDispatched,
                ChangeStep, ChangeStatus, RecordChanged, UpdateRequestStatus,
                Goto, Return, TypeOK
  <2>3. pc'[h] = pc[h]  BY <2>1, <2>2 DEF TypeOK
  <2>. QED  BY <2>3 DEF Creating
<1>3. ASSUME NEW k \in Handlers, CreateStep(k) \/ CancelSend(k)
      PROVE  requests'[task[h].id] = Nil
  <2>1. CASE UndoRequest(k)
    <3>1. Return(k, "error") /\ requests' = [requests EXCEPT ![task[k].id] = Nil]
      BY <2>1 DEF UndoRequest, ReturnFromCreate
    <3>2. OthersStay(k)  BY <3>1, Returned DEF Ready
    <3>3. k = h  BY <3>2, <1>1
    <3>4. task[h].id \in Ids  BY TaskTypes DEF Creating, Ready
    <3>. QED  BY <3>1, <3>3, <3>4 DEF TypeOK
  <2>2. ASSUME NEW label \in PCs \ {"error"}, Goto(k, label) PROVE FALSE
    BY <2>2, Moved DEF Creating
  <2>3. CASE Return(k, "ok")
    <3>1. pc'[k] = "ok" /\ OthersStay(k)  BY <2>3, Returned DEF Ready
    <3>. QED  BY <3>1, <1>1
  <2>. QED
    BY <1>3, <2>1, <2>2, <2>3
       DEF CreateStep, PutRequest, ValidateGroup, ValidateMember, Enqueue, Send,
           RecordCreated, CancelSend, ReturnFromCreate, PCs, Creating
<1>4. CASE Environment
  BY <1>4 DEF Environment, SaveUser, SaveGroup, Close, Restart, Creating
<1>5. CASE UNCHANGED vars  BY <1>5 DEF vars, Creating
<1>. QED  BY <1>2, <1>3, <1>4, <1>5 DEF Next

\* CreateAndDispatch takes its request back when it fails, if no write fails:
\* neither a queue that is closed or full nor a client that is gone leaves a
\* request behind.
THEOREM CleanRollback ==
  ASSUME MaxFaults = 0
  PROVE  Spec => FailedCreateLeavesNoRecord
<1>1. IInv /\ [Next]_vars =>
        [\A h \in Handlers : pc[h] \in Creating /\ pc'[h] = "error" =>
           requests'[task[h].id] = Nil]_vars
  BY ErrorIsUndone
<1>. QED
  BY <1>1, Inductive, PTL DEF Spec, FailedCreateLeavesNoRecord

-----------------------------------------------------------------------------
(***************************************************************************)
(* The queue between the calls.  Calls put jobs into the channel and take  *)
(* them out in steps of their own; together they do no more to it than     *)
(* FifoQueue allows, which JobQueue is proved to implement.                *)
(***************************************************************************)

VARIABLE received   \* history: the jobs taken from the channel, oldest first

Fifo == INSTANCE FifoQueue
          WITH Jobs <- Job, items <- queue, shut <- closed, delivered <- received

\* The history of a step: whoever takes the head of the queue receives it.
Noted ==
  received' = IF \E h \in Handlers : Receive(h)
                THEN Append(received, Head(queue)) ELSE received

ObservedInit == Init /\ received = << >>

ObservedSpec == ObservedInit /\ [][Next /\ Noted]_<<vars, received>>

\* A create that is about to send has found the queue open, and it holds the
\* read lock that Close waits for.
NoLateSend == closed => \A h \in Handlers : pc[h] # "send"

\* What a step that is not about the queue leaves alone, and a move to "send".
LEMMA ChannelSteps ==
  ASSUME TypeOK, Next
  PROVE  \/ UNCHANGED channel /\ \A h \in Handlers :
                                   pc'[h] = "send" => pc[h] = "send" \/ ~closed
         \/ \E h \in Handlers : Send(h) \/ Receive(h)
         \/ Close \/ Restart
<1>. DEFINE Quiet == UNCHANGED channel /\ \A h \in Handlers :
                       pc'[h] = "send" => pc[h] = "send" \/ ~closed
<1>1. ASSUME NEW h \in Handlers, NEW label, label # "send" \/ ~closed,
             pc' = [pc EXCEPT ![h] = label], UNCHANGED channel
      PROVE  Quiet
  BY <1>1 DEF TypeOK
<1>. HIDE DEF Quiet
<1>2. ASSUME NEW h \in Handlers, Call(h) PROVE Quiet
  BY <1>2, <1>1 DEF Call, CreateCall, ProcessCall, ChangeCall, Goto
<1>3. ASSUME NEW h \in Handlers, CheckExists(h) \/ CancelSend(h) \/ ReceiveNothing(h)
      PROVE  Quiet
  BY <1>3, <1>1 DEF CheckExists, CancelSend, ReceiveNothing, Return, Goto
<1>4. ASSUME NEW h \in Handlers, CreateStep(h), ~Send(h) PROVE Quiet
  <2>1. CASE Enqueue(h)  BY <2>1, <1>1 DEF Enqueue, Goto
  <2>2. CASE PutRequest(h)
    BY <2>2, <1>1 DEF PutRequest, ReturnFromCreate, Return, Goto
  <2>3. CASE ValidateGroup(h)  BY <2>3, <1>1 DEF ValidateGroup, Goto
  <2>4. CASE ValidateMember(h)  BY <2>4, <1>1 DEF ValidateMember, Goto
  <2>5. CASE UndoRequest(h) \/ RecordCreated(h)
    BY <2>5, <1>1 DEF UndoRequest, RecordCreated, ReturnFromCreate, Return, Goto
  <2>. QED  BY <1>4, <2>1, <2>2, <2>3, <2>4, <2>5 DEF CreateStep
<1>5. ASSUME NEW h \in Handlers, ProcessStep(h) PROVE Quiet
  BY <1>5, <1>1
     DEF ProcessStep, LoadRequest, ChooseGroup, ChooseMember, RecordFailure,
         Assign, SaveAttempt, RecordDispatched, UpdateRequestStatus, Return, Goto
<1>6. ASSUME NEW h \in Handlers, ChangeStep(h) PROVE Quiet
  BY <1>6, <1>1
     DEF ChangeStep, ChangeStatus, RecordChanged, UpdateRequestStatus, Return, Goto
<1>7. ASSUME NEW u \in Users, SaveUser(u) PROVE Quiet
  BY <1>7 DEF SaveUser, Quiet, channel
<1>8. ASSUME NEW g \in Groups, NEW group \in GroupValues, SaveGroup(g, group)
      PROVE  Quiet
  BY <1>8 DEF SaveGroup, Quiet, channel
<1>9. Quiet \/ (\E h \in Handlers : Send(h) \/ Receive(h)) \/ Close \/ Restart
  BY <1>2, <1>3, <1>4, <1>5, <1>6, <1>7, <1>8 DEF Next, Environment
<1>. QED  BY <1>9 DEF Quiet

LEMMA NoLateSendStep ==
  ASSUME TypeOK, NoLateSend, [Next]_vars PROVE NoLateSend'
<1>1. CASE UNCHANGED channel /\ \A h \in Handlers :
             pc'[h] = "send" => pc[h] = "send" \/ ~closed
  BY <1>1 DEF NoLateSend, channel
<1>2. ASSUME NEW h \in Handlers, Send(h) \/ Receive(h) PROVE NoLateSend'
  <2>1. closed' = closed  BY <1>2 DEF Send, Receive
  <2>2. \A k \in Handlers : pc'[k] = "send" => pc[k] = "send"
    BY <1>2 DEF Send, Receive, Goto, TypeOK
  <2>. QED  BY <2>1, <2>2 DEF NoLateSend
<1>3. CASE Close  BY <1>3 DEF Close, NoLateSend
<1>4. CASE Restart  BY <1>4 DEF Restart, NoLateSend
<1>5. CASE UNCHANGED vars  BY <1>5 DEF vars, NoLateSend
<1>. QED  BY <1>1, <1>2, <1>3, <1>4, <1>5, ChannelSteps

\* No step but Receive takes a job.
LEMMA StepIsFifo ==
  ASSUME TypeOK, TaskInv, NoLateSend, Next, Noted, restarts' = restarts
  PROVE  [Fifo!Next]_<<queue, closed, received>>
<1>1. ASSUME NEW h \in Handlers, Receive(h) PROVE Fifo!Next
  <2>1. queue # << >> /\ queue' = Tail(queue) /\ closed' = closed
    BY <1>1 DEF Receive
  <2>2. received' = Append(received, Head(queue))  BY <1>1 DEF Noted
  <2>. QED  BY <2>1, <2>2 DEF Fifo!Next, Fifo!Get
<1>2. ASSUME NEW h \in Handlers, Send(h) PROVE Fifo!Next
  <2>1. /\ pc[h] = "send" /\ Len(queue) < Capacity /\ closed' = closed
        /\ queue' = Append(queue, [id |-> task[h].id, group |-> task[h].group])
    BY <1>2 DEF Send, HasRoom
  <2>2. [id |-> task[h].id, group |-> task[h].group] \in Job
    <3>1. task[h] \in Task  BY <2>1 DEF TaskInv, TaskOK, Ready
    <3>. QED  BY <3>1 DEF Task, Job
  <2>3. ~closed  BY <2>1 DEF NoLateSend
  <2>4. Len(queue') = Len(queue) + 1  BY <2>1 DEF TypeOK
  <2>5. ASSUME NEW k \in Handlers, Receive(k) PROVE FALSE
    <3>1. queue # << >> /\ queue' = Tail(queue)  BY <2>5 DEF Receive
    <3>. QED  BY <2>4, <3>1 DEF TypeOK
  <2>6. received' = received  BY <2>5 DEF Noted
  <2>. QED  BY <2>1, <2>2, <2>3, <2>6 DEF Fifo!Next, Fifo!Put
<1>3. (\A h \in Handlers : ~Receive(h)) => received' = received
  BY DEF Noted
<1>4. CASE Close
  <2>1. closed' = TRUE /\ queue' = queue  BY <1>4 DEF Close
  <2>2. ASSUME NEW k \in Handlers, Receive(k) PROVE FALSE
    <3>1. queue # << >> /\ queue' = Tail(queue)  BY <2>2 DEF Receive
    <3>. QED  BY <2>1, <3>1 DEF TypeOK
  <2>. QED  BY <2>1, <2>2, <1>3 DEF Fifo!Next, Fifo!Shut
<1>5. CASE Restart  BY <1>5 DEF Restart, TypeOK
<1>6. CASE UNCHANGED channel
  <2>1. closed' = closed /\ queue' = queue  BY <1>6 DEF channel
  <2>2. ASSUME NEW k \in Handlers, Receive(k) PROVE FALSE
    <3>1. queue # << >> /\ queue' = Tail(queue)  BY <2>2 DEF Receive
    <3>. QED  BY <2>1, <3>1 DEF TypeOK
  <2>. QED  BY <2>1, <2>2, <1>3
<1>. QED  BY <1>1, <1>2, <1>4, <1>5, <1>6, ChannelSteps

\* As long as its process runs, the dispatch service uses the queue as a
\* bounded first-in first-out queue: each job is received once and in the
\* order of the sends, and no call sends to the queue after Close.
THEOREM QueueIsFifo ==
  ObservedSpec =>
    Fifo!Init /\ [][restarts' = restarts => Fifo!Next]_<<queue, closed, received>>
<1>1. ObservedInit => Fifo!Init /\ TypeOK /\ TaskInv /\ NoLateSend
  BY InitTypes DEF ObservedInit, Init, Fifo!Init, NoLateSend
<1>2. TypeOK /\ TaskInv /\ NoLateSend /\ [Next /\ Noted]_<<vars, received>>
        => (TypeOK /\ TaskInv /\ NoLateSend)'
  BY TypeStep, NoLateSendStep DEF vars
<1>3. TypeOK /\ TaskInv /\ NoLateSend /\ [Next /\ Noted]_<<vars, received>>
        => [restarts' = restarts => Fifo!Next]_<<queue, closed, received>>
  BY StepIsFifo DEF vars
<1>. QED  BY <1>1, <1>2, <1>3, PTL DEF ObservedSpec

-----------------------------------------------------------------------------
(***************************************************************************)
(* The directory under the dispatch.  Directory is proved to implement     *)
(* Registry; the calls over a Registry are calls in the Environment above. *)
(***************************************************************************)

Accounts == INSTANCE Registry WITH Absent <- Nil

AccountsChange ==
  Accounts!Next /\ UNCHANGED <<store, channel, bounds, mu, pc, task, scan>>

OverRegistry ==
  /\ Init /\ Accounts!Init
  /\ [][(Next /\ UNCHANGED directory) \/ AccountsChange]_vars

\* What the directory can write for a group.
Writable == [active: BOOLEAN, members: Accounts!Lists]

GroupsWritten == groups \in [Groups -> Writable \cup {Nil}]

LEMMA RegistryIsEnvironment ==
  ASSUME Writable \subseteq GroupValues, GroupsWritten, AccountsChange
  PROVE  Environment /\ GroupsWritten'
<1>1. Nil \notin Writable
  BY NilIsNoRecord DEF Writable, Accounts!Lists, AgentGroup
<1>2. ASSUME NEW g \in Groups, NEW group \in Writable,
             groups' = [groups EXCEPT ![g] = group], agents' = agents
      PROVE  Environment /\ GroupsWritten'
  <2>1. SaveGroup(g, group)  BY <1>2 DEF AccountsChange, SaveGroup
  <2>2. GroupsWritten'  BY <1>2 DEF GroupsWritten
  <2>. QED  BY <2>1, <2>2 DEF Environment
<1>3. ASSUME NEW u \in Users, Accounts!SetAgent(u)
      PROVE  Environment /\ GroupsWritten'
  BY <1>3 DEF Accounts!SetAgent, AccountsChange, SaveUser, Environment, GroupsWritten
<1>4. ASSUME NEW g \in Groups, NEW members \in Accounts!Lists,
             Accounts!Create(g, members)
      PROVE  Environment /\ GroupsWritten'
  <2>. DEFINE group == [active |-> TRUE, members |-> members]
  <2>1. group \in Writable  BY DEF Writable
  <2>. QED  BY <2>1, <1>2, <1>4 DEF Accounts!Create
<1>5. ASSUME NEW g \in Groups, NEW members \in Accounts!Lists,
             Accounts!SetMembers(g, members)
      PROVE  Environment /\ GroupsWritten'
  <2>. DEFINE group == [groups[g] EXCEPT !.members = members]
  <2>1. groups[g] \in Writable  BY <1>5 DEF Accounts!SetMembers, GroupsWritten
  <2>2. group \in Writable  BY <2>1 DEF Writable
  <2>3. groups' = [groups EXCEPT ![g] = group] /\ agents' = agents
    BY <1>5 DEF Accounts!SetMembers
  <2>. QED  BY <2>2, <2>3, <1>2
<1>6. ASSUME NEW g \in Groups, NEW active \in BOOLEAN,
             Accounts!SetActive(g, active)
      PROVE  Environment /\ GroupsWritten'
  <2>. DEFINE group == [groups[g] EXCEPT !.active = active]
  <2>1. groups[g] \in Writable  BY <1>6 DEF Accounts!SetActive, GroupsWritten
  <2>2. group \in Writable  BY <2>1 DEF Writable
  <2>3. groups' = [groups EXCEPT ![g] = group] /\ agents' = agents
    BY <1>6 DEF Accounts!SetActive
  <2>. QED  BY <2>2, <2>3, <1>2
<1>. QED  BY <1>3, <1>4, <1>5, <1>6 DEF AccountsChange, Accounts!Next

\* The dispatch service over the directory of accounts and groups is the
\* dispatch service in its environment: what is proved of Spec holds for it.
THEOREM DispatchOverRegistry ==
  ASSUME Writable \subseteq GroupValues
  PROVE  OverRegistry => Spec
<1>1. Init /\ Accounts!Init => GroupsWritten
  BY DEF Accounts!Init, GroupsWritten
<1>2. /\ GroupsWritten
      /\ [(Next /\ UNCHANGED directory) \/ AccountsChange]_vars
      => [Next]_vars /\ GroupsWritten'
  <2>1. GroupsWritten /\ AccountsChange => Next /\ GroupsWritten'
    BY RegistryIsEnvironment DEF Next
  <2>. QED  BY <2>1 DEF vars, directory, GroupsWritten
<1>. QED  BY <1>1, <1>2, PTL DEF OverRegistry, Spec
=============================================================================
