---------------------------- MODULE ProcessProofs ----------------------------
(***************************************************************************)
(* What the proofs about the dispatch core are worth where it is used: for *)
(* the process that runs it, through shutdown and the next start, and for  *)
(* a store whose snapshots are exported and imported.                      *)
(***************************************************************************)
EXTENDS Server, Backup, DispatchProofs

-----------------------------------------------------------------------------
(***************************************************************************)
(* The process.  Its invariant holds while the process shuts down, while   *)
(* handlers outlive the store, and in the next process; and the process is *)
(* a dispatch core to its store.                                           *)
(***************************************************************************)

\* A process that is not over can be counted when it ends.
EndsCounted == main # "exited" => restarts < MaxRestarts

ServerInv ==
  /\ IInv
  /\ main \in Running \cup {"closed", "exited"}
  /\ listening \in BOOLEAN /\ cut \in BOOLEAN
  /\ EndsCounted

LEMMA ServerInitInv == ServerInit => ServerInv
<1>. SUFFICES ASSUME ServerInit PROVE ServerInv
  OBVIOUS
<1>1. IInv  BY InitInv DEF ServerInit
<1>2. EndsCounted  BY RestartAssumption DEF ServerInit, Init, EndsCounted
<1>. QED  BY <1>1, <1>2 DEF ServerInit, ServerInv, Running

-----------------------------------------------------------------------------
\* The steps of the process are steps of the core, or panics.

LEMMA ServeIsNext ==
  ASSUME NEW h \in Handlers, Serve(h)
  PROVE  Next /\ restarts' = restarts /\ UNCHANGED serverVars
<1>1. Next  BY DEF Serve, OwnStep, Receiving, Next
<1>2. restarts' = restarts
  BY DEF Serve, OwnStep, Receiving, Call, CreateCall, ProcessCall, ChangeCall,
         CheckExists, CreateStep, PutRequest, ValidateGroup, ValidateMember,
         Enqueue, Send, UndoRequest, RecordCreated, ProcessStep, LoadRequest,
         ChooseGroup, ChooseMember, RecordFailure, Assign, UpdateRequestStatus,
         SaveAttempt, RecordDispatched, ChangeStep, ChangeStatus, RecordChanged,
         CancelSend, Receive, ReceiveNothing, bounds
<1>. QED  BY <1>1, <1>2 DEF Serve

LEMMA QueueIsNext ==
  ASSUME NEW h \in Handlers, OnQueue(h)
  PROVE  Next /\ UNCHANGED <<store, directory, bounds>>
<1>1. Next  BY DEF OnQueue, Receiving, CreateStep, Next
<1>2. UNCHANGED <<store, directory, bounds>>
  BY DEF OnQueue, Receiving, Enqueue, Send, CancelSend, Receive, ReceiveNothing
<1>. QED  BY <1>1, <1>2

LEMMA EnvironmentIsNext ==
  /\ DirectoryChanges => Next /\ restarts' = restarts /\ UNCHANGED serverVars
  /\ CloseQueue => Next /\ restarts' = restarts
  /\ Exit \/ Die => Next
<1>1. DirectoryChanges => Next /\ restarts' = restarts /\ UNCHANGED serverVars
  BY DEF DirectoryChanges, Next, Environment, SaveUser, SaveGroup, bounds
<1>2. CloseQueue => Next /\ restarts' = restarts
  BY DEF CloseQueue, Next, Environment, Close, bounds
<1>3. Exit \/ Die => Next
  BY DEF Exit, Die, Next, Environment
<1>. QED  BY <1>1, <1>2, <1>3

\* A handler that meets the closed store ends like one that returns: what it
\* holds is given back, what it has written stays.
LEMMA PanicKeeps ==
  ASSUME IInv, NEW h \in Handlers, Panic(h)
  PROVE  IInv'
<1>. USE DEF IInv, JobInv
<1>1. /\ Return(h, "error") /\ "error" \in Ready
      /\ mu' = IF mu = h THEN Nil ELSE mu
      /\ UNCHANGED <<requests, attempts, audits, groups, agents, queue, closed,
                     faults, restarts>>
  BY DEF Panic, store, directory, channel, bounds, Ready
<1>2. mu' \in Handlers \cup {Nil}  BY <1>1 DEF TypeOK
<1>3. /\ requests' \in [Ids -> Request \cup {Nil}]
      /\ attempts' \in [Ids -> Seq(Attempt)]
      /\ audits' \in [Ids -> SUBSET AuditAction]
      /\ faults' \in 0 .. MaxFaults
  BY <1>1 DEF TypeOK
<1>4. TypeOK' /\ TaskInv'  BY <1>1, <1>2, <1>3, ReturnTypes
<1>5. \/ pc[h] \in Creating /\ mu' = Nil
      \/ pc[h] \notin Creating /\ mu' = mu
  BY <1>1 DEF MutexHeld
<1>6. MutexHeld' /\ CoreInv'  BY <1>1, <1>4, <1>5, QuietReturn
<1>7. \A k \in Handlers : pc'[k] = "put" => pc[k] = "put" /\ task'[k] = task[k]
  BY <1>1 DEF TypeOK, Return, Goto
<1>8. UnstoredInv'  BY <1>1, <1>7, PutFrame
<1>. QED  BY <1>4, <1>6, <1>8

LEMMA CoreUnchanged ==
  ASSUME IInv, UNCHANGED vars PROVE IInv'
BY InvStep

LEMMA ServerStepInv == ServerInv /\ [ServerNext]_allVars => ServerInv'
<1>. SUFFICES ASSUME ServerInv, [ServerNext]_allVars PROVE ServerInv'
  OBVIOUS
<1>0. IInv /\ restarts \in Nat /\ MaxRestarts \in Nat
  BY BoundAssumption DEF ServerInv, IInv, JobInv, TypeOK
<1>1. ASSUME NEW h \in Handlers, Serve(h) PROVE ServerInv'
  BY <1>1, ServeIsNext, InvStep DEF ServerInv, EndsCounted, serverVars
<1>2. ASSUME NEW h \in Handlers, ServeWithoutStore(h) PROVE ServerInv'
  <2>1. restarts' = restarts /\ UNCHANGED serverVars
    BY <1>2, QueueIsNext DEF ServeWithoutStore, Panic, bounds
  <2>2. IInv'
    BY <1>0, <1>2, QueueIsNext, PanicKeeps, InvStep DEF ServeWithoutStore
  <2>. QED  BY <2>1, <2>2 DEF ServerInv, EndsCounted, serverVars
<1>3. CASE DirectoryChanges
  BY <1>3, EnvironmentIsNext, InvStep DEF ServerInv, EndsCounted, serverVars
<1>4. CASE StopServing \/ Signal \/ StopListening \/ CloseStore
  <2>1. UNCHANGED vars /\ main # "exited" /\ main' \in Running \cup {"closed"}
        /\ listening' \in BOOLEAN /\ cut' \in BOOLEAN
    BY <1>4 DEF StopServing, Signal, StopListening, CloseStore, Drained, TimedOut,
       ServerInv, Running
  <2>2. IInv' /\ restarts' = restarts  BY <1>0, <2>1, CoreUnchanged DEF vars
  <2>. QED  BY <2>1, <2>2 DEF ServerInv, EndsCounted
<1>5. CASE CloseQueue
  <2>1. IInv' /\ restarts' = restarts  BY <1>0, <1>5, EnvironmentIsNext, InvStep
  <2>. QED  BY <1>5, <2>1 DEF CloseQueue, ServerInv, EndsCounted, Running
<1>6. CASE Exit \/ Die
  <2>1. IInv'  BY <1>0, <1>6, EnvironmentIsNext, InvStep
  <2>. QED  BY <1>6, <2>1 DEF Exit, Die, ServerInv, EndsCounted
<1>7. CASE Boot
  <2>1. IInv' /\ restarts' = restarts
    BY <1>0, <1>7, CoreUnchanged DEF Boot, vars
  <2>. QED  BY <1>7, <2>1 DEF Boot, ServerInv, EndsCounted, Running
<1>8. CASE UNCHANGED allVars
  <2>1. UNCHANGED vars /\ UNCHANGED serverVars  BY <1>8 DEF allVars
  <2>2. IInv' /\ restarts' = restarts  BY <1>0, <2>1, CoreUnchanged DEF vars
  <2>. QED  BY <2>1, <2>2 DEF ServerInv, EndsCounted, serverVars
<1>. QED
  BY <1>1, <1>2, <1>3, <1>4, <1>5, <1>6, <1>7, <1>8 DEF ServerNext, MainStep

-----------------------------------------------------------------------------
\* Refinement.  While the store is open the process and the core it stands
\* for are the same.

LEMMA OpenValues ==
  ASSUME TypeOK, ~AtEnd
  PROVE  /\ (IF AtEnd THEN << >> ELSE queue) = queue
         /\ (~AtEnd /\ closed) = closed
         /\ (IF AtEnd THEN Nil ELSE mu) = mu
         /\ [h \in Handlers |-> IF AtEnd THEN "idle" ELSE pc[h]] = pc
         /\ [h \in Handlers |-> IF AtEnd THEN Nil ELSE task[h]] = task
         /\ [h \in Handlers |-> IF AtEnd THEN << >> ELSE scan[h]] = scan
         /\ (IF AtEnd THEN restarts + 1 ELSE restarts) = restarts
BY DEF TypeOK

LEMMA OpenValuesNext ==
  ASSUME TypeOK', ~AtEnd'
  PROVE  /\ (IF AtEnd' THEN << >> ELSE queue') = queue'
         /\ (~AtEnd' /\ closed') = closed'
         /\ (IF AtEnd' THEN Nil ELSE mu') = mu'
         /\ [h \in Handlers |-> IF AtEnd' THEN "idle" ELSE pc'[h]] = pc'
         /\ [h \in Handlers |-> IF AtEnd' THEN Nil ELSE task'[h]] = task'
         /\ [h \in Handlers |-> IF AtEnd' THEN << >> ELSE scan'[h]] = scan'
         /\ (IF AtEnd' THEN restarts' + 1 ELSE restarts') = restarts'
BY DEF TypeOK

LEMMA OpenCreate ==
  ASSUME TypeOK, TypeOK', ~AtEnd, ~AtEnd', NEW h \in Handlers
  PROVE  /\ \A d \in Drafts : CreateCall(h, d) => Core!CreateCall(h, d)
         /\ CheckExists(h) => Core!CheckExists(h)
         /\ PutRequest(h) => Core!PutRequest(h)
         /\ ValidateGroup(h) => Core!ValidateGroup(h)
         /\ ValidateMember(h) => Core!ValidateMember(h)
         /\ Enqueue(h) => Core!Enqueue(h)
         /\ Send(h) => Core!Send(h)
         /\ CancelSend(h) => Core!CancelSend(h)
         /\ UndoRequest(h) => Core!UndoRequest(h)
         /\ RecordCreated(h) => Core!RecordCreated(h)
<1>. USE OpenValues, OpenValuesNext
       DEF Goto, Core!Goto, Return, Core!Return, Ready, Core!Ready,
           StoreFails, Core!StoreFails, Audit, Core!Audit,
           store, Core!store, directory, Core!directory,
           channel, Core!channel, bounds, Core!bounds
<1>1. ASSUME NEW d \in Drafts, CreateCall(h, d) PROVE Core!CreateCall(h, d)
  BY <1>1 DEF CreateCall, Core!CreateCall
<1>2. CheckExists(h) => Core!CheckExists(h)
  BY DEF CheckExists, Core!CheckExists,
         MutexFree, Core!MutexFree
<1>3. PutRequest(h) => Core!PutRequest(h)
  BY DEF PutRequest, Core!PutRequest,
         Record, Core!Record,
         ReturnFromCreate, Core!ReturnFromCreate
<1>4. ValidateGroup(h) => Core!ValidateGroup(h)
  BY DEF ValidateGroup, Core!ValidateGroup
<1>5. ValidateMember(h) => Core!ValidateMember(h)
  BY DEF ValidateMember, Core!ValidateMember
<1>6. Enqueue(h) => Core!Enqueue(h)
  BY DEF Enqueue, Core!Enqueue
<1>7. Send(h) => Core!Send(h)
  BY DEF Send, Core!Send,
         HasRoom, Core!HasRoom
<1>8. CancelSend(h) => Core!CancelSend(h)
  BY DEF CancelSend, Core!CancelSend
<1>9. UndoRequest(h) => Core!UndoRequest(h)
  BY DEF UndoRequest, Core!UndoRequest,
         ReturnFromCreate, Core!ReturnFromCreate
<1>10. RecordCreated(h) => Core!RecordCreated(h)
  BY DEF RecordCreated, Core!RecordCreated,
         ReturnFromCreate, Core!ReturnFromCreate
<1>. QED  BY <1>1, <1>2, <1>3, <1>4, <1>5, <1>6, <1>7, <1>8, <1>9, <1>10

LEMMA OpenProcess ==
  ASSUME TypeOK, TypeOK', ~AtEnd, ~AtEnd', NEW h \in Handlers
  PROVE  /\ ProcessCall(h) => Core!ProcessCall(h)
         /\ Receive(h) => Core!Receive(h)
         /\ ReceiveNothing(h) => Core!ReceiveNothing(h)
         /\ LoadRequest(h) => Core!LoadRequest(h)
         /\ ChooseGroup(h) => Core!ChooseGroup(h)
         /\ ChooseMember(h) => Core!ChooseMember(h)
         /\ RecordFailure(h) => Core!RecordFailure(h)
         /\ Assign(h) => Core!Assign(h)
         /\ SaveAttempt(h) => Core!SaveAttempt(h)
         /\ RecordDispatched(h) => Core!RecordDispatched(h)
<1>. USE OpenValues, OpenValuesNext
       DEF Goto, Core!Goto, Return, Core!Return, Ready, Core!Ready,
           StoreFails, Core!StoreFails, Audit, Core!Audit,
           store, Core!store, directory, Core!directory,
           channel, Core!channel, bounds, Core!bounds
<1>1. ProcessCall(h) => Core!ProcessCall(h)
  BY DEF ProcessCall, Core!ProcessCall
<1>2. Receive(h) => Core!Receive(h)
  BY DEF Receive, Core!Receive
<1>3. ReceiveNothing(h) => Core!ReceiveNothing(h)
  BY DEF ReceiveNothing, Core!ReceiveNothing
<1>4. LoadRequest(h) => Core!LoadRequest(h)
  BY DEF LoadRequest, Core!LoadRequest
<1>5. ChooseGroup(h) => Core!ChooseGroup(h)
  BY DEF ChooseGroup, Core!ChooseGroup
<1>6. ChooseMember(h) => Core!ChooseMember(h)
  BY DEF ChooseMember, Core!ChooseMember
<1>7. RecordFailure(h) => Core!RecordFailure(h)
  BY DEF RecordFailure, Core!RecordFailure
<1>8. Assign(h) => Core!Assign(h)
  BY DEF Assign, Core!Assign,
         UpdateRequestStatus, Core!UpdateRequestStatus,
         CanTransition, Core!CanTransition,
         Record, Core!Record
<1>9. SaveAttempt(h) => Core!SaveAttempt(h)
  BY DEF SaveAttempt, Core!SaveAttempt
<1>10. RecordDispatched(h) => Core!RecordDispatched(h)
  BY DEF RecordDispatched, Core!RecordDispatched
<1>. QED  BY <1>1, <1>2, <1>3, <1>4, <1>5, <1>6, <1>7, <1>8, <1>9, <1>10

LEMMA OpenChange ==
  ASSUME TypeOK, TypeOK', ~AtEnd, ~AtEnd', NEW h \in Handlers
  PROVE  /\ \A r \in Ids, word \in StatusInputs, actor \in Users \cup {Nil} :
              ChangeCall(h, r, word, actor) => Core!ChangeCall(h, r, word, actor)
         /\ ChangeStatus(h) => Core!ChangeStatus(h)
         /\ RecordChanged(h) => Core!RecordChanged(h)
<1>. USE OpenValues, OpenValuesNext
       DEF Goto, Core!Goto, Return, Core!Return, Ready, Core!Ready,
           StoreFails, Core!StoreFails, Audit, Core!Audit,
           store, Core!store, directory, Core!directory,
           channel, Core!channel, bounds, Core!bounds
<1>1. ASSUME NEW r \in Ids, NEW word \in StatusInputs,
             NEW actor \in Users \cup {Nil}, ChangeCall(h, r, word, actor)
      PROVE  Core!ChangeCall(h, r, word, actor)
  BY <1>1 DEF ChangeCall, Core!ChangeCall,
         Changeable, Core!Changeable,
         NormalizeStatus, Core!NormalizeStatus,
         IsTerminal, Core!IsTerminal,
         AllowedStatuses, Core!AllowedStatuses
<1>2. ChangeStatus(h) => Core!ChangeStatus(h)
  BY DEF ChangeStatus, Core!ChangeStatus,
         UpdateRequestStatus, Core!UpdateRequestStatus,
         CanTransition, Core!CanTransition,
         Record, Core!Record
<1>3. RecordChanged(h) => Core!RecordChanged(h)
  BY DEF RecordChanged, Core!RecordChanged
<1>. QED  BY <1>1, <1>2, <1>3

LEMMA OpenCall ==
  ASSUME TypeOK, TypeOK', ~AtEnd, ~AtEnd', NEW h \in Handlers, Serve(h)
  PROVE  Core!Next
<1>1. Call(h) => Core!Call(h)
  BY OpenCreate, OpenProcess, OpenChange DEF Call, Core!Call
<1>2. CreateStep(h) => Core!CreateStep(h)
  BY OpenCreate DEF CreateStep, Core!CreateStep
<1>3. ProcessStep(h) => Core!ProcessStep(h)
  BY OpenProcess DEF ProcessStep, Core!ProcessStep
<1>4. ChangeStep(h) => Core!ChangeStep(h)
  BY OpenChange DEF ChangeStep, Core!ChangeStep
<1>5. /\ CheckExists(h) => Core!CheckExists(h)
      /\ CancelSend(h) => Core!CancelSend(h)
      /\ Receive(h) => Core!Receive(h)
      /\ ReceiveNothing(h) => Core!ReceiveNothing(h)
  BY OpenCreate, OpenProcess
<1>6. \/ Call(h) \/ CheckExists(h) \/ CreateStep(h) \/ CancelSend(h)
      \/ Receive(h) \/ ReceiveNothing(h) \/ ProcessStep(h) \/ ChangeStep(h)
  BY DEF Serve, OwnStep, Receiving
<1>. QED  BY <1>1, <1>2, <1>3, <1>4, <1>5, <1>6 DEF Core!Next

LEMMA OpenEnvironment ==
  ASSUME TypeOK, TypeOK', ~AtEnd, ~AtEnd'
  PROVE  /\ DirectoryChanges => Core!Environment
         /\ Close => Core!Environment
         /\ Restart => Core!Environment
<1>. USE OpenValues, OpenValuesNext
     DEF store, Core!store, directory, Core!directory,
         channel, Core!channel, bounds, Core!bounds
<1>1. ASSUME NEW u \in Users, SaveUser(u) PROVE Core!SaveUser(u)
  BY <1>1 DEF SaveUser, Core!SaveUser
<1>2. ASSUME NEW g \in Groups, NEW group \in GroupValues, SaveGroup(g, group)
      PROVE  Core!SaveGroup(g, group)
  BY <1>2 DEF SaveGroup, Core!SaveGroup
<1>3. Close => Core!Close  BY DEF Close, Core!Close
<1>4. Restart => Core!Restart  BY DEF Restart, Core!Restart
<1>. QED  BY <1>1, <1>2, <1>3, <1>4 DEF DirectoryChanges, Core!Environment

LEMMA OpenStutter ==
  ASSUME TypeOK, TypeOK', ~AtEnd, ~AtEnd', UNCHANGED vars
  PROVE  UNCHANGED Core!vars
BY OpenValues, OpenValuesNext DEF vars, Core!vars

\* To its store the process ends when the store is closed ...
LEMMA ClosingEnds ==
  ASSUME TypeOK, ~AtEnd, AtEnd', restarts < MaxRestarts, UNCHANGED vars
  PROVE  Core!Restart
<1>1. restarts \in Nat  BY DEF TypeOK
<1>. QED
  BY <1>1, OpenValues
     DEF Core!Restart, Core!store, Core!directory, vars

\* ... and whatever happens until main returns leaves no trace.
LEMMA EndedStutters ==
  ASSUME AtEnd, AtEnd', UNCHANGED <<store, directory, bounds>>
  PROVE  UNCHANGED Core!vars
BY DEF Core!vars, store, directory, bounds

LEMMA ExitStutters ==
  ASSUME TypeOK', AtEnd, ~AtEnd', Restart
  PROVE  UNCHANGED Core!vars
BY OpenValuesNext DEF Restart, Core!vars, store, directory

LEMMA ServerInitRefines == ServerInit => Core!Init
<1>. SUFFICES ASSUME ServerInit PROVE Core!Init
  OBVIOUS
<1>1. TypeOK /\ ~AtEnd  BY InitTypes DEF ServerInit, AtEnd
<1>. QED  BY <1>1, OpenValues DEF ServerInit, Init, Core!Init, Core!AgentGroup

LEMMA ServerStepRefines ==
  ServerInv /\ ServerInv' /\ [ServerNext]_allVars => [Core!Next]_Core!vars
<1>. SUFFICES ASSUME ServerInv, ServerInv', [ServerNext]_allVars
              PROVE  Core!Next \/ UNCHANGED Core!vars
  OBVIOUS
<1>0. TypeOK /\ TypeOK'  BY DEF ServerInv, IInv, JobInv
<1>1. ASSUME NEW h \in Handlers, Serve(h) PROVE Core!Next
  <2>1. ~AtEnd /\ ~AtEnd'  BY <1>1 DEF Serve, Down, AtEnd, serverVars
  <2>. QED  BY <1>0, <1>1, <2>1, OpenCall
<1>2. ASSUME NEW h \in Handlers, ServeWithoutStore(h)
      PROVE  UNCHANGED Core!vars
  <2>1. AtEnd /\ AtEnd'  BY <1>2 DEF ServeWithoutStore, AtEnd, serverVars
  <2>2. UNCHANGED <<store, directory, bounds>>
    BY <1>2, QueueIsNext DEF ServeWithoutStore, Panic
  <2>. QED  BY <2>1, <2>2, EndedStutters
<1>3. CASE DirectoryChanges
  <2>1. ~AtEnd /\ ~AtEnd'  BY <1>3 DEF DirectoryChanges, Down, AtEnd, serverVars
  <2>. QED  BY <1>0, <1>3, <2>1, OpenEnvironment DEF Core!Next
<1>4. CASE StopServing \/ Signal \/ StopListening \/ Boot
  <2>1. ~AtEnd /\ ~AtEnd' /\ UNCHANGED vars
    BY <1>4 DEF StopServing, Signal, StopListening, Boot, AtEnd
  <2>. QED  BY <1>0, <2>1, OpenStutter
<1>5. CASE CloseQueue
  <2>1. ~AtEnd /\ ~AtEnd' /\ Close  BY <1>5 DEF CloseQueue, AtEnd
  <2>. QED  BY <1>0, <2>1, OpenEnvironment DEF Core!Next
<1>6. CASE CloseStore
  <2>1. /\ ~AtEnd /\ AtEnd' /\ UNCHANGED vars /\ restarts < MaxRestarts
    BY <1>6 DEF CloseStore, Drained, TimedOut, AtEnd, ServerInv, EndsCounted
  <2>. QED  BY <1>0, <2>1, ClosingEnds DEF Core!Next, Core!Environment
<1>7. CASE Exit
  <2>1. AtEnd /\ ~AtEnd' /\ Restart  BY <1>7 DEF Exit, AtEnd
  <2>. QED  BY <1>0, <2>1, ExitStutters
<1>8. CASE Die
  <2>1. ~AtEnd /\ ~AtEnd' /\ Restart  BY <1>8 DEF Die, AtEnd, Running
  <2>. QED  BY <1>0, <2>1, OpenEnvironment DEF Core!Next
<1>9. CASE UNCHANGED allVars
  <2>1. UNCHANGED vars /\ main' = main  BY <1>9 DEF allVars, serverVars
  <2>2. CASE AtEnd
    BY <2>1, <2>2, EndedStutters DEF AtEnd, vars, store, directory, bounds
  <2>3. CASE ~AtEnd
    BY <1>0, <2>1, <2>3, OpenStutter DEF AtEnd
  <2>. QED  BY <2>2, <2>3
<1>. QED
  BY <1>1, <1>2, <1>3, <1>4, <1>5, <1>6, <1>7, <1>8, <1>9 DEF ServerNext, MainStep

-----------------------------------------------------------------------------

(***************************************************************************)
(* What a shutdown leaves behind that was not cut short.                   *)
(***************************************************************************)

\* Main got past Shutdown only when all calls had returned, and no call was
\* lost before, in this process or an earlier one.
ExitInv ==
  /\ BodyInv
  /\ Down /\ ~cut => Idle
  /\ ~cut /\ faults = 0 => RecordedInv

LEMMA ServerInitExit == ServerInit => ExitInv
BY InitIsClean DEF ServerInit, ExitInv, CleanInv, Down

\* A handler that panics drops its body.
LEMMA PanicBody ==
  ASSUME IInv, BodyInv, NEW h \in Handlers, Panic(h)
  PROVE  BodyInv' /\ faults' = faults
<1>1. OthersStay(h) /\ pc'[h] = "error"
  BY Returned DEF Panic, Ready, IInv, JobInv
<1>2. faults' = faults  BY DEF Panic, bounds
<1>. QED  BY <1>1, <1>2, BodyStays DEF Creating, Dispatching

\* A step of the core that loses no call.
LEMMA CoreStepExit ==
  ASSUME IInv, ExitInv, [Next]_vars, restarts' = restarts, cut' = cut,
         Down' /\ ~cut => Idle'
  PROVE  ExitInv'
<1>1. BodyInv'  BY BodyStep DEF ExitInv
<1>2. ASSUME ~cut, faults' = 0 PROVE RecordedInv'
  <2>1. faults = 0 /\ UNCHANGED bounds
    BY <1>2, FaultsCounted DEF StoreFails, IInv, JobInv, TypeOK, bounds
  <2>. QED  BY <1>2, <2>1, CleanStep DEF ExitInv, CleanKept
<1>. QED  BY <1>1, <1>2 DEF ExitInv

LEMMA RestartExit ==
  ASSUME IInv, ExitInv, Restart, cut' = cut, ~cut => Idle
  PROVE  ExitInv'
<1>1. BodyInv'  BY BodyStep DEF ExitInv, Next, Environment
<1>2. \A h \in Handlers : pc'[h] = "idle"  BY DEF Restart
<1>3. Idle'  BY <1>2 DEF Idle, Ready
<1>4. ASSUME ~cut, faults' = 0 PROVE RecordedInv'
  <2>1. faults = 0 /\ UNCHANGED <<requests, attempts, audits>>
    BY <1>4 DEF Restart, store
  <2>2. \A r \in Ids : ~At(Tentative \cup {"created"}, r) /\ ~At({"dispatched"}, r)
    BY <1>4 DEF Idle, At, Ready, Tentative
  <2>. QED  BY <1>4, <2>1, <2>2 DEF ExitInv, RecordedInv, Stored
<1>. QED  BY <1>1, <1>3, <1>4 DEF ExitInv

LEMMA ServerStepExit == ServerInv /\ ExitInv /\ [ServerNext]_allVars => ExitInv'
<1>. SUFFICES ASSUME ServerInv, ExitInv, [ServerNext]_allVars PROVE ExitInv'
  OBVIOUS
<1>0. IInv  BY DEF ServerInv
<1>1. ASSUME NEW h \in Handlers, Serve(h) PROVE ExitInv'
  <2>1. ~Down /\ ~Down'  BY <1>1 DEF Serve, serverVars, Down
  <2>. QED  BY <1>0, <1>1, <2>1, ServeIsNext, CoreStepExit DEF serverVars
<1>2. ASSUME NEW h \in Handlers, ServeWithoutStore(h) PROVE ExitInv'
  <2>1. pc[h] \notin Ready
    BY <1>2 DEF ServeWithoutStore, OnQueue, Receiving, Enqueue, Send, CancelSend,
                Receive, ReceiveNothing, Panic, Ready
  <2>2. main = "closed" /\ cut' = cut  BY <1>2 DEF ServeWithoutStore, serverVars
  <2>3. cut  BY <2>1, <2>2 DEF ExitInv, Down, Idle
  <2>4. BodyInv'
    BY <1>0, <1>2, QueueIsNext, PanicBody, BodyStep DEF ServeWithoutStore, ExitInv
  <2>. QED  BY <2>2, <2>3, <2>4 DEF ExitInv
<1>3. CASE DirectoryChanges
  <2>1. ~Down /\ ~Down'  BY <1>3 DEF DirectoryChanges, serverVars, Down
  <2>. QED  BY <1>0, <1>3, <2>1, EnvironmentIsNext, CoreStepExit DEF serverVars
<1>4. CASE /\ UNCHANGED <<vars, cut>>
           /\ Down' /\ ~cut => Idle
  <2>1. restarts' = restarts /\ (Idle' <=> Idle)  BY <1>4 DEF vars, Idle
  <2>. QED  BY <1>0, <1>4, <2>1, CoreStepExit
<1>5. CASE StopServing \/ Signal \/ StopListening \/ Drained \/ Boot
  <2>1. UNCHANGED <<vars, cut>> /\ (Down' /\ ~cut => Idle)
    BY <1>5 DEF StopServing, Signal, StopListening, Drained, Boot, Down, ExitInv
  <2>. QED  BY <1>4, <2>1
<1>6. CASE CloseQueue
  <2>1. ~Down' /\ cut' = cut  BY <1>6 DEF CloseQueue, Down
  <2>. QED  BY <1>0, <1>6, <2>1, EnvironmentIsNext, CoreStepExit
<1>7. CASE TimedOut
  <2>1. BodyInv' /\ cut'  BY <1>7 DEF TimedOut, ExitInv, BodyInv, vars
  <2>. QED  BY <2>1 DEF ExitInv
<1>8. CASE Exit
  <2>1. Restart /\ cut' = cut /\ (~cut => Idle)  BY <1>8 DEF Exit, ExitInv, Down
  <2>. QED  BY <1>0, <2>1, RestartExit
<1>9. CASE Die
  <2>1. BodyInv'  BY <1>0, <1>9, BodyStep DEF Die, ExitInv, Next, Environment
  <2>. QED  BY <1>9, <2>1 DEF Die, ExitInv
<1>10. CASE UNCHANGED allVars
  <2>1. UNCHANGED <<vars, cut>> /\ (Down' <=> Down)
    BY <1>10 DEF allVars, serverVars, Down
  <2>. QED  BY <1>4, <2>1 DEF ExitInv
<1>. QED
  BY <1>1, <1>2, <1>3, <1>5, <1>6, <1>7, <1>8, <1>9, <1>10
     DEF ServerNext, MainStep, CloseStore

-----------------------------------------------------------------------------

\* The invariant of the dispatch core holds of the process, through shutdown,
\* panics on the closed store, exit, kill and the next start.
THEOREM ServerInductive == ServerSpec => []ServerInv
BY ServerInitInv, ServerStepInv, PTL DEF ServerSpec

\* newProcess and main of cmd/server: process, queue and store keep their types.
THEOREM ServerTypeCorrect == ServerSpec => []ServerTypeOK
<1>1. ServerInv => ServerTypeOK  BY DEF ServerInv, ServerTypeOK, IInv, JobInv
<1>. QED  BY <1>1, ServerInductive, PTL

\* Service.CreateAndDispatch and ProcessQueue, in the process: a job always
\* finds its request, and no request is dispatched twice, in one process or
\* in two.
THEOREM ServerDispatchesOnce == ServerSpec => [](JobHasRecord /\ AtMostOneDispatch)
<1>1. ServerInv => IInv  BY DEF ServerInv
<1>2. IInv => JobHasRecord /\ AtMostOneDispatch
  BY DEF IInv, JobInv, CoreInv, QueueInv, CarryInv, JobHasRecord, Queued, At, Stored,
         Carrying
<1>. QED  BY <1>1, <1>2, ServerInductive, PTL

\* main of cmd/server: to its store the process is the dispatch core.
THEOREM ServerRefinement == ServerSpec => ImplementsDispatch
<1>. USE DEF ServerSpec, ImplementsDispatch, Core!Spec
<1>. QED  BY ServerInitRefines, ServerStepRefines, ServerInductive, PTL

\* main of cmd/server: a shutdown that is not cut short leaves nothing half
\* done and, if no write ever failed, nothing off the record.
THEOREM CleanExit == ServerSpec => []ExitIsClean
<1>1. ServerInit => ServerInv /\ ExitInv  BY ServerInitInv, ServerInitExit
<1>2. ServerInv /\ ExitInv /\ [ServerNext]_allVars => (ServerInv /\ ExitInv)'
  BY ServerStepInv, ServerStepExit
<1>3. ExitInv => ExitIsClean
  BY DEF ExitInv, ExitIsClean, RecordedInv, Idle, At, Ready, Tentative
<1>. QED  BY <1>1, <1>2, <1>3, PTL DEF ServerSpec

-----------------------------------------------------------------------------
(***************************************************************************)
(* Snapshots.  What is proved of jobs survives exports and imports of any  *)
(* number of them, and what they hold refers to nothing they lack.         *)
(***************************************************************************)

\* A snapshot knows a beginning of what happened: no attempt or the one there
\* is, and some of the events.
PastInv ==
  \A s \in snapshots, r \in Ids :
    /\ s.attempts[r] \in {<< >>, attempts[r]}
    /\ s.audits[r] \subseteq audits[r]

SnapshotInv ==
  /\ snapshots \subseteq Snapshot
  /\ PastInv
  /\ \A s \in snapshots : RefersToRecords(s)

\* Whoever has read the members of a group, and what became of it, names a
\* group that is stored: none is ever deleted.
HasGroup == {"choose", "assign", "attempt"}

GroupInv ==
  /\ \A h \in Handlers : pc[h] \in HasGroup => groups[task[h].group] # Nil
  /\ \A r \in Ids : \A i \in 1 .. Len(attempts[r]) :
       groups[attempts[r][i].group] # Nil

\* UnstoredInv is not among this: an import may store a request that a create
\* has found missing and is about to put.
BackupInv == JobInv /\ GroupInv /\ SnapshotInv

LEMMA BackupInitInv == BackupInit => BackupInv
<1>. SUFFICES ASSUME BackupInit PROVE BackupInv
  OBVIOUS
<1>1. JobInv /\ SnapshotInv
  BY InitInv DEF BackupInit, SnapshotInv, PastInv, IInv
<1>2. /\ \A h \in Handlers : pc[h] = "idle"
      /\ \A r \in Ids : attempts[r] = << >>
  BY DEF BackupInit, Init
<1>3. GroupInv  BY <1>2 DEF GroupInv, HasGroup
<1>. QED  BY <1>1, <1>3 DEF BackupInv

-----------------------------------------------------------------------------

\* What is stored refers to what is stored, and an export has the type of a
\* snapshot.
LEMMA CapturedRefers ==
  JobInv /\ GroupInv => Captured \in Snapshot /\ RefersToRecords(Captured)
<1>. SUFFICES ASSUME JobInv, GroupInv
              PROVE  Captured \in Snapshot /\ RefersToRecords(Captured)
  OBVIOUS
<1>1. Captured \in Snapshot  BY DEF JobInv, TypeOK, Captured, Snapshot
<1>2. RefersToRecords(Captured)
  BY DEF JobInv, CoreInv, AbsentInv, DispatchedInv, GroupInv, Outcomes, Captured,
         RefersToRecords
<1>. QED  BY <1>1, <1>2

\* Attempts and events are never lost, and there is one attempt at most.
Grows ==
  \A r \in Ids : /\ attempts[r] \in {<< >>, attempts'[r]}
                 /\ audits[r] \subseteq audits'[r]

LEMMA CoreGrows ==
  ASSUME JobInv, [Next]_vars PROVE Grows
<1>. USE DEF store, directory, channel, bounds
<1>0. attempts \in [Ids -> Seq(Attempt)] /\ audits \in [Ids -> SUBSET AuditAction]
  BY DEF JobInv, TypeOK
<1>1. CASE UNCHANGED <<attempts, audits>>  BY <1>1 DEF Grows
<1>2. ASSUME NEW h \in Handlers, SaveAttempt(h) PROVE Grows
  <2>1. attempts[task[h].id] = << >>
    BY <1>2 DEF SaveAttempt, JobInv, CoreInv, CarryInv, Carrying, Dispatching
  <2>2. \A r \in Ids : r # task[h].id => attempts'[r] = attempts[r]
    BY <1>0, <1>2 DEF SaveAttempt
  <2>. QED  BY <1>2, <2>1, <2>2 DEF SaveAttempt, Grows
<1>3. ASSUME NEW r, NEW action, Audit(r, action), UNCHANGED attempts PROVE Grows
  BY <1>0, <1>3 DEF Audit, Grows
<1>4. ASSUME NEW h \in Handlers,
             \/ RecordCreated(h) \/ RecordFailure(h) \/ RecordDispatched(h)
             \/ RecordChanged(h)
      PROVE  Grows
  BY <1>1, <1>3, <1>4
     DEF RecordCreated, RecordFailure, RecordDispatched, RecordChanged
<1>5. ASSUME NEW h \in Handlers,
             \/ Call(h) \/ CheckExists(h) \/ PutRequest(h) \/ ValidateGroup(h)
             \/ ValidateMember(h) \/ Enqueue(h) \/ Send(h) \/ UndoRequest(h)
             \/ CancelSend(h) \/ Receive(h) \/ ReceiveNothing(h) \/ LoadRequest(h)
             \/ ChooseGroup(h) \/ ChooseMember(h) \/ Assign(h) \/ ChangeStatus(h)
      PROVE  UNCHANGED <<attempts, audits>>
  BY <1>5
     DEF Call, CreateCall, ProcessCall, ChangeCall, CheckExists, PutRequest,
         ValidateGroup, ValidateMember, Enqueue, Send, UndoRequest, CancelSend,
         Receive, ReceiveNothing, LoadRequest, ChooseGroup, ChooseMember, Assign,
         ChangeStatus, UpdateRequestStatus
<1>6. Environment => UNCHANGED <<attempts, audits>>
  BY DEF Environment, SaveUser, SaveGroup, Close, Restart
<1>7. UNCHANGED vars => UNCHANGED <<attempts, audits>>  BY DEF vars
<1>. QED
  BY <1>1, <1>2, <1>4, <1>5, <1>6, <1>7
     DEF Next, CreateStep, ProcessStep, ChangeStep

-----------------------------------------------------------------------------

\* A handler that goes where it needs no group leaves the others theirs.
LEMMA AwayKeepsGroups ==
  ASSUME GroupInv, NEW h \in Handlers, pc'[h] \notin HasGroup,
         \A k \in Handlers \ {h} : pc'[k] = pc[k] /\ task'[k] = task[k],
         UNCHANGED <<groups, attempts>>
  PROVE  GroupInv'
BY DEF GroupInv

\* Directories only grow.
LEMMA GrowingKeepsGroups ==
  ASSUME GroupInv, TypeOK, TaskInv, UNCHANGED <<attempts, pc, task>>,
         \A g \in Groups : groups[g] # Nil => groups'[g] # Nil
  PROVE  GroupInv'
<1>1. ASSUME NEW h \in Handlers, pc[h] \in HasGroup
      PROVE  groups'[task[h].group] # Nil
  BY <1>1 DEF GroupInv, TaskInv, TaskOK, Task, HasGroup, Ready
<1>2. ASSUME NEW r \in Ids, NEW i \in 1 .. Len(attempts[r])
      PROVE  groups'[attempts[r][i].group] # Nil
  <2>1. attempts[r] \in Seq(Attempt)  BY DEF TypeOK
  <2>2. attempts[r][i] \in Attempt  BY <2>1
  <2>3. attempts[r][i].group \in Groups  BY <2>2 DEF Attempt
  <2>. QED  BY <2>3 DEF GroupInv
<1>. QED  BY <1>1, <1>2 DEF GroupInv

\* The steps of a dispatch that rely on the group.
LEMMA DispatchKeepsGroups ==
  ASSUME GroupInv, TypeOK, TaskInv, NEW h \in Handlers,
         ChooseGroup(h) \/ ChooseMember(h) \/ Assign(h) \/ SaveAttempt(h)
  PROVE  GroupInv'
<1>. USE DEF store, directory
<1>1. /\ task[h] \in Task
      /\ \A k \in Handlers \ {h} : pc'[k] = pc[k] /\ task'[k] = task[k]
      /\ groups' = groups
  BY DEF TypeOK, TaskInv, TaskOK, Ready, ChooseGroup, ChooseMember, Assign,
         SaveAttempt, UpdateRequestStatus, Goto, Return
<1>2. CASE pc'[h] \notin HasGroup /\ attempts' = attempts
  BY <1>1, <1>2, AwayKeepsGroups
<1>3. CASE /\ attempts' = attempts /\ groups[task'[h].group] # Nil
  BY <1>1, <1>3 DEF GroupInv
<1>4. ASSUME ChooseGroup(h)
      PROVE  attempts' = attempts /\ (pc'[h] \in HasGroup => groups[task'[h].group] # Nil)
  BY <1>4 DEF ChooseGroup, TypeOK, HasGroup, Goto
<1>5. ASSUME ChooseMember(h)
      PROVE  attempts' = attempts /\ (pc'[h] \in HasGroup => groups[task'[h].group] # Nil)
  <2>1. groups[task[h].group] # Nil
    BY <1>5 DEF ChooseMember, GroupInv, HasGroup
  <2>2. task'[h].group = task[h].group
    BY <1>1, <1>5 DEF ChooseMember, TypeOK, Task
  <2>. QED  BY <1>5, <2>1, <2>2 DEF ChooseMember
<1>6. ASSUME Assign(h)
      PROVE  attempts' = attempts /\ (pc'[h] \in HasGroup => groups[task'[h].group] # Nil)
  <2>1. groups[task[h].group] # Nil
    BY <1>6 DEF Assign, GroupInv, HasGroup
  <2>2. pc'[h] \in HasGroup => task' = task
    BY <1>6 DEF Assign, UpdateRequestStatus, Return, Goto, TypeOK, HasGroup
  <2>. QED  BY <1>6, <2>1, <2>2 DEF Assign, UpdateRequestStatus
<1>7. ASSUME SaveAttempt(h) PROVE GroupInv'
  <2>1. groups[task[h].group] # Nil /\ pc'[h] \notin HasGroup
    BY <1>7 DEF SaveAttempt, GroupInv, HasGroup, TypeOK, Goto, Return
  <2>2. CASE attempts' = attempts  BY <1>1, <2>1, <2>2, AwayKeepsGroups
  <2>3. CASE attempts' = [attempts EXCEPT ![task[h].id] =
               Append(@, [group |-> task[h].group, agent |-> task[h].assignee])]
    <3>1. \A k \in Handlers : pc'[k] \in HasGroup => groups'[task'[k].group] # Nil
      BY <1>1, <2>1 DEF GroupInv
    <3>2. ASSUME NEW r \in Ids, NEW i \in 1 .. Len(attempts'[r])
          PROVE  groups'[attempts'[r][i].group] # Nil
      <4>1. attempts[r] \in Seq(Attempt)  BY DEF TypeOK
      <4>2. CASE r # task[h].id
        BY <1>1, <2>3, <3>2, <4>2 DEF GroupInv, TypeOK
      <4>3. CASE r = task[h].id
        <5> DEFINE new == [group |-> task[h].group, agent |-> task[h].assignee]
        <5>1. attempts'[r] = Append(attempts[r], new)
          BY <2>3, <4>3 DEF TypeOK
        <5>2. new.group = task[h].group  OBVIOUS
        <5> HIDE DEF new
        <5>3. /\ i = Len(attempts[r]) + 1 => attempts'[r][i] = new
              /\ i # Len(attempts[r]) + 1 =>
                   i \in 1 .. Len(attempts[r]) /\ attempts'[r][i] = attempts[r][i]
          BY <3>2, <4>1, <5>1
        <5>. QED  BY <1>1, <2>1, <5>2, <5>3 DEF GroupInv
      <4>. QED  BY <4>2, <4>3
    <3>. QED  BY <3>1, <3>2 DEF GroupInv
  <2>. QED  BY <1>7, <2>2, <2>3 DEF SaveAttempt
<1>. QED  BY <1>2, <1>3, <1>4, <1>5, <1>6, <1>7

LEMMA GroupStep ==
  ASSUME JobInv, GroupInv, [Next]_vars PROVE GroupInv'
<1>. USE DEF store, directory, channel, bounds
<1>0. TypeOK /\ TaskInv  BY DEF JobInv
<1>1. CASE UNCHANGED vars  BY <1>1 DEF vars, GroupInv
<1>2. ASSUME NEW h \in Handlers,
             ChooseGroup(h) \/ ChooseMember(h) \/ Assign(h) \/ SaveAttempt(h)
      PROVE  GroupInv'
  BY <1>0, <1>2, DispatchKeepsGroups
<1>3. ASSUME NEW h \in Handlers,
             \/ Call(h) \/ CheckExists(h) \/ PutRequest(h) \/ ValidateGroup(h)
             \/ ValidateMember(h) \/ Enqueue(h) \/ Send(h) \/ UndoRequest(h)
             \/ CancelSend(h) \/ RecordCreated(h)
      PROVE  GroupInv'
  <2>1. /\ \A k \in Handlers \ {h} : pc'[k] = pc[k] /\ task'[k] = task[k]
        /\ UNCHANGED <<groups, attempts>>
        /\ pc'[h] \notin HasGroup
    BY <1>0, <1>3
       DEF TypeOK, Call, CreateCall, ProcessCall, ChangeCall, CheckExists, PutRequest,
           ValidateGroup, ValidateMember, Enqueue, Send, UndoRequest, CancelSend,
           RecordCreated, ReturnFromCreate, Return, Goto, HasGroup
  <2>. QED  BY <2>1, AwayKeepsGroups
<1>4. ASSUME NEW h \in Handlers,
             \/ Receive(h) \/ ReceiveNothing(h) \/ LoadRequest(h)
             \/ RecordFailure(h) \/ RecordDispatched(h)
             \/ ChangeStatus(h) \/ RecordChanged(h)
      PROVE  GroupInv'
  <2>1. /\ \A k \in Handlers \ {h} : pc'[k] = pc[k] /\ task'[k] = task[k]
        /\ UNCHANGED <<groups, attempts>>
        /\ pc'[h] \notin HasGroup
    BY <1>0, <1>4
       DEF TypeOK, Receive, ReceiveNothing, LoadRequest, RecordFailure,
           RecordDispatched, ChangeStatus, RecordChanged, UpdateRequestStatus,
           Return, Goto, HasGroup
  <2>. QED  BY <2>1, AwayKeepsGroups
<1>5. ASSUME NEW u \in Users, SaveUser(u) PROVE GroupInv'
  BY <1>5 DEF SaveUser, GroupInv
<1>6. ASSUME NEW g \in Groups, NEW group \in GroupValues, SaveGroup(g, group)
      PROVE  GroupInv'
  <2>1. group # Nil  BY InputAssumption, NilIsNoRecord
  <2>2. \A f \in Groups : groups[f] # Nil => groups'[f] # Nil
    BY <1>0, <1>6, <2>1 DEF SaveGroup, TypeOK
  <2>. QED  BY <1>0, <1>6, <2>2, GrowingKeepsGroups DEF SaveGroup
<1>7. CASE Close  BY <1>7 DEF Close, GroupInv
<1>8. CASE Restart
  <2>1. /\ \A h \in Handlers : pc'[h] \notin HasGroup
        /\ UNCHANGED <<groups, attempts>>
    BY <1>8 DEF Restart, HasGroup
  <2>. QED  BY <2>1 DEF GroupInv
<1>. QED
  BY <1>1, <1>2, <1>3, <1>4, <1>5, <1>6, <1>7, <1>8
     DEF Next, Environment, CreateStep, ProcessStep, ChangeStep

-----------------------------------------------------------------------------

\* The dispatcher beside the snapshots.
LEMMA CoreKeepsSnapshots ==
  ASSUME BackupInv, Next, UNCHANGED snapshots PROVE BackupInv'
<1>1. JobInv'  BY JobStep DEF BackupInv
<1>2. Grows  BY CoreGrows DEF BackupInv
<1>3. PastInv'  BY <1>2 DEF BackupInv, SnapshotInv, PastInv, Grows
<1>4. GroupInv'  BY GroupStep DEF BackupInv
<1>. QED  BY <1>1, <1>3, <1>4 DEF BackupInv, SnapshotInv

LEMMA ExportKeeps ==
  ASSUME BackupInv, Export PROVE BackupInv'
<1>1. JobInv'  BY JobStep DEF BackupInv, Export
<1>2. UNCHANGED <<attempts, audits>> /\ snapshots' = snapshots \cup {Captured}
  BY DEF Export, vars
<1>3. Captured \in Snapshot /\ RefersToRecords(Captured)
  BY CapturedRefers DEF BackupInv
<1>4. PastInv'
  BY <1>2 DEF BackupInv, SnapshotInv, PastInv, Captured
<1>5. GroupInv'  BY GroupStep DEF BackupInv, Export
<1>. QED  BY <1>1, <1>2, <1>3, <1>4, <1>5 DEF BackupInv, SnapshotInv

-----------------------------------------------------------------------------

\* An import stores requests and takes none away, and what it knows of their
\* past is no news.
LEMMA ImportedRecords ==
  ASSUME BackupInv, NEW s \in snapshots, ImportSnapshot(s)
  PROVE  /\ requests' \in [Ids -> Request \cup {Nil}]
         /\ groups' \in [Groups -> AgentGroup \cup {Nil}]
         /\ agents' \subseteq Users
         /\ UNCHANGED <<attempts, audits>>
         /\ \A r \in Ids : requests[r] # Nil => requests'[r] # Nil
         /\ \A g \in Groups : groups[g] # Nil => groups'[g] # Nil
<1>0. TypeOK /\ PastInv /\ s \in Snapshot
  BY DEF BackupInv, JobInv, SnapshotInv
<1>1. /\ requests' \in [Ids -> Request \cup {Nil}]
      /\ \A r \in Ids : requests[r] # Nil => requests'[r] # Nil
  BY <1>0 DEF ImportSnapshot, Put, TypeOK, Snapshot
<1>2. /\ groups' \in [Groups -> AgentGroup \cup {Nil}]
      /\ \A g \in Groups : groups[g] # Nil => groups'[g] # Nil
  BY <1>0 DEF ImportSnapshot, Put, TypeOK, Snapshot
<1>3. agents' \subseteq Users  BY <1>0 DEF ImportSnapshot, TypeOK, Snapshot
<1>4. attempts' = attempts
  <2>1. ASSUME NEW r \in Ids PROVE Longer(s.attempts[r], attempts[r]) = attempts[r]
    <3>1. attempts[r] \in Seq(Attempt) /\ s.attempts[r] \in {<< >>, attempts[r]}
      BY <1>0 DEF TypeOK, PastInv
    <3>2. attempts[r] = << >> \/ Len(<< >>) < Len(attempts[r])  BY <3>1
    <3>. QED  BY <3>1, <3>2 DEF Longer
  <2>2. attempts' = [r \in Ids |-> Longer(s.attempts[r], attempts[r])]
    BY DEF ImportSnapshot
  <2>3. attempts = [r \in Ids |-> attempts[r]]  BY <1>0 DEF TypeOK
  <2>. QED  BY <2>1, <2>2, <2>3
<1>5. audits' = audits
  <2>1. \A r \in Ids : s.audits[r] \cup audits[r] = audits[r]  BY <1>0 DEF PastInv
  <2>2. audits = [r \in Ids |-> audits[r]]  BY <1>0 DEF TypeOK
  <2>. QED  BY <2>1, <2>2 DEF ImportSnapshot
<1>. QED  BY <1>1, <1>2, <1>3, <1>4, <1>5

LEMMA ImportKeeps ==
  ASSUME BackupInv, NEW s \in snapshots, Import(s) PROVE BackupInv'
<1>. USE DEF store, directory, channel
<1>0. TypeOK /\ TaskInv /\ MutexHeld /\ CoreInv  BY DEF BackupInv, JobInv
<1>1. UNCHANGED <<queue, closed, restarts, mu, pc, task, scan, snapshots>>
  BY DEF Import
<1>2. /\ requests' \in [Ids -> Request \cup {Nil}]
      /\ groups' \in [Groups -> AgentGroup \cup {Nil}]
      /\ agents' \subseteq Users
      /\ UNCHANGED <<attempts, audits>>
      /\ \A r \in Ids : requests[r] # Nil => requests'[r] # Nil
      /\ \A g \in Groups : groups[g] # Nil => groups'[g] # Nil
  <2>1. CASE ImportSnapshot(s)  BY <2>1, ImportedRecords
  <2>2. CASE UNCHANGED <<store, directory>>  BY <1>0, <2>2 DEF TypeOK
  <2>. QED  BY <2>1, <2>2 DEF Import
<1>3. faults' \in 0 .. MaxFaults  BY <1>0, FaultCounted DEF Import, TypeOK
<1>4. TypeOK'  BY <1>0, <1>1, <1>2, <1>3 DEF TypeOK
<1>5. TaskInv' /\ MutexHeld'
  BY <1>0, <1>1 DEF TaskInv, TaskOK, MutexHeld
<1>6. IdsKnown  BY <1>0, IdTypes
<1>7. RecordInv'
  BY <1>0, <1>1, <1>2, <1>6, Places DEF CoreInv, RecordInv, IdsKnown
<1>8. QueueInv' /\ CarryInv'
  BY <1>0, <1>1, <1>2, <1>6 DEF CoreInv, QueueInv, CarryInv, IdsKnown
<1>9. QueueDistinct' /\ CarryDistinct' /\ QueueOrCarry' /\ FreshInv'
  BY <1>0, <1>1, <1>2
     DEF CoreInv, QueueDistinct, CarryDistinct, QueueOrCarry, FreshInv
<1>10. AbsentInv' /\ DispatchedInv' /\ AtMostOneDispatch'
  BY <1>0, <1>2 DEF CoreInv, AbsentInv, DispatchedInv, AtMostOneDispatch
<1>11. SnapshotInv'
  BY <1>1, <1>2 DEF BackupInv, SnapshotInv, PastInv
<1>12. GroupInv'
  BY <1>0, <1>1, <1>2, GrowingKeepsGroups DEF BackupInv
<1>. QED
  BY <1>4, <1>5, <1>7, <1>8, <1>9, <1>10, <1>11, <1>12 DEF BackupInv, JobInv, CoreInv

\* A restored database is as good as the snapshot, and nobody works on it.
LEMMA RestoreKeeps ==
  ASSUME BackupInv, NEW s \in snapshots, RestoreInto(s) PROVE BackupInv'
<1>0. TypeOK /\ CoreInv /\ PastInv /\ RefersToRecords(s) /\ s \in Snapshot
  BY DEF BackupInv, JobInv, SnapshotInv
<1>1. /\ requests' = s.requests /\ attempts' = s.attempts /\ audits' = s.audits
      /\ groups' = s.groups /\ agents' = s.agents
      /\ queue' = << >> /\ closed' = FALSE /\ mu' = Nil /\ snapshots' = {s}
      /\ \A h \in Handlers : pc'[h] = "idle"
  BY DEF RestoreInto
<1>2. TypeOK'
  <2>1. /\ restarts' \in 0 .. MaxRestarts /\ faults' \in 0 .. MaxFaults
        /\ pc' \in [Handlers -> PCs]
        /\ task' \in [Handlers -> Task \cup {Nil}]
        /\ scan' \in [Handlers -> Seq(Users)]
    BY <1>0, BoundAssumption DEF RestoreInto, TypeOK, PCs, Ready
  <2>2. queue' \in Seq(Job) /\ Len(queue') <= Capacity
    BY <1>1, BoundAssumption
  <2>. QED  BY <1>0, <1>1, <2>1, <2>2 DEF TypeOK, Snapshot
<1>3. "idle" \in Ready /\ "idle" \notin Creating \cup Carrying \cup Fresh
      /\ "idle" \notin {"put", "created", "member", "choose", "assign", "attempt",
                        "dispatched"}
  BY Places DEF Ready
<1>4. TaskInv' /\ MutexHeld'
  BY <1>1, <1>3, NilAssumption DEF TaskInv, TaskOK, MutexHeld
<1>5. RecordInv' /\ CarryInv' /\ CarryDistinct' /\ FreshInv'
  BY <1>1, <1>3, Places DEF RecordInv, CarryInv, CarryDistinct, FreshInv
<1>6. Len(queue') = 0  BY <1>1
<1>7. QueueInv' /\ QueueDistinct' /\ QueueOrCarry'
  BY <1>6 DEF QueueInv, QueueDistinct, QueueOrCarry
<1>8. AbsentInv' /\ DispatchedInv'
  BY <1>0, <1>1 DEF RefersToRecords, AbsentInv, DispatchedInv, Outcomes
<1>9. AtMostOneDispatch'
  <2>1. ASSUME NEW r \in Ids PROVE Len(s.attempts[r]) <= 1
    <3>1. s.attempts[r] = << >> \/ s.attempts[r] = attempts[r]
      BY <1>0 DEF PastInv
    <3>. QED  BY <1>0, <3>1 DEF CoreInv, AtMostOneDispatch
  <2>. QED  BY <1>1, <2>1 DEF AtMostOneDispatch
<1>10. SnapshotInv'  BY <1>0, <1>1 DEF SnapshotInv, PastInv
<1>11. GroupInv'  BY <1>0, <1>1 DEF GroupInv, HasGroup, RefersToRecords
<1>. QED
  BY <1>2, <1>4, <1>5, <1>7, <1>8, <1>9, <1>10, <1>11 DEF BackupInv, JobInv, CoreInv

LEMMA BackupStep == BackupInv /\ [BackupNext]_backupVars => BackupInv'
<1>. SUFFICES ASSUME BackupInv, [BackupNext]_backupVars PROVE BackupInv'
  OBVIOUS
<1>1. CASE UNCHANGED backupVars
  <2>1. UNCHANGED vars /\ snapshots' = snapshots  BY <1>1 DEF backupVars
  <2>2. JobInv'  BY <2>1, JobStep DEF BackupInv
  <2>3. GroupInv'  BY <2>1, GroupStep DEF BackupInv
  <2>. QED  BY <2>1, <2>2, <2>3 DEF vars, BackupInv, SnapshotInv, PastInv
<1>2. CASE BackupNext
  BY <1>2, CoreKeepsSnapshots, ExportKeeps, ImportKeeps, RestoreKeeps DEF BackupNext
<1>. QED  BY <1>1, <1>2

\* The strengthening that makes the safety of imports inductive.
THEOREM BackupInductive == BackupSpec => []BackupInv
<1>. QED  BY BackupInitInv, BackupStep, PTL DEF BackupSpec

-----------------------------------------------------------------------------

\* A job finds its request, whatever snapshots are imported meanwhile.
THEOREM ImportsKeepJobs == BackupSpec => []JobHasRecord
<1>1. BackupInv => JobHasRecord
  BY DEF BackupInv, JobInv, CoreInv, QueueInv, CarryInv, JobHasRecord, Queued, At,
         Stored, Carrying
<1>. QED  BY <1>1, BackupInductive, PTL

\* An import, even one that puts a dispatched request back to "queued", leads
\* to no second dispatch.
THEOREM ImportsDispatchOnce == BackupSpec => []AtMostOneDispatch
<1>1. BackupInv => AtMostOneDispatch  BY DEF BackupInv, JobInv, CoreInv
<1>. QED  BY <1>1, BackupInductive, PTL

\* Exports and the stores they are imported into lack no record that one of
\* theirs refers to.
THEOREM NoDanglingSnapshots == BackupSpec => []NothingDangles
<1>1. BackupInv => NothingDangles
  BY CapturedRefers DEF BackupInv, SnapshotInv, NothingDangles
<1>. QED  BY <1>1, BackupInductive, PTL
=============================================================================
