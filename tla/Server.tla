------------------------------- MODULE Server -------------------------------
(***************************************************************************)
(* The process: cmd/server/main.go around the dispatch core.  On a signal  *)
(* the main goroutine closes the queue, lets net/http shut down for at     *)
(* most two seconds, closes the store and returns, whereupon the process   *)
(* and the handlers that still run are gone.  A new process may be started *)
(* on the same database.                                                   *)
(***************************************************************************)
EXTENDS Dispatch

\* Every end of a process counts as a restart, the first one too.
ASSUME RestartAssumption == MaxRestarts > 0

VARIABLES
  main,        \* where the main goroutine is
  listening,   \* the listener takes new calls
  cut          \* history: the process left, or is leaving, calls behind

serverVars == <<main, listening, cut>>
allVars == <<vars, serverVars>>

Running == {"serving", "closing", "stopping", "draining"}

\* Store.Close has set the database to nil, or there is no process.
Down == main \in {"closed", "exited"}

ServerTypeOK ==
  /\ TypeOK
  /\ main \in Running \cup {"closed", "exited"}
  /\ listening \in BOOLEAN
  /\ cut \in BOOLEAN

ServerInit ==
  /\ Init
  /\ main = "serving" /\ listening = TRUE /\ cut = FALSE

-----------------------------------------------------------------------------
\* The handlers, and the calls that change the directory.

\* Work that a handler does by itself, and what needs a client.
OwnStep(h) == CreateStep(h) \/ ProcessStep(h) \/ ChangeStep(h)

Receiving(h) == Receive(h) \/ ReceiveNothing(h)

\* Shutdown ends the keep-alive of a connection: no call begins after it.
Serve(h) ==
  /\ ~Down
  /\ \/ listening /\ Call(h)
     \/ CheckExists(h) \/ OwnStep(h) \/ CancelSend(h) \/ Receiving(h)
  /\ UNCHANGED serverVars

DirectoryChanges ==
  /\ ~Down
  /\ \/ \E u \in Users : SaveUser(u)
     \/ \E g \in Groups, group \in GroupValues : SaveGroup(g, group)
  /\ UNCHANGED serverVars

\* The queue works without the store.
OnQueue(h) == Enqueue(h) \/ Send(h) \/ CancelSend(h) \/ Receiving(h)

\* Whoever needs the store after it is closed calls a method of a nil
\* database.  net/http recovers from the panic; deferred unlocks run.
Panic(h) ==
  /\ pc[h] \notin Ready \cup {"enqueue", "send", "receive"}
  /\ pc[h] = "check" => mu = Nil
  /\ Return(h, "error")
  /\ mu' = IF mu = h THEN Nil ELSE mu
  /\ UNCHANGED <<store, directory, channel, bounds>>

ServeWithoutStore(h) ==
  /\ main = "closed"
  /\ OnQueue(h) \/ Panic(h)
  /\ UNCHANGED serverVars

-----------------------------------------------------------------------------
\* The main goroutine.

\* ListenAndServe failed: it is logged, and main waits for its signal.
StopServing ==
  /\ main = "serving" /\ listening
  /\ listening' = FALSE
  /\ UNCHANGED <<vars, main, cut>>

Signal ==
  /\ main = "serving"
  /\ main' = "closing"
  /\ UNCHANGED <<vars, listening, cut>>

\* Mutant of CloseQueue: the queue is closed without its lock.
CloseUnlocked ==
  /\ main = "closing"
  /\ closed' = TRUE
  /\ main' = "stopping"
  /\ UNCHANGED <<store, directory, queue, bounds, mu, pc, task, scan,
                 listening, cut>>

CloseQueue ==
  /\ main = "closing"
  /\ Close
  /\ main' = "stopping"
  /\ UNCHANGED <<listening, cut>>

\* server.Shutdown closes the listener and the idle connections ...
StopListening ==
  /\ main = "stopping"
  /\ main' = "draining" /\ listening' = FALSE
  /\ UNCHANGED <<vars, cut>>

Idle == \A h \in Handlers : pc[h] \in Ready

\* ... and waits for the calls that run, but not for ever.  The deferred
\* Store.Close follows.  Transactions hold its lock, so none is cut in two.
Drained ==
  /\ main = "draining" /\ Idle
  /\ main' = "closed"
  /\ UNCHANGED <<vars, listening, cut>>

TimedOut ==
  /\ main = "draining" /\ ~Idle
  /\ main' = "closed" /\ cut' = TRUE
  /\ UNCHANGED <<vars, listening>>

\* Mutant of CloseStore: the store is closed without waiting for the calls.
CloseAtOnce ==
  /\ main = "draining"
  /\ main' = "closed"
  /\ UNCHANGED <<vars, listening, cut>>

\* Mutant of CloseStore: no deadline, and a connection that has served a
\* call and is kept alive counts as busy.
CloseWhenAlone ==
  /\ main = "draining" /\ \A h \in Handlers : pc[h] = "idle"
  /\ main' = "closed"
  /\ UNCHANGED <<vars, listening, cut>>

CloseStore == Drained \/ TimedOut

\* main returns, and all the goroutines are gone.
Exit ==
  /\ main = "closed"
  /\ Restart
  /\ main' = "exited"
  /\ UNCHANGED <<listening, cut>>

\* The process is killed.
Die ==
  /\ main \in Running
  /\ Restart
  /\ main' = "exited" /\ listening' = FALSE /\ cut' = TRUE

\* A new process opens the database, unless the bound is reached.
Boot ==
  /\ main = "exited" /\ restarts < MaxRestarts
  /\ main' = "serving" /\ listening' = TRUE
  /\ UNCHANGED <<vars, cut>>

-----------------------------------------------------------------------------

MainStep == CloseQueue \/ StopListening \/ CloseStore \/ Exit

ServerNext ==
  \/ \E h \in Handlers : Serve(h) \/ ServeWithoutStore(h)
  \/ DirectoryChanges
  \/ StopServing \/ Signal \/ MainStep \/ Die \/ Boot

ServerSpec == ServerInit /\ [][ServerNext]_allVars

\* Go runs every goroutine that can run, and the timer of Shutdown fires.  A
\* goroutine that waits for the service mutex gets it although others take
\* it again and again: after a millisecond sync.Mutex is handed over in the
\* order of arrival.  The lock of the queue keeps new senders out as soon as
\* Close waits for it.  Nothing makes a client call or give up, a signal
\* arrive, or somebody start the server again.
Fairness ==
  /\ \A h \in Handlers :
       /\ WF_allVars(~Down /\ OwnStep(h) /\ UNCHANGED serverVars)
       /\ SF_allVars(~Down /\ CheckExists(h) /\ UNCHANGED serverVars)
       /\ WF_allVars(~Down /\ (Receive(h) \/ (closed /\ ReceiveNothing(h)))
                       /\ UNCHANGED serverVars)
  /\ SF_allVars(CloseQueue)
  /\ WF_allVars(StopListening \/ CloseStore \/ Exit)

FairSpec == ServerSpec /\ Fairness

-----------------------------------------------------------------------------

\* To the store, the process has ended when the store is closed: what the
\* handlers still do until main returns leaves no trace.  All that module
\* Dispatch promises, and the proofs about it, hold of the process.
AtEnd == main = "closed"

Core == INSTANCE Dispatch WITH
  queue  <- IF AtEnd THEN << >> ELSE queue,
  closed <- ~AtEnd /\ closed,
  mu     <- IF AtEnd THEN Nil ELSE mu,
  pc     <- [h \in Handlers |-> IF AtEnd THEN "idle" ELSE pc[h]],
  task   <- [h \in Handlers |-> IF AtEnd THEN Nil ELSE task[h]],
  scan   <- [h \in Handlers |-> IF AtEnd THEN << >> ELSE scan[h]],
  restarts <- IF AtEnd THEN restarts + 1 ELSE restarts

ImplementsDispatch == Core!Spec

\* A shutdown that was not cut short leaves nothing half done: every call
\* had returned before the store was closed, and, if no write ever failed,
\* every stored request has its creation on record and every attempt its
\* dispatch.
ExitIsClean ==
  Down /\ ~cut =>
    /\ Idle
    /\ faults = 0 =>
         \A r \in Ids : /\ Stored(r) => "created" \in audits[r]
                        /\ attempts[r] # << >> => "dispatched" \in audits[r]

\* Every call that has work to do returns, or its process ends, if the queue
\* has room again and again.  The one that waits for room holds the mutex,
\* so all other creates wait behind it: nothing else can keep a call from its
\* end, and no path out of CreateAndDispatch leaves the mutex locked.
CallsReturn ==
  []<>HasRoom =>
    \A h \in Handlers :
      pc[h] \notin Ready \cup {"receive"} ~> pc[h] \in Ready \/ Down

\* After a signal the process ends, if the queue has room again and again.
\* Without room it does not: main waits in Queue.Close, before the two
\* seconds begin to count, for a create that waits for room.
SignalEndsProcess ==
  []<>HasRoom => (main = "closing" ~> main = "exited")
=============================================================================
