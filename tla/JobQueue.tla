------------------------------ MODULE JobQueue ------------------------------
(***************************************************************************)
(* The job queue: internal/queue/queue.go and receive.go, one action per   *)
(* operation on the lock or on a channel.                                  *)
(*                                                                         *)
(* jobs is a buffered channel, closed a channel that is closed and never   *)
(* sent to, mu a sync.RWMutex: a writer first announces itself, from then  *)
(* on no new reader gets in, and then waits for the readers inside.  A     *)
(* select with several ready cases takes any of them.                      *)
(*                                                                         *)
(* The service calls Enqueue and Receive, main calls Close; nothing in     *)
(* the program calls Start, whose goroutine is the drainer here.           *)
(***************************************************************************)
EXTENDS Naturals, Sequences, FiniteSets

CONSTANTS
  Senders,     \* goroutines inside Enqueue
  Receivers,   \* goroutines inside Receive
  Closers,     \* goroutines inside Close
  Jobs,        \* the jobs; one that was not accepted may be offered again
  Capacity,    \* the size New was called with, at least 1
  None         \* no goroutine, no job

ASSUME QueueAssumption ==
  /\ Capacity \in Nat \ {0}
  /\ None \notin Closers \cup Jobs

VARIABLES
  jobs,       \* the buffer of Queue.jobs
  closed,     \* Queue.closed is closed
  readers,    \* senders that hold mu.RLock
  writer,     \* the closer that has announced itself on mu, or None
  sender,     \* where each sender is
  carrying,   \* the job of each sender
  receiver,   \* where each receiver is
  closer,     \* where each closer is
  drainer,    \* the goroutine of Start: "off", "on" or "finished"
  accepted,   \* history: the jobs sent, in order
  taken       \* history: the jobs received or drained, in order

lock    == <<readers, writer>>
history == <<accepted, taken>>
vars    == <<jobs, closed, readers, writer, sender, carrying, receiver,
             closer, drainer, accepted, taken>>

Outside == {"idle", "sent", "refused", "cancelled"}

TypeOK ==
  /\ jobs \in Seq(Jobs) /\ Len(jobs) <= Capacity
  /\ closed \in BOOLEAN
  /\ readers \subseteq Senders
  /\ writer \in Closers \cup {None}
  /\ sender \in [Senders -> Outside \cup {"lock", "check", "send"}]
  /\ carrying \in [Senders -> Jobs \cup {None}]
  /\ receiver \in [Receivers -> {"idle", "wait"}]
  /\ closer \in [Closers -> {"idle", "lock", "close"}]
  /\ drainer \in {"off", "on", "finished"}
  /\ accepted \in Seq(Jobs)
  /\ taken \in Seq(Jobs)

Init ==
  /\ jobs = << >>
  /\ closed = FALSE
  /\ readers = {}
  /\ writer = None
  /\ sender = [s \in Senders |-> "idle"]
  /\ carrying = [s \in Senders |-> None]
  /\ receiver = [r \in Receivers |-> "idle"]
  /\ closer = [c \in Closers |-> "idle"]
  /\ drainer = "off"
  /\ accepted = << >>
  /\ taken = << >>

-----------------------------------------------------------------------------
\* Enqueue.

EnqueueCall(s, job) ==
  /\ sender[s] \in Outside
  /\ \A t \in Senders : carrying[t] # job
  /\ \A i \in 1 .. Len(accepted) : accepted[i] # job
  /\ carrying' = [carrying EXCEPT ![s] = job]
  /\ sender' = [sender EXCEPT ![s] = "lock"]
  /\ UNCHANGED <<jobs, closed, lock, receiver, closer, drainer, history>>

\* Mutant of NoWriter: readers overtake a waiting writer.
ReadersFirst == closed \in BOOLEAN

NoWriter == writer = None

RLock(s) ==
  /\ sender[s] = "lock"
  /\ NoWriter
  /\ readers' = readers \cup {s}
  /\ sender' = [sender EXCEPT ![s] = "check"]
  /\ UNCHANGED <<jobs, closed, writer, carrying, receiver, closer, drainer, history>>

\* The return of Enqueue, with the deferred RUnlock.
ReturnFromEnqueue(s, outcome) ==
  /\ sender' = [sender EXCEPT ![s] = outcome]
  /\ carrying' = [carrying EXCEPT ![s] = None]
  /\ readers' = readers \ {s}

\* Mutant of CheckClosed: the read lock is released before the second select.
EarlyUnlock(s) ==
  /\ sender[s] = "check"
  /\ \/ closed /\ ReturnFromEnqueue(s, "refused")
     \/ /\ ~closed
        /\ sender' = [sender EXCEPT ![s] = "send"]
        /\ readers' = readers \ {s}
        /\ UNCHANGED carrying
  /\ UNCHANGED <<jobs, closed, writer, receiver, closer, drainer, history>>

\* The first select: a closed queue refuses the job.
CheckClosed(s) ==
  /\ sender[s] = "check"
  /\ \/ closed /\ ReturnFromEnqueue(s, "refused")
     \/ /\ ~closed
        /\ sender' = [sender EXCEPT ![s] = "send"]
        /\ UNCHANGED <<readers, carrying>>
  /\ UNCHANGED <<jobs, closed, writer, receiver, closer, drainer, history>>

HasRoom == Len(jobs) < Capacity

\* The second select.
Send(s) ==
  /\ sender[s] = "send"
  /\ HasRoom
  /\ jobs' = Append(jobs, carrying[s])
  /\ accepted' = Append(accepted, carrying[s])
  /\ ReturnFromEnqueue(s, "sent")
  /\ UNCHANGED <<closed, writer, receiver, closer, drainer, taken>>

Cancel(s) ==
  /\ sender[s] = "send"
  /\ ReturnFromEnqueue(s, "cancelled")
  /\ UNCHANGED <<jobs, closed, writer, receiver, closer, drainer, history>>

-----------------------------------------------------------------------------
\* Receive and the goroutine of Start: neither takes the lock.

ReceiveCall(r) ==
  /\ receiver[r] = "idle"
  /\ receiver' = [receiver EXCEPT ![r] = "wait"]
  /\ UNCHANGED <<jobs, closed, lock, sender, carrying, closer, drainer, history>>

Take ==
  /\ jobs # << >>
  /\ jobs' = Tail(jobs)
  /\ taken' = Append(taken, Head(jobs))

\* The case of the jobs channel, which may be chosen on a closed queue too.
ReceiveJob(r) ==
  /\ receiver[r] = "wait"
  /\ Take
  /\ receiver' = [receiver EXCEPT ![r] = "idle"]
  /\ UNCHANGED <<closed, lock, sender, carrying, closer, drainer, accepted>>

\* Mutant of ReceiveClosed: Receive does not listen to the closed channel.
DeafReceiver(r) == FALSE /\ receiver' = [receiver EXCEPT ![r] = "idle"]

ReceiveClosed(r) ==
  /\ receiver[r] = "wait"
  /\ closed
  /\ receiver' = [receiver EXCEPT ![r] = "idle"]
  /\ UNCHANGED <<jobs, closed, lock, sender, carrying, closer, drainer, history>>

ReceiveCancelled(r) ==
  /\ receiver[r] = "wait"
  /\ receiver' = [receiver EXCEPT ![r] = "idle"]
  /\ UNCHANGED <<jobs, closed, lock, sender, carrying, closer, drainer, history>>

Start ==
  /\ drainer = "off"
  /\ drainer' = "on"
  /\ UNCHANGED <<jobs, closed, lock, sender, carrying, receiver, closer, history>>

\* The drainer throws away what it receives.
Drain ==
  /\ drainer = "on"
  /\ Take
  /\ UNCHANGED <<closed, lock, sender, carrying, receiver, closer, drainer, accepted>>

\* Its context is done, or the queue is closed.
StopDraining ==
  /\ drainer = "on"
  /\ drainer' = "finished"
  /\ UNCHANGED <<jobs, closed, lock, sender, carrying, receiver, closer, history>>

-----------------------------------------------------------------------------
\* Close.

CloseCall(c) ==
  /\ closer[c] = "idle"
  /\ closer' = [closer EXCEPT ![c] = "lock"]
  /\ UNCHANGED <<jobs, closed, lock, sender, carrying, receiver, drainer, history>>

\* mu.Lock, first half: one writer at a time keeps new readers out.
Announce(c) ==
  /\ closer[c] = "lock"
  /\ writer = None
  /\ writer' = c
  /\ closer' = [closer EXCEPT ![c] = "close"]
  /\ UNCHANGED <<jobs, closed, readers, sender, carrying, receiver, drainer, history>>

\* Mutant of ReadersGone: Close does not wait for the senders.
ReadersIgnored == readers \subseteq Senders

ReadersGone == readers = {}

\* Second half: the readers are gone; the channel is closed unless it is
\* closed already, and the lock released.
CloseChannel(c) ==
  /\ closer[c] = "close"
  /\ ReadersGone
  /\ closed' = TRUE
  /\ writer' = None
  /\ closer' = [closer EXCEPT ![c] = "idle"]
  /\ UNCHANGED <<jobs, readers, sender, carrying, receiver, drainer, history>>

-----------------------------------------------------------------------------

SendStep(s) == RLock(s) \/ CheckClosed(s) \/ Send(s)

CloseStep(c) == Announce(c) \/ CloseChannel(c)

Next ==
  \/ \E s \in Senders : \/ \E job \in Jobs : EnqueueCall(s, job)
                        \/ SendStep(s) \/ Cancel(s)
  \/ \E r \in Receivers : \/ ReceiveCall(r) \/ ReceiveJob(r)
                          \/ ReceiveClosed(r) \/ ReceiveCancelled(r)
  \/ \E c \in Closers : CloseCall(c) \/ CloseStep(c)
  \/ Start \/ Drain \/ StopDraining

Spec == Init /\ [][Next]_vars

\* Every goroutine that can run does.  The lock and the channels serve those
\* who wait for them in order, so that a sender is not overtaken for ever.
Fairness ==
  /\ \A s \in Senders : SF_vars(RLock(s)) /\ WF_vars(CheckClosed(s))
                          /\ SF_vars(Send(s))
  /\ \A r \in Receivers : WF_vars(ReceiveJob(r) \/ ReceiveClosed(r))
  /\ \A c \in Closers : SF_vars(Announce(c)) /\ WF_vars(CloseChannel(c))

FairSpec == Spec /\ Fairness

-----------------------------------------------------------------------------

\* A sender is inside the critical section exactly while it is a reader, and
\* a closer that has announced itself is the writer.
LockInv ==
  /\ \A s \in Senders : s \in readers <=> sender[s] \in {"check", "send"}
  /\ \A c \in Closers : writer = c <=> closer[c] = "close"

\* Whoever has looked at the closed channel and found it open sends before
\* it is closed: the read lock spans both selects of Enqueue.
NoSenderPastClose ==
  closed => \A s \in Senders : sender[s] # "send"

\* A sender inside Enqueue has a job to send.
CarryingInv ==
  \A s \in Senders : sender[s] \notin Outside => carrying[s] \in Jobs

\* The inductive invariant of the queue: the lock is what orders the senders
\* and Close, and each place of a sender says what it holds.
IInv == TypeOK /\ LockInv /\ CarryingInv /\ NoSenderPastClose

\* A closed queue accepts nothing any more, although senders may have been
\* waiting for room when Close was called.
ClosedAcceptsNothing ==
  [][closed => closed' /\ accepted' = accepted]_vars

\* Close returns if the senders that wait for room get it: nobody new is let
\* in before it.  Without room it waits for them as long as they wait.
CloseReturns ==
  []<>HasRoom => \A c \in Closers : closer[c] = "lock" ~> closer[c] = "idle"

\* Nobody waits in Receive on a closed queue.
CloseWakesReceivers ==
  \A r \in Receivers : (closed /\ receiver[r] = "wait") ~> receiver[r] = "idle"

Abstract == INSTANCE FifoQueue
              WITH items <- jobs, shut <- closed, delivered <- taken

ImplementsFifoQueue == Abstract!Spec
=============================================================================
