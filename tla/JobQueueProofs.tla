--------------------------- MODULE JobQueueProofs ---------------------------
(***************************************************************************)
(* Proofs about the job queue, for any number of senders, receivers and    *)
(* closers and any capacity.                                               *)
(***************************************************************************)
EXTENDS JobQueue, SequenceTheorems, TLAPS

\* The steps that move neither a job nor the lock.
Quiet ==
  \/ \E r \in Receivers : \/ ReceiveCall(r) \/ ReceiveClosed(r)
                          \/ ReceiveCancelled(r)
  \/ \E c \in Closers : CloseCall(c)
  \/ Start \/ StopDraining

LEMMA InitIInv == Init => IInv
<1>. SUFFICES ASSUME Init PROVE IInv
  OBVIOUS
<1>0. jobs \in Seq(Jobs) /\ Len(jobs) <= Capacity
      /\ accepted \in Seq(Jobs) /\ taken \in Seq(Jobs)
  BY EmptySeq, QueueAssumption DEF Init
<1>1. TypeOK  BY <1>0 DEF Init, TypeOK, Outside
<1>2. LockInv  BY QueueAssumption DEF Init, LockInv
<1>3. CarryingInv  BY DEF Init, CarryingInv, Outside
<1>4. NoSenderPastClose  BY DEF Init, NoSenderPastClose
<1>. QED  BY <1>1, <1>2, <1>3, <1>4 DEF IInv

LEMMA CallIInv ==
  ASSUME IInv, NEW s \in Senders, NEW job \in Jobs, EnqueueCall(s, job)
  PROVE  IInv'
<1>. USE DEF IInv, EnqueueCall, lock, history
<1>1. TypeOK'  BY DEF TypeOK, Outside
<1>2. LockInv'  BY DEF TypeOK, LockInv, Outside
<1>3. CarryingInv'  BY DEF TypeOK, CarryingInv, Outside
<1>4. NoSenderPastClose'  BY DEF TypeOK, NoSenderPastClose
<1>. QED  BY <1>1, <1>2, <1>3, <1>4

LEMMA RLockIInv ==
  ASSUME IInv, NEW s \in Senders, RLock(s)
  PROVE  IInv'
<1>. USE DEF IInv, RLock, history
<1>1. TypeOK'  BY DEF TypeOK
<1>2. LockInv'  BY DEF TypeOK, LockInv
<1>3. CarryingInv'  BY DEF TypeOK, CarryingInv, Outside
<1>4. NoSenderPastClose'  BY DEF TypeOK, NoSenderPastClose
<1>. QED  BY <1>1, <1>2, <1>3, <1>4

\* Leaving Enqueue, whatever the outcome, keeps what is not about the jobs.
LEMMA LeaveIInv ==
  ASSUME IInv, NEW s \in Senders, NEW outcome \in Outside \ {"idle"},
         ReturnFromEnqueue(s, outcome),
         UNCHANGED <<closed, writer, receiver, closer, drainer, taken>>,
         jobs' \in Seq(Jobs), Len(jobs') <= Capacity,
         accepted' \in Seq(Jobs)
  PROVE  IInv'
<1>. USE DEF IInv, ReturnFromEnqueue
<1>1. TypeOK'  BY DEF TypeOK, Outside
<1>2. LockInv'  BY DEF TypeOK, LockInv, Outside
<1>3. CarryingInv'  BY DEF TypeOK, CarryingInv, Outside
<1>4. NoSenderPastClose'  BY DEF TypeOK, NoSenderPastClose, Outside
<1>. QED  BY <1>1, <1>2, <1>3, <1>4

LEMMA CheckIInv ==
  ASSUME IInv, NEW s \in Senders, CheckClosed(s)
  PROVE  IInv'
<1>1. CASE closed /\ ReturnFromEnqueue(s, "refused")
  BY <1>1, LeaveIInv DEF IInv, TypeOK, CheckClosed, Outside, history
<1>2. CASE /\ ~closed
           /\ sender' = [sender EXCEPT ![s] = "send"]
           /\ UNCHANGED <<readers, carrying>>
  <2>. USE <1>2 DEF IInv, CheckClosed, history
  <2>1. TypeOK'  BY DEF TypeOK
  <2>2. LockInv'  BY DEF TypeOK, LockInv
  <2>3. CarryingInv'  BY DEF TypeOK, CarryingInv, Outside
  <2>4. NoSenderPastClose'  BY DEF NoSenderPastClose
  <2>. QED  BY <2>1, <2>2, <2>3, <2>4
<1>. QED  BY <1>1, <1>2 DEF CheckClosed

LEMMA SendIInv ==
  ASSUME IInv, NEW s \in Senders, Send(s)
  PROVE  IInv'
<1>1. carrying[s] \in Jobs  BY DEF IInv, CarryingInv, Send, Outside
<1>2. /\ jobs' \in Seq(Jobs) /\ Len(jobs') <= Capacity
      /\ accepted' \in Seq(Jobs)
  BY <1>1, QueueAssumption DEF IInv, TypeOK, Send, HasRoom
<1>. QED  BY <1>2, LeaveIInv DEF Send, Outside

LEMMA CancelIInv ==
  ASSUME IInv, NEW s \in Senders, Cancel(s)
  PROVE  IInv'
BY LeaveIInv DEF IInv, TypeOK, Cancel, Outside, history

\* A job leaves the buffer, to a receiver or to the drainer.
LEMMA TakeIInv ==
  ASSUME IInv, Take,
         UNCHANGED <<closed, lock, sender, carrying, closer, drainer, accepted>>,
         receiver' \in [Receivers -> {"idle", "wait"}]
  PROVE  IInv'
<1>. USE DEF IInv, Take, lock
<1>1. TypeOK'
  <2>1. jobs' \in Seq(Jobs) /\ Len(jobs') = Len(jobs) - 1
    BY HeadTailProperties DEF TypeOK
  <2>2. taken' \in Seq(Jobs)
    BY HeadTailProperties, AppendProperties DEF TypeOK
  <2>. QED  BY <2>1, <2>2, QueueAssumption DEF TypeOK
<1>2. LockInv' /\ CarryingInv' /\ NoSenderPastClose'
  BY DEF LockInv, CarryingInv, NoSenderPastClose
<1>. QED  BY <1>1, <1>2

LEMMA QuietIInv ==
  ASSUME IInv, Quiet
  PROVE  IInv'
<1>1. UNCHANGED <<jobs, closed, lock, sender, carrying, history>>
  BY DEF Quiet, ReceiveCall, ReceiveClosed, ReceiveCancelled, CloseCall, Start,
         StopDraining
<1>2. TypeOK'
  BY <1>1 DEF IInv, TypeOK, Quiet, ReceiveCall, ReceiveClosed,
         ReceiveCancelled, CloseCall, Start, StopDraining, lock, history
<1>3. LockInv'
  BY <1>1 DEF IInv, TypeOK, LockInv, Quiet, ReceiveCall, ReceiveClosed,
         ReceiveCancelled, CloseCall, Start, StopDraining, lock
<1>4. CarryingInv' /\ NoSenderPastClose'
  BY <1>1 DEF IInv, CarryingInv, NoSenderPastClose, history
<1>. QED  BY <1>2, <1>3, <1>4 DEF IInv

LEMMA AnnounceIInv ==
  ASSUME IInv, NEW c \in Closers, Announce(c)
  PROVE  IInv'
<1>. USE DEF IInv, Announce, history
<1>1. TypeOK'  BY DEF TypeOK
<1>2. LockInv'  BY QueueAssumption DEF TypeOK, LockInv
<1>3. CarryingInv' /\ NoSenderPastClose'
  BY DEF CarryingInv, NoSenderPastClose
<1>. QED  BY <1>1, <1>2, <1>3

\* The one step that could break NoSenderPastClose: no reader is left, so by
\* LockInv no sender is between its two selects.
LEMMA CloseIInv ==
  ASSUME IInv, NEW c \in Closers, CloseChannel(c)
  PROVE  IInv'
<1>. USE DEF IInv, CloseChannel, history
<1>1. TypeOK'  BY DEF TypeOK
<1>2. LockInv'  BY QueueAssumption DEF TypeOK, LockInv
<1>3. NoSenderPastClose'  BY DEF LockInv, ReadersGone, NoSenderPastClose
<1>4. CarryingInv'  BY DEF CarryingInv
<1>. QED  BY <1>1, <1>2, <1>3, <1>4

LEMMA StepIInv == IInv /\ [Next]_vars => IInv'
<1>. SUFFICES ASSUME IInv, [Next]_vars PROVE IInv'
  OBVIOUS
<1>1. CASE UNCHANGED vars
  BY <1>1 DEF IInv, TypeOK, LockInv, CarryingInv, NoSenderPastClose,
              vars, lock, history
<1>2. ASSUME NEW s \in Senders, NEW job \in Jobs, EnqueueCall(s, job) PROVE IInv'
  BY <1>2, CallIInv
<1>3. ASSUME NEW s \in Senders, SendStep(s) \/ Cancel(s) PROVE IInv'
  BY <1>3, RLockIInv, CheckIInv, SendIInv, CancelIInv DEF SendStep
<1>4. ASSUME NEW r \in Receivers, ReceiveJob(r) PROVE IInv'
  BY <1>4, TakeIInv DEF ReceiveJob, IInv, TypeOK
<1>5. CASE Drain
  BY <1>5, TakeIInv DEF Drain, IInv, TypeOK
<1>6. ASSUME NEW c \in Closers, CloseStep(c) PROVE IInv'
  BY <1>6, AnnounceIInv, CloseIInv DEF CloseStep
<1>7. CASE Quiet
  BY <1>7, QuietIInv
<1>. QED  BY <1>1, <1>2, <1>3, <1>4, <1>5, <1>6, <1>7 DEF Next, Quiet

-----------------------------------------------------------------------------

\* The invariant of the queue holds, whatever its size and its users.
THEOREM Inductive == Spec => []IInv
BY InitIInv, StepIInv, PTL DEF Spec

\* A sender that found the queue open sends, or gives up, before Close gets the
\* lock: no job arrives in a queue that is closed already.
THEOREM OpenUntilSent == Spec => []NoSenderPastClose
<1>1. IInv => NoSenderPastClose  BY DEF IInv
<1>. QED  BY <1>1, Inductive, PTL

\* Once closed, the queue stays closed and accepts no job.
THEOREM ClosedForGood == Spec => ClosedAcceptsNothing
<1>1. IInv /\ [Next]_vars => [closed => closed' /\ accepted' = accepted]_vars
  <2>. SUFFICES ASSUME IInv, [Next]_vars, closed
                PROVE  closed' /\ accepted' = accepted
    OBVIOUS
  <2>1. ASSUME NEW s \in Senders, Send(s) PROVE FALSE
    BY <2>1 DEF IInv, NoSenderPastClose, Send
  <2>2. CASE UNCHANGED vars
    BY <2>2 DEF vars
  <2>3. CASE Next
    BY <2>1, <2>3 DEF Next, SendStep, CloseStep, EnqueueCall, RLock, CheckClosed,
       Cancel, ReceiveCall, ReceiveJob, ReceiveClosed, ReceiveCancelled, Start,
       Drain, StopDraining, CloseCall, Announce, CloseChannel, history
  <2>. QED  BY <2>2, <2>3
<1>. QED  BY <1>1, Inductive, PTL DEF Spec, ClosedAcceptsNothing

\* Seen from outside, the queue with its lock and its two channels is a
\* bounded first-in first-out queue that can be shut.
THEOREM Refinement == Spec => ImplementsFifoQueue
<1>1. Init => Abstract!Init
  BY DEF Init, Abstract!Init
<1>2. IInv /\ [Next]_vars => [Abstract!Next]_(Abstract!vars)
  <2>. SUFFICES ASSUME IInv, [Next]_vars
                PROVE  Abstract!Next \/ UNCHANGED <<jobs, closed, taken>>
    BY DEF Abstract!vars
  <2>1. ASSUME NEW s \in Senders, Send(s) PROVE Abstract!Next
    <3>1. carrying[s] \in Jobs  BY <2>1 DEF IInv, CarryingInv, Send, Outside
    <3>2. ~closed  BY <2>1 DEF IInv, NoSenderPastClose, Send
    <3>3. Abstract!Put(carrying[s])
      BY <2>1, <3>2 DEF Send, HasRoom, Abstract!Put
    <3>. QED  BY <3>1, <3>3 DEF Abstract!Next
  <2>2. ASSUME Take, UNCHANGED closed PROVE Abstract!Next
    BY <2>2 DEF Take, Abstract!Get, Abstract!Next
  <2>3. ASSUME NEW c \in Closers, CloseChannel(c) PROVE Abstract!Next
    BY <2>3 DEF CloseChannel, history, Abstract!Shut, Abstract!Next
  <2>4. CASE UNCHANGED vars
    BY <2>4 DEF vars, history
  <2>5. ASSUME NEW s \in Senders, NEW job \in Jobs,
               EnqueueCall(s, job) \/ RLock(s) \/ CheckClosed(s) \/ Cancel(s)
        PROVE  UNCHANGED <<jobs, closed, taken>>
    BY <2>5 DEF EnqueueCall, RLock, CheckClosed, Cancel, history
  <2>6. ASSUME NEW s \in Senders, RLock(s) \/ CheckClosed(s) \/ Cancel(s)
        PROVE  UNCHANGED <<jobs, closed, taken>>
    BY <2>6 DEF RLock, CheckClosed, Cancel, history
  <2>7. CASE Quiet \/ \E c \in Closers : Announce(c)
    BY <2>7 DEF Quiet, ReceiveCall, ReceiveClosed, ReceiveCancelled, CloseCall,
                Start, StopDraining, Announce, history
  <2>8. ASSUME Drain \/ \E r \in Receivers : ReceiveJob(r)
        PROVE  Take /\ UNCHANGED closed
    BY <2>8 DEF Drain, ReceiveJob
  <2>. QED  BY <2>1, <2>2, <2>3, <2>4, <2>5, <2>6, <2>7, <2>8
            DEF Next, Quiet, SendStep, CloseStep
<1>. QED  BY <1>1, <1>2, Inductive, PTL DEF Spec, ImplementsFifoQueue, Abstract!Spec
=============================================================================
