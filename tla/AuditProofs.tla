----------------------------- MODULE AuditProofs -----------------------------
(***************************************************************************)
(* What is proved of the audit log, for any number of writers, any clock   *)
(* and any width of a duration.                                            *)
(***************************************************************************)
EXTENDS AuditLog, TLAPS

\* What a writer is about to put, or to record after its deletion.
EventInv ==
  \A w \in Writers :
    /\ pc[w] = "put" => event[w] \in Event
    /\ pc[w] \in {"delete", "report"} => event[w].actor \in Actors

\* As long as the clock was never set back, no moment a writer holds and no
\* committed horizon lies in the future.
ClockInv ==
  ~setBack =>
    /\ horizon <= clock
    /\ \A w \in Writers : pc[w] = "delete" => meant[w] <= clock

\* An event that is older than the horizon and still on its way was on its
\* way when the retention was committed.
LateInv ==
  ~setBack /\ ~wrapped =>
    \A w \in Writers :
      pc[w] = "put" /\ event[w].time < horizon => event[w] \in inFlight

\* Whoever trimmed the trail has recorded it or is about to.
OnRecordInv ==
  trimmed /\ faults = 0 /\ restarts = 0 =>
    \/ \E e \in log : e.action = "retention_applied"
    \/ \E w \in Writers : pc[w] = "report"
    \/ \E w \in Writers : pc[w] = "put" /\ event[w].action = "retention_applied"

IInv ==
  /\ LogTypeOK /\ EventInv /\ ClockInv /\ LateInv /\ OnRecordInv
  /\ LossIsExplained /\ RetentionHolds

-----------------------------------------------------------------------------

LEMMA WrapType == ASSUME NEW d \in Int PROVE Wrap(d) \in Int
  BY AuditAssumption DEF Wrap

LEMMA DaysArePositive ==
  ASSUME NEW days \in Int, days >= 1
  PROVE  /\ days * Day \in Int /\ -days * Day \in Int
         /\ days * Day >= 0
  BY AuditAssumption

\* What the calls of a writer and a restart make of the types.
LEMMA InitTyped == Init => IInv
<1> USE AuditAssumption
<1> SUFFICES ASSUME Init PROVE IInv
  OBVIOUS
<1>1. NoEvent \in Draft
  BY DEF NoEvent, Draft
<1>2. LogTypeOK
  <2>1. /\ log \subseteq Event /\ committed \subseteq Event /\ inFlight \subseteq Event
        /\ clock \in 0 .. MaxTime /\ horizon \in Int
    BY DEF Init
  <2>4. trimmed \in BOOLEAN /\ wrapped \in BOOLEAN /\ setBack \in BOOLEAN
    BY Zenon DEF Init
  <2>2. calls \in 0 .. MaxCalls /\ faults \in 0 .. MaxFaults /\ restarts \in 0 .. MaxRestarts
    BY DEF Init
  <2>3. /\ pc \in [Writers -> {"idle", "put", "delete", "report"}]
        /\ event \in [Writers -> Draft]
        /\ cutoff \in [Writers -> Int] /\ meant \in [Writers -> Int]
    BY <1>1 DEF Init
  <2> QED BY <2>1, <2>2, <2>3, <2>4 DEF LogTypeOK
<1>3. EventInv /\ ClockInv /\ LateInv /\ OnRecordInv
  BY DEF Init, EventInv, ClockInv, LateInv, OnRecordInv
<1>4. LossIsExplained /\ RetentionHolds
  BY DEF Init, LossIsExplained, RetentionHolds, RecentAudits
<1> QED BY <1>2, <1>3, <1>4 DEF IInv

\* A writer is given an event to put, made of the time it is.
LEMMA StampKeeps ==
  ASSUME IInv, NEW w \in Writers, NEW actor \in Actors \cup {Nil},
         NEW action \in Actions, NEW entity \in Entities,
         pc[w] \in {"idle", "report"},
         pc[w] = "report" => action = "retention_applied",
         Stamp(w, actor, action, entity),
         UNCHANGED <<log, clock, cutoff, meant, history, faults, restarts>>,
         calls' \in 0 .. MaxCalls
  PROVE  IInv'
<1> USE AuditAssumption
<1> DEFINE stamped == [time |-> clock, entity |-> entity, action |-> action,
                       actor |-> IF actor = Nil THEN "system" ELSE actor]
<1>1. /\ event' = [event EXCEPT ![w] = stamped]
      /\ pc' = [pc EXCEPT ![w] = "put"]
  BY DEF Stamp, Goto
<1>2. stamped \in Event /\ stamped \in Draft
  BY DEF IInv, LogTypeOK, Event, Draft
<1> HIDE DEF stamped
<1>3. LogTypeOK'
  BY <1>1, <1>2 DEF IInv, LogTypeOK, history
<1>4. EventInv'
  BY <1>1, <1>2 DEF IInv, LogTypeOK, EventInv
<1>5. ClockInv'
  BY <1>1 DEF IInv, LogTypeOK, ClockInv, history
<1>6. LateInv'
  <2> SUFFICES ASSUME ~setBack, ~wrapped, NEW v \in Writers,
                      pc'[v] = "put", event'[v].time < horizon
               PROVE  event'[v] \in inFlight
    BY DEF LateInv, history
  <2>1. stamped.time = clock /\ horizon <= clock
    BY DEF stamped, IInv, ClockInv
  <2>2. v # w
    BY <1>1, <2>1 DEF IInv, LogTypeOK
  <2> QED BY <1>1, <2>2 DEF IInv, LogTypeOK, LateInv
<1>7. OnRecordInv'
  <2>1. stamped.action = action
    BY DEF stamped
  <2> QED BY <1>1, <2>1 DEF IInv, LogTypeOK, OnRecordInv, history
<1>8. LossIsExplained' /\ RetentionHolds'
  BY DEF IInv, LossIsExplained, RetentionHolds, RecentAudits, history
<1> QED BY <1>3, <1>4, <1>5, <1>6, <1>7, <1>8 DEF IInv

\* A call that ends touches only what its writer holds.
LEMMA ReturnKeeps ==
  ASSUME IInv, NEW w \in Writers, Return(w)
  PROVE  /\ pc' \in [Writers -> {"idle", "put", "delete", "report"}]
         /\ event' \in [Writers -> Draft]
         /\ cutoff' \in [Writers -> Int] /\ meant' \in [Writers -> Int]
         /\ pc'[w] = "idle"
         /\ \A v \in Writers \ {w} :
              pc'[v] = pc[v] /\ event'[v] = event[v] /\ meant'[v] = meant[v]
  BY AuditAssumption DEF IInv, LogTypeOK, Return, Goto, NoEvent, Draft

LEMMA PutKeeps ==
  ASSUME IInv, NEW w \in Writers, PutAudit(w)
  PROVE  IInv'
<1> USE AuditAssumption
<1>1. /\ pc[w] = "put" /\ Return(w)
      /\ UNCHANGED <<clock, horizon, trimmed, wrapped, inFlight, setBack, calls,
                     restarts>>
  BY DEF PutAudit
<1>2. event[w] \in Event
  BY <1>1 DEF IInv, EventInv
<1>3. CASE StoreFails /\ UNCHANGED <<log, committed>>
  <2>1. LogTypeOK'
    BY <1>1, <1>3, ReturnKeeps DEF IInv, LogTypeOK, StoreFails
  <2>2. EventInv' /\ ClockInv' /\ LateInv'
    BY <1>1, <1>3, ReturnKeeps DEF IInv, EventInv, ClockInv, LateInv
  <2>3. OnRecordInv'
    BY <1>3 DEF IInv, LogTypeOK, OnRecordInv, StoreFails
  <2>4. LossIsExplained' /\ RetentionHolds'
    BY <1>1, <1>3 DEF IInv, LossIsExplained, RetentionHolds, RecentAudits
  <2> QED BY <2>1, <2>2, <2>3, <2>4 DEF IInv
<1>4. CASE /\ log' = {e \in log : Id(e) # Id(event[w])} \cup {event[w]}
           /\ committed' = committed \cup {event[w]}
           /\ UNCHANGED faults
  <2>1. LogTypeOK'
    BY <1>1, <1>2, <1>4, ReturnKeeps DEF IInv, LogTypeOK
  <2>2. EventInv' /\ ClockInv' /\ LateInv'
    BY <1>1, <1>4, ReturnKeeps DEF IInv, EventInv, ClockInv, LateInv
  <2>3. OnRecordInv'
    <3> SUFFICES ASSUME trimmed, faults = 0, restarts = 0
                 PROVE  OnRecordInv'
      BY <1>1, <1>4 DEF OnRecordInv
    <3>1. CASE \E e \in log : e.action = "retention_applied"
      <4>1. PICK e \in log : e.action = "retention_applied"
        BY <3>1
      <4>2. e \in log' \/ event[w].action = "retention_applied"
        BY <4>1, <1>4 DEF Id
      <4> QED BY <4>1, <4>2, <1>4 DEF OnRecordInv
    <3>2. CASE \E v \in Writers : pc[v] = "report"
      BY <3>2, <1>1, ReturnKeeps DEF OnRecordInv
    <3>3. CASE \E v \in Writers :
                 pc[v] = "put" /\ event[v].action = "retention_applied"
      BY <3>3, <1>1, <1>4, ReturnKeeps DEF OnRecordInv
    <3> QED BY <3>1, <3>2, <3>3 DEF IInv, OnRecordInv
  <2>4. LossIsExplained'
    <3>1. log' \subseteq committed'
      BY <1>4 DEF IInv, LossIsExplained
    <3> SUFFICES ASSUME NEW e \in committed' \ log'
                 PROVE  \/ e.time < horizon \/ wrapped
                        \/ \E other \in committed' \ {e} :
                             /\ other.time = e.time
                             /\ other.entity = e.entity
                             /\ other.action = e.action
      BY <3>1, <1>1 DEF LossIsExplained
    <3>2. e \in committed /\ e # event[w]
      BY <1>4
    <3>3. CASE e \in log
      BY <3>2, <3>3, <1>4 DEF Id
    <3>4. CASE e \notin log
      BY <3>2, <3>4, <1>4 DEF IInv, LossIsExplained
    <3> QED BY <3>3, <3>4
  <2>5. RetentionHolds'
    <3>1. horizon \in Int /\ event[w].time \in Int
      BY <1>2 DEF IInv, LogTypeOK, Event
    <3> QED BY <3>1, <1>1, <1>4
            DEF IInv, LateInv, RetentionHolds, RecentAudits
  <2> QED BY <2>1, <2>2, <2>3, <2>4, <2>5 DEF IInv
<1> QED BY <1>3, <1>4 DEF PutAudit

LEMMA RetentionCallKeeps ==
  ASSUME IInv, NEW w \in Writers, NEW actor \in Actors, NEW days \in DaysInputs,
         RetentionCall(w, actor, days)
  PROVE  IInv'
<1> USE AuditAssumption
<1>1. /\ pc[w] = "idle" /\ calls' \in 0 .. MaxCalls
      /\ UNCHANGED <<log, clock, history, faults, restarts>>
  BY DEF RetentionCall, IInv, LogTypeOK
<1>2. CASE UNCHANGED <<pc, event, cutoff, meant>>
  BY <1>1, <1>2 DEF IInv, LogTypeOK, EventInv, ClockInv, LateInv, OnRecordInv,
     LossIsExplained, RetentionHolds, RecentAudits, history
<1>3. CASE /\ ~Refused(actor, days)
           /\ Goto(w, "delete")
           /\ event' = [event EXCEPT ![w].actor = actor]
           /\ cutoff' = [cutoff EXCEPT ![w] = clock + Wrap(-days * Day)]
           /\ meant' = [meant EXCEPT ![w] = clock - days * Day]
  <2>1. /\ days \in Int /\ days >= 1 /\ clock \in Int
        /\ pc' = [pc EXCEPT ![w] = "delete"]
    BY <1>3 DEF Refused, Goto, IInv, LogTypeOK
  <2>2. /\ clock + Wrap(-days * Day) \in Int
        /\ clock - days * Day \in Int
        /\ clock - days * Day <= clock
    BY <2>1, DaysArePositive, WrapType
  <2>3. LogTypeOK'
    BY <1>1, <1>3, <2>1, <2>2 DEF IInv, LogTypeOK, Draft, history
  <2>4. EventInv'
    BY <1>3, <2>1 DEF IInv, LogTypeOK, EventInv, Draft
  <2>5. ClockInv'
    BY <1>1, <1>3, <2>1, <2>2 DEF IInv, LogTypeOK, ClockInv, history
  <2>6. LateInv' /\ OnRecordInv'
    BY <1>1, <1>3, <2>1 DEF IInv, LogTypeOK, LateInv, OnRecordInv, history
  <2>7. LossIsExplained' /\ RetentionHolds'
    BY <1>1 DEF IInv, LossIsExplained, RetentionHolds, RecentAudits, history
  <2> QED BY <2>3, <2>4, <2>5, <2>6, <2>7 DEF IInv
<1> QED BY <1>2, <1>3 DEF RetentionCall

LEMMA DeleteKeeps ==
  ASSUME IInv, NEW w \in Writers, DeleteAuditsBefore(w)
  PROVE  IInv'
<1> USE AuditAssumption
<1>1. /\ pc[w] = "delete"
      /\ UNCHANGED <<clock, committed, setBack, calls, restarts>>
  BY DEF DeleteAuditsBefore
<1>2. CASE /\ StoreFails /\ Return(w)
           /\ UNCHANGED <<log, horizon, trimmed, wrapped, inFlight>>
  <2>1. LogTypeOK'
    BY <1>1, <1>2, ReturnKeeps DEF IInv, LogTypeOK, StoreFails
  <2>2. EventInv' /\ ClockInv' /\ LateInv'
    BY <1>1, <1>2, ReturnKeeps DEF IInv, EventInv, ClockInv, LateInv
  <2>3. OnRecordInv'
    BY <1>2 DEF IInv, LogTypeOK, OnRecordInv, StoreFails
  <2>4. LossIsExplained' /\ RetentionHolds'
    BY <1>1, <1>2 DEF IInv, LossIsExplained, RetentionHolds, RecentAudits
  <2> QED BY <2>1, <2>2, <2>3, <2>4 DEF IInv
<1>3. CASE /\ log' = Kept(cutoff[w])
           /\ horizon' = IF meant[w] > horizon THEN meant[w] ELSE horizon
           /\ trimmed' = TRUE
           /\ wrapped' = (wrapped \/ cutoff[w] # meant[w])
           /\ inFlight' = inFlight \cup
                {event[v] : v \in {v \in Writers :
                              pc[v] = "put" /\ event[v].time < meant[w]}}
           /\ Goto(w, "report")
           /\ UNCHANGED <<event, cutoff, meant, faults>>
  <2>1. /\ pc' = [pc EXCEPT ![w] = "report"]
        /\ meant[w] \in Int /\ cutoff[w] \in Int
        /\ horizon \in Int /\ horizon' \in Int
        /\ horizon <= horizon' /\ meant[w] <= horizon'
        /\ horizon' \in {horizon, meant[w]}
        /\ wrapped' \in BOOLEAN
    BY <1>3 DEF Goto, IInv, LogTypeOK
  <2>0. ~wrapped' => ~wrapped /\ cutoff[w] = meant[w]
    BY <1>3, Zenon
  <2>2. LogTypeOK'
    BY <1>1, <1>3, <2>1 DEF IInv, LogTypeOK, EventInv, Kept
  <2>3. EventInv' /\ ClockInv'
    BY <1>1, <1>3, <2>1 DEF IInv, LogTypeOK, EventInv, ClockInv
  <2>4. LateInv'
    <3> SUFFICES ASSUME ~setBack, ~wrapped', NEW v \in Writers,
                        pc'[v] = "put", event[v].time < horizon'
                 PROVE  event[v] \in inFlight'
      BY <1>1, <1>3 DEF LateInv
    <3>1. pc[v] = "put" /\ ~wrapped
      BY <1>3, <2>1 DEF IInv, LogTypeOK
    <3> QED BY <3>1, <1>3, <2>1 DEF IInv, LateInv
  <2>5. OnRecordInv'
    BY <2>1 DEF OnRecordInv, IInv, LogTypeOK
  <2>6. LossIsExplained'
    <3>1. log' \subseteq log
      BY <1>3 DEF Kept
    <3> SUFFICES ASSUME NEW e \in committed \ log', ~(e.time < horizon'), ~wrapped'
                 PROVE  \E other \in committed \ {e} :
                          /\ other.time = e.time
                          /\ other.entity = e.entity
                          /\ other.action = e.action
      BY <3>1, <1>1 DEF LossIsExplained, IInv
    <3>2. e.time \in Int /\ ~wrapped /\ cutoff[w] = meant[w]
      BY <2>0 DEF IInv, LogTypeOK, Event
    <3>3. e \notin log
      BY <3>2, <1>3, <2>1 DEF Kept
    <3>4. ~(e.time < horizon)
      BY <3>2, <2>1
    <3> QED BY <3>2, <3>3, <3>4 DEF IInv, LossIsExplained
  <2>7. RetentionHolds'
    <3> SUFFICES ASSUME ~setBack, ~wrapped', NEW e \in log', e.time < horizon'
                 PROVE  e \in inFlight'
      BY <1>1 DEF RetentionHolds, RecentAudits
    <3>1. /\ e \in log /\ ~(e.time < cutoff[w]) /\ e.time \in Int
          /\ ~wrapped /\ cutoff[w] = meant[w]
      BY <1>3, <2>0 DEF Kept, IInv, LogTypeOK, Event
    <3>2. e.time < horizon
      BY <3>1, <2>1
    <3> QED BY <3>1, <3>2, <1>3 DEF IInv, RetentionHolds, RecentAudits
  <2> QED BY <2>2, <2>3, <2>4, <2>5, <2>6, <2>7 DEF IInv
<1> QED BY <1>2, <1>3 DEF DeleteAuditsBefore

LEMMA ClockKeeps ==
  ASSUME IInv, Tick \/ SetBack
  PROVE  IInv'
<1> USE AuditAssumption
<1>1. CASE Tick
  BY <1>1 DEF Tick, IInv, LogTypeOK, EventInv, ClockInv, LateInv, OnRecordInv,
     LossIsExplained, RetentionHolds, RecentAudits, history
<1>2. CASE SetBack
  BY <1>2 DEF SetBack, IInv, LogTypeOK, EventInv, ClockInv, LateInv, OnRecordInv,
     LossIsExplained, RetentionHolds, RecentAudits, history
<1> QED BY <1>1, <1>2

LEMMA RestartKeeps ==
  ASSUME IInv, Restart
  PROVE  IInv'
<1> USE AuditAssumption
<1>1. LogTypeOK'
  BY DEF Restart, IInv, LogTypeOK, NoEvent, Draft, history
<1>2. EventInv' /\ ClockInv' /\ LateInv' /\ OnRecordInv'
  BY DEF Restart, IInv, LogTypeOK, EventInv, ClockInv, LateInv, OnRecordInv, history
<1>3. LossIsExplained' /\ RetentionHolds'
  BY DEF Restart, IInv, LossIsExplained, RetentionHolds, RecentAudits, history
<1> QED BY <1>1, <1>2, <1>3 DEF IInv

LEMMA StepKeeps == IInv /\ [Next]_vars => IInv'
<1> USE AuditAssumption
<1> SUFFICES ASSUME IInv, [Next]_vars PROVE IInv'
  OBVIOUS
<1>1. ASSUME NEW w \in Writers, NEW actor \in Actors \cup {Nil},
             NEW action \in Actions \ {"retention_applied"},
             NEW entity \in Entities \ {"retention"},
             RecordCall(w, actor, action, entity)
      PROVE  IInv'
  <2>1. calls' \in 0 .. MaxCalls
    BY <1>1 DEF RecordCall, IInv, LogTypeOK
  <2> QED BY <1>1, <2>1, StampKeeps DEF RecordCall
<1>2. ASSUME NEW w \in Writers, ReportRetention(w)
      PROVE  IInv'
  <2>1. event[w].actor \in Actors /\ calls' \in 0 .. MaxCalls
    BY <1>2 DEF ReportRetention, IInv, LogTypeOK, EventInv
  <2> QED BY <1>2, <2>1, StampKeeps DEF ReportRetention
<1>3. CASE UNCHANGED vars
  BY <1>3 DEF vars, IInv, LogTypeOK, EventInv, ClockInv, LateInv, OnRecordInv,
     LossIsExplained, RetentionHolds, RecentAudits, history
<1> QED BY <1>1, <1>2, <1>3, PutKeeps, RetentionCallKeeps, DeleteKeeps, ClockKeeps,
        RestartKeeps DEF Next

-----------------------------------------------------------------------------

\* The inductive invariant of the audit log: what the writers hold, where the
\* clock is, and the properties that follow.
THEOREM Inductive == Spec => []IInv
<1>1. Init => IInv
  BY InitTyped
<1> QED BY <1>1, StepKeeps, PTL DEF Spec

\* Store.PutAudit and Store.DeleteAuditsBefore: no event is lost but to a
\* retention, to an overflow of its duration, or to an event with its id.
THEOREM Losses == Spec => []LossIsExplained
<1>1. IInv => LossIsExplained
  BY DEF IInv
<1> QED BY <1>1, Inductive, PTL

\* Store.DeleteAuditsBefore: nothing older than a retention comes back but
\* what was on its way.
THEOREM Retention == Spec => []RetentionHolds
<1>1. IInv => RetentionHolds
  BY DEF IInv
<1> QED BY <1>1, Inductive, PTL

\* ApplyAuditRetention: a trimmed trail says so, however many retentions race.
THEOREM OnRecord == Spec => []RetentionIsOnRecord
<1>1. IInv => RetentionIsOnRecord
  BY DEF IInv, OnRecordInv, RetentionIsOnRecord
<1> QED BY <1>1, Inductive, PTL
=============================================================================
