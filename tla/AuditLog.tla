------------------------------ MODULE AuditLog ------------------------------
(***************************************************************************)
(* The audit trail as a log in time: internal/audit/audit.go, the audit    *)
(* part of internal/store/catalog.go and ApplyAuditRetention of            *)
(* internal/service/administration.go.  Everybody who records an event     *)
(* reads the clock first and commits later.  The modules of the other      *)
(* components keep only what was recorded; here events have a moment, and  *)
(* an id made of it, and old ones are removed.                             *)
(***************************************************************************)
EXTENDS Integers, FiniteSets

CONSTANTS
  Writers,      \* goroutines that record events or apply a retention
  Entities,     \* ids of what events are about, "retention" included
  Actions,      \* what is recorded, "retention_applied" included
  Actors,       \* ids of accounts
  Auditors,     \* those whom Authorize lets see to the audit trail
  Nil,          \* the empty string
  DaysInputs,   \* what ApplyAuditRetention is called with
  Day,          \* nanoseconds of a day, in ticks of the clock
  Limit,        \* a time.Duration is in -Limit .. Limit - 1
  MaxTime,      \* bound on the clock
  MaxCalls,     \* bound on the calls
  MaxFaults,    \* bound on the failing write transactions
  MaxRestarts   \* bound on the restarts of the process

ASSUME AuditAssumption ==
  /\ "retention" \in Entities /\ "retention_applied" \in Actions
  /\ Auditors \subseteq Actors
  /\ Nil \notin Actors
  /\ DaysInputs \subseteq Int
  /\ Day \in Nat \ {0} /\ Limit \in Nat \ {0}
  /\ {MaxTime, MaxCalls, MaxFaults, MaxRestarts} \subseteq Nat

Event == [time: 0 .. MaxTime, entity: Entities, action: Actions,
          actor: Actors \cup {"system"}]

NoEvent == [time |-> 0, entity |-> Nil, action |-> Nil, actor |-> Nil]

\* What a call has of its event so far: first only who calls.
Draft == [time: 0 .. MaxTime, entity: Entities \cup {Nil},
          action: Actions \cup {Nil}, actor: Actors \cup {"system", Nil}]

VARIABLES
  log,        \* bucket audit_events
  clock,      \* the wall clock
  pc,         \* where each writer is
  event,      \* the event it is about to put
  cutoff,     \* the moment before which it is about to delete
  meant,      \* history: the moment it was asked to delete before
  committed,  \* history: the events whose put was committed
  horizon,    \* history: the latest moment a committed retention was asked for
  trimmed,    \* history: a retention was committed
  wrapped,    \* history: one of them had a cutoff nobody had asked for
  inFlight,   \* history: old events on their way while one was committed
  setBack,    \* history: the clock was set back
  calls, faults, restarts   \* so far

history == <<committed, horizon, trimmed, wrapped, inFlight, setBack>>
vars == <<log, clock, pc, event, cutoff, meant, history, calls, faults,
          restarts>>

LogTypeOK ==
  /\ log \subseteq Event /\ committed \subseteq Event /\ inFlight \subseteq Event
  /\ clock \in 0 .. MaxTime
  /\ pc \in [Writers -> {"idle", "put", "delete", "report"}]
  /\ event \in [Writers -> Draft]
  /\ cutoff \in [Writers -> Int] /\ meant \in [Writers -> Int]
  /\ horizon \in Int
  /\ trimmed \in BOOLEAN /\ wrapped \in BOOLEAN /\ setBack \in BOOLEAN
  /\ calls \in 0 .. MaxCalls
  /\ faults \in 0 .. MaxFaults
  /\ restarts \in 0 .. MaxRestarts

Init ==
  /\ log = {} /\ committed = {} /\ inFlight = {}
  /\ clock \in 0 .. MaxTime
  /\ pc = [w \in Writers |-> "idle"]
  /\ event = [w \in Writers |-> NoEvent]
  /\ cutoff = [w \in Writers |-> 0] /\ meant = [w \in Writers |-> 0]
  /\ horizon = 0
  /\ trimmed = FALSE /\ wrapped = FALSE /\ setBack = FALSE
  /\ calls = 0 /\ faults = 0 /\ restarts = 0

-----------------------------------------------------------------------------

Goto(w, label) == pc' = [pc EXCEPT ![w] = label]

StoreFails == faults < MaxFaults /\ faults' = faults + 1

Return(w) ==
  /\ Goto(w, "idle")
  /\ event' = [event EXCEPT ![w] = NoEvent]
  /\ cutoff' = [cutoff EXCEPT ![w] = 0] /\ meant' = [meant EXCEPT ![w] = 0]

\* Logger.Record up to the put: who is not named is the system.
Stamp(w, actor, action, entity) ==
  /\ event' = [event EXCEPT ![w] =
       [time |-> clock, entity |-> entity, action |-> action,
        actor |-> IF actor = Nil THEN "system" ELSE actor]]
  /\ Goto(w, "put")

\* Any other operation of the service records what it did.
RecordCall(w, actor, action, entity) ==
  /\ pc[w] = "idle"
  /\ calls < MaxCalls /\ calls' = calls + 1
  /\ Stamp(w, actor, action, entity)
  /\ UNCHANGED <<log, clock, cutoff, meant, history, faults, restarts>>

\* Mutant of Id: an id that does not name the entity.
IdWithoutEntity(e) == <<e.time, e.action>>

Id(e) == <<e.time, e.entity, e.action>>

\* Store.PutAudit: an event replaces the one that has its id.
PutAudit(w) ==
  /\ pc[w] = "put"
  /\ \/ /\ log' = {e \in log : Id(e) # Id(event[w])} \cup {event[w]}
        /\ committed' = committed \cup {event[w]}
        /\ UNCHANGED faults
     \/ StoreFails /\ UNCHANGED <<log, committed>>
  /\ Return(w)
  /\ UNCHANGED <<clock, horizon, trimmed, wrapped, inFlight, setBack, calls,
                 restarts>>

-----------------------------------------------------------------------------
\* ApplyAuditRetention.

\* Arithmetic of a time.Duration.
Wrap(d) == ((d + Limit) % (2 * Limit)) - Limit

Refused(actor, days) == actor \notin Auditors \/ days < 1

RetentionCall(w, actor, days) ==
  /\ pc[w] = "idle"
  /\ calls < MaxCalls /\ calls' = calls + 1
  /\ \/ Refused(actor, days) /\ UNCHANGED <<pc, event, cutoff, meant>>
     \/ /\ ~Refused(actor, days)
        /\ Goto(w, "delete")
        /\ event' = [event EXCEPT ![w].actor = actor]
        /\ cutoff' = [cutoff EXCEPT ![w] = clock + Wrap(-days * Day)]
        /\ meant' = [meant EXCEPT ![w] = clock - days * Day]
  /\ UNCHANGED <<log, clock, history, faults, restarts>>

\* Store.RecentAudits.
RecentAudits(since) == {e \in log : ~(e.time < since)}

\* Mutant of Kept: deleting under a cursor makes it skip what comes next.
KeptByCursor(moment) ==
  {e \in log : e.time < moment => \E f \in log : f.time = e.time - 1}

Kept(moment) == {e \in log : ~(e.time < moment)}

\* Mutant of DeleteAuditsBefore: what removed nothing is not recorded.
DeleteQuietly(w) ==
  /\ pc[w] = "delete"
  /\ log' = Kept(cutoff[w])
  /\ horizon' = IF meant[w] > horizon THEN meant[w] ELSE horizon
  /\ trimmed' = TRUE
  /\ wrapped' = (wrapped \/ cutoff[w] # meant[w])
  /\ inFlight' = inFlight \cup
       {event[v] : v \in {v \in Writers : pc[v] = "put" /\ event[v].time < meant[w]}}
  /\ IF log' = log THEN Return(w)
     ELSE Goto(w, "report") /\ UNCHANGED <<event, cutoff, meant>>
  /\ UNCHANGED <<clock, committed, setBack, calls, faults, restarts>>

\* Store.DeleteAuditsBefore, one transaction over the bucket.
DeleteAuditsBefore(w) ==
  /\ pc[w] = "delete"
  /\ \/ /\ log' = Kept(cutoff[w])
        /\ horizon' = IF meant[w] > horizon THEN meant[w] ELSE horizon
        /\ trimmed' = TRUE
        /\ wrapped' = (wrapped \/ cutoff[w] # meant[w])
        /\ inFlight' = inFlight \cup
             {event[v] : v \in {v \in Writers :
                                  pc[v] = "put" /\ event[v].time < meant[w]}}
        /\ Goto(w, "report")
        /\ UNCHANGED <<event, cutoff, meant, faults>>
     \/ /\ StoreFails
        /\ Return(w)
        /\ UNCHANGED <<log, horizon, trimmed, wrapped, inFlight>>
  /\ UNCHANGED <<clock, committed, setBack, calls, restarts>>

\* The retention is recorded at the time it is when the events are gone.
ReportRetention(w) ==
  /\ pc[w] = "report"
  /\ Stamp(w, event[w].actor, "retention_applied", "retention")
  /\ UNCHANGED <<log, clock, cutoff, meant, history, calls, faults, restarts>>

-----------------------------------------------------------------------------

\* The clock is the machine's: it may stand still between two readings, and
\* somebody may set it back.
Tick ==
  /\ clock < MaxTime
  /\ clock' = clock + 1
  /\ UNCHANGED <<log, pc, event, cutoff, meant, history, calls, faults,
                 restarts>>

SetBack ==
  /\ clock' \in 0 .. clock - 1
  /\ setBack' = TRUE
  /\ UNCHANGED <<log, pc, event, cutoff, meant, committed, horizon, trimmed,
                 wrapped, inFlight, calls, faults, restarts>>

\* The process ends and a new one opens the store.
Restart ==
  /\ restarts < MaxRestarts /\ restarts' = restarts + 1
  /\ pc' = [w \in Writers |-> "idle"]
  /\ event' = [w \in Writers |-> NoEvent]
  /\ cutoff' = [w \in Writers |-> 0] /\ meant' = [w \in Writers |-> 0]
  /\ UNCHANGED <<log, clock, history, calls, faults>>

Next ==
  \/ \E w \in Writers :
       \/ \E actor \in Actors \cup {Nil}, action \in Actions \ {"retention_applied"},
             entity \in Entities \ {"retention"} :
            RecordCall(w, actor, action, entity)
       \/ \E actor \in Actors, days \in DaysInputs : RetentionCall(w, actor, days)
       \/ PutAudit(w) \/ DeleteAuditsBefore(w) \/ ReportRetention(w)
  \/ Tick \/ SetBack \/ Restart

Spec == Init /\ [][Next]_vars

-----------------------------------------------------------------------------

\* The log holds nothing that was not recorded, and a recorded event that is
\* missing is accounted for: a retention was asked to remove what is as old,
\* or somebody else recorded the same action on the same entity in the same
\* tick and the later put replaced the earlier one.  The retention may also
\* have been asked for more days than a time.Duration can count: then its
\* cutoff lies in the future and the whole trail goes.
LossIsExplained ==
  /\ log \subseteq committed
  /\ \A e \in committed \ log :
       \/ e.time < horizon \/ wrapped
       \/ \E other \in committed \ {e} :
            /\ other.time = e.time
            /\ other.entity = e.entity /\ other.action = e.action

\* After a retention nothing older than it was asked to leave is found, but
\* for an event that was stamped before and put after the deletion, unless
\* the clock was set back or the cutoff was not the one asked for.
RetentionHolds ==
  ~setBack /\ ~wrapped => log \ RecentAudits(horizon) \subseteq inFlight

\* A trail that was trimmed says so, however many retentions race: the last
\* of them is on record, unless a write failed or the process ended before.
RetentionIsOnRecord ==
  /\ trimmed /\ faults = 0 /\ restarts = 0
  /\ \A w \in Writers : pc[w] # "report"
  /\ \A w \in Writers : pc[w] = "put" => event[w].action # "retention_applied"
  => \E e \in log : e.action = "retention_applied"
=============================================================================
