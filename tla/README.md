# Verification of the service request dispatcher

The repository is a Go program (`service-request-dispatch`): clients create
service requests over HTTP, a queue hands them to agent groups, agents resolve
them, and everything is kept in a bbolt database with an audit trail. This
directory holds TLA+ modules that model it, the TLC configurations that check
them, and proofs for TLAPS. Paths below are relative to `src/internal/` unless
they start with `cmd/`.

To check a module: `tlc -workers 2 -config X.cfg MCM.tla` with the pairs of the
table of runs, and `tlapm M.tla` for the eight modules whose name ends in
`Proofs`. `PROJECT.json` is the index: which definition models which lines, which run
checks which property, which mutant of the model breaks it, and which theorems are
proved.

## 1. Inventory

| part | source | state it keeps | operations |
|---|---|---|---|
| request lifecycle | `model/transition.go`, `model/entities.go` | none | `CanTransition`, `NormalizeStatus`, `IsOpen`, `IsTerminal` |
| dispatch service | `service/service.go`, `store/transaction.go` | the mutex of `Service`; buckets `service_requests`, `dispatch_attempts`, `audit_events` | `CreateAndDispatch`, `ProcessQueue`, `ChangeStatus` |
| job queue | `queue/queue.go`, `queue/receive.go` | channels `jobs` and `closed`, an RWMutex | `Enqueue`, `Receive`, `Close`, `Start` |
| directory | `service/administration.go`, `service/permissions.go`, `store/catalog.go`, `service/service.go:36-74` | buckets `user_accounts`, `agent_groups` | `RegisterUser`, `CreateGroup`, `DisableUser`, `EnableUser`, `ReplaceGroupMembers`, `SetGroupActive` |
| routing policy | `routing/policy.go` | the rules and the fallback group | `NewPolicy`, `Replace`, `Remove`, `SetFallback`, `Decide`, `MergeRules`, `ValidateGroups`, `GroupCoverage` |
| store | `store/store.go` | five bbolt buckets | put, get, delete, list; each one transaction |
| audit trail and retention | `audit/audit.go`, `store/catalog.go`, `service/administration.go` | bucket `audit_events` | `Record`, `PutAudit`, `RecentAudits`, `DeleteAuditsBefore`, `ApplyAuditRetention` |
| snapshots | `store/backup.go` | none | `ExportSnapshot`, `ImportSnapshot` |
| queries and reports | `filter/`, `service/report.go`, `service/administration.go` | none | `ListRequests`, `Match`, `Apply`, `Paginate`, both parsers of a query, facets, dashboard, loads of groups and agents |
| HTTP interface | `httpapi/` | none | decodes a call, runs it in a goroutine of its own |
| process | `cmd/server/main.go`, `store/store.go:33-57` | whether the database is open | opens it, makes an empty queue of 32; on a signal closes the queue, shuts the listener down, closes the store |
| configuration, labels, field checks | `config/`, `model/validation.go`, `model/view.go` | none | |

How they interact: every HTTP call is a goroutine. A create holds
`Service.mu` from the duplicate check to its return, the wait for room in the
queue included. `ProcessQueue` and `ChangeStatus` take no lock. All of them read
and write the store in separate transactions; bbolt serialises the writing ones.
The queue is in memory, the store survives the process. Accounts and groups
change under the handlers at any time. On a signal the main goroutine closes the
queue, waits two seconds for the handlers and closes the store under those that
are left. `routing`, `store/backup.go`, most of `administration.go`,
`filter/query.go` and `SaveDispatchDraft` are called by nothing in the program:
they are library code and are modelled as such, with callers that may come at any
time.

What is hard here: the steps of two calls between each other's transactions;
updates that write back what was read a transaction ago; the undoing of a
create, which may itself fail; a client that gives up while its job waits for
room; a `select` that chooses among ready cases; shutdown racing senders, and
handlers that outlive the store; a restart that loses the queue and keeps the
store; snapshots and retentions that race with the writers; a clock that stands
still or goes back. `PROJECT.json` lists these at
their lines under `hazards`, with the properties that watch them.

What makes each part correct:

* lifecycle: a terminal status is final; every step is in the table.
* dispatch: a job finds its request; a request is dispatched at most once; the
  trail tells the truth and, without faults, all of it; a failing create leaves
  nothing; calls return.
* queue: bounded, first in first out, nothing accepted after `Close`; `Close`
  comes through.
* directory: whoever acts was entitled to during the call; members are agents;
  one change never undoes another; a change is on record unless a failed write
  or a restart cost its entry.
* routing: the rules stay valid and sorted; the decision is the best there is;
  hours over midnight are right; merging and replacing rules meet.
* process: to its store it is the dispatcher whatever happens to it; a shutdown
  that is not cut short leaves nothing half done; after a signal it ends.
* snapshots: nothing in one refers to what it lacks, and importing one keeps
  that so in the store.
* audit log: what is missing is accounted for; a retention holds and says so.
* queries: listings, pages and counts agree with each other, the two parsers
  but where they are known to differ.
* reports: what their rows count, and what they miss, while the store changes.

## 2. Modules

| module | what it is |
|---|---|
| `RequestStatus` | the statuses, the transition table, the words of the status route |
| `Lifecycle` | abstract: what the dispatcher promises about a stored request |
| `Dispatch` | the three operations, step by step, with failing writes and restarts |
| `DispatchInv` | the inductive invariant of `Dispatch` |
| `DispatchProofs` | theorems: safety and refinement of `Dispatch`, and what holds of it as long as nothing fails |
| `Server` | the process: `Dispatch` with its start, signal, shutdown and exit |
| `Backup` | `Dispatch` with exports and imports of snapshots |
| `ProcessProofs` | theorems: `Server` is a `Dispatch` to its store, and what of `Dispatch` survives an import |
| `FifoQueue` | abstract: a bounded queue that can be shut |
| `JobQueue` | the channels and the lock, one action per operation on them |
| `JobQueueProofs` | its theorems |
| `Registry` | abstract: what the directory promises to those who read it |
| `Directory` | accounts and groups, with permissions and the trail |
| `DirectoryProofs` | its theorems |
| `AuditLog` | the trail as a log in time, with retention |
| `AuditProofs` | its theorems |
| `RoutingPolicy` | the routing policy |
| `RoutingProofs` | its theorems |
| `RequestQuery` | lists of requests and what is computed from them |
| `LoadReports` | `RequestQuery` with the two load reports, each read in several transactions |
| `QueryProofs` | theorems of `RequestQuery` and `LoadReports` |
| `Sorting` | `sort.SliceStable` and the loop that keeps some elements of a list, by ranks; used by `RoutingPolicy` and `RequestQuery` |
| `SortingProofs` | lemmas about them, for lists of any length |
| `MCDispatch`, `MCServer`, `MCBackup`, `MCDirectory`, `MCAuditLog`, `MCRoutingPolicy`, `MCRequestQuery`, `MCLoadReports` | instances for TLC; `JobQueue` needs none |

The modules compose through their abstract specifications. `Dispatch` uses the
queue as a sequence with a capacity and an atomic send and receive: that is
`FifoQueue`, and `JobQueue` implements it. `Dispatch` lets its environment
change one account or one group at a time and never removes a group: that is
`Registry`, and `Directory` implements it. `Server` and `Backup` extend
`Dispatch` and use its actions; `Server` implements `Dispatch` in turn, with
`Restart` standing for every way in which a process may end. `AuditLog` gives
the events of the other modules, which keep only that something is on record, a
time and an id.

### Dispatch

A handler is a goroutine that serves one call after the other. `pc[h]` is where
it stands, named for what it does next:

| `pc` | code | action |
|---|---|---|
| `check` | `service.go:91-95` | `CheckExists`, which takes the mutex |
| `put` | `96-98` | `PutRequest` |
| `group`, `member` | `117-138` | `ValidateGroup`, `ValidateMember` |
| `enqueue`, `send` | `queue.go:39-51` | `Enqueue`, `Send`, `CancelSend` |
| `undo` | `service.go:103,108` | `UndoRequest` |
| `created` | `111` | `RecordCreated` |
| `receive` | `141` | `Receive`, `ReceiveNothing` |
| `load` | `145` | `LoadRequest` |
| `chooseGroup`, `choose` | `167-182` | `ChooseGroup`, `ChooseMember` |
| `failed` | `151` | `RecordFailure` |
| `assign`, `attempt`, `dispatched` | `154`, `158`, `161` | `Assign`, `SaveAttempt`, `RecordDispatched` |
| `update`, `changed` | `195`, `199` | `ChangeStatus`, `RecordChanged` |

`task[h]` is the record the handler will write: the body of a create, the job
and then the agent of a dispatch, the stale copy of a status call. A step is one
bbolt transaction or one operation on the mutex or the queue; the rest of the
code is local to the call and part of the step. A write transaction may fail
(`StoreFails`), which rolls it back; `Restart` empties what is in memory. The
first test of the routes and the defaults of a body happen before the first step
and choose the sets `Drafts` and `StatusInputs`. A missing key is `Nil`. Times,
texts and priorities are left out: nothing here depends on them. A failing read
is left out too; `bbolt` reads from a memory map.

### JobQueue

The RWMutex is two variables: the readers inside, and the writer that has
announced itself, which keeps new readers out. `Send` and `ReceiveJob` are the
cases of the channel `jobs`; `Cancel` and `ReceiveCancelled` that of a context
which may be done at any time. `accepted` and `taken` are history.

### Server

`main` is where the main goroutine stands: `serving` until the signal
(`main.go:43-45`), `closing` before `Queue.Close` (46), `stopping` before
`server.Shutdown` closes the listener (47-49), `draining` while it waits for the
calls, `closed` after the deferred `Store.Close` (29), and `exited`. `Serve` is a
step of a handler while the store is open. `ServeWithoutStore` is one of a
handler that is still there after that: what it does on the queue goes on, and
the next use of the store is a call on a database that is nil, which panics, is
recovered by `net/http`, and runs the deferred unlocks (`Panic`). The two seconds
are a deadline that may pass at any time (`TimedOut`). `cut` is history: a call
was left behind.

### Backup

`Export` is one read transaction over all buckets, `Import` one write transaction
that puts what the snapshot holds over what is stored. `RestoreInto` is a new
process on a new database into which a snapshot was imported. What is imported
was exported from the same history: in a snapshot of another database an id would
mean another request.

### Directory

`pc` goes through `authorize`, `check` (one member per step), `write` and
`audit`; each write is the transaction of its store method. Commands are the
calls after the checks of their fields. `held[h]` is history: who was enabled in
which role at some time during the call.

### AuditLog

A writer stamps its event with the clock (`RecordCall`) and puts it in a later
step (`PutAudit`); a retention computes its cutoff, deletes, and records itself in
three steps. The clock is not monotone. `Wrap` is the arithmetic of a
`time.Duration`, of `Limit` ticks instead of 2^63 nanoseconds. The id of an event
is made of time, entity and action, and a put replaces what has the same id.
`horizon`, `wrapped`, `inFlight`, `committed` and `setBack` are history.

### RequestQuery

The bucket of requests is the state, all that is computed from a list of them is an
operator. A request may hold any group, any assignee and any status word, as the body
of a POST may: it is stored before its group is looked up (`service.go:96,99`), stays
if its deletion fails, and nobody looks up its assignee. `ListRequests` is the set of
the orders that `sort.Slice` may leave, since it is not stable. A filtered list is
`Chosen`: the elements at the places that pass, each at the rank of its place. A sum is
`Total`, the number of pairs of an index and a number up to its value. Both say without
recursion what the loops of the code compute, so that lists of any length can be
reasoned about. `Paginate` computes in the width of an `int` and may give `Panic`, what
a slice out of range does.

A word is a value, and `Trim` gives the word without the blanks around it, `Nil` for
one of blanks alone: `filter.Parse` cuts blanks (`query.go:29`), the routes do not
(`api.go:244`). `ParsersAgree` says how the two differ and that they differ in nothing
else. A tag stands for its spellings with capitals; that `EqualFold` (`filter.go:38`)
and `ToLower` (`query.go:89`) differ on a few letters outside ASCII is left out.

### LoadReports

`GroupLoads` lists the groups in one transaction (`ListGroups`), reads all requests in
another (`ReadGroupRows`) and has a row for each group of the first; `AgentLoads` lists
the accounts once, keeps those whose role is agent (`ListAgents`), and reads the
requests once for each of them (`ReadAgent`). Between these steps requests are written,
groups created and accounts registered again with another role. So a request may
belong to a group or an agent without a row, and the properties count it apart.
`agents` and `groups` say of the directory what the reports read of it: the role of an
account, and that a group is there. `steady` and `taken` are history. One report is read at a
time, because a report writes nothing.

### RoutingPolicy

A policy has no lock and one user. The actions are its methods; `Decide`,
`ValidateGroups` and `MergeRules` are operators: of two overrides with one id the
later counts (`LastOf`), and it counts for the rule of the base (`Overridden`); the
result is sorted by order and id, so that Go's order of a map leaves no trace. Ids are numbers
in the order of the strings they stand for, the stable sort is defined by ranks.

## 3. Runs

All runs use two TLC workers; the longest, `server`, takes about three minutes.

| run | module | states | what it shows |
|---|---|---|---|
| `dispatch_core` | `MCDispatch` | 330 000 | the trail, the terminal statuses and the rollback of a create when no write fails |
| `dispatch_faults` | `MCDispatch` | 747 000 | two bodies with one id, two groups, two agents, one failing write and one restart: `IInv` is an invariant, the trail stays truthful when one of the writes of a dispatch fails, an assignee was dispatched, `Lifecycle` is implemented |
| `failed_create` | `MCDispatch` | | a failing create may leave its record (finding) |
| `frozen_record` | `MCDispatch` | | a resolved record may be overwritten (finding) |
| `queue` | `JobQueue` | 37 000 | the queue is a bounded queue that can be shut, `Close` and `Receive` come to their end |
| `directory` | `MCDirectory` | 3 460 000 | authority, members, what is not on record, one change at a time, with a failing write and a restart |
| `server` | `MCServer` | 200 000 | the process is a dispatcher to its store, a shutdown that is not cut short is clean, calls return, and a signal ends the process |
| `backup` | `MCBackup` | 506 000 | a job finds its request and no request is dispatched twice, whatever is imported when; nothing in a snapshot or a restored store refers to what is not there |
| `audit_log` | `MCAuditLog` | 2 100 000 | losses are explained, a retention holds and is on record |
| `routing_core` | `MCRoutingPolicy` | 344 | every policy that four rule ids give rise to, merged with every list of up to three overrides |
| `query` | `MCRequestQuery` | 343 | listings, parsers, pages and counts over all stores of three requests, each one of six values or not there, and 46 questions |
| `reports` | `MCLoadReports` | 109 000 | the rows of two groups and two agents while requests, groups and accounts are written |

Bounds, and why they are enough:

* Two handlers. The hazards of this code are races of two calls: a create
  against a create, a process or a status call. The proofs are for any number.
* Two ids, so that one create can wait behind another while a third job is
  served; in `dispatch_faults` one id, so that the two bodies meet.
* A queue of one job, so that it is full and empty within one behaviour; two in
  `queue`, so that the order of jobs can go wrong. The program's 32 differ in
  nothing but the length.
* `MaxFaults` and `MaxRestarts` are 0 or 1: a failing undo is one fault, and
  what a second restart finds, a first one found. In `server` every end of a
  process counts as a restart, so 2 are two processes; in `backup` 2 let a
  database be restored and the process on it restart.
* `StatusInputs` differ from run to run so that terminal, open and unknown
  words all occur; all of them together with two ids would not end in time. In
  `server` there are none: a status call waits for nobody and nobody for it.
* `backup` keeps one snapshot of one request; an older snapshot under a newer
  one adds nothing, since an import reads one and changes none.
* `audit_log`: a day is one tick, a duration overflows from 4 days on, and the
  retentions ask for 0 (refused), 1 and 6 days (overflows). The clock shows 4
  values, so that it can pass a cutoff and be set back behind it; three calls
  are two events of one tick and a retention, or two retentions that race.
* `directory`: two accounts, one of which administers the group and may become an
  agent, and twelve calls, so that each check refuses one and lets one pass.
  States are told apart by `Seen`, which leaves out the entries of the trail that no
  step reads and no property tells from none; every other entry counts.
* `query`: six values with ties in time and in priority, an unknown status, no group,
  a group with a blank, no agent, a repeated and an empty tag; questions with every
  combination of a priority that is absent, too small, right or too large and of ends of
  a period that are absent, unreadable, in order or not, and with blanks around a group
  or an assignee; page sizes below, at and above the limits; an `int` of 16 values.
* `reports`: two requests are enough for one that stays and one that moves; two
  groups and two agents for one that is listed and one that comes too late.
* Handlers and writers are symmetric. No symmetry is used in a liveness
  run.
* In `RoutingPolicy`, the offered rules tie, swap their order, are disabled,
  fail to validate, or have hours over midnight, up to midnight, of no length
  and of one hour; all 24 hours are asked about. `MaxMerged` is 2: lists of two
  overrides, of which the later may undo the earlier or tie with it, and one more.

`server` does not check for deadlock: a process that has exited for the last time
is at rest. Its `StaffedSpec` is `FairSpec` of `Server` from a database that holds its groups
already, as after a restart.

Fairness. `FairSpec` of `Server` is weak fairness for each step that a
goroutine takes once it has a call, and for those of the main goroutine once it
has its signal: the Go scheduler runs what can run, and a timer fires. Taking
the mutex is strongly fair, because `sync.Mutex` hands itself over in order of
arrival after a millisecond. Nothing is assumed of clients: they need not call,
nor cancel, nor process jobs. A full queue therefore holds a create, the mutex
and all other creates for ever, and `CallsReturn` says so: it promises that calls
return, or their process ends, if the queue has room again and again.
`SignalEndsProcess` has the same premise: before the two seconds begin, main waits
in `Queue.Close` for a create that waits for room. In `JobQueue` taking the read lock,
sending and announcing a writer are strongly fair, because the runtime queues
those who wait in order; `CloseReturns` has the same premise about room.

### Findings

1. A create that fails may leave its record behind (`failed_create`): the error
   of the undoing deletion is dropped (`service.go:103,108`), and a failing audit
   event (`service.go:111`) undoes nothing although the job is in the queue. The
   comment at `service.go:101` and the test at `service_test.go:76` say that a
   failed create is rolled back. Without failing writes it is:
   `FailedCreateLeavesNoRecord` holds in `dispatch_core`.
2. A resolved request can be overwritten (`frozen_record`): of two concurrent
   calls that resolve a request, the second passes the test that should refuse it, `if
   request.IsTerminal() { return request, model.ErrInvalidTransition }`
   (`service.go:189`), because it reads a stale record, and `CanTransition` allows a
   status to be written over itself. The group and the
   assignee become those the second call had read, perhaps from before the
   dispatch. The status does stay final.

Seen while reading, and not counted as findings because nothing in the repository
says otherwise or nothing in the program calls the code:

* A process with a full queue and a create that waits for room does not end after
  SIGTERM unless somebody processes a job or the client gives up.
* A retention of more than 106 751 days overflows its duration; the cutoff lies in
  the future and the whole trail is deleted. `LossIsExplained` has to name it.
* Two events of one action on one entity in one tick of the clock have one id, and
  the later replaces the earlier.
* An import writes old records over new ones without asking `CanTransition`: a
  resolved request may be queued again, without a job. `TerminalStatusFinal` and
  `StrandedIsExplained` do not survive it.
* `Paginate` overflows for huge page numbers and then answers with the wrong page
  or panics.
* The routes drop parameters that `filter.Parse` refuses, so that a mistyped period
  lists everything, and do not cut blanks, so that a padded word finds nothing or
  less than it does there. `ParsersAgree` says so and that there is no other difference.
* The load reports miss requests: those of a group or an agent that came after the
  list of them was read, those of a group that was never created, and those of an
  assignee who is no agent. A request that moves between two agents while their report
  is read may be counted twice.
* Tags are not normalised when a request is created, so that the facets count two
  spellings of a tag in one request twice. Requests of one moment are listed in
  any order.
* `BUG_REPRO.md` reports a failing test of `service_test.go:73` which the code as
  it is does not explain any more (`validateDispatchTarget` refuses the missing
  group). `AgentGroup.Validate`, which refuses repeated members, is called by
  nothing, so `CreateGroup` accepts them while `ReplaceGroupMembers` does not.

## 4. Proofs

All proofs are for every value of the constants, under the assumptions the
modules name: `Nil` is none of the ids or records, inputs have their types,
the capacity is at least 1 (`queue.New` sees to it), the bounds are natural
numbers, a day is at least a tick and a duration has a width. `Directory` has finitely
many handlers, since what a restart may cost is counted by them. `Server` counts
every end of a process, so its bound is at least 1. `RequestQuery` has finitely many
ids, and no more than an `int` can count, since the length of a list in memory is one;
`Trim` maps words to words and leaves `Nil`; a parameter that is absent or cannot be read is no number, and a slice out of
range gives no list.

### DispatchProofs

`IInv` (module `DispatchInv`) is `JobInv`, which is `TypeOK`, `TaskInv` and the parts
of `CoreInv`, and `UnstoredInv`. `JobInv` is inductive by itself; it does not use that
an id is free when its create puts it, so that it also holds where imports write to
the store.
Neither `JobHasRecord` nor `AtMostOneDispatch` is inductive: to know that a
rollback does not take the record of a job, one must know that no other call has
a job for the same id. The argument:

1. `MutexHeld`: the handlers inside `CreateAndDispatch` are the holder of the
   mutex, so there is at most one.
2. `UnstoredInv`, `RecordInv`, `FreshInv`, `AbsentInv`: while the holder is before its
   put there is no record; from then to its send there is one, and neither the queue nor
   another handler has a job for it, nor is there an attempt or an outcome on the
   trail, since all these exist only for records that were kept.
3. `QueueInv`, `CarryInv`: a queued or received job has its record, no attempt
   until `SaveAttempt`, and no recorded failure.
4. `QueueDistinct`, `CarryDistinct`, `QueueOrCarry`: there is one job per
   request. `Send` adds one for the holder's request, which had none by 2;
   `Receive` moves it.
5. So `UndoRequest` deletes a record that has no job, `SaveAttempt` writes the
   first attempt, and `RecordFailure` and `RecordDispatched` exclude each other.

A failing write only ends a call early, and a restart only forgets jobs: both
make the obligations weaker. There is a lemma for each action; those that change
only `pc`, or only the trail, share lemmas. `TerminalIsFinal` and `Refinement`
are action properties proved from `IInv`; the latter maps a request to `none`,
`tentative` or `kept` by whether it is stored and whether its create is still
before its send. A restart keeps a tentative request: that is `Keep`.

What holds as long as no write failed and the process did not restart needs an
invariant about what each place of a handler still has to do. `CleanInv` has three
parts: a stored request has its creation on record or its create has not come that
far, and an attempt its dispatch (`RecordedInv`); a request in status `queued` is
in the queue, or with a create that has not sent it, or with a handler that has
not assigned it, or its failure is on record (`AccountedInv`); an agent in a record,
or in what a status call has read, comes from the body, from an attempt, or from a
dispatch that is about to save one (`NamedInv`). `BodyInv` adds what a create and a
dispatch are about to write. From `IInv` it takes that a received job has its
record, so that no job is dropped in `LoadRequest`, and that a request which is taken
back has no attempt. The parts are kept one by one (`CleanKept`), because the first
alone survives a clean exit. `CleanRollback` needs only `IInv`: if no write can fail,
an error ends a create only after its deletion.

Two theorems compose `Dispatch` with what stands for its neighbours. `QueueIsFifo`
adds the received jobs as a history variable to the specification (`ObservedSpec`) and
shows that, as long as the process does not restart, every step does to the channel
what `FifoQueue` allows or nothing: a create puts its job only into a channel that is
open and has room, although it tests `closed` one step earlier. The invariant is
`NoLateSend`: no create is before its send when the queue is closed. `DispatchOverRegistry` replaces
the free changes of groups and accounts by the steps of `Registry` and shows that the
result implements `Spec`, if `GroupValues` holds every value the directory can write
(`Writable`). So what `Dispatch` assumes of its queue and of its directory is what
`JobQueue` and `Directory` are proved to keep.

### JobQueueProofs

`IInv` of `JobQueue` adds to the types that readers are exactly the senders
between their two selects (`LockInv`), and that these have a job. Since
`CloseChannel` needs `readers = {}`, no sender is before its second select when
the channel is closed (`OpenUntilSent`), hence nothing is accepted afterwards
(`ClosedForGood`), and the queue implements `FifoQueue` (`Refinement`).

### ProcessProofs

`ServerInv` is `IInv` and the types of what `Server` adds. A step of a handler, with
or without the store, is a step of `Dispatch`, except for a panic; and a panic does
what a return does, while it gives the mutex back (`PanicKeeps`). So all that follows
from `IInv` holds of the process. `ServerRefinement` maps the time between
`Store.Close` and the exit to the next process: the store is closed where `Restart`
happens in `Dispatch`, what handlers do then is a stutter, and the exit is another.
`CleanExit` adds that main leaves `draining` by `Drained` or has set `cut`, so that a
handler which is still busy when the store is closed is one that `cut` tells of, and
that `RecordedInv` is handed from one process to the next, since at a clean exit
nothing is left to record.

`BackupInv` is `JobInv`, that a dispatch which has looked up its group has one
(`GroupInv`, since no group is ever removed), and what is known of snapshots: nothing in
one refers to what it lacks (`RefersToRecords`), and each knows a beginning of what happened,
no attempt or the one there is, and some of the events (`PastInv`). An import puts
keys and deletes none, so it leaves attempts and events as they are, and of requests
it only adds or replaces records. Of a record `JobInv` asks only that it is there or,
where it is not, that its id has no past; so an import keeps it, and jobs still find
their requests and dispatch them once (`ImportsKeepJobs`, `ImportsDispatchOnce`).
`UnstoredInv` does not survive: a request may be imported while its create is between
its look and its put, which then writes over it. `TerminalStatusFinal` does not
survive either.

### DirectoryProofs

`IInv` of `Directory` says which calls can be at which place (`PlaceInv`); that
whoever is an enabled account now is in `held` of every running call (`HeldInv`); that
the members a call has passed were agents when it passed them (`CheckInv`); and that
no more entries are missing on the trail than failed writes and restarts can have cost
(`ExplainedInv`): each step leaves the set of missing entries as it is or smaller, but
for a failed `Record`, which loses one, and a restart, which loses one per handler. Authority and
membership then hold at each step to `write`, and `held` never shrinks during a call.
`Refinement` maps a write to the one change of the registry and all else to a stutter.

### AuditProofs

`IInv` of `AuditLog`: what writers hold (`EventInv`), no moment in the future unless
the clock was set back (`ClockInv`), an event older than the horizon that is still on
its way was seen by the retention that set it (`LateInv`), and who trimmed the trail
has recorded it or is about to (`OnRecordInv`). `Losses` follows event by event: a put
removes only what has its id, a deletion only what is older than a horizon that never
sinks, unless the cutoff was wrapped.

### SortingProofs

The lemmas that the next two modules share. A list made by ranks puts each element at
the number of elements that come before it. `Ranks` is a counting argument in place of
an induction: under a strict order the ranks of different elements differ, hence n
ranks below n are all of them. So the elements of a finite set have one enumeration in
order (`EnumerationExists`, `EnumerationUnique`), and to know what `Arrange` makes of a
list it is enough to give one (`Arrangement`). From this follow, for lists of any
length: a stable sort has the same elements, in order, and leaves equal ones as they
were (`StableArrangement`); it changes no sorted list (`SortedStays`); a choice of
elements has them once and in the order of the list (`ChosenList`, `ChosenLists`), and
two lists with the same elements at corresponding places have the same choice
(`SameChoice`).

### RoutingProofs

`PolicyOK` is inductive as it stands: `Replace` and `NewPolicy` sort, and a sorted list
has the same rules, each once, in ascending order (`ArrangedBy`); `Least` gives the
element that `FirstMatch` and `Remove` speak of. `DecisionsAreBest` and
`ValidatedPoliciesServe` follow for lists of any length, `HoursAreArcs` by cases on
where an arc passes midnight.

`OthersStay` is about steps. `Remove` is a choice, and a choice of a choice is one.
`Replace` sorts a list whose other rules are in order already: a stable sort keeps the
others as they were, since any two of them were in order, and a rule that is put back
with its old order is where it was, since the list was sorted. `MergingIsReplacing`
compares two ways to one list of rules, for any list of overrides: they end with the
same rules (`OverriddenAppended`, `WithRuleRange`), no two of which have one id, so that
there is one list of them in the order of order and id (`OneEnumeration`).

### QueryProofs

The properties of `RequestQuery` are about one list of requests and follow from
`TypeOK` (`QueryTypes`), by what `ListRequests`, `Select` and `Apply` return
(`ListingLists`, `SelectLists`, `ApplyLists`): every stored request that is selected
once, and how many that is.

* `ListingsAlwaysAgree`: a query is the conjunction of its fields (`MatchByFields`).
* `ParsersAlwaysAgree`: by cases on the parameters. Without blanks the two parsers
  give one query (`ReadAlike`); a word that is emptied is a field less
  (`EmptiedWidens`), and no request has a word and the same word without its blanks
  (`BlanksPart`), but for a tag, of which a request has several; no request is in an
  inverted period or has a priority beyond 5 (`RefusedMatchesNothing`); a dropped
  parameter is a field less (`UnreadWidens`).
* `PagesAlwaysPartition`: page m holds the places (m - 1) s + 1 to m s of the list
  (`PageHolds`), which every place is among once, by division (`SomePlace`,
  `OnePlace`); the offset is what it is without overflow (`WrapFits`).
* `CountsAlwaysAgree`: the requests of the kinds of status are disjoint sets, so their
  numbers add up (`TotalCounts`, `SelectionsAdd`); the sums over tags and priorities
  are bounded by their parts (`TotalAtLeast`, `TotalAtMost`); the oldest request is the
  first of the list, which a sort by age leaves as it is.

The reports need `ReportTypeOK` too (`ReportTypes`). `GroupRowsAlwaysAddUp` is a fact
about the one step that reads the requests: those with a row's group and those without
are disjoint (`OpenOfGroups`). `LoadsInv`, which says what a row of the other report that
was read still counts, is inductive: no less than the requests of its agent that nobody wrote
since the agents were listed and, as long as no listed agent lost a request, no more
than those that are still the agent's or were written. A write takes its request out of
the first, and only a request that leaves its agent is lost from the second.
`LoadsAlwaysAddUp` sums this over the listed agents.

### Only model-checked

Liveness (`CallsReturn`, `SignalEndsProcess`, `CloseReturns`, `CloseWakesReceivers`)
is out of reach of the prover, as is anything with `ENABLED`. All other properties of
the runs that pass are proved as well. That `Chosen` and `Total` are what the
recursive `SelectSeq` and a sum by recursion compute is not proved: it is an induction
over data. The two findings are runs of TLC.

## 5. What is not modelled

* `Store.SaveDispatchDraft` and `Store.DeleteUser`, which nothing calls, and the
  counts of the buckets, on which nothing that is modelled depends.
* The load per agent in a row of the report on the groups, a quotient that only sorts
  the rows. `filter.Search`, the CSV of `Export` and what a page looks like: words in a text
  and layout. `routing.Explain` and `GroupCoverage`, `model/view.go`,
  `model/validation.go`, `config/`: wording, presentation and checks of single fields
  without state. The modelled calls start after the checks.
* The helpers of `httpapi/routes.go`, which nothing calls, and the rendering and
  decoding in `httpapi/api.go`.
* A failing read. bbolt reads from a memory map; a value that cannot be decoded was
  not written by this program.
* A retention of the trail beside a running dispatcher: the modules of the
  dispatcher ask the trail only whether something was recorded.

## 6. Plan

Done: all components that keep state or decide something, with proofs of every
property that is not about liveness and of how `Dispatch` fits the abstract queue and
directory. What is left:

* `Server` with status calls and a failing write, if a faster machine allows it.
