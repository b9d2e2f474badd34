------------------------------- MODULE Backup -------------------------------
(***************************************************************************)
(* Snapshots of the store: internal/store/backup.go beside the dispatch    *)
(* core.  An export is one read transaction over all buckets; an import is *)
(* one write transaction that puts every record of the snapshot over what  *)
(* is stored and deletes nothing.  Nothing in the program calls either, so *)
(* they may come at any time.  What is imported here was exported from the *)
(* same history: ids of another database mean other requests.              *)
(***************************************************************************)
EXTENDS Dispatch

CONSTANT MaxSnapshots   \* bound on the snapshots that are kept

ASSUME SnapshotAssumption == MaxSnapshots \in Nat

VARIABLE snapshots      \* the exports of this history that exist

backupVars == <<vars, snapshots>>

Snapshot == [requests: [Ids -> Request \cup {Nil}],
             attempts: [Ids -> Seq(Attempt)],
             audits: [Ids -> SUBSET AuditAction],
             groups: [Groups -> AgentGroup \cup {Nil}],
             agents: SUBSET Users]

BackupTypeOK == TypeOK /\ snapshots \subseteq Snapshot

BackupInit == Init /\ snapshots = {}

-----------------------------------------------------------------------------

\* The records as one transaction finds them.
Captured == [requests |-> requests, attempts |-> attempts, audits |-> audits,
             groups |-> groups, agents |-> agents]

\* Mutant of Export: a transaction for each bucket, so that requests stored
\* after the first are missed, and what became of them is not.
TornExport ==
  /\ Cardinality(snapshots) < MaxSnapshots
  /\ \E missed \in SUBSET Ids :
       snapshots' = snapshots \cup
         {[Captured EXCEPT !.requests = [r \in Ids |->
             IF r \in missed THEN Nil ELSE requests[r]]]}
  /\ UNCHANGED vars

Export ==
  /\ Cardinality(snapshots) < MaxSnapshots
  /\ snapshots' = snapshots \cup {Captured}
  /\ UNCHANGED vars

\* Mutant of Put: the bucket is emptied before the records are put.
Replace(records, bucket) == records

\* A record of the snapshot replaces the stored one with its key.
Put(records, bucket) ==
  [key \in DOMAIN bucket |->
     IF records[key] = Nil THEN bucket[key] ELSE records[key]]

\* Attempts and events have keys of their own; of two lists of attempts of
\* one history one begins with the other.
Longer(s, t) == IF Len(s) < Len(t) THEN t ELSE s

\* Accounts the snapshot does not hold keep what they are: of the stored
\* agents that it does not count as agents some may be unknown to it.
ImportSnapshot(s) ==
  /\ requests' = Put(s.requests, requests)
  /\ attempts' = [r \in Ids |-> Longer(s.attempts[r], attempts[r])]
  /\ audits' = [r \in Ids |-> s.audits[r] \cup audits[r]]
  /\ groups' = Put(s.groups, groups)
  /\ \E unknown \in SUBSET (agents \ s.agents) : agents' = s.agents \cup unknown

\* An import into the database that is in use.
Import(s) ==
  /\ \/ ImportSnapshot(s) /\ UNCHANGED faults
     \/ StoreFails /\ UNCHANGED <<store, directory>>
  /\ UNCHANGED <<channel, restarts, mu, pc, task, scan, snapshots>>

\* A new process starts on a new database into which s was imported.  The
\* snapshots of what came after s belong to a history that is abandoned.
RestoreInto(s) ==
  /\ restarts < MaxRestarts
  /\ restarts' = restarts + 1
  /\ requests' = s.requests /\ attempts' = s.attempts /\ audits' = s.audits
  /\ groups' = s.groups /\ agents' = s.agents
  /\ queue' = << >> /\ closed' = FALSE /\ mu' = Nil
  /\ pc' = [h \in Handlers |-> "idle"]
  /\ task' = [h \in Handlers |-> Nil]
  /\ scan' = [h \in Handlers |-> << >>]
  /\ snapshots' = {s}
  /\ UNCHANGED faults

BackupNext ==
  \/ Next /\ UNCHANGED snapshots
  \/ Export
  \/ \E s \in snapshots : Import(s) \/ RestoreInto(s)

BackupSpec == BackupInit /\ [][BackupNext]_backupVars

-----------------------------------------------------------------------------

\* Referential integrity: in these records an attempt has its request and its
\* group, an outcome on record has its request, and a recorded dispatch its
\* attempt and no failure beside it.
RefersToRecords(records) ==
  \A r \in Ids :
    /\ records.attempts[r] # << >> => records.requests[r] # Nil
    /\ \A i \in 1 .. Len(records.attempts[r]) :
         records.groups[records.attempts[r][i].group] # Nil
    /\ records.audits[r] \cap {"created", "dispatched", "dispatch_failed"} # {}
         => records.requests[r] # Nil
    /\ "dispatched" \in records.audits[r]
         => /\ records.attempts[r] # << >>
            /\ "dispatch_failed" \notin records.audits[r]

\* Nothing in an export refers to what it lacks, and nothing in the store
\* refers to what an import, even of an old snapshot into a store that serves,
\* or a restoration left out.  It is no more than that: a mixture of two
\* moments whose references happen to meet would pass.
NothingDangles == \A s \in snapshots \cup {Captured} : RefersToRecords(s)
=============================================================================
