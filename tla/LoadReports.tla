----------------------------- MODULE LoadReports -----------------------------
(***************************************************************************)
(* The load reports of internal/service/administration.go, which are read  *)
(* in several transactions while others register groups and accounts and   *)
(* write requests: GroupLoads lists the groups and then all requests,      *)
(* AgentLoads the accounts and then the requests once per agent.           *)
(*                                                                         *)
(* One report is read at a time: neither of them changes what another one  *)
(* reads.                                                                  *)
(***************************************************************************)
EXTENDS RequestQuery

VARIABLES
  agents,     \* the accounts with the role agent
  groups,     \* the groups that have a record
  listed,     \* the agents that AgentLoads found, Nil when it is not running
  rows,       \* the row of each that was read
  known,      \* the groups that GroupLoads found, Nil when it is not running
  table,      \* their rows, Nil before they are read
  steady,     \* history: the requests that stayed since the agents were listed
  taken       \* history: since then a listed agent lost a request

reportVars == <<bucket, agents, groups, listed, rows, known, table, steady, taken>>

AgentRow == [assigned: Nat, pending: Nat, resolved: Nat]

GroupRow == [open: Nat, assigned: Nat]

ReportTypeOK ==
  /\ TypeOK
  /\ agents \subseteq Users /\ IsFiniteSet(agents)
  /\ groups \subseteq Groups /\ IsFiniteSet(groups)
  /\ listed # Nil => listed \subseteq Users /\ IsFiniteSet(listed)
  /\ rows \in [Users -> AgentRow \cup {Nil}]
  /\ known # Nil => known \subseteq groups
  /\ table # Nil => known # Nil /\ table \in [known -> GroupRow]
  /\ steady \subseteq Ids
  /\ taken \in BOOLEAN

ReportInit ==
  /\ Init
  /\ agents = {} /\ groups = {}
  /\ listed = Nil /\ rows = [u \in Users |-> Nil]
  /\ known = Nil /\ table = Nil
  /\ steady = Ids /\ taken = FALSE

-----------------------------------------------------------------------------
\* The writers.

\* A second registration of an account may give it another role.
RegisterUser(u, role) ==
  /\ agents' = IF role = "agent" THEN agents \cup {u} ELSE agents \ {u}
  /\ UNCHANGED <<bucket, groups, listed, rows, known, table, steady, taken>>

CreateGroup(g) ==
  /\ groups' = groups \cup {g}
  /\ UNCHANGED <<bucket, agents, listed, rows, known, table, steady, taken>>

\* What the history keeps of a write, while the agents are reported on.
Write ==
  /\ Next
  /\ steady' = IF listed = Nil THEN steady
               ELSE {id \in steady : bucket'[id] = bucket[id]}
  /\ taken' = \/ taken
              \/ /\ listed # Nil
                 /\ \E id \in Stored :
                      /\ bucket[id].assignee \in listed
                      /\ \/ bucket'[id] = Nil
                         \/ bucket'[id].assignee # bucket[id].assignee
  /\ UNCHANGED <<agents, groups, listed, rows, known, table>>

-----------------------------------------------------------------------------
\* The report on the groups.

ListGroups ==
  /\ known = Nil /\ listed = Nil
  /\ known' = groups
  /\ UNCHANGED <<bucket, agents, groups, listed, rows, table, steady, taken>>

\* Mutant of GroupLoad: a request counts as open until it is resolved.
GroupLoadUntilResolved(list, g) ==
  LET own == RequestsForGroup(list, g)
  IN [open |-> Len(Select(own, {id \in Stored : bucket[id].status # "resolved"})),
      assigned |-> Len(Select(own, {id \in Stored : bucket[id].status = "assigned"}))]

GroupLoad(list, g) ==
  LET own == RequestsForGroup(list, g)
  IN [open |-> Len(OpenOnly(own)),
      assigned |-> Len(Select(own, {id \in Stored : bucket[id].status = "assigned"}))]

\* All requests are read in one transaction, those of other groups are left.
ReadGroupRows ==
  /\ known # Nil /\ table = Nil
  /\ \E list \in ListRequests : table' = [g \in known |-> GroupLoad(list, g)]
  /\ UNCHANGED <<bucket, agents, groups, listed, rows, known, steady, taken>>

GroupsSent ==
  /\ table # Nil
  /\ known' = Nil /\ table' = Nil
  /\ UNCHANGED <<bucket, agents, groups, listed, rows, steady, taken>>

-----------------------------------------------------------------------------
\* The report on the agents.

ListAgents ==
  /\ known = Nil /\ listed = Nil
  /\ listed' = agents
  /\ UNCHANGED <<bucket, agents, groups, rows, known, table, steady, taken>>

\* Mutant of AgentLoad: every assigned request counts as pending, too.
AgentLoadTwice(a) ==
  LET own(statuses) == Cardinality({id \in Stored :
        bucket[id].assignee = a /\ bucket[id].status \in statuses})
  IN [assigned |-> own({"assigned"}), pending |-> own({"assigned", "pending"}),
      resolved |-> own({"resolved"})]

AgentLoad(a) ==
  LET own(statuses) == Cardinality({id \in Stored :
        bucket[id].assignee = a /\ bucket[id].status \in statuses})
  IN [assigned |-> own({"assigned"}), pending |-> own({"pending"}),
      resolved |-> own({"resolved"})]

\* Each agent's requests are read in a transaction of their own.
ReadAgent(a) ==
  /\ listed # Nil /\ a \in listed /\ rows[a] = Nil
  /\ rows' = [rows EXCEPT ![a] = AgentLoad(a)]
  /\ UNCHANGED <<bucket, agents, groups, listed, known, table, steady, taken>>

ReportDone == listed # Nil /\ \A a \in listed : rows[a] # Nil

ReportSent ==
  /\ ReportDone
  /\ listed' = Nil /\ rows' = [u \in Users |-> Nil]
  /\ steady' = Ids /\ taken' = FALSE
  /\ UNCHANGED <<bucket, agents, groups, known, table>>

ReportNext ==
  \/ Write
  \/ \E u \in Users, role \in {"agent", "manager"} : RegisterUser(u, role)
  \/ \E g \in Groups : CreateGroup(g)
  \/ ListGroups \/ ReadGroupRows \/ GroupsSent
  \/ ListAgents \/ (\E a \in Users : ReadAgent(a)) \/ ReportSent

ReportSpec == ReportInit /\ [][ReportNext]_reportVars

-----------------------------------------------------------------------------

\* What a row of the report on the agents counts, if it counts the request at
\* all.
Countable(id) ==
  /\ bucket[id] # Nil
  /\ bucket[id].assignee \in listed
  /\ bucket[id].status \in {"assigned", "pending", "resolved"}

\* The report on the agents, read in one transaction per agent while requests
\* are written and accounts change their role, misses no request that stayed
\* as it was and had an agent when the agents were listed; and it counts none
\* twice unless one was taken from such an agent meanwhile.
LoadsAddUp ==
  ReportDone =>
    LET total == Total([a \in listed |->
                    rows[a].assigned + rows[a].pending + rows[a].resolved])
    IN /\ Cardinality({id \in steady : Countable(id)}) <= total
       /\ ~taken => total <= Cardinality({id \in Ids : Countable(id) \/ id \notin steady})

\* The report on the groups and a dashboard of the same list differ in the
\* requests without a group and in those of groups that have no record, or had
\* none when the groups were listed, and in nothing else.
GroupRowsAddUp ==
  [][known # Nil /\ table = Nil /\ table' # Nil =>
       \A list \in ListRequests :
         BuildDashboard(list).open
           = Total([g \in known |-> table'[g].open])
               + Cardinality({id \in Stored : /\ IsOpen(bucket[id].status)
                                              /\ bucket[id].group \notin known})]_reportVars
=============================================================================
