----------------------------- MODULE Directory -----------------------------
(***************************************************************************)
(* Accounts and groups: RegisterUser and CreateGroup of                    *)
(* internal/service/service.go, the operations of administration.go that   *)
(* write, and the permissions of permissions.go.                           *)
(*                                                                         *)
(* As in module Dispatch a handler is a goroutine that runs one operation, *)
(* and a step of it is one bbolt transaction.  Nothing spans two of them:  *)
(* between the check of the actor or of a member and the write, and        *)
(* between the write and its audit event, other handlers may commit.       *)
(***************************************************************************)
EXTENDS Naturals, Sequences, FiniteSets

CONSTANTS
  Handlers,      \* goroutines that run an operation
  Users,         \* ids of accounts
  Groups,        \* ids of groups
  Nil,           \* the value of a missing key, and no operation
  Commands,      \* the calls that clients make
  MaxFaults,     \* bound on the failing write transactions
  MaxRestarts    \* bound on the restarts of the process

Roles == {"agent", "manager", "auditor", "admin"}

Permissions == {"create", "read", "dispatch", "resolve", "export", "audit"}

PermissionFor(role, permission) ==
  CASE role = "agent"   -> permission \in {"read", "resolve"}
    [] role = "manager" -> permission \in Permissions \ {"audit"}
    [] role = "auditor" -> permission \in {"read", "export", "audit"}
    [] role = "admin"   -> permission \in Permissions

Account == [role: Roles, enabled: BOOLEAN]

AgentGroup == [active: BOOLEAN, members: Seq(Users)]

\* RegisterUser and CreateGroup ask nobody for a permission.
OnAccounts == {"register", "enable", "disable"}

OnGroups == {"create", "replace", "activate", "deactivate"}

Guarded == {"enable", "disable", "replace", "activate", "deactivate"}

Required(kind) ==
  IF kind \in {"enable", "disable"} THEN "audit" ELSE "dispatch"

\* A call that passes the checks the route and the service make on its
\* arguments alone: a registered account is enabled and has a known role, a
\* created group is active.
Command ==
  [kind: OnAccounts, actor: Users, target: Users, role: Roles,
   members: {<< >>}]
    \cup
  [kind: OnGroups, actor: Users, target: Groups, role: Roles,
   members: Seq(Users)]

ASSUME DirectoryAssumption ==
  /\ IsFiniteSet(Handlers)
  /\ Commands \subseteq Command
  /\ Nil \notin Account \cup AgentGroup \cup Command
  /\ MaxFaults \in Nat /\ MaxRestarts \in Nat

VARIABLES
  users,      \* bucket user_accounts
  groups,     \* bucket agent_groups
  trail,      \* bucket audit_events: what was done to what
  pc,         \* where each handler is, or how its last call ended
  op,         \* the call each handler is running
  checked,    \* how many members it has found to be enabled agents
  held,       \* history: who was enabled in which role during the call
  faults,     \* write transactions that failed so far
  restarts    \* restarts of the process so far

store == <<users, groups, trail>>
vars  == <<users, groups, trail, pc, op, checked, held, faults, restarts>>

Ready == {"idle", "ok", "error"}

TypeOK ==
  /\ users \in [Users -> Account \cup {Nil}]
  /\ groups \in [Groups -> AgentGroup \cup {Nil}]
  /\ trail \subseteq (OnAccounts \X Users) \cup (OnGroups \X Groups)
  /\ pc \in [Handlers -> Ready \cup {"authorize", "check", "write", "audit"}]
  /\ op \in [Handlers -> Command \cup {Nil}]
  /\ checked \in [Handlers -> Nat]
  /\ held \in [Handlers -> SUBSET (Users \X Roles)]
  /\ faults \in 0 .. MaxFaults
  /\ restarts \in 0 .. MaxRestarts

Init ==
  /\ users = [u \in Users |-> Nil]
  /\ groups = [g \in Groups |-> Nil]
  /\ trail = {}
  /\ pc = [h \in Handlers |-> "idle"]
  /\ op = [h \in Handlers |-> Nil]
  /\ checked = [h \in Handlers |-> 0]
  /\ held = [h \in Handlers |-> {}]
  /\ faults = 0
  /\ restarts = 0

-----------------------------------------------------------------------------

\* Mutant of Enabled: an account keeps its rights when it is disabled.
Known(u) == users[u] # Nil

Enabled(u) == users[u] # Nil /\ users[u].enabled

Goto(h, label) == pc' = [pc EXCEPT ![h] = label]

Return(h, outcome) ==
  /\ Goto(h, outcome)
  /\ op' = [op EXCEPT ![h] = Nil]
  /\ checked' = [checked EXCEPT ![h] = 0]
  /\ held' = [held EXCEPT ![h] = {}]

StoreFails == faults < MaxFaults /\ faults' = faults + 1

\* db.Update failed: it was rolled back and the call returns the error.
WriteFails(h) ==
  /\ StoreFails
  /\ Return(h, "error")
  /\ UNCHANGED <<users, groups, trail, restarts>>

\* The key of the transaction was not there.
NotFound(h) ==
  /\ Return(h, "error")
  /\ UNCHANGED <<users, groups, trail, faults, restarts>>

Enrolled(accounts) ==
  {<<u, accounts[u].role>> : u \in {v \in Users : accounts[v] # Nil /\ accounts[v].enabled}}

\* The first thing a call does: a list of members must not be empty, an
\* administrator must be authorised.  ReplaceGroupMembers looks at its list
\* after that.
Call(h, command) ==
  /\ pc[h] \in Ready
  /\ op' = [op EXCEPT ![h] = command]
  /\ held' = [held EXCEPT ![h] = Enrolled(users)]
  /\ \/ command.kind \in Guarded /\ Goto(h, "authorize")
     \/ command.kind = "register" /\ Goto(h, "write")
     \/ command.kind = "create" /\ Goto(h, "check")
  /\ UNCHANGED <<store, checked, faults, restarts>>

Authorize(h) ==
  LET actor == op[h].actor
      authorised == Enabled(actor)
                      /\ PermissionFor(users[actor].role, Required(op[h].kind))
  IN /\ pc[h] = "authorize"
     /\ \/ /\ authorised
           /\ Goto(h, IF op[h].kind = "replace" THEN "check" ELSE "write")
           /\ UNCHANGED <<op, checked, held>>
        \/ ~authorised /\ Return(h, "error")
     /\ UNCHANGED <<store, faults, restarts>>

\* Mutant of Eligible: the role of a member is not looked at.
EligibleInAnyRole(u) == Enabled(u)

Eligible(u) == Enabled(u) /\ users[u].role = "agent"

\* ReplaceGroupMembers refuses a member that is named twice, CreateGroup
\* does not.
Repeated(h) ==
  /\ op[h].kind = "replace"
  /\ \E i \in 1 .. checked[h] : op[h].members[i] = op[h].members[checked[h] + 1]

\* The members are read one transaction at a time.
CheckMember(h) ==
  LET members == op[h].members
      member == members[checked[h] + 1]
  IN /\ pc[h] = "check"
     /\ \/ /\ members = << >>
           /\ Return(h, "error")
        \/ /\ members # << >>
           /\ Repeated(h) \/ ~Eligible(member)
           /\ Return(h, "error")
        \/ /\ members # << >>
           /\ ~Repeated(h) /\ Eligible(member)
           /\ checked' = [checked EXCEPT ![h] = @ + 1]
           /\ Goto(h, IF checked[h] + 1 = Len(members) THEN "write" ELSE "check")
           /\ UNCHANGED <<op, held>>
     /\ UNCHANGED <<store, faults, restarts>>

-----------------------------------------------------------------------------
\* The writes: one transaction each.

Written(h) ==
  /\ Goto(h, "audit")
  /\ UNCHANGED <<op, checked, trail, faults, restarts>>

\* What a commit shows to every handler whose call is not over.
SaveAccount(u, account) ==
  /\ users' = [users EXCEPT ![u] = account]
  /\ held' = [k \in Handlers |->
                IF pc[k] \in Ready THEN {} ELSE held[k] \cup Enrolled(users')]

\* RegisterUser: an account that exists is overwritten.
PutUser(h) ==
  /\ pc[h] = "write" /\ op[h].kind = "register"
  /\ \/ /\ SaveAccount(op[h].target, [role |-> op[h].role, enabled |-> TRUE])
        /\ Written(h)
        /\ UNCHANGED groups
     \/ WriteFails(h)

SetUserEnabled(h) ==
  LET u == op[h].target
  IN /\ pc[h] = "write" /\ op[h].kind \in {"enable", "disable"}
     /\ \/ /\ users[u] # Nil
           /\ SaveAccount(u, [users[u] EXCEPT !.enabled = (op[h].kind = "enable")])
           /\ Written(h)
           /\ UNCHANGED groups
        \/ users[u] = Nil /\ NotFound(h)
        \/ users[u] # Nil /\ WriteFails(h)

\* CreateGroup: a group that exists is overwritten.
PutGroup(h) ==
  /\ pc[h] = "write" /\ op[h].kind = "create"
  /\ \/ /\ groups' = [groups EXCEPT ![op[h].target] =
                        [active |-> TRUE, members |-> op[h].members]]
        /\ Written(h)
        /\ UNCHANGED <<users, held>>
     \/ WriteFails(h)

ReplaceGroupMembers(h) ==
  LET g == op[h].target
  IN /\ pc[h] = "write" /\ op[h].kind = "replace"
     /\ \/ /\ groups[g] # Nil
           /\ groups' = [groups EXCEPT ![g].members = op[h].members]
           /\ Written(h)
           /\ UNCHANGED <<users, held>>
        \/ groups[g] = Nil /\ NotFound(h)
        \/ groups[g] # Nil /\ WriteFails(h)

\* Mutant of SetGroupActive: the record is written from the arguments of
\* the call, the members of which are not among them.
ActiveFromArguments(h) ==
  LET g == op[h].target
  IN /\ pc[h] = "write" /\ op[h].kind \in {"activate", "deactivate"}
     /\ groups' = [groups EXCEPT ![g] = [active |-> op[h].kind = "activate",
                                         members |-> op[h].members]]
     /\ Written(h)
     /\ UNCHANGED <<users, held>>

SetGroupActive(h) ==
  LET g == op[h].target
  IN /\ pc[h] = "write" /\ op[h].kind \in {"activate", "deactivate"}
     /\ \/ /\ groups[g] # Nil
           /\ groups' = [groups EXCEPT ![g].active = (op[h].kind = "activate")]
           /\ Written(h)
           /\ UNCHANGED <<users, held>>
        \/ groups[g] = Nil /\ NotFound(h)
        \/ groups[g] # Nil /\ WriteFails(h)

\* Mutant of Record: a logger that has failed once drops what comes after.
RecordUntilFailure(h) ==
  /\ pc[h] = "audit"
  /\ \/ /\ trail' = IF faults > 0 THEN trail
                    ELSE trail \cup {<<op[h].kind, op[h].target>>}
        /\ Return(h, "ok")
        /\ UNCHANGED <<users, groups, faults, restarts>>
     \/ WriteFails(h)

\* Mutant of Record: actor and entity are swapped in the call of the logger.
RecordSwapped(h) ==
  /\ pc[h] = "audit"
  /\ trail' = trail \cup {<<op[h].kind, op[h].actor>>}
  /\ Return(h, "ok")
  /\ UNCHANGED <<users, groups, faults, restarts>>

\* The audit event.  Without it the call fails, the change stays.
Record(h) ==
  /\ pc[h] = "audit"
  /\ \/ /\ trail' = trail \cup {<<op[h].kind, op[h].target>>}
        /\ Return(h, "ok")
        /\ UNCHANGED <<users, groups, faults, restarts>>
     \/ WriteFails(h)

Restart ==
  /\ restarts < MaxRestarts
  /\ restarts' = restarts + 1
  /\ pc' = [h \in Handlers |-> "idle"]
  /\ op' = [h \in Handlers |-> Nil]
  /\ checked' = [h \in Handlers |-> 0]
  /\ held' = [h \in Handlers |-> {}]
  /\ UNCHANGED <<store, faults>>

-----------------------------------------------------------------------------

Write(h) ==
  \/ PutUser(h) \/ SetUserEnabled(h)
  \/ PutGroup(h) \/ ReplaceGroupMembers(h) \/ SetGroupActive(h)

Next ==
  \/ \E h \in Handlers : \/ \E command \in Commands : Call(h, command)
                         \/ Authorize(h) \/ CheckMember(h)
                         \/ Write(h) \/ Record(h)
  \/ Restart

Spec == Init /\ [][Next]_vars

-----------------------------------------------------------------------------

Acting == {"check", "write", "audit"}

\* Whoever changes an account or a group under a permission was enabled in a
\* role that has it at some time during the call.  The code promises no more
\* than that: the actor may be disabled before the write commits.
AuthorityWasHeld ==
  \A h \in Handlers :
    pc[h] \in Acting /\ op[h].kind \in Guarded =>
      \E role \in Roles :
        /\ <<op[h].actor, role>> \in held[h]
        /\ PermissionFor(role, Required(op[h].kind))

\* Every member of the list that is about to become a group was an enabled
\* agent at some time during the call, although the members are checked one
\* after the other and accounts change meanwhile.
MembersWereAgents ==
  \A h \in Handlers :
    pc[h] = "write" /\ op[h].kind \in {"create", "replace"} =>
      /\ op[h].members # << >>
      /\ \A i \in 1 .. Len(op[h].members) :
           <<op[h].members[i], "agent">> \in held[h]

\* A change is on record, or the handler that made it is about to record it.
Recorded(kind, x) ==
  \/ <<kind, x>> \in trail
  \/ \E h \in Handlers : pc[h] = "audit" /\ op[h].kind = kind /\ op[h].target = x

\* The entries the trail owes to the store: an account has been registered,
\* a disabled one disabled, a group created and an inactive one deactivated.
Due ==
  {<<"register", u>> : u \in {v \in Users : users[v] # Nil}}
    \cup {<<"disable", u>> : u \in {v \in Users : users[v] # Nil /\ ~users[v].enabled}}
    \cup {<<"create", g>> : g \in {v \in Groups : groups[v] # Nil}}
    \cup {<<"deactivate", g>> : g \in {v \in Groups : groups[v] # Nil /\ ~groups[v].active}}

Unexplained == {e \in Due : ~Recorded(e[1], e[2])}

\* The write and its audit event are two transactions, so a failure or a
\* restart between them leaves a change that nothing on the trail explains.
\* That is all that does: every failed write costs the trail one entry at
\* most, every restart one for each call it cut off, and whatever else is in
\* the store is on record or about to be, in every order of the calls.
StoreIsExplained ==
  Cardinality(Unexplained) <= faults + restarts * Cardinality(Handlers)

\* Seen from the dispatcher: what module Dispatch assumes of its environment.
Directory == INSTANCE Registry
               WITH agents <- {u \in Users : Eligible(u)}, Absent <- Nil

ImplementsRegistry == Directory!Spec
=============================================================================
