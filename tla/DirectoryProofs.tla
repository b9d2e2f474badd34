--------------------------- MODULE DirectoryProofs ---------------------------
(***************************************************************************)
(* What is proved of the directory of accounts and groups, for any number  *)
(* of handlers, accounts and groups, any calls, failing writes and         *)
(* restarts.                                                               *)
(***************************************************************************)
EXTENDS Directory, FiniteSetTheorems, TLAPS

\* Where a call can be.
PlaceInv ==
  \A h \in Handlers :
    /\ pc[h] \in Ready => checked[h] = 0
    /\ pc[h] \notin Ready => op[h] \in Command
    /\ pc[h] = "authorize" => op[h].kind \in Guarded /\ checked[h] = 0
    /\ pc[h] = "check" => op[h].kind \in {"create", "replace"}

\* A handler has seen whoever is enrolled now, and those who were before.
HeldInv ==
  \A h \in Handlers : pc[h] \notin Ready => Enrolled(users) \subseteq held[h]

\* The members a handler has counted were agents, and it has not counted all.
CheckInv ==
  \A h \in Handlers :
    pc[h] = "check" =>
      /\ checked[h] <= Len(op[h].members)
      /\ op[h].members # << >> => checked[h] < Len(op[h].members)
      /\ \A i \in 1 .. checked[h] : <<op[h].members[i], "agent">> \in held[h]

\* The entries the trail lacks are finitely many, and each of them was lost
\* by a failed write or by a restart.
ExplainedInv ==
  /\ IsFiniteSet(Unexplained)
  /\ Cardinality(Unexplained) <= faults + restarts * Cardinality(Handlers)

\* What only depends on where the calls are.
CallInv ==
  PlaceInv /\ HeldInv /\ CheckInv /\ AuthorityWasHeld /\ MembersWereAgents

IInv == TypeOK /\ CallInv /\ ExplainedInv

-----------------------------------------------------------------------------
\* Facts about the data.

LEMMA CommandFields ==
  ASSUME NEW c \in Command
  PROVE  /\ c # Nil
         /\ c.kind \in OnAccounts \cup OnGroups
         /\ c.actor \in Users /\ c.role \in Roles
         /\ c.members \in Seq(Users)
         /\ c.kind \in OnAccounts => c.target \in Users
         /\ c.kind \in OnGroups => c.target \in Groups
<1>1. c # Nil
  BY DirectoryAssumption
<1>2. CASE c \in [kind: OnAccounts, actor: Users, target: Users, role: Roles,
                  members: {<< >>}]
  <2>1. /\ c.kind \in OnAccounts /\ c.actor \in Users /\ c.target \in Users
        /\ c.role \in Roles /\ c.members = << >>
    BY <1>2
  <2>2. c.kind \notin OnGroups
    BY <2>1 DEF OnAccounts, OnGroups
  <2>3. c.members \in Seq(Users)
    BY <2>1
  <2> QED BY <1>1, <2>1, <2>2, <2>3
<1>3. CASE c \in [kind: OnGroups, actor: Users, target: Groups, role: Roles,
                  members: Seq(Users)]
  BY <1>1, <1>3 DEF OnAccounts, OnGroups
<1> QED BY <1>2, <1>3 DEF Command

LEMMA AccountFields ==
  ASSUME TypeOK, NEW u \in Users, users[u] # Nil
  PROVE  users[u] \in Account /\ users[u].role \in Roles /\ users[u].enabled \in BOOLEAN
  BY DEF TypeOK, Account

LEMMA GroupFields ==
  ASSUME TypeOK, NEW g \in Groups, groups[g] # Nil
  PROVE  /\ groups[g] \in AgentGroup
         /\ groups[g].members \in Seq(Users) /\ groups[g].active \in BOOLEAN
  BY DEF TypeOK, AgentGroup

LEMMA EnrolledType ==
  ASSUME TypeOK PROVE Enrolled(users) \subseteq Users \X Roles
  BY AccountFields DEF Enrolled

LEMMA EnabledIsEnrolled ==
  ASSUME NEW u \in Users, Enabled(u)
  PROVE  <<u, users[u].role>> \in Enrolled(users)
  BY DEF Enabled, Enrolled

LEMMA Init_IInv == Init => IInv
<1> SUFFICES ASSUME Init PROVE IInv
  OBVIOUS
<1>1. TypeOK
  BY DirectoryAssumption DEF Init, TypeOK, Ready
<1>2. CallInv
  BY DEF Init, CallInv, PlaceInv, HeldInv, CheckInv, AuthorityWasHeld,
     MembersWereAgents, Ready, Acting
<1>3. ExplainedInv
  <2>1. Unexplained = {}
    BY DEF Init, Unexplained, Due
  <2>2. faults + restarts * Cardinality(Handlers) = 0
    BY DirectoryAssumption, FS_CardinalityType DEF Init
  <2> QED BY <2>1, <2>2, FS_EmptySet DEF ExplainedInv
<1> QED BY <1>1, <1>2, <1>3 DEF IInv

-----------------------------------------------------------------------------
\* Steps that many actions share.

\* A call returns.
LEMMA ReturnKeeps ==
  ASSUME IInv, NEW h \in Handlers, NEW outcome \in Ready, Return(h, outcome),
         users' = users
  PROVE  /\ pc' \in [Handlers -> Ready \cup {"authorize", "check", "write", "audit"}]
         /\ op' \in [Handlers -> Command \cup {Nil}]
         /\ checked' \in [Handlers -> Nat]
         /\ held' \in [Handlers -> SUBSET (Users \X Roles)]
         /\ CallInv'
         /\ \A k \in Handlers \ {h} : pc'[k] = pc[k] /\ op'[k] = op[k]
<1>1. /\ pc' = [pc EXCEPT ![h] = outcome]
      /\ op' = [op EXCEPT ![h] = Nil]
      /\ checked' = [checked EXCEPT ![h] = 0]
      /\ held' = [held EXCEPT ![h] = {}]
  BY DEF Return, Goto
<1>2. /\ pc' \in [Handlers -> Ready \cup {"authorize", "check", "write", "audit"}]
      /\ op' \in [Handlers -> Command \cup {Nil}]
      /\ checked' \in [Handlers -> Nat]
      /\ held' \in [Handlers -> SUBSET (Users \X Roles)]
  BY <1>1 DEF IInv, TypeOK
<1>3. \A k \in Handlers \ {h} :
        /\ pc'[k] = pc[k] /\ op'[k] = op[k]
        /\ checked'[k] = checked[k] /\ held'[k] = held[k]
  BY <1>1 DEF IInv, TypeOK
<1>4. pc'[h] \in Ready /\ checked'[h] = 0
  BY <1>1 DEF IInv, TypeOK
<1>5. pc'[h] \notin {"authorize", "check", "write", "audit"}
  BY <1>4 DEF Ready
<1>6. PlaceInv'
  BY <1>3, <1>4, <1>5 DEF IInv, CallInv, PlaceInv
<1>7. HeldInv'
  BY <1>3, <1>4 DEF IInv, CallInv, HeldInv, Enrolled
<1>8. CheckInv' /\ AuthorityWasHeld' /\ MembersWereAgents'
  BY <1>3, <1>5 DEF IInv, CallInv, CheckInv, AuthorityWasHeld, MembersWereAgents, Acting
<1> QED BY <1>2, <1>3, <1>6, <1>7, <1>8 DEF CallInv

\* What is on record stays so when another call goes on.
LEMMA RecordedStays ==
  ASSUME IInv, NEW h \in Handlers, trail \subseteq trail',
         \A k \in Handlers \ {h} : pc'[k] = pc[k] /\ op'[k] = op[k],
         pc[h] = "audit" => <<op[h].kind, op[h].target>> \in trail'
  PROVE  \A kind, x : Recorded(kind, x) => Recorded(kind, x)'
  BY DEF Recorded

\* As long as no entry is lost, the budget of failures need not grow.
LEMMA NoEntryLost ==
  ASSUME IInv, UNCHANGED <<faults, restarts>>, Unexplained' \subseteq Unexplained
  PROVE  ExplainedInv'
<1>1. IsFiniteSet(Unexplained) /\ IsFiniteSet(Unexplained')
  BY FS_Subset DEF IInv, ExplainedInv
<1>2. /\ Cardinality(Unexplained') <= Cardinality(Unexplained)
      /\ Cardinality(Unexplained) \in Nat /\ Cardinality(Unexplained') \in Nat
      /\ faults + restarts * Cardinality(Handlers) \in Nat
  BY <1>1, FS_Subset, FS_CardinalityType, DirectoryAssumption DEF IInv, TypeOK
<1> QED BY <1>1, <1>2 DEF IInv, ExplainedInv

LEMMA ExplainedStays ==
  ASSUME IInv, NEW h \in Handlers, trail \subseteq trail',
         \A k \in Handlers \ {h} : pc'[k] = pc[k] /\ op'[k] = op[k],
         pc[h] = "audit" => <<op[h].kind, op[h].target>> \in trail',
         UNCHANGED <<users, groups, faults, restarts>>
  PROVE  ExplainedInv'
<1>1. Due' = Due
  BY DEF Due
<1>2. Unexplained' \subseteq Unexplained
  BY <1>1, RecordedStays DEF Unexplained
<1> QED BY <1>2, NoEntryLost

\* A failing write ends the call, and with it what ExplainedInv promises.
LEMMA WriteFailsKeeps ==
  ASSUME IInv, NEW h \in Handlers, WriteFails(h)
  PROVE  IInv'
<1>1. /\ Return(h, "error") /\ "error" \in Ready
      /\ UNCHANGED <<users, groups, trail, restarts>>
      /\ faults < MaxFaults /\ faults' = faults + 1
  BY DEF WriteFails, StoreFails, Ready
<1>2. faults' \in 0 .. MaxFaults /\ faults' # 0
  BY <1>1, DirectoryAssumption DEF IInv, TypeOK
<1>3. TypeOK'
  BY <1>1, <1>2, ReturnKeeps DEF IInv, TypeOK
<1>4. ExplainedInv'
  <2> DEFINE lost == <<op[h].kind, op[h].target>>
  <2>1. \A k \in Handlers \ {h} : pc'[k] = pc[k] /\ op'[k] = op[k]
    BY <1>1, ReturnKeeps
  <2>2. Unexplained' \subseteq Unexplained \cup {lost}
    <3> SUFFICES ASSUME NEW e \in Unexplained', e # lost PROVE e \in Unexplained
      OBVIOUS
    <3>1. e \in Due
      BY <1>1 DEF Unexplained, Due
    <3>2. e = <<e[1], e[2]>>
      BY <3>1 DEF Due
    <3>3. Recorded(e[1], e[2]) => Recorded(e[1], e[2])'
      BY <1>1, <2>1, <3>2 DEF Recorded
    <3> QED BY <3>1, <3>3 DEF Unexplained
  <2> HIDE DEF lost
  <2>3. /\ IsFiniteSet(Unexplained) /\ Cardinality(Unexplained) \in Nat
        /\ IsFiniteSet(Unexplained \cup {lost})
        /\ Cardinality(Unexplained \cup {lost}) <= Cardinality(Unexplained) + 1
    <3>1. IsFiniteSet(Unexplained)
      BY DEF IInv, ExplainedInv
    <3>2. /\ IsFiniteSet(Unexplained \cup {lost})
          /\ Cardinality(Unexplained \cup {lost})
               = IF lost \in Unexplained THEN Cardinality(Unexplained)
                 ELSE Cardinality(Unexplained) + 1
      BY <3>1, FS_AddElement
    <3>3. Cardinality(Unexplained) \in Nat
      BY <3>1, FS_CardinalityType
    <3> QED BY <3>1, <3>2, <3>3
  <2>4. /\ IsFiniteSet(Unexplained')
        /\ Cardinality(Unexplained') <= Cardinality(Unexplained \cup {lost})
        /\ Cardinality(Unexplained') \in Nat
        /\ Cardinality(Unexplained \cup {lost}) \in Nat
    BY <2>2, <2>3, FS_Subset, FS_CardinalityType
  <2>5. restarts * Cardinality(Handlers) \in Nat /\ faults \in Nat
    BY DirectoryAssumption, FS_CardinalityType DEF IInv, TypeOK
  <2> QED BY <1>1, <2>3, <2>4, <2>5 DEF IInv, ExplainedInv
<1> QED BY <1>1, <1>3, <1>4, ReturnKeeps DEF IInv

\* A call that changed nothing, not even the trail, returns.
LEMMA GiveUpKeeps ==
  ASSUME IInv, NEW h \in Handlers, pc[h] # "audit", Return(h, "error"),
         UNCHANGED <<users, groups, trail, faults, restarts>>
  PROVE  IInv'
<1>1. "error" \in Ready
  BY DEF Ready
<1>2. TypeOK' /\ CallInv'
  BY <1>1, ReturnKeeps DEF IInv, TypeOK
<1>3. ExplainedInv'
  BY <1>1, ReturnKeeps, ExplainedStays
<1> QED BY <1>2, <1>3 DEF IInv

-----------------------------------------------------------------------------
\* The actions.

LEMMA CallKeeps ==
  ASSUME IInv, NEW h \in Handlers, NEW command \in Commands, Call(h, command)
  PROVE  IInv'
<1> DEFINE label == IF command.kind \in Guarded THEN "authorize"
                    ELSE IF command.kind = "register" THEN "write" ELSE "check"
<1>1. /\ pc[h] \in Ready
      /\ op' = [op EXCEPT ![h] = command]
      /\ held' = [held EXCEPT ![h] = Enrolled(users)]
      /\ UNCHANGED <<users, groups, trail, checked, faults, restarts>>
  BY DEF Call, store
<1>2. pc' = [pc EXCEPT ![h] = label]
  BY DEF Call, Goto, Guarded
<1>3. /\ command \in Command
      /\ label = "authorize" => command.kind \in Guarded
      /\ label = "check" => command.kind = "create"
      /\ label = "write" => command.kind = "register"
      /\ label \in {"authorize", "write", "check"}
  <2>1. command \in Command
    BY DirectoryAssumption
  <2>2. label # "check" \/ command.kind = "create"
    BY <2>1, CommandFields DEF OnAccounts, OnGroups, Guarded
  <2> QED BY <2>1, <2>2
<1> HIDE DEF label
<1>4. \A k \in Handlers \ {h} :
        pc'[k] = pc[k] /\ op'[k] = op[k] /\ held'[k] = held[k]
  BY <1>1, <1>2 DEF IInv, TypeOK
<1>5. pc'[h] = label /\ op'[h] = command /\ held'[h] = Enrolled(users)
  BY <1>1, <1>2 DEF IInv, TypeOK
<1>6. TypeOK'
  BY <1>1, <1>2, <1>3, EnrolledType DEF IInv, TypeOK
<1>7. checked[h] = 0
  BY <1>1 DEF IInv, CallInv, PlaceInv
<1>8. PlaceInv'
  BY <1>1, <1>3, <1>4, <1>5, <1>7 DEF IInv, CallInv, PlaceInv, Ready
<1>9. HeldInv'
  BY <1>1, <1>4, <1>5 DEF IInv, CallInv, HeldInv, Enrolled
<1>10. CheckInv'
  <2>1. command.members \in Seq(Users)
    BY <1>3, CommandFields
  <2>2. /\ 0 <= Len(command.members)
        /\ command.members # << >> => 0 < Len(command.members)
    BY <2>1
  <2> QED BY <1>1, <1>4, <1>5, <1>7, <2>2 DEF IInv, CallInv, CheckInv
<1>11. AuthorityWasHeld'
  <2>1. label \in Acting => command.kind \notin Guarded
    BY <1>3 DEF Acting, Guarded
  <2> QED BY <1>4, <1>5, <2>1 DEF IInv, CallInv, AuthorityWasHeld
<1>12. MembersWereAgents'
  BY <1>3, <1>4, <1>5 DEF IInv, CallInv, MembersWereAgents
<1>13. ExplainedInv'
  <2>1. pc[h] # "audit"
    BY <1>1 DEF Ready
  <2> QED BY <1>1, <1>4, <2>1, ExplainedStays
<1> QED BY <1>6, <1>8, <1>9, <1>10, <1>11, <1>12, <1>13 DEF IInv, CallInv

LEMMA AuthorizeKeeps ==
  ASSUME IInv, NEW h \in Handlers, Authorize(h)
  PROVE  IInv'
<1> DEFINE actor == op[h].actor
           label == IF op[h].kind = "replace" THEN "check" ELSE "write"
<1>1. /\ pc[h] = "authorize"
      /\ UNCHANGED <<users, groups, trail, faults, restarts>>
  BY DEF Authorize, store
<1>2. CASE Return(h, "error")
  BY <1>1, <1>2, GiveUpKeeps
<1>3. CASE /\ Enabled(actor)
           /\ PermissionFor(users[actor].role, Required(op[h].kind))
           /\ Goto(h, label)
           /\ UNCHANGED <<op, checked, held>>
  <2>1. /\ op[h] \in Command /\ op[h].kind \in Guarded /\ checked[h] = 0
        /\ actor \in Users /\ op[h].members \in Seq(Users)
    BY <1>1, CommandFields DEF IInv, CallInv, PlaceInv, Ready
  <2>2. /\ <<actor, users[actor].role>> \in held[h]
        /\ users[actor].role \in Roles
    BY <1>1, <1>3, <2>1, EnabledIsEnrolled, AccountFields
       DEF IInv, CallInv, HeldInv, Ready, Enabled
  <2>3. /\ pc' = [pc EXCEPT ![h] = label]
        /\ label \in {"check", "write"}
    BY <1>3 DEF Goto
  <2>4. pc'[h] = label /\ \A k \in Handlers \ {h} : pc'[k] = pc[k]
    BY <2>3 DEF IInv, TypeOK
  <2>5. TypeOK'
    BY <1>1, <1>3, <2>3 DEF IInv, TypeOK
  <2>6. /\ label = "check" => op[h].kind = "replace"
        /\ label = "write" => op[h].kind \notin {"create", "replace"}
    BY <2>1 DEF Guarded
  <2> HIDE DEF label
  <2>7. PlaceInv'
    BY <1>3, <2>1, <2>3, <2>4, <2>6 DEF IInv, CallInv, PlaceInv, Ready
  <2>8. HeldInv'
    BY <1>1, <1>3, <2>3, <2>4 DEF IInv, CallInv, HeldInv, Enrolled, Ready
  <2>9. CheckInv'
    <3>1. /\ 0 <= Len(op[h].members)
          /\ op[h].members # << >> => 0 < Len(op[h].members)
      BY <2>1
    <3> QED BY <1>3, <2>1, <2>4, <3>1 DEF IInv, CallInv, CheckInv
  <2>10. AuthorityWasHeld'
    BY <1>3, <2>2, <2>4 DEF IInv, CallInv, AuthorityWasHeld
  <2>11. MembersWereAgents'
    BY <1>3, <2>3, <2>4, <2>6 DEF IInv, CallInv, MembersWereAgents
  <2>12. ExplainedInv'
    BY <1>1, <1>3, <2>4, ExplainedStays
  <2> QED BY <2>5, <2>7, <2>8, <2>9, <2>10, <2>11, <2>12 DEF IInv, CallInv
<1> QED BY <1>2, <1>3 DEF Authorize

LEMMA CheckMemberKeeps ==
  ASSUME IInv, NEW h \in Handlers, CheckMember(h)
  PROVE  IInv'
<1> DEFINE members == op[h].members
           n == checked[h] + 1
           label == IF n = Len(members) THEN "write" ELSE "check"
<1>1. /\ pc[h] = "check"
      /\ UNCHANGED <<users, groups, trail, faults, restarts>>
  BY DEF CheckMember, store
<1>2. CASE Return(h, "error")
  BY <1>1, <1>2, GiveUpKeeps
<1>3. CASE /\ members # << >> /\ Eligible(members[n])
           /\ checked' = [checked EXCEPT ![h] = @ + 1]
           /\ Goto(h, label)
           /\ UNCHANGED <<op, held>>
  <2>1. /\ op[h] \in Command /\ op[h].kind \in {"create", "replace"}
        /\ members \in Seq(Users) /\ checked[h] \in Nat
        /\ checked[h] < Len(members)
    BY <1>1, <1>3, CommandFields
       DEF IInv, TypeOK, CallInv, PlaceInv, CheckInv, Ready
  <2>2. n \in 1 .. Len(members) /\ members[n] \in Users
    BY <2>1
  <2>3. <<members[n], "agent">> \in held[h]
    BY <1>1, <1>3, <2>2, EnabledIsEnrolled
       DEF IInv, CallInv, HeldInv, Ready, Eligible
  <2>4. \A i \in 1 .. n : <<members[i], "agent">> \in held[h]
    <3> SUFFICES ASSUME NEW i \in 1 .. n PROVE <<members[i], "agent">> \in held[h]
      OBVIOUS
    <3>1. i = n \/ i \in 1 .. checked[h]
      BY <2>1
    <3> QED BY <3>1, <1>1, <2>3 DEF IInv, CallInv, CheckInv
  <2>5. /\ pc' = [pc EXCEPT ![h] = label]
        /\ checked' = [checked EXCEPT ![h] = n]
        /\ label \in {"check", "write"}
    BY <1>3 DEF Goto
  <2>6. /\ pc'[h] = label /\ checked'[h] = n
        /\ \A k \in Handlers \ {h} : pc'[k] = pc[k] /\ checked'[k] = checked[k]
    BY <2>5 DEF IInv, TypeOK
  <2>7. TypeOK'
    BY <1>1, <1>3, <2>1, <2>5 DEF IInv, TypeOK
  <2>8. /\ label = "check" => n < Len(members)
        /\ label = "write" => n = Len(members)
    BY <2>1, <2>2
  <2> HIDE DEF label
  <2>9. PlaceInv'
    BY <1>3, <2>1, <2>5, <2>6 DEF IInv, CallInv, PlaceInv, Ready
  <2>10. HeldInv'
    BY <1>1, <1>3, <2>5, <2>6 DEF IInv, CallInv, HeldInv, Enrolled, Ready
  <2>11. CheckInv'
    <3> SUFFICES ASSUME NEW k \in Handlers, pc'[k] = "check"
                 PROVE  /\ checked'[k] <= Len(op[k].members)
                        /\ op[k].members # << >> => checked'[k] < Len(op[k].members)
                        /\ \A i \in 1 .. checked'[k] :
                             <<op[k].members[i], "agent">> \in held[k]
      BY <1>3 DEF CheckInv
    <3>1. CASE k = h
      BY <3>1, <1>3, <2>1, <2>2, <2>4, <2>6, <2>8
    <3>2. CASE k # h
      BY <3>2, <1>3, <2>6 DEF IInv, CallInv, CheckInv
    <3> QED BY <3>1, <3>2
  <2>12. AuthorityWasHeld'
    BY <1>1, <1>3, <2>6 DEF IInv, CallInv, AuthorityWasHeld, Acting
  <2>13. MembersWereAgents'
    <3> SUFFICES ASSUME NEW k \in Handlers, pc'[k] = "write",
                        op[k].kind \in {"create", "replace"}
                 PROVE  /\ op[k].members # << >>
                        /\ \A i \in 1 .. Len(op[k].members) :
                             <<op[k].members[i], "agent">> \in held[k]
      BY <1>3 DEF MembersWereAgents
    <3>1. CASE k = h
      BY <3>1, <1>3, <2>4, <2>6, <2>8
    <3>2. CASE k # h
      BY <3>2, <2>6 DEF IInv, CallInv, MembersWereAgents
    <3> QED BY <3>1, <3>2
  <2>14. ExplainedInv'
    BY <1>1, <1>3, <2>6, ExplainedStays
  <2> QED BY <2>7, <2>9, <2>10, <2>11, <2>12, <2>13, <2>14 DEF IInv, CallInv
<1> QED BY <1>2, <1>3 DEF CheckMember

\* Whoever has written is about to record it.
LEMMA WrittenRecords ==
  ASSUME IInv, NEW h \in Handlers, pc[h] = "write", Written(h)
  PROVE  /\ \A kind, x : Recorded(kind, x) => Recorded(kind, x)'
         /\ \A kind, x :
              kind = op[h].kind /\ x = op[h].target => Recorded(kind, x)'
<1>1. /\ pc' = [pc EXCEPT ![h] = "audit"]
      /\ UNCHANGED <<op, trail>>
  BY DEF Written, Goto
<1>2. pc'[h] = "audit" /\ \A k \in Handlers \ {h} : pc'[k] = pc[k]
  BY <1>1 DEF IInv, TypeOK
<1> QED BY <1>1, <1>2 DEF Recorded

\* A write is committed, and the handlers see the accounts it leaves.
LEMMA WrittenKeeps ==
  ASSUME IInv, NEW h \in Handlers, pc[h] = "write", Written(h),
         \A k \in Handlers : pc[k] \notin Ready =>
           held[k] \subseteq held'[k] /\ Enrolled(users)' \subseteq held'[k]
  PROVE  /\ CallInv'
         /\ pc' \in [Handlers -> Ready \cup {"authorize", "check", "write", "audit"}]
<1>1. /\ pc' = [pc EXCEPT ![h] = "audit"]
      /\ UNCHANGED <<op, checked, trail, faults, restarts>>
  BY DEF Written, Goto
<1>2. /\ pc' \in [Handlers -> Ready \cup {"authorize", "check", "write", "audit"}]
      /\ pc'[h] = "audit" /\ \A k \in Handlers \ {h} : pc'[k] = pc[k]
  BY <1>1 DEF IInv, TypeOK
<1>3. \A k \in Handlers : pc'[k] \in Ready <=> pc[k] \in Ready
  BY <1>2 DEF Ready
<1>4. PlaceInv'
  BY <1>1, <1>2, <1>3 DEF IInv, CallInv, PlaceInv
<1>5. HeldInv'
  BY <1>3 DEF HeldInv
<1>6. CheckInv'
  BY <1>1, <1>2 DEF IInv, CallInv, CheckInv, Ready
<1>7. AuthorityWasHeld'
  BY <1>1, <1>2 DEF IInv, CallInv, AuthorityWasHeld, Acting, Ready
<1>8. MembersWereAgents'
  BY <1>1, <1>2 DEF IInv, CallInv, MembersWereAgents, Ready
<1> QED BY <1>2, <1>4, <1>5, <1>6, <1>7, <1>8 DEF CallInv

LEMMA SaveAccountKeeps ==
  ASSUME IInv, NEW h \in Handlers, pc[h] = "write", Written(h), groups' = groups,
         NEW u \in Users, NEW account \in Account, SaveAccount(u, account),
         users[u] # Nil \/ Recorded("register", u)',
         ~account.enabled => Recorded("disable", u)'
  PROVE  IInv'
<1>1. /\ users' = [users EXCEPT ![u] = account]
      /\ held' = [k \in Handlers |->
                    IF pc[k] \in Ready THEN {} ELSE held[k] \cup Enrolled(users')]
      /\ UNCHANGED <<op, checked, trail, faults, restarts>>
  BY DEF SaveAccount, Written
<1>2. users' \in [Users -> Account \cup {Nil}]
  BY <1>1 DEF IInv, TypeOK
<1>3. Enrolled(users') \subseteq Users \X Roles
  BY <1>2, DirectoryAssumption DEF Enrolled, Account
<1>4. held' \in [Handlers -> SUBSET (Users \X Roles)]
  BY <1>1, <1>3 DEF IInv, TypeOK
<1>5. \A k \in Handlers : pc[k] \notin Ready =>
        held[k] \subseteq held'[k] /\ Enrolled(users)' \subseteq held'[k]
  BY <1>1 DEF Enrolled
<1>6. /\ CallInv'
      /\ pc' \in [Handlers -> Ready \cup {"authorize", "check", "write", "audit"}]
      /\ \A kind, x : Recorded(kind, x) => Recorded(kind, x)'
  BY <1>5, WrittenKeeps, WrittenRecords
<1>7. TypeOK'
  BY <1>1, <1>2, <1>4, <1>6 DEF IInv, TypeOK
<1>8. ExplainedInv'
  <2>1. \A v \in Users \ {u} : users'[v] = users[v]
    BY <1>1 DEF IInv, TypeOK
  <2>2. users'[u] = account
    BY <1>1 DEF IInv, TypeOK
  <2>3. Unexplained' \subseteq Unexplained
    <3> SUFFICES ASSUME NEW e \in Due', ~Recorded(e[1], e[2])' PROVE e \in Unexplained
      BY DEF Unexplained
    <3>1. ~Recorded(e[1], e[2])
      BY <1>6
    <3>2. ASSUME NEW v \in Users, users'[v] # Nil, e = <<"register", v>>
          PROVE  e \in Due
      <4>1. users[v] # Nil
        BY <2>1, <3>2
      <4> QED BY <3>2, <4>1 DEF Due
    <3>3. ASSUME NEW v \in Users, users'[v] # Nil, ~users'[v].enabled, e = <<"disable", v>>
          PROVE  e \in Due
      <4>1. v # u
        BY <2>2, <3>3
      <4> QED BY <2>1, <3>3, <4>1 DEF Due
    <3>4. ASSUME NEW g \in Groups, groups[g] # Nil,
                 \/ e = <<"create", g>>
                 \/ e = <<"deactivate", g>> /\ ~groups[g].active
          PROVE  e \in Due
      BY <3>4 DEF Due
    <3>5. e \in Due
      BY <3>2, <3>3, <3>4 DEF Due
    <3> QED BY <3>1, <3>5 DEF Unexplained
  <2> QED BY <1>1, <2>3, NoEntryLost
<1> QED BY <1>6, <1>7, <1>8 DEF IInv

LEMMA SaveGroupKeeps ==
  ASSUME IInv, NEW h \in Handlers, pc[h] = "write", Written(h),
         UNCHANGED <<users, held>>,
         NEW g \in Groups, NEW group \in AgentGroup,
         groups' = [groups EXCEPT ![g] = group],
         groups[g] # Nil \/ Recorded("create", g)',
         ~group.active =>
           \/ groups[g] # Nil /\ ~groups[g].active
           \/ Recorded("deactivate", g)'
  PROVE  IInv'
<1>1. UNCHANGED <<op, checked, trail, faults, restarts>>
  BY DEF Written
<1>2. \A k \in Handlers : pc[k] \notin Ready =>
        held[k] \subseteq held'[k] /\ Enrolled(users)' \subseteq held'[k]
  BY DEF IInv, CallInv, HeldInv, Enrolled
<1>3. /\ CallInv'
      /\ pc' \in [Handlers -> Ready \cup {"authorize", "check", "write", "audit"}]
      /\ \A kind, x : Recorded(kind, x) => Recorded(kind, x)'
  BY <1>2, WrittenKeeps, WrittenRecords
<1>4. TypeOK'
  BY <1>1, <1>3 DEF IInv, TypeOK
<1>5. ExplainedInv'
  <2>1. \A f \in Groups \ {g} : groups'[f] = groups[f]
    BY DEF IInv, TypeOK
  <2>2. groups'[g] = group
    BY DEF IInv, TypeOK
  <2>3. Unexplained' \subseteq Unexplained
    <3> SUFFICES ASSUME NEW e \in Due', ~Recorded(e[1], e[2])' PROVE e \in Unexplained
      BY DEF Unexplained
    <3>1. ~Recorded(e[1], e[2])
      BY <1>3
    <3>2. ASSUME NEW f \in Groups, groups'[f] # Nil, e = <<"create", f>>
          PROVE  e \in Due
      <4>1. groups[f] # Nil
        BY <2>1, <3>2
      <4> QED BY <3>2, <4>1 DEF Due
    <3>3. ASSUME NEW f \in Groups, groups'[f] # Nil, ~groups'[f].active,
                 e = <<"deactivate", f>>
          PROVE  e \in Due
      <4>1. groups[f] # Nil /\ ~groups[f].active
        BY <2>1, <2>2, <3>3
      <4> QED BY <3>3, <4>1 DEF Due
    <3>4. ASSUME NEW v \in Users, users[v] # Nil,
                 \/ e = <<"register", v>>
                 \/ e = <<"disable", v>> /\ ~users[v].enabled
          PROVE  e \in Due
      BY <3>4 DEF Due
    <3>5. e \in Due
      BY <3>2, <3>3, <3>4 DEF Due
    <3> QED BY <3>1, <3>5 DEF Unexplained
  <2> QED BY <1>1, <2>3, NoEntryLost
<1> QED BY <1>3, <1>4, <1>5 DEF IInv

\* A handler that writes has its command, and its target has its type.
LEMMA Writing ==
  ASSUME IInv, NEW h \in Handlers, pc[h] = "write"
  PROVE  /\ op[h] \in Command
         /\ op[h].kind \in OnAccounts => op[h].target \in Users
         /\ op[h].kind \in OnGroups => op[h].target \in Groups
         /\ op[h].role \in Roles /\ op[h].members \in Seq(Users)
  BY CommandFields DEF IInv, CallInv, PlaceInv, Ready

LEMMA WriteKeeps ==
  ASSUME IInv, NEW h \in Handlers, Write(h)
  PROVE  IInv'
<1> PICK kind, x : kind = op[h].kind /\ x = op[h].target
  OBVIOUS
<1>1. pc[h] = "write"
  BY DEF Write, PutUser, SetUserEnabled, PutGroup, ReplaceGroupMembers, SetGroupActive
<1>2. CASE WriteFails(h)
  BY <1>2, WriteFailsKeeps
<1>3. CASE NotFound(h)
  BY <1>1, <1>3, GiveUpKeeps DEF NotFound
<1>4. Written(h) => Recorded(kind, x)'
  BY <1>1, WrittenRecords
<1>5. CASE PutUser(h) /\ ~WriteFails(h)
  <2> PICK account : account = [role |-> op[h].role, enabled |-> TRUE]
    OBVIOUS
  <2>1. /\ op[h].kind = "register" /\ x \in Users /\ op[h].role \in Roles
    BY <1>1, <1>5, Writing DEF PutUser, OnAccounts
  <2>2. account \in Account /\ account.enabled
    BY <2>1 DEF Account
  <2>3. Written(h) /\ SaveAccount(x, account) /\ groups' = groups
    BY <1>5 DEF PutUser
  <2>4. Recorded("register", x)'
    BY <1>4, <2>1, <2>3
  <2> QED BY <1>1, <2>1, <2>2, <2>3, <2>4, SaveAccountKeeps
<1>6. CASE SetUserEnabled(h) /\ ~WriteFails(h) /\ ~NotFound(h)
  <2> PICK account : account = [users[x] EXCEPT !.enabled = (op[h].kind = "enable")]
    OBVIOUS
  <2>1. /\ op[h].kind \in {"enable", "disable"} /\ x \in Users
        /\ users[x] # Nil
        /\ Written(h) /\ SaveAccount(x, account) /\ groups' = groups
    BY <1>1, <1>6, Writing DEF SetUserEnabled, OnAccounts
  <2>2. account \in Account
    BY <2>1, AccountFields DEF Account, IInv
  <2>3. ~account.enabled => op[h].kind = "disable"
    BY <2>1, AccountFields DEF Account, IInv
  <2>4. ~account.enabled => Recorded("disable", x)'
    BY <1>4, <2>1, <2>3
  <2> QED BY <1>1, <2>1, <2>2, <2>4, SaveAccountKeeps
<1>7. CASE PutGroup(h) /\ ~WriteFails(h)
  <2> PICK group : group = [active |-> TRUE, members |-> op[h].members]
    OBVIOUS
  <2>1. /\ op[h].kind = "create" /\ x \in Groups
        /\ Written(h) /\ groups' = [groups EXCEPT ![x] = group]
        /\ UNCHANGED <<users, held>>
    BY <1>1, <1>7, Writing DEF PutGroup, OnGroups
  <2>2. group \in AgentGroup /\ group.active
    BY <1>1, Writing DEF AgentGroup
  <2>3. Recorded("create", x)'
    BY <1>4, <2>1
  <2> QED BY <1>1, <2>1, <2>2, <2>3, SaveGroupKeeps
<1>8. CASE ReplaceGroupMembers(h) /\ ~WriteFails(h) /\ ~NotFound(h)
  <2> PICK group : group = [groups[x] EXCEPT !.members = op[h].members]
    OBVIOUS
  <2>1. /\ op[h].kind = "replace" /\ x \in Groups /\ groups[x] # Nil
        /\ Written(h)
        /\ groups' = [groups EXCEPT ![x].members = op[h].members]
        /\ UNCHANGED <<users, held>>
    BY <1>1, <1>8, Writing DEF ReplaceGroupMembers, OnGroups
  <2>2. /\ group \in AgentGroup /\ group.active = groups[x].active
        /\ groups' = [groups EXCEPT ![x] = group]
    BY <1>1, <2>1, GroupFields, Writing DEF AgentGroup, IInv
  <2>3. ~group.active => groups[x] # Nil /\ ~groups[x].active
    BY <2>1, <2>2
  <2>4. groups[x] # Nil \/ Recorded("create", x)'
    BY <2>1
  <2> QED BY <1>1, <2>1, <2>2, <2>3, <2>4, SaveGroupKeeps
<1>9. CASE SetGroupActive(h) /\ ~WriteFails(h) /\ ~NotFound(h)
  <2> PICK group : group = [groups[x] EXCEPT !.active = (op[h].kind = "activate")]
    OBVIOUS
  <2>1. /\ op[h].kind \in {"activate", "deactivate"} /\ x \in Groups
        /\ groups[x] # Nil /\ Written(h)
        /\ groups' = [groups EXCEPT ![x].active = (op[h].kind = "activate")]
        /\ UNCHANGED <<users, held>>
    BY <1>1, <1>9, Writing DEF SetGroupActive, OnGroups
  <2>2. /\ group \in AgentGroup
        /\ ~group.active => op[h].kind = "deactivate"
        /\ groups' = [groups EXCEPT ![x] = group]
    BY <2>1, GroupFields DEF AgentGroup, IInv
  <2>3. ~group.active => Recorded("deactivate", x)'
    BY <1>4, <2>1, <2>2
  <2> QED BY <1>1, <2>1, <2>2, <2>3, SaveGroupKeeps
<1>10. \/ WriteFails(h) \/ NotFound(h) \/ PutUser(h) \/ SetUserEnabled(h)
       \/ PutGroup(h) \/ ReplaceGroupMembers(h) \/ SetGroupActive(h)
  BY DEF Write
<1> QED BY <1>2, <1>3, <1>5, <1>6, <1>7, <1>8, <1>9, <1>10

LEMMA RecordKeeps ==
  ASSUME IInv, NEW h \in Handlers, Record(h)
  PROVE  IInv'
<1>1. CASE WriteFails(h)
  BY <1>1, WriteFailsKeeps
<1>2. CASE /\ pc[h] = "audit"
           /\ trail' = trail \cup {<<op[h].kind, op[h].target>>}
           /\ Return(h, "ok")
           /\ UNCHANGED <<users, groups, faults, restarts>>
  <2>1. "ok" \in Ready /\ op[h] \in Command
    BY <1>2 DEF Ready, IInv, CallInv, PlaceInv
  <2>2. <<op[h].kind, op[h].target>> \in (OnAccounts \X Users) \cup (OnGroups \X Groups)
    BY <2>1, CommandFields
  <2>3. TypeOK'
    BY <1>2, <2>1, <2>2, ReturnKeeps DEF IInv, TypeOK
  <2>4. ExplainedInv'
    BY <1>2, <2>1, ReturnKeeps, ExplainedStays
  <2> QED BY <1>2, <2>1, <2>3, <2>4, ReturnKeeps DEF IInv
<1> QED BY <1>1, <1>2 DEF Record

LEMMA RestartKeeps ==
  ASSUME IInv, Restart
  PROVE  IInv'
<1>1. restarts' \in 0 .. MaxRestarts
  BY DirectoryAssumption DEF Restart, IInv, TypeOK
<1>2. TypeOK'
  BY <1>1 DEF Restart, IInv, TypeOK, store, Ready
<1>3. CallInv'
  BY DEF Restart, CallInv, PlaceInv, HeldInv, CheckInv, AuthorityWasHeld,
     MembersWereAgents, Ready, Acting
<1>4. ExplainedInv'
  <2> DEFINE lost == {<<op[h].kind, op[h].target>> : h \in Handlers}
             n == Cardinality(Handlers)
  <2>1. Unexplained' \subseteq Unexplained \cup lost
    <3> SUFFICES ASSUME NEW e \in Unexplained', e \notin lost PROVE e \in Unexplained
      OBVIOUS
    <3>1. e \in Due /\ <<e[1], e[2]>> \notin trail
      BY DEF Unexplained, Due, Restart, store, Recorded
    <3>2. e = <<e[1], e[2]>>
      BY <3>1 DEF Due
    <3>3. ~Recorded(e[1], e[2])
      BY <3>1, <3>2 DEF Recorded
    <3> QED BY <3>1, <3>3 DEF Unexplained
  <2>2. IsFiniteSet(lost) /\ Cardinality(lost) <= n
    <3> DEFINE f == [h \in Handlers |-> <<op[h].kind, op[h].target>>]
    <3>1. f \in Surjection(Handlers, lost)
      BY DEF Surjection
    <3> QED BY <3>1, DirectoryAssumption, FS_Surjection
  <2>3. /\ IsFiniteSet(Unexplained) /\ IsFiniteSet(Unexplained \cup lost)
        /\ Cardinality(Unexplained \cup lost) <= Cardinality(Unexplained) + Cardinality(lost)
    <3>1. IsFiniteSet(Unexplained)
      BY DEF IInv, ExplainedInv
    <3>2. /\ IsFiniteSet(Unexplained \cup lost)
          /\ Cardinality(Unexplained \cup lost) =
               Cardinality(Unexplained) + Cardinality(lost) - Cardinality(Unexplained \cap lost)
      BY <2>2, <3>1, FS_Union
    <3>3. /\ Cardinality(Unexplained) \in Nat /\ Cardinality(lost) \in Nat
          /\ Cardinality(Unexplained \cap lost) \in Nat
      BY <2>2, <3>1, FS_Intersection, FS_CardinalityType
    <3> QED BY <3>1, <3>2, <3>3
  <2>4. /\ IsFiniteSet(Unexplained')
        /\ Cardinality(Unexplained') <= Cardinality(Unexplained \cup lost)
    BY <2>1, <2>3, FS_Subset
  <2>5. /\ Cardinality(Unexplained') \in Nat /\ Cardinality(Unexplained) \in Nat
        /\ Cardinality(lost) \in Nat /\ Cardinality(Unexplained \cup lost) \in Nat
        /\ n \in Nat /\ faults \in Nat /\ restarts \in Nat
    BY <2>2, <2>3, <2>4, FS_CardinalityType, DirectoryAssumption DEF IInv, TypeOK
  <2>6. faults' = faults /\ restarts' = restarts + 1
    BY DEF Restart
  <2>7. Cardinality(Unexplained) <= faults + restarts * n
    BY DEF IInv, ExplainedInv
  <2> HIDE DEF n, lost
  <2>8. faults + (restarts + 1) * n = faults + restarts * n + n
    BY <2>5
  <2>9. Cardinality(Unexplained') <= faults + (restarts + 1) * n
    BY <2>2, <2>3, <2>4, <2>5, <2>7, <2>8
  <2> QED BY <2>4, <2>6, <2>9 DEF ExplainedInv, n
<1> QED BY <1>2, <1>3, <1>4 DEF IInv

LEMMA StepKeeps == IInv /\ [Next]_vars => IInv'
<1> SUFFICES ASSUME IInv, [Next]_vars PROVE IInv'
  OBVIOUS
<1>1. CASE UNCHANGED vars
  <2>1. TypeOK'
    BY <1>1 DEF vars, IInv, TypeOK
  <2>2. CallInv'
    BY <1>1 DEF vars, IInv, CallInv, PlaceInv, HeldInv, CheckInv, AuthorityWasHeld,
       MembersWereAgents, Enrolled
  <2>3. ExplainedInv'
    BY <1>1 DEF vars, IInv, ExplainedInv, Unexplained, Due, Recorded
  <2> QED BY <2>1, <2>2, <2>3 DEF IInv
<1> QED BY <1>1, CallKeeps, AuthorizeKeeps, CheckMemberKeeps, WriteKeeps, RecordKeeps,
        RestartKeeps DEF Next

-----------------------------------------------------------------------------
\* What dispatchers see of a step.

LEMMA InitRefines == Init => Directory!Init
  BY DEF Init, Directory!Init, Eligible, Enabled

\* A commit to an account concerns nobody else.
LEMMA AccountRefines ==
  ASSUME IInv, NEW u \in Users, NEW account \in Account, groups' = groups,
         users' = [users EXCEPT ![u] = account]
  PROVE  Directory!SetAgent(u)
<1> DEFINE agents == {v \in Users : Eligible(v)}
<1>1. \A v \in Users \ {u} : Eligible(v)' <=> Eligible(v)
  BY DEF IInv, TypeOK, Eligible, Enabled
<1>2. agents' = agents \cup {u} \/ agents' = agents \ {u}
  <2>1. CASE Eligible(u)'
    BY <1>1, <2>1
  <2>2. CASE ~Eligible(u)'
    BY <1>1, <2>2
  <2> QED BY <2>1, <2>2
<1> QED BY <1>2 DEF Directory!SetAgent

LEMMA QuietRefines ==
  ASSUME UNCHANGED <<users, groups>>
  PROVE  UNCHANGED Directory!vars
  BY DEF Directory!vars, Eligible, Enabled

\* Lists of members come from handlers that have checked them.
LEMMA MembersAreNotEmpty ==
  ASSUME IInv, NEW h \in Handlers, pc[h] = "write",
         op[h].kind \in {"create", "replace"}
  PROVE  op[h].members \in Directory!Lists
<1>1. op[h].members # << >>
  BY DEF IInv, CallInv, MembersWereAgents
<1> QED BY <1>1, Writing DEF Directory!Lists

LEMMA WriteRefines ==
  ASSUME IInv, NEW h \in Handlers, Write(h)
  PROVE  Directory!Next \/ UNCHANGED Directory!vars
<1> DEFINE x == op[h].target
<1>1. pc[h] = "write"
  BY DEF Write, PutUser, SetUserEnabled, PutGroup, ReplaceGroupMembers, SetGroupActive
<1>2. CASE WriteFails(h) \/ NotFound(h)
  BY <1>2, QuietRefines DEF WriteFails, NotFound
<1>3. CASE PutUser(h) /\ ~WriteFails(h)
  <2> DEFINE account == [role |-> op[h].role, enabled |-> TRUE]
  <2>1. /\ x \in Users /\ account \in Account /\ groups' = groups
        /\ users' = [users EXCEPT ![x] = account]
    BY <1>1, <1>3, Writing DEF PutUser, SaveAccount, OnAccounts, Account
  <2> QED BY <2>1, AccountRefines DEF Directory!Next
<1>4. CASE SetUserEnabled(h) /\ ~WriteFails(h) /\ ~NotFound(h)
  <2> DEFINE account == [users[x] EXCEPT !.enabled = (op[h].kind = "enable")]
  <2>1. /\ x \in Users /\ users[x] # Nil /\ groups' = groups
        /\ users' = [users EXCEPT ![x] = account]
    BY <1>1, <1>4, Writing DEF SetUserEnabled, SaveAccount, OnAccounts
  <2>2. account \in Account
    BY <2>1, AccountFields DEF Account, IInv
  <2> QED BY <2>1, <2>2, AccountRefines DEF Directory!Next
<1>5. CASE PutGroup(h) /\ ~WriteFails(h)
  <2>1. /\ x \in Groups /\ op[h].members \in Directory!Lists
        /\ groups' = [groups EXCEPT ![x] = [active |-> TRUE, members |-> op[h].members]]
        /\ users' = users
    BY <1>1, <1>5, Writing, MembersAreNotEmpty DEF PutGroup, OnGroups
  <2>2. groups'[x] = [active |-> TRUE, members |-> op[h].members]
    BY <2>1 DEF IInv, TypeOK
  <2>3. groups'[x] # Nil /\ groups'[x].members = op[h].members
    <3>1. op[h].members \in Seq(Users)
      BY <1>1, Writing
    <3>2. groups'[x] \in AgentGroup
      BY <2>2, <3>1 DEF AgentGroup
    <3>3. groups'[x] # Nil
      BY <3>2, DirectoryAssumption
    <3>4. groups'[x].members = op[h].members
      BY <2>2
    <3> QED BY <3>3, <3>4
  <2>4. Directory!Create(x, groups'[x].members)
    BY <2>1, <2>3 DEF Directory!Create, Eligible, Enabled
  <2> QED BY <2>1, <2>3, <2>4 DEF Directory!Next
<1>6. CASE ReplaceGroupMembers(h) /\ ~WriteFails(h) /\ ~NotFound(h)
  <2>1. /\ x \in Groups /\ op[h].members \in Directory!Lists /\ groups[x] # Nil
        /\ groups' = [groups EXCEPT ![x].members = op[h].members]
        /\ users' = users
    BY <1>1, <1>6, Writing, MembersAreNotEmpty DEF ReplaceGroupMembers, OnGroups
  <2>2. groups'[x] = [groups[x] EXCEPT !.members = op[h].members]
    BY <2>1 DEF IInv, TypeOK
  <2>3. groups'[x] # Nil /\ groups'[x].members = op[h].members
    BY <1>1, <2>1, <2>2, Writing, GroupFields, DirectoryAssumption DEF AgentGroup, IInv
  <2>4. Directory!SetMembers(x, groups'[x].members)
    BY <2>1, <2>3 DEF Directory!SetMembers, Eligible, Enabled
  <2> QED BY <2>1, <2>3, <2>4 DEF Directory!Next
<1>7. CASE SetGroupActive(h) /\ ~WriteFails(h) /\ ~NotFound(h)
  <2>1. /\ x \in Groups /\ groups[x] # Nil
        /\ groups' = [groups EXCEPT ![x].active = (op[h].kind = "activate")]
        /\ users' = users
    BY <1>1, <1>7, Writing DEF SetGroupActive, OnGroups
  <2>2. Directory!SetActive(x, op[h].kind = "activate")
    BY <2>1 DEF Directory!SetActive, Eligible, Enabled
  <2> QED BY <2>1, <2>2 DEF Directory!Next
<1> QED BY <1>2, <1>3, <1>4, <1>5, <1>6, <1>7 DEF Write

LEMMA StepRefines == IInv /\ [Next]_vars => [Directory!Next]_Directory!vars
<1> SUFFICES ASSUME IInv, [Next]_vars PROVE [Directory!Next]_Directory!vars
  OBVIOUS
<1>1. ASSUME NEW h \in Handlers, \/ \E command \in Commands : Call(h, command)
                                 \/ Authorize(h) \/ CheckMember(h) \/ Record(h)
      PROVE  UNCHANGED <<users, groups>>
  BY <1>1 DEF Call, Authorize, CheckMember, Record, WriteFails, store
<1>2. Restart \/ UNCHANGED vars => UNCHANGED <<users, groups>>
  BY DEF Restart, vars, store
<1> QED BY <1>1, <1>2, WriteRefines, QuietRefines DEF Next

-----------------------------------------------------------------------------

\* The inductive invariant of the directory: where a call can be, what it has
\* checked, whom it has seen, and what of the store is on record.
THEOREM Inductive == Spec => []IInv
  BY Init_IInv, StepKeeps, PTL DEF Spec

\* The variables of the directory keep their types.
THEOREM TypeCorrect == Spec => []TypeOK
<1>1. IInv => TypeOK
  BY DEF IInv
<1> QED BY <1>1, Inductive, PTL

\* Service.Authorize: whoever changes an account or a group under a permission
\* held it at some time during the call.
THEOREM Authority == Spec => []AuthorityWasHeld
<1>1. IInv => AuthorityWasHeld
  BY DEF IInv, CallInv
<1> QED BY <1>1, Inductive, PTL

\* CreateGroup and ReplaceGroupMembers: all members of a list that is about to
\* be written were enabled agents during the call.
THEOREM Membership == Spec => []MembersWereAgents
<1>1. IInv => MembersWereAgents
  BY DEF IInv, CallInv
<1> QED BY <1>1, Inductive, PTL

\* The writes and their audit events: what is in the store and not on record
\* was lost by a failed write or by a restart, each of which loses no more than
\* the calls it ended.
THEOREM Explained == Spec => []StoreIsExplained
<1>1. IInv => StoreIsExplained
  BY DEF IInv, ExplainedInv, StoreIsExplained
<1> QED BY <1>1, Inductive, PTL

\* The operations on accounts and groups implement the registry that the
\* dispatcher relies on.
THEOREM Refinement == Spec => ImplementsRegistry
  BY InitRefines, StepRefines, Inductive, PTL DEF Spec, ImplementsRegistry, Directory!Spec
=============================================================================
