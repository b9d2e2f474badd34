------------------------------ MODULE Registry ------------------------------
(***************************************************************************)
(* What the directory of accounts and groups promises to those who read    *)
(* it: the dispatcher sees each commit, one transaction at a time.         *)
(*                                                                         *)
(* A group appears active and with members; from then on it may be created *)
(* anew, its members replaced or its flag set, but one change never undoes *)
(* another, no group is ever without members and none ever disappears.  An *)
(* account may become or cease to be an enabled agent at any time.         *)
(***************************************************************************)
EXTENDS Naturals, Sequences

CONSTANTS Groups, Users, Absent

VARIABLES groups, agents

vars == <<groups, agents>>

Lists == Seq(Users) \ {<< >>}

Init ==
  /\ groups = [g \in Groups |-> Absent]
  /\ agents = {}

Create(g, members) ==
  /\ groups' = [groups EXCEPT ![g] = [active |-> TRUE, members |-> members]]
  /\ UNCHANGED agents

SetMembers(g, members) ==
  /\ groups[g] # Absent
  /\ groups' = [groups EXCEPT ![g].members = members]
  /\ UNCHANGED agents

SetActive(g, active) ==
  /\ groups[g] # Absent
  /\ groups' = [groups EXCEPT ![g].active = active]
  /\ UNCHANGED agents

SetAgent(u) ==
  /\ agents' \in {agents \cup {u}, agents \ {u}}
  /\ UNCHANGED groups

\* The list of the new members is the one the step leaves in the store.
Next ==
  \/ \E g \in Groups :
       \/ /\ groups'[g] # Absent
          /\ groups'[g].members \in Lists
          /\ \/ Create(g, groups'[g].members)
             \/ SetMembers(g, groups'[g].members)
       \/ \E active \in BOOLEAN : SetActive(g, active)
  \/ \E u \in Users : SetAgent(u)

Spec == Init /\ [][Next]_vars
=============================================================================
