---------------------------- MODULE MCDirectory ----------------------------
(***************************************************************************)
(* An instance of Directory for TLC: an account that is an agent or an     *)
(* administrator in turn, an agent, and the group that the first one looks *)
(* after.                                                                  *)
(***************************************************************************)
EXTENDS Directory, TLC

CONSTANTS u1, u2, g1

Act(kind, actor, target) ==
  [kind |-> kind, actor |-> actor, target |-> target, role |-> "agent",
   members |-> << >>]

Register(u, role) == [Act("register", u, u) EXCEPT !.role = role]

List(kind, actor, members) == [Act(kind, actor, g1) EXCEPT !.members = members]

Calls ==
  {Register(u1, "agent"), Register(u2, "agent"), Register(u2, "admin"),
   Act("disable", u2, u1), Act("enable", u2, u1), Act("disable", u2, u2),
   List("create", u2, <<u2, u1>>), List("create", u1, << >>),
   List("replace", u2, <<u1>>), List("replace", u2, <<u1, u1>>),
   Act("activate", u2, g1), Act("deactivate", u2, g1)}

HandlerSymmetry == Permutations(Handlers)

\* No step reads the trail, and no property tells these entries of the right
\* type from none.
Seen ==
  LET unread == ({"enable"} \X Users) \cup ({"replace", "activate"} \X Groups)
  IN <<users, groups, trail \ unread, pc, op, checked, held, faults, restarts>>
=============================================================================
