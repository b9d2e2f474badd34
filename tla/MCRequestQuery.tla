--------------------------- MODULE MCRequestQuery ---------------------------
(***************************************************************************)
(* Instances of RequestQuery for TLC.                                      *)
(***************************************************************************)
EXTENDS RequestQuery, TLC

CONSTANTS g1, a1, a2, t1,
          wide, blank     \* g1 with blanks around it, blanks alone

Of(s, g, a, p, c, t) == [status |-> s, group |-> g, assignee |-> a,
                         priority |-> p, created |-> c, tags |-> t]

\* Open, terminal and unknown statuses, with and without a group and an
\* assignee, two of one moment, one with two spellings of its tag and an
\* empty one, one whose group has a blank, two that another becomes.
SomeRequests ==
  {Of("queued", g1, Nil, 3, 2, <<t1, t1>>), Of("assigned", g1, a1, 5, 2, << >>),
   Of("resolved", g1, a1, 5, 2, << >>), Of("pending", Nil, a2, 3, 1, <<t1, Nil>>),
   Of("rejected", Nil, a2, 3, 1, <<t1, Nil>>), Of("other", wide, a2, 5, 1, << >>)}

BlanksCut == [w \in Words |-> CASE w = wide -> g1 [] w = blank -> Nil [] OTHER -> w]

NoQuestion == [status |-> Nil, group |-> Nil, assignee |-> Nil, tag |-> Nil,
               priority |-> Absent, from |-> Absent, to |-> Absent]

SomeQuestions ==
  {[NoQuestion EXCEPT !.group = g1, !.priority = p, !.from = f, !.to = t] :
     p \in {Absent, 0, 3, 9}, f \in {Absent, Bad, 2}, t \in {Absent, 1, 2}}
  \cup {[NoQuestion EXCEPT !.group = w, !.assignee = v] :
          w \in {Nil, wide, blank}, v \in {Nil, a2, blank}}
  \cup {[NoQuestion EXCEPT !.status = "pending", !.tag = t1, !.assignee = a2]}
=============================================================================
