---------------------------- MODULE RequestQuery ----------------------------
(***************************************************************************)
(* Reading the requests: Store.ListRequests and what is made of its list   *)
(* by internal/filter and internal/service/report.go.  LoadReports adds    *)
(* the reports of internal/service/administration.go.                      *)
(*                                                                         *)
(* A list is read in one transaction and all that follows is local.  It is *)
(* here a sequence of ids, the records are those in the bucket.  Nil is    *)
(* the empty string and 0 the zero time; moments start at 1.  A tag stands *)
(* for its spellings with capitals.                                        *)
(***************************************************************************)
EXTENDS RequestStatus, Functions, FiniteSetsExt, Sorting

CONSTANTS
  Ids,          \* request ids
  Groups,       \* words for a group, of which there may be a record or none
  Users,        \* words for an assignee, who may be an agent or not
  Tags,
  Others,       \* words for a status that are none of the allowed ones
  Nil,
  Trim,         \* a word without the blanks around it
  Requests,     \* the values that are put
  Questions,    \* the parameters of the URL of a listing
  Absent, Bad,  \* a parameter that is not there, that is no number or time
  Numbers,      \* page numbers that are asked for
  Sizes,        \* page sizes that are asked for
  DefaultSize, LargestSize,   \* 20 and 200 in the code
  Panic,        \* what a slice expression out of range gives
  Limit         \* an int is in -Limit .. Limit - 1

Words == AllowedStatuses \cup Others \cup Groups \cup Users \cup Tags \cup {Nil}

\* The body of a POST may give any words: a request is stored before its
\* group is looked up, and nobody looks up its assignee.
Request == [status: AllowedStatuses \cup Others, group: Groups \cup {Nil},
            assignee: Users \cup {Nil}, priority: 1 .. 5,
            created: Nat \ {0}, tags: Seq(Tags \cup {Nil})]

Question == [status: Words, group: Words, assignee: Words, tag: Words,
             priority: Int \cup {Absent, Bad},
             from: Nat \cup {Absent, Bad}, to: Nat \cup {Absent, Bad}]

\* A list in memory has a length that is an int.
ASSUME QueryAssumption ==
  /\ Requests \subseteq Request
  /\ Questions \subseteq Question
  /\ Trim \in [Words -> Words] /\ Trim[Nil] = Nil
  /\ Numbers \cup Sizes \subseteq Int
  /\ {DefaultSize, LargestSize, Limit} \subseteq Nat \ {0}
  /\ IsFiniteSet(Ids) /\ Cardinality(Ids) < Limit
  /\ Nil \notin AllowedStatuses \cup Others \cup Groups \cup Users \cup Tags
  /\ Panic \notin Seq(Ids)
  /\ Absent # Bad /\ Absent \notin Int /\ Bad \notin Int

VARIABLE bucket     \* bucket service_requests

vars == <<bucket>>

TypeOK == bucket \in [Ids -> Requests \cup {Nil}]

Init == bucket = [id \in Ids |-> Nil]

-----------------------------------------------------------------------------
\* The writers, whatever route they come from.

PutRequest(id, value) == bucket' = [bucket EXCEPT ![id] = value]

\* The status, the group and the assignee are those of the new value.
UpdateRequestStatus(id, value) ==
  /\ bucket[id] # Nil
  /\ CanTransition(bucket[id].status, value.status)
  /\ value = [bucket[id] EXCEPT !.status = value.status, !.group = value.group,
                                !.assignee = value.assignee]
  /\ bucket' = [bucket EXCEPT ![id] = value]

DeleteRequest(id) == bucket' = [bucket EXCEPT ![id] = Nil]

Next ==
  \E id \in Ids :
    \/ \E value \in Requests :
         PutRequest(id, value) \/ UpdateRequestStatus(id, value)
    \/ DeleteRequest(id)

Spec == Init /\ [][Next]_vars

-----------------------------------------------------------------------------
\* Listing and filtering.

Stored == {id \in Ids : bucket[id] # Nil}

Earlier(i, j) == bucket[i].created < bucket[j].created

Later(i, j) == Earlier(j, i)

\* sort.Slice is free to leave requests of one moment in any order.
ListRequests ==
  {list \in [1 .. Cardinality(Stored) -> Stored] :
     IsInjective(list) /\ Sorted(list, Earlier)}

Select(list, chosen) == Chosen(list, {i \in DOMAIN list : list[i] \in chosen})

RequestsForGroup(list, g) == Select(list, {id \in Stored : bucket[id].group = g})

RequestsForAssignee(list, a) ==
  Select(list, {id \in Stored : bucket[id].assignee = a})

OpenOnly(list) == Select(list, {id \in Stored : IsOpen(bucket[id].status)})

TerminalOnly(list) == Select(list, {id \in Stored : IsTerminal(bucket[id].status)})

ExcludeGroup(list, g) == Select(list, {id \in Stored : bucket[id].group # g})

\* Mutant of Within: the end of a period does not belong to it.
WithinHalfOpen(moment, from, to) ==
  (from # 0 => moment >= from) /\ (to # 0 => moment < to)

Within(moment, from, to) ==
  (from # 0 => moment >= from) /\ (to # 0 => moment <= to)

\* report.TimeRange tests the two ends in the way of filter.Match.
TimeRange(list, from, to) ==
  Select(list, {id \in Stored : /\ from # 0 => bucket[id].created >= from
                                /\ to # 0 => bucket[id].created <= to})

Everything == [status |-> Nil, group |-> Nil, assignee |-> Nil, tag |-> Nil,
               priority |-> 0, from |-> 0, to |-> 0]

Window(from, to) == [Everything EXCEPT !.from = from, !.to = to]

Match(id, query) ==
  LET r == bucket[id]
  IN /\ query.status \in {Nil, r.status}
     /\ query.group \in {Nil, r.group}
     /\ query.assignee \in {Nil, r.assignee}
     /\ query.priority > 0 => r.priority = query.priority
     /\ Within(r.created, query.from, query.to)
     /\ query.tag # Nil => query.tag \in Range(r.tags)

\* Mutant of Urgent: the less urgent requests come first.
LessUrgent(i, j) ==
  \/ bucket[i].priority < bucket[j].priority
  \/ bucket[i].priority = bucket[j].priority /\ Earlier(i, j)

Urgent(i, j) ==
  \/ bucket[i].priority > bucket[j].priority
  \/ bucket[i].priority = bucket[j].priority /\ Earlier(i, j)

Apply(list, query) ==
  StableSort(Select(list, {id \in Stored : Match(id, query)}), Urgent)

\* service.SortForManager
SortForManager(list, newestFirst) ==
  IF newestFirst THEN StableSort(list, Later) ELSE StableSort(list, Earlier)

-----------------------------------------------------------------------------
\* From the parameters of a URL to a query.

Value(parameter, none) == IF parameter \in {Absent, Bad} THEN none ELSE parameter

\* httpapi.parseFilter, which the routes use: it takes the words as they are
\* and drops what it cannot read.
ParseFilter(question) ==
  LET priority == Value(question.priority, 0)
  IN [status |-> question.status, group |-> question.group,
      assignee |-> question.assignee, tag |-> question.tag,
      priority |-> IF priority > 0 THEN priority ELSE 0,
      from |-> Value(question.from, 0), to |-> Value(question.to, 0)]

\* Mutant of Refused: a period of one moment is refused.
RefusedMoment(question) ==
  \/ Bad \in {question.priority, question.from, question.to}
  \/ question.priority # Absent /\ question.priority \notin 1 .. 5
  \/ LET from == Value(question.from, 0) to == Value(question.to, 0)
     IN from # 0 /\ to # 0 /\ from >= to

\* filter.Parse, which nothing calls, refuses what is out of range ...
Refused(question) ==
  \/ Bad \in {question.priority, question.from, question.to}
  \/ question.priority # Absent /\ question.priority \notin 1 .. 5
  \/ LET from == Value(question.from, 0) to == Value(question.to, 0)
     IN from # 0 /\ to # 0 /\ from > to

\* ... and cuts the blanks around a word.
Parse(question) ==
  [status |-> Trim[question.status], group |-> Trim[question.group],
   assignee |-> Trim[question.assignee], tag |-> Trim[question.tag],
   priority |-> Value(question.priority, 0),
   from |-> Value(question.from, 0), to |-> Value(question.to, 0)]

-----------------------------------------------------------------------------
\* filter.Paginate, in the arithmetic of an int.

Wrap(n) == ((n + Limit) % (2 * Limit)) - Limit

PageNumber(number) == IF number < 1 THEN 1 ELSE number

PageSize(size) ==
  IF size < 1 THEN DefaultSize ELSE IF size > LargestSize THEN LargestSize ELSE size

\* Mutant of Start: pages are counted from 0.
StartFromZero(number, size) == Wrap(number * size)

Start(number, size) == Wrap((number - 1) * size)

Paginate(list, number, size) ==
  LET start == Start(PageNumber(number), PageSize(size))
      end == IF start + PageSize(size) > Len(list) THEN Len(list)
                                                  ELSE start + PageSize(size)
  IN IF start >= Len(list) THEN << >>
     ELSE IF start < 0 THEN Panic ELSE SubSeq(list, start + 1, end)

-----------------------------------------------------------------------------
\* Counting.

Count(list) == Cardinality(DOMAIN list)

\* The sum of the values of a function.
Total(f) == Cardinality(UNION {{x} \X (1 .. f[x]) : x \in DOMAIN f})

StatusCount(list) ==
  [s \in {bucket[id].status : id \in Range(list)} |->
     Count(Select(list, {id \in Stored : bucket[id].status = s}))]

UniqueGroups(list) == {bucket[id].group : id \in Range(list)} \ {Nil}

\* Every spelling of a tag counts, so a request may count twice.
BuildFacets(list) ==
  [status |-> StatusCount(list),
   groups |-> [g \in UniqueGroups(list) |-> Len(RequestsForGroup(list, g))],
   agents |-> [a \in {bucket[id].assignee : id \in Range(list)} \ {Nil} |->
                 Len(RequestsForAssignee(list, a))],
   tags |-> [t \in UNION {Range(bucket[id].tags) : id \in Range(list)} |->
               Total([id \in Range(list) |->
                        Cardinality({k \in DOMAIN bucket[id].tags :
                                       bucket[id].tags[k] = t})])]]

\* The oldest is the first of those of the earliest moment.
BuildDashboard(list) ==
  [total |-> Len(list),
   open |-> Len(OpenOnly(list)),
   byStatus |-> StatusCount(list),
   byGroup |-> [g \in {bucket[id].group : id \in Range(list)} |->
                  Len(RequestsForGroup(list, g))],
   priorities |-> Total([id \in Range(list) |-> bucket[id].priority]),
   oldest |-> IF list = << >> THEN Nil
              ELSE list[Min({i \in DOMAIN list :
                     \A j \in DOMAIN list : ~Earlier(list[j], list[i])})]]

-----------------------------------------------------------------------------

\* The query that keeps one field of another.
Alone(query, field) == [Everything EXCEPT ![field] = query[field]]

\* However requests of one moment are listed, a query with several fields
\* finds what the queries with one of them find together, in one order, the
\* urgent ones first; and the two ways to ask for a group, for an agent and
\* for a period, with both its ends, find the same.
ListingsAgree ==
  \A list \in ListRequests :
    /\ \A question \in Questions :
         LET query == ParseFilter(question)
             found == Apply(list, query)
             asked == {field \in DOMAIN query : query[field] # Everything[field]}
             alone == [field \in asked |-> Range(Apply(list, Alone(query, field)))]
         IN /\ Range(found) = {id \in Stored : \A field \in asked : id \in alone[field]}
            /\ \A i, j \in DOMAIN found : i < j =>
                 bucket[found[i]].priority >= bucket[found[j]].priority
            /\ Range(Apply(list, Window(query.from, query.to)))
                 = Range(TimeRange(list, query.from, query.to))
    /\ \A g \in Groups :
         /\ Range(Apply(list, [Everything EXCEPT !.group = g]))
              = Range(RequestsForGroup(list, g))
         /\ Len(ExcludeGroup(list, g)) + Len(RequestsForGroup(list, g)) = Len(list)
    /\ \A a \in Users : Range(Apply(list, [Everything EXCEPT !.assignee = a]))
                          = Range(RequestsForAssignee(list, a))

\* The parameters that the routes drop although they are there.
Unread(question) ==
  {field \in {"priority", "from", "to"} :
     \/ question[field] = Bad
     \/ field = "priority" /\ question[field] # Absent /\ question[field] < 1}

\* Of the two parsers of a query the routes use the laxer one.  What
\* filter.Parse accepts they read alike, but for blanks: a word of nothing
\* else asks for nothing there and for itself here, so that the routes find
\* less, and a status, a group or an assignee with blanks around it finds none
\* of what it finds there.
\* Of what filter.Parse refuses, a priority out of range and a period the
\* wrong way round find nothing; what the routes drop widens the answer, to
\* all that any value in its place finds.
ParsersAgree ==
  \A question \in Questions, list \in ListRequests :
    LET Found(query) == Range(Apply(list, query))
        routed == Found(ParseFilter(question))
        words == {"status", "group", "assignee", "tag"}
        cut == {field \in words : Trim[question[field]] # question[field]}
        emptied == {field \in cut : Trim[question[field]] = Nil}
    IN /\ ~Refused(question) =>
            /\ cut = {} => Parse(question) = ParseFilter(question)
            /\ cut = emptied => routed \subseteq Found(Parse(question))
            /\ cut \ emptied \subseteq {"tag"} \/ routed \cap Found(Parse(question)) = {}
       /\ Refused(question) /\ Unread(question) = {} => routed = {}
       /\ \A field \in Unread(question), other \in Questions :
            other = [question EXCEPT ![field] = other[field]] =>
              Found(ParseFilter(other)) \subseteq routed

\* The pages of a list hold every request of it once, in its order, as long
\* as the offset of a page fits into an int.  Beyond that a page may hold the
\* requests of another one, or the call panics.
PagesPartition ==
  \A list \in ListRequests, size \in Sizes :
    LET fitting == {n \in 1 .. Limit : (n - 1) * PageSize(size) < Limit}
        page == [n \in fitting |-> Paginate(list, n, size)]
        places == {p \in fitting \X (1 .. PageSize(size)) :
                     p[2] \in DOMAIN page[p[1]]}
    IN /\ \A n \in fitting : page[n] # Panic /\ Len(page[n]) <= PageSize(size)
       /\ \A i \in DOMAIN list :
            Cardinality({p \in places : page[p[1]][p[2]] = list[i]}) = 1
       /\ \A p, q \in places : p[1] < q[1] =>
            ~Earlier(page[q[1]][q[2]], page[p[1]][p[2]])
       /\ \A number \in Numbers : number < 1 => Paginate(list, number, size) = page[1]

\* The reports add up: the dashboard, the facets and the filtered lists count
\* the same requests, and the oldest of a dashboard is the first of the list
\* sorted for the manager.  A tag may count more often than it is found.
CountsAgree ==
  \A list \in ListRequests :
    LET all == BuildDashboard(list)
        facets == BuildFacets(list)
    IN /\ all.total = all.open + Len(TerminalOnly(list))
             + Len(Select(list, {id \in Stored :
                                   bucket[id].status \notin AllowedStatuses}))
       /\ \A g \in UniqueGroups(list) : all.byGroup[g] = facets.groups[g]
       /\ \A s \in DOMAIN facets.status :
            facets.status[s] = Len(Apply(list, [Everything EXCEPT !.status = s]))
       /\ \A t \in DOMAIN facets.tags \ {Nil} :
            facets.tags[t] >= Len(Apply(list, [Everything EXCEPT !.tag = t]))
       /\ all.priorities \in all.total .. 5 * all.total
       /\ list # << >> =>
            /\ all.oldest = Head(SortForManager(list, FALSE))
            /\ ~Earlier(all.oldest, SortForManager(list, TRUE)[Len(list)])
=============================================================================
