--------------------------- MODULE RoutingPolicy ---------------------------
(***************************************************************************)
(* The routing policy: internal/routing/policy.go.  A policy is an ordered *)
(* list of rules and a fallback group; the first rule that matches a       *)
(* request decides.  Its methods take no lock: one caller at a time.       *)
(*                                                                         *)
(* A rule id is a number, in the order of the strings it stands for, and 0 *)
(* is a blank one.  The constant NoGroup is a blank group, Anyone a rule's *)
(* empty customer.  Customers are compared without case, tags without case *)
(* and outer spaces: a model value stands for all the spellings that are   *)
(* equal to the code.                                                      *)
(***************************************************************************)
EXTENDS FiniteSetsExt, Sorting

CONSTANTS
  RuleIds,     \* the ids of rules, 0 among them
  Groups,      \* ids of groups
  NoGroup,     \* the blank group id
  Customers,   \* customers of requests
  Anyone,      \* the customer of a rule for all of them
  Tags,        \* tags of rules and requests
  Offers,      \* the rules that callers hand in, valid or not
  Requests,    \* the requests that are routed
  MaxMerged    \* bound on the overrides merged before the last one

Rule ==
  [id: RuleIds, group: Groups \cup {NoGroup}, customer: Customers \cup {Anyone},
   tags: SUBSET Tags, min: Int, max: Int, start: Int, end: Int,
   enabled: BOOLEAN, order: Int]

Request == [customer: Customers, priority: 1 .. 5, tags: SUBSET Tags]

Hours == 0 .. 23

ASSUME PolicyAssumption ==
  /\ RuleIds \subseteq Nat
  /\ Offers \subseteq Rule
  /\ Requests \subseteq Request
  /\ NoGroup \notin Groups /\ Anyone \notin Customers
  /\ MaxMerged \in Nat

VARIABLES
  rules,      \* Policy.rules
  fallback    \* Policy.fallback

vars == <<rules, fallback>>

TypeOK ==
  /\ rules \in Seq(Rule)
  /\ fallback \in Groups

-----------------------------------------------------------------------------
\* Rule.Validate and Rule.Match.

\* 0 for either end of the priorities means that it is open.
Validate(r) ==
  /\ r.id # 0 /\ r.group # NoGroup
  /\ r.min \in 0 .. 5 /\ r.max \in 0 .. 5
  /\ r.min > 0 /\ r.max > 0 => r.min <= r.max
  /\ r.start \in Hours /\ r.end \in 0 .. 24

\* Mutant of InHours: both overnight comparisons must hold.
NeverOvernight(r, hour) ==
  \/ r.start = r.end
  \/ r.start < r.end /\ hour >= r.start /\ hour < r.end
  \/ r.start > r.end /\ hour >= r.start /\ hour < r.end

\* No hours at all, the same hour twice: always.
InHours(r, hour) ==
  \/ r.start = r.end
  \/ r.start < r.end /\ hour >= r.start /\ hour < r.end
  \/ r.start > r.end /\ (hour >= r.start \/ hour < r.end)

Match(r, request, hour) ==
  /\ r.enabled
  /\ r.customer \in {Anyone, request.customer}
  /\ r.min > 0 => request.priority >= r.min
  /\ r.max > 0 => request.priority <= r.max
  /\ InHours(r, hour)
  /\ r.tags \subseteq request.tags

\* Mutant of FirstMatch: the last rule that matches decides.
LastMatch(list, request, hour) ==
  LET matching == {i \in DOMAIN list : Match(list[i], request, hour)}
  IN IF matching = {} THEN 0
     ELSE Max(matching)

\* The place of the rule that decides, 0 if there is none.
FirstMatch(list, request, hour) ==
  LET matching == {i \in DOMAIN list : Match(list[i], request, hour)}
  IN IF matching = {} THEN 0
     ELSE Min(matching)

Decide(list, other, request, hour) ==
  LET i == FirstMatch(list, request, hour)
  IN IF i = 0 THEN [group |-> other, rule |-> 0, matched |-> FALSE]
              ELSE [group |-> list[i].group, rule |-> list[i].id, matched |-> TRUE]

-----------------------------------------------------------------------------
\* The two orders the code sorts by, both with sort.SliceStable.

ByOrder(r, s) == r.order < s.order

ByOrderAndId(r, s) == r.order < s.order \/ (r.order = s.order /\ r.id < s.id)

Distinct(list) == \A i, j \in DOMAIN list : list[i].id = list[j].id => i = j

\* What NewPolicy makes of a list it accepts.
Accepted(list) == Distinct(list) /\ \A i \in DOMAIN list : Validate(list[i])

Ordered(list) == StableSort(list, ByOrderAndId)

\* The places of the rule that has an id.
Places(list, id) == {i \in DOMAIN list : list[i].id = id}

\* Mutant of WithRule: the rule moves to the end before the list is sorted.
WithRuleLast(list, r) ==
  Append(SelectSeq(list, LAMBDA s : s.id # r.id), r)

\* Policy.Replace before it sorts: the rule takes the place of the first one
\* with its id, or the last.
WithRule(list, r) ==
  IF Places(list, r.id) = {} THEN Append(list, r)
  ELSE [list EXCEPT ![Min(Places(list, r.id))] = r]

\* Mutant of Resort: a replaced rule keeps its place whatever its order.
NoSort(list) == list

\* Ties stay as they are: unlike NewPolicy, Replace does not look at ids.
Resort(list) == StableSort(list, ByOrder)

\* Mutant of Merged: the base wins.
BaseWins(base, overrides) ==
  LET kept == {base[i] : i \in DOMAIN base}
      added == {overrides[i] : i \in DOMAIN overrides}
      merged == kept \cup {r \in added : \A s \in kept : s.id # r.id}
  IN CHOOSE list \in [1 .. Cardinality(merged) -> merged] :
       \A i, j \in DOMAIN list : i < j => ByOrderAndId(list[i], list[j])

\* Of two overrides with one id the later counts ...
LastOf(overrides) ==
  {overrides[i] : i \in {j \in DOMAIN overrides :
     \A k \in DOMAIN overrides : k > j => overrides[k].id # overrides[j].id}}

\* ... and it counts for the rule of the base.
Overridden(base, overrides) ==
  LastOf(overrides)
    \cup {r \in Range(base) : \A s \in LastOf(overrides) : s.id # r.id}

\* MergeRules: a map by id, then sorted by order and id, so that the order
\* in which Go iterates over the map leaves no trace.
Merged(base, overrides) ==
  LET merged == Overridden(base, overrides)
  IN CHOOSE list \in [1 .. Cardinality(merged) -> merged] :
       \A i, j \in DOMAIN list : i < j => ByOrderAndId(list[i], list[j])

-----------------------------------------------------------------------------
\* The methods.  A policy is built from rules that callers offer.

Init ==
  /\ \E r, s \in Offers : Accepted(<<r, s>>) /\ rules = Ordered(<<r, s>>)
  /\ fallback \in Groups

Replace(r) ==
  /\ Validate(r)
  /\ rules' = Resort(WithRule(rules, r))
  /\ UNCHANGED fallback

Remove(id) ==
  /\ Places(rules, id) # {}
  /\ LET i == Min(Places(rules, id))
     IN rules' = SubSeq(rules, 1, i - 1) \o SubSeq(rules, i + 1, Len(rules))
  /\ UNCHANGED fallback

SetFallback(group) ==
  /\ group # NoGroup
  /\ fallback' = group
  /\ UNCHANGED rules

\* A policy is rebuilt from its own rules: NewPolicy(policy.Rules(), ...).
Rebuild ==
  /\ Accepted(rules)
  /\ rules' = Ordered(rules)
  /\ UNCHANGED fallback

Next ==
  \/ \E r \in Offers : Replace(r)
  \/ \E id \in RuleIds : Remove(id)
  \/ \E group \in Groups \cup {NoGroup} : SetFallback(group)
  \/ Rebuild

Spec == Init /\ [][Next]_vars

-----------------------------------------------------------------------------
\* ValidateGroups looks at a policy from outside.

\* Mutant of ValidateGroups: the fallback is not looked at.
ValidateRulesOnly(active) ==
  \A i \in DOMAIN rules : rules[i].enabled => rules[i].group \in active

ValidateGroups(active) ==
  /\ fallback \in active
  /\ \A i \in DOMAIN rules : rules[i].enabled => rules[i].group \in active

-----------------------------------------------------------------------------

\* However the policy was changed, its rules are valid, their ids differ and
\* their orders ascend.
PolicyOK ==
  /\ TypeOK
  /\ Accepted(rules)
  /\ \A i, j \in DOMAIN rules : i < j => rules[i].order <= rules[j].order

\* A decision is the best there is: no rule of a lower order matches the
\* request, and the fallback is taken only if no rule matches at all.
DecisionIsBest ==
  \A request \in Requests, hour \in Hours :
    LET decision == Decide(rules, fallback, request, hour)
        matching == {i \in DOMAIN rules : Match(rules[i], request, hour)}
    IN /\ decision.matched <=> matching # {}
       /\ ~decision.matched => decision.group = fallback
       /\ decision.matched =>
            \E i \in matching :
              /\ rules[i].id = decision.rule /\ rules[i].group = decision.group
              /\ \A j \in matching : rules[i].order <= rules[j].order

\* The hours of a rule are an arc of the clock: they begin at its start and
\* last until its end, over midnight if need be, and all day if the two are
\* the same hour or 0 and 24.
HoursAreAnArc ==
  \A i \in DOMAIN rules :
    LET r == rules[i]
        length == (r.end - r.start) % 24
    IN {hour \in Hours : InHours(r, hour)} =
         IF length = 0 THEN Hours
         ELSE {(r.start + k) % 24 : k \in 0 .. length - 1}

\* A policy that passed ValidateGroups routes every request to a group that
\* was active then.
ValidatedPolicyServes ==
  \A active \in SUBSET Groups :
    ValidateGroups(active) =>
      \A request \in Requests, hour \in Hours :
        Decide(rules, fallback, request, hour).group \in active

Overrides ==
  UNION {[1 .. n -> {r \in Offers : Validate(r)}] : n \in 0 .. MaxMerged}

\* MergeRules and Replace are two ways to the same policy.  Without overrides
\* merging builds the policy anew; one more override, whatever was merged
\* before it and whether or not its id or its order is there already, does
\* what replacing that rule in the merged policy does, ties included once the
\* policy is built anew.
MergeIsReplace ==
  /\ Merged(rules, << >>) = Ordered(rules)
  /\ \A overrides \in Overrides, r \in Offers :
       Validate(r) =>
         Merged(rules, Append(overrides, r))
           = Ordered(Resort(WithRule(Merged(rules, overrides), r)))

\* The rules but the one with an id, in their order.
Others(list, id) == Chosen(list, {i \in DOMAIN list : list[i].id # id})

\* What a list is sorted by.
Orders(list) == [i \in DOMAIN list |-> <<list[i].id, list[i].order>>]

\* A step that changes one rule.
ChangesOne ==
  \E id \in RuleIds :
    /\ Others(rules', id) = Others(rules, id)
    /\ \A i \in DOMAIN rules, j \in DOMAIN rules' :
         /\ rules[i].id = id
         /\ rules'[j].id = id
         /\ rules[i].order = rules'[j].order
         => Orders(rules') = Orders(rules)

\* A change of one rule does not reorder the others, ties among them
\* included, and a rule replaced by one of the same order keeps its place.
\* Only a policy that is built anew orders its ties by id.
OthersKeepOrder == [][ChangesOne \/ rules' = Ordered(rules)]_rules
============================================================================
