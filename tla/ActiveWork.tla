----------------------------- MODULE ActiveWork -----------------------------
(***************************************************************************)
(* The "active work" list of the desktop's sidebar: at most five entries   *)
(* chosen from the workspace's issues and from its test runs grouped by    *)
(* plan (apps/desktop/src/renderer/src/main.tsx).  The lists come from     *)
(* queries that are read again as other users change issues and runs; the  *)
(* selection is a pure function of the last answers.                       *)
(***************************************************************************)
EXTENDS Naturals, Sequences, FiniteSets, SequencesExt, FiniteSetsExt

CONSTANTS
  Issues,       \* naturals: identity and age of an issue (greater: touched later)
  Runs,         \* naturals, disjoint from Issues: the same for a test run
  IssueKinds,   \* what distinguishes an issue here, a subset of AllIssueKinds
  RunStatuses,  \* a subset of AllRunStatuses
  Plans,        \* the plans the plans query returned
  LostPlan      \* a plan the query did not return

AllIssueKinds == {"closed", "review", "unread", "sessions", "children", "idle"}
AllRunStatuses == {"queued", "setup_running", "running", "needs_acceptance", "blocked",
                   "setup_failed", "passed", "failed", "cancelled"}

\* What the constants must satisfy.
InputsAssumption ==
  /\ Issues \subseteq Nat /\ Runs \subseteq Nat /\ Issues \cap Runs = {}
  /\ IssueKinds \subseteq AllIssueKinds /\ RunStatuses \subseteq AllRunStatuses
  /\ LostPlan \notin Plans

VARIABLES issue, run
vars == <<issue, run>>

TypeOK == /\ issue \in [Issues -> IssueKinds]
          /\ run \in [Runs -> [status: RunStatuses, plan: Plans \cup {LostPlan}]]

Init == TypeOK

(* Another member, a worker or the tester moves an issue or a run.         *)
ChangeIssue(i) == \E k \in IssueKinds \ {issue[i]}: issue' = [issue EXCEPT ![i] = k] /\ UNCHANGED run
ChangeRun(r) == \E s \in RunStatuses \ {run[r].status}: run' = [run EXCEPT ![r].status = s] /\ UNCHANGED issue

Next == (\E i \in Issues: ChangeIssue(i)) \/ (\E r \in Runs: ChangeRun(r))
Spec == Init /\ [][Next]_vars

-----------------------------------------------------------------------------
StatusPriority(s) ==
  CASE s = "needs_acceptance" -> 100
    [] s = "blocked" -> 95
    [] s = "setup_failed" -> 90
    [] s \in {"running", "setup_running"} -> 70
    [] s = "queued" -> 50
    [] OTHER -> 0

ActiveStatuses == {"queued", "setup_running", "running", "needs_acceptance", "blocked"}

IssuePriority(k) == CASE k = "review" -> 90 [] k = "unread" -> 85 [] k = "sessions" -> 75
                      [] k = "children" -> 70 [] OTHER -> 40

ActiveIssues == {i \in Issues: issue[i] # "closed"}
ActiveRuns == {r \in Runs: run[r].status \in ActiveStatuses}

IssueItem(i) == [kind |-> "issue", members |-> {i}, link |-> i,
                 priority |-> IssuePriority(issue[i]), at |-> i]

(* Runs of one known plan form one group, any other run its own.           *)
GroupOf_EveryPlan(r) == {q \in ActiveRuns: run[q].plan = run[r].plan}
GroupOf(r) == IF run[r].plan \in Plans THEN {q \in ActiveRuns: run[q].plan = run[r].plan} ELSE {r}

Ahead(p, a, q, b) == p > q \/ (p = q /\ a > b)

BestRun(group) ==
  CHOOSE r \in group: \A q \in group \ {r}:
     Ahead(StatusPriority(run[r].status), r, StatusPriority(run[q].status), q)

RunItem(group) == [kind |-> "test-run", members |-> group, link |-> BestRun(group),
                   priority |-> StatusPriority(run[BestRun(group)].status), at |-> Max(group)]

Before(x, y) == Ahead(x.priority, x.at, y.priority, y.at)

IssueItems == {IssueItem(i): i \in ActiveIssues}
RunItems == {RunItem(GroupOf(r)): r \in ActiveRuns}

(* Of equal priorities the later goes first; no two entries are equal.     *)
InOrder(S) == [k \in 1 .. Cardinality(S) |-> CHOOSE x \in S: Cardinality({y \in S: Before(y, x)}) = k - 1]

Least(a, b) == IF a < b THEN a ELSE b

(* The first of each kind, then whatever is most urgent up to five.        *)
Take(s, n) == SubSeq(s, 1, Least(Len(s), n))
Filled_Priority(first, rest) == ToSet(Take(InOrder(first \cup rest), 5))
Filled(first, rest) == first \cup ToSet(Take(InOrder(rest), 5 - Cardinality(first)))
Select(issues, tests) ==
  LET first == ToSet(Take(InOrder(issues), 3)) \cup ToSet(Take(InOrder(tests), 2))
  IN  InOrder(Filled(first, (issues \cup tests) \ first))

Shown == Select(IssueItems, RunItems)

-----------------------------------------------------------------------------
(* What the sidebar promises, stated without the selection's two passes:   *)
(* no place stays free while there is work, issues keep three of the five  *)
(* places and tests two unless the other kind has too little to fill its   *)
(* own, within a kind nothing hidden is more urgent than what is shown,    *)
(* and the entries are in order of urgency.                                *)
SharedFairly ==
  LET shown == ToSet(Shown)  i == IssueItems \cap shown  t == RunItems \cap shown
      nI == Cardinality(IssueItems)  nT == Cardinality(RunItems)
  IN  /\ Cardinality(i) = Least(nI, 5 - Least(2, nT))
      /\ Cardinality(t) = Least(nT, 5 - Least(3, nI))
      /\ Len(Shown) = Cardinality(i) + Cardinality(t)
      /\ \A x \in shown, y \in (IssueItems \cup RunItems) \ shown: x.kind = y.kind => Before(x, y)
      /\ \A a, b \in 1 .. Len(Shown): a < b => Before(Shown[a], Shown[b])

(* Every active run stands behind exactly one entry, a plan has one entry  *)
(* however many runs of it are active, runs whose plan was not read stay   *)
(* apart, and the entry opens a run that nothing in the entry outranks.    *)
EntriesCoverRuns ==
  /\ \A r \in ActiveRuns: Cardinality({x \in RunItems: r \in x.members}) = 1
  /\ \A x, y \in RunItems: x # y => run[x.link].plan # run[y.link].plan \/ run[x.link].plan = LostPlan
  /\ \A x \in RunItems: /\ \A q \in x.members: StatusPriority(run[q].status) <= x.priority
                        /\ run[x.link].plan = LostPlan => x.members = {x.link}
=============================================================================
