----------------------------- MODULE TestCatalog -----------------------------
(***************************************************************************)
(* The catalog of test cases (TestsPage of packages/views/src/             *)
(* tests-page.tsx) over the server's test cases, case suggestions and test *)
(* plans.  The page shows one project; its lists are cached by project,    *)
(* filter and page number; a list that is shown may be fetched again at any *)
(* time (shown again, the window focused, invalidated after a change).     *)
(* Requests are answered in any order, also after the page shows another   *)
(* project.  A second user works on the same catalog.                      *)
(*                                                                         *)
(* A query that has no answer yet is an empty list: the query client keeps *)
(* no data of another key.  An effect of React runs in the step that       *)
(* changed what it depends on.                                             *)
(***************************************************************************)
EXTENDS Naturals, Sequences, FiniteSets, SequencesExt

CONSTANTS
  Projects, Cases, None,
  Owner,        \* the project of each case
  Stored,       \* the cases that exist at first, ready
  PageLength,   \* testCasePageSize
  ReadLimit,    \* testCaseAuxiliaryLimit
  Does,         \* bound: the operations the users carry out
  MaxChanges,   \* bound: revisions of a case
  MaxRequests,  \* bound: requests the page sends
  MaxPlans      \* bound: plans and runs

\* What the constants must satisfy.
CatalogAssumption ==
  /\ Owner \in [Cases -> Projects] /\ Stored \subseteq Cases /\ None \notin Projects \cup Cases
  /\ {PageLength, ReadLimit, MaxRequests} \subseteq Nat \ {0} /\ {MaxChanges, MaxPlans} \subseteq Nat

VARIABLES
  status, changes,            \* of each case: its status and the revisions after its creation
  recent,                     \* the cases, the last updated first
  proposals,                  \* suggestions: the case, what is proposed, its state
  sessions,                   \* the optimize sessions: project and cases
  plans, runs,                \* each plan's cases; each run's plan
  runOrder,                   \* the runs as listed, the last updated first
  tab, search, visited,       \* the address: its tab, its project, the projects gone through
  selected, selection, filter, casePage,
  lists, all,                 \* the answers that are cached
  left,                       \* pages that were left before they were read
  sent, inFlight              \* requests sent, and those not answered

server == <<status, changes, recent, proposals, sessions, plans, runs, runOrder>>
page == <<tab, search, visited, selected, selection, filter, casePage>>
cache == <<lists, all, left>>
vars == <<server, page, cache, sent, inFlight>>

Statuses == {"absent", "draft", "ready", "archived"}
Filters == {"all", "ready", "archived"}
Tabs == {"cases", "proposals", "plans", "runs"}
Keys == [project: Projects, filter: Filters, page: 0 .. Cardinality(Cases)]
Answers == [cases: Seq(Cases), ready: SUBSET Cases, total: Nat]
Requests == [id: 1 .. MaxRequests, op: STRING, project: Projects, cases: Seq(Cases), target: Nat]

TypeOK ==
  /\ status \in [Cases -> Statuses] /\ changes \in [Cases -> 0 .. MaxChanges]
  /\ recent \in Seq(Cases) /\ ToSet(recent) = {c \in Cases: status[c] # "absent"}
  /\ selected \in Projects /\ search \in Projects \cup {None} /\ visited \subseteq Projects
  /\ tab \in Tabs /\ filter \in Filters /\ casePage \in 0 .. Cardinality(Cases)
  /\ selection \in Seq(Cases) /\ IsInjective(selection)
  /\ \A k \in DOMAIN lists: k \in Keys /\ lists[k] \in Answers
  /\ inFlight \subseteq Requests /\ left \subseteq Keys
  /\ \A p \in DOMAIN plans: plans[p] \in Seq(Cases)
  /\ DOMAIN runs = ToSet(runOrder)

-----------------------------------------------------------------------------
(* The server's lists.                                                     *)
Included(c, p, f) == Owner[c] = p /\ IF f = "all" THEN status[c] # "archived" ELSE status[c] = f
Listed(p, f) == SelectSeq(recent, LAMBDA c: Included(c, p, f))
Slice(s, offset, limit) == SubSeq(s, offset + 1, IF offset + limit < Len(s) THEN offset + limit ELSE Len(s))
Answer(k) == LET found == Listed(k.project, k.filter)
                 shown == Slice(found, k.page * PageLength, PageLength)
             IN [cases |-> shown, ready |-> {c \in ToSet(shown): status[c] = "ready"}, total |-> Len(found)]
AllAnswer(p) == LET found == Listed(p, "all")
                    shown == Slice(found, 0, ReadLimit)
                IN [cases |-> shown, ready |-> {c \in ToSet(shown): status[c] = "ready"}, total |-> Len(found)]

Touch(c) == recent' = <<c>> \o SelectSeq(recent, LAMBDA d: d # c)

-----------------------------------------------------------------------------
(* What the page derives from the cached lists.                            *)
Nothing == [cases |-> <<>>, ready |-> {}, total |-> 0]
KeyOf(p, f, n) == [project |-> p, filter |-> f, page |-> n]
Key == KeyOf(selected, filter, casePage)
Cached(k) == IF k \in DOMAIN lists THEN lists[k] ELSE Nothing
CaseList == Cached(Key)
AllCases == IF selected \in DOMAIN all THEN all[selected] ELSE CaseList
ReadyCases == SelectSeq(AllCases.cases, LAMBDA c: c \in AllCases.ready)
ReadyIds == CaseList.ready \cup (AllCases.ready \ ToSet(CaseList.cases))

SelectedReady_Any == selection
SelectedReady == SelectSeq(selection, LAMBDA c: c \in ReadyIds)

Pages(answer) == LET n == (answer.total + PageLength - 1) \div PageLength IN IF n = 0 THEN 1 ELSE n
AllVisibleSelected == CaseList.cases # <<>> /\ ToSet(CaseList.cases) \subseteq ToSet(selection)
Pending(op) == \E r \in inFlight: r.op = op

(* The attempt number of a run: its place among the runs of its plan.      *)
(* Runs are numbered as they are created.                                  *)
AttemptNumber_Listed(r) ==
  Cardinality({i \in DOMAIN runOrder: runs[runOrder[i]] = runs[r] /\ \E j \in i .. Len(runOrder): runOrder[j] = r})
AttemptNumber(r) == Cardinality({q \in DOMAIN runs: runs[q] = runs[r] /\ q <= r})

-----------------------------------------------------------------------------
(* What each tab offers.                                                   *)
CasesToolbar ==
  {"import", "newCase", "filter"}
  \cup (IF selection # <<>> /\ ~Pending("optimize") THEN {"optimize"} ELSE {})
  \cup (IF SelectedReady # <<>> THEN {"newPlan"} ELSE {})
  \cup (IF CaseList.cases # <<>> /\ ~AllVisibleSelected THEN {"selectAll"} ELSE {})
  \cup (IF ReadyCases # <<>> THEN {"selectReady"} ELSE {})
  \cup (IF selection # <<>> THEN {"clear"} ELSE {})
  \cup (IF selection # <<>> /\ ~Pending("archive") THEN {"archive"} ELSE {})
CasesRows == IF CaseList.cases = <<>> THEN {}
             ELSE {"toggle"} \cup (IF AllVisibleSelected THEN {"unselectAll"} ELSE {"selectAll"})
                             \cup (IF Pending("archive") THEN {} ELSE {"archiveOne"})
Pagination == IF CaseList.total <= PageLength THEN {}
              ELSE (IF casePage > 0 THEN {"previous"} ELSE {})
                   \cup (IF casePage < Pages(CaseList) - 1 THEN {"next"} ELSE {})
ProposalsTab ==
  (IF selection # <<>> /\ ~Pending("optimize") THEN {"optimize"} ELSE {})
  \cup (IF ~Pending("generate") THEN {"generate"} ELSE {})
  \cup (IF ~Pending("reject") THEN {"reject"} ELSE {}) \cup (IF ~Pending("apply") THEN {"apply"} ELSE {})
PlansTab == {"newPlan"}
RunsTab == IF plans # <<>> /\ ~Pending("startRun") THEN {"startRun"} ELSE {}
PlanForm == {"toggle", "move"} \cup (IF ReadyCases # <<>> THEN {"selectReady"} ELSE {})
            \cup (IF SelectedReady # <<>> /\ ~Pending("createPlan") THEN {"createPlan"} ELSE {})
CaseForm == IF Pending("createCase") THEN {} ELSE {"createCase"}
Offered == CASE tab = "cases" -> CasesToolbar \cup CasesRows \cup Pagination \cup CaseForm \cup PlanForm
             [] tab = "proposals" -> ProposalsTab
             [] tab = "plans" -> PlansTab \cup PlanForm
             [] tab = "runs" -> RunsTab
Presses(op) == op \in Offered \cap Does

-----------------------------------------------------------------------------
(* Showing a project, a filter and a page: a page past the last one of the *)
(* list, as far as it is read, is corrected, and goes on being fetched.    *)
Clamped_Never(n, pages) == n
Clamped(n, pages) == IF n > 0 /\ n >= pages THEN pages - 1 ELSE n
Show(p, f, n) ==
  /\ selected' = p /\ filter' = f /\ casePage' = Clamped(n, Pages(Cached(KeyOf(p, f, n))))
  /\ left' = IF casePage' = n THEN left ELSE left \cup {KeyOf(p, f, n)}

Init ==
  /\ status = [c \in Cases |-> IF c \in Stored THEN "ready" ELSE "absent"]
  /\ changes = [c \in Cases |-> 0]
  /\ recent = SetToSeq(Stored)
  /\ proposals = <<>> /\ sessions = {} /\ plans = <<>> /\ runs = <<>> /\ runOrder = <<>>
  /\ tab = "cases" /\ selection = <<>> /\ filter = "all" /\ casePage = 0
  /\ selected \in Projects /\ search \in {None, selected} /\ visited = {selected}
  /\ lists = <<>> /\ all = <<>> /\ left = {}
  /\ sent = 0 /\ inFlight = {}

ChangeProject(p) ==
  /\ "project" \in Does /\ p # selected
  /\ selection' = <<>> /\ search' = p /\ visited' = visited \cup {p}
  /\ Show(p, filter, 0)
  /\ UNCHANGED <<server, tab, lists, all, sent, inFlight>>

(* The browser's back button and the links that name a project: the effect *)
(* that follows the address sets the project and nothing else.             *)
Back(p) ==
  /\ "back" \in Does /\ p \in visited /\ p # search
  /\ search' = p
  /\ Show(p, filter, IF p = selected THEN casePage ELSE 0)
  /\ UNCHANGED <<server, tab, visited, selection, lists, all, sent, inFlight>>

GoTab(t) ==
  /\ t \in Does /\ t # tab /\ tab' = t /\ search' = selected /\ visited' = visited \cup {selected}
  /\ UNCHANGED <<server, selected, selection, filter, casePage, cache, sent, inFlight>>

SetFilter(f) ==
  /\ Presses("filter") /\ f # filter /\ Show(selected, f, 0)
  /\ UNCHANGED <<server, tab, search, visited, selection, lists, all, sent, inFlight>>

GoPage(n) ==
  /\ \/ Presses("next") /\ n = casePage + 1
     \/ Presses("previous") /\ n + 1 = casePage
  /\ Show(selected, filter, n)
  /\ UNCHANGED <<server, tab, search, visited, selection, lists, all, sent, inFlight>>

ListAnswered(k) ==
  /\ lists' = [q \in DOMAIN lists \cup {k} |-> IF q = k THEN Answer(k) ELSE lists[q]]
  /\ casePage' = IF k = Key THEN Clamped(casePage, Pages(Answer(k))) ELSE casePage
  /\ left' = left \ {k}
  /\ UNCHANGED <<server, tab, search, visited, selected, selection, filter, all, sent, inFlight>>

AllAnswered ==
  /\ all' = [q \in DOMAIN all \cup {selected} |-> IF q = selected THEN AllAnswer(selected) ELSE all[q]]
  /\ UNCHANGED <<server, page, lists, left, sent, inFlight>>

-----------------------------------------------------------------------------
(* The selection.                                                          *)
Toggled_Append(c) == Append(selection, c)
Toggled(c) == IF c \in ToSet(selection) THEN SelectSeq(selection, LAMBDA d: d # c) ELSE Append(selection, c)
Swapped(s, i, j) == [s EXCEPT ![i] = s[j], ![j] = s[i]]
Moved(s, c) ==   \* up or down by one place
  {Swapped(s, i, j): <<i, j>> \in {<<i, j>> \in (DOMAIN s) \X (DOMAIN s): s[i] = c /\ (i = j + 1 \/ j = i + 1)}}
MoveReady(c) == {SelectSeq(selection, LAMBDA d: d \notin ReadyIds) \o moved: moved \in Moved(SelectedReady, c)}

Select ==
  /\ \/ \E c \in ToSet(CaseList.cases) \cup ToSet(ReadyCases): Presses("toggle") /\ selection' = Toggled(c)
     \/ Presses("selectReady") /\ selection' = ReadyCases
     \/ Presses("clear") /\ selection' = <<>>
     \/ /\ Presses("selectAll")
        /\ selection' = selection \o SelectSeq(CaseList.cases, LAMBDA c: c \notin ToSet(selection))
     \/ /\ Presses("unselectAll")
        /\ selection' = SelectSeq(selection, LAMBDA c: c \notin ToSet(CaseList.cases))
     \/ \E c \in ToSet(ReadyCases): Presses("move") /\ selection' \in MoveReady(c)
  /\ UNCHANGED <<server, tab, search, visited, selected, filter, casePage, cache, sent, inFlight>>

-----------------------------------------------------------------------------
(* Requests.  A request is served when it is answered; its project and its *)
(* cases are those of the moment it was sent.                              *)
Send(op, cases, target) ==
  /\ sent < MaxRequests /\ sent' = sent + 1
  /\ inFlight' = inFlight \cup {[id |-> sent + 1, op |-> op, project |-> selected, cases |-> cases, target |-> target]}
  /\ UNCHANGED <<server, page, cache>>

Request ==
  \/ Presses("archive") /\ Send("archive", selection, 0)
  \/ \E c \in ToSet(CaseList.cases): Presses("archiveOne") /\ Send("archive", <<c>>, 0)
  \/ Presses("createCase") /\ Send("createCase", <<>>, 0)
  \/ Presses("optimize") /\ Send("optimize", selection, 0)
  \/ Presses("generate") /\ Send("generate", <<>>, 0)
  \/ Presses("createPlan") /\ Send("createPlan", SelectedReady, 0)
  \/ \E i \in DOMAIN proposals: \E op \in {"apply", "reject"}:
       Presses(op) /\ Owner[proposals[i].case] = selected /\ Send(op, <<>>, i)
  \/ \E i \in DOMAIN plans: Presses("startRun") /\ Send("startRun", <<>>, i)

Revise(S, s) ==   \* each case of S gets a revision with status s
  /\ \A c \in S: changes[c] < MaxChanges
  /\ changes' = [c \in Cases |-> IF c \in S THEN changes[c] + 1 ELSE changes[c]]
  /\ status' = [c \in Cases |-> IF c \in S THEN s ELSE status[c]]
  /\ recent' = SetToSeq(S) \o SelectSeq(recent, LAMBDA c: c \notin S)

Refused(r) ==   \* the server refuses, or the request is lost
  /\ inFlight' = inFlight \ {r}
  /\ UNCHANGED <<server, page, cache, sent>>

OfProject_Any(cases, p) == \A i \in DOMAIN cases: status[cases[i]] # "absent"
OfProject(cases, p) == \A i \in DOMAIN cases: status[cases[i]] # "absent" /\ Owner[cases[i]] = p

Archived(r) ==
  /\ r.op = "archive" /\ OfProject(r.cases, r.project)
  /\ LET S == {c \in ToSet(r.cases): status[c] # "archived"} IN Revise(S, "archived")
  /\ selection' = SelectSeq(selection, LAMBDA c: c \notin ToSet(r.cases))
  /\ inFlight' = inFlight \ {r}
  /\ UNCHANGED <<proposals, sessions, plans, runs, runOrder, tab, search, visited, selected, filter, casePage, lists, all, left, sent>>

CaseCreated(r) ==
  /\ r.op = "createCase"
  /\ \E c \in Cases: /\ status[c] = "absent" /\ Owner[c] = r.project
                     /\ status' = [status EXCEPT ![c] = "draft"] /\ Touch(c)
                     /\ selection' = <<c>>
  /\ inFlight' = inFlight \ {r}
  /\ UNCHANGED <<changes, proposals, sessions, plans, runs, runOrder, tab, search, visited, selected, filter, casePage,
                 lists, all, left, sent>>

(* The answer shows the suggestions of the project the page is at.         *)
SessionQueued(r) ==
  /\ \/ r.op = "optimize" /\ OfProject(r.cases, r.project)
     \/ r.op = "generate"
  /\ sessions' = sessions \cup {[project |-> r.project, cases |-> ToSet(r.cases)]}
  /\ tab' = "proposals" /\ search' = selected /\ visited' = visited \cup {selected}
  /\ inFlight' = inFlight \ {r}
  /\ UNCHANGED <<status, changes, recent, proposals, plans, runs, runOrder, selected, selection, filter, casePage, lists, all, left, sent>>

(* A session's artifact becomes suggestions.                               *)
Suggest(s) ==
  /\ "suggest" \in Does
  /\ \E c \in Cases, what \in {"update", "archive"}:
       /\ Owner[c] = s.project /\ status[c] # "absent" /\ (s.cases # {} => c \in s.cases)
       /\ proposals' = Append(proposals, [case |-> c, what |-> what, state |-> "pending", after |-> 0])
  /\ sessions' = sessions \ {s}
  /\ UNCHANGED <<status, changes, recent, plans, runs, runOrder, page, cache, sent, inFlight>>

Decidable_Any(i) == proposals[i].state \in {"pending", "applied"}
Decidable(i) == proposals[i].state = "pending"

Decided(i, verdict) ==
  /\ Decidable(i)
  /\ IF verdict = "apply"
     THEN /\ Revise({proposals[i].case}, IF proposals[i].what = "archive" THEN "archived" ELSE "draft")
          /\ proposals' = [proposals EXCEPT ![i].state = "applied", ![i].after = @ + 1]
     ELSE proposals' = [proposals EXCEPT ![i].state = "rejected"] /\ UNCHANGED <<status, changes, recent>>
  /\ UNCHANGED <<sessions, plans, runs, runOrder>>

ProposalDecided(r) ==
  /\ r.op \in {"apply", "reject"} /\ Decided(r.target, r.op)
  /\ inFlight' = inFlight \ {r}
  /\ UNCHANGED <<page, lists, all, left, sent>>

(* The answer leaves for the plan's page; the catalog starts again when    *)
(* the user comes back.                                                    *)
Plannable(cases, p) == OfProject(cases, p) /\ \A i \in DOMAIN cases: status[cases[i]] = "ready"
PlanCreated(r) ==
  /\ r.op = "createPlan" /\ Len(plans) < MaxPlans /\ Plannable(r.cases, r.project)
  /\ plans' = Append(plans, r.cases)
  /\ tab' = "plans" /\ search' = selected /\ visited' = visited \cup {selected} /\ selection' = <<>>
  /\ inFlight' = inFlight \ {r}
  /\ selected' = selected /\ filter' = "all" /\ casePage' = 0
  /\ UNCHANGED <<status, changes, recent, proposals, sessions, runs, runOrder, lists, all, left, sent>>

RunStarted(r) ==
  /\ r.op = "startRun" /\ Len(runs) < MaxPlans
  /\ runs' = Append(runs, r.target) /\ runOrder' = <<Len(runs) + 1>> \o runOrder
  /\ inFlight' = inFlight \ {r}
  /\ UNCHANGED <<status, changes, recent, proposals, sessions, plans, page, lists, all, left, sent>>

RunReports(i) ==   \* an updated run is listed first
  /\ i > 1 /\ runOrder' = <<runOrder[i]>> \o SelectSeq(runOrder, LAMBDA q: q # runOrder[i])
  /\ UNCHANGED <<status, changes, recent, proposals, sessions, plans, runs, page, cache, sent, inFlight>>

(* The other user edits, archives and decides.                             *)
OtherUser ==
  /\ "other" \in Does
  /\ \/ \E c \in Cases: \E s \in {"ready", "archived"}: status[c] # "absent" /\ Revise({c}, s)
                        /\ UNCHANGED <<proposals, sessions, plans, runs, runOrder>>
     \/ \E i \in DOMAIN proposals: \E verdict \in {"apply", "reject"}: Decided(i, verdict)
  /\ UNCHANGED <<page, cache, sent, inFlight>>

Next ==
  \/ \E p \in Projects: ChangeProject(p) \/ Back(p)
  \/ \E t \in Tabs: GoTab(t)
  \/ \E f \in Filters: SetFilter(f)
  \/ \E n \in 0 .. Cardinality(Cases): GoPage(n)
  \/ \E k \in left \cup {Key}: ListAnswered(k)
  \/ AllAnswered \/ Select \/ Request \/ OtherUser
  \/ \E r \in inFlight: Refused(r) \/ Archived(r) \/ CaseCreated(r) \/ SessionQueued(r) \/ ProposalDecided(r)
                        \/ PlanCreated(r) \/ RunStarted(r)
  \/ \E s \in sessions: Suggest(s)
  \/ \E i \in DOMAIN runOrder: RunReports(i)

Spec == Init /\ [][Next]_vars

-----------------------------------------------------------------------------
(* A plan is asked for with cases of its own project only, whatever is     *)
(* still selected from the project shown before (selectedReadyCaseIds):    *)
(* the server would refuse the whole plan for one foreign case.            *)
PlanRequestIsOwn == \A r \in inFlight: r.op = "createPlan" => \A c \in ToSet(r.cases): Owner[c] = r.project

(* A session works on cases of one project only, those of its repository,  *)
(* although the page may send the selection of another project             *)
(* (handleOptimizeProjectTestCases).                                       *)
SessionsOfOneProject == \A s \in sessions: \A c \in s.cases: Owner[c] = s.project

(* A suggestion is decided once: two users with stale lists cannot apply   *)
(* it twice or apply what was rejected ("Human apply actions are required  *)
(* before Codex suggestions change canonical case knowledge").             *)
DecidedOnce ==
  /\ \A i \in DOMAIN proposals: proposals[i].after = (IF proposals[i].state = "applied" THEN 1 ELSE 0)
  /\ \A c \in Cases: changes[c] >= Cardinality({i \in DOMAIN proposals: proposals[i].case = c /\ proposals[i].after > 0})

(* The attempt number of a run never changes, whatever is reported or      *)
(* started later, although the list it is computed from is reordered by    *)
(* every report (testRunAttemptNumberById).                                *)
AttemptStable == \A r \in DOMAIN runs: AttemptNumber(r)' = AttemptNumber(r)

(* The page shown is one of the list's pages, however the list has shrunk: *)
(* the user is not left on an empty page past the end.                     *)
NotPastTheEnd == Key \in DOMAIN lists => casePage < Pages(CaseList)

(* Pressing Next shows the next page, as long as there is one: "The Cases  *)
(* list must stay server-paginated because a project can carry many        *)
(* cases".  It fails: until the next page is read its total is 0, and the  *)
(* effect that corrects the page goes back to the first one.               *)
NextShowsNext == [][\A n \in 1 .. Cardinality(Cases):
                      GoPage(n) /\ n = casePage + 1 /\ n * PageLength < Len(Listed(selected, filter)) => casePage' = n]_vars

(* A plan has the selected ready cases, in their order: "selected ready    *)
(* cases in explicit execution order".  It fails: a case selected on       *)
(* another page and not among the first ReadLimit cases is left out.       *)
PlanHasAllSelected == [][\A r \in inFlight' \ inFlight:
                           r.op = "createPlan" =>
                             \A c \in ToSet(selection): status[c] = "ready" /\ Owner[c] = selected => c \in ToSet(r.cases)]_vars
=============================================================================
