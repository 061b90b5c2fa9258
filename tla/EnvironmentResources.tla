------------------------- MODULE EnvironmentResources -------------------------
(***************************************************************************)
(* The Resources tab of the issue page (packages/views/src/issue-detail-   *)
(* page.tsx): the Kubernetes objects of the issue's namespace, read one    *)
(* kind after the other by the server (listIssueTestEnvironmentResources), *)
(* a kind that cannot be read leaving an error beside the others.  The     *)
(* query is disabled: entering the tab and the Refresh button read it.     *)
(***************************************************************************)
EXTENDS Naturals, Sequences, FiniteSets

CONSTANTS
    Sections,                       \* bound: the kinds of objects that are read, in this order
    MaxReads, MaxFails, MaxSteps    \* bounds: reads, failures, changes of the namespace

\* What the constants must satisfy.
AllSections == {"pods", "services", "deployments", "ingresses", "events"}
EnvironmentResourcesAssumption ==
    /\ Sections \in Seq(AllSections)
    /\ {MaxReads, MaxFails, MaxSteps} \subseteq Nat

VARIABLES
    namespace,   \* what runs in the namespace
    known,       \* the page's issue has a test environment
    tab,         \* issueTab
    data,        \* resourcesQuery.data, at most one
    failed,      \* resourcesQuery.error
    reads,       \* requests under way, the cancelled ones too
    latest,      \* the number of the query's newest request
    entered,     \* the newest request when the tab was entered
    budget

page == <<known, tab, entered>>
query == <<data, failed, reads, latest>>
vars == <<namespace, page, query, budget>>

Lives == {"absent", "starting", "ready", "broken"}

\* The objects of a kind; of a pod its phase, of a deployment <<ready, wanted>>.
Objects(section, life) ==
    CASE life = "absent"         -> {}
      [] section = "pods"        -> {[starting |-> "Pending", ready |-> "Running", broken |-> "Failed"][life]}
      [] section = "deployments" -> {<<IF life = "ready" THEN 1 ELSE 0, 1>>}
      [] OTHER                   -> {section}

Read(n) == [n |-> n, got |-> <<>>]
Spend(k) == budget[k] > 0 /\ budget' = [budget EXCEPT ![k] = @ - 1]

TypeOK ==
    /\ namespace \in Lives /\ known \in BOOLEAN /\ tab \in {"overview", "resources"}
    /\ Cardinality(data) <= 1 /\ failed \in BOOLEAN
    /\ \A d \in data : Len(d.got) = Len(Sections) /\ d.n <= latest
    /\ \A r \in reads : /\ r.n <= latest /\ Len(r.got) <= Len(Sections)
                        /\ \A k \in DOMAIN r.got : r.got[k].ok \/ r.got[k].items = {}
    /\ entered <= latest

Init ==
    /\ namespace = "absent" /\ known = FALSE /\ tab \in {"overview", "resources"}
    /\ data = {} /\ failed = FALSE /\ reads = {} /\ latest = 0 /\ entered = 0
    /\ budget = [read |-> MaxReads, fail |-> MaxFails, step |-> MaxSteps]

-----------------------------------------------------------------------------
\* The namespace, and the server's reading of it.

NamespaceChanges(life) ==
    /\ life # namespace /\ Spend("step") /\ namespace' = life
    /\ UNCHANGED <<page, query>>

Listed_Silent(r, ok) ==                 \* mutant: the error of a kind is not listed
    [ok |-> TRUE, items |-> IF ok THEN Objects(Sections[Len(r.got) + 1], namespace) ELSE {}]

Listed(r, ok) ==
    [ok |-> ok, items |-> IF ok THEN Objects(Sections[Len(r.got) + 1], namespace) ELSE {}]

ListSection(r, ok) ==
    /\ Len(r.got) < Len(Sections)
    /\ IF ok THEN budget' = budget ELSE Spend("fail")
    /\ reads' = (reads \ {r}) \cup {[r EXCEPT !.got = Append(@, Listed(r, ok))]}
    /\ UNCHANGED <<namespace, page, data, failed, latest>>

-----------------------------------------------------------------------------
\* The page.

Refetch_Same ==                         \* mutant: the new request does not count as the newest
    /\ latest' = latest /\ reads' = reads \cup {Read(latest + 1)}
    /\ UNCHANGED <<data, failed>>

\* refetch(): a request under way is cancelled, and its answer dropped.
Refetch ==
    /\ latest' = latest + 1 /\ reads' = reads \cup {Read(latest + 1)}
    /\ UNCHANGED <<data, failed>>

IsFetching == \E r \in reads : r.n = latest

\* The issue has been read: its environment is there, and the effect runs.
EnvironmentAppears ==
    /\ ~known /\ known' = TRUE /\ tab' = tab /\ entered' = latest
    /\ IF tab = "resources" THEN Spend("read") /\ Refetch ELSE UNCHANGED <<query, budget>>
    /\ UNCHANGED namespace

EnterTab_Cached ==                      \* mutant: what the cache holds is not read again
    /\ tab = "overview" /\ tab' = "resources" /\ known' = known /\ entered' = latest
    /\ IF known /\ data = {} THEN Spend("read") /\ Refetch ELSE UNCHANGED <<query, budget>>
    /\ UNCHANGED namespace

EnterTab ==
    /\ tab = "overview" /\ tab' = "resources" /\ known' = known /\ entered' = latest
    /\ IF known THEN Spend("read") /\ Refetch ELSE UNCHANGED <<query, budget>>
    /\ UNCHANGED namespace

LeaveTab ==
    /\ tab = "resources" /\ tab' = "overview"
    /\ UNCHANGED <<namespace, known, entered, query, budget>>

PressRefresh ==
    /\ tab = "resources" /\ known /\ ~IsFetching /\ Spend("read") /\ Refetch
    /\ UNCHANGED <<namespace, page>>

IsLatest_Any(r) == TRUE                 \* mutant: cancelled requests are answered too

IsLatest(r) == r.n = latest

Answered(r) ==
    /\ Len(r.got) = Len(Sections) /\ reads' = reads \ {r}
    /\ IF IsLatest(r)
       THEN data' = {r} /\ failed' = FALSE
       ELSE UNCHANGED <<data, failed>>
    /\ UNCHANGED <<namespace, page, latest, budget>>

\* The cluster cannot be reached at all, or the request is lost.
ReadFails(r) ==
    /\ Spend("fail") /\ reads' = reads \ {r}
    /\ failed' = IF IsLatest(r) THEN TRUE ELSE failed
    /\ UNCHANGED <<namespace, page, data, latest>>

-----------------------------------------------------------------------------
\* What the tab shows.

Errors == {Sections[k] : k \in {j \in 1..Len(Sections) : \E d \in data : ~d.got[j].ok}}
Rows(k) == UNION {d.got[k].items : d \in data}
Tones(k) ==
    {CASE Sections[k] = "pods" -> [Running |-> "success", Succeeded |-> "success", Failed |-> "danger",
                                   Pending |-> "neutral"][x]
       [] Sections[k] = "deployments" -> IF x[1] >= x[2] /\ x[2] > 0 THEN "success" ELSE "warning"
       [] OTHER -> "neutral" : x \in Rows(k)}
SaysEmpty(k) == data # {} /\ Rows(k) = {}
Notice ==
    CASE ~known                       -> "no environment"
      [] failed                       -> "error"
      [] IsFetching /\ data = {}      -> "loading"
      [] OTHER                        -> "none"

Serve(r) == Answered(r) \/ ListSection(r, TRUE)
Next ==
    \/ \E life \in Lives : NamespaceChanges(life)
    \/ EnvironmentAppears \/ EnterTab \/ LeaveTab \/ PressRefresh
    \/ \E r \in reads : Serve(r) \/ ListSection(r, FALSE) \/ ReadFails(r)

\* The newest request is answered.
Spec == Init /\ [][Next]_vars /\ WF_vars(\E r \in reads : IsLatest(r) /\ Serve(r))

-----------------------------------------------------------------------------
\* Properties.

\* A kind is called empty only if it was when it was read, or if an error says
\* that it could not be read: a broken kind never passes for an empty one.
EmptyIsTold ==
    \A k \in 1..Len(Sections) :
         (\E r \in reads : Len(r.got) = k - 1 /\ \E q \in reads' : q.n = r.n /\ Len(q.got) = k
                                                     /\ q.got[k].ok /\ q.got[k].items = {})
            => Objects(Sections[k], namespace) = {}

\* What is on the page is never replaced by an older reading.
NeverOlder == \A d \in data, e \in data' : e.n >= d.n

\* Once the tab is entered, what it shows is read anew (or the failure is shown).
EntersFresh ==
    \A n \in 0..MaxReads :
        (tab = "resources" /\ known /\ entered = n)
            ~> (tab = "overview" \/ entered # n \/ failed \/ \E d \in data : d.n > n)
=============================================================================
