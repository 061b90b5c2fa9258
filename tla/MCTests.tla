---- MODULE MCTests ----
(*****************************************************************************)
(* The pages of tests: the import dialog, one run of a plan, the catalog     *)
(* of cases, suggestions and plans, and the editors. Each runs alone,        *)
(* chosen by the variable part; an instance gives a component the            *)
(* constants of one question.                                                *)
(*****************************************************************************)
EXTENDS Naturals, Sequences, FiniteSets

CONSTANTS c1, c2, c3, f1, f2, i1, i2, p1, p2, u1
CONSTANTS Files, Tables, None, Items, Batches, Users, MaxSessions, Projects, ReadLimit,
    MaxSaves

VARIABLES
    part,   \* the component that runs, and in which instance
    open, file, payload, preview, fileError, mapTask, remapping, testImportSent,
    testImportInFlight, tasks, testImportPage,
    testRunStatus, setup, review, item, testRunSessions, strayed, online, testRunPage,
    calls,
    testCatalogStatus, changes, recent, proposals, testCatalogSessions, plans,
    testCatalogRuns, runOrder, tab, search, visited, selected, selection, filter,
    casePage, lists, all, left, testCatalogSent, testCatalogInFlight,
    edits, case, revisions, results, plan, ready, testEditorsRuns, caseRead, caseDraft,
    revisionsRead, planRead, editOpen, planDraft, saves, testEditorsSent

testImportVars == <<open, file, payload, preview, fileError, mapTask, remapping,
    testImportSent, testImportInFlight, tasks, testImportPage>>
testRunVars == <<testRunStatus, setup, review, item, testRunSessions, strayed, online,
    testRunPage, calls>>
testCatalogVars == <<testCatalogStatus, changes, recent, proposals, testCatalogSessions,
    plans, testCatalogRuns, runOrder, tab, search, visited, selected, selection, filter,
    casePage, lists, all, left, testCatalogSent, testCatalogInFlight>>
testEditorsVars == <<edits, case, revisions, results, plan, ready, testEditorsRuns,
    caseRead, caseDraft, revisionsRead, planRead, editOpen, planDraft, saves,
    testEditorsSent>>
vars == <<part, testImportVars, testRunVars, testCatalogVars, testEditorsVars>>

\* The first item is a batch of its own; the third case is alone in its project.
TwoBatches(items) == [i \in items |-> IF i = i1 THEN 1 ELSE 2]
TwoProjects == [c \in {c1, c2, c3} |-> IF c = c3 THEN p2 ELSE p1]

\* The values in which the instances differ.
RunBatchOf == TwoBatches({i1, i2})
RunButtons == {"retry", "cancel"}
BatchButtons == {"retry", "cancel", "accept", "block"}
OneBatch == {1}
BatchBatchOf == [i \in {i1, i2} |-> 1]
SelectionCases == {c1, c2, c3}
SelectionStored == {c1, c3}
SelectionDoes == {"project", "back", "cases", "toggle", "optimize", "createPlan",
    "createCase"}
ReviewStored == {c1}
ReviewDoes == {"cases", "proposals", "generate", "suggest", "apply", "reject", "other"}
PagesStored == {c1, c2}
PagesDoes == {"next", "previous", "selectAll", "archive", "archiveOne"}
FiltersDoes == {"filter", "next", "previous", "selectAll", "unselectAll"}
AttemptsDoes == {"cases", "runs", "toggle", "createPlan", "startRun", "selectReady",
    "clear", "unselectAll", "move"}
CaseEditorCases == {c1, c2}
CaseEditorPage == {"case"}
PlanEditorPage == {"plan"}

Import == INSTANCE TestImport WITH PageSize <- 1, MaxRequests <- 4, MaxTasks <- 2,
    sent <- testImportSent, inFlight <- testImportInFlight, page <- testImportPage
Run == INSTANCE TestRun WITH BatchOf <- RunBatchOf, Buttons <- RunButtons, status <- testRunStatus,
    sessions <- testRunSessions, page <- testRunPage
Batch == INSTANCE TestRun WITH Batches <- OneBatch, BatchOf <- BatchBatchOf,
    Buttons <- BatchButtons, MaxSessions <- 2, status <- testRunStatus, sessions <- testRunSessions,
    page <- testRunPage
Selection == INSTANCE TestCatalog WITH Cases <- SelectionCases, Owner <- TwoProjects,
    Stored <- SelectionStored, PageLength <- 2, Does <- SelectionDoes, MaxChanges <- 0,
    MaxRequests <- 2, MaxPlans <- 1, status <- testCatalogStatus,
    sessions <- testCatalogSessions, runs <- testCatalogRuns, sent <- testCatalogSent,
    inFlight <- testCatalogInFlight
Review == INSTANCE TestCatalog WITH Cases <- SelectionCases, Owner <- TwoProjects,
    Stored <- ReviewStored, PageLength <- 2, Does <- ReviewDoes, MaxChanges <- 2,
    MaxRequests <- 3, MaxPlans <- 0, status <- testCatalogStatus,
    sessions <- testCatalogSessions, runs <- testCatalogRuns, sent <- testCatalogSent,
    inFlight <- testCatalogInFlight
Pages == INSTANCE TestCatalog WITH Cases <- SelectionCases, Owner <- TwoProjects,
    Stored <- PagesStored, PageLength <- 1, Does <- PagesDoes, MaxChanges <- 1,
    MaxRequests <- 1, MaxPlans <- 0, status <- testCatalogStatus,
    sessions <- testCatalogSessions, runs <- testCatalogRuns, sent <- testCatalogSent,
    inFlight <- testCatalogInFlight
Filters == INSTANCE TestCatalog WITH Cases <- SelectionCases, Owner <- TwoProjects,
    Stored <- PagesStored, PageLength <- 1, Does <- FiltersDoes, MaxChanges <- 0,
    MaxRequests <- 1, MaxPlans <- 0, status <- testCatalogStatus,
    sessions <- testCatalogSessions, runs <- testCatalogRuns, sent <- testCatalogSent,
    inFlight <- testCatalogInFlight
Attempts == INSTANCE TestCatalog WITH Cases <- SelectionCases, Owner <- TwoProjects,
    Stored <- PagesStored, PageLength <- 1, Does <- AttemptsDoes, MaxChanges <- 0,
    MaxRequests <- 3, MaxPlans <- 2, status <- testCatalogStatus,
    sessions <- testCatalogSessions, runs <- testCatalogRuns, sent <- testCatalogSent,
    inFlight <- testCatalogInFlight
CaseEditor == INSTANCE TestEditors WITH Cases <- CaseEditorCases, Page <- CaseEditorPage,
    MaxEdits <- 3, MaxRuns <- 2, runs <- testEditorsRuns, sent <- testEditorsSent
PlanEditor == INSTANCE TestEditors WITH Cases <- CaseEditorCases, Page <- PlanEditorPage,
    MaxEdits <- 1, MaxRuns <- 1, runs <- testEditorsRuns, sent <- testEditorsSent

\* Every instance satisfies what its component assumes of the constants.
ASSUME InstancesAssumption == Import!DialogAssumption /\ Run!RunAssumption
    /\ Batch!RunAssumption /\ Selection!CatalogAssumption /\ Review!CatalogAssumption
    /\ Pages!CatalogAssumption /\ Filters!CatalogAssumption /\ Attempts!CatalogAssumption
    /\ CaseEditor!EditorsAssumption /\ PlanEditor!EditorsAssumption

\* One component runs; the variables of the others stand still.
TestImportInit ==
  \/ part = "import" /\ Import!Init
  \/ part # "import" /\ open = 0 /\ file = 0 /\ payload = 0 /\ preview = 0
     /\ fileError = 0 /\ mapTask = 0 /\ remapping = 0 /\ testImportSent = 0
     /\ testImportInFlight = 0 /\ tasks = 0 /\ testImportPage = 0
TestRunInit ==
  \/ part = "run" /\ Run!Init
  \/ part = "batch" /\ Batch!Init
  \/ part \notin {"run", "batch"} /\ testRunStatus = 0 /\ setup = 0
     /\ review = 0 /\ item = 0 /\ testRunSessions = 0 /\ strayed = 0 /\ online = 0
     /\ testRunPage = 0
     /\ calls = 0
TestCatalogInit ==
  \/ part = "selection" /\ Selection!Init
  \/ part = "review" /\ Review!Init
  \/ part = "pages" /\ Pages!Init
  \/ part = "filters" /\ Filters!Init
  \/ part = "attempts" /\ Attempts!Init
  \/ part \notin {"selection", "review", "pages", "filters", "attempts"}
     /\ testCatalogStatus = 0 /\ changes = 0 /\ recent = 0 /\ proposals = 0
     /\ testCatalogSessions = 0 /\ plans = 0 /\ testCatalogRuns = 0 /\ runOrder = 0
     /\ tab = 0 /\ search = 0 /\ visited = 0 /\ selected = 0 /\ selection = 0
     /\ filter = 0 /\ casePage = 0 /\ lists = 0 /\ all = 0 /\ left = 0
     /\ testCatalogSent = 0 /\ testCatalogInFlight = 0
TestEditorsInit ==
  \/ part = "case editor" /\ CaseEditor!Init
  \/ part = "plan editor" /\ PlanEditor!Init
  \/ part \notin {"case editor", "plan editor"} /\ edits = 0 /\ case = 0
     /\ revisions = 0 /\ results = 0 /\ plan = 0 /\ ready = 0 /\ testEditorsRuns = 0
     /\ caseRead = 0 /\ caseDraft = 0 /\ revisionsRead = 0 /\ planRead = 0 /\ editOpen = 0
     /\ planDraft = 0 /\ saves = 0 /\ testEditorsSent = 0

Init ==
  /\ part \in {"import", "run", "batch", "selection", "review", "pages", "filters",
      "attempts", "case editor", "plan editor"}
  /\ TestImportInit /\ TestRunInit /\ TestCatalogInit /\ TestEditorsInit

OnlyTestImport == UNCHANGED <<part, testRunVars, testCatalogVars, testEditorsVars>>
OnlyTestRun == UNCHANGED <<part, testImportVars, testCatalogVars, testEditorsVars>>
OnlyTestCatalog == UNCHANGED <<part, testImportVars, testRunVars, testEditorsVars>>
OnlyTestEditors == UNCHANGED <<part, testImportVars, testRunVars, testCatalogVars>>

TestImportNext == part = "import" /\ Import!Next /\ OnlyTestImport
TestRunNext ==
  /\ \/ part = "run" /\ Run!Next
     \/ part = "batch" /\ Batch!Next
  /\ OnlyTestRun
TestCatalogNext ==
  /\ \/ part = "selection" /\ Selection!Next
     \/ part = "review" /\ Review!Next
     \/ part = "pages" /\ Pages!Next
     \/ part = "filters" /\ Filters!Next
     \/ part = "attempts" /\ Attempts!Next
  /\ OnlyTestCatalog
TestEditorsNext ==
  /\ \/ part = "case editor" /\ CaseEditor!Next
     \/ part = "plan editor" /\ PlanEditor!Next
  /\ OnlyTestEditors

Next == \/ TestImportNext \/ TestRunNext \/ TestCatalogNext \/ TestEditorsNext

\* What each module says of its own fairness, while it runs.
Spec ==
  /\ Init /\ [][Next]_vars
  /\ WF_testImportVars(part = "import" /\ Import!Poll)
  /\ WF_testImportVars(part = "import" /\ Import!ApplyMapping)
  /\ WF_testImportVars(part = "import" /\ Import!GiveUpMapping)
  /\ WF_testImportVars(part = "import" /\ \E t \in DOMAIN tasks : Import!Work(t))
  /\ WF_testImportVars(part = "import" /\ \E r \in testImportInFlight : Import!PreviewAnswered(r) \/ Import!RemapAnswered(r))
  /\ WF_testRunVars(part = "run" /\ Run!Report)
  /\ WF_testRunVars(part = "batch" /\ Batch!Report)

-----------------------------------------------------------------------------
\* The dialog waits for a mapping; a run goes on that someone works for.
Unsettled ==
    \/ part = "import" /\ Import!Waiting
    \/ part = "run" /\ Run!UnderWay
    \/ part = "batch" /\ Batch!UnderWay

\* What the import dialog, the catalog and the editors keep true:
\* - the preview on screen is about the file on screen: the answer for a file the
\*   user has replaced meanwhile is never shown (the request numbers of
\*   previewImport);
\* - what the user can confirm is what the preview shows, mapping included
\*   (src/docs/integration-guide.md, "call /test-cases/import with the same body
\*   only after the user confirms");
\* - a plan is asked for with cases of its own project only, whatever is still
\*   selected from the project shown before (selectedReadyCaseIds): the server
\*   would refuse the whole plan for one foreign case;
\* - a session works on cases of one project only, those of its repository,
\*   although the page may send the selection of another project
\*   (handleOptimizeProjectTestCases);
\* - a suggestion is decided once: two users with stale lists cannot apply it
\*   twice or apply what was rejected;
\* - the page shown is one of the list's pages, however the list has shrunk;
\* - the history tells the whole story of the compared fields: the first
\*   revision's fact changed by every later revision in turn gives the newest,
\*   whatever was saved by whom;
\* - a run that waits for its review has a result for every item, whatever
\*   retries, reviews and reports have crossed before, and one that runs has an
\*   item without;
\* - a cancelled run has nothing left to do, nobody goes on with an item that was
\*   cancelled, and every other session is stopped too (src/docs/architecture.md,
\*   "the server cancels linked setup/execution runtime tasks, marks queued/running
\*   run items cancelled");
\* - no batch has two sessions at work, or one that has nothing to report on.
\* The last three have one exception, which the server allows and the properties
\* name (strayed): a report is matched with items by run and case alone, so one
\* session may end the items another is still at work on. Such a session is missed
\* by a cancel, a retry starts another one beside it, and a setup that passes
\* afterwards may leave a run running that has all its results.
TestsSound ==
    /\ part = "import" => /\ Import!TypeOK
                          /\ Import!ShownIsChosen /\ Import!ConfirmedIsPreviewed
    /\ part = "selection" => /\ Selection!TypeOK
                             /\ Selection!PlanRequestIsOwn /\ Selection!SessionsOfOneProject
    /\ part = "review" => Review!DecidedOnce
    /\ part = "pages" => Pages!NotPastTheEnd
    /\ part = "filters" => Filters!NotPastTheEnd
    /\ part = "case editor" => CaseEditor!TypeOK /\ CaseEditor!TimelineReplays
    /\ part = "run" => /\ Run!TypeOK
                       /\ Run!ReviewedWhole /\ Run!CancelStopsAll /\ Run!OneSessionPerItem
    /\ part = "batch" => /\ Batch!ReviewedWhole /\ Batch!CancelStopsAll
                         /\ Batch!OneSessionPerItem

\* What no step of the pages of tests does:
\* - the attempt number of a run never changes, although the list it is computed
\*   from is reordered by every report (testRunAttemptNumberById);
\* - what the user has typed in the case form is dropped only by an answer that
\*   brings something new, never by a read that finds the case as it was: a window
\*   that gets the focus reads again;
\* - the open plan dialog keeps the user's draft whatever the page reads.
TypingStays == [][
    /\ part = "attempts" => Attempts!AttemptStable
    /\ part = "case editor" => CaseEditor!TypingKept
    /\ part = "plan editor" => PlanEditor!DialogKept]_vars

\* What is under way comes to an end: the import dialog stops waiting for a
\* mapping, whatever answers get lost or late, and a run all of whose open items are
\* with a session at work leaves "running" once its sessions report, or loses one
\* to a session that ended without a result for it: no report of its session, one
\* that leaves items out, or one of too many items. Such an item keeps the run
\* running for ever: nothing else ends it, and a running run offers no retry. (Nor
\* is anything claimed once another session's report has ended an item.)
TestsSettle == Unsettled ~> ~Unsettled

=============================================================================
