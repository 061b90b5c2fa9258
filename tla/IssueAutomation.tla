-------------------------- MODULE IssueAutomation --------------------------
(***************************************************************************)
(* What the server queues by itself for an issue: one triage task that     *)
(* types the issue and refines its title, and one read-only analysis       *)
(* session once the issue has a project.  A request is a handler of the    *)
(* server between two calls of the store; each call runs under the store's *)
(* mutex, or in one Postgres transaction.  Only a top-level issue is       *)
(* modelled: a child issue starts with triage "none" and no analysis.      *)
(***************************************************************************)
EXTENDS Integers, Sequences

CONSTANTS
  Projects,     \* the workspace's projects
  Types,        \* the type labels
  Titles,       \* titles, the draft among them
  Draft,        \* the title the issue is created with
  None,         \* no project, no type label, no expected title
  Does,         \* what users, workers and older servers do in this run
  MaxAsks,      \* bound: requests that queue work
  MaxEdits,     \* bound: titles and labels set by people
  MaxTasks,     \* bound: triage tasks ever created
  MaxFaults     \* bound: answers and reports that are lost, and crashes

\* What the constants must satisfy.
IssueAutomationAssumption ==
  /\ Draft \in Titles
  /\ None \notin Projects \cup Types \cup Titles
  /\ {MaxAsks, MaxEdits, MaxTasks, MaxFaults} \subseteq Nat

VARIABLES
  issue,      \* the issue's row and type label
  requests,   \* handlers in progress
  tasks,      \* the issue_type_triage tasks, oldest first
  analyses,   \* the issue_analysis sessions, oldest first
  worker,     \* what the claiming worker is doing
  past,       \* history: what people chose, whether a worker's result was applied
  budget

vars == <<issue, requests, tasks, analyses, worker, past, budget>>

Active == {"queued", "claimed", "running"}
Final == {"completed", "failed", "cancelled"}
Steps == {"load", "exists", "session", "triage", "ensure"}
TriageTask == [status: Active \cup Final, expected: Titles \cup {None}]
Request == [id: 1..MaxAsks, of: {"create", "attach", "old"}, pc: Steps]
Analysis == [project: Projects, ended: BOOLEAN, by: 1..MaxAsks, racing: SUBSET (1..MaxAsks)]
Idle == [task |-> 0, step |-> "idle"]

\* Every variable has its type.
TypeOK ==
  /\ issue \in [made: BOOLEAN, project: Projects \cup {None}, title: Titles,
                type: Types \cup {None},
                triage: {"pending", "classified", "failed", "none"}]
  /\ requests \subseteq Request
  /\ tasks \in Seq(TriageTask)
  /\ analyses \in Seq(Analysis)
  /\ worker \in [task: 0..MaxTasks, step: {"idle", "claimed", "running"}]
  /\ past \in [title: Titles \cup {None}, typed: BOOLEAN, type: Types \cup {None},
               judged: BOOLEAN, drafted: BOOLEAN]
  /\ budget \in [asks: 0..MaxAsks, edits: 0..MaxEdits, faults: 0..MaxFaults]

Init ==
  /\ issue = [made |-> FALSE, project |-> None, title |-> Draft, type |-> None,
              triage |-> "none"]
  /\ requests = {} /\ tasks = <<>> /\ analyses = <<>> /\ worker = Idle
  /\ past = [title |-> None, typed |-> FALSE, type |-> None, judged |-> FALSE,
             drafted |-> FALSE]
  /\ budget = [asks |-> MaxAsks, edits |-> MaxEdits, faults |-> MaxFaults]

Spend(k) == budget[k] > 0 /\ budget' = [budget EXCEPT ![k] = @ - 1]
-----------------------------------------------------------------------------
(* Requests. *)

Ask(of, pc) ==
  /\ Spend("asks")
  /\ requests' = requests \cup {[id |-> budget.asks, of |-> of, pc |-> pc]}

Advance(r, pc) == requests' = (requests \ {r}) \cup {[r EXCEPT !.pc = pc]}
Leave(r) == requests' = requests \ {r}

\* A handler after its analysis attempt, whatever that came to.
AfterAnalysis(r) == IF r.of = "create" THEN Advance(r, "triage") ELSE Leave(r)

CreateIssue(p, t) ==
  /\ ~issue.made
  /\ Ask("create", "load")
  /\ issue' = [made |-> TRUE, project |-> p, title |-> Draft, type |-> t,
               triage |-> IF t = None THEN "pending" ELSE "classified"]
  /\ UNCHANGED <<tasks, analyses, worker, past>>

AttachProject(p) ==
  /\ "attach" \in Does /\ issue.made
  /\ Ask("attach", "load")
  /\ issue' = [issue EXCEPT !.project = p]
  /\ UNCHANGED <<tasks, analyses, worker, past>>

DetachProject ==
  /\ "attach" \in Does /\ issue.made /\ issue.project # None
  /\ Spend("edits")
  /\ issue' = [issue EXCEPT !.project = None]
  /\ UNCHANGED <<requests, tasks, analyses, worker, past>>

\* An older server on the same database, which queues triage without a title.
OldProducer ==
  /\ "old" \in Does /\ issue.made
  /\ Ask("old", "triage")
  /\ UNCHANGED <<issue, tasks, analyses, worker, past>>
-----------------------------------------------------------------------------
(* The analysis session: three calls of the store. *)

LoadForAnalysis(r) ==
  /\ r.pc = "load"
  /\ IF issue.project = None THEN AfterAnalysis(r) ELSE Advance(r, "exists")
  /\ UNCHANGED <<issue, tasks, analyses, worker, past, budget>>

\* mutant: only sessions that have not ended are looked for
HasAnalysis_Mutation == \E i \in DOMAIN analyses : ~analyses[i].ended
HasAnalysis == analyses # <<>>

CheckAnalysis(r) ==
  /\ r.pc = "exists"
  /\ IF HasAnalysis THEN AfterAnalysis(r) ELSE Advance(r, "session")
  /\ UNCHANGED <<issue, tasks, analyses, worker, past, budget>>

\* The requests that have looked for an analysis and are about to create one.
Racing(r) == {q.id : q \in {s \in requests \ {r} : s.pc = "session"}}

\* The session takes the issue's project as it is now.  Who made it, and who was
\* about to make another, is history.
CreateAnalysis(r) ==
  /\ r.pc = "session" /\ issue.project # None
  /\ analyses' = Append(analyses, [project |-> issue.project, ended |-> FALSE,
                                  by |-> r.id, racing |-> Racing(r)])
  /\ AfterAnalysis(r)
  /\ UNCHANGED <<issue, tasks, worker, past, budget>>

\* No worker is online, or the project is gone: skipped, and the request goes on.
SkipAnalysis(r) ==
  /\ r.pc = "session"
  /\ AfterAnalysis(r)
  /\ UNCHANGED <<issue, tasks, analyses, worker, past, budget>>

AnalysisEnds(i) ==
  /\ "attach" \in Does /\ ~analyses[i].ended
  /\ analyses' = [analyses EXCEPT ![i].ended = TRUE]
  /\ UNCHANGED <<issue, requests, tasks, worker, past, budget>>
-----------------------------------------------------------------------------
(* The triage task: a load and one atomic section. *)

NeedsTriage == issue.triage = "pending" /\ issue.type = None

LoadForTriage(r) ==
  /\ r.pc = "triage"
  /\ IF NeedsTriage THEN Advance(r, "ensure") ELSE Leave(r)
  /\ UNCHANGED <<issue, tasks, analyses, worker, past, budget>>

Expected(r) == IF r.of = "create" THEN Draft ELSE None

\* mutant: an active task is not looked for
ActiveTasks_Mutation == {}
ActiveTasks == {i \in DOMAIN tasks : tasks[i].status \in Active}

\* mutant: an active task is left as it is
Upgraded_Mutation(old, new) == old
Upgraded(old, new) == IF old = None THEN new ELSE old

\* mutant: the issue is not looked at again before the insert
StillNeeded_Mutation == TRUE
StillNeeded == NeedsTriage

EnsureTriage(r) ==
  /\ r.pc = "ensure"
  /\ Leave(r)
  /\ \/ /\ ActiveTasks = {} /\ StillNeeded
        /\ Len(tasks) < MaxTasks
        /\ tasks' = Append(tasks, [status |-> "queued", expected |-> Expected(r)])
     \/ /\ ActiveTasks = {} /\ ~StillNeeded
        /\ UNCHANGED tasks
     \/ \E i \in ActiveTasks :
          tasks' = [tasks EXCEPT ![i].expected = Upgraded(@, Expected(r))]
  /\ past' = [past EXCEPT !.drafted = @ \/ r.of = "create"]
  /\ UNCHANGED <<issue, analyses, worker, budget>>
-----------------------------------------------------------------------------
(* People edit the issue and cancel tasks. *)

UpdateTitle(t) ==
  /\ "title" \in Does /\ issue.made /\ Spend("edits")
  /\ issue' = [issue EXCEPT !.title = t]
  /\ past' = [past EXCEPT !.title = t]
  /\ UNCHANGED <<requests, tasks, analyses, worker>>

UpdateIssueLabels(t) ==
  /\ "label" \in Does /\ issue.made /\ Spend("edits")
  /\ issue' = [issue EXCEPT !.type = t, !.triage = IF t = None THEN "none" ELSE "classified"]
  /\ past' = [past EXCEPT !.typed = TRUE, !.type = t]
  /\ UNCHANGED <<requests, tasks, analyses, worker>>

CancelRuntimeTask(i) ==
  /\ "cancel" \in Does /\ tasks[i].status \in Active
  /\ tasks' = [tasks EXCEPT ![i].status = "cancelled"]
  /\ UNCHANGED <<issue, requests, analyses, worker, past, budget>>
\* The server dies between two calls of the store; its handlers are gone.
Crash ==
  /\ "crash" \in Does /\ requests # {} /\ Spend("faults")
  /\ requests' = {}
  /\ UNCHANGED <<issue, tasks, analyses, worker, past>>
-----------------------------------------------------------------------------
(* One worker: it claims, marks the task running, and reports once. *)

\* mutant: a running task is not handed out again
Stale_Mutation == {}
Stale == {i \in DOMAIN tasks : tasks[i].status = "running"}
Queued == {i \in DOMAIN tasks : tasks[i].status = "queued"}
Claimable == IF Stale # {} THEN Stale ELSE Queued

\* mutant: the worker that lost the answer is not free again
Lost_Mutation(what) == what \in Does /\ Spend("faults") /\ worker' = [worker EXCEPT !.step = "lost"]
Lost(what) == what \in Does /\ Spend("faults") /\ worker' = Idle
Kept == UNCHANGED budget

ClaimRuntimeTask(i) ==
  /\ worker = Idle /\ i \in Claimable
  /\ tasks' = [tasks EXCEPT ![i].status = "claimed"]
  /\ \/ Kept /\ worker' = [task |-> i, step |-> "claimed"]
     \/ Lost("lost claim")
  /\ UNCHANGED <<issue, requests, analyses, past>>

Reportable == tasks[worker.task].status \in {"claimed", "running"}

MarkRunning ==
  /\ worker.step = "claimed"
  /\ tasks' = IF Reportable THEN [tasks EXCEPT ![worker.task].status = "running"] ELSE tasks
  /\ \/ Kept /\ worker' = IF Reportable THEN [worker EXCEPT !.step = "running"] ELSE Idle
     \/ Lost("lost report")
  /\ UNCHANGED <<issue, requests, analyses, past>>

\* mutant: the suggested title is written whatever the title is now
Retitled_Mutation(expected, title) == IF expected = None THEN issue.title ELSE title
Retitled(expected, title) ==
  IF expected # None /\ issue.title = expected THEN title ELSE issue.title

\* mutant: a result types an issue that is no longer pending
Typable_Mutation == TRUE
Typable == issue.triage = "pending"

\* A completed task with a valid result.
Triaged(expected, title, type) ==
  [issue EXCEPT !.title = Retitled(expected, title),
                !.type = IF Typable THEN type ELSE @,
                !.triage = IF Typable THEN "classified" ELSE @]

\* A failed task, or a result that does not parse.
Untriaged == [issue EXCEPT !.triage = IF @ = "pending" THEN "failed" ELSE @]

Report(status, next) ==
  /\ worker.step = "running"
  /\ worker' = Idle /\ Kept
  /\ IF Reportable
     THEN /\ tasks' = [tasks EXCEPT ![worker.task].status = status]
          /\ issue' = next
          /\ past' = [past EXCEPT !.judged = TRUE]
     ELSE UNCHANGED <<tasks, issue, past>>
  /\ UNCHANGED <<requests, analyses>>

ReportResult(title, type) ==
  Report("completed", Triaged(tasks[worker.task].expected, title, type))
ReportInvalid == Report("completed", Untriaged)
ReportFailed == Report("failed", Untriaged)

\* The final report is posted once: when it is lost the worker goes on without it.
ReportLost ==
  /\ worker.step = "running" /\ Lost("lost report")
  /\ UNCHANGED <<issue, requests, tasks, analyses, past>>
-----------------------------------------------------------------------------
Handle(r) ==
  \/ LoadForAnalysis(r) \/ CheckAnalysis(r) \/ CreateAnalysis(r) \/ SkipAnalysis(r)
  \/ LoadForTriage(r) \/ EnsureTriage(r)
Claim == \E i \in DOMAIN tasks : ClaimRuntimeTask(i)
Answer ==
  \/ \E title \in Titles, type \in Types : ReportResult(title, type)
  \/ ReportInvalid \/ ReportFailed

Next ==
  \/ \E p \in Projects \cup {None}, t \in Types \cup {None} : CreateIssue(p, t)
  \/ \E p \in Projects : AttachProject(p)
  \/ DetachProject \/ OldProducer
  \/ \E r \in requests : Handle(r)
  \/ \E i \in DOMAIN analyses : AnalysisEnds(i)
  \/ \E t \in Titles : UpdateTitle(t)
  \/ \E t \in Types \cup {None} : UpdateIssueLabels(t)
  \/ \E i \in DOMAIN tasks : CancelRuntimeTask(i)
  \/ Crash
  \/ Claim \/ MarkRunning \/ Answer \/ ReportLost

Spec == Init /\ [][Next]_vars

\* Handlers run to their end, and the worker keeps polling, starting and answering.
FairSpec ==
  /\ Spec
  /\ WF_vars(\E r \in requests : Handle(r))
  /\ WF_vars(Claim) /\ WF_vars(MarkRunning) /\ WF_vars(Answer)
-----------------------------------------------------------------------------
\* Concurrent producers share one task: two active triage tasks of one issue
\* would cost two engine turns (ensureIssueTypeTriageTask's atomic section).
OneActiveTask ==
  \A i, j \in DOMAIN tasks :
    tasks[i].status \in Active /\ tasks[j].status \in Active => i = j

\* A producer that loaded the issue while it was pending queues no second turn
\* once a worker's report has settled it (the recheck before the insert).
NoSecondTurn == [][past.judged => Len(tasks') = Len(tasks)]_vars

\* The draft is not lost to a task an older server queued first: once the create
\* request has passed its atomic section, an active task refines that draft, unless
\* somebody has cancelled one and an older server has queued the next.
Cancelled == \E i \in DOMAIN tasks : tasks[i].status = "cancelled"
DraftKept ==
  past.drafted /\ ~Cancelled =>
    \A i \in DOMAIN tasks : tasks[i].status \in Active => tasks[i].expected = Draft

\* A title somebody chose, other than the draft, is never replaced by a suggestion.
HumanTitleWins == past.title \notin {None, Draft} => issue.title = past.title

\* A type somebody chose or removed is never replaced by a worker's.
HumanTypeWins == past.typed => issue.type = past.type

\* No suggestion replaces what a person chose, title or type, and the draft a
\* person wrote is what a suggestion refines.
HumansWin == HumanTitleWins /\ HumanTypeWins /\ DraftKept

\* Only requests that overlap queue more than one automatic analysis: whoever
\* queues a later one had looked for an analysis before the first was there, and
\* had not yet come to create its own.  The look and the creation are two calls of
\* the store, so such a second analysis can happen; no request that looks later
\* adds another, however often projects are attached, analyses end or the server dies.
OnlyRacesRepeat ==
  \A i, j \in DOMAIN analyses : i < j => analyses[j].by \in analyses[i].racing

\* A cancelled triage task does not leave its issue waiting: with no task left to
\* type the issue and no request that may queue one, the issue is not pending.
CancelledSettles ==
  requests = {} /\ ActiveTasks = {} /\ Cancelled => issue.triage # "pending"

\* A pending issue is settled, even when workers' reports are lost.
TriageSettles == (issue.triage = "pending") ~> (issue.triage # "pending")
=============================================================================
