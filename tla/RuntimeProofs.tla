---------------------------- MODULE RuntimeProofs ----------------------------
(***************************************************************************)
(* What runs without a user: the triage and analysis of an issue, for any  *)
(* number of requests, edits, lost answers and crashes; the identity of a  *)
(* host (Host), for any number of callers, crashes and failed writes; the  *)
(* identity of a work root (Storage), for any number of workers and        *)
(* starts; and a run of an agent engine (Engine), whatever the engine      *)
(* does, when its prompt fits the pipe it is written to.                   *)
(***************************************************************************)
EXTENDS IssueAutomation, FiniteSetTheorems, SequenceTheorems, TLAPS

CONSTANTS Ids, Callers, NoId, MaxCrash, MaxFail
CONSTANTS Workers, WorkerFaults, MaxWorkerFaults
CONSTANTS Engines, Room, MaxNotes, Ahead, Large, Helpers, Tests

VARIABLES file, temp, load, call, answers, used, up, crashes, fails
VARIABLES rootFile, rootSynced, rootPc, rootId, rootMade, rootServed, rootFaults
VARIABLES engine, pipe, proc, chan, reader, request, adapter, run, cancel, artifact

Host == INSTANCE HostIdentity
Storage == INSTANCE WorkerStorage WITH Faults <- WorkerFaults, MaxFaults <- MaxWorkerFaults,
    file <- rootFile, synced <- rootSynced, pc <- rootPc, id <- rootId, made <- rootMade,
    served <- rootServed, faults <- rootFaults
Engine == INSTANCE AgentEngine

-----------------------------------------------------------------------------
(* The triage and the analysis of an issue.                                *)

\* The claimed task exists, and only the create request's draft is ever expected.
WorkerHasTask == worker.step # "idle" => worker.task \in DOMAIN tasks
ExpectsDraft == \A i \in DOMAIN tasks : tasks[i].expected \in {Draft, None}

\* A settled issue is not pending again: a person's type or a worker's report
\* settles it, and neither comes before the issue.
Settled ==
  /\ (past.typed \/ past.judged) => (issue.made /\ issue.triage # "pending")
  /\ past.title # None => issue.made
  /\ tasks # <<>> => issue.made
  /\ requests # {} => issue.made

\* The inductive invariant.
IInv ==
  /\ TypeOK /\ Len(tasks) <= MaxTasks
  /\ WorkerHasTask /\ ExpectsDraft /\ Settled
  /\ OneActiveTask /\ HumanTitleWins /\ HumanTypeWins

LEMMA InitIInv ==
  ASSUME IssueAutomationAssumption PROVE Init => IInv
BY DEF IssueAutomationAssumption, Init, IInv, TypeOK, WorkerHasTask, ExpectsDraft, Settled, OneActiveTask, HumanTitleWins,
      HumanTypeWins, Idle, TriageTask, Request

\* Spending keeps the budget within its bounds.
LEMMA SpendType ==
  ASSUME IssueAutomationAssumption, TypeOK, NEW k \in {"asks", "edits", "faults"}, Spend(k)
  PROVE  budget' \in [asks: 0..MaxAsks, edits: 0..MaxEdits, faults: 0..MaxFaults]
<1>1. budget \in [asks: 0..MaxAsks, edits: 0..MaxEdits, faults: 0..MaxFaults]
  BY DEF TypeOK
<1>2. CASE k = "asks"
  BY <1>1, <1>2 DEF Spend, IssueAutomationAssumption
<1>3. CASE k = "edits"
  BY <1>1, <1>3 DEF Spend, IssueAutomationAssumption
<1>4. CASE k = "faults"
  BY <1>1, <1>4 DEF Spend, IssueAutomationAssumption
<1> QED
  BY <1>2, <1>3, <1>4

LEMMA BudgetType ==
  ASSUME IssueAutomationAssumption, TypeOK, Next
  PROVE  budget' \in [asks: 0..MaxAsks, edits: 0..MaxEdits, faults: 0..MaxFaults]
<1>1. budget' = budget \/ Spend("asks") \/ Spend("edits") \/ Spend("faults")
  BY DEF Next, CreateIssue, AttachProject, DetachProject, OldProducer, Ask, Handle, LoadForAnalysis,
         CheckAnalysis, CreateAnalysis, SkipAnalysis, LoadForTriage, EnsureTriage, AnalysisEnds,
         UpdateTitle, UpdateIssueLabels, CancelRuntimeTask, Crash, Claim, ClaimRuntimeTask,
         MarkRunning, Answer, ReportResult, ReportInvalid, ReportFailed, Report, ReportLost, Lost,
         Kept
<1> QED
  BY <1>1, SpendType DEF TypeOK

\* A handler's step replaces or removes a request and leaves the rest typed.
LEMMA AdvanceType ==
  ASSUME TypeOK, NEW r \in requests, NEW pc \in Steps, Advance(r, pc)
  PROVE  requests' \subseteq Request
BY DEF TypeOK, Advance, Request

\* Steps that leave tasks, worker, issue and history alone keep the invariant.
LEMMA QuietStep ==
  ASSUME IssueAutomationAssumption, IInv, Next, UNCHANGED <<issue, tasks, worker, past>>,
         requests' \subseteq Request,
         requests' # {} => issue.made, analyses' \in Seq(Analysis)
  PROVE  IInv'
BY BudgetType DEF IInv, TypeOK, WorkerHasTask, ExpectsDraft, Settled, OneActiveTask,
                  HumanTitleWins, HumanTypeWins

\* The status of one task changes; the others and every expected title stay.
LEMMA StatusStep ==
  ASSUME IInv, NEW i \in DOMAIN tasks, NEW s \in Active \cup Final,
         tasks[i].status \in Active \/ s \in Final,
         tasks' = [tasks EXCEPT ![i].status = s]
  PROVE  /\ tasks' \in Seq(TriageTask) /\ Len(tasks') = Len(tasks)
         /\ DOMAIN tasks' = DOMAIN tasks
         /\ OneActiveTask' /\ ExpectsDraft'
<1>1. tasks \in Seq(TriageTask)
  BY DEF IInv, TypeOK
<1>2. [tasks[i] EXCEPT !.status = s] \in TriageTask
  <2>1. tasks[i] \in TriageTask
    BY <1>1
  <2> QED
    BY <2>1 DEF TriageTask
<1>3. tasks' \in Seq(TriageTask) /\ Len(tasks') = Len(tasks) /\ DOMAIN tasks' = DOMAIN tasks
  BY <1>1, <1>2
<1>4. \A j \in DOMAIN tasks : /\ tasks'[j].expected = tasks[j].expected
                              /\ j # i => tasks'[j].status = tasks[j].status
                              /\ j = i => tasks'[j].status = s
  <2> TAKE j \in DOMAIN tasks
  <2>1. tasks[j] \in TriageTask
    BY <1>1
  <2> QED
    BY <1>1, <2>1 DEF TriageTask
<1>5. Active \cap Final = {}
  BY DEF Active, Final
<1> QED
  BY <1>3, <1>4, <1>5 DEF IInv, OneActiveTask, ExpectsDraft

\* A new request is typed.
LEMMA AskType ==
  ASSUME IssueAutomationAssumption, TypeOK, NEW of \in {"create", "attach", "old"}, NEW pc \in Steps, Ask(of, pc)
  PROVE  requests' \subseteq Request
<1>1. budget.asks \in 1..MaxAsks
  BY DEF IssueAutomationAssumption, Ask, Spend, TypeOK
<1> QED
  BY <1>1 DEF Ask, TypeOK, Request

\* A handler of the analysis moves on or leaves.
LEMMA AnalysisHandler ==
  ASSUME IInv, NEW r \in requests,
         AfterAnalysis(r) \/ Advance(r, "exists") \/ Advance(r, "session") \/ Advance(r, "ensure")
         \/ Leave(r)
  PROVE  requests' \subseteq Request /\ (requests' # {} => issue.made)
<1>1. TypeOK /\ issue.made /\ requests \subseteq Request
  BY DEF IInv, Settled, TypeOK
<1>2. CASE Leave(r)
  BY <1>1, <1>2 DEF Leave
<1>3. ASSUME NEW pc \in {"exists", "session", "triage", "ensure"}, Advance(r, pc)
      PROVE requests' \subseteq Request
  BY <1>1, <1>3, AdvanceType DEF Steps
<1> QED
  BY <1>1, <1>2, <1>3 DEF AfterAnalysis

\* One step of a handler.
LEMMA HandleStep ==
  ASSUME IssueAutomationAssumption, IInv, Next, NEW r \in requests, Handle(r)
  PROVE  IInv'
<1>1. analyses \in Seq(Analysis) /\ issue.project \in Projects \cup {None}
  BY DEF IInv, TypeOK
<1>2. CASE LoadForAnalysis(r) \/ CheckAnalysis(r) \/ SkipAnalysis(r) \/ LoadForTriage(r)
  <2>1. /\ UNCHANGED <<issue, tasks, worker, past, analyses>>
        /\ requests' \subseteq Request /\ (requests' # {} => issue.made)
    BY <1>2, AnalysisHandler DEF LoadForAnalysis, CheckAnalysis, SkipAnalysis, LoadForTriage
  <2> QED
    BY <1>1, <2>1, QuietStep
<1>3. CASE CreateAnalysis(r)
  <2>1. analyses' \in Seq(Analysis)
    <3> DEFINE a == [project |-> issue.project, ended |-> FALSE, by |-> r.id, racing |-> Racing(r)]
    <3>0. r.id \in 1..MaxAsks /\ Racing(r) \subseteq 1..MaxAsks
      BY DEF IInv, TypeOK, Request, Racing
    <3>1. a \in Analysis /\ analyses' = Append(analyses, a)
      BY <1>1, <1>3, <3>0 DEF CreateAnalysis, Analysis
    <3> HIDE DEF a
    <3> QED
      BY <1>1, <3>1
  <2>2. /\ UNCHANGED <<issue, tasks, worker, past>>
        /\ requests' \subseteq Request /\ (requests' # {} => issue.made)
    BY <1>3, AnalysisHandler DEF CreateAnalysis
  <2> QED
    BY <2>1, <2>2, QuietStep
<1>4. CASE EnsureTriage(r)
  <2>1. /\ UNCHANGED <<issue, analyses, worker, budget>> /\ Leave(r)
        /\ past' = [past EXCEPT !.drafted = @ \/ r.of = "create"]
    BY <1>4 DEF EnsureTriage
  <2>2. requests' \subseteq Request
    BY <2>1 DEF Leave, IInv, TypeOK
  <2>3. /\ past' \in [title: Titles \cup {None}, typed: BOOLEAN, type: Types \cup {None},
                      judged: BOOLEAN, drafted: BOOLEAN]
        /\ past'.title = past.title /\ past'.typed = past.typed /\ past'.type = past.type
        /\ past'.judged = past.judged
    <3>1. (past.drafted \/ r.of = "create") \in BOOLEAN
      OBVIOUS
    <3> QED
      BY <2>1, <3>1 DEF IInv, TypeOK
  <2>4. issue.made
    BY DEF IInv, Settled
  <2>5. /\ tasks' \in Seq(TriageTask) /\ Len(tasks') <= MaxTasks
        /\ OneActiveTask' /\ ExpectsDraft' /\ DOMAIN tasks \subseteq DOMAIN tasks'
    <3>1. tasks \in Seq(TriageTask) /\ Expected(r) \in {Draft, None} /\ Draft \in Titles
      BY DEF IssueAutomationAssumption, IInv, TypeOK, Expected
    <3>2. CASE UNCHANGED tasks
      BY <3>1, <3>2 DEF IInv, OneActiveTask, ExpectsDraft
    <3>3. CASE /\ ActiveTasks = {} /\ Len(tasks) < MaxTasks
               /\ tasks' = Append(tasks, [status |-> "queued", expected |-> Expected(r)])
      <4> DEFINE t == [status |-> "queued", expected |-> Expected(r)]
      <4>1. t \in TriageTask
        BY <3>1 DEF TriageTask, Active
      <4> HIDE DEF t
      <4>2. tasks' \in Seq(TriageTask) /\ Len(tasks') = Len(tasks) + 1
        BY <3>1, <3>3, <4>1 DEF t
      <4>3. \A i \in DOMAIN tasks' : (i \in DOMAIN tasks /\ tasks'[i] = tasks[i])
                                     \/ (i = Len(tasks) + 1 /\ tasks'[i] = t)
        BY <3>1, <3>3, <4>1 DEF t
      <4>4. \A i \in DOMAIN tasks : tasks[i].status \notin Active
        BY <3>3 DEF ActiveTasks
      <4>5. OneActiveTask' /\ ExpectsDraft'
        BY <3>1, <4>3, <4>4 DEF IInv, OneActiveTask, ExpectsDraft, t
      <4> QED
        BY <3>1, <3>3, <4>2, <4>5 DEF IssueAutomationAssumption
    <3>4. ASSUME NEW i \in ActiveTasks,
                 tasks' = [tasks EXCEPT ![i].expected = Upgraded(@, Expected(r))]
          PROVE /\ tasks' \in Seq(TriageTask) /\ Len(tasks') <= MaxTasks
                /\ OneActiveTask' /\ ExpectsDraft' /\ DOMAIN tasks \subseteq DOMAIN tasks'
      <4>1. i \in DOMAIN tasks /\ tasks[i] \in TriageTask /\ tasks[i].expected \in {Draft, None}
        BY <3>1 DEF ActiveTasks, IInv, ExpectsDraft
      <4> DEFINE e == Upgraded(tasks[i].expected, Expected(r))
      <4>2. e \in {Draft, None}
        BY <3>1, <4>1 DEF Upgraded
      <4> HIDE DEF e
      <4>3. tasks' = [tasks EXCEPT ![i] = [tasks[i] EXCEPT !.expected = e]]
        BY <3>4 DEF e
      <4>4. [tasks[i] EXCEPT !.expected = e] \in TriageTask
        BY <3>1, <4>1, <4>2 DEF TriageTask
      <4>5. tasks' \in Seq(TriageTask) /\ Len(tasks') = Len(tasks) /\ DOMAIN tasks' = DOMAIN tasks
        BY <3>1, <4>1, <4>3, <4>4
      <4>6. \A j \in DOMAIN tasks : /\ tasks'[j].status = tasks[j].status
                                    /\ tasks'[j].expected \in {tasks[j].expected, e}
        <5> TAKE j \in DOMAIN tasks
        <5>1. tasks[j] \in TriageTask
          BY <3>1
        <5> QED
          BY <3>1, <4>1, <4>3, <5>1 DEF TriageTask
      <4> QED
        BY <4>2, <4>5, <4>6 DEF IInv, OneActiveTask, ExpectsDraft
    <3> QED
      BY <1>4, <3>2, <3>3, <3>4 DEF EnsureTriage, IInv
  <2> QED
    BY <2>1, <2>2, <2>3, <2>4, <2>5, BudgetType
       DEF IInv, TypeOK, WorkerHasTask, Settled, HumanTitleWins, HumanTypeWins
<1> QED
  BY <1>2, <1>3, <1>4 DEF Handle

\* What people do: create, edit, cancel; and a crash.
LEMMA PeopleStep ==
  ASSUME IssueAutomationAssumption, IInv, Next,
         \/ \E p \in Projects \cup {None}, t \in Types \cup {None} : CreateIssue(p, t)
         \/ \E p \in Projects : AttachProject(p)
         \/ DetachProject \/ OldProducer
         \/ \E i \in DOMAIN analyses : AnalysisEnds(i)
         \/ \E t \in Titles : UpdateTitle(t)
         \/ \E t \in Types \cup {None} : UpdateIssueLabels(t)
         \/ \E i \in DOMAIN tasks : CancelRuntimeTask(i)
         \/ Crash
  PROVE  IInv'
<1> USE DEF IssueAutomationAssumption
<1>0. TypeOK
  BY DEF IInv
<1>1. ASSUME NEW p \in Projects \cup {None}, NEW t \in Types \cup {None}, CreateIssue(p, t)
      PROVE IInv'
  <2>1. requests' \subseteq Request
    BY <1>0, <1>1, AskType DEF CreateIssue, Steps
  <2>2. tasks = <<>> /\ ~past.typed /\ past.title = None
    BY <1>0, <1>1 DEF CreateIssue, IInv, Settled, TypeOK
  <2> QED
    BY <1>1, <2>1, <2>2, BudgetType
       DEF CreateIssue, IInv, TypeOK, WorkerHasTask, ExpectsDraft, Settled, OneActiveTask,
           HumanTitleWins, HumanTypeWins
<1>2. ASSUME NEW p \in Projects, AttachProject(p) PROVE IInv'
  <2>1. requests' \subseteq Request
    BY <1>0, <1>2, AskType DEF AttachProject, Steps
  <2> QED
    BY <1>2, <2>1, BudgetType
       DEF AttachProject, IInv, TypeOK, WorkerHasTask, ExpectsDraft, Settled, OneActiveTask,
           HumanTitleWins, HumanTypeWins
<1>3. CASE DetachProject
  BY <1>3, BudgetType
     DEF DetachProject, IInv, TypeOK, WorkerHasTask, ExpectsDraft, Settled, OneActiveTask,
         HumanTitleWins, HumanTypeWins
<1>4. CASE OldProducer
  <2>1. requests' \subseteq Request
    BY <1>0, <1>4, AskType DEF OldProducer, Steps
  <2> QED
    BY <1>0, <1>4, <2>1, QuietStep DEF OldProducer, TypeOK
<1>5. ASSUME NEW i \in DOMAIN analyses, AnalysisEnds(i) PROVE IInv'
  <2>0. analyses \in Seq(Analysis)
    BY <1>0 DEF TypeOK
  <2>1. analyses[i] \in Analysis
    BY <2>0
  <2>2. [analyses[i] EXCEPT !.ended = TRUE] \in Analysis
    BY <2>1 DEF Analysis
  <2>3. analyses' \in Seq(Analysis)
    BY <2>0, <1>5, <2>2 DEF AnalysisEnds
  <2> QED
    BY <1>0, <1>5, <2>3, QuietStep DEF AnalysisEnds, TypeOK, IInv, Settled
<1>6. ASSUME NEW t \in Titles, UpdateTitle(t) PROVE IInv'
  BY <1>6, BudgetType
     DEF UpdateTitle, IInv, TypeOK, WorkerHasTask, ExpectsDraft, Settled, OneActiveTask,
         HumanTitleWins, HumanTypeWins
<1>7. ASSUME NEW t \in Types \cup {None}, UpdateIssueLabels(t) PROVE IInv'
  BY <1>7, BudgetType
     DEF UpdateIssueLabels, IInv, TypeOK, WorkerHasTask, ExpectsDraft, Settled, OneActiveTask,
         HumanTitleWins, HumanTypeWins
<1>8. ASSUME NEW i \in DOMAIN tasks, CancelRuntimeTask(i) PROVE IInv'
  <2>1. /\ tasks' \in Seq(TriageTask) /\ Len(tasks') = Len(tasks) /\ DOMAIN tasks' = DOMAIN tasks
        /\ OneActiveTask' /\ ExpectsDraft'
    BY <1>8, StatusStep DEF CancelRuntimeTask, Final
  <2> QED
    BY <1>8, <2>1, BudgetType
       DEF CancelRuntimeTask, IInv, TypeOK, WorkerHasTask, Settled, HumanTitleWins, HumanTypeWins
<1>9. CASE Crash
  BY <1>0, <1>9, QuietStep DEF Crash, TypeOK
<1> QED
  BY <1>1, <1>2, <1>3, <1>4, <1>5, <1>6, <1>7, <1>8, <1>9

\* Steps that change a task and the worker, and leave the issue alone.
LEMMA TaskStep ==
  ASSUME IssueAutomationAssumption, IInv, Next, tasks # <<>>,
         UNCHANGED <<issue, requests, analyses, past>>,
         tasks' \in Seq(TriageTask), Len(tasks') = Len(tasks), OneActiveTask', ExpectsDraft',
         worker' \in [task: 0..MaxTasks, step: {"idle", "claimed", "running"}], WorkerHasTask'
  PROVE  IInv'
<1>1. TypeOK'
  BY BudgetType DEF IInv, TypeOK
<1>2. Settled' /\ HumanTitleWins' /\ HumanTypeWins'
  BY DEF IInv, Settled, HumanTitleWins, HumanTypeWins
<1>3. Len(tasks') <= MaxTasks
  BY DEF IInv
<1> QED
  BY <1>1, <1>2, <1>3 DEF IInv

\* A worker without a task.
LEMMA IdleType ==
  ASSUME IssueAutomationAssumption
  PROVE  Idle \in [task: 0..MaxTasks, step: {"idle", "claimed", "running"}] /\ Idle.step = "idle"
BY DEF IssueAutomationAssumption, Idle

\* The worker's claim and its first report.
LEMMA WorkerStep ==
  ASSUME IssueAutomationAssumption, IInv, Next, Claim \/ MarkRunning \/ ReportLost
  PROVE  IInv'
<1> USE DEF IssueAutomationAssumption
<1>0. tasks \in Seq(TriageTask)
  BY DEF IInv, TypeOK
<1>1. ASSUME NEW i \in DOMAIN tasks, ClaimRuntimeTask(i) PROVE IInv'
  <2>1. /\ tasks' \in Seq(TriageTask) /\ Len(tasks') = Len(tasks) /\ DOMAIN tasks' = DOMAIN tasks
        /\ OneActiveTask' /\ ExpectsDraft'
    BY <1>1, StatusStep DEF ClaimRuntimeTask, Claimable, Stale, Queued, Active
  <2>2. i \in 1..MaxTasks
    BY DEF IInv, TypeOK
  <2>3. worker' \in {Idle, [task |-> i, step |-> "claimed"]}
    BY <1>1 DEF ClaimRuntimeTask, Lost
  <2>4. worker' \in [task: 0..MaxTasks, step: {"idle", "claimed", "running"}] /\ WorkerHasTask'
    BY <2>1, <2>2, <2>3, IdleType DEF WorkerHasTask
  <2>5. UNCHANGED <<issue, requests, analyses, past>>
    BY <1>1 DEF ClaimRuntimeTask
  <2>6. tasks # <<>>
    BY <1>0
  <2> QED
    BY <2>1, <2>4, <2>5, <2>6, TaskStep
<1>2. CASE MarkRunning
  <2>1. worker.task \in DOMAIN tasks
    BY <1>2 DEF MarkRunning, IInv, WorkerHasTask
  <2>2. /\ tasks' \in Seq(TriageTask) /\ Len(tasks') = Len(tasks) /\ DOMAIN tasks' = DOMAIN tasks
        /\ OneActiveTask' /\ ExpectsDraft'
    <3>1. CASE Reportable
      BY <1>2, <2>1, <3>1, StatusStep DEF MarkRunning, Reportable, Active
    <3>2. CASE ~Reportable
      BY <1>2, <3>2 DEF MarkRunning, IInv, TypeOK, OneActiveTask, ExpectsDraft
    <3> QED
      BY <3>1, <3>2
  <2>3. worker' \in {Idle, [worker EXCEPT !.step = "running"]}
    BY <1>2 DEF MarkRunning, Lost
  <2>4. worker' \in [task: 0..MaxTasks, step: {"idle", "claimed", "running"}] /\ WorkerHasTask'
    BY <2>1, <2>2, <2>3, IdleType DEF WorkerHasTask, IInv, TypeOK
  <2>5. UNCHANGED <<issue, requests, analyses, past>>
    BY <1>2 DEF MarkRunning
  <2>6. tasks # <<>>
    BY <1>0, <2>1
  <2> QED
    BY <2>2, <2>4, <2>5, BudgetType
       DEF IInv, TypeOK, WorkerHasTask, Settled, HumanTitleWins, HumanTypeWins
<1>3. CASE ReportLost
  BY <1>3, BudgetType, IdleType
     DEF ReportLost, Lost, IInv, TypeOK, WorkerHasTask, ExpectsDraft, Settled, OneActiveTask,
         HumanTitleWins, HumanTypeWins
<1> QED
  BY <1>1, <1>2, <1>3 DEF Claim

\* What a report may make of the issue: settled, its human title and type kept.
LEMMA ReportStep ==
  ASSUME IssueAutomationAssumption, IInv, Next, NEW s \in Final, NEW next, Report(s, next),
         next \in [made: BOOLEAN, project: Projects \cup {None}, title: Titles,
                   type: Types \cup {None},
                   triage: {"pending", "classified", "failed", "none"}],
         next.made = issue.made, next.triage # "pending",
         issue.title # Draft => next.title = issue.title,
         issue.triage # "pending" => next.type = issue.type
  PROVE  IInv'
<1> USE DEF IssueAutomationAssumption
<1>1. worker.task \in DOMAIN tasks /\ tasks # <<>> /\ worker' = Idle
  BY DEF Report, IInv, WorkerHasTask, TypeOK
<1>2. CASE Reportable
  <2>1. /\ tasks' = [tasks EXCEPT ![worker.task].status = s] /\ issue' = next
        /\ past' = [past EXCEPT !.judged = TRUE] /\ UNCHANGED <<requests, analyses>>
    BY <1>2 DEF Report
  <2>2. /\ tasks' \in Seq(TriageTask) /\ Len(tasks') = Len(tasks) /\ DOMAIN tasks' = DOMAIN tasks
        /\ OneActiveTask' /\ ExpectsDraft'
    BY <1>1, <2>1, StatusStep
  <2> QED
    BY <1>1, <2>1, <2>2, BudgetType, IdleType
       DEF IInv, TypeOK, WorkerHasTask, Settled, HumanTitleWins, HumanTypeWins
<1>3. CASE ~Reportable
  BY <1>1, <1>3, BudgetType, IdleType
     DEF Report, IInv, TypeOK, WorkerHasTask, ExpectsDraft, Settled, OneActiveTask,
         HumanTitleWins, HumanTypeWins
<1> QED
  BY <1>2, <1>3

\* The worker's final report.
LEMMA AnswerStep ==
  ASSUME IssueAutomationAssumption, IInv, Next, Answer PROVE IInv'
<1>1. Untriaged \in [made: BOOLEAN, project: Projects \cup {None}, title: Titles,
                     type: Types \cup {None},
                     triage: {"pending", "classified", "failed", "none"}]
      /\ Untriaged.made = issue.made /\ Untriaged.triage # "pending"
      /\ Untriaged.title = issue.title /\ Untriaged.type = issue.type
  BY DEF Untriaged, IInv, TypeOK
<1>2. CASE ReportInvalid \/ ReportFailed
  BY <1>1, <1>2, ReportStep DEF ReportInvalid, ReportFailed, Final
<1>3. ASSUME NEW title \in Titles, NEW type \in Types, ReportResult(title, type) PROVE IInv'
  <2>1. worker.task \in DOMAIN tasks
    BY <1>3 DEF ReportResult, Report, IInv, WorkerHasTask
  <2>2. tasks[worker.task].expected \in {Draft, None}
    BY <2>1 DEF IInv, ExpectsDraft
  <2> DEFINE expected == tasks[worker.task].expected
             next == Triaged(expected, title, type)
  <2>3. Retitled(expected, title) \in {issue.title, title}
        /\ (issue.title # Draft => Retitled(expected, title) = issue.title)
    BY <2>2 DEF Retitled
  <2> HIDE DEF expected
  <2>4. next \in [made: BOOLEAN, project: Projects \cup {None}, title: Titles,
                  type: Types \cup {None}, triage: {"pending", "classified", "failed", "none"}]
        /\ next.made = issue.made /\ next.triage # "pending"
        /\ (issue.title # Draft => next.title = issue.title)
        /\ (issue.triage # "pending" => next.type = issue.type)
    BY <2>3 DEF Triaged, Typable, IInv, TypeOK
  <2>5. Report("completed", next)
    BY <1>3 DEF ReportResult, expected
  <2> QED
    BY <2>4, <2>5, ReportStep DEF Final
<1> QED
  BY <1>2, <1>3 DEF Answer

LEMMA StepIInv ==
  ASSUME IssueAutomationAssumption, IInv, [Next]_vars
  PROVE  IInv'
<1>1. CASE Next
  BY <1>1, HandleStep, PeopleStep, WorkerStep, AnswerStep DEF Next
<1>2. CASE UNCHANGED vars
  BY <1>2 DEF vars, IInv, TypeOK, WorkerHasTask, ExpectsDraft, Settled, OneActiveTask,
              HumanTitleWins, HumanTypeWins
<1> QED
  BY <1>1, <1>2

\* Once the create request has passed, an active task refines the draft, or none
\* is active and none is needed, until somebody cancels one.
Drafts ==
  past.drafted =>
    /\ issue.made
    /\ Cancelled \/ \A i \in ActiveTasks : tasks[i].expected = Draft
    /\ Cancelled \/ ActiveTasks # {} \/ ~NeedsTriage

\* Steps that change no task and make no issue pending keep the draft's promise.
LEMMA DraftsQuiet ==
  ASSUME Drafts, UNCHANGED tasks, past'.drafted => past.drafted,
         issue.made => issue'.made /\ (NeedsTriage' => NeedsTriage)
  PROVE  Drafts'
BY DEF Drafts, Cancelled, ActiveTasks

\* A task moves on: to another active status, to its end with the issue settled,
\* or to "cancelled".
LEMMA DraftsStatus ==
  ASSUME IInv, Drafts, NEW i \in DOMAIN tasks, NEW s \in Active \cup Final,
         tasks[i].status \in Active, tasks' = [tasks EXCEPT ![i].status = s],
         past'.drafted = past.drafted, issue.made => issue'.made,
         \/ s \in Active /\ (NeedsTriage' => NeedsTriage)
         \/ ~NeedsTriage'
         \/ s = "cancelled"
  PROVE  Drafts'
<1>1. tasks \in Seq(TriageTask)
  BY DEF IInv, TypeOK
<1>2. DOMAIN tasks' = DOMAIN tasks
  BY <1>1
<1>3. \A j \in DOMAIN tasks : /\ tasks'[j].expected = tasks[j].expected
                              /\ j # i => tasks'[j].status = tasks[j].status
                              /\ j = i => tasks'[j].status = s
  <2> TAKE j \in DOMAIN tasks
  <2>1. tasks[j] \in TriageTask
    BY <1>1
  <2> QED
    BY <1>1, <2>1 DEF TriageTask
<1>4. "cancelled" \notin Active
  BY DEF Active
<1>5. Cancelled => Cancelled'
  BY <1>2, <1>3, <1>4 DEF Cancelled
<1>6. ActiveTasks' \subseteq ActiveTasks /\ (s \in Active => ActiveTasks' = ActiveTasks)
  BY <1>2, <1>3 DEF ActiveTasks
<1>7. s = "cancelled" => Cancelled'
  BY <1>2, <1>3 DEF Cancelled
<1>8. ActiveTasks \subseteq DOMAIN tasks
  BY DEF ActiveTasks
<1> QED
  BY <1>3, <1>5, <1>6, <1>7, <1>8 DEF Drafts

\* The atomic section of a triage request.
LEMMA DraftsEnsure ==
  ASSUME IssueAutomationAssumption, IInv, Drafts, NEW r \in requests, EnsureTriage(r)
  PROVE  Drafts'
<1>1. /\ tasks \in Seq(TriageTask) /\ issue.made /\ issue' = issue
      /\ past \in [title: Titles \cup {None}, typed: BOOLEAN, type: Types \cup {None},
                   judged: BOOLEAN, drafted: BOOLEAN]
  BY DEF IInv, TypeOK, Settled, EnsureTriage
<1>2. past'.drafted = (past.drafted \/ r.of = "create") /\ NeedsTriage' = NeedsTriage
  BY <1>1 DEF EnsureTriage, NeedsTriage
<1>3. ASSUME ActiveTasks = {}, ~StillNeeded, UNCHANGED tasks PROVE Drafts'
  BY <1>1, <1>2, <1>3 DEF Drafts, StillNeeded, ActiveTasks, Cancelled
<1>4. ASSUME ActiveTasks = {}, StillNeeded,
             tasks' = Append(tasks, [status |-> "queued", expected |-> Expected(r)])
      PROVE Drafts'
  <2> DEFINE t == [status |-> "queued", expected |-> Expected(r)]
  <2>1. /\ Len(tasks) + 1 \in DOMAIN tasks' /\ tasks'[Len(tasks) + 1] = t
        /\ \A i \in DOMAIN tasks' : \/ i \in DOMAIN tasks /\ tasks'[i] = tasks[i]
                                    \/ i = Len(tasks) + 1 /\ tasks'[i] = t
        /\ \A i \in DOMAIN tasks : i \in DOMAIN tasks' /\ tasks'[i] = tasks[i]
    BY <1>1, <1>4
  <2>2. ActiveTasks' = {Len(tasks) + 1}
    BY <1>4, <2>1 DEF ActiveTasks, Active
  <2>3. Cancelled => Cancelled'
    BY <2>1 DEF Cancelled
  <2>4. past.drafted => Cancelled
    BY <1>4 DEF Drafts, StillNeeded
  <2>5. r.of = "create" => t.expected = Draft
    BY DEF Expected
  <2> QED
    BY <1>1, <1>2, <2>1, <2>2, <2>3, <2>4, <2>5 DEF Drafts
<1>5. ASSUME NEW i \in ActiveTasks,
             tasks' = [tasks EXCEPT ![i].expected = Upgraded(@, Expected(r))]
      PROVE Drafts'
  <2> DEFINE e == Upgraded(tasks[i].expected, Expected(r))
  <2>1. i \in DOMAIN tasks /\ tasks[i].expected \in {Draft, None} /\ ActiveTasks = {i}
    BY DEF ActiveTasks, IInv, OneActiveTask, ExpectsDraft
  <2>2. /\ DOMAIN tasks' = DOMAIN tasks /\ tasks'[i].expected = e
        /\ \A j \in DOMAIN tasks : tasks'[j].status = tasks[j].status
    <3>1. DOMAIN tasks' = DOMAIN tasks
      BY <1>1, <1>5, <2>1
    <3>2. ASSUME NEW j \in DOMAIN tasks
          PROVE  tasks'[j].status = tasks[j].status /\ (j = i => tasks'[j].expected = e)
      <4>1. tasks[j] \in TriageTask
        BY <1>1
      <4> QED
        BY <1>1, <1>5, <2>1, <4>1 DEF TriageTask
    <3> QED
      BY <2>1, <3>1, <3>2
  <2>3. ActiveTasks' = {i} /\ Cancelled' = Cancelled
    BY <2>1, <2>2 DEF ActiveTasks, Cancelled
  <2>4. e = Draft \/ (r.of # "create" /\ e = tasks[i].expected)
    BY <2>1 DEF Upgraded, Expected
  <2> HIDE DEF e
  <2> QED
    BY <1>1, <1>2, <2>1, <2>2, <2>3, <2>4 DEF Drafts
<1> QED
  BY <1>3, <1>4, <1>5 DEF EnsureTriage

LEMMA StepDrafts ==
  ASSUME IssueAutomationAssumption, IInv, Drafts, [Next]_vars
  PROVE  Drafts'
<1>1. CASE UNCHANGED vars
  BY <1>1 DEF vars, Drafts, Cancelled, ActiveTasks, NeedsTriage
<1>2. ASSUME NEW r \in requests, Handle(r) PROVE Drafts'
  <2>1. CASE EnsureTriage(r)
    BY <2>1, DraftsEnsure
  <2>2. CASE ~EnsureTriage(r)
    BY <1>2, <2>2, DraftsQuiet
       DEF Handle, LoadForAnalysis, CheckAnalysis, CreateAnalysis, SkipAnalysis, LoadForTriage,
           NeedsTriage
  <2> QED
    BY <2>1, <2>2
<1>3. ASSUME NEW p \in Projects \cup {None}, NEW t \in Types \cup {None}, CreateIssue(p, t)
      PROVE  Drafts'
  BY <1>3, DraftsQuiet DEF CreateIssue
<1>4. ASSUME \/ \E p \in Projects : AttachProject(p)
             \/ DetachProject \/ OldProducer \/ Crash \/ ReportLost
             \/ \E i \in DOMAIN analyses : AnalysisEnds(i)
      PROVE  Drafts'
  BY <1>4, DraftsQuiet
     DEF AttachProject, DetachProject, OldProducer, AnalysisEnds, Crash, ReportLost, NeedsTriage,
         IInv, TypeOK
<1>5. ASSUME NEW t \in Titles, UpdateTitle(t) PROVE Drafts'
  BY <1>5, DraftsQuiet DEF UpdateTitle, NeedsTriage, IInv, TypeOK
<1>6. ASSUME NEW t \in Types \cup {None}, UpdateIssueLabels(t) PROVE Drafts'
  BY <1>6, DraftsQuiet DEF UpdateIssueLabels, NeedsTriage, IInv, TypeOK
<1>7. ASSUME NEW i \in DOMAIN tasks, CancelRuntimeTask(i) PROVE Drafts'
  BY <1>7, DraftsStatus DEF CancelRuntimeTask, Final
<1>8. ASSUME NEW i \in DOMAIN tasks, ClaimRuntimeTask(i) PROVE Drafts'
  BY <1>8, DraftsStatus DEF ClaimRuntimeTask, Claimable, Stale, Queued, Active, NeedsTriage
<1>9. CASE MarkRunning
  <2>1. worker.task \in DOMAIN tasks
    BY <1>9 DEF MarkRunning, IInv, WorkerHasTask
  <2>2. CASE Reportable
    BY <1>9, <2>1, <2>2, DraftsStatus DEF MarkRunning, Reportable, Active, NeedsTriage
  <2>3. CASE ~Reportable
    BY <1>9, <2>3, DraftsQuiet DEF MarkRunning, NeedsTriage
  <2> QED
    BY <2>2, <2>3
<1>10. ASSUME NEW s \in {"completed", "failed"}, NEW next, Report(s, next),
              issue.made => next.made, next.triage # "pending"
       PROVE  Drafts'
  <2>1. worker.task \in DOMAIN tasks
    BY <1>10 DEF Report, IInv, WorkerHasTask
  <2>2. CASE Reportable
    <3>1. /\ tasks' = [tasks EXCEPT ![worker.task].status = s] /\ issue' = next
          /\ past' = [past EXCEPT !.judged = TRUE] /\ tasks[worker.task].status \in Active
      BY <1>10, <2>2 DEF Report, Reportable, Active
    <3>2. past'.drafted = past.drafted /\ ~NeedsTriage'
      BY <1>10, <3>1 DEF NeedsTriage, IInv, TypeOK
    <3> QED
      BY <1>10, <2>1, <3>1, <3>2, DraftsStatus DEF Final
  <2>3. CASE ~Reportable
    BY <1>10, <2>3, DraftsQuiet DEF Report, NeedsTriage
  <2> QED
    BY <2>2, <2>3
<1>11. CASE Answer
  <2>1. Untriaged.made = issue.made /\ Untriaged.triage # "pending"
    BY DEF Untriaged, IInv, TypeOK
  <2>2. \A e, title, type : /\ Triaged(e, title, type).made = issue.made
                            /\ Triaged(e, title, type).triage # "pending"
    BY DEF Triaged, Typable, IInv, TypeOK
  <2> QED
    BY <1>10, <1>11, <2>1, <2>2 DEF Answer, ReportResult, ReportInvalid, ReportFailed
<1> QED
  BY <1>1, <1>2, <1>3, <1>4, <1>5, <1>6, <1>7, <1>8, <1>9, <1>11 DEF Next, Claim

-----------------------------------------------------------------------------
(* A request about to create an analysis was about to do so already when   *)
(* each of the analyses there are was made: it has looked before them.     *)
LookedBefore(r) == r.pc = "session" => \A i \in DOMAIN analyses : r.id \in analyses[i].racing
AnalysisInv == (\A r \in requests : LookedBefore(r)) /\ OnlyRacesRepeat

LEMMA StepAnalysis ==
  ASSUME TypeOK, AnalysisInv, [Next]_vars
  PROVE  AnalysisInv'
<1>t. requests \subseteq Request /\ analyses \in Seq(Analysis)
  BY DEF TypeOK
\* Whoever is at the creation now was there before, or there is no analysis.
<1>a. ASSUME UNCHANGED analyses,
             \A q \in requests' : q.pc = "session" => q \in requests \/ analyses = <<>>
      PROVE  AnalysisInv'
  BY <1>t, <1>a DEF AnalysisInv, LookedBefore, OnlyRacesRepeat
<1>b. ASSUME NEW r \in requests, NEW pc, Advance(r, pc) \/ Leave(r), UNCHANGED analyses,
             pc = "session" => analyses = <<>>
      PROVE  AnalysisInv'
  <2>1. \A q \in requests' : q \in requests \/ q.pc = pc
    BY <1>t, <1>b DEF Advance, Leave, Request
  <2> QED
    BY <1>a, <1>b, <2>1
<1>c. ASSUME NEW r \in requests, AfterAnalysis(r), UNCHANGED analyses PROVE AnalysisInv'
  <2>1. "triage" # "session" /\ (Advance(r, "triage") \/ Leave(r))
    BY <1>c DEF AfterAnalysis
  <2> QED
    BY <1>c, <1>b, <2>1
<1>1. ASSUME NEW of, NEW pc \in {"load", "triage"}, Ask(of, pc), UNCHANGED analyses
      PROVE  AnalysisInv'
  <2>1. \A q \in requests' : q \in requests \/ q.pc # "session"
    BY <1>1 DEF Ask
  <2> QED
    BY <1>1, <1>a, <2>1
<1>2. ASSUME NEW r \in requests, LoadForAnalysis(r) PROVE AnalysisInv'
  BY <1>2, <1>b, <1>c DEF LoadForAnalysis
<1>3. ASSUME NEW r \in requests, CheckAnalysis(r) PROVE AnalysisInv'
  BY <1>3, <1>b, <1>c DEF CheckAnalysis, HasAnalysis
<1>4. ASSUME NEW r \in requests, CreateAnalysis(r) PROVE AnalysisInv'
  <2> DEFINE new == [project |-> issue.project, ended |-> FALSE, by |-> r.id, racing |-> Racing(r)]
             n == Len(analyses)
  <2>1. /\ LookedBefore(r) /\ r.pc = "session" /\ analyses' = Append(analyses, new)
        /\ Advance(r, "triage") \/ Leave(r)
    BY <1>4 DEF CreateAnalysis, AnalysisInv, AfterAnalysis
  <2>2. \A q \in requests' : q.pc = "session" => q \in requests \ {r}
    BY <1>t, <2>1 DEF Advance, Leave, Request
  <2>3. \A q \in requests \ {r} : q.pc = "session" => q.id \in new.racing
    BY DEF Racing
  <2> HIDE DEF new
  <2>4. /\ n \in Nat /\ DOMAIN analyses = 1 .. n /\ DOMAIN analyses' = 1 .. n + 1
        /\ \A i \in 1 .. n : analyses'[i] = analyses[i]
        /\ analyses'[n + 1] = new
    BY <1>t, <2>1
  <2>5. \A q \in requests' : LookedBefore(q)'
    <3> SUFFICES ASSUME NEW q \in requests', q.pc = "session", NEW i \in 1 .. n + 1
                 PROVE  q.id \in analyses'[i].racing
      BY <2>4 DEF LookedBefore
    <3>1. CASE i = n + 1
      BY <2>2, <2>3, <2>4, <3>1
    <3>2. CASE i \in 1 .. n
      BY <2>2, <2>4, <3>2 DEF AnalysisInv, LookedBefore
    <3> QED
      BY <2>4, <3>1, <3>2
  <2>6. OnlyRacesRepeat'
    <3> SUFFICES ASSUME NEW i \in 1 .. n + 1, NEW j \in 1 .. n + 1, i < j
                 PROVE  analyses'[j].by \in analyses'[i].racing
      BY <2>4 DEF OnlyRacesRepeat
    <3>1. i \in 1 .. n /\ analyses'[i] = analyses[i]
      BY <2>4
    <3>2. CASE j = n + 1
      BY <2>1, <2>4, <3>1, <3>2 DEF LookedBefore, new
    <3>3. CASE j \in 1 .. n
      BY <2>4, <3>1, <3>3 DEF AnalysisInv, OnlyRacesRepeat
    <3> QED
      BY <2>4, <3>2, <3>3
  <2> QED
    BY <2>5, <2>6 DEF AnalysisInv
<1>5. ASSUME NEW r \in requests, SkipAnalysis(r) PROVE AnalysisInv'
  BY <1>5, <1>c DEF SkipAnalysis
<1>6. ASSUME NEW r \in requests, LoadForTriage(r) PROVE AnalysisInv'
  BY <1>6, <1>b DEF LoadForTriage
<1>7. ASSUME NEW r \in requests, EnsureTriage(r) PROVE AnalysisInv'
  BY <1>7, <1>b DEF EnsureTriage
<1>8. ASSUME NEW i \in DOMAIN analyses, AnalysisEnds(i) PROVE AnalysisInv'
  <2>1. /\ requests' = requests /\ DOMAIN analyses' = DOMAIN analyses
        /\ \A j \in DOMAIN analyses : /\ analyses'[j].by = analyses[j].by
                                      /\ analyses'[j].racing = analyses[j].racing
    BY <1>t, <1>8 DEF AnalysisEnds, Analysis
  <2> QED
    BY <2>1 DEF AnalysisInv, LookedBefore, OnlyRacesRepeat
<1>9. CASE UNCHANGED <<requests, analyses>>
  BY <1>9, <1>a
<1>10. CASE Crash
  BY <1>10, <1>a DEF Crash
<1>11. CASE \/ \E p \in Projects \cup {None}, t \in Types \cup {None} : CreateIssue(p, t)
            \/ \E p \in Projects : AttachProject(p)
            \/ OldProducer
  BY <1>1, <1>11 DEF CreateIssue, AttachProject, OldProducer
<1>12. CASE DetachProject \/ (\E t \in Titles : UpdateTitle(t)) \/ (\E t \in Types \cup {None} : UpdateIssueLabels(t))
            \/ (\E i \in DOMAIN tasks : CancelRuntimeTask(i))
  BY <1>9, <1>12 DEF DetachProject, UpdateTitle, UpdateIssueLabels, CancelRuntimeTask
<1>13. CASE Claim \/ MarkRunning \/ Answer \/ ReportLost
  BY <1>9, <1>13 DEF Claim, ClaimRuntimeTask, MarkRunning, Answer, ReportResult, ReportInvalid, ReportFailed,
     Report, ReportLost
<1> QED
  BY <1>2, <1>3, <1>4, <1>5, <1>6, <1>7, <1>8, <1>9, <1>10, <1>11, <1>12, <1>13 DEF Next, Handle, vars

\* Every variable has its type in every reachable state.
THEOREM TypeCorrect ==
  ASSUME IssueAutomationAssumption PROVE Spec => []TypeOK
<1>1. IInv => TypeOK
  BY DEF IInv
<1>2. Init => IInv
  BY InitIInv
<1>3. IInv /\ [Next]_vars => IInv'
  BY StepIInv
<1> QED
  BY <1>1, <1>2, <1>3, PTL DEF Spec

\* However many producers overlap, an issue has one active triage task.
THEOREM OneTask ==
  ASSUME IssueAutomationAssumption PROVE Spec => []OneActiveTask
<1>1. IInv => OneActiveTask
  BY DEF IInv
<1>2. Init => IInv
  BY InitIInv
<1>3. IInv /\ [Next]_vars => IInv'
  BY StepIInv
<1> QED
  BY <1>1, <1>2, <1>3, PTL DEF Spec

\* No suggestion replaces a title or a type that somebody chose, and the draft of
\* the create request is what the triage refines.
THEOREM HumansAlwaysWin ==
  ASSUME IssueAutomationAssumption PROVE Spec => []HumansWin
<1>1. IInv /\ Drafts => HumansWin
  BY DEF IInv, Drafts, HumansWin, DraftKept, ActiveTasks
<1>2. Init => IInv /\ Drafts
  BY InitIInv DEF Init, Drafts
<1>3. IInv /\ Drafts /\ [Next]_vars => (IInv /\ Drafts)'
  BY StepIInv, StepDrafts
<1> QED
  BY <1>1, <1>2, <1>3, PTL DEF Spec

\* A settled issue gets no second triage turn.
THEOREM NoSecondTurnEver ==
  ASSUME IssueAutomationAssumption PROVE Spec => NoSecondTurn
<1>1. IInv /\ [Next]_vars => [past.judged => Len(tasks') = Len(tasks)]_vars
  <2> SUFFICES ASSUME IInv, Next, past.judged PROVE Len(tasks') = Len(tasks)
    OBVIOUS
  <2>1. ~NeedsTriage /\ tasks \in Seq(TriageTask)
    BY DEF IInv, Settled, NeedsTriage, TypeOK
  <2>2. CASE \E r \in requests : EnsureTriage(r)
    BY <2>1, <2>2 DEF EnsureTriage, StillNeeded, ActiveTasks
  <2>3. ASSUME NEW i \in DOMAIN tasks, NEW s,
               tasks' = [tasks EXCEPT ![i].status = s]
        PROVE Len(tasks') = Len(tasks)
    BY <2>1, <2>3
  <2>4. CASE \E i \in DOMAIN tasks : CancelRuntimeTask(i) \/ ClaimRuntimeTask(i)
    BY <2>3, <2>4 DEF CancelRuntimeTask, ClaimRuntimeTask
  <2>6. CASE MarkRunning \/ Answer
    <3>1. worker.task \in DOMAIN tasks
      BY <2>6 DEF MarkRunning, Answer, ReportResult, ReportInvalid, ReportFailed, Report, IInv,
                  WorkerHasTask
    <3> QED
      BY <2>3, <2>6, <3>1
         DEF MarkRunning, Answer, ReportResult, ReportInvalid, ReportFailed, Report
  <2>5. CASE UNCHANGED tasks
    BY <2>5
  <2> QED
    BY <2>2, <2>4, <2>5, <2>6
       DEF Next, CreateIssue, AttachProject, DetachProject, OldProducer, Handle, LoadForAnalysis,
           CheckAnalysis, CreateAnalysis, SkipAnalysis, LoadForTriage, AnalysisEnds, UpdateTitle,
           UpdateIssueLabels, Crash, Claim, ReportLost
<1>2. Init => IInv
  BY InitIInv
<1>3. IInv /\ [Next]_vars => IInv'
  BY StepIInv
<1> QED
  BY <1>1, <1>2, <1>3, PTL DEF Spec, NoSecondTurn

\* Handlers overlap as they like, and servers die between their calls of the store:
\* a second automatic analysis of an issue comes only from a request that had looked
\* before the first was there.
THEOREM OnlyRacesEverRepeat ==
  ASSUME IssueAutomationAssumption PROVE Spec => []OnlyRacesRepeat
<1>1. Init => AnalysisInv
  BY DEF Init, AnalysisInv, OnlyRacesRepeat
<1>2. TypeOK /\ AnalysisInv /\ [Next]_vars => AnalysisInv'
  BY StepAnalysis
<1>3. AnalysisInv => OnlyRacesRepeat
  BY DEF AnalysisInv
<1>4. Spec => []TypeOK
  BY TypeCorrect
<1> QED
  BY <1>1, <1>2, <1>3, <1>4, PTL DEF Spec

-----------------------------------------------------------------------------
(* The identity of a work root.                                            *)

Making == {"writes", "syncs", "removes"}

\* One worker makes the file, and the file is what that worker has done to it.
OneMaker == \A v, w \in Workers : rootPc[v] \in Making /\ rootPc[w] \in Making => v = w
MakerOwns == \A w \in Workers :
    /\ rootPc[w] \in {"writes", "removes"} => rootFile = Storage!Torn
    /\ rootPc[w] = "syncs" => rootFile = Storage!Whole(rootId[w])
    /\ rootPc[w] \in {"creates", "writes", "syncs"} => rootId[w] \in 1 .. rootMade

StorageInv == Storage!TypeOK /\ OneMaker /\ MakerOwns /\ Storage!IdentityStays

LEMMA StorageShapes ==
    /\ Storage!Absent # Storage!Torn
    /\ \A i : /\ Storage!Whole(i) # Storage!Absent /\ Storage!Whole(i) # Storage!Torn
              /\ Storage!Whole(i).kind = "whole" /\ Storage!Whole(i).id = i
  BY DEF Storage!Absent, Storage!Torn, Storage!Whole

\* A readable file is a whole one.
LEMMA ReadableIsWhole ==
    ASSUME Storage!TypeOK, Storage!Readable
    PROVE  rootFile = Storage!Whole(rootFile.id) /\ rootFile.id \in 1 .. rootMade
  BY DEF Storage!TypeOK, Storage!Readable, Storage!Absent, Storage!Torn, Storage!Whole

\* The faults under which an id cannot be taken back once it was read.
StorageReliable == WorkerFaults \subseteq {"write", "kill"}

LEMMA StorageInit ==
    ASSUME Storage!WorkerStorageAssumption, Storage!Init
    PROVE  StorageInv
  <1>1. rootPc = [w \in Workers |-> "down"] /\ rootId = [w \in Workers |-> 0] /\ rootMade = 0
    BY DEF Storage!Init, Storage!NoStorageId
  <1>2. rootFile \in {Storage!Absent, Storage!Torn} \cup {Storage!Whole(i) : i \in 1 .. rootMade}
    BY DEF Storage!Init
  <1>3. rootFaults \in 0 .. MaxWorkerFaults
    <2>1. MaxWorkerFaults \in Nat
      BY DEF Storage!WorkerStorageAssumption
    <2>2. rootFaults = 0
      BY DEF Storage!Init
    <2> QED
      BY <2>1, <2>2
  <1>4. rootServed \subseteq 1 .. rootMade /\ rootSynced \in BOOLEAN
    BY DEF Storage!Init
  <1>5. Storage!TypeOK
    BY <1>1, <1>2, <1>3, <1>4 DEF Storage!TypeOK
  <1>6. OneMaker /\ MakerOwns /\ Storage!IdentityStays
    BY <1>1 DEF Storage!Init, OneMaker, MakerOwns, Storage!IdentityStays, Making
  <1> QED
    BY <1>5, <1>6 DEF StorageInv

LEMMA StorageStep ==
    ASSUME Storage!WorkerStorageAssumption, StorageReliable, StorageInv, [Storage!Next]_(Storage!vars)
    PROVE  StorageInv'
  <1> USE DEF StorageInv, Storage!TypeOK, OneMaker, MakerOwns, Storage!IdentityStays, Making, Storage!Goto
  <1>1. ASSUME NEW w \in Workers, Storage!Start(w) PROVE StorageInv'
    BY <1>1 DEF Storage!Start
  <1>2. ASSUME NEW w \in Workers, Storage!Look(w) PROVE StorageInv'
    <2>1. CASE rootFile # Storage!Absent
      BY <1>2, <2>1, ReadableIsWhole DEF Storage!Look, Storage!ReadId, Storage!Served
    <2>2. CASE rootFile = Storage!Absent
      BY <1>2, <2>2, StorageShapes DEF Storage!Look
    <2> QED
      BY <2>1, <2>2
  <1>3. ASSUME NEW w \in Workers, Storage!Create(w) PROVE StorageInv'
    <2>1. CASE Storage!Exclusive
      <3>1. rootFile' = Storage!Torn /\ rootPc' = [rootPc EXCEPT ![w] = "writes"]
        BY <1>3, <2>1 DEF Storage!Create
      <3>2. \A v \in Workers : rootPc[v] \notin Making
        BY <2>1, StorageShapes DEF Storage!Exclusive
      <3>3. rootServed = {}
        BY <2>1, StorageShapes DEF Storage!Exclusive
      <3>4. Storage!TypeOK'
        BY <1>3, <3>1, <3>3 DEF Storage!Create
      <3>5. OneMaker' /\ MakerOwns' /\ Storage!IdentityStays'
        BY <1>3, <3>1, <3>2, <3>3 DEF Storage!Create
      <3> QED
        BY <3>4, <3>5
    <2>2. CASE ~Storage!Exclusive
      BY <1>3, <2>2 DEF Storage!Create
    <2> QED
      BY <2>1, <2>2
  <1>4. ASSUME NEW w \in Workers, Storage!Reread(w) PROVE StorageInv'
    BY <1>4, ReadableIsWhole DEF Storage!Reread, Storage!ReadId, Storage!Served
  <1>5. ASSUME NEW w \in Workers, Storage!Write(w) PROVE StorageInv'
    BY <1>5, StorageShapes DEF Storage!Write, Storage!Fault, Storage!WorkerStorageAssumption
  <1>6. ASSUME NEW w \in Workers, Storage!Sync(w) PROVE StorageInv'
    BY <1>6, StorageShapes DEF Storage!Sync, Storage!Fault, StorageReliable, Storage!Served
  <1>7. ASSUME NEW w \in Workers, Storage!Remove(w) PROVE StorageInv'
    BY <1>7, StorageShapes DEF Storage!Remove, Storage!Left
  <1>8. ASSUME NEW w \in Workers, Storage!Kill(w) PROVE StorageInv'
    BY <1>8 DEF Storage!Kill, Storage!Fault, Storage!WorkerStorageAssumption
  <1>9. CASE Storage!LosePower
    BY <1>9 DEF Storage!LosePower, Storage!Fault, StorageReliable
  <1>10. CASE UNCHANGED Storage!vars
    BY <1>10 DEF Storage!vars
  <1> QED
    BY <1>1, <1>2, <1>3, <1>4, <1>5, <1>6, <1>7, <1>8, <1>9, <1>10 DEF Storage!Next, Storage!Step

\* With faults of those kinds, for any number of workers and starts, the file
\* keeps the id a worker has registered with.
THEOREM IdentityKept ==
    ASSUME Storage!WorkerStorageAssumption, StorageReliable
    PROVE  Storage!Spec => []Storage!IdentityStays
  <1>1. Storage!Init => StorageInv
    BY StorageInit
  <1>2. StorageInv /\ [Storage!Next]_(Storage!vars) => StorageInv'
    BY StorageStep
  <1>3. StorageInv => Storage!IdentityStays
    BY DEF StorageInv
  <1> QED
    BY <1>1, <1>2, <1>3, PTL DEF Storage!Spec

\* The instance counts as this module does.
LEMMA SameStorageCardinality ==
    ASSUME NEW S
    PROVE  Storage!Cardinality(S) = Cardinality(S)
BY DEF Cardinality, Storage!Cardinality

\* A file of one id has served one id at most.
LEMMA StorageOne ==
    ASSUME Storage!IdentityStays
    PROVE  Storage!OneIdentity
<1> SUFFICES Cardinality(rootServed) <= 1
  BY SameStorageCardinality DEF Storage!OneIdentity
<1>1. rootServed \subseteq {rootFile.id}
  BY StorageShapes DEF Storage!IdentityStays
<1>2. IsFiniteSet({rootFile.id}) /\ Cardinality({rootFile.id}) = 1
  BY FS_Singleton
<1>3. Cardinality(rootServed) <= Cardinality({rootFile.id})
  BY <1>1, <1>2, FS_Subset
<1> QED
  BY <1>2, <1>3

\* And under the same assumption all workers of a root, at all times, register
\* under one identity.
THEOREM RootHasOneIdentity ==
    ASSUME Storage!WorkerStorageAssumption, StorageReliable
    PROVE  Storage!Spec => []Storage!OneIdentity
  <1>1. Storage!IdentityStays => Storage!OneIdentity
    BY StorageOne
  <1>2. Storage!Spec => []Storage!IdentityStays
    BY IdentityKept
  <1> QED
    BY <1>1, <1>2, PTL

-----------------------------------------------------------------------------
(* The host identity.                                                      *)

\* An id that is being written is new to a file that holds none; once it is
\* renamed it is the one on disk; nothing is in flight while the app is down.
HostInFlight ==
    /\ load.pc \in {"write", "rename"} => file = NoId
    /\ load.pc = "answer" => file = load.id
    /\ ~up => load = Host!NoLoad

\* The inductive invariant.
HostInv == Host!TypeOK /\ HostInFlight /\ Host!OneIdentity

LEMMA HostInit ==
    ASSUME Host!HostIdentityAssumption PROVE Host!Init => HostInv
BY DEF Host!HostIdentityAssumption, Host!Init, HostInv, Host!TypeOK, HostInFlight, Host!OneIdentity, Host!NoLoad

LEMMA HostStep ==
    ASSUME Host!HostIdentityAssumption, HostInv, [Host!Reliable]_(Host!vars)
    PROVE  HostInv'
<1> USE DEF Host!HostIdentityAssumption, HostInv, Host!TypeOK, HostInFlight, Host!OneIdentity, Host!NoLoad
<1>1. ASSUME NEW c \in Callers, Host!Call(c) PROVE HostInv'
  BY <1>1 DEF Host!Call
<1>2. CASE Host!ReadFound
  BY <1>2 DEF Host!ReadFound, Host!Settle
<1>3. CASE Host!ReadMissing
  BY <1>3 DEF Host!ReadMissing, Host!Created
<1>4. CASE Host!WriteTemp
  BY <1>4 DEF Host!WriteTemp
<1>5. CASE Host!Rename
  BY <1>5 DEF Host!Rename
<1>6. CASE Host!Answer
  BY <1>6 DEF Host!Answer, Host!Answered, Host!Settle
<1>7. CASE Host!WriteFails
  BY <1>7 DEF Host!WriteFails, Host!Rejected, Host!Settle
<1>8. CASE Host!Crash
  <2>1. crashes' \in Nat
    BY <1>8 DEF Host!Crash
  <2>2. load' = Host!NoLoad /\ answers' = answers /\ call' = [c \in Callers |-> "idle"]
    BY <1>8 DEF Host!Crash, Host!Settle
  <2> QED
    BY <1>8, <2>1, <2>2 DEF Host!Crash
<1>9. CASE Host!Restart
  BY <1>9 DEF Host!Restart
<1>10. CASE Host!Damage
  BY <1>10 DEF Host!Damage
<1>11. CASE UNCHANGED Host!vars
  BY <1>11 DEF Host!vars
<1> QED
  BY <1>1, <1>2, <1>3, <1>4, <1>5, <1>6, <1>7, <1>8, <1>9, <1>10, <1>11 DEF Host!Reliable

\* Every variable has its type in every reachable state.
THEOREM HostTypeCorrect ==
    ASSUME Host!HostIdentityAssumption PROVE Host!Spec => []Host!TypeOK
<1>1. HostInv => Host!TypeOK
  BY DEF HostInv
<1>2. Host!Init => HostInv
  BY HostInit
<1>3. HostInv /\ [Host!Reliable]_(Host!vars) => HostInv'
  BY HostStep
<1> QED
  BY <1>1, <1>2, <1>3, PTL DEF Host!Spec

\* Concurrent callers, crashes and failed writes never give a host two ids.
THEOREM OneHostIdentity ==
    ASSUME Host!HostIdentityAssumption PROVE Host!Spec => []Host!OneIdentity
<1>1. HostInv => Host!OneIdentity
  BY DEF HostInv
<1>2. Host!Init => HostInv
  BY HostInit
<1>3. HostInv /\ [Host!Reliable]_(Host!vars) => HostInv'
  BY HostStep
<1> QED
  BY <1>1, <1>2, <1>3, PTL DEF Host!Spec

-----------------------------------------------------------------------------
(* A run of an engine. The prompt fits the pipe to the engine, so that writing *)
(* it never blocks.                                                        *)
Early == adapter.step \in {"write", "await", "turn"}
Terminal == {"ok", "error", "interrupted", "garbled"}
Says(s) == {s[i] : i \in DOMAIN s}
EngineRecord == [name: Engines, alive: BOOLEAN, helper: BOOLEAN, large: {FALSE}, read: BOOLEAN,
                 replies: Nat, notes: 0 .. MaxNotes, ended: {"no", "ok", "error", "interrupted"}, fault: BOOLEAN]
AdapterRecord == [step: {"write", "await", "turn", "abort", "close", "stop", "grace", "kill", "over"},
                  timer: 0 .. 4, stops: {<<>>, <<2>>, <<4>>, <<2, 2>>}, result: Engine!Results]
RunRecord == [step: {"waiting", "stopping", "settling", "returned"}, timer: 0 .. 10,
              outcome: Engine!Results, found: BOOLEAN]

EngineTypes ==
  /\ engine \in EngineRecord
  /\ pipe \in Seq(Engine!Messages) /\ chan \in Seq(Engine!Messages) /\ Len(chan) <= Room
  /\ proc \in [closed: BOOLEAN, done: BOOLEAN] /\ reader \in BOOLEAN
  /\ request \in [number: 0 .. 4, awaited: BOOLEAN, answer: {"none", "reply", "refusal"}]
  /\ adapter \in AdapterRecord /\ run \in RunRecord
  /\ cancel \in BOOLEAN /\ artifact \in {"missing", "pending", "ready"}

(* What a step of the adapter says of the requests sent, of the stops left *)
(* and of the process.                                                     *)
StepsInv ==
  /\ Engine!At("write") => request.number < Engine!LastRequest
  /\ Engine!At("await") => Engine!Codex /\ request.number <= Engine!LastRequest
  /\ Engine!At("turn") => request.number = Engine!LastRequest
  /\ Engine!At("abort") => \/ Engine!Codex /\ adapter.stops = <<4>>
                           \/ engine.name = "pi" /\ adapter.stops = <<2, 2>> /\ adapter.timer <= 1
  /\ Engine!At("close") => Engine!Codex /\ adapter.stops = <<4>> /\ adapter.timer <= 1
  /\ Engine!At("stop") => adapter.stops \in {<<2>>, <<4>>, <<2, 2>>}
  /\ Engine!At("grace") => adapter.stops \in {<<2>>, <<4>>, <<2, 2>>} /\ adapter.timer <= Head(adapter.stops)
                           /\ proc.closed
  /\ Engine!At("kill") => /\ adapter.stops \in {<<2>>, <<4>>, <<2, 2>>} /\ adapter.timer = 4
                          /\ proc.closed /\ ~engine.alive /\ ~engine.helper
  /\ Engine!At("over") => proc.done
  /\ proc.done => ~engine.alive /\ ~engine.helper
  /\ Early => (proc.closed => proc.done) /\ adapter.result = "none"
  /\ request.awaited => Engine!Codex /\ request.answer = "none"

(* The half seconds the adapter may still take once the run is stopping,   *)
(* and that they are less than the run waits for it.                       *)
Left == CASE Engine!At("abort") -> adapter.timer + (IF Engine!Codex THEN 5 ELSE 2)
          [] Engine!At("close") -> adapter.timer + 4
          [] Engine!At("stop")  -> IF proc.done THEN 0 ELSE Head(adapter.stops)
          [] Engine!At("grace") -> adapter.timer
          [] Engine!At("kill") \/ Engine!At("over") -> 0
          [] OTHER -> 9
TimeInv == run.step = "stopping" => Left < run.timer

(* What was said is what the engine has done, and nothing that ends a turn *)
(* or answers a request is lost before the adapter has heard of it.        *)
SaidInv ==
  /\ \A m \in Says(pipe) \cup Says(chan) :
        /\ m \in {"ok", "error", "interrupted"} => engine.ended = m
        /\ m = "garbled" => engine.ended = "error"
  /\ \A m \in Says(chan) : ~Engine!Response(m)
  /\ engine.ended = "error" => engine.fault
  /\ engine.ended # "no" => engine.fault \/ request.number >= Engine!LastRequest
  /\ engine.replies <= request.number
  /\ "refusal" \in Says(pipe) /\ request.number <= Engine!LastRequest => engine.fault
  /\ request.awaited /\ engine.replies >= request.number => \E m \in Says(pipe) : Engine!Response(m)
HeardInv ==
  Early =>
    /\ request.answer = "refusal" => engine.fault
    /\ ~engine.alive => engine.fault \/ (engine.ended # "no" /\ Engine!Acknowledged)
    /\ engine.ended # "no" => \E m \in Terminal : m \in Says(pipe) \cup Says(chan)
    /\ ~reader => "garbled" \in Says(chan) \/ (proc.done /\ pipe = <<>>)

(* What the adapter has concluded, and what the run makes of it.           *)
ToldInv ==
  /\ adapter.result = "completed" => engine.ended = "ok"
  /\ adapter.result = "failed" => engine.fault
  /\ adapter.result = "cancelled" => \/ cancel \/ engine.ended = "interrupted"
                                     \/ run.step \in {"stopping", "returned"}
  /\ run.step = "stopping" => cancel \/ run.found
  /\ run.found => Engine!Ready
  /\ run.step = "settling" => Tests /\ adapter.result = "completed" /\ Engine!At("over")
  /\ run.step = "returned" => Engine!At("over")
  /\ run.step # "returned" => run.outcome = "none"
  /\ Engine!OutcomeTold

EngineInv == EngineTypes /\ StepsInv /\ TimeInv /\ SaidInv /\ HeardInv /\ ToldInv

-----------------------------------------------------------------------------
LEMMA SaidMore ==
  ASSUME NEW s \in Seq(Engine!Messages), NEW m \in Engine!Messages
  PROVE  /\ Append(s, m) \in Seq(Engine!Messages) /\ Len(Append(s, m)) = Len(s) + 1
         /\ Says(Append(s, m)) = Says(s) \cup {m}
<1>1. Append(s, m) \in Seq(Engine!Messages) /\ Len(Append(s, m)) = Len(s) + 1
      /\ DOMAIN Append(s, m) = 1 .. Len(s) + 1 /\ DOMAIN s = 1 .. Len(s) /\ Len(s) \in Nat
      /\ Append(s, m)[Len(s) + 1] = m /\ \A i \in 1 .. Len(s) : Append(s, m)[i] = s[i]
  OBVIOUS
<1>2. Says(Append(s, m)) \subseteq Says(s) \cup {m}
  BY <1>1 DEF Says
<1>3. Says(s) \subseteq Says(Append(s, m)) /\ m \in Says(Append(s, m))
  BY <1>1 DEF Says
<1> QED
  BY <1>1, <1>2, <1>3

LEMMA SaidLess ==
  ASSUME NEW s \in Seq(Engine!Messages), s # <<>>
  PROVE  /\ Tail(s) \in Seq(Engine!Messages) /\ Len(s) \in Nat /\ Len(Tail(s)) = Len(s) - 1
         /\ Head(s) \in Engine!Messages /\ Says(s) = Says(Tail(s)) \cup {Head(s)}
<1>1. /\ Tail(s) \in Seq(Engine!Messages) /\ Len(Tail(s)) = Len(s) - 1
      /\ DOMAIN Tail(s) = 1 .. Len(s) - 1 /\ DOMAIN s = 1 .. Len(s) /\ Len(s) \in Nat /\ Len(s) # 0
      /\ Head(s) = s[1] /\ Head(s) \in Engine!Messages /\ \A i \in 1 .. Len(s) - 1 : Tail(s)[i] = s[i + 1]
  OBVIOUS
<1>2. Says(Tail(s)) \subseteq Says(s) /\ Head(s) \in Says(s)
  BY <1>1 DEF Says
<1>3. ASSUME NEW i \in DOMAIN s PROVE s[i] \in Says(Tail(s)) \cup {Head(s)}
  <2>1. CASE i = 1
    BY <1>1, <2>1
  <2>2. CASE i # 1
    <3>1. i - 1 \in 1 .. Len(s) - 1 /\ (i - 1) + 1 = i
      BY <1>1, <2>2
    <3>2. Tail(s)[i - 1] = s[i]
      BY <1>1, <3>1
    <3> QED
      BY <1>1, <3>1, <3>2 DEF Says
  <2> QED
    BY <2>1, <2>2
<1>4. Says(s) \subseteq Says(Tail(s)) \cup {Head(s)}
  BY <1>3 DEF Says
<1> QED
  BY <1>1, <1>2, <1>4

LEMMA SaidNothing == Says(<<>>) = {}
BY DEF Says

LEMMA StopShapes ==
  /\ Len(<<2>>) = 1 /\ Len(<<4>>) = 1 /\ Len(<<2, 2>>) = 2 /\ Tail(<<2, 2>>) = <<2>>
  /\ Head(<<2>>) = 2 /\ Head(<<4>>) = 4 /\ Head(<<2, 2>>) = 2
  /\ <<2>> # <<4>> /\ <<2>> # <<2, 2>> /\ <<4>> # <<2, 2>>
  /\ <<2>> # <<>> /\ <<4>> # <<>> /\ <<2, 2>> # <<>>
<1>1. Tail(<<2, 2>>) = <<2>>
  <2>1. Tail(<<2, 2>>) \in Seq(Nat) /\ <<2>> \in Seq(Nat) /\ Len(Tail(<<2, 2>>)) = 1 /\ Len(<<2>>) = 1
        /\ Tail(<<2, 2>>)[1] = 2 /\ <<2>>[1] = 2
    OBVIOUS
  <2> QED
    BY <2>1, SeqEqual
<1>2. /\ Len(<<2>>) = 1 /\ Len(<<4>>) = 1 /\ Len(<<2, 2>>) = 2
      /\ Head(<<2>>) = 2 /\ Head(<<4>>) = 4 /\ Head(<<2, 2>>) = 2
  OBVIOUS
<1>3. <<2>> # <<4>> /\ <<2>> # <<2, 2>> /\ <<4>> # <<2, 2>> /\ <<2>> # <<>> /\ <<4>> # <<>> /\ <<2, 2>> # <<>>
  BY <1>2
<1> QED
  BY <1>1, <1>2, <1>3

(* The requests before the turn, and what is left at each step.            *)
LEMMA LastIs ==
  /\ Engine!Codex => Engine!LastRequest = 3
  /\ engine.name = "pi" => Engine!LastRequest = 2 /\ ~Engine!Codex
  /\ engine.name \notin {"codex", "pi"} => Engine!LastRequest = 1
BY DEF Engine!LastRequest, Engine!Codex

LEMMA LeftIs ==
  ASSUME adapter.step \in {"write", "await", "turn", "abort", "close", "stop", "grace", "kill", "over"}
  PROVE  /\ Early => Left = 9
         /\ Engine!At("abort") => Left = adapter.timer + (IF Engine!Codex THEN 5 ELSE 2)
         /\ Engine!At("close") => Left = adapter.timer + 4
         /\ Engine!At("stop") => Left = (IF proc.done THEN 0 ELSE Head(adapter.stops))
         /\ Engine!At("grace") => Left = adapter.timer
         /\ Engine!At("kill") \/ Engine!At("over") => Left = 0
BY DEF Left, Engine!At, Early

LEMMA LeftBecomes ==
  ASSUME adapter'.step \in {"write", "await", "turn", "abort", "close", "stop", "grace", "kill", "over"}
  PROVE  /\ Early' => Left' = 9
         /\ adapter'.step = "abort" => Left' = adapter'.timer + (IF Engine!Codex' THEN 5 ELSE 2)
         /\ adapter'.step = "close" => Left' = adapter'.timer + 4
         /\ adapter'.step = "stop" => Left' = (IF proc'.done THEN 0 ELSE Head(adapter'.stops))
         /\ adapter'.step = "grace" => Left' = adapter'.timer
         /\ adapter'.step \in {"kill", "over"} => Left' = 0
BY DEF Left, Engine!At, Early

LEMMA EngineInit ==
  ASSUME Engine!EngineAssumption, ~Large, Engine!Init
  PROVE  EngineInv
<1>1. PICK name \in Engines :
        engine = [name |-> name, alive |-> TRUE, helper |-> FALSE, large |-> FALSE, read |-> FALSE,
                  replies |-> 0, notes |-> 0, ended |-> "no", fault |-> FALSE]
  BY DEF Engine!Init, Engine!EngineAssumption
<1>2. EngineTypes
  <2>1. 0 \in 0 .. MaxNotes
    BY DEF Engine!EngineAssumption
  <2>2. engine \in EngineRecord
    BY <1>1, <2>1 DEF EngineRecord
  <2>3. pipe \in Seq(Engine!Messages) /\ chan \in Seq(Engine!Messages) /\ Len(chan) <= Room
    BY DEF Engine!Init, Engine!EngineAssumption
  <2>4. adapter \in AdapterRecord
    <3>1. 0 \in 0 .. 4 /\ <<>> \in {<<>>, <<2>>, <<4>>, <<2, 2>>} /\ "none" \in Engine!Results
      BY DEF Engine!Results
    <3>2. adapter = [step |-> "write", timer |-> 0, stops |-> <<>>, result |-> "none"]
      BY DEF Engine!Init
    <3> QED
      BY <3>1, <3>2 DEF AdapterRecord
  <2>5. run \in RunRecord
    <3>1. 0 \in 0 .. 10 /\ "none" \in Engine!Results
      BY DEF Engine!Results
    <3>2. run = [step |-> "waiting", timer |-> 0, outcome |-> "none", found |-> FALSE]
      BY DEF Engine!Init
    <3> QED
      BY <3>1, <3>2 DEF RunRecord
  <2>6. /\ proc \in [closed: BOOLEAN, done: BOOLEAN] /\ reader \in BOOLEAN
        /\ request \in [number: 0 .. 4, awaited: BOOLEAN, answer: {"none", "reply", "refusal"}]
    <3>1. 0 \in 0 .. 4
      OBVIOUS
    <3> QED
      BY <3>1 DEF Engine!Init
  <2>7. cancel \in BOOLEAN /\ artifact \in {"missing", "pending", "ready"}
    BY DEF Engine!Init
  <2> QED
    BY <2>2, <2>3, <2>4, <2>5, <2>6, <2>7 DEF EngineTypes
<1>3. StepsInv
  BY <1>1 DEF Engine!Init, StepsInv, Engine!At, Engine!Codex, Engine!LastRequest, Early
<1>4. TimeInv /\ ToldInv
  BY <1>1 DEF Engine!Init, TimeInv, ToldInv, Engine!OutcomeTold
<1>5. SaidInv /\ HeardInv
  BY <1>1, SaidNothing DEF Engine!Init, SaidInv, HeardInv, Engine!Acknowledged
<1> QED
  BY <1>2, <1>3, <1>4, <1>5 DEF EngineInv


-----------------------------------------------------------------------------
(* What the engine does changes nothing of the worker's.                   *)
LEMMA EngineFrame ==
  ASSUME EngineInv, Engine!EngineStep, engine' \in EngineRecord, pipe' \in Seq(Engine!Messages),
         engine'.name = engine.name, engine'.alive => engine.alive,
         engine'.helper => engine.helper \/ engine.alive,
         engine.ended # "no" => engine'.ended = engine.ended, engine.fault => engine'.fault,
         artifact' \in {"missing", "pending", "ready"}, artifact = "ready" => artifact' = "ready"
  PROVE  EngineTypes' /\ StepsInv' /\ TimeInv' /\ ToldInv'
<1> USE DEF EngineInv, Engine!EngineStep
<1>1. EngineTypes'
  BY DEF EngineTypes
<1>2. Engine!LastRequest' = Engine!LastRequest /\ (Engine!Codex' <=> Engine!Codex) /\ (Early' <=> Early)
  BY DEF Engine!LastRequest, Engine!Codex, Early
<1>3. StepsInv'
  BY <1>2 DEF StepsInv, Engine!At
<1>4. TimeInv'
  BY <1>2 DEF TimeInv, Left, Engine!At
<1>5. Engine!OutcomeTold'
  BY DEF ToldInv, Engine!OutcomeTold, EngineTypes, EngineRecord
<1>6. ToldInv'
  BY <1>5 DEF ToldInv, Engine!At, Engine!Ready, EngineTypes, EngineRecord
<1> QED
  BY <1>1, <1>3, <1>4, <1>6

(* A message more on the pipe.                                             *)
LEMMA SayStep ==
  ASSUME EngineInv, Engine!EngineStep, UNCHANGED artifact, NEW m \in Engine!Messages, Engine!Say(m), engine.alive,
         engine' \in EngineRecord, engine'.alive = engine.alive, engine'.helper = engine.helper,
         engine'.name = engine.name,
         engine.ended # "no" => engine'.ended = engine.ended, engine.fault => engine'.fault,
         engine'.ended = "error" => engine'.fault,
         engine'.ended # "no" => engine'.fault \/ request.number >= Engine!LastRequest,
         engine'.replies <= request.number,
         m \in {"ok", "error", "interrupted"} => engine'.ended = m,
         m = "garbled" => engine'.ended = "error",
         m = "refusal" /\ request.number <= Engine!LastRequest => engine'.fault,
         ~Engine!Response(m) => engine'.replies = engine.replies,
         engine'.ended = engine.ended \/ m \in Terminal
  PROVE  EngineInv'
<1> USE DEF EngineInv, Engine!EngineStep
<1>1. /\ pipe' \in Seq(Engine!Messages) /\ Says(pipe') = Says(pipe) \cup {m} /\ Says(chan') = Says(chan)
      /\ pipe' # <<>>
  <2>1. pipe \in Seq(Engine!Messages) /\ Len(pipe) \in Nat
    BY DEF EngineTypes
  <2>2. Says(Append(pipe, m)) = Says(pipe) \cup {m} /\ Append(pipe, m) \in Seq(Engine!Messages)
        /\ Len(Append(pipe, m)) = Len(pipe) + 1
    BY <2>1, SaidMore
  <2>3. Len(<<>>) = 0
    OBVIOUS
  <2> QED
    BY <2>1, <2>2, <2>3 DEF Engine!Say
<1>2. EngineTypes' /\ StepsInv' /\ TimeInv' /\ ToldInv'
  BY <1>1, EngineFrame DEF EngineTypes
<1>3. Engine!LastRequest' = Engine!LastRequest /\ (Early' <=> Early) /\ engine'.ended \in {"no", "ok", "error", "interrupted"}
  BY DEF Engine!LastRequest, Engine!Codex, Early, EngineRecord
<1>4. SaidInv'
  <2>1. \A n \in Says(pipe)' \cup Says(chan)' : /\ n \in {"ok", "error", "interrupted"} => engine'.ended = n
                                              /\ n = "garbled" => engine'.ended = "error"
    BY <1>1 DEF SaidInv
  <2>2. \A n \in Says(chan') : ~Engine!Response(n)
    BY <1>1 DEF SaidInv
  <2>3. request.awaited /\ engine'.replies >= request.number => \E n \in Says(pipe') : Engine!Response(n)
    BY <1>1 DEF SaidInv
  <2> QED
    BY <1>1, <1>3, <2>1, <2>2, <2>3 DEF SaidInv
<1>5. HeardInv'
  <2> SUFFICES ASSUME Early PROVE HeardInv'
    BY <1>3 DEF HeardInv
  <2>1. request'.answer = "refusal" => engine'.fault
    BY DEF HeardInv
  <2>2. engine'.ended # "no" => \E n \in Terminal : n \in Says(pipe') \cup Says(chan')
    BY <1>1 DEF HeardInv
  <2>3. reader \/ "garbled" \in Says(chan)
    BY DEF HeardInv, StepsInv
  <2> QED
    BY <1>1, <2>1, <2>2, <2>3 DEF HeardInv
<1> QED
  BY <1>2, <1>4, <1>5

LEMMA EngineMoves ==
  ASSUME Engine!EngineAssumption, EngineInv, Engine!EngineNext
  PROVE  EngineInv'
<1> USE DEF EngineInv, Engine!EngineAssumption
<1>t. engine \in EngineRecord /\ artifact \in {"missing", "pending", "ready"} /\ pipe \in Seq(Engine!Messages)
      /\ request.number \in 0 .. 4 /\ Engine!LastRequest \in 1 .. 3
  BY DEF EngineTypes, Engine!LastRequest
<1>1. CASE Engine!ReadsPrompt
  BY <1>1, <1>t DEF Engine!ReadsPrompt, EngineRecord
<1>2. ASSUME NEW m \in {"reply", "refusal"}, Engine!Replies(m) PROVE EngineInv'
  <2>1. m \in Engine!Messages /\ m \notin {"ok", "error", "interrupted", "garbled"} /\ Engine!Response(m)
    BY DEF Engine!Messages, Engine!Response
  <2>2. /\ Engine!EngineStep /\ UNCHANGED artifact /\ Engine!Say(m) /\ engine.alive /\ engine.replies < request.number
        /\ engine' = [engine EXCEPT !.replies = @ + 1,
                             !.fault = @ \/ (m = "refusal" /\ engine.replies < Engine!LastRequest)]
    BY <1>2 DEF Engine!Replies
  <2> DEFINE f == engine.fault \/ (m = "refusal" /\ engine.replies < Engine!LastRequest)
  <2> DEFINE k == engine.replies + 1
  <2>3. /\ engine' = [engine EXCEPT !.replies = k, !.fault = f]
        /\ f \in BOOLEAN /\ k \in Nat /\ engine.replies \in Nat
    BY <1>t, <2>2 DEF EngineRecord
  <2>3a. /\ (engine.fault => f) /\ (m = "refusal" /\ engine.replies < Engine!LastRequest => f)
         /\ k = engine.replies + 1
    OBVIOUS
  <2> HIDE DEF f, k
  <2>4. /\ engine' \in EngineRecord /\ engine'.alive = engine.alive /\ engine'.helper = engine.helper
        /\ engine'.name = engine.name /\ engine'.ended = engine.ended /\ engine'.fault = f
        /\ engine'.replies = k
    BY <1>t, <2>3 DEF EngineRecord
  <2>6. /\ engine'.ended = "error" => engine'.fault
        /\ engine'.ended # "no" => engine'.fault \/ request.number >= Engine!LastRequest
    BY <2>3a, <2>4 DEF SaidInv
  <2>7. engine'.replies <= request.number /\ (m = "refusal" /\ request.number <= Engine!LastRequest => engine'.fault)
    BY <1>t, <2>2, <2>3, <2>3a, <2>4
  <2> QED
    BY <2>1, <2>2, <2>3a, <2>4, <2>6, <2>7, SayStep
<1>3. CASE Engine!Notifies
  <2>1. "note" \in Engine!Messages /\ "note" \notin {"ok", "error", "interrupted", "garbled", "refusal"} /\ ~Engine!Response("note")
    BY DEF Engine!Messages, Engine!Response
  <2>2. /\ Engine!EngineStep /\ UNCHANGED artifact /\ Engine!Say("note") /\ engine.alive /\ engine.notes < MaxNotes
        /\ engine' = [engine EXCEPT !.notes = @ + 1]
    BY <1>3 DEF Engine!Notifies, Engine!MaySay
  <2> DEFINE k == engine.notes + 1
  <2>2a. k \in 0 .. MaxNotes /\ engine' = [engine EXCEPT !.notes = k]
    BY <1>t, <2>2 DEF EngineRecord
  <2> HIDE DEF k
  <2>3. /\ engine' \in EngineRecord /\ engine'.alive = engine.alive /\ engine'.helper = engine.helper
        /\ engine'.name = engine.name /\ engine'.ended = engine.ended /\ engine'.fault = engine.fault
        /\ engine'.replies = engine.replies
    BY <1>t, <2>2a DEF EngineRecord
  <2>4. /\ engine'.ended = "error" => engine'.fault
        /\ engine'.ended # "no" => engine'.fault \/ request.number >= Engine!LastRequest
        /\ engine'.replies <= request.number
    BY <2>3 DEF SaidInv
  <2> QED
    BY <2>1, <2>2, <2>3, <2>4, SayStep
<1>4. ASSUME NEW how \in {"ok", "error", "interrupted"}, Engine!Ends(how) PROVE EngineInv'
  <2>1. how \in Engine!Messages /\ how \notin {"garbled", "refusal"} /\ ~Engine!Response(how) /\ how \in Terminal
    BY DEF Engine!Messages, Engine!Response, Terminal
  <2>2. /\ Engine!EngineStep /\ UNCHANGED artifact /\ Engine!Say(how) /\ engine.alive /\ engine.ended = "no"
        /\ engine' = [engine EXCEPT !.ended = how, !.fault = @ \/ how = "error"]
        /\ request.number >= Engine!LastRequest
    BY <1>4 DEF Engine!Ends, Engine!MaySay, Engine!Prompted
  <2> DEFINE f == engine.fault \/ how = "error"
  <2>3. engine' = [engine EXCEPT !.ended = how, !.fault = f] /\ f \in BOOLEAN
    BY <1>t, <2>2 DEF EngineRecord
  <2>4. (engine.fault => f) /\ (how = "error" => f)
    OBVIOUS
  <2> HIDE DEF f
  <2>5. /\ engine' \in EngineRecord /\ engine'.alive = engine.alive /\ engine'.helper = engine.helper
        /\ engine'.name = engine.name /\ engine'.ended = how /\ engine'.fault = f
        /\ engine'.replies = engine.replies
    BY <1>t, <2>3 DEF EngineRecord
  <2>6. engine'.replies <= request.number
    BY <2>5 DEF SaidInv
  <2> QED
    BY <2>1, <2>2, <2>4, <2>5, <2>6, SayStep
<1>5. CASE Engine!Garbles
  <2>1. "garbled" \in Engine!Messages /\ ~Engine!Response("garbled") /\ "garbled" \in Terminal
    BY DEF Engine!Messages, Engine!Response, Terminal
  <2>2. /\ Engine!EngineStep /\ UNCHANGED artifact /\ Engine!Say("garbled") /\ engine.alive /\ engine.ended = "no"
        /\ engine' = [engine EXCEPT !.ended = "error", !.fault = TRUE]
    BY <1>5 DEF Engine!Garbles, Engine!MaySay
  <2>3. /\ engine' \in EngineRecord /\ engine'.alive = engine.alive /\ engine'.helper = engine.helper
        /\ engine'.name = engine.name /\ engine'.ended = "error" /\ engine'.fault
        /\ engine'.replies = engine.replies
    BY <1>t, <2>2 DEF EngineRecord
  <2>4. engine'.replies <= request.number
    BY <2>3 DEF SaidInv
  <2> QED
    BY <2>1, <2>2, <2>3, <2>4, SayStep
<1>6. CASE Engine!Starts
  <2>1. /\ Engine!EngineStep /\ UNCHANGED <<pipe, artifact>> /\ engine.alive
        /\ engine' = [engine EXCEPT !.helper = TRUE]
    BY <1>6 DEF Engine!Starts
  <2>2. /\ engine' \in EngineRecord /\ engine'.alive = engine.alive
        /\ engine'.name = engine.name /\ engine'.ended = engine.ended /\ engine'.fault = engine.fault
        /\ engine'.replies = engine.replies
    BY <1>t, <2>1 DEF EngineRecord
  <2>3. EngineTypes' /\ StepsInv' /\ TimeInv' /\ ToldInv'
    BY <1>t, <2>1, <2>2, EngineFrame
  <2>4. SaidInv' /\ HeardInv'
    BY <2>1, <2>2 DEF SaidInv, HeardInv, Engine!EngineStep, Says, Engine!LastRequest, Engine!Codex, Early, Engine!Acknowledged
  <2> QED
    BY <2>3, <2>4
<1>7. CASE Engine!Exits
  <2>1. /\ Engine!EngineStep /\ UNCHANGED <<pipe, artifact>> /\ engine.alive
        /\ engine' = [engine EXCEPT !.alive = FALSE, !.fault =
                         @ \/ ((engine.ended = "no" \/ ~Engine!Acknowledged) /\ Early)]
    BY <1>7 DEF Engine!Exits, Early
  <2> DEFINE f == engine.fault \/ ((engine.ended = "no" \/ ~Engine!Acknowledged) /\ Early)
  <2>2. engine' = [engine EXCEPT !.alive = FALSE, !.fault = f] /\ f \in BOOLEAN
    BY <1>t, <2>1 DEF EngineRecord
  <2>3. (engine.fault => f) /\ (Early => f \/ (engine.ended # "no" /\ Engine!Acknowledged))
    OBVIOUS
  <2> HIDE DEF f
  <2>4. /\ engine' \in EngineRecord /\ ~engine'.alive /\ engine'.helper = engine.helper
        /\ engine'.name = engine.name /\ engine'.ended = engine.ended /\ engine'.fault = f
        /\ engine'.replies = engine.replies
    BY <1>t, <2>2 DEF EngineRecord
  <2>5. EngineTypes' /\ StepsInv' /\ TimeInv' /\ ToldInv'
    BY <1>t, <2>1, <2>3, <2>4, EngineFrame
  <2>6. (Early' <=> Early) /\ (Engine!Acknowledged' <=> Engine!Acknowledged) /\ Engine!LastRequest' = Engine!LastRequest
    BY <2>1, <2>4 DEF Early, Engine!Acknowledged, Engine!LastRequest, Engine!Codex, Engine!EngineStep
  <2>7. SaidInv'
    BY <2>1, <2>3, <2>4, <2>6 DEF SaidInv, Engine!EngineStep, Says
  <2>8. HeardInv'
    BY <2>1, <2>3, <2>4, <2>6 DEF HeardInv, Engine!EngineStep, Says
  <2> QED
    BY <2>5, <2>7, <2>8
<1>8. ASSUME NEW state \in {"pending", "ready"}, Engine!WritesResult(state) PROVE EngineInv'
  <2>1. /\ Engine!EngineStep /\ UNCHANGED <<engine, pipe>> /\ artifact' \in {"missing", "pending", "ready"}
        /\ artifact = "ready" => artifact' = "ready"
    BY <1>8 DEF Engine!WritesResult
  <2>2. EngineTypes' /\ StepsInv' /\ TimeInv' /\ ToldInv'
    BY <1>t, <2>1, EngineFrame
  <2>3. SaidInv' /\ HeardInv'
    BY <2>1 DEF SaidInv, HeardInv, Engine!EngineStep, Says, Engine!LastRequest, Engine!Codex, Early, Engine!Acknowledged
  <2> QED
    BY <2>2, <2>3
<1> QED
  BY <1>1, <1>2, <1>3, <1>4, <1>5, <1>6, <1>7, <1>8 DEF Engine!EngineNext


-----------------------------------------------------------------------------
(* The process is reaped.                                                  *)
LEMMA ReapStep ==
  ASSUME EngineInv, Engine!Reap
  PROVE  EngineInv'
<1> USE DEF EngineInv
<1>1. /\ ~engine.alive /\ ~engine.helper /\ proc' = [closed |-> TRUE, done |-> TRUE]
      /\ UNCHANGED <<engine, pipe, chan, reader, request, adapter, run, cancel, artifact>>
  BY DEF Engine!Reap
<1>2. proc' \in [closed: BOOLEAN, done: BOOLEAN] /\ proc'.closed /\ proc'.done
  BY <1>1
<1>3. EngineTypes'
  BY <1>1, <1>2 DEF EngineTypes
<1>4. Engine!LastRequest' = Engine!LastRequest /\ (Engine!Codex' <=> Engine!Codex) /\ (Early' <=> Early)
  BY <1>1 DEF Engine!LastRequest, Engine!Codex, Early
<1>5. StepsInv'
  BY <1>1, <1>2, <1>4 DEF StepsInv, Engine!At
<1>6. TimeInv'
  <2>1. adapter.step \in {"write", "await", "turn", "abort", "close", "stop", "grace", "kill", "over"}
        /\ adapter'.step = adapter.step
    BY <1>1 DEF EngineTypes, AdapterRecord
  <2>2. adapter.stops \in {<<2>>, <<4>>, <<2, 2>>} => Head(adapter.stops) >= 0 /\ Head(adapter.stops) \in Nat
    BY StopShapes
  <2>3. Left' = Left \/ (Engine!At("stop") /\ Left' = 0 /\ Left = Head(adapter.stops))
    BY <1>1, <1>2, <1>4, <2>1, LeftIs, LeftBecomes DEF Engine!At, Early
  <2>4. run.timer \in Nat
    BY DEF EngineTypes, RunRecord
  <2> QED
    BY <1>1, <2>2, <2>3, <2>4 DEF TimeInv, StepsInv
<1>7. SaidInv' /\ HeardInv' /\ ToldInv'
  BY <1>1, <1>2, <1>4 DEF SaidInv, HeardInv, ToldInv, Engine!OutcomeTold, Says, Engine!Acknowledged, Engine!Codex, Engine!At, Engine!Ready, Early
<1> QED
  BY <1>3, <1>5, <1>6, <1>7

(* The goroutine that reads: the adapter's step, the process and the run   *)
(* stand still.                                                            *)
LEMMA ReaderFrame ==
  ASSUME EngineInv, UNCHANGED <<engine, proc, adapter, run, cancel, artifact>>,
         pipe' \in Seq(Engine!Messages), chan' \in Seq(Engine!Messages), Len(chan') <= Room, reader' \in BOOLEAN,
         request' \in [number: 0 .. 4, awaited: BOOLEAN, answer: {"none", "reply", "refusal"}],
         request'.number = request.number, request'.awaited => request.awaited /\ request'.answer = request.answer
  PROVE  EngineTypes' /\ StepsInv' /\ TimeInv' /\ ToldInv'
<1> USE DEF EngineInv
<1>1. EngineTypes'
  BY DEF EngineTypes
<1>2. Engine!LastRequest' = Engine!LastRequest /\ (Engine!Codex' <=> Engine!Codex) /\ (Early' <=> Early)
  BY DEF Engine!LastRequest, Engine!Codex, Early
<1>3. StepsInv'
  BY <1>2 DEF StepsInv, Engine!At
<1>4. TimeInv'
  BY <1>2 DEF TimeInv, Left, Engine!At
<1>5. ToldInv'
  BY DEF ToldInv, Engine!OutcomeTold, Engine!At, Engine!Ready
<1> QED
  BY <1>1, <1>3, <1>4, <1>5

LEMMA ReadMessageStep ==
  ASSUME Engine!EngineAssumption, EngineInv, Engine!ReadMessage
  PROVE  EngineInv'
<1> USE DEF EngineInv
<1> DEFINE message == Head(pipe)
<1>1. /\ pipe \in Seq(Engine!Messages) /\ pipe # <<>> /\ chan \in Seq(Engine!Messages) /\ pipe' = Tail(pipe) /\ reader
      /\ UNCHANGED <<engine, proc, adapter, run, cancel, artifact>>
      /\ Engine!Response(message) \/ Len(chan) < Room
  BY DEF Engine!ReadMessage, Engine!CanRead, Engine!Reading, EngineTypes
<1>2. /\ pipe' \in Seq(Engine!Messages) /\ message \in Engine!Messages /\ Says(pipe) = Says(pipe') \cup {message}
  BY <1>1, SaidLess
<1>3. Engine!LastRequest' = Engine!LastRequest /\ (Engine!Codex' <=> Engine!Codex) /\ (Early' <=> Early) /\ (Engine!Acknowledged' <=> Engine!Acknowledged)
  BY <1>1 DEF Engine!LastRequest, Engine!Codex, Early, Engine!Acknowledged
<1>4. request \in [number: 0 .. 4, awaited: BOOLEAN, answer: {"none", "reply", "refusal"}] /\ Len(chan) <= Room
  BY DEF EngineTypes
<1>5. CASE Engine!Response(message)
  <2>1. /\ chan' = chan /\ reader' = reader
        /\ request' = IF request.awaited THEN [request EXCEPT !.awaited = FALSE, !.answer = message] ELSE request
    BY <1>5 DEF Engine!ReadMessage
  <2>2. message \in {"reply", "refusal"} /\ message \notin {"ok", "error", "interrupted", "garbled"}
        /\ message \notin Terminal
    BY <1>5 DEF Engine!Response, Terminal
  <2> HIDE DEF message
  <2>3. /\ request' \in [number: 0 .. 4, awaited: BOOLEAN, answer: {"none", "reply", "refusal"}]
        /\ request'.number = request.number /\ ~request'.awaited
        /\ request'.answer = (IF request.awaited THEN message ELSE request.answer)
    BY <1>4, <2>1, <2>2
  <2>4. EngineTypes' /\ StepsInv' /\ TimeInv' /\ ToldInv'
    BY <1>1, <1>2, <1>4, <2>1, <2>3, ReaderFrame DEF EngineTypes
  <2>5. SaidInv'
    BY <1>1, <1>2, <1>3, <2>1, <2>3 DEF SaidInv, Says
  <2>6. HeardInv'
    <3> SUFFICES ASSUME Early PROVE HeardInv'
      BY <1>3 DEF HeardInv
    <3>1. request.awaited /\ message = "refusal" => engine.fault
      <4>1. request.awaited => request.number <= Engine!LastRequest
        <5>1. Engine!LastRequest \in 1 .. 3 /\ request.number \in 0 .. 4
          BY <1>4 DEF Engine!LastRequest
        <5> QED
          BY <5>1 DEF StepsInv, Early, Engine!At
      <4> QED
        BY <1>2, <4>1 DEF SaidInv
    <3>2. request'.answer = "refusal" => engine.fault
      BY <2>3, <3>1 DEF HeardInv
    <3>3. engine.ended # "no" => \E m \in Terminal : m \in Says(pipe') \cup Says(chan')
      BY <1>2, <2>1, <2>2 DEF HeardInv
    <3> QED
      BY <1>1, <1>3, <2>1, <3>2, <3>3 DEF HeardInv
  <2> QED
    BY <2>4, <2>5, <2>6
<1>6. CASE ~Engine!Response(message)
  <2>1. /\ chan' = Append(chan, message) /\ reader' = (message # "garbled") /\ request' = request
    BY <1>6 DEF Engine!ReadMessage
  <2> HIDE DEF message
  <2>2. chan' \in Seq(Engine!Messages) /\ Len(chan') = Len(chan) + 1 /\ Says(chan') = Says(chan) \cup {message}
    BY <1>1, <1>2, <2>1, SaidMore
  <2>3. Len(chan') <= Room
    <3>1. Len(chan) \in Nat /\ Room \in Nat
      BY <1>1 DEF Engine!EngineAssumption
    <3> QED
      BY <1>1, <1>6, <2>2, <3>1
  <2>4. EngineTypes' /\ StepsInv' /\ TimeInv' /\ ToldInv'
    BY <1>1, <1>2, <1>4, <2>1, <2>2, <2>3, ReaderFrame
  <2>5. SaidInv'
    <3>1. \A m \in Says(pipe') \cup Says(chan') : m \in Says(pipe) \cup Says(chan)
      BY <1>2, <2>2
    <3>2. \A m \in Says(chan') : ~Engine!Response(m)
      BY <1>6, <2>2 DEF SaidInv
    <3>3. "refusal" \in Says(pipe') => "refusal" \in Says(pipe)
      BY <1>2
    <3>4. \A m \in Says(pipe) : Engine!Response(m) => m \in Says(pipe')
      BY <1>2, <1>6
    <3> QED
      BY <1>1, <1>3, <2>1, <3>1, <3>2, <3>3, <3>4 DEF SaidInv
  <2>6. HeardInv'
    BY <1>1, <1>2, <1>3, <2>1, <2>2 DEF HeardInv
  <2> QED
    BY <2>4, <2>5, <2>6
<1> QED
  BY <1>5, <1>6

LEMMA ReadEndStep ==
  ASSUME EngineInv, Engine!ReadEnd
  PROVE  EngineInv'
<1> USE DEF EngineInv
<1>1. /\ pipe = <<>> /\ proc.closed /\ reader' = FALSE
      /\ UNCHANGED <<engine, pipe, proc, chan, adapter, run, cancel, artifact>>
      /\ request' = IF request.awaited THEN [request EXCEPT !.awaited = FALSE, !.answer = "refusal"] ELSE request
  BY DEF Engine!ReadEnd, Engine!CanEnd
<1>2. request \in [number: 0 .. 4, awaited: BOOLEAN, answer: {"none", "reply", "refusal"}] /\ Len(chan) <= Room
      /\ pipe \in Seq(Engine!Messages) /\ chan \in Seq(Engine!Messages)
  BY DEF EngineTypes
<1>3. /\ request' \in [number: 0 .. 4, awaited: BOOLEAN, answer: {"none", "reply", "refusal"}]
      /\ request'.number = request.number /\ ~request'.awaited
      /\ request'.answer = (IF request.awaited THEN "refusal" ELSE request.answer)
  BY <1>1, <1>2
<1>4. Engine!LastRequest' = Engine!LastRequest /\ (Engine!Codex' <=> Engine!Codex) /\ (Early' <=> Early) /\ (Engine!Acknowledged' <=> Engine!Acknowledged)
  BY <1>1 DEF Engine!LastRequest, Engine!Codex, Early, Engine!Acknowledged
<1>5. EngineTypes' /\ StepsInv' /\ TimeInv' /\ ToldInv'
  BY <1>1, <1>2, <1>3, ReaderFrame
<1>6. SaidInv'
  BY <1>1, <1>3, <1>4 DEF SaidInv, Says
<1>7. HeardInv'
  <2> SUFFICES ASSUME Early PROVE HeardInv'
    BY <1>4 DEF HeardInv
  <2>1. proc.done /\ ~engine.alive
    BY <1>1 DEF StepsInv
  <2>2. request.awaited => engine.fault
    <3>1. request.awaited => Engine!Codex /\ request.number <= Engine!LastRequest
      <4>1. Engine!LastRequest \in 1 .. 3 /\ request.number \in 0 .. 4
        BY <1>2 DEF Engine!LastRequest
      <4> QED
        BY <4>1 DEF StepsInv, Early, Engine!At
    <3>2. request.awaited /\ ~engine.fault => engine.replies >= Engine!LastRequest
      BY <2>1, <3>1 DEF HeardInv, Engine!Acknowledged
    <3>3. engine.replies \in Nat /\ Engine!LastRequest \in 1 .. 3 /\ request.number \in 0 .. 4
      BY <1>2 DEF EngineTypes, EngineRecord, Engine!LastRequest
    <3>4. Says(pipe) = {}
      BY <1>1, SaidNothing
    <3> QED
      BY <3>1, <3>2, <3>3, <3>4 DEF SaidInv
  <2> QED
    BY <1>1, <1>3, <1>4, <2>1, <2>2 DEF HeardInv, Says
<1> QED
  BY <1>5, <1>6, <1>7


-----------------------------------------------------------------------------
(* The adapter.                                                            *)
AdapterSteps == {"write", "await", "turn", "abort", "close", "stop", "grace", "kill", "over"}

\* What an adapter may conclude.
MayTell(result) ==
  /\ result = "completed" => engine.ended = "ok"
  /\ result = "failed" => engine.fault
  /\ result = "cancelled" => cancel \/ engine.ended = "interrupted" \/ run.step \in {"stopping", "returned"}

(* A step of the adapter that sends nothing and leaves the turn.           *)
LEMMA LeaveStep ==
  ASSUME EngineInv, Early \/ adapter.step \in {"abort", "close"}, Engine!AdapterStep,
         UNCHANGED <<engine, pipe, proc, reader>>,
         adapter' \in AdapterRecord, ~Early', adapter'.step \notin {"grace", "kill"},
         adapter'.step = "over" => proc.done,
         adapter'.step = "abort" => \/ Engine!Codex /\ adapter'.stops = << 4 >>
                                    \/ engine.name = "pi" /\ adapter'.stops = <<2, 2>> /\ adapter'.timer <= 1,
         adapter'.step = "close" => Engine!Codex /\ adapter'.stops = << 4 >> /\ adapter'.timer <= 1,
         adapter'.step = "stop" => adapter'.stops \in {<< 2 >>, << 4 >>, <<2, 2>>},
         run.step = "stopping" => Left' <= Left,
         chan' \in Seq(Engine!Messages), Len(chan') <= Room, Says(chan') \subseteq Says(chan),
         request' \in [number: 0 .. 4, awaited: BOOLEAN, answer: {"none", "reply", "refusal"}],
         (request'.number = request.number /\ (request'.awaited => request.awaited /\ request'.answer = request.answer))
         \/ (Early /\ Engine!Codex /\ request'.number = 4 /\ (request'.awaited => engine.alive /\ request'.answer = "none")),
         adapter'.result = adapter.result \/ MayTell(adapter'.result)
  PROVE  EngineInv'
<1> USE DEF EngineInv, Engine!AdapterStep
<1>1. EngineTypes'
  BY DEF EngineTypes
<1>2. Engine!LastRequest' = Engine!LastRequest /\ (Engine!Codex' <=> Engine!Codex) /\ (Engine!Codex => Engine!LastRequest = 3)
      /\ Engine!LastRequest \in 1 .. 3 /\ request.number \in 0 .. 4
  BY DEF Engine!LastRequest, Engine!Codex, EngineTypes
<1>3. StepsInv'
  BY <1>2 DEF StepsInv, Engine!At, Early
<1>4. TimeInv'
  <2>1. run.timer \in Nat /\ run' = run
    BY DEF EngineTypes, RunRecord
  <2>2. adapter.step \in AdapterSteps /\ adapter'.step \in AdapterSteps
    BY DEF EngineTypes, AdapterRecord, AdapterSteps
  <2>3. adapter.timer \in Nat /\ adapter'.timer \in Nat
    BY DEF EngineTypes, AdapterRecord
  <2>4. Left \in Nat
    BY <2>2, <2>3, LeftIs DEF Early, Engine!At, AdapterSteps
  <2>5. Left' \in Nat
    BY <2>2, <2>3, LeftBecomes, StopShapes DEF Early, Engine!At, AdapterSteps
  <2> QED
    BY <2>1, <2>4, <2>5 DEF TimeInv
<1>5. SaidInv'
  <2>1. \A m \in Says(pipe') \cup Says(chan') : m \in Says(pipe) \cup Says(chan)
    BY DEF Says
  <2>2. Says(pipe') = Says(pipe) /\ engine.replies \in Nat
    BY DEF Says, EngineTypes, EngineRecord
  <2>3. engine.replies <= request'.number
    BY <1>2, <2>2 DEF SaidInv
  <2>4. engine.ended # "no" => engine.fault \/ request'.number >= Engine!LastRequest
    BY <1>2 DEF SaidInv
  <2>5. "refusal" \in Says(pipe) /\ request'.number <= Engine!LastRequest => engine.fault
    BY <1>2 DEF SaidInv
  <2>6. request'.awaited /\ engine.replies >= request'.number => \E m \in Says(pipe) : Engine!Response(m)
    <3>1. CASE request'.number = request.number /\ (request'.awaited => request.awaited /\ request'.answer = request.answer)
      BY <3>1 DEF SaidInv
    <3>2. CASE Early /\ Engine!Codex /\ request'.number = 4 /\ (request'.awaited => engine.alive /\ request'.answer = "none")
      <4> SUFFICES ASSUME request'.awaited, engine.replies >= request'.number PROVE \E m \in Says(pipe) : Engine!Response(m)
        OBVIOUS
      <4>1. request.number = 4
        BY <1>2, <2>2, <3>2 DEF SaidInv
      <4> QED
        BY <1>2, <3>2, <4>1 DEF StepsInv, Early, Engine!At
    <3> QED
      BY <3>1, <3>2
  <2> QED
    BY <1>2, <2>1, <2>2, <2>3, <2>4, <2>5, <2>6 DEF SaidInv
<1>6. HeardInv'
  BY DEF HeardInv
<1>7. ToldInv'
  BY DEF ToldInv, Engine!OutcomeTold, MayTell, Engine!At, Engine!Ready, StepsInv, Early
<1> QED
  BY <1>1, <1>3, <1>4, <1>5, <1>6, <1>7

LEMMA ConcludeStep ==
  ASSUME EngineInv, Early, NEW result \in {"completed", "failed", "cancelled"}, Engine!Conclude(result), MayTell(result),
         Engine!AdapterStep, UNCHANGED <<engine, pipe, proc, reader>>,
         chan' \in Seq(Engine!Messages), Len(chan') <= Room, Says(chan') \subseteq Says(chan),
         request' = request \/ request' = [request EXCEPT !.awaited = FALSE]
  PROVE  EngineInv'
<1>1. /\ adapter' \in AdapterRecord /\ ~Early' /\ adapter'.step \in {"close", "stop"}
      /\ adapter'.step = "close" => Engine!Codex /\ adapter'.stops = <<4>> /\ adapter'.timer <= 1
      /\ adapter'.step = "stop" => adapter'.stops = <<2>>
      /\ adapter'.result = result
  <2>1. 0 \in 0 .. 4 /\ 1 \in 0 .. 4 /\ result \in Engine!Results
    BY DEF Engine!Results
  <2> QED
    BY <2>1 DEF Engine!Conclude, AdapterRecord, Early
<1>2. Left' <= Left
  <2>1. Left = 9
    BY LeftIs DEF EngineInv, EngineTypes, AdapterRecord
  <2>2. adapter'.timer \in Nat /\ Left' <= 9
    BY <1>1, LeftBecomes, StopShapes DEF AdapterRecord, AdapterSteps
  <2> QED
    BY <2>1, <2>2
<1>3. /\ request' \in [number: 0 .. 4, awaited: BOOLEAN, answer: {"none", "reply", "refusal"}]
      /\ request'.number = request.number /\ (request'.awaited => request.awaited /\ request'.answer = request.answer)
  BY DEF EngineInv, EngineTypes
<1> QED
  BY <1>1, <1>2, <1>3, LeaveStep

(* A step that sends a request, or takes its answer, and stays early.      *)
LEMMA StayStep ==
  ASSUME EngineInv, Early, Engine!AdapterStep, UNCHANGED <<engine, pipe, proc, reader>>,
         NEW step \in {"write", "await", "turn"}, Engine!Enter(step), chan' \in Seq(Engine!Messages), Len(chan') <= Room,
         Says(chan') \subseteq Says(chan), Says(chan) \cap Terminal \subseteq Says(chan'),
         request' \in [number: 0 .. 4, awaited: BOOLEAN, answer: {"none", "reply", "refusal"}],
         request'.number >= request.number, request'.awaited => request'.number > request.number \/ request.awaited,
         request'.awaited => Engine!Codex /\ request'.answer = "none",
         request'.answer = "refusal" => request.answer = "refusal",
         step = "write" => request'.number < Engine!LastRequest,
         step = "await" => Engine!Codex /\ request'.number <= Engine!LastRequest,
         step = "turn" => request'.number = Engine!LastRequest
  PROVE  EngineInv'
<1> USE DEF EngineInv, Engine!AdapterStep
<1>1. adapter \in AdapterRecord /\ adapter' = [adapter EXCEPT !.step = step]
  BY DEF EngineTypes, Engine!Enter
<1>2. adapter' \in AdapterRecord /\ adapter'.step = step /\ adapter'.result = adapter.result
  BY <1>1 DEF AdapterRecord
<1>3. EngineTypes'
  BY <1>2 DEF EngineTypes
<1>4. Engine!LastRequest' = Engine!LastRequest /\ (Engine!Codex' <=> Engine!Codex) /\ Early' /\ (Engine!Acknowledged' <=> Engine!Acknowledged)
  BY <1>2 DEF Engine!LastRequest, Engine!Codex, Early, Engine!Acknowledged
<1>5. StepsInv'
  BY <1>2, <1>4 DEF StepsInv, Engine!At
<1>6. TimeInv'
  <2>1. Left = 9 /\ Left' = 9
    BY <1>2, <1>4, LeftIs, LeftBecomes DEF EngineTypes, AdapterRecord
  <2> QED
    BY <2>1 DEF TimeInv
<1>7. SaidInv'
  <2>1. /\ engine.replies \in Nat /\ request.number \in 0 .. 4 /\ request'.number \in 0 .. 4 /\ Engine!LastRequest \in 1 .. 3
        /\ Says(pipe') = Says(pipe)
    BY DEF EngineTypes, EngineRecord, Engine!LastRequest, Says
  <2>2. engine.replies <= request'.number /\ (request'.number > request.number => engine.replies < request'.number)
    BY <2>1 DEF SaidInv
  <2>3. engine.ended # "no" => engine.fault \/ request'.number >= Engine!LastRequest
    BY <2>1 DEF SaidInv
  <2>4. "refusal" \in Says(pipe) /\ request'.number <= Engine!LastRequest => engine.fault
    BY <2>1 DEF SaidInv
  <2>5. request'.awaited /\ engine.replies >= request'.number => \E m \in Says(pipe) : Engine!Response(m)
    <3>1. request'.awaited /\ engine.replies >= request'.number => request.awaited /\ engine.replies >= request.number
      BY <2>1, <2>2
    <3> QED
      BY <3>1 DEF SaidInv
  <2> QED
    BY <1>4, <2>1, <2>2, <2>3, <2>4, <2>5 DEF SaidInv
<1>8. HeardInv'
  <2>1. "garbled" \in Terminal
    BY DEF Terminal
  <2>2. Says(pipe') = Says(pipe)
    BY DEF Says
  <2> QED
    BY <1>4, <2>1, <2>2 DEF HeardInv
<1>9. ToldInv'
  BY <1>2 DEF ToldInv, Engine!OutcomeTold, Engine!At, Engine!Ready, Early
<1> QED
  BY <1>3, <1>5, <1>6, <1>7, <1>8, <1>9


LEMMA StartsMove ==
  ASSUME EngineInv, Engine!Write \/ Engine!Answered \/ Engine!GiveUpRequest
  PROVE  EngineInv'
<1> USE DEF EngineInv
<1>t. /\ chan \in Seq(Engine!Messages) /\ Len(chan) <= Room
      /\ request \in [number: 0 .. 4, awaited: BOOLEAN, answer: {"none", "reply", "refusal"}]
      /\ Engine!LastRequest \in 1 .. 3 /\ engine.replies \in Nat
  BY DEF EngineTypes, Engine!LastRequest, EngineRecord
<1>1. CASE Engine!Write
  <2>1. /\ Engine!At("write") /\ Early /\ UNCHANGED <<engine, pipe, proc, chan, reader>> /\ Engine!AdapterStep
        /\ request.number < Engine!LastRequest /\ Says(chan') = Says(chan)
    BY <1>1 DEF Engine!Write, StepsInv, Engine!At, Early, Says
  <2>2. ASSUME ~engine.alive, Engine!Conclude("failed"), UNCHANGED request PROVE EngineInv'
    <3>1. engine.fault
      <4>1. engine.fault \/ (engine.ended # "no" /\ Engine!Acknowledged)
        BY <2>1, <2>2 DEF HeardInv
      <4> QED
        BY <1>t, <2>1, <4>1 DEF SaidInv
    <3>2. MayTell("failed")
      BY <3>1 DEF MayTell
    <3> QED
      BY <1>t, <2>1, <2>2, <3>2, ConcludeStep
  <2>3. ASSUME request' = [number |-> request.number + 1, awaited |-> Engine!Codex, answer |-> "none"],
               Engine!Enter(IF Engine!Codex THEN "await" ELSE IF request.number + 1 = Engine!LastRequest THEN "turn" ELSE "write")
        PROVE  EngineInv'
    <3> DEFINE n == request.number + 1
               step == IF Engine!Codex THEN "await" ELSE IF n = Engine!LastRequest THEN "turn" ELSE "write"
    <3>1. n \in 0 .. 4 /\ n > request.number /\ n <= Engine!LastRequest /\ Engine!Codex \in BOOLEAN
      BY <1>t, <2>1 DEF Engine!Codex
    <3>2. /\ step \in {"write", "await", "turn"} /\ Engine!Enter(step)
          /\ step = "write" => n < Engine!LastRequest
          /\ step = "await" => Engine!Codex
          /\ step = "turn" => n = Engine!LastRequest
      BY <1>t, <2>3, <3>1
    <3>3. request' = [number |-> n, awaited |-> Engine!Codex, answer |-> "none"]
      BY <2>3
    <3> HIDE DEF n, step
    <3>4. /\ request' \in [number: 0 .. 4, awaited: BOOLEAN, answer: {"none", "reply", "refusal"}]
          /\ request'.number = n /\ (request'.awaited <=> Engine!Codex) /\ request'.answer = "none"
      BY <3>1, <3>3
    <3>5. request'.number >= request.number
      BY <1>t, <3>1, <3>4
    <3> QED
      BY <1>t, <2>1, <3>1, <3>2, <3>4, <3>5, StayStep
  <2> QED
    BY <1>1, <2>2, <2>3 DEF Engine!Write
<1>2. CASE Engine!Answered
  <2>1. /\ Engine!At("await") /\ Early /\ UNCHANGED <<engine, pipe, proc, chan, reader, request>> /\ Engine!AdapterStep
        /\ Engine!Codex /\ request.number <= Engine!LastRequest /\ Says(chan') = Says(chan)
    BY <1>2 DEF Engine!Answered, StepsInv, Engine!At, Early, Says
  <2>2. ASSUME request.answer = "refusal", Engine!Conclude("failed") PROVE EngineInv'
    <3>1. MayTell("failed")
      BY <2>1, <2>2 DEF MayTell, HeardInv
    <3> QED
      BY <1>t, <2>1, <2>2, <3>1, ConcludeStep
  <2>3. ASSUME request.answer # "refusal", Engine!Enter(IF request.number = Engine!LastRequest THEN "turn" ELSE "write")
        PROVE  EngineInv'
    <3> DEFINE step == IF request.number = Engine!LastRequest THEN "turn" ELSE "write"
    <3>1. /\ step \in {"write", "await", "turn"} /\ Engine!Enter(step)
          /\ step = "write" => request.number < Engine!LastRequest
          /\ step # "await"
          /\ step = "turn" => request.number = Engine!LastRequest
          /\ request.number >= request.number
      BY <1>t, <2>1, <2>3
    <3> HIDE DEF step
    <3>2. request'.awaited => Engine!Codex /\ request'.answer = "none"
      BY <2>1 DEF StepsInv
    <3> QED
      BY <1>t, <2>1, <3>1, <3>2, StayStep
  <2> QED
    BY <1>2, <2>2, <2>3 DEF Engine!Answered
<1>3. CASE Engine!GiveUpRequest
  <2>1. /\ Early /\ Engine!Conclude("cancelled") /\ UNCHANGED <<engine, pipe, proc, chan, reader>> /\ Engine!AdapterStep
        /\ request' = [request EXCEPT !.awaited = FALSE] /\ Says(chan') = Says(chan) /\ MayTell("cancelled")
    BY <1>3 DEF Engine!GiveUpRequest, Engine!At, Early, Says, Engine!Stopped, MayTell
  <2> QED
    BY <1>t, <2>1, ConcludeStep
<1> QED
  BY <1>1, <1>2, <1>3

LEMMA TurnMoves ==
  ASSUME Engine!EngineAssumption, EngineInv, Engine!Take \/ Engine!MissEnd \/ Engine!Interrupt
  PROVE  EngineInv'
<1> USE DEF EngineInv
<1>t. /\ chan \in Seq(Engine!Messages) /\ Len(chan) <= Room /\ Len(chan) \in Nat
      /\ request \in [number: 0 .. 4, awaited: BOOLEAN, answer: {"none", "reply", "refusal"}]
      /\ request.number = Engine!LastRequest /\ Engine!LastRequest \in 1 .. 3 /\ Early /\ Engine!At("turn") /\ Says(chan) \subseteq Engine!Messages
  <2>1. Engine!At("turn")
    BY DEF Engine!Take, Engine!MissEnd, Engine!Interrupt
  <2>2. chan \in Seq(Engine!Messages)
    BY DEF EngineTypes
  <2>3. Says(chan) \subseteq Engine!Messages /\ Len(chan) \in Nat
    BY <2>2 DEF Says
  <2> QED
    BY <2>1, <2>2, <2>3 DEF EngineTypes, Engine!LastRequest, Early, Engine!At, StepsInv
<1>1. CASE Engine!Take
  <2>1. /\ chan # <<>> /\ chan' = Tail(chan) /\ UNCHANGED <<engine, pipe, proc, reader, request>> /\ Engine!AdapterStep
    BY <1>1 DEF Engine!Take
  <2>2. /\ Head(chan) \in Engine!Messages /\ chan' \in Seq(Engine!Messages) /\ Len(chan') = Len(chan) - 1
        /\ Says(chan) = Says(chan') \cup {Head(chan)}
    BY <1>t, <2>1, SaidLess
  <2>3. Len(chan') <= Room
    <3>1. Len(chan) \in Nat /\ Room \in Nat
      BY <1>t DEF Engine!EngineAssumption
    <3> QED
      BY <1>t, <2>2, <3>1
  <2>4. CASE Head(chan) = "note"
    <3>1. adapter' = adapter
      BY <1>1, <2>4 DEF Engine!Take
    <3>2. adapter.step = "turn" /\ Engine!Enter("turn")
      <4>1. adapter.step = "turn" /\ adapter \in AdapterRecord
        BY <1>t DEF Engine!At, EngineTypes
      <4> QED
        BY <3>1, <4>1 DEF Engine!Enter, AdapterRecord
    <3>3. "note" \notin Terminal
      BY DEF Terminal
    <3>4. Says(chan') \subseteq Says(chan) /\ Says(chan) \cap Terminal \subseteq Says(chan')
      BY <2>2, <2>4, <3>3
    <3>5. request'.awaited => Engine!Codex /\ request'.answer = "none"
      BY <2>1 DEF StepsInv
    <3>6. request.number >= request.number
      BY <1>t
    <3> QED
      BY <1>t, <2>1, <2>2, <2>3, <3>2, <3>4, <3>5, <3>6, StayStep
  <2>5. CASE Head(chan) # "note"
    <3>1. Head(chan) \in {"ok", "interrupted", "error", "garbled"} /\ Head(chan) \in Says(chan)
      BY <2>2, <2>5 DEF SaidInv, Engine!Response, Engine!Messages
    <3>2. PICK result \in {"completed", "failed", "cancelled"} :
            Engine!Conclude(result) /\ result = (IF Head(chan) = "ok" THEN "completed"
                                                ELSE IF Head(chan) = "interrupted" THEN "cancelled" ELSE "failed")
      <4>1. CASE Head(chan) = "ok"
        BY <1>1, <4>1 DEF Engine!Take
      <4>2. CASE Head(chan) = "interrupted"
        BY <1>1, <4>2 DEF Engine!Take
      <4>3. CASE Head(chan) \in {"error", "garbled"}
        BY <1>1, <4>3 DEF Engine!Take
      <4> QED
        BY <3>1, <4>1, <4>2, <4>3
    <3>3. MayTell(result)
      BY <3>1, <3>2 DEF SaidInv, MayTell
    <3>4. Says(chan') \subseteq Says(chan)
      BY <2>2
    <3> QED
      BY <1>t, <2>1, <2>2, <2>3, <3>2, <3>3, <3>4, ConcludeStep
  <2> QED
    BY <2>4, <2>5
<1>2. CASE Engine!MissEnd
  <2>1. /\ UNCHANGED <<engine, pipe, proc, chan, reader, request>> /\ Engine!AdapterStep /\ Engine!Conclude("failed")
        /\ chan = <<>> /\ ~reader /\ Says(chan') = Says(chan)
    BY <1>2 DEF Engine!MissEnd, Engine!CanMiss, Says
  <2>2. Says(chan) = {} /\ proc.done /\ pipe = <<>> /\ Says(pipe) = {}
    BY <1>t, <2>1, SaidNothing DEF HeardInv
  <2>3. engine.fault
    BY <1>t, <2>2 DEF HeardInv, StepsInv
  <2>4. MayTell("failed")
    BY <2>3 DEF MayTell
  <2> QED
    BY <1>t, <2>1, <2>4, ConcludeStep
<1>3. CASE Engine!Interrupt
  <2>1. /\ UNCHANGED <<engine, pipe, proc, chan, reader>> /\ Engine!AdapterStep /\ MayTell("cancelled")
        /\ Says(chan') = Says(chan)
    BY <1>3 DEF Engine!Interrupt, Engine!Stopped, MayTell, Says
  <2>2. /\ adapter' \in AdapterRecord /\ adapter'.step \in {"abort", "stop"} /\ ~Early' /\ adapter'.result = "cancelled"
        /\ adapter'.step = "abort" => \/ Engine!Codex /\ adapter'.stops = <<4>> /\ adapter'.timer = 4
                                      \/ engine.name = "pi" /\ adapter'.stops = <<2, 2>> /\ adapter'.timer = 1
        /\ adapter'.step = "stop" => adapter'.stops = <<2, 2>>
    <3>1. 0 \in 0 .. 4 /\ 1 \in 0 .. 4 /\ 4 \in 0 .. 4 /\ "cancelled" \in Engine!Results
      BY DEF Engine!Results
    <3>2. CASE Engine!Codex
      <4>1. adapter' = [step |-> "abort", timer |-> 4, stops |-> <<4>>, result |-> "cancelled"]
        BY <1>3, <3>2 DEF Engine!Interrupt, Engine!Codex
      <4> QED
        BY <3>1, <3>2, <4>1 DEF AdapterRecord, Early
    <3>3. CASE ~Engine!Codex /\ engine.name = "pi"
      <4>1. adapter' = [step |-> "abort", timer |-> 1, stops |-> <<2, 2>>, result |-> "cancelled"]
        BY <1>3, <3>3 DEF Engine!Interrupt, Engine!Codex
      <4> QED
        BY <3>1, <3>3, <4>1 DEF AdapterRecord, Early
    <3>4. CASE ~Engine!Codex /\ engine.name # "pi"
      <4>1. adapter' = [step |-> "stop", timer |-> 0, stops |-> <<2, 2>>, result |-> "cancelled"]
        BY <1>3, <3>4 DEF Engine!Interrupt, Engine!Codex
      <4> QED
        BY <3>1, <4>1 DEF AdapterRecord, Early
    <3> QED
      BY <3>2, <3>3, <3>4
  <2>3. /\ request' \in [number: 0 .. 4, awaited: BOOLEAN, answer: {"none", "reply", "refusal"}]
        /\ \/ request' = request
           \/ Early /\ Engine!Codex /\ request'.number = 4 /\ (request'.awaited => engine.alive /\ request'.answer = "none")
    <3>1. 4 \in 0 .. 4 /\ engine.alive \in BOOLEAN
      BY DEF EngineTypes, EngineRecord
    <3>2. CASE Engine!Codex
      <4> DEFINE a == IF engine.alive THEN "none" ELSE "refusal"
      <4>1. request' = [number |-> 4, awaited |-> engine.alive, answer |-> a] /\ a \in {"none", "refusal"}
            /\ (engine.alive => a = "none")
        BY <1>3, <3>2 DEF Engine!Interrupt
      <4> HIDE DEF a
      <4> QED
        BY <1>t, <3>1, <3>2, <4>1
    <3>3. CASE ~Engine!Codex
      BY <1>3, <1>t, <3>3 DEF Engine!Interrupt
    <3> QED
      BY <3>2, <3>3
  <2>4. Left' <= Left
    <3>1. Left = 9
      BY <1>t, LeftIs DEF EngineTypes, AdapterRecord
    <3>2. Engine!Codex' <=> Engine!Codex
      BY <2>1 DEF Engine!Codex
    <3>3. Left' <= 9
      <4>1. CASE adapter'.step = "abort"
        BY <2>2, <3>2, <4>1, LastIs, LeftBecomes DEF AdapterRecord
      <4>2. CASE adapter'.step = "stop"
        BY <2>2, <4>2, LeftBecomes, StopShapes DEF AdapterRecord
      <4> QED
        BY <2>2, <4>1, <4>2
    <3> QED
      BY <3>1, <3>3
  <2>5. adapter'.step = "abort" => \/ Engine!Codex /\ adapter'.stops = <<4>>
                                   \/ engine.name = "pi" /\ adapter'.stops = <<2, 2>> /\ adapter'.timer <= 1
    BY <2>2
  <2>6. adapter'.step \notin {"grace", "kill", "over", "close"}
    BY <2>2
  <2>7. adapter'.step = "stop" => adapter'.stops \in {<<2>>, <<4>>, <<2, 2>>}
    BY <2>2
  <2>8. (request'.number = request.number /\ (request'.awaited => request.awaited /\ request'.answer = request.answer))
        \/ (Early /\ Engine!Codex /\ request'.number = 4 /\ (request'.awaited => engine.alive /\ request'.answer = "none"))
    BY <2>3
  <2> QED
    BY <1>t, <2>1, <2>2, <2>3, <2>4, <2>5, <2>6, <2>7, <2>8, LeaveStep
<1> QED
  BY <1>1, <1>2, <1>3


(* Stopping the process: each step leaves less to wait for.                *)
LEMMA StoppingStep ==
  ASSUME EngineInv, adapter.step \in {"abort", "close", "stop", "grace", "kill"}, Engine!AdapterStep,
         UNCHANGED <<pipe, chan, reader, request>>, adapter' \in AdapterRecord,
         adapter'.result = adapter.result, adapter'.step \in {"stop", "grace", "kill", "over"},
         adapter'.step \in {"stop", "grace", "kill"} => adapter'.stops \in {<< 2 >>, << 4 >>, <<2, 2>>},
         adapter'.step = "grace" => adapter'.timer <= Head(adapter'.stops) /\ proc'.closed,
         adapter'.step = "kill" => adapter'.timer = 4 /\ proc'.closed /\ ~engine'.alive /\ ~engine'.helper,
         adapter'.step = "over" => proc.done,
         proc' \in [closed: BOOLEAN, done: BOOLEAN], proc'.done = proc.done,
         engine' \in EngineRecord, engine'.name = engine.name, engine'.ended = engine.ended,
         engine'.fault = engine.fault, engine'.replies = engine.replies,
         engine'.alive => engine.alive, engine'.helper => engine.helper,
         Left' <= Left
  PROVE  EngineInv'
<1> USE DEF EngineInv, Engine!AdapterStep
<1>1. EngineTypes'
  BY DEF EngineTypes
<1>2. Engine!LastRequest' = Engine!LastRequest /\ (Engine!Codex' <=> Engine!Codex) /\ ~Early /\ ~Early'
  BY DEF Engine!LastRequest, Engine!Codex, Early
<1>3. StepsInv'
  BY <1>2 DEF StepsInv, Engine!At
<1>4. TimeInv'
  <2>1. run.timer \in Nat /\ run' = run
    BY DEF EngineTypes, RunRecord
  <2>2. adapter.step \in AdapterSteps /\ adapter'.step \in AdapterSteps
    BY DEF EngineTypes, AdapterRecord, AdapterSteps
  <2>3. adapter.timer \in Nat /\ adapter'.timer \in Nat
    BY DEF EngineTypes, AdapterRecord
  <2>4. Left \in Nat
    BY <2>2, <2>3, LeftIs, StopShapes DEF Early, Engine!At, AdapterSteps, StepsInv
  <2>5. Left' \in Nat
    BY <2>2, <2>3, LeftBecomes, StopShapes DEF Early, Engine!At, AdapterSteps
  <2> QED
    BY <2>1, <2>4, <2>5 DEF TimeInv
<1>5. SaidInv'
  BY <1>2 DEF SaidInv, Says
<1>6. HeardInv'
  BY <1>2 DEF HeardInv
<1>7. ToldInv'
  BY DEF ToldInv, Engine!OutcomeTold, Engine!At, Engine!Ready
<1> QED
  BY <1>1, <1>3, <1>4, <1>5, <1>6, <1>7

(* The next stop, or none, once the process is gone.                       *)
LEMMA NextStopIs ==
  ASSUME EngineInv, adapter.step \in {"stop", "grace", "kill"}, Engine!NextStop, proc.done, proc' = proc
  PROVE  /\ adapter' \in AdapterRecord /\ adapter'.result = adapter.result /\ adapter'.step \in {"stop", "over"}
         /\ adapter'.step = "stop" => adapter'.stops \in {<<2>>, <<4>>, <<2, 2>>}
         /\ Left' <= Left
<1>1. /\ adapter.stops \in {<<2>>, <<4>>, <<2, 2>>} /\ adapter \in AdapterRecord /\ adapter.timer \in Nat
      /\ adapter.step \in AdapterSteps
  BY DEF EngineInv, StepsInv, Engine!At, EngineTypes, AdapterRecord, AdapterSteps
<1>2. CASE Len(adapter.stops) > 1
  <2>1. Tail(adapter.stops) = <<2>>
    <3>1. adapter.stops = <<2, 2>>
      <4>1. Len(<<2>>) = 1 /\ Len(<<4>>) = 1
        BY StopShapes
      <4>2. ASSUME adapter.stops = << 2 >> \/ adapter.stops = << 4 >> PROVE FALSE
        <5>1. Len(adapter.stops) = 1
          BY <4>1, <4>2, Zenon
        <5> QED
          BY <1>2, <5>1
      <4> QED
        BY <1>1, <4>2
    <3> QED
      BY <3>1, StopShapes
  <2>2. adapter' = [adapter EXCEPT !.step = "stop", !.stops = Tail(@)]
    BY <1>2 DEF Engine!NextStop
  <2>3. adapter' = [adapter EXCEPT !.step = "stop", !.stops = <<2>>]
    BY <1>1, <2>1, <2>2 DEF AdapterRecord
  <2>4. adapter' \in AdapterRecord /\ adapter'.result = adapter.result /\ adapter'.step = "stop" /\ adapter'.stops = <<2>>
    BY <1>1, <2>3 DEF AdapterRecord
  <2>5. Left' = 0
    BY <2>4, LeftBecomes
  <2>6. Left \in Nat
    BY <1>1, LeftIs DEF AdapterSteps, Engine!At
  <2> QED
    BY <2>4, <2>5, <2>6
<1>3. CASE ~(Len(adapter.stops) > 1)
  <2>1. adapter' = [adapter EXCEPT !.step = "over", !.stops = <<>>]
    BY <1>3 DEF Engine!NextStop
  <2>2. adapter' \in AdapterRecord /\ adapter'.result = adapter.result /\ adapter'.step = "over"
    BY <1>1, <2>1 DEF AdapterRecord
  <2>3. Left' = 0
    BY <2>2, LeftBecomes
  <2>4. Left \in Nat
    BY <1>1, LeftIs DEF AdapterSteps, Engine!At
  <2> QED
    BY <2>2, <2>3, <2>4
<1> QED
  BY <1>2, <1>3

LEMMA StopsMove ==
  ASSUME EngineInv, Engine!AbortOver \/ Engine!CloseOver \/ Engine!Stop \/ Engine!GraceOver \/ Engine!KillOver
  PROVE  EngineInv'
<1> USE DEF EngineInv
<1>t. /\ adapter \in AdapterRecord /\ adapter.timer \in Nat /\ adapter.step \in AdapterSteps
      /\ engine \in EngineRecord /\ proc \in [closed: BOOLEAN, done: BOOLEAN]
      /\ chan \in Seq(Engine!Messages) /\ Len(chan) <= Room
      /\ request \in [number: 0 .. 4, awaited: BOOLEAN, answer: {"none", "reply", "refusal"}]
  BY DEF EngineTypes, AdapterRecord, AdapterSteps
<1>1. CASE Engine!AbortOver
  <2>1. /\ adapter.step = "abort" /\ UNCHANGED <<engine, pipe, proc, chan, reader>> /\ Engine!AdapterStep
        /\ request' = [request EXCEPT !.awaited = FALSE] /\ Says(chan') = Says(chan)
        /\ adapter' = IF Engine!Codex THEN [adapter EXCEPT !.step = "close", !.timer = 1] ELSE [adapter EXCEPT !.step = "stop"]
    BY <1>1 DEF Engine!AbortOver, Engine!At, Says
  <2>2. \/ Engine!Codex /\ adapter.stops = <<4>>
        \/ engine.name = "pi" /\ adapter.stops = <<2, 2>> /\ adapter.timer <= 1
    BY <2>1 DEF StepsInv, Engine!At
  <2>3. /\ adapter' \in AdapterRecord /\ adapter'.result = adapter.result /\ adapter'.stops = adapter.stops
        /\ adapter'.step = (IF Engine!Codex THEN "close" ELSE "stop") /\ (Engine!Codex => adapter'.timer = 1)
    <3>1. 1 \in 0 .. 4
      OBVIOUS
    <3> QED
      BY <1>t, <2>1, <3>1 DEF AdapterRecord
  <2>4. /\ request' \in [number: 0 .. 4, awaited: BOOLEAN, answer: {"none", "reply", "refusal"}]
        /\ request'.number = request.number /\ ~request'.awaited
    BY <1>t, <2>1
  <2>5. Left' <= Left
    <3>1. Engine!Codex' <=> Engine!Codex
      BY <2>1 DEF Engine!Codex
    <3>2. CASE Engine!Codex
      <4>1. Left = adapter.timer + 5 /\ Left' = adapter'.timer + 4
        BY <1>t, <2>1, <2>3, <3>2, LeftIs, LeftBecomes DEF AdapterSteps, Engine!At
      <4> QED
        BY <1>t, <2>3, <3>2, <4>1
    <3>3. CASE ~Engine!Codex
      <4>1. Left = adapter.timer + 2 /\ Left' = (IF proc.done THEN 0 ELSE Head(adapter.stops))
        BY <1>t, <2>1, <2>3, <3>3, LeftIs, LeftBecomes DEF AdapterSteps, Engine!At
      <4> QED
        BY <1>t, <2>2, <3>3, <4>1, StopShapes
    <3> QED
      BY <3>2, <3>3
  <2>6. /\ ~Early' /\ adapter'.step \in {"close", "stop"} /\ adapter'.stops \in {<<2>>, <<4>>, <<2, 2>>}
        /\ adapter'.step = "close" => Engine!Codex /\ adapter'.stops = <<4>> /\ adapter'.timer <= 1
    BY <2>2, <2>3 DEF Early, Engine!Codex
  <2> QED
    BY <1>t, <2>1, <2>3, <2>4, <2>5, <2>6, LeaveStep
<1>2. CASE Engine!CloseOver
  <2> DEFINE step == IF proc.done THEN "over" ELSE "stop"
  <2>1. /\ adapter.step = "close" /\ UNCHANGED <<engine, pipe, proc, chan, reader, request>> /\ Engine!AdapterStep
        /\ adapter' = [adapter EXCEPT !.step = step] /\ adapter.stops = <<4>>
        /\ step \in {"over", "stop"} /\ (step = "over" => proc.done)
    BY <1>2 DEF Engine!CloseOver, Engine!At, Engine!Enter, StepsInv
  <2> HIDE DEF step
  <2>2. adapter' \in AdapterRecord /\ adapter'.result = adapter.result /\ adapter'.stops = <<4>> /\ adapter'.step = step
    BY <1>t, <2>1 DEF AdapterRecord
  <2>3. Left' <= Left
    <3>1. Left = adapter.timer + 4 /\ Left' \in {0, 4}
      BY <1>t, <2>1, <2>2, LeftIs, LeftBecomes, StopShapes DEF AdapterSteps, Engine!At
    <3> QED
      BY <1>t, <3>1
  <2> QED
    BY <1>t, <2>1, <2>2, <2>3, StoppingStep
<1>3. CASE Engine!Stop
  <2>1. adapter.step = "stop" /\ UNCHANGED <<engine, pipe, chan, reader, request>> /\ Engine!AdapterStep
        /\ adapter.stops \in {<<2>>, <<4>>, <<2, 2>>}
    BY <1>3 DEF Engine!Stop, Engine!At, StepsInv
  <2>2. CASE proc.done
    <3>1. Engine!NextStop /\ UNCHANGED proc
      BY <1>3, <2>2 DEF Engine!Stop
    <3> QED
      BY <1>t, <2>1, <2>2, <3>1, NextStopIs, StoppingStep
  <2>3. CASE ~proc.done
    <3> DEFINE h == Head(adapter.stops)
    <3>1. adapter' = [adapter EXCEPT !.step = "grace", !.timer = h] /\ proc' = [proc EXCEPT !.closed = TRUE]
          /\ h \in 0 .. 4 /\ h = Head(adapter.stops)
      BY <1>3, <2>1, <2>3, StopShapes DEF Engine!Stop
    <3> HIDE DEF h
    <3>2. /\ adapter' \in AdapterRecord /\ adapter'.result = adapter.result /\ adapter'.stops = adapter.stops
          /\ adapter'.step = "grace" /\ adapter'.timer = h
          /\ proc' \in [closed: BOOLEAN, done: BOOLEAN] /\ proc'.done = proc.done /\ proc'.closed
      BY <1>t, <3>1 DEF AdapterRecord
    <3>3. Left' <= Left
      <4>1. Left = h /\ Left' = h
        BY <1>t, <2>1, <2>3, <3>1, <3>2, LeftIs, LeftBecomes DEF AdapterSteps, Engine!At
      <4> QED
        BY <3>1, <4>1
    <3>4. adapter'.timer <= Head(adapter'.stops)
      BY <3>1, <3>2
    <3> QED
      BY <1>t, <2>1, <3>2, <3>3, <3>4, StoppingStep
  <2> QED
    BY <2>2, <2>3
<1>4. CASE Engine!GraceOver
  <2>1. adapter.step = "grace" /\ UNCHANGED <<pipe, proc, chan, reader, request>> /\ Engine!AdapterStep
        /\ adapter.stops \in {<<2>>, <<4>>, <<2, 2>>} /\ proc.closed
    BY <1>4 DEF Engine!GraceOver, Engine!At, StepsInv
  <2>2. CASE proc.done
    <3>1. Engine!NextStop /\ UNCHANGED engine
      BY <1>4, <2>2 DEF Engine!GraceOver
    <3> QED
      BY <1>t, <2>1, <2>2, <3>1, NextStopIs, StoppingStep
  <2>3. CASE ~proc.done
    <3>1. adapter' = [adapter EXCEPT !.step = "kill", !.timer = 4]
          /\ engine' = [engine EXCEPT !.alive = FALSE, !.helper = FALSE] /\ 4 \in 0 .. 4
      BY <1>4, <2>3 DEF Engine!GraceOver
    <3>2. /\ adapter' \in AdapterRecord /\ adapter'.result = adapter.result /\ adapter'.stops = adapter.stops
          /\ adapter'.step = "kill" /\ adapter'.timer = 4
      BY <1>t, <3>1 DEF AdapterRecord
    <3>3. /\ engine' \in EngineRecord /\ engine'.name = engine.name /\ engine'.ended = engine.ended
          /\ engine'.fault = engine.fault /\ engine'.replies = engine.replies
          /\ ~engine'.alive /\ ~engine'.helper
      BY <1>t, <3>1 DEF EngineRecord
    <3>4. Left' <= Left
      <4>1. Left = adapter.timer /\ Left' = 0
        BY <1>t, <2>1, <3>2, LeftIs, LeftBecomes DEF AdapterSteps, Engine!At
      <4> QED
        BY <1>t, <4>1
    <3> QED
      BY <1>t, <2>1, <3>2, <3>3, <3>4, StoppingStep
  <2> QED
    BY <2>2, <2>3
<1>5. CASE Engine!KillOver
  <2>1. adapter.step = "kill" /\ UNCHANGED <<engine, pipe, proc, chan, reader, request>> /\ Engine!AdapterStep /\ Engine!NextStop
        /\ Engine!CanGoOn /\ adapter.timer = 4
    BY <1>5 DEF Engine!KillOver, Engine!At, StepsInv
  <2>2. proc.done
    BY <2>1 DEF Engine!CanGoOn, Engine!At, Engine!Expired
  <2> QED
    BY <1>t, <2>1, <2>2, NextStopIs, StoppingStep
<1> QED
  BY <1>1, <1>2, <1>3, <1>4, <1>5


-----------------------------------------------------------------------------
(* The run.                                                                *)
LEMMA RunFrame ==
  ASSUME EngineInv, Engine!RunStep, run' \in RunRecord, TimeInv', ToldInv'
  PROVE  EngineInv'
<1> USE DEF EngineInv, Engine!RunStep
<1>1. EngineTypes'
  BY DEF EngineTypes
<1>2. StepsInv' /\ SaidInv' /\ HeardInv'
  BY DEF StepsInv, SaidInv, HeardInv, Says, Engine!LastRequest, Engine!Codex, Engine!At, Early, Engine!Acknowledged
<1> QED
  BY <1>1, <1>2

(* The run returns once the adapter is over.                               *)
LEMMA ReturnStep ==
  ASSUME EngineInv, Engine!RunStep, run.step # "returned", Engine!At("over"),
         NEW outcome \in Engine!Results, Engine!Return(outcome),
         outcome = "completed" => (IF Tests THEN artifact = "ready" ELSE engine.ended = "ok"),
         outcome = "cancelled" => cancel \/ engine.ended = "interrupted",
         outcome = "failed" => engine.fault \/ (Tests /\ engine.ended = "ok")
  PROVE  EngineInv'
<1> USE DEF EngineInv
<1> DEFINE told == IF Engine!Ready THEN "completed" ELSE outcome
<1>1. /\ run' = [run EXCEPT !.step = "returned", !.timer = 0, !.outcome = told]
      /\ told \in Engine!Results /\ (told = "completed" \/ told = outcome) /\ (Engine!Ready => told = "completed")
      /\ (~Engine!Ready => told = outcome) /\ run \in RunRecord /\ 0 \in 0 .. 10
  BY DEF Engine!Return, Engine!Results, EngineTypes
<1> HIDE DEF told
<1>2. /\ run' \in RunRecord /\ run'.step = "returned" /\ run'.outcome = told /\ run'.found = run.found
  BY <1>1 DEF RunRecord
<1>3. TimeInv'
  BY <1>2 DEF TimeInv
<1>4. Engine!OutcomeTold'
  BY <1>1, <1>2 DEF Engine!OutcomeTold, Engine!RunStep, Engine!Ready
<1>5. ToldInv'
  BY <1>2, <1>4 DEF ToldInv, Engine!RunStep, Engine!Ready, Engine!At
<1> QED
  BY <1>2, <1>3, <1>5, RunFrame

LEMMA RunMoves ==
  ASSUME EngineInv, Engine!RunNext \/ Engine!Cancel
  PROVE  EngineInv'
<1> USE DEF EngineInv
<1>t. /\ run \in RunRecord /\ adapter.step \in AdapterSteps /\ adapter.timer \in 0 .. 4 /\ run.timer \in Nat
      /\ adapter.result \in Engine!Results
  BY DEF EngineTypes, RunRecord, AdapterRecord, AdapterSteps
<1>1. ASSUME run.step = "waiting", Engine!RunStep, NEW found \in BOOLEAN,
             run' = [run EXCEPT !.step = "stopping", !.timer = 10, !.found = found],
             cancel \/ found, found => Engine!Ready
      PROVE  EngineInv'
  <2>1. 10 \in 0 .. 10
    OBVIOUS
  <2>2. run' \in RunRecord /\ run'.step = "stopping" /\ run'.timer = 10 /\ run'.found = found /\ run'.outcome = run.outcome
    BY <1>t, <1>1, <2>1 DEF RunRecord
  <2>3. TimeInv'
    <3>1. Left' = Left
      BY <1>1 DEF Engine!RunStep, Left, Engine!At, Engine!Codex
    <3>2. Left <= 9
      <4>1. CASE adapter.step = "abort"
        BY <1>t, <4>1, LeftIs DEF StepsInv, Engine!At, AdapterSteps, Engine!Codex
      <4>2. CASE adapter.step = "stop"
        BY <1>t, <4>2, LeftIs, StopShapes DEF StepsInv, Engine!At, AdapterSteps
      <4>3. CASE adapter.step \notin {"abort", "stop"}
        BY <1>t, <4>3, LeftIs DEF StepsInv, Engine!At, AdapterSteps, Early
      <4> QED
        BY <4>1, <4>2, <4>3
    <3>3. Left \in Int
      BY <1>t, LeftIs, StopShapes DEF StepsInv, Engine!At, AdapterSteps, Early
    <3> QED
      BY <2>2, <3>1, <3>2, <3>3 DEF TimeInv
  <2>4. ToldInv'
    BY <1>1, <2>2 DEF ToldInv, Engine!OutcomeTold, Engine!RunStep, Engine!Ready, Engine!At
  <2> QED
    BY <1>1, <2>2, <2>3, <2>4, RunFrame
<1>2. CASE Engine!SeeCancel
  <2>1. run' = [run EXCEPT !.step = "stopping", !.timer = 10, !.found = run.found] /\ run.step = "waiting" /\ cancel
        /\ Engine!RunStep /\ (run.found => Engine!Ready) /\ run.found \in BOOLEAN
    BY <1>t, <1>2 DEF Engine!SeeCancel, RunRecord, ToldInv
  <2> QED
    BY <1>1, <2>1
<1>3. CASE Engine!SeeArtifact
  BY <1>1, <1>3 DEF Engine!SeeArtifact
<1>4. CASE Engine!TakeResult
  <2>1. run.step = "waiting" /\ Engine!At("over") /\ Engine!RunStep
    BY <1>4 DEF Engine!TakeResult
  <2>2. CASE adapter.result # "completed" \/ ~Tests
    <3>1. Engine!Return(adapter.result)
      BY <1>4, <2>2 DEF Engine!TakeResult
    <3>2. /\ adapter.result = "completed" => engine.ended = "ok" /\ ~Tests
          /\ adapter.result = "failed" => engine.fault
          /\ adapter.result = "cancelled" => cancel \/ engine.ended = "interrupted"
      BY <2>1, <2>2 DEF ToldInv
    <3> QED
      BY <1>t, <2>1, <3>1, <3>2, ReturnStep
  <2>3. CASE adapter.result = "completed" /\ Tests /\ artifact = "pending"
    <3>1. run' = [run EXCEPT !.step = "settling"]
      BY <1>4, <2>3 DEF Engine!TakeResult
    <3>2. run' \in RunRecord /\ run'.step = "settling" /\ run'.found = run.found /\ run'.outcome = run.outcome
      BY <1>t, <3>1 DEF RunRecord
    <3>3. TimeInv'
      BY <3>2 DEF TimeInv
    <3>4. ToldInv'
      BY <2>1, <2>3, <3>2 DEF ToldInv, Engine!OutcomeTold, Engine!RunStep, Engine!Ready, Engine!At
    <3> QED
      BY <2>1, <3>2, <3>3, <3>4, RunFrame
  <2>4. CASE adapter.result = "completed" /\ Tests /\ artifact # "pending"
    <3>1. Engine!Return("failed")
      BY <1>4, <2>4 DEF Engine!TakeResult
    <3> QED
      BY <2>1, <2>4, <3>1, ReturnStep DEF ToldInv, Engine!Results
  <2> QED
    BY <2>2, <2>3, <2>4
<1>5. CASE Engine!Settle
  <2>1. Engine!At("over") /\ Tests /\ adapter.result = "completed" /\ engine.ended = "ok" /\ Engine!RunStep /\ run.step = "settling"
    BY <1>5 DEF Engine!Settle, ToldInv
  <2>2. CASE Engine!Return("failed")
    BY <2>1, <2>2, ReturnStep DEF Engine!Results
  <2>3. CASE cancel /\ Engine!Return("cancelled")
    BY <2>1, <2>3, ReturnStep DEF Engine!Results
  <2> QED
    BY <1>5, <2>2, <2>3 DEF Engine!Settle
<1>6. CASE Engine!StopSeen
  <2>1. /\ Engine!At("over") /\ run.step = "stopping" /\ Engine!RunStep /\ (cancel \/ run.found) /\ (run.found => Tests /\ artifact = "ready")
        /\ Engine!Return(IF adapter.result = "failed" THEN "failed" ELSE IF run.found THEN "completed" ELSE "cancelled")
    BY <1>6 DEF Engine!StopSeen, ToldInv, Engine!Ready
  <2> DEFINE outcome == IF adapter.result = "failed" THEN "failed" ELSE IF run.found THEN "completed" ELSE "cancelled"
  <2>2. /\ outcome \in Engine!Results /\ Engine!Return(outcome)
        /\ outcome = "completed" => run.found
        /\ outcome = "cancelled" => ~run.found
        /\ outcome = "failed" => adapter.result = "failed"
    BY <2>1 DEF Engine!Results
  <2> HIDE DEF outcome
  <2> QED
    BY <2>1, <2>2, ReturnStep DEF ToldInv
<1>7. CASE Engine!GiveUp
  <2>1. run.step = "stopping" /\ run.timer = 0
    BY <1>7 DEF Engine!GiveUp
  <2>2. Left >= 0 /\ Left \in Int
    BY <1>t, LeftIs, StopShapes DEF StepsInv, Engine!At, AdapterSteps, Early
  <2> QED
    BY <2>1, <2>2 DEF TimeInv
<1>8. CASE Engine!Cancel
  <2>1. cancel' = TRUE /\ UNCHANGED <<engine, pipe, proc, chan, reader, request, adapter, run, artifact>>
    BY <1>8 DEF Engine!Cancel
  <2>2. EngineTypes' /\ StepsInv' /\ SaidInv' /\ HeardInv'
    BY <2>1 DEF EngineTypes, StepsInv, SaidInv, HeardInv, Says, Engine!LastRequest, Engine!Codex, Engine!At, Early, Engine!Acknowledged
  <2>3. TimeInv'
    BY <2>1 DEF TimeInv, Left, Engine!At, Engine!Codex
  <2>4. ToldInv'
    BY <2>1 DEF ToldInv, Engine!OutcomeTold, Engine!Ready, Engine!At
  <2> QED
    BY <2>2, <2>3, <2>4
<1> QED
  BY <1>2, <1>3, <1>4, <1>5, <1>6, <1>7, <1>8 DEF Engine!RunNext

LEMMA TickStep ==
  ASSUME EngineInv, Engine!Tick
  PROVE  EngineInv'
<1> USE DEF EngineInv
<1>t. /\ run \in RunRecord /\ adapter \in AdapterRecord /\ adapter.step \in AdapterSteps /\ adapter.timer \in 0 .. 4
      /\ run.timer \in 0 .. 10 /\ engine \in EngineRecord
  BY DEF EngineTypes, RunRecord, AdapterRecord, AdapterSteps
<1>1. /\ ~Engine!Busy /\ UNCHANGED <<engine, pipe, proc, chan, reader, request, cancel, artifact>>
      /\ adapter' = [adapter EXCEPT !.timer = Engine!Less(@)] /\ run' = [run EXCEPT !.timer = Engine!Less(@)]
  BY DEF Engine!Tick
<1> DEFINE a == Engine!Less(adapter.timer)
           r == Engine!Less(run.timer)
<1>2. /\ a \in 0 .. 4 /\ a <= adapter.timer /\ (adapter.timer # 0 => a = adapter.timer - 1)
      /\ r \in 0 .. 10 /\ (run.timer # 0 => r = run.timer - 1)
  BY <1>t DEF Engine!Less
<1>3. adapter' = [adapter EXCEPT !.timer = a] /\ run' = [run EXCEPT !.timer = r]
  BY <1>1, <1>t DEF AdapterRecord, RunRecord
<1> HIDE DEF a, r
<1>4. /\ adapter' \in AdapterRecord /\ adapter'.timer = a /\ adapter'.step = adapter.step
      /\ adapter'.stops = adapter.stops /\ adapter'.result = adapter.result
      /\ run' \in RunRecord /\ run'.timer = r /\ run'.step = run.step /\ run'.outcome = run.outcome /\ run'.found = run.found
  BY <1>t, <1>2, <1>3 DEF AdapterRecord, RunRecord
<1>5. EngineTypes'
  BY <1>1, <1>4 DEF EngineTypes
<1>6. Engine!LastRequest' = Engine!LastRequest /\ (Engine!Codex' <=> Engine!Codex) /\ (Early' <=> Early)
  BY <1>1, <1>4 DEF Engine!LastRequest, Engine!Codex, Early
\* Nothing waits while the process is being killed: it is reaped.
<1>7. ~Engine!At("kill") /\ ~Engine!At("stop")
  <2>1. ~Engine!CanGoOn /\ ~Engine!MustReap
    BY <1>1 DEF Engine!Busy
  <2>2. ~Engine!At("stop")
    BY <2>1 DEF Engine!CanGoOn, Engine!At
  <2>3. ~Engine!At("kill")
    BY <2>1 DEF Engine!CanGoOn, Engine!At, Engine!MustReap, StepsInv
  <2> QED
    BY <2>2, <2>3
<1>8. StepsInv'
  <2>1. Engine!At("grace") => Head(adapter.stops) \in Nat
    BY StopShapes DEF StepsInv
  <2> QED
    BY <1>1, <1>t, <1>2, <1>4, <1>6, <1>7, <2>1 DEF StepsInv, Engine!At
<1>9. TimeInv'
  <2> SUFFICES ASSUME run.step = "stopping" PROVE Left' < r
    BY <1>4 DEF TimeInv
  <2>1. ~Engine!CanGoOn /\ run.timer # 0 /\ adapter.step \notin {"over", "await", "turn"}
    BY <1>1 DEF Engine!Busy, Engine!Stopped, Engine!At
  <2>2. adapter.step # "write"
    <3>1. Engine!CanWrite
      BY <1>t DEF Engine!CanWrite, EngineRecord
    <3> QED
      BY <1>1, <3>1 DEF Engine!Busy, Engine!At
  <2>3. adapter.step \in {"abort", "close", "grace"}
    BY <1>7, <1>t, <2>1, <2>2 DEF AdapterSteps, Engine!At
  <2>4. adapter.timer # 0
    BY <2>1, <2>3 DEF Engine!CanGoOn, Engine!Expired, Engine!At
  <2>5. Left < run.timer /\ Left \in Int
    BY <1>t, <2>3, LeftIs DEF TimeInv, AdapterSteps, Engine!At
  <2>6. Left' = Left - 1
    <3>1. CASE adapter.step = "abort"
      BY <1>2, <1>4, <1>6, <1>t, <2>4, <3>1, LeftIs, LeftBecomes DEF Engine!At, AdapterSteps
    <3>2. CASE adapter.step = "close"
      BY <1>2, <1>4, <1>t, <2>4, <3>2, LeftIs, LeftBecomes DEF Engine!At, AdapterSteps
    <3>3. CASE adapter.step = "grace"
      BY <1>2, <1>4, <1>t, <2>4, <3>3, LeftIs, LeftBecomes DEF Engine!At, AdapterSteps
    <3> QED
      BY <2>3, <3>1, <3>2, <3>3
  <2> QED
    BY <1>2, <1>t, <2>1, <2>5, <2>6
<1>10. SaidInv' /\ HeardInv'
  BY <1>1, <1>4, <1>6 DEF SaidInv, HeardInv, Says, Engine!Acknowledged
<1>11. ToldInv'
  BY <1>1, <1>4 DEF ToldInv, Engine!OutcomeTold, Engine!Ready, Engine!At
<1> QED
  BY <1>5, <1>8, <1>9, <1>10, <1>11


LEMMA EngineSteps ==
  ASSUME Engine!EngineAssumption, EngineInv, [Engine!Next]_(Engine!vars)
  PROVE  EngineInv'
<1>1. CASE UNCHANGED Engine!vars
  <2>1. EngineTypes' /\ StepsInv' /\ SaidInv' /\ HeardInv'
    BY <1>1 DEF EngineInv, Engine!vars, EngineTypes, StepsInv, SaidInv, HeardInv, Says, Engine!LastRequest, Engine!Codex, Engine!At, Early, Engine!Acknowledged
  <2>2. TimeInv'
    BY <1>1 DEF EngineInv, Engine!vars, TimeInv, Left, Engine!At, Engine!Codex
  <2>3. ToldInv'
    BY <1>1 DEF EngineInv, Engine!vars, ToldInv, Engine!OutcomeTold, Engine!Ready, Engine!At
  <2> QED
    BY <2>1, <2>2, <2>3 DEF EngineInv
<1>2. CASE Engine!AdapterNext
  BY <1>2, StartsMove, TurnMoves, StopsMove DEF Engine!AdapterNext
<1> QED
  BY <1>1, <1>2, EngineMoves, ReapStep, ReadMessageStep, ReadEndStep, RunMoves, TickStep DEF Engine!Next

LEMMA EngineSound ==
  ASSUME Engine!EngineAssumption, EngineInv
  PROVE  Engine!TypeOK /\ Engine!EngineGone /\ Engine!OutcomeTold
<1> USE DEF EngineInv, EngineTypes, EngineRecord, AdapterRecord, RunRecord
<1>1. engine \in [name: Engines, alive: BOOLEAN, helper: BOOLEAN, large: BOOLEAN, read: BOOLEAN,
                 replies: Nat, notes: 0 .. MaxNotes, ended: {"no", "ok", "error", "interrupted"}, fault: BOOLEAN]
      /\ engine.name \in Engines
  OBVIOUS
<1>2. adapter.stops \in Seq(Nat)
  <2>1. adapter.stops \in {<<>>, <<2>>, <<4>>, <<2, 2>>}
    OBVIOUS
  <2>2. <<>> \in Seq(Nat) /\ <<2>> \in Seq(Nat) /\ <<4>> \in Seq(Nat) /\ <<2, 2>> \in Seq(Nat)
    OBVIOUS
  <2> QED
    BY <2>1, <2>2
<1>3. Engine!TypeOK
  BY <1>1, <1>2 DEF Engine!TypeOK, StepsInv
<1>4. Engine!EngineGone
  BY DEF Engine!EngineGone, ToldInv, StepsInv
<1>5. Engine!OutcomeTold
  BY DEF ToldInv
<1> QED
  BY <1>3, <1>4, <1>5

\* Whatever engine runs, and whatever it says, with a prompt that fits the pipe:
\* every variable has its type in every reachable state.
THEOREM EngineTypeCorrect ==
  ASSUME Engine!EngineAssumption, ~Large PROVE Engine!Spec => []Engine!TypeOK
<1>1. Engine!Init => EngineInv
  BY EngineInit
<1>2. EngineInv /\ [Engine!Next]_(Engine!vars) => EngineInv'
  BY EngineSteps
<1>3. EngineInv => Engine!TypeOK
  BY EngineSound
<1> QED
  BY <1>1, <1>2, <1>3, PTL DEF Engine!Spec

\* When the run has returned, neither the engine nor a child of it still runs.
THEOREM EngineIsGone ==
  ASSUME Engine!EngineAssumption, ~Large PROVE Engine!Spec => []Engine!EngineGone
<1>1. Engine!Init => EngineInv
  BY EngineInit
<1>2. EngineInv /\ [Engine!Next]_(Engine!vars) => EngineInv'
  BY EngineSteps
<1>3. EngineInv => Engine!EngineGone
  BY EngineSound
<1> QED
  BY <1>1, <1>2, <1>3, PTL DEF Engine!Spec

\* A run is told as completed, cancelled or failed only if it was, and stopping an
\* engine never takes as long as the run waits for it.
THEOREM OutcomeIsTold ==
  ASSUME Engine!EngineAssumption, ~Large PROVE Engine!Spec => []Engine!OutcomeTold
<1>1. Engine!Init => EngineInv
  BY EngineInit
<1>2. EngineInv /\ [Engine!Next]_(Engine!vars) => EngineInv'
  BY EngineSteps
<1>3. EngineInv => Engine!OutcomeTold
  BY EngineSound
<1> QED
  BY <1>1, <1>2, <1>3, PTL DEF Engine!Spec

=============================================================================
