# A TLA+ model of mspace

mspace lets people hand issues to coding agents. A Go control plane
(`server/`) keeps the truth in a store (in memory, as SQLite snapshots, or in
Postgres); Go workers (`worker/`) claim tasks, run an agent engine in a git
worktree and report back; a desktop application (`apps/desktop`) and its pages
(`packages/views`) drive the server and look after a personal worker. The part
that is hardest to get right is the **issue working copy**: one git branch and
one worktree per issue, on one worker's disk, that successive agent sessions
write one after the other while workers crash, messages get lost and people
cancel. Around it are some thirty smaller protocols: supervisors, forms, polled
lists, imports, test runs, environments.

This directory specifies them in TLA+, checks small instances with TLC and
proves the central properties for all instances with TLAPS. Paths are relative
to `src/`; "the page" is code of `packages/views/src`.

Contents: 1 inventory · 2 modules · 3 what is checked · 4 what is proved ·
5 mutants · 6 disagreements and surprises · 7 plan.

## 1. Inventory

Status: **m** modelled (every operation that changes state is an action),
**p** partly, **–** not modelled. `PROJECT.json` gives the files and what a
partial model leaves out.

| Component | | State it keeps; with whom it interacts | What makes it hard | Correct when | Module |
|---|---|---|---|---|---|
| Issue working copies | m | a record per issue: state, project, base, head, storage, holder, generation; read and written by session start, claim, report, cancel | late and contradictory reports, reclaims, cancel races | one holder, heads form one line, a rejected report moves nothing | `IssueWorkingCopy`, `WorkingCopyLease` |
| Runtime tasks, worker registry | p | tasks (status, claimant, affinity, cancel request, age) and workers (status, storage, capabilities, last seen) | reclaim against a live worker, a worker that changes identity | outcomes final, cancellations honoured, storage sticky | `IssueWorkingCopy` |
| Worker daemon | p | its job, worktrees, branches, metadata files; calls the task API, git and an engine | a crash between any two steps, lost answers, failing git | the worktree is what the record says | `WorkerDaemon` |
| Issue tree and projects | p | project and parent of an issue | moves and deletions while sessions run | a running turn is undisturbed | `IssueWorkingCopy` |
| Automatic test deployment | p | a deploy session queued by a completion | same transaction as the report | deploys only what was accepted | `IssueWorkingCopy`, `TestEnvironment` |
| Agent engine adapters | p | the engine's process, its pipe, requests, graces | cancellation, kills and results cross | the engine is gone when the run returns, its outcome told truly | `AgentEngine` |
| Worker storage identity | m | the id file of a work root | workers start at once, kills between create, write and sync | one identity per root, never lost | `WorkerStorage` |
| Issue analysis and type triage | p | triage task and analysis session of an issue | overlapping requests, old producers, crashes | one active task, people win, no second turn, analyses repeated by races only | `IssueAutomation` |
| SQLite snapshot store | p | memory, one row on disk, a mutex | concurrent writers, a crash between change, snapshot and answer | answered means durable; the file never goes back | `SnapshotStore` |
| Inbox | m | events, receipts, the shown list | an entry is opened while a newer event arrives | only what had appeared is marked | `Inbox` |
| Personal worker supervisor | m | child processes, tokens, timers of the desktop's main process | ensure, stop, renewal and restart interleave at every await | no worker lost or doubled, tokens usable | `PersonalWorker` |
| Desktop host identity | m | an id file and the promise that loads it | concurrent callers, crashes, failing writes | one answer: what is on disk | `HostIdentity` |
| Desktop local server | m | child process, start in progress, probes | a start is abandoned while its interval runs | callers are answered, strangers spared | `LocalServer` |
| Desktop renderer shell | p | address, token, selected workspace, invitation; the sidebar | answers of the old address or account arrive late | shown together belongs together; places shared fairly | `ClientSession`, `ActiveWork` |
| Worker readiness preflight | m | a call that asks, starts and polls | "ready" from before the start | ready means a heartbeat since | `RuntimeReadiness` |
| Test case import | m | file, preview, mapping task, requests in flight | answers for a replaced file | what is confirmed was previewed | `TestImport` |
| Test run | p | run, items, sessions; pages of several users | cancel, retry and reports cross; a report may list items of another session | reviewed whole, cancel stops the sessions it finds | `TestRun` |
| Test case catalog | p | selection, lists by project and page, suggestions, plans | cached lists of another project, two users | requests stay in their project, decided once | `TestCatalog` |
| Test case and plan editors | m | drafts over records that are read again | refetch while typing | typing is kept, history replays | `TestEditors` |
| Issue composer | p | draft, edited comment, attachment, sends | a send is several requests | a session belongs to its comment's issue | `IssueComposer` |
| Session timeline | p | logs read beside a polled list | overlapping reads answer out of order | a finished session shows everything | `SessionSnapshots` |
| Issue fields and triage result | p | title, body, labels, child tasks; an editor | triage and other people write meanwhile | choices stand | `IssueEditing` |
| Issue evidence | p | reviews, environment, packet | evidence of other code, torn reads | the packet is of the source that runs | `IssueEvidence` |
| Commit page and diff preview | m | a printed diff, cut to a limit | lines that look like headers, cuts | every line in its place | `DiffPreview` |
| Test environments | p | the namespace record, its sessions, automatic checks | a check or a request overlaps a deployment or cleanup and writes an old record back | active means deployed, the commit shown is the one deployed | `TestEnvironment`, `EnvironmentResources` |
| Pull-request handoff | p | the record, its session, two windows | session queued before the record is stored | the recorded PR is of its session's commit | `PullRequestHandoff` |
| Workspace settings page | p | forms, invitations, credentials | other admins, switching workspaces mid-save | only what was chosen is saved, there | `WorkspaceSettings` |
| Runtime task queue page | p | a polled page of tasks, its details | tasks come in front while paging | none skipped | `RuntimeTasksPanel` |
| Environments | m | clusters and VMs, credentials, references | a slow check overlaps a save | ready means tested as it is | `Environments` |
| Projects and runbooks | m | projects, runbooks, dialogs | late loads into an editor | a runbook is saved only by choice | `Projects` |
| Skills | p | skills with slugs and revisions | overlapping creates, updates, deletes | slugs differ, deleted stays deleted | `Skills` |
| Runtime availability | – | none (a read-only diagnosis); what the client does with it is in `RuntimeReadiness` | | | |
| Accounts, workspaces, tokens (server) | – | users, sessions, invitations; one locked write each; the client's side is in `ClientSession` and `WorkspaceSettings` | | | |
| GitHub App | – | one write after a call of GitHub; nothing uses it yet | | | |
| Session, account and issue list pages | – | render polled lists, send single requests | | | |
| HTTP API, HTTP client and types | – | routing, decoding, one function per route | | | |
| Postgres migrations | – | run once, in order | | | |
| Translations, styling, website, deployment files | – | no state | | | |

## 2. Modules

```
WorkingCopyLease              what a working copy promises (abstract)
   ^ implemented by: IssueWorkingCopy!ImplementsLease (run turns, theorem RecordImplementsLease)
IssueWorkingCopy              server: copies, tasks, workers, issue tree
   |-- MCIssueWorkingCopy             runs turns, queue
   ^ implemented by: WorkerDaemon!ImplementsServer (run fleet, theorem DaemonImplementsServer)
WorkerDaemon                  workers with disks, composed with the server (EXTENDS it)
   |-- MCWorkerDaemon                 runs daemon, progress, fleet, cancel_stuck
   `-- WorkingCopyProofs              the proofs about both

MCRuntime    <- RuntimeProofs <- IssueAutomation, HostIdentity, WorkerStorage, AgentEngine
                SnapshotStore
MCDelivery   <- DeliveryProofs <- TestEnvironment, EnvironmentResources, PullRequestHandoff
MCWorkspace  <- WorkspaceProofs <- SnapshotStore, WorkspaceSettings, RuntimeTasksPanel,
                                   Environments, Projects, Skills
MCIssuePage  <- Inbox, IssueComposer, SessionSnapshots, IssueEditing, IssueEvidence,
                DiffPreview
MCDesktop    <- WorkerStorage, PersonalWorker, LocalServer, ClientSession,
                RuntimeReadiness, ActiveWork
MCTests      <- TestImport, TestRun, TestCatalog, TestEditors

InboxAndRunProofs <- Inbox, TestRun
```

The core composes: a step of a daemon and the handler it calls are one step.
The components below it share no state in these models. Each of the lower MC
modules therefore checks several of them, one at a time: the variable `part`
names the component that runs, in which instance, and never changes; the
variables of the others stand still. A component has an instance for every
question that needs constants of its own (`Supervisor`, `Renewal` and `Kept` are
three of `PersonalWorker`). A property of such a run is a conjunction of
`part = "..." => Instance!Property`; the comment above it says what each
conjunct means and for which code. It is the same as a run per instance, with
one start of TLC. `MCRuntime`, `MCDelivery` and `MCWorkspace` instantiate the modules
of the proofs, and so the components through them (`Second!Engine` is the engine of the
instance `Second`, `Deletes!Skill` are the skills of the instance `Deletes`): what is
checked and what is proved are the same definitions.
In every MC module `InstancesAssumption` says that the instances
satisfy the assumptions their components state.

### WorkingCopyLease

An issue's copy is handed out one lease at a time. A lease names the turn and
the head it starts from; giving it back moves the turn by one and either
advances the head or leaves it; a copy may break, and a broken copy is never
handed out again.

### IssueWorkingCopy

Every action is one handler. `MemoryStore` holds `s.mu` for the whole call and
`PostgresStore` takes the same rows `FOR UPDATE` in one transaction, so handlers
interleave but never overlap; both stores were read, and the in-memory one is
the reference where the wording differs.

| Variable | Code |
|---|---|
| `issue[i]` | `Issue.ProjectID`, presence in `s.issues` |
| `wc[i]` | `IssueWorkingCopy` (`types.go:909`), `issue_working_copies` row |
| `task[s]` | the `RuntimeTask` of agent session `s`, with the generation and head of its payload |
| `worker[w]` | `RuntimeWorker`, `fresh` for `LastSeenAt` within `activeWorkerMaxAge` |

| Action | Handler |
|---|---|
| `CreateIssue`, `CreateIssueTask`, `DeleteIssueTask`, `UpdateIssueProject` | the issue handlers, with the cascade to sub-tasks |
| `RegisterWorker`, `Heartbeat`, `WorkerFallsSilent` | worker registry and the liveness threshold |
| `CreateCopySession`, `CreateDetachedSession` | `createAgentSessionLocked` |
| `ClaimRuntimeTask`, `TaskGoesStale` | `ClaimRuntimeTask`, the 30-minute threshold |
| `MarkRunning`, `FinishTask` | `UpdateRuntimeTaskStatus` with reconciliation, source stripping and automatic deployment |
| `RequestCancel`, `CancelNow` | `CancelRuntimeTask` |

Workers and clients are unconstrained: any registered worker may send any
report in `Report` for any task at any time. That is more than real workers do,
so the invariants do not rely on their good behaviour.

Abstractions. Commits, storages and projects are model values. A report is a
record of what reconciliation looks at: does the envelope parse, does it echo
generation and branch, which storage, base, head, state, reason, and is there a
source commit. Time is two flags (`fresh`, `stale`). The oldest of several stale
tasks is any of them. Capabilities are `codex` and `issueWorkingCopyV1`; engine
diagnostics are the flag `engineDown` of a heartbeat; the runtime mode always
fits the workspace. `lastWorkerId`, `startedAt`, `claimedAt`, events and logs
are left out. Sessions are of four kinds: in the copy, pinned to a commit, issue
analysis (which overtakes the queue), and every other automation. Several HTTP
handlers call the store more than once (a new issue first appears and then gets
its analysis session); each call is an action. Sessions for automatic
deployment "run out" only because the instance is finite.

### WorkerDaemon

One loop per worker and the disk under its work root. A daemon step and the
request it makes are one step of both sides; the request or its answer may be
lost. The loop: `Start` (register) → `Claim` → `Mark` (running) → prepare
(`AddWorktree`, `WriteMetadata`, or `Reuse`, or a refusal) → the rest of the
preparation (`SetUp`; or the project's directory is missing, `ProjectMissing`; or
artifacts or skills cannot be written, `SetUpFails`) → `BeginEngine` → the agent edits
and commits, or strays → `EngineEnds`/`EngineStops`/`EngineFails` → `Capture` → `Send`
(the one final report). `Watch` is the cancellation poll,
which runs from the start of the engine to the end of the capture and at no other
time. `Inspected` is `inspectIssueWorkingCopy`: every report carries what the
worktree looks like, except two early returns before the engine starts
(`EngineUnavailable`).

| Variable | Code |
|---|---|
| `daemon[w]` | where the loop is (`phase`), its session, whether the payload says to initialize, the base it found, whether it saw the cancellation (`told`), the report it computed |
| `disk[d][i]` | worktree, branch, head, dirt and metadata file of an issue under the work root with storage id `d`; what is checked out (`on`: the branch, another one, or the branch with what it had rewritten) and whether the project's directory is there (`project`) |
| `faults[f]` | how often fault `f` has happened |

`DaemonSpec` uses neither `Report` nor `Offers` nor `Beats` of the server
module: the daemon computes each report from its disk. These constants matter only
where the composed system is compared with the server's specification.

Faults, each bounded by `MaxFaults`: `crash` (also a shutdown, which says
goodbye), `loss` of a request or answer, `repository` (a git or file-system
failure, also of artifacts and skills), `removal` (somebody deletes a worktree), `engine`
(the engine is no longer installed), `agent` (the agent leaves another branch checked
out, rewrites the history it found, or removes the project's directory).

Abstractions. Commits of a branch are numbered along it, so "ancestor" is `<=`,
except in a worktree whose branch was rewritten, which has no commit of the record.
Capturing the source and inspecting the result are one step.
Heartbeats of a running worker change nothing; it falls silent only while down.
Only working-copy sessions are run. An engine process that outlives its worker
is followed in `AgentEngine`, not here.

### Beneath the pages (MCRuntime, MCWorkspace)

| Module | Code | Variables ↔ state | Actions and abstractions |
|---|---|---|---|
| `IssueAutomation` | `issue_type_triage.go`, `issue_analysis.go`, `http.go` | issue row and type, handlers in progress (`requests`), triage `tasks`, `analyses`, what the claiming worker does | each store call of a handler is a step; people edit titles and labels, older servers and workers crash, claims and reports are lost. Top-level issues only; prompts are left out |
| `SnapshotStore` | `sqlite_store.go`, `http.go` | `memory`, `disk`, each client's request, the persist `mutex` | apply, lock, copy, write, answer; a large answer leaves before its snapshot (`Large`). A row stands for what one request changes |
| `HostIdentity` | `personal-worker-host-identity.ts` | file, temporary files, the shared load, callers | read, write, rename, answer; crashes, failing writes, damage while the app is down |
| `WorkerStorage` | `worker/working_copy.go` `ensureWorkerStorageID` | file (absent, torn, whole), synced or not, each worker's step | look, exclusive create, write, sync, remove, reread; kills and loss of power |
| `AgentEngine` | `agent_engine*.go`, `worker/main.go` | process, pipe, channel, reader, requests, adapter, `executeAgentEngine` | Codex, Claude and Pi adapters step by step; time passes (`Tick`) only when no step of the worker is enabled, so what is checked is the sum of the timeouts, not the speed of a host |
| `Inbox` | `memory_store.go`, `postgres_store.go`, `inbox-page.tsx` | events, receipts, answer under way, shown entries, clicks | instants are compared as text in memory and as instants in Postgres (where they are those of the transactions' beginnings) |
| `WorkspaceSettings` | `workspace-settings-page.tsx` | settings, profile and links of the server; loaded copies, forms, dialogs, requests | other admins save, rename, demote; the user switches workspace; every request may be refused or lost |
| `RuntimeTasksPanel` | the same page | the server's tasks, page number, answer shown, open details, cancels | list and details are polled separately |
| `Environments` | `memory_store.go`, `server_owned_runtime_store.go`, `clusters-page.tsx` | environments, references, checks under way; list, dialog, form, import prompt | a check reads, tries outside the lock, writes; the outcome of a probe is a choice |
| `Projects` | `memory_store.go`, `projects-page.tsx` | projects, runbooks; query cache, settings dialog, creation dialog, folder picker | a save is two requests |
| `Skills` | `memory_store.go`, `postgres_workspace_skills.go`, `agents-page.tsx` | skills with slug and revision; list, modal, requests | Postgres reads, checks the slug and writes in separate statements guarded by the unique index |

### The page of an issue and delivery (MCIssuePage, MCDelivery)

| Module | Code | Variables ↔ state | Actions and abstractions |
|---|---|---|---|
| `IssueComposer` | `issue-detail-page.tsx` composer | per issue: project, comments, sessions; draft, edited comment, attachment, posts | a send waits for a worker, posts, and is answered; meanwhile one types, edits, opens another issue |
| `SessionSnapshots` | session timeline | status and log length on the server, listed sessions, snapshots, loads, retry timer | overlapping loads, cancelled and failing reads |
| `IssueEditing` | fields, labels, tasks; `issue_type_triage.go` | issue, child tasks, triage task; a window's copy, editor, posts | refinement of the draft title as the store does it |
| `IssueEvidence` | evidence tab, report handler | sessions, environment, reviews; the page's copy | a detail of Postgres is read piece by piece (`Torn`) |
| `DiffPreview` | `parseUnifiedDiffPreview`, `DiffFileSection` | the printed text and, beside it, what its lines mean | git prints line by line and may be cut; the parser is an operator compared at every prefix |
| `TestEnvironment` | environment handlers, automatic check | environment, sessions, windows' copies, deploy dialog, posts, keys checked in the last minute | two windows; in Postgres a request reads the record, queues its session and saves the record in separate steps, and a probe asks in between |
| `EnvironmentResources` | Resources tab | namespace, query data and error, reads under way | kinds are read one after the other; a kind may fail |
| `PullRequestHandoff` | handoff handlers and panel | source commits, sessions, record; a window's copy, chosen branch, posts | in Postgres the session is queued before the record is stored |

### The desktop and the tests (MCDesktop, MCTests)

| Module | Code | Variables ↔ state | Actions and abstractions |
|---|---|---|---|
| `PersonalWorker` | `apps/desktop/src/main/index.ts`, `personal-worker-runtime.ts` | one variable per `personalWorker…` variable, plus processes, token files and the server's credentials | one action between two awaits of ensure, stop and renewal |
| `LocalServer` | `server-manager.ts` | `serverProcess`, `starting` and its promises, intervals, port | probes, launch, exit, switch to a remote server and back |
| `ClientSession` | `renderer/src/main.tsx`, `workspace-invite-page.tsx` | address, token, selection, `me` query, invitation, logins, saves | what the server does and what the renderer does with the answer are two steps |
| `RuntimeReadiness` | `runtime-worker-readiness.ts` | clock, worker row, process, calls | the clock makes rows old; another host's worker may answer |
| `ActiveWork` | sidebar of `main.tsx` | issues and runs as last read | the selection is an operator; only the queries change |
| `TestImport` | import dialog | file, payload, preview, requests, runtime tasks | `own` and `latest` are the two ways the page forgets a request |
| `TestRun` | run handlers and page, `test_module_artifacts.go` | run, items, sessions, workers online; users' pages and calls | a report finalises what it lists, whoever works on it, and ends its session also if it left items out (`ReportResults`, `OthersReport`); the page is not polled |
| `TestCatalog` | `TestsPage` | cases, suggestions, plans, runs; address, selection, cached lists | a list that is shown may be fetched again at any time |
| `TestEditors` | case and plan pages | case, revisions, plan; what was read, drafts, saves | a text is the number of the edit that wrote it |

## 3. What is checked

Eleven runs must pass; `cancel_stuck` must find its violation. Deadlock is
checked in `turns` and `queue`, where registrations always remain possible; it is off
elsewhere, because a bounded user and a system whose work is done rightly stop.

| Run | Instance | Properties and the question they answer |
|---|---|---|
| `turns` | 1 issue, 3 sessions, 2 workers of which one may come back with another storage, 2 commits, a report for every branch of the reconciliation | `TypeOK`, `ReservationExact` (a copy is reserved exactly by the unfinished working-copy task of its issue, issued for the current generation, head and project), `GenerationCountsTurns`, `LinearHistory` (every turn starts from the head the last one left; a rejected report moves nothing), `CancelHonoured`, `PublishedSourceIsCanonical`, `StorageIsSticky`, `RecoveryIsTerminal`, `FinalIsFinal`, `ImplementsLease` |
| `queue` | a parent and its sub-task on 2 projects, sessions in the copy, pinned and of analysis, 1 worker whose heartbeats change status, storage and capabilities, automatic deployment | `DeployFromAcceptedSource` |
| `daemon` | 1 worker, 3 sessions, commits 0..2, one fault of every kind (an agent that strays among them), cancellations | `DaemonTypeOK`, `Coherent` (whenever no session holds a usable copy, the worktree has the recorded head, base and dirtiness), `HealthyStaysUsable` (without a fault no copy is lost) |
| `fleet` | 2 workers with roots of their own, one crash, loss and removal | `OneWriter`, `ImplementsServer` with the three forms of report the protocol has |
| `progress` | 1 worker, 2 sessions, one fault of every kind, fair | `SessionsEnd` |
| `cancel_stuck` | 1 worker, 1 session, no fault, fair | `CancelAcknowledged`: violated, see section 6 |
| `runtime` | triage with overlapping requests, analysis with up to 4 attachments, 2 callers, 3 workers of a root with failing writes and kills, 3 clients, an engine of each kind | `OneActiveTask`, `HumansWin`, `NoSecondTurn`, `IdentityStays`, `RuntimeSound`, `RuntimeSettles` |
| `workspace` | 2 workspaces, tasks on pages of 2, 2 environments, 2 projects, 2 slugs, 2 clients with crashes | `AnswersSurvive`, `DiskAdvances`, `WorkspaceSound`, `ChangedByChoice`, `WorkspaceSettles` |
| `issue_page` | 2 issues, a session with 2 log lines, one window, hunks of a few lines, 3 instants | `ReadHadAppeared`, `OpenedIsRead`, `PageSound`, `PageSettles` |
| `delivery` | 1 environment with 3 sessions in memory; in Postgres 2 sessions with preview checks over two visits, and deploy, cleanup and retain requests that overlap; 2 windows in memory; 2 kinds of resources, also when the tab is entered again; up to 2 branches with 2 windows, in memory and in Postgres | `DeliverySound` (the environment shows the commit its deployment was given, and in memory is active only when the session it names has succeeded; no kind of resources is called empty that was not; readings never go back; the recorded pull request is of its session's commit), `DeliverySettles` |
| `desktop` | 2 workspaces and a browser, 3 credentials in a renewal, 2 callers, 2 servers, the workers of a root with loss of power | `DesktopSound`, `DesktopSpares`, `DesktopSettles` |
| `tests` | 2 files, 2 items in 2 batches with retries, 2 projects with 3 cases | `TestsSound`, `TypingStays`, `TestsSettle` |

### Bounds

Every bound is a constant of its module whose comment says "bound". Those with
a number (`MaxFails`, `MaxEdits`, `MaxSend`, `MaxSessions`, `MaxCrash`, ...) limit
how often a user, another admin, the network or a fault acts; those with a set
(`Does`, `Faults`, `Kinds`, `Sections`, `Modes`, `Builds`) limit which operations an instance
has. The code has none of them, except `PageSize`, `PageLength`, `ReadLimit`,
`Room` and `Age`, which are limits of the code made small, and `Large`,
`Database`, `Torn`, `Packaged`, `Locked`, which say which of two variants runs.

The bounds are enough for the cases the code distinguishes. Two sessions make a
hand-over and three one after a hand-over; two workers make every reclaim a
possible theft; two storages make every affinity check matter; commits 0..2 let
a turn advance the head twice. One fault of every kind in one behaviour covers
each pair of different faults. On the pages two requests in flight make every
overtaking, a second window or admin every stale copy, one failure every error
path, and a page length of two with four tasks every slip between pages; a
counter at its bound stops its actor and nobody else. The same fault twice, or
three windows, are left to larger instances, and, for the proved components, to
the theorems.

`Symmetric` permutes sessions, and the projects of `queue`: no definition orders
them, and every property quantifies over all of them. Runs with liveness properties use no symmetry
(`ImplementsLease` and `ImplementsServer` are safety).

### Fairness

All fairness is about programs, none about people. Each assumption is in the
specification of the component or of its MC module:

- `FairSpec` of `WorkerDaemon`: a worker is started again after it stopped (its
  StatefulSet, `deploy/helm/mspace/templates/worker-statefulset.yaml`, or the
  desktop); its loop polls and finishes what it began (`runLoop` has no exit but
  its context, every HTTP call has a 30 s timeout); an engine ends some day; a
  task nobody updates gets old. `progress` leaves out the cancellation of claimed
  sessions (`CancelsRunning`), because with it the property is false: that is the
  finding below.
- Pages: a request under way is answered (by a result or an error), a poll is
  repeated (`refetchInterval`), an effect of React runs once its dependencies
  have changed.
- Server and worker: a handler that began goes on, a snapshot is copied and
  written, an engine's output is read, a process that was killed is reaped, time
  passes.
- Desktop: restart timers fire, processes that were signalled exit.

Everywhere this is weak fairness: the step stays enabled until it is taken. The
exception is `Lock` in `SnapshotStore`: a mutex is free only now and then, and
Go's mutex grants it in order, so its fairness is strong.

## 4. What is proved

All theorems hold for every value of the constants that satisfies the named
assumptions; each proof is checked to the last leaf. "Property" names what a run
checks on its instance and the theorem states for all.

| Module | Theorem | Property | Assumes |
|---|---|---|---|
| `WorkingCopyProofs` | `TypeCorrect` | `TypeOK` | the `ASSUME`s of `IssueWorkingCopy`: `None` is none of the values, no issue is its own parent, finitely many sessions, inputs of their types |
| | `ReservationIsExact` | `ReservationExact` | |
| | `GenerationsCountTurns` | `GenerationCountsTurns` | |
| | `HistoryIsLinear` | `LinearHistory` | |
| | `PublishedSourceWasAccepted` | `PublishedSourceIsCanonical` | |
| | `DeploysAcceptedSource` | `DeployFromAcceptedSource` | |
| | `CancellationIsHonoured` | `CancelHonoured` | |
| | `StorageNeverMoves` | `StorageIsSticky` | |
| | `RecoveryNeverEnds` | `RecoveryIsTerminal` | |
| | `OutcomesAreFinal` | `FinalIsFinal` | |
| | `RecordImplementsLease` | `ImplementsLease` | |
| | `DaemonTypeCorrect` | `DaemonTypeOK` | also those of `WorkerDaemon`; `Covers` |
| | `DaemonImplementsServer` | `ImplementsServer` | `Covers` |
| | `DaemonsKeepTheRecord` | all of the record's properties, of the composed system | `Covers` |
| | `OneWriterEver` | `OneWriter` | `Covers`, `OwnCopies` |
| | `RecordsStayCoherent` | `Coherent` | `Covers`, `OwnCopies` |
| | `HealthyCopiesStayUsable` | `HealthyStaysUsable` | `Covers`, `OwnCopies` |
| `RuntimeProofs` | `TypeCorrect`, `OneTask`, `HumansAlwaysWin`, `NoSecondTurnEver` | `OneActiveTask`, `HumansWin`, `NoSecondTurn` | `IssueAutomationAssumption` |
| | `OnlyRacesEverRepeat` | part of `RuntimeSound` | `IssueAutomationAssumption`; requests overlap freely |
| | `HostTypeCorrect`, `OneHostIdentity` | parts of `RuntimeSound` | `HostIdentityAssumption`; `Spec` of the host: reads do not fail |
| | `IdentityKept`, `RootHasOneIdentity` | parts of `IdentityStays`, `RuntimeSound` | `StorageReliable`: faults are failing writes and kills |
| | `EngineTypeCorrect`, `EngineIsGone`, `OutcomeIsTold` | parts of `RuntimeSound` | `EngineAssumption`; for the last two `~Large`: the prompt fits the pipe |
| `MCRuntime` | `RuntimeIsSound`, `IdentityHolds` | `RuntimeSound`, `IdentityStays` | `InstancesAssumption`, which TLC evaluates |
| `WorkspaceProofs` | `TypeCorrect`, `DiskMonotone`, `LaterSaves` | `DiskAdvances`, parts of `RuntimeSettles` | `SnapshotStoreAssumption` |
| | `AnswersDurable`, `IdsUnique` | `AnswersSurvive`, part of `WorkspaceSound` | also `Reliable`: no snapshot fails and no answer is sent early |
| | `ProjectsSaveWhatIsShown` | parts of `WorkspaceSound` | `ProjectsAssumption`; either store, deletions and failing loads included |
| | `RunbooksChangeByChoice` | part of `ChangedByChoice` | `ProjectAlone`: one person writes, no project is deleted, and his loads and saves are answered |
| | `SkillsSaveOwn`, `SlugsDifferAndDeletedStay` | parts of both | `SkillsAssumption`; either store |
| | `EnvironmentsAreTested` | parts of `WorkspaceSound` | `EnvironmentsAssumption`; either store, checks included |
| | `EnvironmentsStayAsChosen` | parts of both | `EnvironmentsAssumption`; either store |
| | `FormsShowWhatIsSaved` | part of `WorkspaceSound` | `WorkspaceSettingsAssumption`; whatever workspaces the user goes on to |
| | `SettingsSavedWhereChosen` | part of `ChangedByChoice` | `WorkspaceSettingsAssumption` |
| | `NoTaskSkipped` | part of `WorkspaceSound` | `RuntimeTasksPanelAssumption` |
| `MCWorkspace` | `WorkspaceIsSound`, `WorkspaceChangesByChoice` | `WorkspaceSound`, `ChangedByChoice` | `InstancesAssumption` |
| `DeliveryProofs` | `EnvironmentTypeCorrect`, `ResourcesTypeCorrect`, `HandoffTypeCorrect`, `PullRequestOfItsCommit` | parts of `DeliverySound` | the components' assumptions |
| | `ResourcesNeverMislead` | part of `DeliverySettles` | |
| | `EnvironmentTold`, `PullRequestRecorded` | parts of `DeliverySound` ("Active" means deployed; the newest session's pull request) | also `~Database`, the in-memory store |
| `MCDelivery` | `DeliveryIsSound` | `DeliverySound` | `InstancesAssumption` |
| `InboxAndRunProofs` | `OpenedHadAppeared` | `ReadHadAppeared` | `Ordered`: the in-memory store, and texts of instants that sort as the instants |
| | `RunTypesHold`, `ItemsHaveOneSession`, `ReviewsAreWholeAndCancelsStop` | parts of `TestsSound` | `RunAssumption`: finitely many items, batches numbered from 1 up, room for one session a batch; reports list any items and come from any session |

### The record (WorkingCopyProofs)

`ReservationExact` is not inductive alone. The proofs carry
`RecordInv == TypeOK /\ Consistent(wc, task) /\ AbsentIsBlank`: `Consistent`
restates the reservation from both sides, so that a step on one task is seen not
to touch another issue's copy, and `AbsentIsBlank` says that a copy not yet made
has no head, storage, generation or reservation and an unused session no fields;
otherwise creation could inherit leftovers. The step has one case per action.

`CancelHonoured` needs `CancelInv`: an unfinished task has published nothing. The
history properties need `Past`, in three parts. `CopyPast`: the generation is the
number of ended turns. `TurnOrder`: two turns of an issue have different
generations, and one follows another only when that has ended, from the head it
left. `TaskPast`: an ended turn is older than the record and, if it was the last,
its head is the record's; what it published is the record's head or older.
`GenerationCountsTurns`, `LinearHistory` and `PublishedSourceIsCanonical` are
consequences of `Past`, and `DeployFromAcceptedSource` of the invariants at the
one action that queues a deployment.

The action properties follow from `RecordInv` step by step: `StorageIsSticky`
needs the reservation at `FinishTask`, because only the reconciliation's
`ReportedElsewhere` keeps a worker that registered again from taking the copy
along. The refinement maps each handler to one lease step or a stutter.

### The workers (WorkingCopyProofs)

`LoopInv` (types; a busy worker's session was started; a reporting worker has a
report; disks and faults in range) is inductive by itself. From it
`DaemonImplementsServer` shows every step of daemons, disks and faults to be a
step or a stutter of the server's `Next`, so every theorem about the record
carries over: `DaemonsKeepTheRecord`.

`Covers` says that the inputs the server is specified for include what the loop
sends. `DaemonSpec` itself does not use these inputs, so the assumption restricts
no behaviour of the daemons; it only lets the server's specification allow them.

`OneWriter` needs `FleetInv`: a claimed task and its copy are bound to the storage
of the claimant, a running worker is registered with its root's storage, and the
task of a busy worker is still its own.
`Coherent` needs `CopyInv`: while no worker has the turn, the worktree is what the
record says (`Described`), and a worker knows, phase by phase, the worktree it
prepares, changes and reports (`Knows`), so that a report which does not ask for
recovery tells the truth. `HealthyStaysUsable` needs `HealthInv`: while no fault has
happened, no copy needs recovery, the worktree of a turn nobody has begun is as the
last one left it (`Untouched`, `Pristine`), no worktree falls behind the head its
turn started from, and every report, also after a cancellation or a failing agent,
is one the reconciliation accepts (`Healthy`, `Acceptable`); and every worktree is on its
branch and has the project's directory (`AllStraight`), which only the fault `agent` ends. TLC checked `HealthInv`
on instances of the size of `daemon` and `fleet` before it was proved.

`OwnCopies` says two things. `AutoDeploy` is off: the loop modelled runs
working-copy sessions only. And different workers have different roots: nothing
in the code enforces it, and it is needed. With one root for both workers
`OneWriter` is false, because nothing refreshes a running task: once it is older
than the reclaim age, the second worker on the root may claim and run it too.
`Coherent` by its definition excludes behaviours in which somebody deletes a
worktree: nothing observes that until the next session looks.

### The smaller components

Each has one inductive invariant, one lemma for the initial states, one for the
step with a case per action, and theorems that follow from it.
`IssueAutomation`: at most one task is active and the row says so; what a task
expects is what it was given; `Drafts` relates the draft title to the people's
edits. Requests overlap between
the look for an analysis and its creation, so an issue can get two. What holds is that
nothing else repeats one: `AnalysisInv` says that whoever is about to create an analysis
had looked before any of those there are was created.
`SnapshotStore`: what is copied is part of memory and contains the disk, as
long as its writer holds the mutex; with `Reliable`, every answered row was
written. `LaterSaves` needs `Later`: a row whose own snapshot has failed is in every
copy that was taken since. `WorkerStorage`: one worker makes the file, and the file
is what it has done to it. `HostIdentity`: an id in flight is new to a file that
holds none. `Inbox`: what is unread of an entry's issue came later or is counted by
it; `Ordered` is needed, because the store drops trailing zeros of a fraction and then
compares texts. `TestRun`: a report
finalises whatever open items it lists, also those of another session, or of another run's
session; `strayed` remembers the batches to which that happened. An item waits without a
session or is with one of its own batch (`WaitingOrWithin`); and in every other batch, who
is at work has an item left (`Busy`) and is alone (`Alone`), and beside an item that waits
none may be retried (`Waits`). What starts sessions at a run's beginning, after its setup
and at a retry is one lemma (`Started`): it keeps this (`Good`) for whatever items and
sessions it is given, because `Rank` numbers the batches that start without gaps. A cancel
then finds every session at work through an open item (`Stopped`), but for those of batches
that strayed: these it does miss (section 6).

### The engine (RuntimeProofs)

That no engine runs when its run has returned is a race of clocks: the run waits ten
half seconds for its adapter (`agent_engine.go:217`), the adapter spends its own
graces on aborting the turn, closing the pipe, asking the process to stop and killing
it. `TimeInv` says that what the adapter may still take (`Left`) is less than what is
left of the run's timer, so that the run never gives up. It holds because every step
of an adapter that is stopping either passes time on both clocks or moves to a stage
whose graces `Left` already counted. `StepsInv` ties the process, its reaper and the
pipe's ends to the stage the adapter is at. `SaidInv`: what is in the pipe was said of
what the engine did. `HeardInv`: while the adapter listens, nothing that ends a turn
has been lost between pipe, channel and reader. From these, `ToldInv`: what the
adapter concludes, and the run makes of it, is what happened.

`~Large` is needed. A prompt longer than the pipe is written while nobody may be
reading; no timer guards that write, so the adapter can be held up beyond the run's
wait, and the run then returns with the engine alive. The run `runtime` checks that such
runs do return (`RuntimeSettles`); `EngineGone` is claimed of prompts that fit.

### Delivery (DeliveryProofs)

`EnvInv`: the record is `Backed` by the sessions (it names sessions there are, and its
commit is the one its deployment was given), and so is every record that a request or a
probe of Postgres has read or is about to save; kinds and commits of sessions never
change, so what was backed when it was read still is when it is saved. With it goes
`SessionsInv`: one source session at a time, in memory one deployment or cleanup. This
gives the types and `SourceShown` in both stores. `ActiveMeansDeployed` is inductive
with it in the in-memory store, where nothing old is written back. `ReadingsInv`: the readings under way have different
numbers, none above the latest, and what is shown is one of the past; so the number
alone decides which reading is newer. `PullInv`: only the newest session is unfinished,
the record's session exists, and a request that is between its two statements has
chosen a commit that exists.

### The workspace (WorkspaceProofs)

Each component has an inductive invariant of named parts: the records of the server,
what every request carries at each point of its way, the page, and what relates them.
TLC checked each of them on the instances of the run `workspace` before it was proved.
What relates them is, in short:

- `ProjectInv`: one save at a time is under way; an editor whose runbook is cached holds
  a text that was loaded of its project or typed for it (`ProjectLoaded`); an editor
  nobody touched shows what is cached, and another runbook than the stored one is cached
  only between a save's last request and its refetch (`ProjectChosen`). Settings whose
  runbook could not be loaded are saved as they are, the one exception (`blind`, section
  6); `ProjectChosen` needs `ProjectAlone`, because somebody else's runbook, or a save
  whose answer is lost, makes the cache stale, and a stale editor is saved back.
  `ProjectCounted`: a project whose issues a deletion has counted has none, unless it
  was given one since (`late`).
- `SkillsInv`: the page has one request besides its saves, so a late load fills only the
  form it was asked for; in memory a request that has read is alone (`SkillsLocked`), in
  Postgres it is the unique index, `Insertable`, that keeps slugs apart.
- `EnvInv`: a form holds what was loaded of the environment its window is of; a request
  that has read holds a record of its own environment, which is the stored one unless a
  save was written since (`met`). A check that was overtaken so leaves a virtual machine
  in `overtaken`, and in Postgres takes the configuration of a cluster back (`TakesBack`);
  a deletion whose count a reference has overtaken leaves the environment in `missed`.
  `ReadyWasTested`, `ConfigBySave` and `Protected` say that there is no other way.
- `AdminInv`: a request of a kind is alone; what was sent is what the form shows, apart
  from what the user has changed (`AdminChosen`) and from what the late answer of a save
  of another workspace has put there (`strayed`, section 6).
- `PanelInv`: turning pages, everything up to the page shown has been seen (`PanelWalk`):
  new tasks come in front, so an offset moves only what was already seen.

### The composed runs (MCRuntime, MCDelivery, MCWorkspace)

`PartsInv` says that whichever component runs satisfies its inductive invariant with
the constants of its instance. A step of the composed specification is a step of that
component and leaves `part` alone, so the components' lemmas, cited through the
instances, carry it over; the properties follow conjunct by conjunct. The theorems are
about the specifications and properties TLC runs, for every value of the model values
and of the constants that the modules leave open. `MCWorkspace` splits `PartsInv` by
component (`AdminPartsInv`, `EnvPartsInv`, ...), so that a step of one is seen at once to
leave the others alone.

### Only model-checked

- Liveness (`SessionsEnd`, `OpenedIsRead`, the `…Settle(s)` properties) and
  fairness: out of reach of the prover as installed.
- The composite invariants of desktop, tests and issue page (`DesktopSound`, `TestsSound`,
  `PageSound`) and the action properties of these runs, except the parts of `Inbox` and
  `TestRun` in the table: each joins several components that still need an inductive
  invariant of their own. `DiffPreview` and `ActiveWork` compute with folds over
  sequences, which needs induction over data.
- What a storage id survives when power is lost (`SyncedStays` of `DesktopSpares`): the
  theorems about a work root assume failing writes and kills only.
- `cancel_stuck` refutes a property; there is nothing to prove.

## 5. Mutants

Every property of a passing run, and nearly every conjunct of the composite ones,
has a mutant in `PROJECT.json`: a plausible bug (a dropped generation step, a
reservation that ignores a running session, a reclaim that ignores claimed tasks,
an inspection that trusts the worktree, an answer applied without asking whether
it is the latest, ...) under which TLC finds that property violated. The mutated
forms stand in the modules before the definition they change and are named after
it (`InspectedAsClean` for `Inspected`, `Spared_Never` for `Spared`).

## 6. Disagreements and surprises

**Finding (`cancel_stuck`).** A cancellation that arrives before the worker marks
the task running, or while it captures the source, is never acknowledged. Once
the flag is set the server refuses every status but completed and cancelled; the
worker marks the task running before it looks at the flag (`worker/main.go:785`)
and reports "failed" unless the error is `context.Canceled` (`:803`). Server and
worker refuse each other for ever and the issue stays reserved, although
`docs/runbook.md:142` says the worker acknowledges.

The following was met on the way. The modules keep this behaviour; no run asserts
the contrary, because no text of the repository promises it, or because the
disagreement is outside the models:

- Moving a parent issue rewrites the project of its sub-tasks without the
  working-copy check that protects the parent (`memory_store.go:4793`).
- A clone that fails for the very first session sends a copy that never existed
  to `recovery_required`. `docs/runbook.md:95` speaks of repairing such a copy; no
  handler does (`RecoveryIsTerminal`, proved).
- A detached task whose claim answer is lost stays claimed
  (`memory_store.go:5483`); a triage task cancelled from the task list leaves the
  issue pending (`:5402`).
- An empty storage id file, left by a kill between create and write, is refused
  by every later start (`worker/working_copy.go:76`).
- A preview check of Postgres reads the environment before it asks and saves after
  (`server_owned_runtime_store.go:1266`); a deployment, a cleanup and a retention read it,
  queue a session and save (`:1105`-`:1148`, `:1166`-`:1223`). Two of them may queue
  sessions side by side, a session may end before the record names it, and whoever saves
  last takes back what the others wrote: three sessions are enough for an environment
  that shows an old deployment until the next one ends, and "Active" may be said of one
  whose deployment failed. So `ActiveMeansDeployed` is stated, checked and proved of the
  in-memory store, which holds its lock. `SourceShown` holds in both, since each save
  writes the session and its commit together. The report of a session reads and writes
  the record in its transaction; that is one step of the model.
- The sessions of some batches of a test run are created before a batch without a
  worker fails the start (`memory_store.go:6206`); a setup session stopped on its
  own page does not tell its run (`:5401`).
- A comment may be edited while a session that consumes it is being created
  (`memory_store.go:5013`), and the answer to a send is applied to what was typed
  since (`issue-detail-page.tsx:5653`).
- The stop handler of the desktop clears, after its awaits, what an ensure set
  meanwhile (`apps/desktop/src/main/index.ts:822`).
- A check of a virtual machine tries the configuration it has read and writes "ready" over
  whatever was saved meanwhile (`memory_store.go:2055`); a save tries what it saves. A check
  of a cluster in Postgres, and an import that finds the cluster there, write back the
  whole record they had read, and so take back a save (`server_owned_runtime_store.go:666`,
  `:755`). `ReadyWasTested` and `ConfigBySave` allow exactly this.
- Postgres counts the references to an environment in one statement and deletes it in the
  next (`server_owned_runtime_store.go:505`); likewise the issues of a project
  (`postgres_collaboration_store.go:233`). What is referred to, or used, between the two is
  deleted all the same (`Protected`, `OnlyUnusedDeleted`).
- Switching a skill on or off in Postgres writes back the name it has read
  (`postgres_workspace_skills.go:84`), also if somebody changed it since (`TogglesKeep`).
- Whether an issue has an analysis and the creation of one are two calls of the store
  (`issue_analysis.go:42`, `:54`): two requests that overlap there queue two
  (`OnlyRacesRepeat`).
- A result artifact is not compared with the session that leaves it, nor is its run id
  required to be the session's (`test_module_artifacts.go:588`). One that lists items of
  another session ends their results; a retry of these then starts a second session of the
  batch, and a cancel, which finds sessions through open items, misses the first
  (`OneSessionPerItem` and `CancelStopsAll` name this exception). One that leaves items out
  ends its session nevertheless: the run stays running and offers no retry, for ever
  (`TestsSettle` therefore speaks of runs whose open items are all at work).
- A runbook whose load has failed leaves the editor as it was opened and Save enabled
  (`projects-page.tsx:174`, `:241`): Save then writes that text over the stored runbook.
- The answer of a save of settings fills the form of whatever workspace is open by then
  (`workspace-settings-page.tsx:227`).
- Pages: the mapping task of a replaced file is polled for the next one
  (`tests-page.tsx:1761`); readiness is known only of the page shown
  (`tests-page.tsx:1672`); a form without some fields is saved as the whole record
  (`tests-page.tsx:585`); a failed cancel leaves "being cancelled"
  (`workspace-settings-page.tsx:729`); list and details learn of a task's end in
  either order (`workspace-settings-page.tsx:1470`).
- The Postgres heartbeat names a column that only another table has
  (`postgres_store.go:1348`); the model's `Heartbeat` follows the in-memory store.
- Artifacts of `project-runbook.md` are promised (`docs/integration-guide.md:738`,
  `docs/product.md:32`, `README.md:251`) and read by no code.

## 7. Plan

Done: the core with both refinements and all its safety properties proved; the
pages, the desktop, tests and delivery modelled and checked; fifteen of the smaller
components proved, and with them the composite invariants of `runtime`, `delivery` and
`workspace`. Left, most valuable first:

1. Safety of `PersonalWorker` (`NoWorkerLost`, `OneWorkerPerRoot`) and `LocalServer`
   (`StartingIsPending`) as theorems.
2. `TestImport` (`ConfirmedIsPreviewed`), `IssueComposer` and `IssueEditing`: forms and
   late answers, with invariants like those of the workspace.
3. Detached sessions in `WorkerDaemon`, so that `OwnCopies` no longer needs
   `AutoDeploy` off.
4. Accounts and tokens on the server, if they come to keep state between two calls.
