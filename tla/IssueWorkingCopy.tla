-------------------------- MODULE IssueWorkingCopy --------------------------
(***************************************************************************)
(* The control plane's issue working copies: for every issue one           *)
(* server-side record of a git worktree that agent sessions take turns to  *)
(* write, the runtime tasks those sessions become, the worker registry     *)
(* that decides who may claim them, and the issue tree whose project a     *)
(* working copy is pinned to.                                              *)
(*                                                                         *)
(* Every action is one locked handler of the store (MemoryStore takes s.mu *)
(* for the whole call; PostgresStore takes the same rows FOR UPDATE in one *)
(* transaction), so handlers interleave but never overlap.  Workers and    *)
(* clients are unconstrained here: any registered worker may send any      *)
(* report for any task at any time.  WorkerDaemon restricts them to what   *)
(* the worker program does.                                                *)
(*                                                                         *)
(* Time is reduced to the two thresholds the code compares it with:        *)
(* a worker is `fresh' until it has been silent for activeWorkerMaxAge,    *)
(* a task becomes `stale' once staleRunningTaskReclaimAge has passed since *)
(* its last update.                                                        *)
(***************************************************************************)
EXTENDS Naturals, FiniteSets

CONSTANTS
  Issue,      \* issue ids
  Session,    \* agent session ids; a session is one runtime task
  Worker,     \* runtime workers, by (workspace, name)
  Project,    \* project ids
  Storage,    \* worker storage ids (msws_...)
  Commit,     \* commit shas
  None,       \* the empty string of all these columns
  Parent,     \* Parent[i]: the issue i is a sub-task of, or None
  Offers,     \* Offers[w]: registrations worker w may send
  Beats,      \* Beats[w]: heartbeats worker w may send
  Kinds,      \* kinds of session clients start
  Report,     \* terminal reports workers may send
  AutoDeploy  \* workspace setting AutoDeployTestEnvironment, with a deployable project

Capability == {"codex", "issueWorkingCopyV1"}
WorkerStatus == {"online", "draining", "offline"}
RecoveryReasons == {"worktree_missing", "branch_mismatch", "head_mismatch",
                    "metadata_missing", "workspace_probe_failed"}
CopyState == {"absent", "uninitialized", "clean", "dirty", "recovery_required"}
(* A session without automation works in the copy, or beside it if it is   *)
(* pinned to a source commit; all automations but the issue analysis are   *)
(* alike.                                                                  *)
SessionKind == {"copy", "pinned", "automation", "issue_analysis"}
LiveStatus == {"queued", "claimed", "running"}
FinalStatus == {"completed", "failed", "cancelled"}

StorageOrNone == Storage \cup {None}
CommitOrNone == Commit \cup {None}

Offer == [status : WorkerStatus, storage : StorageOrNone, caps : SUBSET Capability]
Beat == [status : WorkerStatus, storage : StorageOrNone, caps : SUBSET Capability,
         engineDown : BOOLEAN]
(* A final status, the workingCopy object of the result (present if the    *)
(* result has one that parses, genOK and branchOK if it echoes the task's  *)
(* generation and branch), and whether the result carries a source commit. *)
ReportType ==
  [status : FinalStatus, present : BOOLEAN, genOK : BOOLEAN, branchOK : BOOLEAN,
   storage : StorageOrNone, base : CommitOrNone, head : CommitOrNone,
   state : CopyState, reason : RecoveryReasons \cup {None}, source : BOOLEAN]

ASSUME NoneAssumption ==
  /\ None \notin Issue \cup Session \cup Worker \cup Project \cup Storage
  /\ None \notin Commit
  /\ None \notin RecoveryReasons
ASSUME ParentAssumption ==
  /\ Parent \in [Issue -> Issue \cup {None}]
  /\ \A i \in Issue : Parent[i] # i
ASSUME FiniteAssumption == IsFiniteSet(Session)
ASSUME InputAssumption ==
  /\ Offers \in [Worker -> SUBSET Offer]
  /\ Beats \in [Worker -> SUBSET Beat]
  /\ Kinds \subseteq SessionKind
  /\ Report \subseteq ReportType
  /\ AutoDeploy \in BOOLEAN

VARIABLES
  issue,   \* issue[i]: presence and current project
  wc,      \* wc[i]: the issueWorkingCopies record of issue i
  task,    \* task[s]: the runtime task of session s
  worker   \* worker[w]: the runtimeWorkers record of w

vars == <<issue, wc, task, worker>>

-----------------------------------------------------------------------------
(* Records.                                                                *)

IssueRecord == [presence : {"absent", "open", "deleted"}, project : Project \cup {None}]
CopyRecord ==
  [state : CopyState, project : Project \cup {None}, base : CommitOrNone,
   head : CommitOrNone, storage : StorageOrNone, active : Session \cup {None},
   gen : Nat, reason : RecoveryReasons \cup {None}]
TaskRecord ==
  [status : {"absent"} \cup LiveStatus \cup FinalStatus, kind : SessionKind,
   issue : Issue \cup {None}, project : Project \cup {None}, order : Nat,
   gen : Nat, head : CommitOrNone, affinity : StorageOrNone,
   claimedBy : Worker \cup {None}, cancelRequested : BOOLEAN, stale : BOOLEAN,
   reported : CommitOrNone, source : BOOLEAN]
WorkerRecord ==
  [status : {"absent"} \cup WorkerStatus, storage : StorageOrNone,
   caps : SUBSET Capability, fresh : BOOLEAN]

NoCopy == [state |-> "absent", project |-> None, base |-> None, head |-> None,
           storage |-> None, active |-> None, gen |-> 0, reason |-> None]
NoTask == [status |-> "absent", kind |-> "copy", issue |-> None, project |-> None,
           order |-> 0, gen |-> 0, head |-> None, affinity |-> None,
           claimedBy |-> None, cancelRequested |-> FALSE, stale |-> FALSE,
           reported |-> None, source |-> FALSE]

TypeOK ==
  /\ issue \in [Issue -> IssueRecord]
  /\ wc \in [Issue -> CopyRecord]
  /\ task \in [Session -> TaskRecord]
  /\ worker \in [Worker -> WorkerRecord]
  /\ \A s \in Session : task[s].status # "absent" => task[s].issue \in Issue

Init ==
  /\ issue = [i \in Issue |-> [presence |-> "absent", project |-> None]]
  /\ wc = [i \in Issue |-> NoCopy]
  /\ task = [s \in Session |-> NoTask]
  /\ worker = [w \in Worker |-> [status |-> "absent", storage |-> None,
                                 caps |-> {}, fresh |-> FALSE]]

-----------------------------------------------------------------------------
(* Queries.                                                                *)

Live(s) == task[s].status \in LiveStatus
IsCopyTask(s) == task[s].status # "absent" /\ task[s].kind = "copy"
LiveCopyTask(s) == IsCopyTask(s) /\ Live(s)

Required(kind) ==
  IF kind = "copy" THEN {"codex", "issueWorkingCopyV1"} ELSE {"codex"}

(* agentSessionPriority: issue analysis overtakes everything else.         *)
Priority(kind) == IF kind = "issue_analysis" THEN 10 ELSE 0

ActiveWorker(w, required) ==
  /\ worker[w].status = "online"
  /\ required \subseteq worker[w].caps
  /\ worker[w].fresh

HasActiveWorker(required) == \E w \in Worker : ActiveWorker(w, required)

HasActiveWorkerForCopy(storage) ==
  \E w \in Worker :
    /\ worker[w].storage # None
    /\ storage # None => worker[w].storage = storage
    /\ ActiveWorker(w, Required("copy"))

MatchesReservation(s, w) ==
  IsCopyTask(s) =>
    /\ worker[w].storage # None
    /\ wc[task[s].issue].active = s
    /\ wc[task[s].issue].project = task[s].project

(* runtimeTaskMatchesWorkingCopyStorageLocked: a working-copy task goes    *)
(* only to a worker holding the storage the copy is bound to.              *)
MatchesStorage(s, w) ==
  LET t == task[s] IN
  /\ t.affinity # None => t.affinity = worker[w].storage
  /\ IsCopyTask(s) =>
       /\ worker[w].storage # None
       /\ wc[t.issue].state # "absent"
       /\ wc[t.issue].active = s
       /\ wc[t.issue].project = t.project
       /\ wc[t.issue].storage \in {None, worker[w].storage}

-----------------------------------------------------------------------------
(* Issues and their projects.                                              *)

(* A new issue may come with its first sub-tasks.                          *)
CreateIssue(i, p, tasks) ==
  /\ issue[i].presence = "absent"
  /\ Parent[i] = None
  /\ \A j \in tasks : Parent[j] = i /\ issue[j].presence = "absent"
  /\ issue' = [j \in Issue |-> IF j = i \/ j \in tasks
                               THEN [presence |-> "open", project |-> p]
                               ELSE issue[j]]
  /\ UNCHANGED <<wc, task, worker>>

(* A sub-task starts on the project its parent has at that moment.         *)
CreateIssueTask(i) ==
  /\ issue[i].presence = "absent"
  /\ Parent[i] # None
  /\ issue[Parent[i]].presence = "open"
  /\ issue' = [issue EXCEPT ![i] = [presence |-> "open",
                                    project |-> issue[Parent[i]].project]]
  /\ UNCHANGED <<wc, task, worker>>

(* Deleting a sub-task removes the issue only: its working copy and its    *)
(* runtime tasks stay in their maps.                                       *)
DeleteIssueTask(i) ==
  /\ issue[i].presence = "open"
  /\ Parent[i] # None
  /\ issue' = [issue EXCEPT ![i].presence = "deleted"]
  /\ UNCHANGED <<wc, task, worker>>

MoveAnywhere(i, p) == TRUE
ProjectChangeAllowed(i, p) == wc[i].state # "absent" => wc[i].project = p

(* UpdateIssue with a projectId.  The issue's own working copy blocks the  *)
(* move; the sub-tasks of a top-level issue follow it unconditionally.     *)
UpdateIssueProject(i, p) ==
  /\ issue[i].presence = "open"
  /\ ProjectChangeAllowed(i, p)
  /\ issue' = [j \in Issue |->
       IF j = i \/ (Parent[i] = None /\ Parent[j] = i /\ issue[j].presence = "open")
       THEN [issue[j] EXCEPT !.project = p]
       ELSE issue[j]]
  /\ UNCHANGED <<wc, task, worker>>

-----------------------------------------------------------------------------
(* Worker registry.                                                        *)

RegisterWorker(w, offer) ==
  /\ "issueWorkingCopyV1" \in offer.caps => offer.storage # None
  /\ worker' = [worker EXCEPT ![w] =
       [status |-> offer.status, storage |-> offer.storage,
        caps |-> offer.caps, fresh |-> TRUE]]
  /\ UNCHANGED <<issue, wc, task>>

(* An empty storage id or capability object leaves the registered one; a   *)
(* missing engine downgrades the capability either way.                    *)
Heartbeat(w, beat) ==
  LET old     == worker[w]
      storage == IF beat.storage = None THEN old.storage ELSE beat.storage
      offered == IF beat.caps = {} THEN old.caps ELSE beat.caps
      caps    == IF beat.engineDown THEN offered \ {"codex"} ELSE offered
  IN /\ old.status # "absent"
     /\ "issueWorkingCopyV1" \in caps => storage # None
     /\ worker' = [worker EXCEPT ![w] =
          [status |-> beat.status, storage |-> storage, caps |-> caps, fresh |-> TRUE]]
     /\ UNCHANGED <<issue, wc, task>>

(* activeWorkerMaxAge passes without a heartbeat.                          *)
WorkerFallsSilent(w) ==
  /\ worker[w].fresh
  /\ worker' = [worker EXCEPT ![w].fresh = FALSE]
  /\ UNCHANGED <<issue, wc, task>>

-----------------------------------------------------------------------------
(* Agent sessions and their runtime tasks.                                 *)

NextOrder == Cardinality({s \in Session : task[s].status # "absent"}) + 1

QueuedTask(kind, i, copy) ==
  [NoTask EXCEPT !.status = "queued", !.kind = kind, !.issue = i,
                 !.project = issue[i].project, !.order = NextOrder,
                 !.gen = copy.gen, !.head = copy.head, !.affinity = copy.storage]

(* The record createAgentSessionLocked works on, made on first use.        *)
CopyOf(i) ==
  IF wc[i].state = "absent"
  THEN [NoCopy EXCEPT !.state = "uninitialized", !.project = issue[i].project]
  ELSE wc[i]

ReservableWhileBusy(copy, p) ==
  copy.project = p /\ copy.state # "recovery_required"
ReservableInRecovery(copy, p) ==
  copy.project = p /\ copy.active = None
Reservable(copy, p) ==
  /\ copy.project = p
  /\ copy.active = None
  /\ copy.state # "recovery_required"

CanStartSession(i, s) ==
  /\ task[s].status = "absent"
  /\ issue[i].presence = "open"
  /\ issue[i].project # None

CreateCopySession(i, s) ==
  /\ CanStartSession(i, s)
  /\ Reservable(CopyOf(i), issue[i].project)
  /\ HasActiveWorkerForCopy(CopyOf(i).storage)
  /\ wc' = [wc EXCEPT ![i] = [CopyOf(i) EXCEPT !.active = s]]
  /\ task' = [task EXCEPT ![s] = QueuedTask("copy", i, CopyOf(i))]
  /\ UNCHANGED <<issue, worker>>

(* Sessions with an automation or a fixed source commit get a worktree of  *)
(* their own and never touch the working copy.                             *)
CreateDetachedSession(i, s, kind) ==
  /\ CanStartSession(i, s)
  /\ HasActiveWorker(Required(kind))
  /\ task' = [task EXCEPT ![s] = QueuedTask(kind, i, NoCopy)]
  /\ UNCHANGED <<issue, wc, worker>>

-----------------------------------------------------------------------------
(* Claiming.                                                               *)

StaleRunning(w) ==
  {s \in Session :
     /\ task[s].stale
     /\ Required(task[s].kind) \subseteq worker[w].caps
     /\ task[s].status = "running"
     /\ IF IsCopyTask(s) THEN MatchesStorage(s, w) ELSE task[s].claimedBy = w}
StaleCandidates(w) ==
  {s \in Session :
     /\ task[s].stale
     /\ Required(task[s].kind) \subseteq worker[w].caps
     /\ IF IsCopyTask(s)
        THEN task[s].status \in {"claimed", "running"} /\ MatchesStorage(s, w)
        ELSE task[s].status = "running" /\ task[s].claimedBy = w}

QueuedCandidates(w) ==
  {s \in Session :
     /\ task[s].status = "queued"
     /\ MatchesStorage(s, w)
     /\ Required(task[s].kind) \subseteq worker[w].caps}

Before(s, t) ==
  LET p(x) == Priority(task[x].kind) IN
  \/ p(s) > p(t)
  \/ p(s) = p(t) /\ task[s].order < task[t].order

FirstOf(queue) == {s \in queue : \A t \in queue \ {s} : Before(s, t)}

(* A stale task, whichever was updated longest ago, goes before the queue. *)
Candidates(w) ==
  IF StaleCandidates(w) # {} THEN StaleCandidates(w) ELSE FirstOf(QueuedCandidates(w))

ClaimedTaskByName(s, w) ==
  [task[s] EXCEPT !.status = "claimed", !.claimedBy = w, !.stale = FALSE,
                  !.affinity = w]
ClaimedTask(s, w) ==
  [task[s] EXCEPT !.status = "claimed", !.claimedBy = w, !.stale = FALSE,
                  !.affinity = IF IsCopyTask(s) THEN worker[w].storage ELSE @]

ClaimTask(w, s) ==
  /\ worker[w].status = "online"
  /\ task' = [task EXCEPT ![s] = ClaimedTask(s, w)]
  /\ wc' = IF IsCopyTask(s) /\ wc[task[s].issue].storage = None
           THEN [wc EXCEPT ![task[s].issue].storage = worker[w].storage]
           ELSE wc
  /\ UNCHANGED <<issue, worker>>

ClaimRuntimeTask(w) == \E s \in Candidates(w) : ClaimTask(w, s)

(* staleRunningTaskReclaimAge passes without an update of the task; logs   *)
(* and heartbeats do not count.                                            *)
TaskGoesStale(s) ==
  /\ task[s].status \in {"claimed", "running"}
  /\ ~task[s].stale
  /\ task' = [task EXCEPT ![s].stale = TRUE]
  /\ UNCHANGED <<issue, wc, worker>>

-----------------------------------------------------------------------------
(* Terminal reports.                                                       *)

EnvelopeOK(r) ==
  /\ r.present
  /\ r.storage # None
  /\ \/ r.state = "clean" /\ r.head # None /\ r.reason = None
     \/ r.state = "dirty" /\ r.reason = None
     \/ r.state = "recovery_required" /\ r.reason \in RecoveryReasons

(* The switch of reconcileIssueWorkingCopyTerminalLocked: the first case   *)
(* that applies names the reason, None accepts the report.                 *)
ReportedByOther(copy, w, r) ==
  worker[w].storage = None \/ r.storage # worker[w].storage
ReportedElsewhere(copy, w, r) ==
  \/ worker[w].storage = None
  \/ r.storage # worker[w].storage
  \/ copy.storage # None /\ r.storage # copy.storage

RecoveryReason(s, w, status, r) ==
  LET copy == wc[task[s].issue] IN
  IF copy.gen # task[s].gen \/ ~EnvelopeOK(r) \/ ~r.genOK THEN "metadata_missing"
  ELSE IF ~r.branchOK                      THEN "branch_mismatch"
  ELSE IF ReportedElsewhere(copy, w, r)    THEN "workspace_probe_failed"
  ELSE IF copy.head # task[s].head         THEN "head_mismatch"
  ELSE IF r.state = "recovery_required"    THEN r.reason
  ELSE IF copy.state = "uninitialized" /\ None \in {r.base, r.head}
                                           THEN "metadata_missing"
  ELSE IF status = "completed" /\ r.state # "clean"
                                           THEN "workspace_probe_failed"
  ELSE None

ReleasedInPlace(copy) == [copy EXCEPT !.active = None]
Released(copy) == [copy EXCEPT !.active = None, !.gen = @ + 1]

NeedsRecovery(copy, reason) ==
  [Released(copy) EXCEPT !.state = "recovery_required", !.reason = reason]

WithCleanReport(copy, r) ==
  [Released(copy) EXCEPT !.base = IF @ = None THEN r.base ELSE @,
                         !.head = IF r.state = "clean" THEN r.head ELSE @,
                         !.storage = r.storage, !.state = r.state, !.reason = r.reason]
WithReport(copy, r) ==
  [Released(copy) EXCEPT !.base = IF @ = None THEN r.base ELSE @,
                         !.head = r.head, !.storage = r.storage,
                         !.state = r.state, !.reason = r.reason]

Holds(s) == IsCopyTask(s) /\ wc[task[s].issue].active = s

Reconciled(s, w, status, r) ==
  LET copy   == wc[task[s].issue]
      reason == RecoveryReason(s, w, status, r)
  IN IF reason = None THEN WithReport(copy, r) ELSE NeedsRecovery(copy, reason)

(* Detached tasks have nothing to reconcile and always count as applied.   *)
Applied(s, w, status, r) ==
  IsCopyTask(s) => Holds(s) /\ RecoveryReason(s, w, status, r) = None

(* A completion that arrives after a cancel request is a cancellation.     *)
EffectiveStatus(s, status) ==
  IF task[s].cancelRequested /\ status = "completed" THEN "cancelled" ELSE status

AcceptsFromClaimant(s, w, status) ==
  /\ task[s].claimedBy = w
  /\ task[s].status \in {"claimed", "running"}
AcceptsUnlessCancelled(s, w, status) ==
  /\ task[s].claimedBy = w
  /\ task[s].status \notin {"absent", "cancelled"}
  /\ task[s].cancelRequested => status = "cancelled"
Accepts(s, w, status) ==
  /\ task[s].claimedBy = w
  /\ task[s].status \in {"claimed", "running"}
  /\ task[s].cancelRequested => status = "cancelled"

PublishesReported(s, w, status, r) == r.source
PublishesSource(s, w, status, r) ==
  /\ r.source
  /\ Applied(s, w, status, r)
  /\ ~(task[s].cancelRequested /\ status = "cancelled")

FinishedTask(s, w, status, r) ==
  [task[s] EXCEPT !.status = status, !.stale = FALSE,
                  !.reported = IF IsCopyTask(s) /\ EnvelopeOK(r) THEN r.head ELSE None,
                  !.source = PublishesSource(s, w, status, r)]

QueuesDeployBesideOthers(s, w, status, r) ==
  /\ AutoDeploy
  /\ task[s].kind \in {"copy", "pinned"}
  /\ status = "completed"
  /\ PublishesSource(s, w, status, r)
  /\ \E d \in Session : task[d].status = "absent"

(* queueAutomaticTestDeployIfEnabledLocked: a completed session without    *)
(* automation and with a published source queues a detached deploy session *)
(* in the same call.  Sessions run out only in a bounded instance.         *)
QueuesDeploy(s, w, status, r) ==
  /\ AutoDeploy
  /\ task[s].kind \in {"copy", "pinned"}
  /\ status = "completed"
  /\ PublishesSource(s, w, status, r)
  /\ issue[task[s].issue].presence = "open"
  /\ issue[task[s].issue].project # None
  /\ HasActiveWorker(Required("automation"))
  /\ ~\E t \in Session \ {s} : Live(t) /\ task[t].issue = task[s].issue
  /\ \E d \in Session : task[d].status = "absent"

MarkRunning(w, s) ==
  /\ worker[w].status # "absent"
  /\ Accepts(s, w, "running")
  /\ task' = [task EXCEPT ![s] = [@ EXCEPT !.status = "running", !.stale = FALSE]]
  /\ UNCHANGED <<issue, wc, worker>>

FinishTask(w, s, r) ==
  LET status   == EffectiveStatus(s, r.status)
      finished == [task EXCEPT ![s] = FinishedTask(s, w, status, r)]
  IN /\ worker[w].status # "absent"
     /\ Accepts(s, w, status)
     /\ wc' = IF Holds(s)
              THEN [wc EXCEPT ![task[s].issue] = Reconciled(s, w, status, r)]
              ELSE wc
     /\ IF QueuesDeploy(s, w, status, r)
        THEN \E d \in Session :
               /\ task[d].status = "absent"
               /\ task' = [finished EXCEPT ![d] =
                             QueuedTask("automation", task[s].issue, NoCopy)]
        ELSE task' = finished
     /\ UNCHANGED <<issue, worker>>

-----------------------------------------------------------------------------
(* Cancellation.                                                           *)

(* A claimed working-copy task is only asked to stop: the worker still     *)
(* holds the worktree and acknowledges with its own report.                *)
RequestCancel(s) ==
  /\ IsCopyTask(s)
  /\ task[s].status \in {"claimed", "running"}
  /\ task' = [task EXCEPT ![s] = [@ EXCEPT !.cancelRequested = TRUE, !.stale = FALSE]]
  /\ UNCHANGED <<issue, wc, worker>>

(* Anything else ends at once; a queued working-copy task gives its        *)
(* reservation back.                                                       *)
CancelNow(s) ==
  /\ Live(s)
  /\ IsCopyTask(s) => task[s].status = "queued"
  /\ task' = [task EXCEPT ![s].status = "cancelled"]
  /\ wc' = IF Holds(s) /\ wc[task[s].issue].gen = task[s].gen
           THEN [wc EXCEPT ![task[s].issue] = Released(@)]
           ELSE wc
  /\ UNCHANGED <<issue, worker>>

-----------------------------------------------------------------------------

Next ==
  \/ \E i \in Issue, p \in Project \cup {None}, tasks \in SUBSET Issue :
       CreateIssue(i, p, tasks)
  \/ \E i \in Issue : CreateIssueTask(i)
  \/ \E i \in Issue : DeleteIssueTask(i)
  \/ \E i \in Issue, p \in Project \cup {None} : UpdateIssueProject(i, p)
  \/ \E w \in Worker : \E offer \in Offers[w] : RegisterWorker(w, offer)
  \/ \E w \in Worker : \E beat \in Beats[w] : Heartbeat(w, beat)
  \/ \E w \in Worker : WorkerFallsSilent(w)
  \/ \E i \in Issue, s \in Session : "copy" \in Kinds /\ CreateCopySession(i, s)
  \/ \E i \in Issue, s \in Session, kind \in Kinds \ {"copy"} :
       CreateDetachedSession(i, s, kind)
  \/ \E w \in Worker : ClaimRuntimeTask(w)
  \/ \E s \in Session : TaskGoesStale(s)
  \/ \E w \in Worker, s \in Session : MarkRunning(w, s)
  \/ \E w \in Worker, s \in Session, r \in Report : FinishTask(w, s, r)
  \/ \E s \in Session : RequestCancel(s)
  \/ \E s \in Session : CancelNow(s)

Spec == Init /\ [][Next]_vars

-----------------------------------------------------------------------------
(* Properties.                                                             *)

Final(s) == task[s].status \in FinalStatus
CopyTasks(i) == {s \in Session : IsCopyTask(s) /\ task[s].issue = i}

(* A working copy is reserved by s exactly when s is an unfinished         *)
(* working-copy task of its issue, and the task was issued for the current *)
(* generation, head and project.  Hence at most one writer per issue, no   *)
(* reservation outlives its task, and the `stale generation' and           *)
(* `head_mismatch' branches of the reconciliation never see a live task    *)
(* (architecture.md: activeSessionId serializes writers).                  *)
ReservationExact ==
  /\ \A i \in Issue : wc[i].active # None =>
       LiveCopyTask(wc[i].active) /\ task[wc[i].active].issue = i
  /\ \A s \in Session : LiveCopyTask(s) =>
       LET c == wc[task[s].issue] IN
       /\ c.active = s
       /\ c.gen = task[s].gen
       /\ c.head = task[s].head
       /\ c.project = task[s].project
       /\ c.state \in {"uninitialized", "clean", "dirty"}

(* Every session that ever reserved the copy and ended moved the           *)
(* generation by exactly one, whichever way it ended, so a generation is   *)
(* never handed to two sessions.                                           *)
GenerationCountsTurns ==
  \A i \in Issue :
    /\ Cardinality({s \in CopyTasks(i) : Final(s)}) = wc[i].gen
    /\ \A s, t \in CopyTasks(i) : s # t => task[s].gen # task[t].gen

(* The head the turn of a finished task left behind: what its worker       *)
(* reported, or the head it was given when it never ran.                   *)
HeadAfter(s) == IF task[s].claimedBy = None THEN task[s].head ELSE task[s].reported

(* Heads form one unbroken line: every turn starts from the head the       *)
(* previous turn left, the record holds the last accepted one, and a       *)
(* rejected report moves nothing.                                          *)
LinearHistory ==
  \A i \in Issue :
    /\ \A s, t \in CopyTasks(i) :
         task[t].gen = task[s].gen + 1 => task[t].head = HeadAfter(s)
    /\ \A s \in CopyTasks(i) :
         /\ task[s].gen = 0 => task[s].head = None
         /\ Final(s) /\ wc[i].gen = task[s].gen + 1 =>
              wc[i].head = IF wc[i].state = "recovery_required"
                           THEN task[s].head ELSE HeadAfter(s)

(* Once cancellation of a working-copy session was requested it can only   *)
(* end as cancelled, and it publishes no source commit, whatever the       *)
(* worker reports afterwards.                                              *)
CancelHonoured ==
  \A s \in Session : task[s].cancelRequested =>
    task[s].status \notin {"completed", "failed"} /\ ~task[s].source

(* A source commit of a working-copy session is visible to later steps     *)
(* (review, test deployment) only if its report was accepted into the      *)
(* record: no later turn of the copy started from another head.            *)
PublishedSourceIsCanonical ==
  \A s \in Session : IsCopyTask(s) /\ task[s].source =>
    /\ Final(s)
    /\ \/ wc[task[s].issue].gen > task[s].gen + 1
       \/ /\ wc[task[s].issue].state # "recovery_required"
          /\ wc[task[s].issue].head = task[s].reported

(* Both stores refuse to move an issue away from the project its working   *)
(* copy was made for ("project reassignment should conflict",              *)
(* issue_working_copy_test.go); a copy on another project can never be     *)
(* reserved again.                                                         *)
ProjectPinned ==
  \A i \in Issue : wc[i].state # "absent" /\ issue[i].presence = "open" =>
    issue[i].project = wc[i].project

(* Once a copy lives on a storage it never moves to another one, through   *)
(* reclaims, re-registrations and reports of any worker.                   *)
StorageIsSticky ==
  [][\A i \in Issue : wc[i].storage # None => wc'[i].storage = wc[i].storage]_vars

(* recovery_required is a dead end: no handler leaves it, reserves the     *)
(* copy or moves its head (runbook.md: the session stays blocked).         *)
RecoveryIsTerminal ==
  [][\A i \in Issue : wc[i].state = "recovery_required" => wc'[i] = wc[i]]_vars

(* A finished task never changes again: no late report, cancel or claim    *)
(* rewrites its outcome.                                                   *)
FinalIsFinal ==
  [][\A s \in Session : Final(s) => task'[s] = task[s]]_vars

(* A completion that queues a test deployment published its source and     *)
(* found no other session of the issue alive; if it worked in the copy, it *)
(* was accepted and left the copy clean at the commit it publishes.        *)
DeployFromAcceptedSource ==
  [][\A s, d \in Session :
       Live(s) /\ task'[s].status = "completed"
         /\ task[d].status = "absent" /\ task'[d].status # "absent" =>
       LET i == task[s].issue IN
       /\ task'[d].issue = i /\ task'[s].source
       /\ IsCopyTask(s) =>
            wc'[i].state = "clean" /\ wc'[i].head = task'[s].reported
       /\ \A t \in Session \ {d} :
            task'[t].issue = i => task'[t].status \notin LiveStatus]_vars

(* The record implements the lease: reservations are leases, generations   *)
(* are turns, and a task carries exactly what its session was given.       *)
LeaseOf(s) ==
  IF IsCopyTask(s)
  THEN [issue |-> task[s].issue, turn |-> task[s].gen, head |-> task[s].head]
  ELSE None

L == INSTANCE WorkingCopyLease WITH
  holder <- [i \in Issue |-> wc[i].active],
  turn <- [i \in Issue |-> wc[i].gen],
  head <- [i \in Issue |-> wc[i].head],
  broken <- [i \in Issue |-> wc[i].state = "recovery_required"],
  lease <- [s \in Session |-> LeaseOf(s)]

(* Every behaviour of the handlers is a behaviour of the lease.            *)
ImplementsLease == L!Spec
=============================================================================
