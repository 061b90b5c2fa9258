---------------------------- MODULE WorkerDaemon ----------------------------
(***************************************************************************)
(* The worker program (worker/main.go, worker/working_copy.go) beside the  *)
(* control plane of IssueWorkingCopy: one loop per worker that claims a    *)
(* task, marks it running, prepares the issue's git worktree under its     *)
(* work root, runs the agent engine in it, captures the source and reports *)
(* once.  Here the only reports the server receives are those the loop     *)
(* computes from the worktree.                                             *)
(*                                                                         *)
(* Every request is one step of both sides; a request or its answer may be *)
(* lost, a worker may crash or be shut down between any two steps, the     *)
(* repository or the engine may fail, and somebody may delete a worktree.  *)
(*                                                                         *)
(* Commits of one issue branch are numbered along the branch, 0 being the  *)
(* commit it was created from, so "is an ancestor of" is <=.  The agent    *)
(* adds commits, unless it strays: it may leave another branch checked     *)
(* out, rewrite what it found on its own, or remove the project's          *)
(* directory.  A running worker beats far more often than                  *)
(* activeWorkerMaxAge, so it is silent only while it is down.              *)
(***************************************************************************)
EXTENDS IssueWorkingCopy

CONSTANTS
  Root,       \* Root[w]: the storage id kept under worker w's work root
  MaxCommit,  \* bound: last commit of an issue branch
  MaxFaults,  \* bounds: how often each fault happens
  CancelsRunning  \* whether clients cancel sessions already claimed

Fault == {"crash", "loss", "repository", "removal", "engine", "agent"}

ASSUME DaemonAssumption ==
  /\ Root \in [Worker -> Storage]
  /\ MaxCommit \in Nat
  /\ Commit = 0 .. MaxCommit
  /\ MaxFaults \in [Fault -> Nat]
  /\ CancelsRunning \in BOOLEAN

VARIABLES
  daemon,  \* daemon[w]: what worker w is doing
  disk,    \* disk[d][i]: the worktree of issue i on storage d, and its metadata
  faults   \* faults[f]: how often f has happened

server == <<issue, wc, task, worker>>
wvars == <<issue, wc, task, worker, daemon, disk, faults>>

Phase == {"down", "idle", "claimed", "preparing", "initializing", "prepared",
          "starting", "engine", "capturing", "reporting"}
Writing == {"preparing", "initializing", "prepared", "starting", "engine", "capturing"}

Job == [phase : Phase, session : Session \cup {None}, initialize : BOOLEAN,
        base : CommitOrNone, told : BOOLEAN, report : ReportType \cup {None}]
(* What is checked out: the issue's branch as the session found it and     *)
(* went on with it, another branch, or the issue's branch without the      *)
(* commit the session started from.                                        *)
Checkout == {"branch", "other", "rewritten"}
(* Directory and git branch of an issue, whether the project's directory   *)
(* is in it, and the base commit in its metadata file (None if there is no *)
(* file).                                                                  *)
Worktree == [tree : BOOLEAN, branch : BOOLEAN, head : CommitOrNone, dirty : BOOLEAN,
             base : CommitOrNone, on : Checkout, project : BOOLEAN]

NoJob(phase) == [phase |-> phase, session |-> None, initialize |-> FALSE, base |-> None,
                 told |-> FALSE, report |-> None]
NoWorktree == [tree |-> FALSE, branch |-> FALSE, head |-> None, dirty |-> FALSE,
               base |-> None, on |-> "branch", project |-> FALSE]

DaemonTypeOK ==
  /\ TypeOK
  /\ daemon \in [Worker -> Job]
  /\ \A w \in Worker :
       daemon[w].phase \notin {"down", "idle"} => daemon[w].session \in Session
  /\ disk \in [Storage -> [Issue -> Worktree]]
  /\ faults \in [Fault -> Nat]

DaemonInit ==
  /\ Init
  /\ daemon = [w \in Worker |-> NoJob("down")]
  /\ disk = [d \in Storage |-> [i \in Issue |-> NoWorktree]]
  /\ faults = [f \in Fault |-> 0]

-----------------------------------------------------------------------------

CanFail(f) == faults[f] < MaxFaults[f]
Fails(f) == CanFail(f) /\ faults' = [faults EXCEPT ![f] = @ + 1]

In(w, phase) == daemon[w].phase = phase
Enter(w, phase) == daemon' = [daemon EXCEPT ![w].phase = phase]
Idle(w) == daemon' = [daemon EXCEPT ![w] = NoJob("idle")]

TaskOf(w) == task[daemon[w].session]
Tree(w) == disk[Root[w]][TaskOf(w).issue]
SetTree(w, tree) == disk' = [disk EXCEPT ![Root[w]][TaskOf(w).issue] = tree]

-----------------------------------------------------------------------------
(* Reports.                                                                *)

InspectedAsClean(w, tree, forced) ==
  [base |-> daemon[w].base, head |-> tree.head, state |-> "clean", reason |-> None]

\* mutant: a worktree that cannot be probed counts as one with changes
InspectedAsDirty(w, tree, forced) ==
  [base |-> daemon[w].base, head |-> tree.head, reason |-> None,
   state |-> IF tree.tree /\ ~tree.dirty THEN "clean" ELSE "dirty"]

(* inspectIssueWorkingCopy: what the worktree looks like now, or the       *)
(* reason a failed preparation already gave.                               *)
Inspected(w, tree, forced) ==
  LET ancestor == IF TaskOf(w).head # None THEN TaskOf(w).head ELSE daemon[w].base
      reason   == IF forced # None THEN forced
                  ELSE IF ~tree.tree THEN "worktree_missing"
                  ELSE IF tree.on = "other" THEN "branch_mismatch"
                  ELSE IF tree.on = "rewritten" \/ (ancestor # None /\ ancestor > tree.head)
                       THEN "head_mismatch"
                  ELSE None
  IN [base |-> daemon[w].base, head |-> tree.head,
      state |-> IF reason # None THEN "recovery_required"
                ELSE IF tree.dirty THEN "dirty" ELSE "clean",
      reason |-> reason]

ReportOf(w, status, seen, source) ==
  [status |-> status, present |-> TRUE, genOK |-> TRUE, branchOK |-> TRUE,
   storage |-> Root[w], base |-> seen.base, head |-> seen.head, state |-> seen.state,
   reason |-> seen.reason, source |-> source]

(* The session is over on this side; the report is computed now and sent   *)
(* in a later step.                                                        *)
Conclude(w, status, seen, source) ==
  daemon' = [daemon EXCEPT ![w] =
    [@ EXCEPT !.phase = "reporting", !.report = ReportOf(w, status, seen, source)]]

Abort(w, forced) == Conclude(w, "failed", Inspected(w, Tree(w), forced), FALSE)

(* What the server makes of a failure reported without any result.         *)
BareFailure ==
  [status |-> "failed", present |-> FALSE, genOK |-> FALSE, branchOK |-> FALSE,
   storage |-> None, base |-> None, head |-> None, state |-> "absent", reason |-> None,
   source |-> FALSE]

-----------------------------------------------------------------------------
(* The worker process.                                                     *)

Start(w) ==
  /\ In(w, "down")
  /\ RegisterWorker(w, [status |-> "online", storage |-> Root[w], caps |-> Capability])
  /\ Idle(w)
  /\ UNCHANGED <<disk, faults>>

(* The process dies, or is shut down: then its context is cancelled, so    *)
(* nothing more is reported but an offline heartbeat.                      *)
Crash(w) ==
  /\ ~In(w, "down")
  /\ Fails("crash")
  /\ daemon' = [daemon EXCEPT ![w] = NoJob("down")]
  /\ UNCHANGED <<server, disk>>

ShutDown(w) ==
  /\ ~In(w, "down")
  /\ Fails("crash")
  /\ daemon' = [daemon EXCEPT ![w] = NoJob("down")]
  /\ Heartbeat(w, [status |-> "offline", storage |-> Root[w], caps |-> Capability,
                   engineDown |-> FALSE])
  /\ UNCHANGED disk

(* claimAndHandle: the task with the payload it was queued with, or        *)
(* nothing if the answer is lost.                                          *)
Claim(w) ==
  /\ In(w, "idle")
  /\ \E s \in Candidates(w) :
       /\ ClaimTask(w, s)
       /\ \/ /\ daemon' = [daemon EXCEPT ![w] =
                  [@ EXCEPT !.phase = "claimed", !.session = s,
                            !.initialize = wc[task[s].issue].state = "uninitialized"]]
             /\ UNCHANGED faults
          \/ Fails("loss") /\ UNCHANGED daemon
  /\ UNCHANGED disk

(* handleTask goes on only if the server answered that the task now runs.  *)
Mark(w) ==
  LET s == daemon[w].session IN
  /\ In(w, "claimed")
  /\ \/ MarkRunning(w, s) /\ Enter(w, "preparing") /\ UNCHANGED faults
     \/ MarkRunning(w, s) /\ Idle(w) /\ Fails("loss")
     \/ UNCHANGED server /\ Idle(w) /\ Fails("loss")
     \/ ~Accepts(s, w, "running") /\ UNCHANGED <<server, faults>> /\ Idle(w)
  /\ UNCHANGED disk

-----------------------------------------------------------------------------
(* Preparation of the worktree.                                            *)

(* Cloning or fetching the repository cache fails before the worktree is   *)
(* looked at, or the worktree or its metadata cannot be read.              *)
RepositoryFails(w) ==
  /\ In(w, "preparing")
  /\ Fails("repository")
  /\ \E forced \in {None, "workspace_probe_failed", "metadata_missing"} : Abort(w, forced)
  /\ UNCHANGED <<server, disk>>

WorktreeMissing(w) ==
  /\ In(w, "preparing")
  /\ ~Tree(w).tree /\ ~daemon[w].initialize
  /\ Abort(w, "worktree_missing")
  /\ UNCHANGED <<server, disk, faults>>

(* git worktree add -b; the metadata file follows in a step of its own.    *)
(* The commit may lack the project's directory.                            *)
Added(base, project) ==
  [tree |-> TRUE, branch |-> TRUE, head |-> base, dirty |-> FALSE, base |-> None,
   on |-> "branch", project |-> project]

AddWorktree(w) ==
  LET base == IF TaskOf(w).head # None THEN TaskOf(w).head ELSE 0 IN
  /\ In(w, "preparing")
  /\ ~Tree(w).tree /\ daemon[w].initialize
  /\ ~Tree(w).branch
  /\ \/ SetTree(w, Added(base, TRUE)) /\ UNCHANGED faults
     \/ SetTree(w, Added(base, FALSE)) /\ Fails("repository")
  /\ daemon' = [daemon EXCEPT ![w] = [@ EXCEPT !.phase = "initializing", !.base = base]]
  /\ UNCHANGED server

(* git refuses -b for a branch an earlier attempt left behind.             *)
AddRefused(w) ==
  /\ In(w, "preparing")
  /\ ~Tree(w).tree /\ daemon[w].initialize
  /\ Tree(w).branch
  /\ Abort(w, "workspace_probe_failed")
  /\ UNCHANGED <<server, disk, faults>>

MetadataStorage(w) == Root[w]
MetadataBase(w) == daemon[w].base

WriteMetadata(w) ==
  /\ In(w, "initializing")
  /\ SetTree(w, [Tree(w) EXCEPT !.base = MetadataBase(w)])
  /\ Enter(w, "prepared")
  /\ UNCHANGED <<server, faults>>

(* The worktree, not its branch, is taken back when the metadata cannot be *)
(* written.                                                                *)
MetadataFails(w) ==
  /\ In(w, "initializing")
  /\ Fails("repository")
  /\ SetTree(w, [NoWorktree EXCEPT !.branch = TRUE])
  /\ Conclude(w, "failed", [base |-> daemon[w].base, head |-> None,
                            state |-> "recovery_required", reason |-> "metadata_missing"],
              FALSE)
  /\ UNCHANGED server

ExpectedHead(w) ==
  IF TaskOf(w).head = None /\ daemon[w].initialize THEN Tree(w).base ELSE TaskOf(w).head

ReusableIfClean(w) ==
  /\ Tree(w).on = "branch"
  /\ Tree(w).base # None
  /\ Tree(w).head = ExpectedHead(w)
  /\ ~Tree(w).dirty
Reusable(w) ==
  /\ Tree(w).on = "branch"
  /\ Tree(w).base # None
  /\ Tree(w).head = ExpectedHead(w)

(* reuseIssueWorkingCopy: branch, metadata and head, in this order.        *)
Reuse(w) ==
  /\ In(w, "preparing")
  /\ Tree(w).tree
  /\ Reusable(w)
  /\ daemon' = [daemon EXCEPT ![w] = [@ EXCEPT !.phase = "prepared", !.base = Tree(w).base]]
  /\ UNCHANGED <<server, disk, faults>>

Refusal(w) == IF Tree(w).on = "other" THEN "branch_mismatch"
              ELSE IF Tree(w).base = None THEN "metadata_missing"
              ELSE "head_mismatch"

Refuse(w) ==
  /\ In(w, "preparing")
  /\ Tree(w).tree
  /\ ~Reusable(w)
  /\ LET seen == Inspected(w, Tree(w), Refusal(w))
         base == IF Refusal(w) = "head_mismatch" THEN Tree(w).base ELSE daemon[w].base
     IN Conclude(w, "failed", [seen EXCEPT !.base = base], FALSE)
  /\ UNCHANGED <<server, disk, faults>>

(* The rest of prepareAgentSessionWorkspace: the project's directory must  *)
(* be in the worktree; then the artifact directory, the skills and the     *)
(* context are written beside it, which may fail.                          *)
HasProject(w) == Tree(w).tree /\ Tree(w).project

ProjectMissing(w) ==
  /\ In(w, "prepared")
  /\ ~HasProject(w)
  /\ Abort(w, "workspace_probe_failed")
  /\ UNCHANGED <<server, disk, faults>>

SetUp(w) ==
  /\ In(w, "prepared")
  /\ HasProject(w)
  /\ Enter(w, "starting")
  /\ UNCHANGED <<server, disk, faults>>

SetUpFails(w) ==
  /\ In(w, "prepared")
  /\ HasProject(w)
  /\ Fails("repository")
  /\ Abort(w, None)
  /\ UNCHANGED <<server, disk>>

-----------------------------------------------------------------------------
(* The engine and the end of the session.                                  *)

BeginEngine(w) ==
  /\ In(w, "starting")
  /\ Enter(w, "engine")
  /\ UNCHANGED <<server, disk, faults>>

(* The engine is no longer installed, or the log line that announces it is *)
(* lost: executeAgentSessionTask returns the error without inspecting the  *)
(* worktree.                                                               *)
EngineUnavailable(w) ==
  /\ In(w, "starting")
  /\ Fails("engine") \/ Fails("loss")
  /\ daemon' = [daemon EXCEPT ![w] =
       [@ EXCEPT !.phase = "reporting", !.report = BareFailure]]
  /\ UNCHANGED <<server, disk>>

AgentEdits(w) ==
  /\ In(w, "engine")
  /\ Tree(w).tree /\ ~Tree(w).dirty /\ Tree(w).head < MaxCommit
  /\ SetTree(w, [Tree(w) EXCEPT !.dirty = TRUE])
  /\ UNCHANGED <<server, daemon, faults>>

Committed(tree) == [tree EXCEPT !.head = @ + 1, !.dirty = FALSE]

AgentCommits(w) ==
  /\ In(w, "engine")
  /\ Tree(w).dirty /\ Tree(w).head < MaxCommit
  /\ SetTree(w, Committed(Tree(w)))
  /\ UNCHANGED <<server, daemon, faults>>

(* The agent leaves another branch checked out, rewrites the history it    *)
(* found, or removes the project's directory, and ends without putting it  *)
(* right.                                                                  *)
Strayed(tree) ==
  {[tree EXCEPT !.on = "other"], [tree EXCEPT !.on = "rewritten"],
   [tree EXCEPT !.project = FALSE, !.dirty = TRUE]}

AgentStrays(w) ==
  /\ In(w, "engine")
  /\ Tree(w).tree
  /\ Fails("agent")
  /\ \E tree \in Strayed(Tree(w)) : SetTree(w, tree)
  /\ UNCHANGED <<server, daemon>>

(* watchTaskCancellation polls from the start of the engine until the      *)
(* source is captured; before that nobody looks.                           *)
Watch(w) ==
  /\ daemon[w].phase \in {"starting", "engine", "capturing"}
  /\ ~daemon[w].told
  /\ TaskOf(w).claimedBy = w
  /\ TaskOf(w).cancelRequested
  /\ daemon' = [daemon EXCEPT ![w].told = TRUE]
  /\ UNCHANGED <<server, disk, faults>>

EngineEnds(w) ==
  /\ In(w, "engine")
  /\ Enter(w, "capturing")
  /\ UNCHANGED <<server, disk, faults>>

(* The engine fails by itself, or does not stop when told.                 *)
EngineFails(w) ==
  /\ In(w, "engine")
  /\ Abort(w, None)
  /\ UNCHANGED <<server, disk, faults>>

EngineStops(w) ==
  /\ In(w, "engine")
  /\ daemon[w].told
  /\ Conclude(w, "cancelled", Inspected(w, Tree(w), None), FALSE)
  /\ UNCHANGED <<server, disk, faults>>

(* captureAgentSessionSource commits what changed below the project's      *)
(* directory, which need not be everything.                                *)
Captured(tree) ==
  IF tree.dirty
  THEN {Committed(tree), [Committed(tree) EXCEPT !.dirty = TRUE], tree}
  ELSE {tree}

(* The result names the head as source if it is past the branch point;     *)
(* then the worktree is inspected, and only a clean one completes.         *)
Capture(w) ==
  /\ In(w, "capturing")
  /\ ~daemon[w].told
  /\ HasProject(w)
  /\ \E tree \in {t \in Captured(Tree(w)) : t.head <= MaxCommit} :
       LET seen == Inspected(w, tree, None) IN
       /\ SetTree(w, tree)
       /\ Conclude(w, IF seen.state = "clean" THEN "completed" ELSE "failed", seen,
                   tree.head > 0)
  /\ UNCHANGED <<server, faults>>

(* A git command fails, as all do where the project's directory is gone;   *)
(* told workers have every git command killed, which the loop cannot tell  *)
(* from a failure of its own.                                              *)
CaptureFails(w) ==
  /\ In(w, "capturing")
  /\ IF daemon[w].told \/ ~HasProject(w) THEN UNCHANGED faults ELSE Fails("repository")
  /\ Abort(w, None)
  /\ UNCHANGED <<server, disk>>

(* The final report is sent once, whatever becomes of it.                  *)
Send(w) ==
  LET s == daemon[w].session
      r == daemon[w].report
  IN /\ In(w, "reporting")
     /\ \/ FinishTask(w, s, r) /\ UNCHANGED faults
        \/ /\ ~Accepts(s, w, EffectiveStatus(s, r.status))
           /\ UNCHANGED <<server, faults>>
        \/ UNCHANGED server /\ Fails("loss")
     /\ Idle(w)
     /\ UNCHANGED disk

-----------------------------------------------------------------------------
(* Clients and the passing of time.                                        *)

Client ==
  /\ \/ \E i \in Issue, p \in Project : CreateIssue(i, p, {})
     \/ \E i \in Issue, s \in Session : CreateCopySession(i, s)
     \/ \E s \in Session : CancelsRunning /\ RequestCancel(s)
     \/ \E s \in Session : CancelNow(s)
     \/ \E w \in Worker : In(w, "down") /\ WorkerFallsSilent(w)
  /\ UNCHANGED <<daemon, disk, faults>>

GoesStale(s) == TaskGoesStale(s) /\ UNCHANGED <<daemon, disk, faults>>

(* Somebody deletes the worktree directory; branch and metadata file stay. *)
WorktreeRemoved(d, i) ==
  /\ disk[d][i].tree
  /\ Fails("removal")
  /\ disk' = [disk EXCEPT ![d][i] =
       [NoWorktree EXCEPT !.branch = disk[d][i].branch, !.base = disk[d][i].base]]
  /\ UNCHANGED <<server, daemon>>

Prepare(w) == RepositoryFails(w) \/ WorktreeMissing(w) \/ AddWorktree(w) \/ AddRefused(w)
                \/ WriteMetadata(w) \/ MetadataFails(w) \/ Reuse(w) \/ Refuse(w)
                \/ ProjectMissing(w) \/ SetUp(w) \/ SetUpFails(w)
Finish(w) == BeginEngine(w) \/ EngineUnavailable(w)
               \/ EngineEnds(w) \/ EngineFails(w) \/ EngineStops(w) \/ Capture(w)
               \/ CaptureFails(w) \/ Send(w)

DaemonNext ==
  \/ Client
  \/ \E s \in Session : GoesStale(s)
  \/ \E d \in Storage, i \in Issue : WorktreeRemoved(d, i)
  \/ \E w \in Worker : Start(w) \/ Crash(w) \/ ShutDown(w)
  \/ \E w \in Worker : Claim(w) \/ Mark(w) \/ Prepare(w) \/ Finish(w)
  \/ \E w \in Worker : AgentEdits(w) \/ AgentCommits(w) \/ AgentStrays(w) \/ Watch(w)

DaemonSpec == DaemonInit /\ [][DaemonNext]_wvars

(* A worker is restarted by its supervisor and its loop keeps going; an    *)
(* engine ends on its own some time; a task nobody updates gets old.       *)
Fairness ==
  /\ \A w \in Worker :
       /\ WF_wvars(Start(w)) /\ WF_wvars(Claim(w)) /\ WF_wvars(Mark(w))
       /\ WF_wvars(Prepare(w)) /\ WF_wvars(Finish(w)) /\ WF_wvars(Watch(w))
  /\ \A s \in Session : WF_wvars(GoesStale(s))

FairSpec == DaemonSpec /\ Fairness

-----------------------------------------------------------------------------
(* Properties.                                                             *)

(* The worktree an issue's next session will find is the one the record    *)
(* describes: the issue's branch checked out at the same head, clean or    *)
(* dirty as recorded, metadata in place.  Crashes, restarts, lost reports  *)
(* and an agent that left the branch may only lead to recovery_required.   *)
(* Only a worktree deleted behind everybody's back goes unnoticed.         *)
Coherent ==
  \A i \in Issue : wc[i].active = None /\ wc[i].state \in {"clean", "dirty"}
                      /\ faults["removal"] = 0 =>
    LET tree == disk[wc[i].storage][i] IN
    /\ tree.tree /\ tree.on = "branch"
    /\ tree.head = wc[i].head /\ tree.base = wc[i].base
    /\ tree.dirty = (wc[i].state = "dirty")

(* A working copy is lost to recovery_required only after a crash, a lost  *)
(* message, a repository, file or git command that failed, a worktree that *)
(* somebody removed, an engine that is gone, or an agent that left its     *)
(* branch, rewrote what it found or removed the project's directory.  An   *)
(* agent that fails, edits and commits left behind, sessions one after the *)
(* other, a cancellation at any moment or a reclaim alone never cost the   *)
(* issue its working copy.                                                 *)
HealthyStaysUsable ==
  \A i \in Issue : wc[i].state = "recovery_required" => \E f \in Fault : faults[f] > 0

(* Two workers never work in the copy of one issue at the same time        *)
(* (architecture.md: the server "serializes writers with                   *)
(* activeSessionId").                                                      *)
OneWriter ==
  \A v, w \in Worker :
    daemon[v].phase \in Writing /\ daemon[w].phase \in Writing
      /\ TaskOf(v).issue = TaskOf(w).issue => v = w

(* A record is given up only after the copy was initialized                *)
(* (architecture.md: "After a V1 copy has initialized, ... moves the copy  *)
(* into an explicit recovery state").                                      *)
RecoveryOnlyAfterInit ==
  [][\A i \in Issue : wc[i].state = "uninitialized" => wc'[i].state # "recovery_required"]_wvars

(* Every request the workers send, and every report they compute, is one   *)
(* the server is specified for: a behaviour of the workers is a behaviour  *)
(* of IssueWorkingCopy, so what holds there holds of both together.        *)
ImplementsServer == Spec

(* Every session that is started ends, through crashes, restarts, lost     *)
(* messages and failures, and with it the reservation of its issue.        *)
SessionsEnd == \A s \in Session : Live(s) ~> Final(s)

(* A cancellation request is eventually acknowledged (runbook.md: the      *)
(* worker "interrupts the selected Agent, inspects the final source state, *)
(* and then acknowledges terminal cancelled").                             *)
CancelAcknowledged == \A s \in Session : task[s].cancelRequested ~> Final(s)
=============================================================================
