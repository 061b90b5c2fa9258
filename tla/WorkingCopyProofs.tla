-------------------------- MODULE WorkingCopyProofs --------------------------
(***************************************************************************)
(* Machine-checked proofs about the issue working copies: first of the     *)
(* server's record and its protocol (IssueWorkingCopy), then that the      *)
(* workers of WorkerDaemon keep to that protocol: every behaviour of       *)
(* workers, disks and faults is one of the server, so the theorems about   *)
(* the record hold of the composed system, too.                            *)
(***************************************************************************)
EXTENDS WorkerDaemon, FiniteSetTheorems, TLAPS

(* A queued task built for an issue with a project is a task record.       *)
LEMMA QueuedTaskType ==
  ASSUME NEW kind \in SessionKind, NEW i \in Issue, NEW copy \in CopyRecord,
         TypeOK
  PROVE  QueuedTask(kind, i, copy) \in TaskRecord
<1>1. NextOrder \in Nat
  <2> DEFINE S == {s \in Session : task[s].status # "absent"}
  <2>1. IsFiniteSet(S)
    BY FiniteAssumption, FS_Subset
  <2>2. Cardinality(S) \in Nat
    BY <2>1, FS_CardinalityType
  <2> QED BY <2>2 DEF NextOrder
<1>2. issue[i].project \in Project \cup {None}
  BY DEF TypeOK, IssueRecord
<1> QED
  BY <1>1, <1>2 DEF QueuedTask, NoTask, TaskRecord, CopyRecord, LiveStatus,
     CommitOrNone, StorageOrNone

LEMMA NoCopyType == NoCopy \in CopyRecord
BY DEF NoCopy, CopyRecord, CopyState, CommitOrNone, StorageOrNone

LEMMA CopyOfType ==
  ASSUME TypeOK, NEW i \in Issue
  PROVE  CopyOf(i) \in CopyRecord
BY DEF CopyOf, NoCopy, TypeOK, IssueRecord, CopyRecord, CopyState, CommitOrNone, StorageOrNone

LEMMA ReleasedType ==
  ASSUME NEW copy \in CopyRecord
  PROVE  Released(copy) \in CopyRecord
<1>1. copy.gen + 1 \in Nat
  BY DEF CopyRecord
<1> QED BY <1>1 DEF CopyRecord, Released

LEMMA ReconciledType ==
  ASSUME TypeOK, NEW s \in Session, NEW w \in Worker, NEW r \in ReportType,
         NEW status \in FinalStatus, task[s].issue \in Issue
  PROVE  Reconciled(s, w, status, r) \in CopyRecord
<1> DEFINE copy == wc[task[s].issue]
           reason == RecoveryReason(s, w, status, r)
<1>1. copy \in CopyRecord
  BY DEF TypeOK
<1>2. Released(copy) \in CopyRecord
  BY <1>1, ReleasedType
<1>3. reason \in RecoveryReasons \cup {None}
  BY DEF RecoveryReason, RecoveryReasons, ReportType
<1>4. NeedsRecovery(copy, reason) \in CopyRecord
  BY <1>2, <1>3 DEF NeedsRecovery, CopyRecord, CopyState
<1>5. WithReport(copy, r) \in CopyRecord
  BY <1>2 DEF WithReport, CopyRecord, ReportType
<1> QED BY <1>4, <1>5 DEF Reconciled

-----------------------------------------------------------------------------
(* Type correctness.                                                       *)

LEMMA TypeInit == Init => TypeOK
BY DEF Init, TypeOK, IssueRecord, CopyRecord, TaskRecord, WorkerRecord, NoCopy, NoTask,
   CopyState, SessionKind, CommitOrNone, StorageOrNone

LEMMA TypeIssues ==
  ASSUME TypeOK,
         \/ \E i \in Issue, p \in Project \cup {None}, tasks \in SUBSET Issue :
                   CreateIssue(i, p, tasks)
         \/ \E i \in Issue : CreateIssueTask(i)
         \/ \E i \in Issue : DeleteIssueTask(i)
         \/ \E i \in Issue, p \in Project \cup {None} : UpdateIssueProject(i, p)
  PROVE  TypeOK'
<1>1. issue' \in [Issue -> IssueRecord]
  <2>1. CASE \E i \in Issue, p \in Project \cup {None}, tasks \in SUBSET Issue :
                   CreateIssue(i, p, tasks)
    BY <2>1 DEF CreateIssue, TypeOK, IssueRecord
  <2>2. CASE \E i \in Issue : CreateIssueTask(i)
    BY <2>2, ParentAssumption DEF CreateIssueTask, TypeOK, IssueRecord
  <2>3. CASE \E i \in Issue : DeleteIssueTask(i)
    BY <2>3 DEF DeleteIssueTask, TypeOK, IssueRecord
  <2>4. CASE \E i \in Issue, p \in Project \cup {None} : UpdateIssueProject(i, p)
    BY <2>4 DEF UpdateIssueProject, TypeOK, IssueRecord
  <2> QED BY <2>1, <2>2, <2>3, <2>4
<1>2. UNCHANGED <<wc, task, worker>>
  BY DEF CreateIssue, CreateIssueTask, DeleteIssueTask, UpdateIssueProject
<1> QED BY <1>1, <1>2 DEF TypeOK

LEMMA TypeWorkers ==
  ASSUME TypeOK,
         \/ \E w \in Worker : \E offer \in Offers[w] : RegisterWorker(w, offer)
         \/ \E w \in Worker : \E beat \in Beats[w] : Heartbeat(w, beat)
         \/ \E w \in Worker : WorkerFallsSilent(w)
  PROVE  TypeOK'
<1>1. worker' \in [Worker -> WorkerRecord]
  <2>1. ASSUME NEW w \in Worker, NEW offer \in Offers[w], RegisterWorker(w, offer)
        PROVE  worker' \in [Worker -> WorkerRecord]
    <3>1. offer \in Offer
      BY InputAssumption
    <3> QED BY <2>1, <3>1 DEF RegisterWorker, TypeOK, WorkerRecord, Offer
  <2>2. ASSUME NEW w \in Worker, NEW beat \in Beats[w], Heartbeat(w, beat)
        PROVE  worker' \in [Worker -> WorkerRecord]
    <3>1. beat \in Beat
      BY InputAssumption
    <3> QED BY <2>2, <3>1 DEF Heartbeat, TypeOK, WorkerRecord, Beat
  <2>3. CASE \E w \in Worker : WorkerFallsSilent(w)
    BY <2>3 DEF WorkerFallsSilent, TypeOK, WorkerRecord
  <2> QED BY <2>1, <2>2, <2>3
<1>2. UNCHANGED <<issue, wc, task>>
  BY DEF RegisterWorker, Heartbeat, WorkerFallsSilent
<1> QED BY <1>1, <1>2 DEF TypeOK

(* Replacing one task by a record that names an issue keeps the types.     *)
LEMMA TypeTaskUpdate ==
  ASSUME TypeOK, NEW s \in Session, NEW t \in TaskRecord, t.issue \in Issue,
         task' = [task EXCEPT ![s] = t], wc' \in [Issue -> CopyRecord],
         UNCHANGED <<issue, worker>>
  PROVE  TypeOK'
BY DEF TypeOK

LEMMA TypeSessions ==
  ASSUME TypeOK, NEW i \in Issue, NEW s \in Session,
         \/ CreateCopySession(i, s)
         \/ \E kind \in SessionKind : CreateDetachedSession(i, s, kind)
  PROVE  TypeOK'
<1>1. \A kind, copy : QueuedTask(kind, i, copy).issue = i
  BY DEF QueuedTask, NoTask
<1>2. CASE CreateCopySession(i, s)
  <2>1. CopyOf(i) \in CopyRecord
    BY CopyOfType
  <2>2. QueuedTask("copy", i, CopyOf(i)) \in TaskRecord
    BY <2>1, QueuedTaskType DEF SessionKind
  <2>3. [CopyOf(i) EXCEPT !.active = s] \in CopyRecord
    BY <2>1 DEF CopyRecord
  <2>4. wc' \in [Issue -> CopyRecord]
    BY <1>2, <2>3 DEF CreateCopySession, TypeOK
  <2> QED BY <1>1, <1>2, <2>2, <2>4, TypeTaskUpdate DEF CreateCopySession
<1>3. ASSUME NEW kind \in SessionKind, CreateDetachedSession(i, s, kind)
      PROVE  TypeOK'
  <2>1. QueuedTask(kind, i, NoCopy) \in TaskRecord
    BY NoCopyType, QueuedTaskType
  <2>2. wc' \in [Issue -> CopyRecord]
    BY <1>3 DEF CreateDetachedSession, TypeOK
  <2>3. QueuedTask(kind, i, NoCopy).issue = i
    BY <1>1
  <2>4. task' = [task EXCEPT ![s] = QueuedTask(kind, i, NoCopy)] /\ UNCHANGED <<issue, worker>>
    BY <1>3 DEF CreateDetachedSession
  <2> HIDE DEF CreateDetachedSession
  <2> QED BY <2>1, <2>2, <2>3, <2>4, TypeTaskUpdate
<1> QED BY <1>2, <1>3

(* Whatever a worker claims is a live task.                                *)
LEMMA CandidatesAreLive ==
  ASSUME NEW w \in Worker, NEW s \in Candidates(w)
  PROVE  s \in Session /\ Live(s)
BY DEF Candidates, StaleCandidates, QueuedCandidates, FirstOf, Live, LiveStatus

LEMMA TypeClaim ==
  ASSUME TypeOK, NEW w \in Worker, ClaimRuntimeTask(w)
  PROVE  TypeOK'
<1>1. PICK s \in Candidates(w) :
        /\ task' = [task EXCEPT ![s] = ClaimedTask(s, w)]
        /\ wc' = IF IsCopyTask(s) /\ wc[task[s].issue].storage = None
                 THEN [wc EXCEPT ![task[s].issue].storage = worker[w].storage]
                 ELSE wc
  BY DEF ClaimRuntimeTask, ClaimTask
<1>2. s \in Session /\ Live(s)
  BY CandidatesAreLive
<1>3. worker[w].storage \in StorageOrNone
  BY DEF TypeOK, WorkerRecord
<1>4. task[s] \in TaskRecord /\ task[s].issue \in Issue
  BY <1>2 DEF TypeOK, Live, LiveStatus
<1>5. ClaimedTask(s, w) \in TaskRecord /\ ClaimedTask(s, w).issue = task[s].issue
  BY <1>3, <1>4 DEF ClaimedTask, TaskRecord, LiveStatus
<1>6. wc' \in [Issue -> CopyRecord]
  BY <1>1, <1>3 DEF TypeOK, CopyRecord
<1> QED BY <1>1, <1>2, <1>4, <1>5, <1>6, TypeTaskUpdate DEF ClaimRuntimeTask, ClaimTask

LEMMA TypeTasks ==
  ASSUME TypeOK, NEW s \in Session,
         \/ TaskGoesStale(s)
         \/ \E w \in Worker : MarkRunning(w, s)
         \/ RequestCancel(s)
         \/ CancelNow(s)
  PROVE  TypeOK'
<1>1. Live(s)
  BY DEF TaskGoesStale, MarkRunning, Accepts, RequestCancel, CancelNow, Live, LiveStatus
<1>2. task[s] \in TaskRecord /\ task[s].issue \in Issue
  BY <1>1 DEF TypeOK, Live, LiveStatus
<1>3. CASE TaskGoesStale(s)
  <2>1. [task[s] EXCEPT !.stale = TRUE] \in TaskRecord
    BY <1>2 DEF TaskRecord
  <2> QED BY <1>2, <1>3, <2>1 DEF TaskGoesStale, TypeOK
<1>4. CASE \E w \in Worker : MarkRunning(w, s)
  <2>1. [task[s] EXCEPT !.status = "running", !.stale = FALSE] \in TaskRecord
    BY <1>2 DEF TaskRecord, LiveStatus
  <2> QED BY <1>2, <1>4, <2>1 DEF MarkRunning, TypeOK
<1>5. CASE RequestCancel(s)
  <2>1. [task[s] EXCEPT !.cancelRequested = TRUE, !.stale = FALSE] \in TaskRecord
    BY <1>2 DEF TaskRecord
  <2> QED BY <1>2, <1>5, <2>1 DEF RequestCancel, TypeOK
<1>6. CASE CancelNow(s)
  <2>1. [task[s] EXCEPT !.status = "cancelled"] \in TaskRecord
    BY <1>2 DEF TaskRecord, FinalStatus
  <2>2. wc' \in [Issue -> CopyRecord]
    BY <1>6, ReleasedType DEF CancelNow, TypeOK
  <2> QED BY <1>2, <1>6, <2>1, <2>2 DEF CancelNow, TypeOK
<1> QED BY <1>3, <1>4, <1>5, <1>6

LEMMA TypeFinish ==
  ASSUME TypeOK, NEW w \in Worker, NEW s \in Session, NEW r \in Report,
         FinishTask(w, s, r)
  PROVE  TypeOK'
<1> DEFINE status == EffectiveStatus(s, r.status)
           done == FinishedTask(s, w, status, r)
           finished == [task EXCEPT ![s] = done]
<1>1. r \in ReportType /\ status \in FinalStatus
  BY InputAssumption DEF EffectiveStatus, ReportType, FinalStatus
<1>2. task[s] \in TaskRecord /\ task[s].issue \in Issue
  BY DEF FinishTask, Accepts, TypeOK
<1>3. done \in TaskRecord /\ done.issue = task[s].issue
  <2>1. (IF IsCopyTask(s) /\ EnvelopeOK(r) THEN r.head ELSE None) \in CommitOrNone
    BY <1>1 DEF ReportType, CommitOrNone
  <2>2. PublishesSource(s, w, status, r) \in BOOLEAN
    BY DEF PublishesSource
  <2> QED BY <1>1, <1>2, <2>1, <2>2 DEF FinishedTask, TaskRecord
<1>4. /\ finished \in [Session -> TaskRecord]
      /\ \A t \in Session : finished[t].status # "absent" => finished[t].issue \in Issue
  <2> HIDE DEF done
  <2> QED BY <1>2, <1>3 DEF TypeOK
<1>5. CASE QueuesDeploy(s, w, status, r)
  <2> DEFINE deploy == QueuedTask("automation", task[s].issue, NoCopy)
  <2>1. deploy \in TaskRecord
    BY <1>2, QueuedTaskType, NoCopyType DEF SessionKind
  <2>2. deploy.issue = task[s].issue
    BY DEF QueuedTask, NoTask
  <2>3. PICK d \in Session : task' = [finished EXCEPT ![d] = deploy]
    BY <1>5 DEF FinishTask
  <2> HIDE DEF finished, deploy
  <2>4. /\ task' \in [Session -> TaskRecord]
        /\ \A t \in Session : task'[t].status # "absent" => task'[t].issue \in Issue
    BY <1>2, <1>4, <2>1, <2>2, <2>3
  <2>5. wc' \in [Issue -> CopyRecord]
    BY <1>1, <1>2, ReconciledType DEF FinishTask, TypeOK
  <2> QED BY <2>4, <2>5 DEF FinishTask, TypeOK
<1>6. CASE ~QueuesDeploy(s, w, status, r)
  <2>1. task' = finished
    BY <1>6 DEF FinishTask
  <2>2. wc' \in [Issue -> CopyRecord]
    BY <1>1, <1>2, ReconciledType DEF FinishTask, TypeOK
  <2> QED BY <1>4, <2>1, <2>2 DEF FinishTask, TypeOK
<1> QED BY <1>5, <1>6

LEMMA TypeStep == TypeOK /\ [Next]_vars => TypeOK'
<1> SUFFICES ASSUME TypeOK, [Next]_vars PROVE TypeOK'
  OBVIOUS
<1>1. CASE UNCHANGED vars
  BY <1>1 DEF vars, TypeOK
<1>2. CASE Next
  BY <1>2, TypeIssues, TypeWorkers, TypeSessions, TypeClaim, TypeTasks, TypeFinish,
     InputAssumption DEF Next, SessionKind
<1> QED BY <1>1, <1>2

(* Every reachable state is well typed.                                    *)
THEOREM TypeCorrect == Spec => []TypeOK
BY TypeInit, TypeStep, PTL DEF Spec

-----------------------------------------------------------------------------
(* Reservations.  ReservationExact is inductive given TypeOK: the record   *)
(* and the task of a turn change in the same handler, in one of three      *)
(* ways.  The three lemmas are about any two pairs of record function c    *)
(* and task function t, before (c, t) and after (d, u).                    *)

LiveCopy(t) == t.status \in LiveStatus /\ t.kind = "copy"
TurnFields(t) == <<t.issue, t.gen, t.head, t.project>>
RecordFields(copy) == <<copy.active, copy.gen, copy.head, copy.project, copy.state>>

Reserved(c, t, i) ==
  c[i].active # None =>
    c[i].active \in Session /\ LiveCopy(t[c[i].active]) /\ t[c[i].active].issue = i
Turn(c, t, s) ==
  LiveCopy(t[s]) =>
    /\ t[s].issue \in Issue
    /\ c[t[s].issue].active = s
    /\ c[t[s].issue].gen = t[s].gen
    /\ c[t[s].issue].head = t[s].head
    /\ c[t[s].issue].project = t[s].project
    /\ c[t[s].issue].state \in {"uninitialized", "clean", "dirty"}
Consistent(c, t) ==
  (\A i \in Issue : Reserved(c, t, i)) /\ (\A s \in Session : Turn(c, t, s))

LEMMA ReservationIsConsistency ==
  ASSUME TypeOK
  PROVE  ReservationExact <=> Consistent(wc, task)
<1>1. \A s \in Session : LiveCopyTask(s) <=> LiveCopy(task[s])
  BY DEF LiveCopyTask, IsCopyTask, Live, LiveCopy, LiveStatus
<1>2. \A s \in Session : LiveCopy(task[s]) => task[s].issue \in Issue
  BY DEF TypeOK, LiveCopy, LiveStatus
<1>3. \A i \in Issue : wc[i].active \in Session \cup {None}
  BY DEF TypeOK, CopyRecord
<1>4. ASSUME ReservationExact PROVE Consistent(wc, task)
  BY <1>1, <1>2, <1>3, <1>4 DEF ReservationExact, Consistent, Reserved, Turn
<1>5. ASSUME Consistent(wc, task) PROVE ReservationExact
  BY <1>1, <1>2, <1>3, <1>5 DEF ReservationExact, Consistent, Reserved, Turn
<1> QED BY <1>4, <1>5

(* The handler neither begins nor ends a turn.                             *)
LEMMA TurnKept ==
  ASSUME NEW c, NEW t, NEW d, NEW u, Consistent(c, t),
         \A i \in Issue : RecordFields(d[i]) = RecordFields(c[i]),
         \A s \in Session : LiveCopy(u[s]) <=> LiveCopy(t[s]),
         \A s \in Session : LiveCopy(t[s]) => TurnFields(u[s]) = TurnFields(t[s])
  PROVE  Consistent(d, u)
<1>1. ASSUME NEW i \in Issue PROVE Reserved(d, u, i)
  BY DEF Consistent, Reserved, RecordFields, TurnFields
<1>2. ASSUME NEW s \in Session PROVE Turn(d, u, s)
  BY DEF Consistent, Turn, RecordFields, TurnFields
<1> QED BY <1>1, <1>2 DEF Consistent

(* The handler ends the turn of s: its issue's copy is free, no other copy *)
(* and no other live task changes.                                         *)
LEMMA TurnEnded ==
  ASSUME NEW c, NEW t, NEW d, NEW u, Consistent(c, t),
         NEW s \in Session, LiveCopy(t[s]),
         d[t[s].issue].active = None,
         \A i \in Issue \ {t[s].issue} : d[i] = c[i],
         \A x \in Session : LiveCopy(u[x]) <=> LiveCopy(t[x]) /\ x # s,
         \A x \in Session \ {s} : LiveCopy(t[x]) => TurnFields(u[x]) = TurnFields(t[x])
  PROVE  Consistent(d, u)
<1>1. ASSUME NEW i \in Issue PROVE Reserved(d, u, i)
  BY DEF Consistent, Reserved, Turn, TurnFields
<1>2. ASSUME NEW x \in Session PROVE Turn(d, u, x)
  BY DEF Consistent, Turn, TurnFields
<1> QED BY <1>1, <1>2 DEF Consistent

(* The handler begins a turn: a free copy in good state is handed to s     *)
(* with its own generation, head and project.                              *)
LEMMA TurnBegun ==
  ASSUME NEW c, NEW t, NEW d, NEW u, Consistent(c, t),
         NEW i \in Issue, NEW s \in Session, ~LiveCopy(t[s]),
         c[i].active = None, d[i].active = s, LiveCopy(u[s]), u[s].issue = i,
         <<d[i].gen, d[i].head, d[i].project>> = <<u[s].gen, u[s].head, u[s].project>>,
         d[i].state \in {"uninitialized", "clean", "dirty"},
         \A j \in Issue \ {i} : d[j] = c[j],
         \A x \in Session \ {s} : u[x] = t[x]
  PROVE  Consistent(d, u)
<1>1. ASSUME NEW j \in Issue PROVE Reserved(d, u, j)
  BY DEF Consistent, Reserved
<1>2. ASSUME NEW x \in Session PROVE Turn(d, u, x)
  <2>1. CASE x = s
    BY <2>1 DEF Turn
  <2>2. CASE x # s
    BY <2>2, NoneAssumption DEF Consistent, Turn
  <2> QED BY <2>1, <2>2
<1> QED BY <1>1, <1>2 DEF Consistent

LEMMA ReservationBegin ==
  ASSUME TypeOK, Consistent(wc, task), NEW i \in Issue, NEW s \in Session,
         CreateCopySession(i, s)
  PROVE  Consistent(wc', task')
<1> DEFINE copy == CopyOf(i)
           queued == QueuedTask("copy", i, copy)
<1>1. /\ wc' = [wc EXCEPT ![i] = [copy EXCEPT !.active = s]]
      /\ task' = [task EXCEPT ![s] = queued]
      /\ task[s].status = "absent"
      /\ copy.active = None /\ copy.state # "recovery_required"
      /\ copy.project = issue[i].project
  BY DEF CreateCopySession, CanStartSession, Reservable
<1>2. copy \in CopyRecord
  BY CopyOfType
<1>3. copy.state \in {"uninitialized", "clean", "dirty"}
  <2>1. copy.state # "absent"
    BY DEF CopyOf, NoCopy
  <2> QED BY <1>1, <1>2, <2>1 DEF CopyRecord, CopyState
<1>4. /\ queued.status = "queued" /\ queued.kind = "copy" /\ queued.issue = i
      /\ queued.gen = copy.gen /\ queued.head = copy.head
      /\ queued.project = issue[i].project
  BY DEF QueuedTask, NoTask
<1>5. wc[i].active = None
  <2>1. CASE wc[i].state = "absent"
    <3>1. wc[i].active # None => wc[i].state \in {"uninitialized", "clean", "dirty"}
      BY DEF Consistent, Reserved, Turn
    <3> QED BY <2>1, <3>1
  <2>2. CASE wc[i].state # "absent"
    BY <1>1, <2>2 DEF CopyOf
  <2> QED BY <2>1, <2>2
<1> HIDE DEF copy, queued
<1>6. /\ wc'[i].active = s /\ wc'[i].state = copy.state
      /\ <<wc'[i].gen, wc'[i].head, wc'[i].project>> = <<copy.gen, copy.head, copy.project>>
      /\ \A j \in Issue \ {i} : wc'[j] = wc[j]
  BY <1>1, <1>2 DEF TypeOK, CopyRecord
<1>7. task'[s] = queued /\ \A x \in Session \ {s} : task'[x] = task[x]
  BY <1>1 DEF TypeOK
<1>8. ~LiveCopy(task[s]) /\ LiveCopy(task'[s])
  BY <1>1, <1>4, <1>7 DEF LiveCopy, LiveStatus
<1>9. /\ task'[s].issue = i
      /\ <<wc'[i].gen, wc'[i].head, wc'[i].project>>
            = <<task'[s].gen, task'[s].head, task'[s].project>>
      /\ wc'[i].state \in {"uninitialized", "clean", "dirty"}
  BY <1>1, <1>3, <1>4, <1>6, <1>7
<1> QED BY <1>5, <1>6, <1>7, <1>8, <1>9, TurnBegun

LEMMA ReservationKept ==
  ASSUME TypeOK, Consistent(wc, task),
         \/ \E i \in Issue, s \in Session, kind \in SessionKind \ {"copy"} :
              CreateDetachedSession(i, s, kind)
         \/ \E w \in Worker : ClaimRuntimeTask(w)
         \/ \E s \in Session : TaskGoesStale(s)
         \/ \E w \in Worker, s \in Session : MarkRunning(w, s)
         \/ \E s \in Session : RequestCancel(s)
  PROVE  Consistent(wc', task')
<1> DEFINE Keeps == 
      /\ \A i \in Issue : RecordFields(wc'[i]) = RecordFields(wc[i])
      /\ \A s \in Session : LiveCopy(task'[s]) <=> LiveCopy(task[s])
      /\ \A s \in Session : LiveCopy(task[s]) => TurnFields(task'[s]) = TurnFields(task[s])
<1>1. ASSUME NEW i \in Issue, NEW s \in Session, NEW kind \in SessionKind \ {"copy"},
             CreateDetachedSession(i, s, kind)
      PROVE  Keeps
  <2>1. task[s].status = "absent" /\ wc' = wc
    BY <1>1 DEF CreateDetachedSession, CanStartSession
  <2>2. task'[s].kind = kind /\ \A x \in Session \ {s} : task'[x] = task[x]
    BY <1>1 DEF CreateDetachedSession, QueuedTask, NoTask, TypeOK
  <2> QED BY <2>1, <2>2 DEF LiveCopy, LiveStatus
<1>2. ASSUME NEW w \in Worker, ClaimRuntimeTask(w)
      PROVE  Keeps
  <2>1. PICK s \in Candidates(w) :
          /\ task' = [task EXCEPT ![s] = ClaimedTask(s, w)]
          /\ wc' = IF IsCopyTask(s) /\ wc[task[s].issue].storage = None
                   THEN [wc EXCEPT ![task[s].issue].storage = worker[w].storage]
                   ELSE wc
    BY <1>2 DEF ClaimRuntimeTask, ClaimTask
  <2>2. s \in Session /\ task[s].status \in LiveStatus
    BY CandidatesAreLive DEF Live
  <2>3. \A i \in Issue : RecordFields(wc'[i]) = RecordFields(wc[i])
    BY <2>1 DEF TypeOK, CopyRecord, RecordFields
  <2>4. /\ task'[s] = ClaimedTask(s, w)
        /\ \A x \in Session \ {s} : task'[x] = task[x]
    BY <2>1, <2>2 DEF TypeOK
  <2>5. /\ ClaimedTask(s, w).status = "claimed"
        /\ ClaimedTask(s, w).kind = task[s].kind
        /\ TurnFields(ClaimedTask(s, w)) = TurnFields(task[s])
    BY <2>2 DEF ClaimedTask, TurnFields, TypeOK, TaskRecord
  <2> QED BY <2>2, <2>3, <2>4, <2>5 DEF LiveCopy, LiveStatus
<1>3. ASSUME NEW s \in Session, TaskGoesStale(s)
      PROVE  Keeps
  BY <1>3 DEF TaskGoesStale, TypeOK, TaskRecord, LiveCopy, TurnFields
<1>4. ASSUME NEW w \in Worker, NEW s \in Session, MarkRunning(w, s)
      PROVE  Keeps
  BY <1>4 DEF MarkRunning, Accepts, TypeOK, TaskRecord, LiveCopy, LiveStatus, TurnFields
<1>5. ASSUME NEW s \in Session, RequestCancel(s)
      PROVE  Keeps
  <2>1. /\ task'[s] = [task[s] EXCEPT !.cancelRequested = TRUE, !.stale = FALSE]
        /\ \A x \in Session \ {s} : task'[x] = task[x]
        /\ wc' = wc
    BY <1>5 DEF RequestCancel, TypeOK
  <2>2. /\ task'[s].status = task[s].status /\ task'[s].kind = task[s].kind
        /\ TurnFields(task'[s]) = TurnFields(task[s])
    BY <2>1 DEF TypeOK, TaskRecord, TurnFields
  <2> QED BY <2>1, <2>2 DEF LiveCopy
<1>6. Keeps
  BY <1>1, <1>2, <1>3, <1>4, <1>5
<1> QED BY <1>6, TurnKept

LEMMA ReservationCancel ==
  ASSUME TypeOK, Consistent(wc, task), NEW s \in Session, CancelNow(s)
  PROVE  Consistent(wc', task')
<1>1. /\ task'[s].status = "cancelled" /\ task'[s].kind = task[s].kind
      /\ \A x \in Session \ {s} : task'[x] = task[x]
  BY DEF CancelNow, TypeOK, TaskRecord
<1>2. CASE LiveCopy(task[s])
  <2>1. task[s].issue \in Issue /\ wc[task[s].issue].active = s
           /\ wc[task[s].issue].gen = task[s].gen
    BY <1>2 DEF Consistent, Turn
  <2>2. Holds(s)
    BY <1>2, <2>1 DEF Holds, IsCopyTask, LiveCopy, LiveStatus
  <2>3. wc' = [wc EXCEPT ![task[s].issue] = Released(@)]
    BY <2>1, <2>2 DEF CancelNow
  <2>4. wc'[task[s].issue].active = None
           /\ \A i \in Issue \ {task[s].issue} : wc'[i] = wc[i]
    BY <2>1, <2>3 DEF TypeOK, CopyRecord, Released
  <2>5. \A x \in Session : LiveCopy(task'[x]) <=> LiveCopy(task[x]) /\ x # s
    BY <1>1 DEF LiveCopy, LiveStatus
  <2> QED BY <1>1, <1>2, <2>4, <2>5, TurnEnded
<1>3. CASE ~LiveCopy(task[s])
  <2>1. ~IsCopyTask(s)
    BY <1>3 DEF CancelNow, Live, IsCopyTask, LiveCopy
  <2>2. wc' = wc
    BY <2>1 DEF CancelNow, Holds
  <2>3. \A x \in Session : LiveCopy(task'[x]) <=> LiveCopy(task[x])
    BY <1>1, <1>3 DEF LiveCopy, LiveStatus
  <2>4. \A x \in Session : LiveCopy(task[x]) => TurnFields(task'[x]) = TurnFields(task[x])
    BY <1>1, <1>3
  <2> QED BY <2>2, <2>3, <2>4, TurnKept
<1> QED BY <1>2, <1>3

LEMMA ReservationFinish ==
  ASSUME TypeOK, Consistent(wc, task), NEW w \in Worker, NEW s \in Session,
         NEW r \in Report, FinishTask(w, s, r)
  PROVE  Consistent(wc', task')
<1> DEFINE status == EffectiveStatus(s, r.status)
           done == FinishedTask(s, w, status, r)
<1>1. status \in FinalStatus /\ Live(s)
  BY InputAssumption DEF FinishTask, Accepts, EffectiveStatus, ReportType, FinalStatus,
     Live, LiveStatus
<1>2. done.status = status /\ done.kind = task[s].kind
  BY DEF FinishedTask, TypeOK, TaskRecord
<1>3. ~LiveCopy(task'[s]) /\ \A x \in Session \ {s} :
        task'[x] = task[x] \/ (~LiveCopy(task'[x]) /\ ~LiveCopy(task[x]))
  <2> DEFINE finished == [task EXCEPT ![s] = done]
             deploy == QueuedTask("automation", task[s].issue, NoCopy)
  <2>1. ~LiveCopy(done)
    BY <1>1, <1>2 DEF LiveCopy, LiveStatus, FinalStatus
  <2>2. finished[s] = done /\ \A x \in Session \ {s} : finished[x] = task[x]
    BY DEF TypeOK
  <2>3. deploy.kind = "automation"
    BY DEF QueuedTask, NoTask
  <2>4. \/ task' = finished
        \/ \E d \in Session : task[d].status = "absent" /\ task' = [finished EXCEPT ![d] = deploy]
    BY DEF FinishTask
  <2>5. finished = [x \in Session |-> finished[x]]
    BY DEF TypeOK
  <2> HIDE DEF finished, deploy, done
  <2>6. CASE task' = finished
    BY <2>1, <2>2, <2>6
  <2>7. ASSUME NEW d \in Session, task[d].status = "absent",
               task' = [finished EXCEPT ![d] = deploy]
        PROVE  ~LiveCopy(task'[s]) /\ \A x \in Session \ {s} :
                 task'[x] = task[x] \/ (~LiveCopy(task'[x]) /\ ~LiveCopy(task[x]))
    <3>1. d # s /\ task'[d] = deploy /\ \A x \in Session \ {d} : task'[x] = finished[x]
      BY <1>1, <2>5, <2>7 DEF Live, LiveStatus
    <3> QED BY <2>1, <2>2, <2>3, <2>7, <3>1 DEF LiveCopy, LiveStatus
  <2> QED BY <2>4, <2>6, <2>7
<1>4. CASE LiveCopy(task[s])
  <2>1. task[s].issue \in Issue /\ wc[task[s].issue].active = s
    BY <1>4 DEF Consistent, Turn
  <2>2. Holds(s)
    BY <1>4, <2>1 DEF Holds, IsCopyTask, LiveCopy, LiveStatus
  <2>3. wc' = [wc EXCEPT ![task[s].issue] = Reconciled(s, w, status, r)]
    BY <2>2 DEF FinishTask
  <2>4. Reconciled(s, w, status, r).active = None
    BY <2>1 DEF Reconciled, WithReport, NeedsRecovery, Released, TypeOK, CopyRecord
  <2>5. wc'[task[s].issue].active = None
           /\ \A i \in Issue \ {task[s].issue} : wc'[i] = wc[i]
    BY <2>1, <2>3, <2>4 DEF TypeOK
  <2>6. \A x \in Session : LiveCopy(task'[x]) <=> LiveCopy(task[x]) /\ x # s
    BY <1>3
  <2>7. \A x \in Session \ {s} : LiveCopy(task[x]) => TurnFields(task'[x]) = TurnFields(task[x])
    BY <1>3
  <2> QED BY <1>4, <2>5, <2>6, <2>7, TurnEnded
<1>5. CASE ~LiveCopy(task[s])
  <2>1. ~IsCopyTask(s)
    BY <1>1, <1>5 DEF IsCopyTask, LiveCopy, Live
  <2>2. wc' = wc
    BY <2>1 DEF FinishTask, Holds
  <2>3. \A x \in Session : LiveCopy(task'[x]) <=> LiveCopy(task[x])
    BY <1>3, <1>5
  <2>4. \A x \in Session : LiveCopy(task[x]) => TurnFields(task'[x]) = TurnFields(task[x])
    BY <1>3, <1>5
  <2> QED BY <2>2, <2>3, <2>4, TurnKept
<1> QED BY <1>4, <1>5

LEMMA ReservationInit == Init => Consistent(wc, task)
BY DEF Init, Consistent, Reserved, Turn, LiveCopy, LiveStatus, NoCopy, NoTask

LEMMA ReservationStep ==
  TypeOK /\ Consistent(wc, task) /\ [Next]_vars => Consistent(wc', task')
<1> SUFFICES ASSUME TypeOK, Consistent(wc, task), [Next]_vars
             PROVE  Consistent(wc', task')
  OBVIOUS
<1>1. CASE UNCHANGED <<wc, task>>
  BY <1>1
<1>2. CASE Next
  <2>1. ASSUME \/ \E i \in Issue, p \in Project \cup {None}, tasks \in SUBSET Issue :
                   CreateIssue(i, p, tasks)
               \/ \E i \in Issue : CreateIssueTask(i)
               \/ \E i \in Issue : DeleteIssueTask(i)
               \/ \E i \in Issue, p \in Project \cup {None} : UpdateIssueProject(i, p)
               \/ \E w \in Worker : \E offer \in Offers[w] : RegisterWorker(w, offer)
               \/ \E w \in Worker : \E beat \in Beats[w] : Heartbeat(w, beat)
               \/ \E w \in Worker : WorkerFallsSilent(w)
        PROVE  UNCHANGED <<wc, task>>
    BY <2>1 DEF CreateIssue, CreateIssueTask, DeleteIssueTask, UpdateIssueProject,
       RegisterWorker, Heartbeat, WorkerFallsSilent
  <2>2. \A kind \in Kinds \ {"copy"} : kind \in SessionKind \ {"copy"}
    BY InputAssumption
  <2> QED BY <1>1, <1>2, <2>1, <2>2, ReservationBegin, ReservationKept,
             ReservationCancel, ReservationFinish DEF Next
<1> QED BY <1>1, <1>2 DEF vars

(* At every moment a working copy is reserved by s exactly when s is an    *)
(* unfinished working-copy task of its issue, issued for the record's      *)
(* current generation, head and project.                                   *)
THEOREM ReservationIsExact == Spec => []ReservationExact
<1>1. Init => TypeOK /\ Consistent(wc, task)
  BY TypeInit, ReservationInit
<1>2. TypeOK /\ Consistent(wc, task) /\ [Next]_vars => (TypeOK /\ Consistent(wc, task))'
  BY TypeStep, ReservationStep
<1>3. TypeOK /\ Consistent(wc, task) => ReservationExact
  BY ReservationIsConsistency
<1> QED BY <1>1, <1>2, <1>3, PTL DEF Spec

-----------------------------------------------------------------------------
(* What one step can do to one record.                                     *)

Begins(i) ==
  /\ CopyOf(i).active = None
  /\ CopyOf(i).state # "recovery_required"
  /\ \E s \in Session : wc'[i] = [CopyOf(i) EXCEPT !.active = s]
Binds(i) ==
  /\ wc[i].active # None
  /\ wc[i].storage = None
  /\ \E d \in StorageOrNone : wc'[i] = [wc[i] EXCEPT !.storage = d]
Releases(i) == wc[i].active # None /\ wc'[i] = Released(wc[i])
Rejects(i) ==
  /\ wc[i].active # None
  /\ \E reason \in RecoveryReasons : wc'[i] = NeedsRecovery(wc[i], reason)
Accepted(i) ==
  /\ wc[i].active # None
  /\ \E r \in ReportType :
       /\ wc'[i] = WithReport(wc[i], r)
       /\ wc[i].storage \in {None, r.storage}
       /\ r.state \in {"clean", "dirty"}

LEMMA RecordClaim ==
  ASSUME TypeOK, Consistent(wc, task), NEW w \in Worker, ClaimRuntimeTask(w), NEW i \in Issue
  PROVE  wc'[i] = wc[i] \/ Binds(i)
<1>1. PICK s \in Candidates(w) :
        wc' = IF IsCopyTask(s) /\ wc[task[s].issue].storage = None
              THEN [wc EXCEPT ![task[s].issue].storage = worker[w].storage]
              ELSE wc
  BY DEF ClaimRuntimeTask, ClaimTask
<1>2. s \in Session /\ Live(s)
  BY CandidatesAreLive
<1>3. CASE IsCopyTask(s) /\ wc[task[s].issue].storage = None /\ i = task[s].issue
  <2>1. LiveCopy(task[s])
    BY <1>2, <1>3 DEF LiveCopy, IsCopyTask, Live
  <2>2. wc[i].active = s /\ s # None
    BY <1>2, <1>3, <2>1, NoneAssumption DEF Consistent, Turn
  <2>3. wc'[i] = [wc[i] EXCEPT !.storage = worker[w].storage]
    BY <1>1, <1>3 DEF TypeOK
  <2>4. worker[w].storage \in StorageOrNone
    BY DEF TypeOK, WorkerRecord
  <2> QED BY <1>3, <2>2, <2>3, <2>4 DEF Binds
<1>4. CASE ~(IsCopyTask(s) /\ wc[task[s].issue].storage = None /\ i = task[s].issue)
  BY <1>1, <1>4 DEF TypeOK
<1> QED BY <1>3, <1>4

LEMMA RecordFinish ==
  ASSUME TypeOK, NEW w \in Worker, NEW s \in Session, NEW r \in Report,
         FinishTask(w, s, r), NEW i \in Issue
  PROVE  wc'[i] = wc[i] \/ Rejects(i) \/ Accepted(i)
<1> DEFINE status == EffectiveStatus(s, r.status)
           reason == RecoveryReason(s, w, status, r)
<1>1. r \in ReportType
  BY InputAssumption
<1>2. CASE Holds(s) /\ i = task[s].issue
  <2>1. wc'[i] = Reconciled(s, w, status, r)
    BY <1>2 DEF FinishTask, TypeOK
  <2>2. wc[i].active # None
    BY <1>2, NoneAssumption DEF Holds
  <2>3. CASE reason # None
    <3>1. reason \in RecoveryReasons
      BY <1>1, <2>3 DEF RecoveryReason, RecoveryReasons, ReportType
    <3> QED BY <1>2, <2>1, <2>2, <2>3, <3>1 DEF Rejects, Reconciled
  <2>4. CASE reason = None
    <3>1. EnvelopeOK(r) /\ ~ReportedElsewhere(wc[i], w, r) /\ r.state # "recovery_required"
      BY <1>2, <2>4, NoneAssumption DEF RecoveryReason, RecoveryReasons, EnvelopeOK
    <3>2. wc[i].storage \in {None, r.storage}
      BY <3>1 DEF ReportedElsewhere
    <3>3. r.state \in {"clean", "dirty"}
      BY <3>1 DEF EnvelopeOK
    <3> QED BY <1>1, <1>2, <2>1, <2>2, <2>4, <3>2, <3>3 DEF Accepted, Reconciled
  <2> QED BY <2>3, <2>4
<1>3. CASE ~(Holds(s) /\ i = task[s].issue)
  BY <1>3 DEF FinishTask, TypeOK
<1> QED BY <1>2, <1>3

LEMMA RecordStep ==
  ASSUME TypeOK, Consistent(wc, task), [Next]_vars, NEW i \in Issue
  PROVE  \/ wc'[i] = wc[i]
         \/ Begins(i) \/ Binds(i) \/ Releases(i) \/ Rejects(i) \/ Accepted(i)
<1>1. CASE UNCHANGED wc
  BY <1>1
<1>2. ASSUME NEW j \in Issue, NEW s \in Session, CreateCopySession(j, s)
      PROVE  wc'[i] = wc[i] \/ Begins(i)
  BY <1>2 DEF CreateCopySession, Reservable, Begins, TypeOK
<1>3. ASSUME NEW s \in Session, CancelNow(s)
      PROVE  wc'[i] = wc[i] \/ Releases(i)
  BY <1>3, NoneAssumption DEF CancelNow, Holds, Releases, TypeOK
<1>4. CASE Next
  <2>1. ASSUME \/ \E j \in Issue, p \in Project \cup {None}, tasks \in SUBSET Issue :
                   CreateIssue(j, p, tasks)
               \/ \E j \in Issue : CreateIssueTask(j)
               \/ \E j \in Issue : DeleteIssueTask(j)
               \/ \E j \in Issue, p \in Project \cup {None} : UpdateIssueProject(j, p)
               \/ \E w \in Worker : \E offer \in Offers[w] : RegisterWorker(w, offer)
               \/ \E w \in Worker : \E beat \in Beats[w] : Heartbeat(w, beat)
               \/ \E w \in Worker : WorkerFallsSilent(w)
               \/ \E j \in Issue, s \in Session, kind \in Kinds \ {"copy"} :
                    CreateDetachedSession(j, s, kind)
               \/ \E s \in Session : TaskGoesStale(s)
               \/ \E w \in Worker, s \in Session : MarkRunning(w, s)
               \/ \E s \in Session : RequestCancel(s)
        PROVE  UNCHANGED wc
    BY <2>1 DEF CreateIssue, CreateIssueTask, DeleteIssueTask, UpdateIssueProject,
       RegisterWorker, Heartbeat, WorkerFallsSilent, CreateDetachedSession, TaskGoesStale,
       MarkRunning, RequestCancel
  <2> QED BY <1>1, <1>2, <1>3, <1>4, <2>1, RecordClaim, RecordFinish DEF Next
<1> QED BY <1>1, <1>4 DEF vars

(* A record nobody has made yet is blank, and a reserved record is one     *)
(* that can be worked on.                                                  *)
AbsentIsBlank == \A i \in Issue : wc[i].state = "absent" => wc[i] = NoCopy

LEMMA ReservedIsWorkable ==
  ASSUME TypeOK, Consistent(wc, task), NEW i \in Issue, wc[i].active # None
  PROVE  wc[i].state \in {"uninitialized", "clean", "dirty"}
<1>1. ReservationExact
  BY ReservationIsConsistency
<1> DEFINE s == wc[i].active
<1>2. s \in Session /\ LiveCopyTask(s) /\ task[s].issue = i
  BY <1>1 DEF ReservationExact, TypeOK, CopyRecord
<1> QED BY <1>1, <1>2 DEF ReservationExact

LEMMA BlankStep ==
  TypeOK /\ Consistent(wc, task) /\ AbsentIsBlank /\ [Next]_vars => AbsentIsBlank'
<1> SUFFICES ASSUME TypeOK, Consistent(wc, task), AbsentIsBlank, [Next]_vars,
                    NEW i \in Issue, wc'[i].state = "absent"
             PROVE  wc'[i] = NoCopy
  BY DEF AbsentIsBlank
<1>1. wc[i] \in CopyRecord
  BY DEF TypeOK
<1>2. CASE wc'[i] = wc[i]
  BY <1>2 DEF AbsentIsBlank
<1>3. ~Begins(i)
  BY <1>1 DEF Begins, CopyOf, NoCopy, CopyRecord
<1>4. CASE wc[i].active # None
  <2>1. wc[i].state \in {"uninitialized", "clean", "dirty"}
    BY <1>4, ReservedIsWorkable
  <2>2. ~Binds(i) /\ ~Releases(i)
    BY <1>1, <2>1 DEF Binds, Releases, Released, CopyRecord
  <2>3. ~Rejects(i) /\ ~Accepted(i)
    BY <1>1 DEF Rejects, Accepted, NeedsRecovery, WithReport, Released, CopyRecord
  <2> QED BY <1>2, <1>3, <2>2, <2>3, RecordStep
<1>5. CASE wc[i].active = None
  BY <1>2, <1>3, <1>5, RecordStep DEF Binds, Releases, Rejects, Accepted
<1> QED BY <1>4, <1>5

(* What holds of the records at every moment.                              *)
RecordInv == TypeOK /\ Consistent(wc, task) /\ AbsentIsBlank

LEMMA RecordInvariant == Spec => []RecordInv
<1>1. Init => RecordInv
  BY TypeInit, ReservationInit DEF RecordInv, AbsentIsBlank, Init
<1>2. RecordInv /\ [Next]_vars => RecordInv'
  BY TypeStep, ReservationStep, BlankStep DEF RecordInv
<1> QED BY <1>1, <1>2, PTL DEF Spec

LEMMA StorageStep ==
  ASSUME RecordInv, [Next]_vars, NEW i \in Issue, wc[i].storage # None
  PROVE  wc'[i].storage = wc[i].storage
<1> USE DEF RecordInv
<1>1. wc[i] \in CopyRecord
  BY DEF TypeOK
<1>2. wc[i].state # "absent"
  BY DEF AbsentIsBlank, NoCopy
<1>3. Begins(i) => wc'[i].storage = wc[i].storage
  BY <1>1, <1>2 DEF Begins, CopyOf, CopyRecord
<1>4. ~Binds(i)
  BY DEF Binds
<1>5. Releases(i) \/ Rejects(i) => wc'[i].storage = wc[i].storage
  BY <1>1 DEF Releases, Rejects, NeedsRecovery, Released, CopyRecord
<1>6. Accepted(i) => wc'[i].storage = wc[i].storage
  BY <1>1 DEF Accepted, WithReport, Released, CopyRecord
<1> QED BY <1>3, <1>4, <1>5, <1>6, RecordStep

(* Whatever workers register, reclaim or report, a working copy that lives *)
(* on a storage stays on it.                                               *)
THEOREM StorageNeverMoves == Spec => StorageIsSticky
<1>1. RecordInv /\ [Next]_vars =>
        \A i \in Issue : wc[i].storage # None => wc'[i].storage = wc[i].storage
  BY StorageStep
<1> QED BY <1>1, RecordInvariant, PTL DEF Spec, StorageIsSticky

(* No handler ever leaves recovery_required, reserves such a copy or moves *)
(* its head.                                                               *)
THEOREM RecoveryNeverEnds == Spec => RecoveryIsTerminal
<1>1. RecordInv /\ [Next]_vars =>
        \A i \in Issue : wc[i].state = "recovery_required" => wc'[i] = wc[i]
  <2> SUFFICES ASSUME RecordInv, [Next]_vars, NEW i \in Issue,
                      wc[i].state = "recovery_required"
               PROVE  wc'[i] = wc[i]
    OBVIOUS
  <2> USE DEF RecordInv
  <2>1. wc[i].active = None
    BY ReservedIsWorkable
  <2>2. ~Begins(i)
    BY DEF Begins, CopyOf
  <2> QED BY <2>1, <2>2, RecordStep DEF Binds, Releases, Rejects, Accepted
<1> QED BY <1>1, RecordInvariant, PTL DEF Spec, RecoveryIsTerminal

-----------------------------------------------------------------------------
(* What one step can do to one task.                                       *)

LEMMA FinalStep ==
  ASSUME TypeOK, [Next]_vars, NEW s \in Session, Final(s)
  PROVE  task'[s] = task[s]
<1> USE DEF Final, FinalStatus, TypeOK
<1>1. CASE UNCHANGED task
  BY <1>1
<1>2. ASSUME NEW i \in Issue, NEW t \in Session, CreateCopySession(i, t)
      PROVE  task'[s] = task[s]
  BY <1>2 DEF CreateCopySession, CanStartSession
<1>3. ASSUME NEW i \in Issue, NEW t \in Session, NEW kind, CreateDetachedSession(i, t, kind)
      PROVE  task'[s] = task[s]
  BY <1>3 DEF CreateDetachedSession, CanStartSession
<1>4. ASSUME NEW w \in Worker, ClaimRuntimeTask(w)
      PROVE  task'[s] = task[s]
  BY <1>4, CandidatesAreLive DEF ClaimRuntimeTask, ClaimTask, Live, LiveStatus
<1>5. ASSUME NEW t \in Session, TaskGoesStale(t) \/ RequestCancel(t) \/ CancelNow(t)
      PROVE  task'[s] = task[s]
  BY <1>5 DEF TaskGoesStale, RequestCancel, CancelNow, Live, LiveStatus
<1>6. ASSUME NEW w \in Worker, NEW t \in Session, MarkRunning(w, t)
      PROVE  task'[s] = task[s]
  BY <1>6 DEF MarkRunning, Accepts
<1>7. ASSUME NEW w \in Worker, NEW t \in Session, NEW r \in Report, FinishTask(w, t, r)
      PROVE  task'[s] = task[s]
  BY <1>7 DEF FinishTask, Accepts
<1>8. CASE Next
  <2>1. ASSUME \/ \E j \in Issue, p \in Project \cup {None}, tasks \in SUBSET Issue :
                   CreateIssue(j, p, tasks)
               \/ \E j \in Issue : CreateIssueTask(j)
               \/ \E j \in Issue : DeleteIssueTask(j)
               \/ \E j \in Issue, p \in Project \cup {None} : UpdateIssueProject(j, p)
               \/ \E w \in Worker : \E offer \in Offers[w] : RegisterWorker(w, offer)
               \/ \E w \in Worker : \E beat \in Beats[w] : Heartbeat(w, beat)
               \/ \E w \in Worker : WorkerFallsSilent(w)
        PROVE  UNCHANGED task
    BY <2>1 DEF CreateIssue, CreateIssueTask, DeleteIssueTask, UpdateIssueProject,
       RegisterWorker, Heartbeat, WorkerFallsSilent
  <2> QED BY <1>1, <1>2, <1>3, <1>4, <1>5, <1>6, <1>7, <1>8, <2>1 DEF Next
<1> QED BY <1>1, <1>8 DEF vars

(* No late report, cancellation or claim rewrites the outcome of a task.   *)
THEOREM OutcomesAreFinal == Spec => FinalIsFinal
<1>1. TypeOK /\ [Next]_vars => \A s \in Session : Final(s) => task'[s] = task[s]
  BY FinalStep
<1> QED BY <1>1, TypeCorrect, PTL DEF Spec, FinalIsFinal

-----------------------------------------------------------------------------
(* Cancellation.                                                           *)

(* What cancellation needs of one task: nothing is published before the    *)
(* task ends, and a task asked to stop can only end as cancelled.          *)
Cancellable(t) ==
  /\ t.source => t.status \in FinalStatus
  /\ t.cancelRequested => t.status \notin {"completed", "failed"} /\ ~t.source
CancelInv == \A s \in Session : Cancellable(task[s])

LEMMA QueuedIsCancellable ==
  ASSUME NEW kind, NEW i, NEW copy
  PROVE  Cancellable(QueuedTask(kind, i, copy))
BY DEF Cancellable, QueuedTask, NoTask

LEMMA FinishedIsCancellable ==
  ASSUME TypeOK, NEW w \in Worker, NEW s \in Session, NEW r \in Report,
         Cancellable(task[s]), Accepts(s, w, EffectiveStatus(s, r.status))
  PROVE  Cancellable(FinishedTask(s, w, EffectiveStatus(s, r.status), r))
<1>1. task[s] \in TaskRecord /\ r \in ReportType
  BY InputAssumption DEF TypeOK
<1>2. EffectiveStatus(s, r.status) \in FinalStatus
  BY <1>1 DEF EffectiveStatus, ReportType, FinalStatus
<1>3. task[s].cancelRequested =>
        /\ EffectiveStatus(s, r.status) = "cancelled"
        /\ ~PublishesSource(s, w, EffectiveStatus(s, r.status), r)
  BY DEF Accepts, PublishesSource
<1> DEFINE status == EffectiveStatus(s, r.status)
           published == PublishesSource(s, w, status, r)
           done == FinishedTask(s, w, status, r)
<1>4. done.status = status /\ done.source = published
      /\ done.cancelRequested = task[s].cancelRequested
  BY <1>1 DEF FinishedTask, TaskRecord
<1> HIDE DEF status, published, done
<1> SUFFICES Cancellable(done)
  BY DEF done, status
<1> QED BY <1>2, <1>3, <1>4 DEF Cancellable, status, published

LEMMA CancelStep == TypeOK /\ CancelInv /\ [Next]_vars => CancelInv'
<1> SUFFICES ASSUME TypeOK, CancelInv, [Next]_vars, NEW s \in Session
             PROVE  Cancellable(task'[s])
  BY DEF CancelInv
<1>0. Cancellable(task[s]) /\ task[s] \in TaskRecord
  BY DEF CancelInv, TypeOK
<1>1. CASE task'[s] = task[s]
  BY <1>0, <1>1
<1>2. ASSUME NEW i \in Issue, NEW t \in Session, CreateCopySession(i, t)
      PROVE  Cancellable(task'[s])
  BY <1>1, <1>2, QueuedIsCancellable DEF CreateCopySession, TypeOK
<1>3. ASSUME NEW i \in Issue, NEW t \in Session, NEW kind, CreateDetachedSession(i, t, kind)
      PROVE  Cancellable(task'[s])
  BY <1>1, <1>3, QueuedIsCancellable DEF CreateDetachedSession, TypeOK
<1>4. ASSUME NEW w \in Worker, ClaimRuntimeTask(w)
      PROVE  Cancellable(task'[s])
  <2>1. PICK t \in Candidates(w) : task' = [task EXCEPT ![t] = ClaimedTask(t, w)]
    BY <1>4 DEF ClaimRuntimeTask, ClaimTask
  <2>2. t \in Session /\ Live(t)
    BY CandidatesAreLive
  <2>3. CASE t = s
    BY <1>0, <2>1, <2>2, <2>3
       DEF ClaimedTask, Cancellable, TaskRecord, TypeOK, Live, LiveStatus, FinalStatus
  <2> QED BY <1>1, <2>1, <2>3 DEF TypeOK
<1>5. ASSUME NEW t \in Session, TaskGoesStale(t) \/ RequestCancel(t) \/ CancelNow(t)
      PROVE  Cancellable(task'[s])
  <2>1. CASE t = s
    <3>1. task'[s] \in {[task[s] EXCEPT !.stale = TRUE],
                        [task[s] EXCEPT !.cancelRequested = TRUE, !.stale = FALSE],
                        [task[s] EXCEPT !.status = "cancelled"]}
      BY <1>5, <2>1 DEF TaskGoesStale, RequestCancel, CancelNow, TypeOK
    <3>2. task[s].status \in {"queued", "claimed", "running"}
      BY <1>5, <2>1 DEF TaskGoesStale, RequestCancel, CancelNow, Live, LiveStatus
    <3>3. ~task[s].source
      BY <1>0, <3>2 DEF Cancellable, FinalStatus
    <3> QED BY <1>0, <3>1, <3>2, <3>3 DEF Cancellable, TaskRecord, FinalStatus
  <2>2. CASE t # s
    BY <1>1, <1>5, <2>2 DEF TaskGoesStale, RequestCancel, CancelNow, TypeOK
  <2> QED BY <2>1, <2>2
<1>6. ASSUME NEW w \in Worker, NEW t \in Session, MarkRunning(w, t)
      PROVE  Cancellable(task'[s])
  BY <1>0, <1>6 DEF MarkRunning, Accepts, Cancellable, TaskRecord, TypeOK, FinalStatus
<1>7. ASSUME NEW w \in Worker, NEW t \in Session, NEW r \in Report, FinishTask(w, t, r)
      PROVE  Cancellable(task'[s])
  <2> DEFINE done == FinishedTask(t, w, EffectiveStatus(t, r.status), r)
  <2>1. Cancellable(done)
    BY <1>7, FinishedIsCancellable DEF FinishTask, CancelInv
  <2>2. \A d, i : Cancellable(QueuedTask(d, i, NoCopy))
    BY QueuedIsCancellable
  <2> HIDE DEF done
  <2>3. \/ task' = [task EXCEPT ![t] = done]
        \/ \E d \in Session : task' = [[task EXCEPT ![t] = done] EXCEPT ![d] =
                                         QueuedTask("automation", task[t].issue, NoCopy)]
    BY <1>7 DEF FinishTask, done
  <2> QED BY <1>0, <2>1, <2>2, <2>3 DEF TypeOK
<1>8. CASE Next
  <2>1. ASSUME \/ \E j \in Issue, p \in Project \cup {None}, tasks \in SUBSET Issue :
                   CreateIssue(j, p, tasks)
               \/ \E j \in Issue : CreateIssueTask(j)
               \/ \E j \in Issue : DeleteIssueTask(j)
               \/ \E j \in Issue, p \in Project \cup {None} : UpdateIssueProject(j, p)
               \/ \E w \in Worker : \E offer \in Offers[w] : RegisterWorker(w, offer)
               \/ \E w \in Worker : \E beat \in Beats[w] : Heartbeat(w, beat)
               \/ \E w \in Worker : WorkerFallsSilent(w)
        PROVE  task'[s] = task[s]
    BY <2>1 DEF CreateIssue, CreateIssueTask, DeleteIssueTask, UpdateIssueProject,
       RegisterWorker, Heartbeat, WorkerFallsSilent
  <2> QED BY <1>1, <1>2, <1>3, <1>4, <1>5, <1>6, <1>7, <1>8, <2>1 DEF Next
<1> QED BY <1>1, <1>8 DEF vars

(* Once a session was asked to stop it can only end as cancelled and       *)
(* publishes no source commit.                                             *)
THEOREM CancellationIsHonoured == Spec => []CancelHonoured
<1>1. Init => CancelInv
  BY DEF Init, CancelInv, Cancellable, NoTask
<1>2. CancelInv => CancelHonoured
  BY DEF CancelInv, Cancellable, CancelHonoured
<1> QED BY <1>1, <1>2, CancelStep, TypeCorrect, PTL DEF Spec
-----------------------------------------------------------------------------
(***************************************************************************)
(* The past of a working copy.  Generations and heads are properties of    *)
(* the tasks that have ended, so they need an invariant that speaks of all *)
(* of them: how many have ended, that each generation was handed out once, *)
(* that each turn starts from the head the previous one left, and what the *)
(* record keeps of the last one.                                           *)
(***************************************************************************)

Ended(s) == IsCopyTask(s) /\ Final(s)
EndedOf(i) == {s \in CopyTasks(i) : Final(s)}

(* The record after the turn of s, until the next turn ends.               *)
RemembersTurn(s) ==
  LET c == wc[task[s].issue] IN
  /\ task[s].gen < c.gen
  /\ c.gen = task[s].gen + 1 =>
       c.head = IF c.state = "recovery_required" THEN task[s].head ELSE HeadAfter(s)

PublishedRightly(s) ==
  LET c == wc[task[s].issue] IN
  /\ Final(s)
  /\ \/ c.gen > task[s].gen + 1
     \/ c.state # "recovery_required" /\ c.head = task[s].reported

TaskPast(s) ==
  /\ task[s].status = "queued" => task[s].claimedBy = None
  /\ IsCopyTask(s) /\ task[s].gen = 0 => task[s].head = None
  /\ Ended(s) => RemembersTurn(s)
  /\ IsCopyTask(s) /\ task[s].source => PublishedRightly(s)

TurnOrder(s, t) ==
  IsCopyTask(s) /\ IsCopyTask(t) /\ task[s].issue = task[t].issue /\ s # t =>
    /\ task[s].gen # task[t].gen
    /\ task[t].gen = task[s].gen + 1 => Ended(s) /\ task[t].head = HeadAfter(s)

CopyPast(i) ==
  /\ Cardinality(EndedOf(i)) = wc[i].gen
  /\ wc[i].gen = 0 => wc[i].head = None

Past ==
  /\ \A i \in Issue : CopyPast(i)
  /\ \A s \in Session : TaskPast(s)
  /\ \A s, t \in Session : TurnOrder(s, t)

(* What a step leaves of one record and of one task that takes no turn.    *)
RecordStays(i) ==
  /\ wc'[i].gen = wc[i].gen /\ wc'[i].head = wc[i].head
  /\ wc'[i].state = "recovery_required" <=> wc[i].state = "recovery_required"
TaskStays(s) ==
  /\ task'[s].status = "queued" => task'[s].claimedBy = None
  /\ IsCopyTask(s)' <=> IsCopyTask(s)
  /\ Ended(s)' <=> Ended(s)
  /\ IsCopyTask(s) => /\ task'[s].issue = task[s].issue /\ task'[s].gen = task[s].gen
                      /\ task'[s].head = task[s].head /\ task'[s].source = task[s].source
  /\ Ended(s) => task'[s] = task[s]

LEMMA EndedIsCopy ==
  ASSUME TypeOK, NEW s \in Session, IsCopyTask(s)
  PROVE  /\ task[s] \in TaskRecord /\ task[s].issue \in Issue /\ task[s].gen \in Nat
         /\ wc[task[s].issue] \in CopyRecord /\ wc[task[s].issue].gen \in Nat
         /\ Ended(s) <=> ~Live(s)
BY DEF TypeOK, IsCopyTask, TaskRecord, CopyRecord, Ended, Final, Live, LiveStatus, FinalStatus

(* A live turn is the record's current one, an ended one an earlier one.   *)
LEMMA LiveIsCurrent ==
  ASSUME RecordInv, NEW s \in Session, LiveCopyTask(s)
  PROVE  /\ task[s].issue \in Issue /\ wc[task[s].issue].active = s
         /\ wc[task[s].issue].gen = task[s].gen /\ wc[task[s].issue].head = task[s].head
         /\ wc[task[s].issue].state # "recovery_required"
<1>1. ReservationExact
  BY ReservationIsConsistency DEF RecordInv
<1>2. task[s].issue \in Issue
  BY DEF RecordInv, TypeOK, LiveCopyTask, IsCopyTask
<1> QED BY <1>1, <1>2 DEF ReservationExact

LEMMA PastKept ==
  ASSUME RecordInv, Past, \A i \in Issue : RecordStays(i), \A s \in Session : TaskStays(s)
  PROVE  Past'
<1> USE DEF RecordInv
<1>1. ASSUME NEW i \in Issue PROVE CopyPast(i)'
  <2>1. EndedOf(i)' = EndedOf(i)
    BY DEF EndedOf, CopyTasks, TaskStays, Ended
  <2> QED BY <2>1 DEF Past, CopyPast, RecordStays
<1>2. ASSUME NEW s \in Session PROVE TaskPast(s)'
  <2>1. CASE ~IsCopyTask(s)
    BY <2>1 DEF TaskStays, TaskPast, Ended
  <2>2. CASE IsCopyTask(s)
    <3>1. task[s].issue \in Issue
      BY <2>2, EndedIsCopy
    <3>2. TaskPast(s) /\ TaskStays(s) /\ RecordStays(task[s].issue)
      BY <3>1 DEF Past
    <3>3. Ended(s) => RemembersTurn(s)'
      BY <2>2, <3>2 DEF TaskPast, TaskStays, RecordStays, RemembersTurn, HeadAfter
    <3>4. task'[s].source => PublishedRightly(s)'
      BY <2>2, <3>2 DEF TaskPast, TaskStays, RecordStays, PublishedRightly, Ended, Final
    <3> QED BY <2>2, <3>2, <3>3, <3>4 DEF TaskPast, TaskStays
  <2> QED BY <2>1, <2>2
<1>3. ASSUME NEW s \in Session, NEW t \in Session PROVE TurnOrder(s, t)'
  BY DEF Past, TurnOrder, TaskStays, HeadAfter
<1> QED BY <1>1, <1>2, <1>3 DEF Past

(* The record a reservation starts from keeps what the issue's record says, *)
(* or is the blank one of an issue that has none yet.                      *)
LEMMA CopyOfKeeps ==
  ASSUME TypeOK, AbsentIsBlank, NEW i \in Issue
  PROVE  /\ CopyOf(i).active = wc[i].active
         /\ CopyOf(i).gen = wc[i].gen
         /\ CopyOf(i).head = wc[i].head
         /\ CopyOf(i).state = "recovery_required" => wc[i].state = "recovery_required"
         /\ wc[i].state = "recovery_required" => CopyOf(i).state = "recovery_required"
<1>1. CASE wc[i].state = "absent"
  BY <1>1 DEF CopyOf, AbsentIsBlank, NoCopy
<1>2. CASE wc[i].state # "absent"
  BY <1>2 DEF CopyOf
<1> QED BY <1>1, <1>2

(* A new turn takes the record's generation and head.                      *)
LEMMA PastBegun ==
  ASSUME RecordInv, Past, NEW i \in Issue, NEW s \in Session, CreateCopySession(i, s)
  PROVE  Past'
<1> DEFINE copy == CopyOf(i)
           queued == QueuedTask("copy", i, copy)
<1> USE DEF RecordInv
<1>1. /\ copy.active = wc[i].active /\ copy.gen = wc[i].gen /\ copy.head = wc[i].head
      /\ copy.state = "recovery_required" => wc[i].state = "recovery_required"
      /\ wc[i].state = "recovery_required" => copy.state = "recovery_required"
  BY CopyOfKeeps
<1>2. wc[i].active = None /\ wc[i].state # "recovery_required"
  BY <1>1 DEF CreateCopySession, Reservable
<1>3. /\ queued.status = "queued" /\ queued.kind = "copy" /\ queued.issue = i
      /\ queued.gen = wc[i].gen /\ queued.head = wc[i].head
      /\ queued.claimedBy = None /\ queued.source = FALSE
  BY <1>1 DEF QueuedTask, NoTask
<1>4. /\ task'[s] = queued /\ task[s].status = "absent"
      /\ \A t \in Session \ {s} : task'[t] = task[t]
  BY DEF CreateCopySession, CanStartSession, TypeOK
<1> HIDE DEF queued
<1>5. \A j \in Issue : RecordStays(j)
  BY <1>1 DEF CreateCopySession, RecordStays, TypeOK, CopyRecord
<1>6. /\ IsCopyTask(s)' /\ ~Ended(s)' /\ ~IsCopyTask(s)
      /\ \A t \in Session \ {s} : IsCopyTask(t)' = IsCopyTask(t) /\ Ended(t)' = Ended(t)
  BY <1>3, <1>4 DEF IsCopyTask, Ended, Final, FinalStatus
<1>7. ASSUME NEW t \in Session, IsCopyTask(t), task[t].issue = i
      PROVE  Ended(t)
  BY <1>2, <1>7, EndedIsCopy, LiveIsCurrent, NoneAssumption DEF LiveCopyTask
<1>8. ASSUME NEW j \in Issue PROVE CopyPast(j)'
  <2>1. EndedOf(j)' = EndedOf(j)
    BY <1>4, <1>6 DEF EndedOf, CopyTasks, Ended
  <2> QED BY <1>5, <2>1 DEF Past, CopyPast, RecordStays
<1>9. ASSUME NEW t \in Session \ {s} PROVE TaskPast(t)'
  <2>1. CASE ~IsCopyTask(t)
    BY <1>4, <1>6, <2>1 DEF Past, TaskPast, Ended
  <2>2. CASE IsCopyTask(t)
    <3>1. RecordStays(task[t].issue) /\ TaskPast(t)
      BY <1>5, <2>2, EndedIsCopy DEF Past
    <3> QED BY <1>4, <1>6, <2>2, <3>1
            DEF TaskPast, RecordStays, RemembersTurn, PublishedRightly, HeadAfter, Final
  <2> QED BY <2>1, <2>2
<1>10. TaskPast(s)'
  <2>1. wc[i].gen = 0 => wc[i].head = None
    BY DEF Past, CopyPast
  <2> QED BY <1>3, <1>4, <1>6, <2>1 DEF TaskPast
<1>11. ASSUME NEW t \in Session \ {s}, IsCopyTask(t), task[t].issue = i
       PROVE  TurnOrder(s, t)' /\ TurnOrder(t, s)'
  <2>1. Ended(t) /\ RemembersTurn(t) /\ task[t].gen \in Nat /\ wc[i].gen \in Nat
    BY <1>7, <1>11, EndedIsCopy DEF Past, TaskPast
  <2>2. HeadAfter(t)' = HeadAfter(t)
    BY <1>4 DEF HeadAfter
  <2> QED BY <1>2, <1>3, <1>4, <1>6, <1>11, <2>1, <2>2 DEF TurnOrder, RemembersTurn
<1>12. ASSUME NEW t \in Session, NEW u \in Session PROVE TurnOrder(t, u)'
  <2>1. CASE t # s /\ u # s
    BY <1>4, <1>6, <2>1 DEF Past, TurnOrder, HeadAfter
  <2>2. CASE t = s \/ u = s
    BY <1>3, <1>4, <1>6, <1>11, <2>2 DEF TurnOrder
  <2> QED BY <2>1, <2>2
<1> QED BY <1>8, <1>9, <1>10, <1>12 DEF Past

(* A turn ends: its generation is spent, and the record keeps the head it  *)
(* left, or the one it was given if its report was rejected.               *)
LEMMA PastEnded ==
  ASSUME RecordInv, Past, NEW s \in Session, LiveCopyTask(s), NEW i \in Issue,
         i = task[s].issue,
         wc'[i].gen = wc[i].gen + 1, \A j \in Issue \ {i} : wc'[j] = wc[j],
         Ended(s)', task'[s].issue = i, task'[s].gen = task[s].gen,
         task'[s].head = task[s].head,
         wc'[i].head = IF wc'[i].state = "recovery_required"
                       THEN task'[s].head ELSE HeadAfter(s)',
         task'[s].source => wc'[i].state # "recovery_required" /\ wc'[i].head = task'[s].reported,
         \A t \in Session \ {s} : TaskStays(t)
  PROVE  Past'
<1> USE DEF RecordInv
<1>1. /\ IsCopyTask(s) /\ task[s].gen = wc[i].gen /\ wc[i].gen \in Nat /\ ~Ended(s)
      /\ wc[i].head = task[s].head
  BY LiveIsCurrent, EndedIsCopy DEF LiveCopyTask
<1>2. IsCopyTask(s)' /\ Final(s)'
  BY DEF Ended
<1>3. CopyPast(i)'
  <2>1. EndedOf(i)' = EndedOf(i) \cup {s} /\ s \notin EndedOf(i)
    BY <1>1 DEF EndedOf, CopyTasks, TaskStays, Ended
  <2>2. IsFiniteSet(EndedOf(i))
    BY FiniteAssumption, FS_Subset DEF EndedOf, CopyTasks
  <2>3. Cardinality(EndedOf(i)') = Cardinality(EndedOf(i)) + 1
    BY <2>1, <2>2, FS_AddElement
  <2>4. Cardinality(EndedOf(i)) = wc[i].gen
    BY DEF Past, CopyPast
  <2>5. Cardinality(EndedOf(i))' = wc'[i].gen
    BY <2>3, <2>4
  <2> QED BY <1>1, <2>5 DEF CopyPast
<1>4. ASSUME NEW j \in Issue \ {i} PROVE CopyPast(j)'
  <2>1. EndedOf(j)' = EndedOf(j)
    BY <1>1 DEF EndedOf, CopyTasks, TaskStays, Ended
  <2> QED BY <2>1 DEF Past, CopyPast
<1>5. TaskPast(s)'
  <2>1. task[s].gen = 0 => task[s].head = None
    BY <1>1 DEF Past, TaskPast
  <2>2. task'[s].status # "queued"
    BY <1>2 DEF Final, FinalStatus
  <2>3. RemembersTurn(s)'
    BY <1>1 DEF RemembersTurn
  <2>4. task'[s].source => PublishedRightly(s)'
    BY <1>2 DEF PublishedRightly
  <2> QED BY <2>1, <2>2, <2>3, <2>4 DEF TaskPast
<1>6. ASSUME NEW t \in Session \ {s} PROVE TaskPast(t)'
  <2>1. CASE ~IsCopyTask(t)
    BY <2>1 DEF TaskStays, TaskPast, Ended
  <2>2. CASE IsCopyTask(t) /\ task[t].issue # i
    <3>1. wc'[task[t].issue] = wc[task[t].issue] /\ TaskPast(t) /\ TaskStays(t)
      BY <2>2, EndedIsCopy DEF Past
    <3>2. Ended(t) => RemembersTurn(t)'
      BY <2>2, <3>1 DEF TaskPast, TaskStays, RemembersTurn, HeadAfter
    <3>3. task'[t].source => PublishedRightly(t)'
      BY <2>2, <3>1 DEF TaskPast, TaskStays, PublishedRightly, Ended, Final
    <3> QED BY <2>2, <3>1, <3>2, <3>3 DEF TaskPast, TaskStays
  <2>3. CASE IsCopyTask(t) /\ task[t].issue = i
    <3>1. Ended(t)
      BY <2>3, EndedIsCopy, LiveIsCurrent DEF LiveCopyTask
    <3>2. TaskPast(t) /\ RemembersTurn(t) /\ TaskStays(t) /\ task[t].gen \in Nat
      BY <2>3, <3>1, EndedIsCopy DEF Past, TaskPast
    <3>3. task'[t] = task[t] /\ wc'[i].gen > task[t].gen + 1
      BY <1>1, <2>3, <3>1, <3>2 DEF TaskStays, RemembersTurn
    <3>4. RemembersTurn(t)' /\ PublishedRightly(t)'
      BY <1>1, <2>3, <3>1, <3>2, <3>3
         DEF RemembersTurn, PublishedRightly, Ended, Final
    <3> QED BY <2>3, <3>2, <3>4 DEF TaskPast, TaskStays
  <2> QED BY <2>1, <2>2, <2>3
<1>7. ASSUME NEW t \in Session, NEW u \in Session PROVE TurnOrder(t, u)'
  <2> SUFFICES ASSUME IsCopyTask(t)', IsCopyTask(u)', task'[t].issue = task'[u].issue, t # u
               PROVE  /\ task'[t].gen # task'[u].gen
                      /\ task'[u].gen = task'[t].gen + 1 =>
                           Ended(t)' /\ task'[u].head = HeadAfter(t)'
    BY DEF TurnOrder
  <2>1. \A x \in {t, u} : /\ IsCopyTask(x) /\ task'[x].issue = task[x].issue
                          /\ task'[x].gen = task[x].gen /\ task'[x].head = task[x].head
    BY <1>1 DEF TaskStays
  <2>2. TurnOrder(t, u)
    BY DEF Past
  <2>3. CASE t # s
    <3>1. Ended(t) => Ended(t)' /\ HeadAfter(t)' = HeadAfter(t)
      BY <2>3 DEF TaskStays, HeadAfter
    <3> QED BY <2>1, <2>2, <3>1 DEF TurnOrder
  <2>4. CASE t = s
    <3>1. task[u].gen # task[s].gen + 1
      BY <1>1, <2>1, <2>2, <2>4 DEF TurnOrder
    <3> QED BY <2>1, <2>2, <2>4, <3>1 DEF TurnOrder
  <2> QED BY <2>3, <2>4
<1> QED BY <1>3, <1>4, <1>5, <1>6, <1>7 DEF Past

(* Tasks that a step replaces by one that takes no turn.                   *)
LEMMA PastTaskUpdate ==
  ASSUME RecordInv, Past, NEW s \in Session,
         \/ \E i \in Issue, kind \in Kinds \ {"copy"} : CreateDetachedSession(i, s, kind)
         \/ TaskGoesStale(s) \/ RequestCancel(s)
         \/ \E w \in Worker : MarkRunning(w, s)
  PROVE  Past'
<1> USE DEF RecordInv
<1>1. \A i \in Issue : RecordStays(i)
  BY DEF RecordStays, CreateDetachedSession, TaskGoesStale, RequestCancel, MarkRunning
<1>2. \A t \in Session \ {s} : task'[t] = task[t]
  BY DEF CreateDetachedSession, TaskGoesStale, RequestCancel, MarkRunning, TypeOK
<1>3. \A t \in Session \ {s} : TaskStays(t)
  BY <1>2 DEF TaskStays, Past, TaskPast, IsCopyTask, Ended, Final
<1>4. ASSUME NEW i \in Issue, NEW kind \in Kinds \ {"copy"}, CreateDetachedSession(i, s, kind)
      PROVE  TaskStays(s)
  <2>1. task[s].status = "absent" /\ task'[s] = QueuedTask(kind, i, NoCopy)
    BY <1>4 DEF CreateDetachedSession, CanStartSession, TypeOK
  <2>2. task'[s].kind # "copy" /\ task'[s].claimedBy = None
    BY <2>1 DEF QueuedTask, NoTask
  <2> QED BY <2>1, <2>2 DEF TaskStays, IsCopyTask, Ended
<1>5. ASSUME TaskGoesStale(s) \/ RequestCancel(s) \/ \E w \in Worker : MarkRunning(w, s)
      PROVE  TaskStays(s)
  <2>1. /\ task[s] \in TaskRecord /\ task[s].status \in {"claimed", "running"}
        /\ task'[s] \in {[task[s] EXCEPT !.stale = TRUE],
                         [task[s] EXCEPT !.cancelRequested = TRUE, !.stale = FALSE],
                         [task[s] EXCEPT !.status = "running", !.stale = FALSE]}
    BY <1>5 DEF TaskGoesStale, RequestCancel, MarkRunning, Accepts, TypeOK
  <2>2. /\ task'[s].status \in {"claimed", "running"} /\ task'[s].kind = task[s].kind
        /\ task'[s].issue = task[s].issue /\ task'[s].gen = task[s].gen
        /\ task'[s].head = task[s].head /\ task'[s].source = task[s].source
    BY <2>1 DEF TaskRecord
  <2> QED BY <2>1, <2>2 DEF TaskStays, IsCopyTask, Ended, Final, FinalStatus
<1> QED BY <1>1, <1>3, <1>4, <1>5, PastKept

LEMMA PastClaim ==
  ASSUME RecordInv, Past, NEW w \in Worker, ClaimRuntimeTask(w)
  PROVE  Past'
<1> USE DEF RecordInv
<1>1. PICK s \in Candidates(w) :
        /\ task' = [task EXCEPT ![s] = ClaimedTask(s, w)]
        /\ wc' = IF IsCopyTask(s) /\ wc[task[s].issue].storage = None
                 THEN [wc EXCEPT ![task[s].issue].storage = worker[w].storage]
                 ELSE wc
  BY DEF ClaimRuntimeTask, ClaimTask
<1>2. s \in Session /\ task[s].status \in LiveStatus /\ task[s] \in TaskRecord
  BY CandidatesAreLive DEF Live, TypeOK
<1>3. \A i \in Issue : RecordStays(i)
  BY <1>1 DEF RecordStays, TypeOK, CopyRecord
<1>4. /\ task'[s] = ClaimedTask(s, w)
      /\ \A t \in Session \ {s} : task'[t] = task[t]
  BY <1>1, <1>2 DEF TypeOK
<1>5. \A t \in Session \ {s} : TaskStays(t)
  BY <1>4 DEF TaskStays, Past, TaskPast, IsCopyTask, Ended, Final
<1>6. /\ task'[s].status = "claimed" /\ task'[s].kind = task[s].kind
      /\ task'[s].issue = task[s].issue /\ task'[s].gen = task[s].gen
      /\ task'[s].head = task[s].head /\ task'[s].source = task[s].source
  BY <1>2, <1>4 DEF ClaimedTask, TaskRecord
<1>7. TaskStays(s)
  BY <1>2, <1>6 DEF TaskStays, IsCopyTask, Ended, Final, FinalStatus, LiveStatus
<1> QED BY <1>3, <1>5, <1>7, PastKept

LEMMA PastCancel ==
  ASSUME RecordInv, CancelInv, Past, NEW s \in Session, CancelNow(s)
  PROVE  Past'
<1> USE DEF RecordInv
<1>1. /\ task[s] \in TaskRecord /\ task'[s] = [task[s] EXCEPT !.status = "cancelled"]
      /\ Live(s) /\ \A t \in Session \ {s} : task'[t] = task[t]
  BY DEF CancelNow, TypeOK
<1>2. \A t \in Session \ {s} : TaskStays(t)
  BY <1>1 DEF TaskStays, Past, TaskPast, IsCopyTask, Ended, Final
<1>3. CASE LiveCopyTask(s)
  <2> DEFINE i == task[s].issue
  <2>1. /\ i \in Issue /\ wc[i].active = s /\ wc[i].gen = task[s].gen
        /\ wc[i].head = task[s].head /\ wc[i].state # "recovery_required"
        /\ IsCopyTask(s)
    BY <1>3, LiveIsCurrent DEF LiveCopyTask
  <2>2. wc' = [wc EXCEPT ![i] = Released(wc[i])]
    BY <2>1 DEF CancelNow, Holds
  <2>3. /\ wc'[i].gen = wc[i].gen + 1 /\ wc'[i].head = wc[i].head
        /\ wc'[i].state = wc[i].state /\ \A j \in Issue \ {i} : wc'[j] = wc[j]
    BY <2>1, <2>2 DEF Released, TypeOK, CopyRecord
  <2>4. task[s].status = "queued" /\ task[s].claimedBy = None /\ ~task[s].source
    BY <1>1, <2>1 DEF CancelNow, Past, TaskPast, CancelInv, Cancellable, FinalStatus
  <2>5. /\ task'[s].status = "cancelled" /\ task'[s].kind = task[s].kind
        /\ task'[s].issue = i /\ task'[s].gen = task[s].gen /\ task'[s].head = task[s].head
        /\ task'[s].claimedBy = None /\ ~task'[s].source
    BY <1>1, <2>4 DEF TaskRecord
  <2>6. Ended(s)' /\ HeadAfter(s)' = task'[s].head
    BY <2>1, <2>5 DEF Ended, IsCopyTask, Final, FinalStatus, HeadAfter
  <2> HIDE DEF i
  <2> QED BY <1>2, <1>3, <2>1, <2>3, <2>5, <2>6, PastEnded DEF i
<1>4. CASE ~LiveCopyTask(s)
  <2>1. ~IsCopyTask(s) /\ task'[s].status = "cancelled" /\ task'[s].kind = task[s].kind
    BY <1>1, <1>4 DEF LiveCopyTask, TaskRecord
  <2>2. TaskStays(s)
    BY <1>1, <2>1 DEF TaskStays, IsCopyTask, Ended, Live, LiveStatus
  <2>3. wc' = wc
    BY <2>1 DEF CancelNow, Holds
  <2> QED BY <1>2, <2>2, <2>3, PastKept DEF RecordStays
<1> QED BY <1>3, <1>4

LEMMA PastFinish ==
  ASSUME RecordInv, Past, NEW w \in Worker, NEW s \in Session, NEW r \in Report,
         FinishTask(w, s, r)
  PROVE  Past'
<1> USE DEF RecordInv
<1> DEFINE status == EffectiveStatus(s, r.status)
           done == FinishedTask(s, w, status, r)
           deploy == QueuedTask("automation", task[s].issue, NoCopy)
           i == task[s].issue
           reason == RecoveryReason(s, w, status, r)
<1>1. /\ task[s] \in TaskRecord /\ r \in ReportType /\ status \in FinalStatus
      /\ task[s].claimedBy = w /\ Live(s)
  BY InputAssumption
     DEF FinishTask, Accepts, TypeOK, EffectiveStatus, ReportType, FinalStatus, Live, LiveStatus
<1>2. /\ done.status = status /\ done.kind = task[s].kind /\ done.issue = i
      /\ done.gen = task[s].gen /\ done.head = task[s].head /\ done.claimedBy = w
      /\ done.source = PublishesSource(s, w, status, r)
      /\ done.reported = IF IsCopyTask(s) /\ EnvelopeOK(r) THEN r.head ELSE None
  BY <1>1 DEF FinishedTask, TaskRecord
<1>3. deploy.kind = "automation" /\ deploy.claimedBy = None
  BY DEF QueuedTask, NoTask
<1>4. \/ task' = [task EXCEPT ![s] = done]
      \/ \E d \in Session : /\ task[d].status = "absent"
                            /\ task' = [[task EXCEPT ![s] = done] EXCEPT ![d] = deploy]
  BY DEF FinishTask
<1>5. /\ Holds(s) => wc' = [wc EXCEPT ![i] = Reconciled(s, w, status, r)]
      /\ ~Holds(s) => wc' = wc
  BY DEF FinishTask
<1>6. PublishesSource(s, w, status, r) /\ IsCopyTask(s) => reason = None
  BY DEF PublishesSource, Applied
<1>7. w # None
  BY NoneAssumption
<1> HIDE DEF done, deploy
<1>8. task'[s] = done
  <2>1. task[s].status # "absent"
    BY <1>1 DEF Live, LiveStatus
  <2> QED BY <1>4, <2>1 DEF TypeOK
<1>9. \A t \in Session \ {s} : \/ task'[t] = task[t]
                               \/ task[t].status = "absent" /\ task'[t] = deploy
  BY <1>4 DEF TypeOK
<1>10. \A t \in Session \ {s} : TaskStays(t)
  BY <1>3, <1>9 DEF TaskStays, Past, TaskPast, IsCopyTask, Ended, Final
<1>11. CASE LiveCopyTask(s)
  <2>1. /\ i \in Issue /\ wc[i] \in CopyRecord /\ wc[i].active = s
        /\ wc[i].gen = task[s].gen /\ wc[i].head = task[s].head /\ IsCopyTask(s)
    BY <1>11, LiveIsCurrent DEF LiveCopyTask, TypeOK
  <2>2. /\ wc'[i] = Reconciled(s, w, status, r)
        /\ \A j \in Issue \ {i} : wc'[j] = wc[j]
    BY <1>5, <2>1 DEF Holds, TypeOK
  <2>3. Ended(s)' /\ HeadAfter(s)' = done.reported
    BY <1>1, <1>2, <1>7, <1>8, <2>1 DEF Ended, IsCopyTask, Final, FinalStatus, HeadAfter
  <2>4. CASE reason = None
    <3>1. EnvelopeOK(r) /\ r.state # "recovery_required"
      BY <2>4, NoneAssumption DEF RecoveryReason, RecoveryReasons, EnvelopeOK
    <3>2. wc'[i] = WithReport(wc[i], r)
      BY <2>2, <2>4 DEF Reconciled
    <3>3. wc'[i].gen = wc[i].gen + 1 /\ wc'[i].head = r.head /\ wc'[i].state = r.state
      BY <2>1, <3>2 DEF WithReport, Released, CopyRecord
    <3>4. done.reported = r.head
      BY <1>2, <2>1, <3>1
    <3> HIDE DEF i, status, reason
    <3> QED BY <1>2, <1>8, <1>10, <1>11, <2>1, <2>2, <2>3, <3>1, <3>3, <3>4, PastEnded DEF i
  <2>5. CASE reason # None
    <3>1. wc'[i] = NeedsRecovery(wc[i], reason)
      BY <2>2, <2>5 DEF Reconciled
    <3>2. /\ wc'[i].gen = wc[i].gen + 1 /\ wc'[i].head = wc[i].head
          /\ wc'[i].state = "recovery_required"
      BY <2>1, <3>1 DEF NeedsRecovery, Released, CopyRecord
    <3>3. ~task'[s].source
      BY <1>2, <1>6, <1>8, <2>1, <2>5
    <3> HIDE DEF i, status, reason
    <3> QED BY <1>2, <1>8, <1>10, <1>11, <2>1, <2>2, <2>3, <3>2, <3>3, PastEnded DEF i
  <2> QED BY <2>4, <2>5
<1>12. CASE ~LiveCopyTask(s)
  <2>1. ~IsCopyTask(s)
    BY <1>1, <1>12 DEF LiveCopyTask
  <2>2. task[s].kind # "copy"
    BY <1>1, <2>1 DEF IsCopyTask, Live, LiveStatus
  <2>3. TaskStays(s)
    BY <1>1, <1>2, <1>8, <2>1, <2>2 DEF TaskStays, IsCopyTask, Ended, FinalStatus
  <2>4. wc' = wc
    BY <1>5, <2>1 DEF Holds
  <2> QED BY <1>10, <2>3, <2>4, PastKept DEF RecordStays
<1> QED BY <1>11, <1>12

LEMMA PastInit == Init => Past
<1> SUFFICES ASSUME Init PROVE Past
  OBVIOUS
<1>1. \A s \in Session : task[s] = NoTask
  BY DEF Init
<1>2. \A i \in Issue : EndedOf(i) = {}
  BY <1>1 DEF EndedOf, CopyTasks, IsCopyTask, NoTask
<1>3. \A i \in Issue : CopyPast(i)
  BY <1>2, FS_EmptySet DEF CopyPast, Init, NoCopy
<1> QED BY <1>1, <1>3 DEF Past, TaskPast, TurnOrder, Ended, IsCopyTask, NoTask

LEMMA PastStep == RecordInv /\ CancelInv /\ Past /\ [Next]_vars => Past'
<1> SUFFICES ASSUME RecordInv, CancelInv, Past, [Next]_vars PROVE Past'
  OBVIOUS
<1>1. CASE UNCHANGED <<wc, task>>
  <2>1. \A i \in Issue : RecordStays(i)
    BY <1>1 DEF RecordStays
  <2>2. \A s \in Session : TaskStays(s)
    BY <1>1 DEF TaskStays, Past, TaskPast, IsCopyTask, Ended, Final
  <2> QED BY <2>1, <2>2, PastKept
<1>2. CASE Next
  <2>1. ASSUME \/ \E j \in Issue, p \in Project \cup {None}, tasks \in SUBSET Issue :
                   CreateIssue(j, p, tasks)
               \/ \E j \in Issue : CreateIssueTask(j)
               \/ \E j \in Issue : DeleteIssueTask(j)
               \/ \E j \in Issue, p \in Project \cup {None} : UpdateIssueProject(j, p)
               \/ \E w \in Worker : \E offer \in Offers[w] : RegisterWorker(w, offer)
               \/ \E w \in Worker : \E beat \in Beats[w] : Heartbeat(w, beat)
               \/ \E w \in Worker : WorkerFallsSilent(w)
        PROVE  UNCHANGED <<wc, task>>
    BY <2>1 DEF CreateIssue, CreateIssueTask, DeleteIssueTask, UpdateIssueProject,
       RegisterWorker, Heartbeat, WorkerFallsSilent
  <2> QED BY <1>1, <1>2, <2>1, PastBegun, PastTaskUpdate, PastClaim, PastCancel, PastFinish
          DEF Next
<1> QED BY <1>1, <1>2 DEF vars

LEMMA PastInvariant == Spec => [](RecordInv /\ Past)
<1>1. Init => Past /\ CancelInv
  BY PastInit DEF Init, CancelInv, Cancellable, NoTask
<1>2. RecordInv /\ CancelInv /\ Past /\ [Next]_vars => (CancelInv /\ Past)'
  BY PastStep, CancelStep DEF RecordInv
<1> QED BY <1>1, <1>2, RecordInvariant, PTL DEF Spec

(* However sessions end, the generation of a working copy is the number of *)
(* sessions that have had it, and no two were given the same one.          *)
THEOREM GenerationsCountTurns == Spec => []GenerationCountsTurns
<1>1. Past => GenerationCountsTurns
  BY DEF Past, CopyPast, EndedOf, TurnOrder, CopyTasks, GenerationCountsTurns
<1> QED BY <1>1, PastInvariant, PTL

(* Every turn starts from the head the previous one left; a rejected       *)
(* report moves the record's head nowhere.                                 *)
THEOREM HistoryIsLinear == Spec => []LinearHistory
<1>1. RecordInv /\ Past => LinearHistory
  <2> SUFFICES ASSUME RecordInv, Past, NEW i \in Issue
               PROVE  /\ \A s, t \in CopyTasks(i) :
                           task[t].gen = task[s].gen + 1 => task[t].head = HeadAfter(s)
                      /\ \A s \in CopyTasks(i) :
                           /\ task[s].gen = 0 => task[s].head = None
                           /\ Final(s) /\ wc[i].gen = task[s].gen + 1 =>
                                wc[i].head = IF wc[i].state = "recovery_required"
                                             THEN task[s].head ELSE HeadAfter(s)
    BY DEF LinearHistory
  <2>1. ASSUME NEW s \in CopyTasks(i), NEW t \in CopyTasks(i), task[t].gen = task[s].gen + 1
        PROVE  task[t].head = HeadAfter(s)
    <3>1. task[s].gen \in Nat
      BY EndedIsCopy DEF CopyTasks, RecordInv
    <3>2. s # t
      BY <2>1, <3>1
    <3> QED BY <2>1, <3>2 DEF Past, TurnOrder, CopyTasks
  <2>2. ASSUME NEW s \in CopyTasks(i)
        PROVE  /\ task[s].gen = 0 => task[s].head = None
               /\ Final(s) /\ wc[i].gen = task[s].gen + 1 =>
                    wc[i].head = IF wc[i].state = "recovery_required"
                                 THEN task[s].head ELSE HeadAfter(s)
    BY <2>2 DEF Past, TaskPast, RemembersTurn, Ended, CopyTasks
  <2> QED BY <2>1, <2>2
<1> QED BY <1>1, PastInvariant, PTL

(* A source commit that later steps may see is one the record accepted.    *)
THEOREM PublishedSourceWasAccepted == Spec => []PublishedSourceIsCanonical
<1>1. Past => PublishedSourceIsCanonical
  BY DEF Past, TaskPast, PublishedRightly, PublishedSourceIsCanonical
<1> QED BY <1>1, PastInvariant, PTL

-----------------------------------------------------------------------------
(* Test deployments.                                                       *)

(* Only a report of its claimant completes a live task.                    *)
LEMMA CompletedByReport ==
  ASSUME TypeOK, [Next]_vars, NEW s \in Session, Live(s), task'[s].status = "completed"
  PROVE  \E w \in Worker, t \in Session, r \in Report : FinishTask(w, t, r)
<1> USE DEF Live, LiveStatus, TypeOK
<1>1. ~UNCHANGED task
  OBVIOUS
<1>2. ASSUME NEW i \in Issue, NEW t \in Session, CreateCopySession(i, t)
      PROVE  FALSE
  BY <1>2 DEF CreateCopySession, CanStartSession
<1>3. ASSUME NEW i \in Issue, NEW t \in Session, NEW kind, CreateDetachedSession(i, t, kind)
      PROVE  FALSE
  BY <1>3 DEF CreateDetachedSession, CanStartSession
<1>4. ASSUME NEW w \in Worker, ClaimRuntimeTask(w)
      PROVE  FALSE
  <2> PICK t \in Session : task' = [task EXCEPT ![t] = ClaimedTask(t, w)]
    BY <1>4, CandidatesAreLive DEF ClaimRuntimeTask, ClaimTask
  <2>1. task[t] \in TaskRecord
    OBVIOUS
  <2>2. ClaimedTask(t, w).status = "claimed"
    BY <2>1 DEF ClaimedTask, TaskRecord
  <2> QED BY <2>2
<1>5. ASSUME NEW t \in Session, TaskGoesStale(t) \/ RequestCancel(t) \/ CancelNow(t)
      PROVE  FALSE
  <2>1. task[t] \in TaskRecord
    OBVIOUS
  <2>2. CASE TaskGoesStale(t)
    BY <2>1, <2>2 DEF TaskGoesStale, TaskRecord
  <2>3. CASE RequestCancel(t)
    BY <2>1, <2>3 DEF RequestCancel, TaskRecord
  <2>4. CASE CancelNow(t)
    BY <2>1, <2>4 DEF CancelNow, TaskRecord
  <2> QED BY <1>5, <2>2, <2>3, <2>4
<1>6. ASSUME NEW w \in Worker, NEW t \in Session, MarkRunning(w, t)
      PROVE  FALSE
  <2>1. task[t] \in TaskRecord
    OBVIOUS
  <2> QED BY <1>6, <2>1 DEF MarkRunning, TaskRecord
<1>7. ASSUME \/ \E j \in Issue, p \in Project \cup {None}, tasks \in SUBSET Issue :
                 CreateIssue(j, p, tasks)
             \/ \E j \in Issue : CreateIssueTask(j)
             \/ \E j \in Issue : DeleteIssueTask(j)
             \/ \E j \in Issue, p \in Project \cup {None} : UpdateIssueProject(j, p)
             \/ \E w \in Worker : \E offer \in Offers[w] : RegisterWorker(w, offer)
             \/ \E w \in Worker : \E beat \in Beats[w] : Heartbeat(w, beat)
             \/ \E w \in Worker : WorkerFallsSilent(w)
      PROVE  UNCHANGED task
  BY <1>7 DEF CreateIssue, CreateIssueTask, DeleteIssueTask, UpdateIssueProject,
     RegisterWorker, Heartbeat, WorkerFallsSilent
<1> QED BY <1>1, <1>2, <1>3, <1>4, <1>5, <1>6, <1>7 DEF Next, vars

(* What the report of s does that completes s and starts d.                *)
LEMMA DeployStep ==
  ASSUME RecordInv, NEW w \in Worker, NEW s \in Session, NEW r \in Report,
         FinishTask(w, s, r), task'[s].status = "completed",
         NEW d \in Session, task[d].status = "absent", task'[d].status # "absent"
  PROVE  LET i == task[s].issue IN
         /\ task'[d].issue = i /\ task'[s].source
         /\ IsCopyTask(s) => wc'[i].state = "clean" /\ wc'[i].head = task'[s].reported
         /\ \A t \in Session \ {d} : task'[t].issue = i => task'[t].status \notin LiveStatus
<1> USE DEF RecordInv
<1> DEFINE status == EffectiveStatus(s, r.status)
           done == FinishedTask(s, w, status, r)
           i == task[s].issue
           deploy == QueuedTask("automation", i, NoCopy)
           reason == RecoveryReason(s, w, status, r)
<1>1. /\ task[s] \in TaskRecord /\ r \in ReportType /\ status \in FinalStatus
      /\ Live(s) /\ d # s
  BY InputAssumption
     DEF FinishTask, Accepts, TypeOK, EffectiveStatus, ReportType, FinalStatus, Live, LiveStatus
<1>2. /\ done.status = status /\ done.issue = i
      /\ done.source = PublishesSource(s, w, status, r)
      /\ done.reported = IF IsCopyTask(s) /\ EnvelopeOK(r) THEN r.head ELSE None
  BY <1>1 DEF FinishedTask, TaskRecord
<1>3. deploy.issue = i
  BY DEF QueuedTask, NoTask
<1>4. \/ task' = [task EXCEPT ![s] = done]
      \/ /\ QueuesDeploy(s, w, status, r)
         /\ \E e \in Session : /\ task[e].status = "absent"
                               /\ task' = [[task EXCEPT ![s] = done] EXCEPT ![e] = deploy]
  BY DEF FinishTask
<1> HIDE DEF done, deploy
<1>5. /\ QueuesDeploy(s, w, status, r)
      /\ task' = [[task EXCEPT ![s] = done] EXCEPT ![d] = deploy]
  BY <1>1, <1>4 DEF TypeOK
<1>6. /\ task'[s] = done /\ task'[d] = deploy
      /\ \A t \in Session \ {s, d} : task'[t] = task[t]
  BY <1>1, <1>5 DEF TypeOK
<1>7. status = "completed" /\ PublishesSource(s, w, status, r)
  BY <1>5 DEF QueuesDeploy
<1>8. ASSUME IsCopyTask(s)
      PROVE  wc'[i].state = "clean" /\ wc'[i].head = task'[s].reported
  <2>1. Holds(s) /\ reason = None
    BY <1>7, <1>8 DEF PublishesSource, Applied
  <2>2. i \in Issue /\ wc[i] \in CopyRecord
    BY <1>8 DEF IsCopyTask, TypeOK
  <2>3. wc'[i] = WithReport(wc[i], r)
    BY <2>1, <2>2 DEF FinishTask, Reconciled, TypeOK
  <2>4. wc'[i].state = r.state /\ wc'[i].head = r.head
    BY <2>2, <2>3 DEF WithReport, Released, CopyRecord
  <2>5. EnvelopeOK(r) /\ r.state = "clean"
    BY <1>7, <2>1, NoneAssumption DEF RecoveryReason, RecoveryReasons, EnvelopeOK
  <2> QED BY <1>2, <1>6, <1>8, <2>4, <2>5
<1>9. ASSUME NEW t \in Session \ {d}, task'[t].issue = i
      PROVE  task'[t].status \notin LiveStatus
  <2>1. CASE t = s
    BY <1>1, <1>2, <1>6, <2>1 DEF LiveStatus, FinalStatus
  <2>2. CASE t # s
    <3>1. task'[t] = task[t]
      BY <1>6, <2>2
    <3>2. ~(Live(t) /\ task[t].issue = i)
      BY <1>5, <2>2 DEF QueuesDeploy
    <3> QED BY <1>9, <3>1, <3>2 DEF Live
  <2> QED BY <2>1, <2>2
<1> QED BY <1>2, <1>3, <1>6, <1>7, <1>8, <1>9

(* A test deployment is queued only behind an accepted, published source,  *)
(* and beside no other session of its issue.                               *)
THEOREM DeploysAcceptedSource == Spec => DeployFromAcceptedSource
<1> DEFINE Deploys(s, d) ==
      Live(s) /\ task'[s].status = "completed"
        /\ task[d].status = "absent" /\ task'[d].status # "absent" =>
      LET i == task[s].issue IN
      /\ task'[d].issue = i /\ task'[s].source
      /\ IsCopyTask(s) => wc'[i].state = "clean" /\ wc'[i].head = task'[s].reported
      /\ \A t \in Session \ {d} : task'[t].issue = i => task'[t].status \notin LiveStatus
<1>1. RecordInv /\ [Next]_vars => \A s, d \in Session : Deploys(s, d)
  <2> SUFFICES ASSUME RecordInv, [Next]_vars, NEW s \in Session, NEW d \in Session,
                      Live(s), task'[s].status = "completed",
                      task[d].status = "absent", task'[d].status # "absent"
               PROVE  Deploys(s, d)
    OBVIOUS
  <2>1. PICK w \in Worker, t \in Session, r \in Report : FinishTask(w, t, r)
    BY CompletedByReport DEF RecordInv
  <2>2. s = t
    BY <2>1 DEF FinishTask, Live, LiveStatus, RecordInv, TypeOK
  <2> QED BY <2>1, <2>2, DeployStep
<1> QED BY <1>1, RecordInvariant, PTL DEF Spec, DeployFromAcceptedSource

-----------------------------------------------------------------------------
(***************************************************************************)
(* IssueWorkingCopy implements WorkingCopyLease.  Creating a working-copy  *)
(* session is Acquire, cancelling a queued one is Return with the head it  *)
(* was given, an accepted report is Return with the reported head and a    *)
(* rejected one is Break; every other step leaves the lease alone.         *)
(***************************************************************************)

(* LeaseOf, as a function of the task alone.                               *)
LeaseFrom(t) ==
  IF t.status # "absent" /\ t.kind = "copy"
  THEN [issue |-> t.issue, turn |-> t.gen, head |-> t.head]
  ELSE None
LeasesKept(t, u) == \A s \in Session : LeaseFrom(u[s]) = LeaseFrom(t[s])

(* What the mapping sees of one record.                                    *)
SameTurn(c, d) ==
  /\ d.active = c.active /\ d.gen = c.gen /\ d.head = c.head
  /\ d.state = "recovery_required" <=> c.state = "recovery_required"
TurnsKept(c, d) == \A i \in Issue : SameTurn(c[i], d[i])

LEMMA MappedStutter ==
  ASSUME TurnsKept(wc, wc'), LeasesKept(task, task')
  PROVE  UNCHANGED L!lvars
<1>1. [i \in Issue |-> wc[i].active]' = [i \in Issue |-> wc[i].active]
  BY DEF TurnsKept, SameTurn
<1>2. [i \in Issue |-> wc[i].gen]' = [i \in Issue |-> wc[i].gen]
  BY DEF TurnsKept, SameTurn
<1>3. [i \in Issue |-> wc[i].head]' = [i \in Issue |-> wc[i].head]
  BY DEF TurnsKept, SameTurn
<1>4. [i \in Issue |-> wc[i].state = "recovery_required"]'
        = [i \in Issue |-> wc[i].state = "recovery_required"]
  BY DEF TurnsKept, SameTurn
<1>5. [s \in Session |-> LeaseOf(s)]' = [s \in Session |-> LeaseOf(s)]
  BY DEF LeasesKept, LeaseFrom, LeaseOf, IsCopyTask
<1> QED BY <1>1, <1>2, <1>3, <1>4, <1>5 DEF L!lvars

(* The turn of i ends and leaves record x.                                 *)
LEMMA MappedEndTurn ==
  ASSUME TypeOK, LeasesKept(task, task'), NEW i \in Issue, wc[i].active # None,
         NEW x, wc' = [wc EXCEPT ![i] = x], x.active = None, x.gen = wc[i].gen + 1
  PROVE  L!EndTurn(i)
<1>1. wc \in [Issue -> CopyRecord]
  BY DEF TypeOK
<1>2. [j \in Issue |-> wc[j].active]'
        = [[j \in Issue |-> wc[j].active] EXCEPT ![i] = None]
  BY <1>1
<1>3. [j \in Issue |-> wc[j].gen]'
        = [[j \in Issue |-> wc[j].gen] EXCEPT ![i] = @ + 1]
  BY <1>1
<1>4. [s \in Session |-> LeaseOf(s)]' = [s \in Session |-> LeaseOf(s)]
  BY DEF LeasesKept, LeaseFrom, LeaseOf, IsCopyTask
<1> QED BY <1>2, <1>3, <1>4 DEF L!EndTurn

LEMMA MappedReturn ==
  ASSUME TypeOK, LeasesKept(task, task'), NEW i \in Issue, wc[i].active # None,
         NEW x, wc' = [wc EXCEPT ![i] = x], x.active = None, x.gen = wc[i].gen + 1,
         x.head \in CommitOrNone,
         x.state = "recovery_required" <=> wc[i].state = "recovery_required"
  PROVE  L!Next
<1>1. wc \in [Issue -> CopyRecord]
  BY DEF TypeOK
<1>2. L!EndTurn(i)
  BY MappedEndTurn
<1>3. [j \in Issue |-> wc[j].head]'
        = [[j \in Issue |-> wc[j].head] EXCEPT ![i] = x.head]
  BY <1>1
<1>4. [j \in Issue |-> wc[j].state = "recovery_required"]'
        = [j \in Issue |-> wc[j].state = "recovery_required"]
  BY <1>1
<1>5. L!Return(i, x.head)
  BY <1>2, <1>3, <1>4 DEF L!Return
<1> QED BY <1>5 DEF L!Next, CommitOrNone

LEMMA MappedBreak ==
  ASSUME TypeOK, LeasesKept(task, task'), NEW i \in Issue, wc[i].active # None,
         NEW x, wc' = [wc EXCEPT ![i] = x], x.active = None, x.gen = wc[i].gen + 1,
         x.head = wc[i].head, x.state = "recovery_required"
  PROVE  L!Next
<1>1. wc \in [Issue -> CopyRecord]
  BY DEF TypeOK
<1>2. L!EndTurn(i)
  BY MappedEndTurn
<1>3. [j \in Issue |-> wc[j].head]' = [j \in Issue |-> wc[j].head]
  BY <1>1
<1>4. [j \in Issue |-> wc[j].state = "recovery_required"]'
        = [[j \in Issue |-> wc[j].state = "recovery_required"] EXCEPT ![i] = TRUE]
  BY <1>1
<1>5. L!Break(i)
  BY <1>2, <1>3, <1>4 DEF L!Break
<1> QED BY <1>5 DEF L!Next

-----------------------------------------------------------------------------

LEMMA QueuedLease ==
  ASSUME NEW i, NEW copy
  PROVE  LeaseFrom(QueuedTask("copy", i, copy))
           = [issue |-> i, turn |-> copy.gen, head |-> copy.head]
BY DEF LeaseFrom, QueuedTask, NoTask

LEMMA LeaseCreate ==
  ASSUME RecordInv, NEW i \in Issue, NEW s \in Session, CreateCopySession(i, s)
  PROVE  L!Next
<1> DEFINE copy == CopyOf(i)
           queued == QueuedTask("copy", i, copy)
<1> USE DEF RecordInv
<1>1. wc \in [Issue -> CopyRecord] /\ task \in [Session -> TaskRecord]
  BY DEF TypeOK
<1>2. /\ copy.active = wc[i].active /\ copy.gen = wc[i].gen /\ copy.head = wc[i].head
      /\ copy.state = "recovery_required" <=> wc[i].state = "recovery_required"
      /\ copy \in CopyRecord
  BY <1>1, CopyOfType DEF CopyOf, AbsentIsBlank, NoCopy, CopyRecord
<1>3. wc[i].active = None /\ wc[i].state # "recovery_required"
  BY <1>2 DEF CreateCopySession, Reservable
<1>4. wc' = [wc EXCEPT ![i] = [copy EXCEPT !.active = s]]
      /\ task' = [task EXCEPT ![s] = queued]
  BY DEF CreateCopySession
<1>5. LeaseFrom(queued) = [issue |-> i, turn |-> wc[i].gen, head |-> wc[i].head]
  BY <1>2, QueuedLease
<1>6. LeaseFrom(task[s]) = None
  BY DEF CreateCopySession, CanStartSession, LeaseFrom
<1> HIDE DEF copy, queued
<1>7. [j \in Issue |-> wc[j].active]'
        = [[j \in Issue |-> wc[j].active] EXCEPT ![i] = s]
  BY <1>1, <1>2, <1>4 DEF CopyRecord
<1>8. UNCHANGED [j \in Issue |-> wc[j].gen]
  BY <1>1, <1>2, <1>4 DEF CopyRecord
<1>9. UNCHANGED [j \in Issue |-> wc[j].head]
  BY <1>1, <1>2, <1>4 DEF CopyRecord
<1>10. UNCHANGED [j \in Issue |-> wc[j].state = "recovery_required"]
  BY <1>1, <1>2, <1>4 DEF CopyRecord
<1>11. [t \in Session |-> LeaseOf(t)]'
         = [[t \in Session |-> LeaseOf(t)] EXCEPT ![s] =
              [issue |-> i, turn |-> wc[i].gen, head |-> wc[i].head]]
  <2>1. \A t : LeaseOf(t) = LeaseFrom(task[t])
    BY DEF LeaseOf, LeaseFrom, IsCopyTask
  <2>2. \A t : LeaseOf(t)' = LeaseFrom(task'[t])
    BY DEF LeaseOf, LeaseFrom, IsCopyTask
  <2>3. [t \in Session |-> LeaseFrom(task'[t])]
          = [[t \in Session |-> LeaseFrom(task[t])] EXCEPT ![s] = LeaseFrom(queued)]
    BY <1>1, <1>4
  <2> QED BY <1>5, <2>1, <2>2, <2>3
<1>12. L!Acquire(i, s)
  BY <1>3, <1>6, <1>7, <1>8, <1>9, <1>10, <1>11
     DEF L!Acquire, LeaseOf, LeaseFrom, IsCopyTask
<1> QED BY <1>12 DEF L!Next

LEMMA LeaseClaim ==
  ASSUME RecordInv, NEW w \in Worker, ClaimRuntimeTask(w)
  PROVE  UNCHANGED L!lvars
<1> USE DEF RecordInv
<1>1. PICK s \in Candidates(w) :
        /\ task' = [task EXCEPT ![s] = ClaimedTask(s, w)]
        /\ wc' = IF IsCopyTask(s) /\ wc[task[s].issue].storage = None
                 THEN [wc EXCEPT ![task[s].issue].storage = worker[w].storage]
                 ELSE wc
  BY DEF ClaimRuntimeTask, ClaimTask
<1>2. s \in Session /\ Live(s)
  BY CandidatesAreLive
<1>3. LeaseFrom(ClaimedTask(s, w)) = LeaseFrom(task[s])
  BY <1>2 DEF LeaseFrom, ClaimedTask, TypeOK, TaskRecord, Live, LiveStatus
<1>4. LeasesKept(task, task')
  BY <1>1, <1>3 DEF LeasesKept, TypeOK
<1>5. TurnsKept(wc, wc')
  BY <1>1 DEF TurnsKept, SameTurn, TypeOK, CopyRecord
<1> QED BY <1>4, <1>5, MappedStutter

LEMMA LeaseTaskUpdate ==
  ASSUME RecordInv,
         \/ \E s \in Session : TaskGoesStale(s) \/ RequestCancel(s)
         \/ \E w \in Worker, s \in Session : MarkRunning(w, s)
         \/ \E i \in Issue, s \in Session, kind \in Kinds \ {"copy"} :
              CreateDetachedSession(i, s, kind)
  PROVE  UNCHANGED L!lvars
<1> USE DEF RecordInv
<1>1. TurnsKept(wc, wc')
  BY DEF TurnsKept, SameTurn, TaskGoesStale, RequestCancel, MarkRunning,
     CreateDetachedSession
<1>2. ASSUME NEW s \in Session,
             \/ TaskGoesStale(s) \/ RequestCancel(s)
             \/ \E w \in Worker : MarkRunning(w, s)
      PROVE  LeasesKept(task, task')
  <2>1. task'[s] \in {[task[s] EXCEPT !.stale = TRUE],
                      [task[s] EXCEPT !.cancelRequested = TRUE, !.stale = FALSE],
                      [task[s] EXCEPT !.status = "running", !.stale = FALSE]}
    BY <1>2 DEF TaskGoesStale, RequestCancel, MarkRunning, TypeOK
  <2>2. task[s].status # "absent"
    BY <1>2 DEF TaskGoesStale, RequestCancel, MarkRunning, Accepts
  <2>3. LeaseFrom(task'[s]) = LeaseFrom(task[s])
    BY <2>1, <2>2 DEF LeaseFrom, TypeOK, TaskRecord
  <2>4. \A t \in Session \ {s} : task'[t] = task[t]
    BY <1>2 DEF TaskGoesStale, RequestCancel, MarkRunning, TypeOK
  <2> QED BY <2>3, <2>4 DEF LeasesKept
<1>3. ASSUME NEW i \in Issue, NEW s \in Session, NEW kind \in Kinds \ {"copy"},
             CreateDetachedSession(i, s, kind)
      PROVE  LeasesKept(task, task')
  <2>1. LeaseFrom(QueuedTask(kind, i, NoCopy)) = None /\ LeaseFrom(task[s]) = None
    BY <1>3 DEF LeaseFrom, QueuedTask, NoTask, CreateDetachedSession, CanStartSession
  <2> QED BY <1>3, <2>1 DEF LeasesKept, CreateDetachedSession, TypeOK
<1> QED BY <1>1, <1>2, <1>3, MappedStutter

LEMMA LeaseCancel ==
  ASSUME RecordInv, NEW s \in Session, CancelNow(s)
  PROVE  L!Next \/ UNCHANGED L!lvars
<1> USE DEF RecordInv
<1>1. task[s] \in TaskRecord /\ task'[s] = [task[s] EXCEPT !.status = "cancelled"]
      /\ task[s].status # "absent" /\ \A t \in Session \ {s} : task'[t] = task[t]
  BY DEF CancelNow, TypeOK, Live, LiveStatus
<1>2. LeaseFrom(task'[s]) = LeaseFrom(task[s])
  BY <1>1 DEF LeaseFrom, TaskRecord
<1>3. LeasesKept(task, task')
  BY <1>1, <1>2 DEF LeasesKept
<1> DEFINE i == task[s].issue
<1>4. CASE Holds(s) /\ wc[i].gen = task[s].gen
  <2>1. i \in Issue /\ wc[i] \in CopyRecord /\ wc[i].active # None
    BY <1>4, NoneAssumption DEF TypeOK, Holds, IsCopyTask
  <2>2. wc' = [wc EXCEPT ![i] = Released(wc[i])]
    BY <1>4, <2>1 DEF CancelNow
  <2>3. /\ Released(wc[i]).active = None /\ Released(wc[i]).gen = wc[i].gen + 1
        /\ Released(wc[i]).head \in CommitOrNone
        /\ Released(wc[i]).state = wc[i].state
    BY <2>1 DEF Released, CopyRecord
  <2> QED BY <1>3, <2>1, <2>2, <2>3, MappedReturn
<1>5. CASE ~(Holds(s) /\ wc[i].gen = task[s].gen)
  <2>1. wc' = wc
    BY <1>5 DEF CancelNow
  <2> QED BY <1>3, <2>1, MappedStutter DEF TurnsKept, SameTurn
<1> QED BY <1>4, <1>5

LEMMA FinishLease ==
  ASSUME RecordInv, NEW w \in Worker, NEW s \in Session, NEW r \in Report,
         FinishTask(w, s, r)
  PROVE  LeasesKept(task, task')
<1> USE DEF RecordInv
<1> DEFINE status == EffectiveStatus(s, r.status)
           done == FinishedTask(s, w, status, r)
           deploy == QueuedTask("automation", task[s].issue, NoCopy)
<1>1. task[s] \in TaskRecord /\ task[s].status # "absent" /\ r \in ReportType
  BY InputAssumption DEF FinishTask, Accepts, TypeOK
<1>2. status # "absent"
  BY <1>1 DEF EffectiveStatus, ReportType, FinalStatus
<1>3. LeaseFrom(done) = LeaseFrom(task[s])
  <2>1. /\ done.status = status /\ done.kind = task[s].kind
        /\ done.issue = task[s].issue /\ done.gen = task[s].gen
        /\ done.head = task[s].head
    BY <1>1 DEF FinishedTask, TaskRecord
  <2> QED BY <1>1, <1>2, <2>1 DEF LeaseFrom
<1>4. LeaseFrom(deploy) = None
  BY DEF LeaseFrom, QueuedTask, NoTask
<1>5. \/ task' = [task EXCEPT ![s] = done]
      \/ \E d \in Session : /\ task[d].status = "absent"
                            /\ task' = [[task EXCEPT ![s] = done] EXCEPT ![d] = deploy]
  BY DEF FinishTask
<1> HIDE DEF done, deploy, status
<1>6. \A t \in Session : task[t].status = "absent" => LeaseFrom(task[t]) = None
  BY DEF LeaseFrom
<1> QED BY <1>1, <1>3, <1>4, <1>5, <1>6 DEF LeasesKept, TypeOK

LEMMA LeaseFinish ==
  ASSUME RecordInv, NEW w \in Worker, NEW s \in Session, NEW r \in Report,
         FinishTask(w, s, r)
  PROVE  L!Next \/ UNCHANGED L!lvars
<1> USE DEF RecordInv
<1> DEFINE i == task[s].issue
           status == EffectiveStatus(s, r.status)
           reason == RecoveryReason(s, w, status, r)
<1>1. LeasesKept(task, task')
  BY FinishLease
<1>2. r \in ReportType
  BY InputAssumption
<1>3. CASE Holds(s)
  <2>1. i \in Issue /\ wc[i] \in CopyRecord /\ wc[i].active # None
    BY <1>3, NoneAssumption DEF TypeOK, Holds, IsCopyTask
  <2>2. wc' = [wc EXCEPT ![i] = Reconciled(s, w, status, r)]
    BY <1>3 DEF FinishTask
  <2>3. CASE reason # None
    <3> DEFINE x == NeedsRecovery(wc[i], reason)
    <3>1. wc' = [wc EXCEPT ![i] = x]
      BY <2>2, <2>3 DEF Reconciled
    <3>2. /\ x.active = None /\ x.gen = wc[i].gen + 1
          /\ x.head = wc[i].head /\ x.state = "recovery_required"
      BY <2>1 DEF NeedsRecovery, Released, CopyRecord
    <3> HIDE DEF x
    <3> QED BY <1>1, <2>1, <3>1, <3>2, MappedBreak
  <2>4. CASE reason = None
    <3> DEFINE x == WithReport(wc[i], r)
    <3>1. wc' = [wc EXCEPT ![i] = x]
      BY <2>2, <2>4 DEF Reconciled
    <3>2. r.state # "recovery_required"
      BY <2>4, NoneAssumption DEF RecoveryReason, RecoveryReasons, EnvelopeOK
    <3>3. wc[i].state # "recovery_required"
      BY <2>1, ReservedIsWorkable
    <3>4. /\ x.active = None /\ x.gen = wc[i].gen + 1
          /\ x.head = r.head /\ x.state = r.state
      BY <2>1 DEF WithReport, Released, CopyRecord
    <3>5. x.head \in CommitOrNone
      BY <1>2, <3>4 DEF ReportType
    <3> HIDE DEF x
    <3> QED BY <1>1, <2>1, <3>1, <3>2, <3>3, <3>4, <3>5, MappedReturn
  <2> QED BY <2>3, <2>4
<1>4. CASE ~Holds(s)
  <2>1. wc' = wc
    BY <1>4 DEF FinishTask
  <2> QED BY <1>1, <2>1, MappedStutter DEF TurnsKept, SameTurn
<1> QED BY <1>3, <1>4

LEMMA LeaseStep == RecordInv /\ [Next]_vars => [L!Next]_(L!lvars)
<1> SUFFICES ASSUME RecordInv, [Next]_vars
             PROVE  L!Next \/ UNCHANGED L!lvars
  OBVIOUS
<1>1. CASE UNCHANGED <<wc, task>>
  BY <1>1, MappedStutter DEF TurnsKept, SameTurn, LeasesKept
<1>2. CASE Next
  <2>1. ASSUME \/ \E j \in Issue, p \in Project \cup {None}, tasks \in SUBSET Issue :
                   CreateIssue(j, p, tasks)
               \/ \E j \in Issue : CreateIssueTask(j)
               \/ \E j \in Issue : DeleteIssueTask(j)
               \/ \E j \in Issue, p \in Project \cup {None} : UpdateIssueProject(j, p)
               \/ \E w \in Worker : \E offer \in Offers[w] : RegisterWorker(w, offer)
               \/ \E w \in Worker : \E beat \in Beats[w] : Heartbeat(w, beat)
               \/ \E w \in Worker : WorkerFallsSilent(w)
        PROVE  UNCHANGED <<wc, task>>
    BY <2>1 DEF CreateIssue, CreateIssueTask, DeleteIssueTask, UpdateIssueProject,
       RegisterWorker, Heartbeat, WorkerFallsSilent
  <2> QED BY <1>1, <1>2, <2>1, LeaseCreate, LeaseClaim, LeaseTaskUpdate, LeaseCancel,
             LeaseFinish DEF Next
<1> QED BY <1>1, <1>2 DEF vars

LEMMA LeaseInit == Init => L!Init
<1> SUFFICES ASSUME Init PROVE L!Init
  OBVIOUS
<1>1. \A i \in Issue : /\ wc[i].active = None /\ wc[i].gen = 0 /\ wc[i].head = None
                       /\ wc[i].state # "recovery_required"
  BY DEF Init, NoCopy
<1>2. \A s \in Session : LeaseOf(s) = None
  BY DEF Init, NoTask, LeaseOf, IsCopyTask
<1> QED BY <1>1, <1>2 DEF L!Init

(* Every behaviour of the control plane, seen through the mapping, is a    *)
(* behaviour of the lease: one holder, turns counted once, heads moved     *)
(* only by the holder's own report, nothing after a break.                 *)
THEOREM RecordImplementsLease == Spec => ImplementsLease
<1>1. RecordInv /\ [Next]_vars => [L!Next]_(L!lvars)
  BY LeaseStep
<1>2. Init => L!Init
  BY LeaseInit
<1> QED BY <1>1, <1>2, RecordInvariant, PTL DEF Spec, ImplementsLease, L!Spec

-----------------------------------------------------------------------------

(* The inputs the server is specified for include what the loop sends.     *)
Registration(w) == [status |-> "online", storage |-> Root[w], caps |-> Capability]
Farewell(w) == [status |-> "offline", storage |-> Root[w], caps |-> Capability,
                engineDown |-> FALSE]
Covers ==
  /\ \A w \in Worker : Registration(w) \in Offers[w] /\ Farewell(w) \in Beats[w]
  /\ "copy" \in Kinds
  /\ Report = ReportType

(* A worker's job is of a session that was started, and has a report when  *)
(* it comes to sending one.                                                *)
JobsOK ==
  /\ daemon \in [Worker -> Job]
  /\ \A w \in Worker :
       /\ daemon[w].phase \notin {"down", "idle"} =>
            daemon[w].session \in Session /\ task[daemon[w].session].status # "absent"
       /\ daemon[w].phase = "reporting" => daemon[w].report \in ReportType

(* A worktree that is there has a head, and only such a one is dirty.      *)
DisksOK ==
  /\ disk \in [Storage -> [Issue -> Worktree]]
  /\ \A d \in Storage, i \in Issue :
       /\ disk[d][i].tree => disk[d][i].head \in Commit
       /\ disk[d][i].dirty => disk[d][i].tree

FaultsOK == faults \in [Fault -> Nat]

LoopInv == TypeOK /\ JobsOK /\ DisksOK /\ FaultsOK

-----------------------------------------------------------------------------
(* The reports the loop computes.                                          *)

LEMMA InspectedType ==
  ASSUME NEW w \in Worker, NEW tree \in Worktree, JobsOK,
         NEW forced \in RecoveryReasons \cup {None}
  PROVE  LET seen == Inspected(w, tree, forced) IN
         /\ seen.base \in CommitOrNone /\ seen.head \in CommitOrNone
         /\ seen.state \in CopyState
         /\ seen.reason \in RecoveryReasons \cup {None}
BY DEF Inspected, JobsOK, Job, Worktree, CopyState, RecoveryReasons

LEMMA ReportOfType ==
  ASSUME NEW w \in Worker, NEW status \in FinalStatus, NEW source \in BOOLEAN, NEW seen,
         seen.base \in CommitOrNone, seen.head \in CommitOrNone,
         seen.state \in CopyState, seen.reason \in RecoveryReasons \cup {None}
  PROVE  ReportOf(w, status, seen, source) \in ReportType
BY DaemonAssumption DEF DaemonAssumption, ReportOf, ReportType, StorageOrNone

LEMMA BareFailureType == BareFailure \in ReportType
BY DEF BareFailure, ReportType, FinalStatus, StorageOrNone, CommitOrNone, CopyState
-----------------------------------------------------------------------------
(* Steps of the loop are steps of the server.                              *)

(* A session that was started is never taken back, nor given another turn, *)
(* and no request to stop it is withdrawn.                                 *)
SameTask(t, u) ==
  /\ u.status # "absent"
  /\ u.issue = t.issue /\ u.head = t.head /\ u.gen = t.gen
  /\ t.cancelRequested => u.cancelRequested

LEMMA StartedStays ==
  ASSUME TypeOK, [Next]_vars, NEW s \in Session, task[s].status # "absent"
  PROVE  SameTask(task[s], task'[s])
<1> USE DEF TypeOK, TaskRecord, SameTask
<1>1. CASE \/ \E i \in Issue, p \in Project \cup {None}, tasks \in SUBSET Issue :
                CreateIssue(i, p, tasks)
           \/ \E i \in Issue : CreateIssueTask(i) \/ DeleteIssueTask(i)
           \/ \E i \in Issue, p \in Project \cup {None} : UpdateIssueProject(i, p)
           \/ \E w \in Worker : \E offer \in Offers[w] : RegisterWorker(w, offer)
           \/ \E w \in Worker : \E beat \in Beats[w] : Heartbeat(w, beat)
           \/ \E w \in Worker : WorkerFallsSilent(w)
           \/ UNCHANGED vars
  BY <1>1 DEF CreateIssue, CreateIssueTask, DeleteIssueTask, UpdateIssueProject,
     RegisterWorker, Heartbeat, WorkerFallsSilent, vars
<1>2. CASE \E i \in Issue, t \in Session :
             \/ CreateCopySession(i, t)
             \/ \E kind \in Kinds \ {"copy"} : CreateDetachedSession(i, t, kind)
  <2> PICK t \in Session : /\ task[t].status = "absent"
                          /\ \E x : task' = [task EXCEPT ![t] = x]
    BY <1>2 DEF CreateCopySession, CreateDetachedSession, CanStartSession
  <2> QED
    OBVIOUS
<1>3. CASE \E w \in Worker : ClaimRuntimeTask(w)
  <2> PICK w \in Worker, t \in Session : task' = [task EXCEPT ![t] = ClaimedTask(t, w)]
    BY <1>3, CandidatesAreLive DEF ClaimRuntimeTask, ClaimTask
  <2>2. task[t] \in TaskRecord
    OBVIOUS
  <2>3. /\ ClaimedTask(t, w).status = "claimed" /\ ClaimedTask(t, w).issue = task[t].issue
        /\ ClaimedTask(t, w).head = task[t].head /\ ClaimedTask(t, w).gen = task[t].gen
        /\ ClaimedTask(t, w).cancelRequested = task[t].cancelRequested
    BY <2>2 DEF ClaimedTask
  <2> QED
    BY <2>3
<1>4. CASE \E t \in Session : TaskGoesStale(t) \/ RequestCancel(t) \/ CancelNow(t)
  <2> PICK t \in Session : TaskGoesStale(t) \/ RequestCancel(t) \/ CancelNow(t)
    BY <1>4
  <2>1. CASE TaskGoesStale(t)
    BY <2>1 DEF TaskGoesStale
  <2>2. CASE RequestCancel(t)
    BY <2>2 DEF RequestCancel
  <2>3. CASE CancelNow(t)
    BY <2>3 DEF CancelNow
  <2> QED
    BY <2>1, <2>2, <2>3
<1>5. CASE \E w \in Worker, t \in Session : MarkRunning(w, t)
  BY <1>5 DEF MarkRunning
<1>6. CASE \E w \in Worker, t \in Session, r \in Report : FinishTask(w, t, r)
  <2> PICK w \in Worker, t \in Session, r \in Report : FinishTask(w, t, r)
    BY <1>6
  <2> DEFINE status == EffectiveStatus(t, r.status)
             finished == [task EXCEPT ![t] = FinishedTask(t, w, status, r)]
  <2>1. r \in ReportType
    BY InputAssumption DEF InputAssumption
  <2>2. status \in FinalStatus
    BY <2>1 DEF EffectiveStatus, ReportType, FinalStatus
  <2>3. SameTask(task[s], finished[s])
    BY <2>2 DEF FinishedTask, FinalStatus
  <2>4. \/ task' = finished
        \/ \E d \in Session : /\ task[d].status = "absent"
                              /\ task' = [finished EXCEPT ![d] =
                                   QueuedTask("automation", task[t].issue, NoCopy)]
    BY DEF FinishTask
  <2> QED
    BY <2>3, <2>4
<1> QED
  BY <1>1, <1>2, <1>3, <1>4, <1>5, <1>6 DEF Next

(* The disjuncts of the loop that change nothing on the server.            *)
Private(w) ==
  \/ Crash(w) \/ Prepare(w) \/ AgentEdits(w) \/ AgentCommits(w) \/ AgentStrays(w) \/ Watch(w)
  \/ BeginEngine(w) \/ EngineUnavailable(w) \/ EngineEnds(w) \/ EngineFails(w)
  \/ EngineStops(w) \/ Capture(w) \/ CaptureFails(w)

LEMMA PrivateUnseen == ASSUME NEW w \in Worker, Private(w) PROVE UNCHANGED vars
BY DEF Private, Crash, Prepare, RepositoryFails, WorktreeMissing, AddWorktree, AddRefused,
   WriteMetadata, MetadataFails, Reuse, Refuse, ProjectMissing, SetUp, SetUpFails,
   AgentEdits, AgentCommits, AgentStrays, Watch, BeginEngine, EngineUnavailable, EngineEnds, EngineFails, EngineStops, Capture,
   CaptureFails, server, vars

LEMMA ServerStep ==
  ASSUME Covers, JobsOK, [DaemonNext]_wvars
  PROVE  [Next]_vars
<1>1. CASE Client
  BY <1>1 DEF Client, Next, Covers
<1>2. CASE \E s \in Session : GoesStale(s)
  BY <1>2 DEF GoesStale, Next
<1>3. CASE \E d \in Storage, i \in Issue : WorktreeRemoved(d, i)
  BY <1>3 DEF WorktreeRemoved, server, vars
<1>4. ASSUME NEW w \in Worker, Start(w) PROVE Next
  BY <1>4 DEF Start, Next, Covers, Registration
<1>5. ASSUME NEW w \in Worker, ShutDown(w) PROVE Next
  BY <1>5 DEF ShutDown, Next, Covers, Farewell
<1>6. ASSUME NEW w \in Worker, Claim(w) PROVE Next
  BY <1>6 DEF Claim, ClaimRuntimeTask, Next
<1>7. ASSUME NEW w \in Worker, Mark(w) PROVE [Next]_vars
  <2>1. daemon[w].session \in Session
    BY <1>7 DEF Mark, In, JobsOK
  <2> QED
    BY <1>7, <2>1 DEF Mark, Next, server, vars
<1>8. ASSUME NEW w \in Worker, Send(w) PROVE [Next]_vars
  <2>1. daemon[w].session \in Session /\ daemon[w].report \in Report
    BY <1>8 DEF Send, In, JobsOK, Covers
  <2> QED
    BY <1>8, <2>1 DEF Send, Next, server, vars
<1>9. ASSUME NEW w \in Worker, Private(w) PROVE UNCHANGED vars
  BY <1>9, PrivateUnseen
<1>10. CASE UNCHANGED wvars
  BY <1>10 DEF wvars, vars
<1> QED
  BY <1>1, <1>2, <1>3, <1>4, <1>5, <1>6, <1>7, <1>8, <1>9, <1>10
  DEF DaemonNext, Finish, Private
-----------------------------------------------------------------------------
(* The loop's own state.                                                   *)

Started(s) == s \in Session /\ task[s].status # "absent"
NothingTakenBack == \A s \in Session : task[s].status # "absent" => task'[s].status # "absent"

LEMMA JobsKept == ASSUME JobsOK, NothingTakenBack, UNCHANGED daemon PROVE JobsOK'
BY DEF JobsOK, NothingTakenBack

LEMMA JobTaken ==
  ASSUME JobsOK, NothingTakenBack, NEW w \in Worker, NEW job \in Job,
         daemon' = [daemon EXCEPT ![w] = job],
         job.phase \notin {"down", "idle"} =>
           job.session \in Session /\ task'[job.session].status # "absent",
         job.phase = "reporting" => job.report \in ReportType
  PROVE  JobsOK'
BY DEF JobsOK, NothingTakenBack

LEMMA NoJobType ==
  ASSUME NEW phase \in {"down", "idle"}
  PROVE  NoJob(phase) \in Job /\ NoJob(phase).phase = phase
BY DEF NoJob, Job, Phase, CommitOrNone

(* The job goes on in another phase.                                       *)
LEMMA JobEnters ==
  ASSUME JobsOK, NothingTakenBack, NEW w \in Worker,
         NEW phase \in Phase \ {"reporting"}, daemon[w].phase \notin {"down", "idle"},
         Enter(w, phase)
  PROVE  JobsOK'
<1> DEFINE job == [daemon[w] EXCEPT !.phase = phase]
<1>1. daemon[w] \in Job /\ job \in Job
  BY DEF JobsOK, Job
<1>2. daemon' = [daemon EXCEPT ![w] = job] /\ job.phase = phase
      /\ job.session = daemon[w].session
  BY <1>1 DEF Enter, JobsOK, Job
<1>3. job.session \in Session /\ task'[job.session].status # "absent"
  BY <1>2 DEF JobsOK, NothingTakenBack
<1> QED
  BY <1>1, <1>2, <1>3, JobTaken

(* The job ends with a report.                                             *)
LEMMA JobReports ==
  ASSUME JobsOK, NothingTakenBack, NEW w \in Worker, daemon[w].phase \notin {"down", "idle"},
         NEW r \in ReportType,
         daemon' = [daemon EXCEPT ![w] = [@ EXCEPT !.phase = "reporting", !.report = r]]
  PROVE  JobsOK'
<1> DEFINE job == [daemon[w] EXCEPT !.phase = "reporting", !.report = r]
<1>1. daemon[w] \in Job /\ job \in Job /\ job.phase = "reporting" /\ job.report = r
      /\ job.session = daemon[w].session
  BY DEF JobsOK, Job, Phase
<1>2. daemon' = [daemon EXCEPT ![w] = job]
  BY DEF JobsOK
<1>3. job.session \in Session /\ task'[job.session].status # "absent"
  BY <1>1 DEF JobsOK, NothingTakenBack
<1> QED
  BY <1>1, <1>2, <1>3, JobTaken

LEMMA JobConcludes ==
  ASSUME JobsOK, NothingTakenBack, NEW w \in Worker, daemon[w].phase \notin {"down", "idle"},
         NEW status \in FinalStatus, NEW source \in BOOLEAN, NEW seen,
         seen.base \in CommitOrNone, seen.head \in CommitOrNone,
         seen.state \in CopyState, seen.reason \in RecoveryReasons \cup {None},
         Conclude(w, status, seen, source)
  PROVE  JobsOK'
BY ReportOfType, JobReports DEF Conclude

(* The issue of a worker's session, and the worktree the worker looks at.  *)
LEMMA TreeType ==
  ASSUME LoopInv, NEW w \in Worker, daemon[w].phase \notin {"down", "idle"}
  PROVE  /\ TaskOf(w).issue \in Issue /\ Root[w] \in Storage
         /\ TaskOf(w).head \in CommitOrNone
         /\ Tree(w) \in Worktree
         /\ Tree(w).tree => Tree(w).head \in Commit
         /\ Tree(w).dirty => Tree(w).tree
<1>1. TaskOf(w) \in TaskRecord /\ TaskOf(w).issue \in Issue
  BY DEF LoopInv, TypeOK, JobsOK, TaskOf
<1>2. Root[w] \in Storage
  BY DaemonAssumption DEF DaemonAssumption
<1> QED
  BY <1>1, <1>2 DEF LoopInv, DisksOK, Tree, TaskRecord

LEMMA JobAborts ==
  ASSUME LoopInv, NothingTakenBack, NEW w \in Worker, daemon[w].phase \notin {"down", "idle"},
         NEW forced \in RecoveryReasons \cup {None}, Abort(w, forced)
  PROVE  JobsOK'
<1>1. Tree(w) \in Worktree
  BY TreeType
<1>2. "failed" \in FinalStatus /\ FALSE \in BOOLEAN
  BY DEF FinalStatus
<1> QED
  BY <1>1, <1>2, InspectedType, JobConcludes DEF Abort, LoopInv

(* A worktree is set to one of the same kind.                              *)
LEMMA TreeSet ==
  ASSUME LoopInv, NEW w \in Worker, daemon[w].phase \notin {"down", "idle"},
         NEW tree \in Worktree, SetTree(w, tree),
         tree.tree => tree.head \in Commit, tree.dirty => tree.tree
  PROVE  DisksOK'
<1>1. TaskOf(w).issue \in Issue /\ Root[w] \in Storage
  BY TreeType
<1> DEFINE d0 == Root[w]  i0 == TaskOf(w).issue
<1>2. disk' = [disk EXCEPT ![d0] = [disk[d0] EXCEPT ![i0] = tree]]
  BY <1>1 DEF SetTree, LoopInv, DisksOK
<1>3. disk' \in [Storage -> [Issue -> Worktree]]
  BY <1>1, <1>2 DEF LoopInv, DisksOK
<1>4. ASSUME NEW d \in Storage, NEW i \in Issue
      PROVE  disk'[d][i] = IF d = d0 /\ i = i0 THEN tree ELSE disk[d][i]
  BY <1>1, <1>2 DEF LoopInv, DisksOK
<1> QED
  BY <1>3, <1>4 DEF LoopInv, DisksOK
-----------------------------------------------------------------------------
(* Every step keeps the loop's state.                                      *)

LEMMA FaultsKept ==
  ASSUME FaultsOK, UNCHANGED faults \/ \E f \in Fault : Fails(f)
  PROVE  FaultsOK'
BY DEF FaultsOK, Fails

LEMMA DisksKept == ASSUME DisksOK, UNCHANGED disk PROVE DisksOK'
BY DEF DisksOK

LEMMA FaultNames ==
  "crash" \in Fault /\ "loss" \in Fault /\ "repository" \in Fault
    /\ "removal" \in Fault /\ "engine" \in Fault /\ "agent" \in Fault
BY DEF Fault

LoopKept == JobsOK' /\ DisksOK' /\ FaultsOK'

(* The process starts, dies and asks the server.                           *)
LEMMA KeptByProcess ==
  ASSUME LoopInv, NothingTakenBack, NEW w \in Worker,
         Start(w) \/ Crash(w) \/ ShutDown(w) \/ Claim(w) \/ Mark(w) \/ Send(w)
  PROVE  LoopKept
<1>1. UNCHANGED disk
  BY DEF Start, Crash, ShutDown, Claim, Mark, Send
<1>2. UNCHANGED faults \/ \E f \in Fault : Fails(f)
  BY FaultNames DEF Start, Crash, ShutDown, Claim, Mark, Send
<1>3. JobsOK'
  <2>1. CASE Idle(w) \/ daemon' = [daemon EXCEPT ![w] = NoJob("down")]
    BY <2>1, NoJobType, JobTaken DEF Idle, LoopInv
  <2>2. CASE UNCHANGED daemon
    BY <2>2, JobsKept DEF LoopInv
  <2>3. CASE Claim(w) /\ ~UNCHANGED daemon
    <3>1. PICK s \in Candidates(w) :
            /\ ClaimTask(w, s)
            /\ daemon' = [daemon EXCEPT ![w] =
                 [@ EXCEPT !.phase = "claimed", !.session = s,
                           !.initialize = wc[task[s].issue].state = "uninitialized"]]
      BY <2>3 DEF Claim
    <3> DEFINE job == [daemon[w] EXCEPT !.phase = "claimed", !.session = s,
                         !.initialize = wc[task[s].issue].state = "uninitialized"]
    <3>2. s \in Session /\ Live(s)
      BY CandidatesAreLive
    <3>3. task'[s].status # "absent"
      BY <3>2 DEF NothingTakenBack, Live, LiveStatus
    <3>4. daemon[w] \in Job
      BY DEF LoopInv, JobsOK
    <3>5. job \in Job /\ job.phase = "claimed" /\ job.session = s
      BY <3>2, <3>4 DEF Job, Phase
    <3>6. daemon' = [daemon EXCEPT ![w] = job]
      BY <3>1 DEF LoopInv, JobsOK
    <3> QED
      BY <3>2, <3>3, <3>5, <3>6, JobTaken DEF LoopInv
  <2>4. CASE Mark(w) /\ Enter(w, "preparing")
    BY <2>4, JobEnters DEF Mark, In, LoopInv, Phase
  <2> QED
    BY <2>1, <2>2, <2>3, <2>4 DEF Start, Crash, ShutDown, Claim, Mark, Send
<1> QED
  BY <1>1, <1>2, <1>3, DisksKept, FaultsKept DEF LoopKept, LoopInv

(* Preparation.                                                            *)
LEMMA KeptByAborts ==
  ASSUME LoopInv, NothingTakenBack, NEW w \in Worker,
         \/ RepositoryFails(w) \/ WorktreeMissing(w) \/ AddRefused(w)
         \/ ProjectMissing(w) \/ SetUpFails(w) \/ EngineFails(w) \/ CaptureFails(w)
  PROVE  LoopKept
<1>1. UNCHANGED disk /\ daemon[w].phase \notin {"down", "idle"}
  BY DEF RepositoryFails, WorktreeMissing, AddRefused, ProjectMissing, SetUpFails,
     EngineFails, CaptureFails, In
<1>2. UNCHANGED faults \/ \E f \in Fault : Fails(f)
  BY FaultNames DEF RepositoryFails, WorktreeMissing, AddRefused, ProjectMissing, SetUpFails,
     EngineFails, CaptureFails
<1>3. \E forced \in RecoveryReasons \cup {None} : Abort(w, forced)
  BY DEF RepositoryFails, WorktreeMissing, AddRefused, ProjectMissing, SetUpFails,
     EngineFails, CaptureFails, RecoveryReasons
<1>4. JobsOK'
  BY <1>1, <1>3, JobAborts
<1> QED
  BY <1>1, <1>2, <1>4, DisksKept, FaultsKept DEF LoopKept, LoopInv

LEMMA KeptByEntering ==
  ASSUME LoopInv, NothingTakenBack, NEW w \in Worker,
         SetUp(w) \/ BeginEngine(w) \/ EngineEnds(w)
  PROVE  LoopKept
<1>1. /\ daemon[w].phase \notin {"down", "idle"}
      /\ Enter(w, "starting") \/ Enter(w, "engine") \/ Enter(w, "capturing")
      /\ UNCHANGED disk /\ UNCHANGED faults
  BY DEF SetUp, BeginEngine, EngineEnds, In
<1> QED
  BY <1>1, JobEnters, DisksKept, FaultsKept DEF LoopKept, LoopInv, Phase

LEMMA KeptByAddWorktree ==
  ASSUME LoopInv, NothingTakenBack, NEW w \in Worker, AddWorktree(w)
  PROVE  LoopKept
<1> DEFINE base == IF TaskOf(w).head # None THEN TaskOf(w).head ELSE 0
           job == [daemon[w] EXCEPT !.phase = "initializing", !.base = base]
<1>1. PICK project \in BOOLEAN : SetTree(w, Added(base, project))
  BY DEF AddWorktree
<1>2. /\ daemon[w].phase \notin {"down", "idle"}
      /\ UNCHANGED faults \/ \E f \in Fault : Fails(f)
  BY FaultNames DEF AddWorktree, In
<1>3. base \in Commit
  BY <1>2, TreeType, DaemonAssumption DEF DaemonAssumption, CommitOrNone
<1>4. LET tree == Added(base, project)
      IN  tree \in Worktree /\ tree.head = base /\ tree.tree
  BY <1>3 DEF Added, Worktree, Checkout, CommitOrNone
<1>5. DisksOK'
  BY <1>1, <1>2, <1>3, <1>4, TreeSet
<1>6. daemon[w] \in Job
  BY DEF LoopInv, JobsOK
<1>7. job \in Job /\ job.phase = "initializing" /\ job.session = daemon[w].session
  BY <1>3, <1>6 DEF Job, Phase, CommitOrNone
<1>8. daemon' = [daemon EXCEPT ![w] = job]
  BY DEF AddWorktree, LoopInv, JobsOK
<1>9. job.session \in Session /\ task'[job.session].status # "absent"
  BY <1>2, <1>7 DEF LoopInv, JobsOK, NothingTakenBack
<1>10. JobsOK'
  BY <1>7, <1>8, <1>9, JobTaken DEF LoopInv
<1> QED
  BY <1>2, <1>5, <1>10, FaultsKept DEF LoopKept, LoopInv

LEMMA KeptByMetadata ==
  ASSUME LoopInv, NothingTakenBack, NEW w \in Worker, WriteMetadata(w) \/ MetadataFails(w)
  PROVE  LoopKept
<1>1. daemon[w].phase \notin {"down", "idle"}
  BY DEF WriteMetadata, MetadataFails, In
<1>2. daemon[w].base \in CommitOrNone
  BY DEF LoopInv, JobsOK, Job
<1>3. CASE WriteMetadata(w)
  <2> DEFINE tree == [Tree(w) EXCEPT !.base = MetadataBase(w)]
  <2>1. /\ tree \in Worktree /\ tree.tree = Tree(w).tree
        /\ tree.head = Tree(w).head /\ tree.dirty = Tree(w).dirty
    BY <1>1, <1>2, TreeType DEF Worktree, MetadataBase
  <2>2. SetTree(w, tree) /\ Enter(w, "prepared") /\ UNCHANGED faults
    BY <1>3 DEF WriteMetadata
  <2> QED
    BY <1>1, <2>1, <2>2, TreeType, TreeSet, JobEnters, FaultsKept DEF LoopKept, LoopInv, Phase
<1>4. CASE MetadataFails(w)
  <2> DEFINE tree == [NoWorktree EXCEPT !.branch = TRUE]
             seen == [base |-> daemon[w].base, head |-> None,
                      state |-> "recovery_required", reason |-> "metadata_missing"]
  <2>1. tree \in Worktree /\ tree.tree = FALSE /\ tree.dirty = FALSE
    BY DEF Worktree, NoWorktree, Checkout, CommitOrNone
  <2>2. /\ seen.base \in CommitOrNone /\ seen.head \in CommitOrNone
        /\ seen.state \in CopyState /\ seen.reason \in RecoveryReasons \cup {None}
    BY <1>2 DEF CommitOrNone, CopyState, RecoveryReasons
  <2>3. SetTree(w, tree) /\ Conclude(w, "failed", seen, FALSE) /\ Fails("repository")
    BY <1>4 DEF MetadataFails
  <2>4. JobsOK'
    BY <1>1, <2>2, <2>3, JobConcludes DEF LoopInv, FinalStatus
  <2> QED
    BY <1>1, <2>1, <2>3, <2>4, TreeSet, FaultsKept, FaultNames DEF LoopKept, LoopInv
<1> QED
  BY <1>3, <1>4

LEMMA KeptByReuse ==
  ASSUME LoopInv, NothingTakenBack, NEW w \in Worker, Reuse(w) \/ Refuse(w)
  PROVE  LoopKept
<1>1. daemon[w].phase \notin {"down", "idle"} /\ UNCHANGED disk /\ UNCHANGED faults
  BY DEF Reuse, Refuse, In
<1>2. Tree(w) \in Worktree /\ Tree(w).base \in CommitOrNone
  BY <1>1, TreeType DEF Worktree
<1>3. CASE Reuse(w)
  <2> DEFINE job == [daemon[w] EXCEPT !.phase = "prepared", !.base = Tree(w).base]
  <2>1. daemon[w] \in Job
    BY DEF LoopInv, JobsOK
  <2>2. job \in Job /\ job.phase = "prepared" /\ job.session = daemon[w].session
    BY <1>2, <2>1 DEF Job, Phase
  <2>3. daemon' = [daemon EXCEPT ![w] = job]
    BY <1>3 DEF Reuse, LoopInv, JobsOK
  <2>4. job.session \in Session /\ task'[job.session].status # "absent"
    BY <1>1, <2>2 DEF LoopInv, JobsOK, NothingTakenBack
  <2>5. JobsOK'
    BY <2>2, <2>3, <2>4, JobTaken DEF LoopInv
  <2> QED
    BY <1>1, <2>5, DisksKept, FaultsKept DEF LoopKept, LoopInv
<1>4. CASE Refuse(w)
  <2>1. PICK forced \in RecoveryReasons, base \in {Tree(w).base, daemon[w].base} :
          Conclude(w, "failed", [Inspected(w, Tree(w), forced) EXCEPT !.base = base], FALSE)
    BY <1>4 DEF Refuse, Refusal, RecoveryReasons
  <2> DEFINE old == Inspected(w, Tree(w), forced)
             seen == [old EXCEPT !.base = base]
  <2>2. /\ old.base \in CommitOrNone /\ old.head \in CommitOrNone
        /\ old.state \in CopyState /\ old.reason \in RecoveryReasons \cup {None}
    BY <1>2, InspectedType DEF LoopInv
  <2>3. /\ seen.base = base /\ seen.head = old.head
        /\ seen.state = old.state /\ seen.reason = old.reason
    BY DEF Inspected
  <2>6. base \in CommitOrNone
    BY <1>2 DEF LoopInv, JobsOK, Job
  <2>4. "failed" \in FinalStatus /\ FALSE \in BOOLEAN
    BY DEF FinalStatus
  <2>5. JobsOK'
    BY <1>1, <2>1, <2>2, <2>3, <2>4, <2>6, JobConcludes DEF LoopInv
  <2> QED
    BY <1>1, <2>5, DisksKept, FaultsKept DEF LoopKept, LoopInv
<1> QED
  BY <1>3, <1>4

(* The engine and what the agent does.                                     *)
LEMMA KeptByUnavailable ==
  ASSUME LoopInv, NothingTakenBack, NEW w \in Worker, EngineUnavailable(w)
  PROVE  LoopKept
<1>1. daemon[w].phase \notin {"down", "idle"} /\ UNCHANGED disk
  BY DEF EngineUnavailable, In
<1>2. \E f \in Fault : Fails(f)
  BY FaultNames DEF EngineUnavailable
<1>3. JobsOK'
  BY <1>1, BareFailureType, JobReports DEF EngineUnavailable, LoopInv
<1> QED
  BY <1>1, <1>2, <1>3, DisksKept, FaultsKept DEF LoopKept, LoopInv

LEMMA CommitBound == \A n : n \in Commit <=> n \in Nat /\ n <= MaxCommit
BY DaemonAssumption DEF DaemonAssumption

LEMMA CommittedType ==
  ASSUME NEW tree \in Worktree, tree.head \in Commit, tree.head + 1 <= MaxCommit
  PROVE  /\ Committed(tree) \in Worktree
         /\ Committed(tree).head \in Commit
         /\ Committed(tree).tree = tree.tree
         /\ ~Committed(tree).dirty
<1>1. tree.head + 1 \in Commit
  BY CommitBound
<1> QED
  BY <1>1 DEF Committed, Worktree, CommitOrNone

LEMMA KeptByAgent ==
  ASSUME LoopInv, NothingTakenBack, NEW w \in Worker,
         AgentEdits(w) \/ AgentCommits(w) \/ AgentStrays(w)
  PROVE  LoopKept
<1>1. /\ daemon[w].phase \notin {"down", "idle"} /\ UNCHANGED daemon
      /\ UNCHANGED faults \/ \E f \in Fault : Fails(f)
  BY FaultNames DEF AgentEdits, AgentCommits, AgentStrays, In
<1>2. /\ Tree(w) \in Worktree
      /\ Tree(w).tree => Tree(w).head \in Commit
      /\ Tree(w).dirty => Tree(w).tree
  BY <1>1, TreeType
<1>3. CASE AgentEdits(w)
  <2> DEFINE tree == [Tree(w) EXCEPT !.dirty = TRUE]
  <2>1. SetTree(w, tree) /\ Tree(w).tree
    BY <1>3 DEF AgentEdits
  <2>2. tree \in Worktree /\ tree.tree = Tree(w).tree /\ tree.head = Tree(w).head
    BY <1>2 DEF Worktree
  <2>3. DisksOK'
    BY <1>1, <1>2, <2>1, <2>2, TreeSet
  <2> QED
    BY <1>1, <2>3, JobsKept, FaultsKept DEF LoopKept, LoopInv
<1>4. CASE AgentCommits(w)
  <2>1. SetTree(w, Committed(Tree(w))) /\ Tree(w).dirty /\ Tree(w).head < MaxCommit
    BY <1>4 DEF AgentCommits
  <2>2. Tree(w).head \in Commit /\ Tree(w).head + 1 <= MaxCommit
    BY <1>2, <2>1, CommitBound, DaemonAssumption DEF DaemonAssumption
  <2>3. DisksOK'
    BY <1>1, <1>2, <2>1, <2>2, CommittedType, TreeSet
  <2> QED
    BY <1>1, <2>3, JobsKept, FaultsKept DEF LoopKept, LoopInv
<1>5. CASE AgentStrays(w)
  <2>1. PICK tree \in Strayed(Tree(w)) : SetTree(w, tree) /\ Tree(w).tree
    BY <1>5 DEF AgentStrays
  <2>2. tree \in Worktree /\ tree.tree = Tree(w).tree /\ tree.head = Tree(w).head
    BY <1>2 DEF Strayed, Worktree, Checkout
  <2>3. DisksOK'
    BY <1>1, <1>2, <2>1, <2>2, TreeSet
  <2> QED
    BY <1>1, <2>3, JobsKept, FaultsKept DEF LoopKept, LoopInv
<1> QED
  BY <1>3, <1>4, <1>5

LEMMA KeptByWatch ==
  ASSUME LoopInv, NothingTakenBack, NEW w \in Worker, Watch(w)
  PROVE  LoopKept
<1> DEFINE job == [daemon[w] EXCEPT !.told = TRUE]
<1>1. /\ daemon[w].phase \notin {"down", "idle"} /\ daemon[w].phase # "reporting"
      /\ daemon' = [daemon EXCEPT ![w].told = TRUE] /\ UNCHANGED disk /\ UNCHANGED faults
  BY DEF Watch
<1>2. daemon[w] \in Job
  BY DEF LoopInv, JobsOK
<1>3. job \in Job /\ job.phase = daemon[w].phase /\ job.session = daemon[w].session
  BY <1>2 DEF Job
<1>4. daemon' = [daemon EXCEPT ![w] = job]
  BY <1>1 DEF LoopInv, JobsOK
<1>5. job.session \in Session /\ task'[job.session].status # "absent"
  BY <1>1, <1>3 DEF LoopInv, JobsOK, NothingTakenBack
<1>6. JobsOK'
  BY <1>1, <1>3, <1>4, <1>5, JobTaken DEF LoopInv
<1> QED
  BY <1>1, <1>6, DisksKept, FaultsKept DEF LoopKept, LoopInv

LEMMA KeptByStops ==
  ASSUME LoopInv, NothingTakenBack, NEW w \in Worker, EngineStops(w)
  PROVE  LoopKept
<1>1. daemon[w].phase \notin {"down", "idle"} /\ UNCHANGED disk /\ UNCHANGED faults
  BY DEF EngineStops, In
<1>2. Tree(w) \in Worktree /\ "cancelled" \in FinalStatus /\ FALSE \in BOOLEAN
  BY <1>1, TreeType DEF FinalStatus
<1>3. JobsOK'
  BY <1>1, <1>2, InspectedType, JobConcludes DEF EngineStops, LoopInv
<1> QED
  BY <1>1, <1>3, DisksKept, FaultsKept DEF LoopKept, LoopInv

LEMMA KeptByCapture ==
  ASSUME LoopInv, NothingTakenBack, NEW w \in Worker, Capture(w)
  PROVE  LoopKept
<1>1. daemon[w].phase \notin {"down", "idle"} /\ Tree(w).tree /\ UNCHANGED faults
  BY DEF Capture, HasProject, In
<1>2. Tree(w) \in Worktree /\ Tree(w).head \in Commit
  BY <1>1, TreeType
<1>3. PICK tree \in Captured(Tree(w)) :
        /\ tree.head <= MaxCommit
        /\ SetTree(w, tree)
        /\ LET seen == Inspected(w, tree, None)
           IN Conclude(w, IF seen.state = "clean" THEN "completed" ELSE "failed", seen,
                       tree.head > 0)
  BY DEF Capture
<1>4. tree \in Worktree /\ tree.head \in Commit /\ tree.tree
  <2>1. CASE tree = Tree(w)
    BY <2>1, <1>1, <1>2
  <2>2. CASE tree \in {Committed(Tree(w)), [Committed(Tree(w)) EXCEPT !.dirty = TRUE]}
    <3>1. tree.head = Tree(w).head + 1
      BY <2>2, <1>2 DEF Committed, Worktree
    <3>2. /\ Committed(Tree(w)) \in Worktree /\ Committed(Tree(w)).head \in Commit
          /\ Committed(Tree(w)).tree
      BY <1>1, <1>2, <1>3, <3>1, CommittedType
    <3> QED
      BY <2>2, <3>2 DEF Worktree
  <2> QED
    BY <1>3, <2>1, <2>2 DEF Captured
<1>5. DisksOK'
  BY <1>1, <1>3, <1>4, TreeSet
<1> DEFINE seen == Inspected(w, tree, None)
<1>6. /\ (IF seen.state = "clean" THEN "completed" ELSE "failed") \in FinalStatus
      /\ (tree.head > 0) \in BOOLEAN
  BY DEF FinalStatus
<1>7. /\ seen.base \in CommitOrNone /\ seen.head \in CommitOrNone
      /\ seen.state \in CopyState /\ seen.reason \in RecoveryReasons \cup {None}
  BY <1>4, InspectedType DEF LoopInv
<1>8. JobsOK'
  BY <1>1, <1>3, <1>6, <1>7, JobConcludes DEF LoopInv
<1> QED
  BY <1>1, <1>5, <1>8, FaultsKept DEF LoopKept, LoopInv

(* Somebody deletes a worktree.                                            *)
LEMMA KeptByRemoval ==
  ASSUME LoopInv, NothingTakenBack, NEW d \in Storage, NEW i \in Issue, WorktreeRemoved(d, i)
  PROVE  LoopKept
<1> DEFINE tree == [NoWorktree EXCEPT !.branch = disk[d][i].branch, !.base = disk[d][i].base]
<1>1. disk' = [disk EXCEPT ![d] = [disk[d] EXCEPT ![i] = tree]]
  BY DEF WorktreeRemoved, LoopInv, DisksOK
<1>2. tree \in Worktree /\ ~tree.tree /\ ~tree.dirty
  <2>1. disk[d][i] \in Worktree
    BY DEF LoopInv, DisksOK
  <2> QED
    BY <2>1 DEF NoWorktree, Worktree, Checkout, CommitOrNone
<1>3. DisksOK'
  BY <1>1, <1>2 DEF LoopInv, DisksOK
<1> QED
  BY <1>3, JobsKept, FaultsKept, FaultNames DEF WorktreeRemoved, LoopKept, LoopInv

LEMMA LoopStep ==
  ASSUME Covers, LoopInv, [DaemonNext]_wvars
  PROVE  LoopInv'
<1>1. [Next]_vars
  BY ServerStep DEF LoopInv
<1>2. TypeOK'
  BY <1>1, TypeStep DEF LoopInv
<1>3. NothingTakenBack
  BY <1>1, StartedStays DEF NothingTakenBack, SameTask, LoopInv
<1>4. CASE Client \/ (\E s \in Session : GoesStale(s)) \/ UNCHANGED wvars
  <2>1. UNCHANGED <<daemon, disk, faults>>
    BY <1>4 DEF Client, GoesStale, wvars
  <2> QED
    BY <1>2, <1>3, <2>1, JobsKept, DisksKept, FaultsKept DEF LoopInv
<1>5. CASE \E d \in Storage, i \in Issue : WorktreeRemoved(d, i)
  BY <1>2, <1>3, <1>5, KeptByRemoval DEF LoopKept, LoopInv
<1>6. CASE \E w \in Worker :
             \/ Start(w) \/ Crash(w) \/ ShutDown(w) \/ Claim(w) \/ Mark(w) \/ Send(w)
  BY <1>2, <1>3, <1>6, KeptByProcess DEF LoopKept, LoopInv
<1>7. CASE \E w \in Worker : Prepare(w)
  BY <1>2, <1>3, <1>7, KeptByAborts, KeptByEntering, KeptByAddWorktree, KeptByMetadata,
     KeptByReuse
  DEF Prepare, LoopKept, LoopInv
<1>8. CASE \E w \in Worker : Finish(w) /\ ~Send(w)
  BY <1>2, <1>3, <1>8, KeptByAborts, KeptByEntering, KeptByUnavailable, KeptByStops,
     KeptByCapture DEF Finish, LoopKept, LoopInv
<1>9. CASE \E w \in Worker : AgentEdits(w) \/ AgentCommits(w) \/ AgentStrays(w) \/ Watch(w)
  BY <1>2, <1>3, <1>9, KeptByAgent, KeptByWatch DEF LoopKept, LoopInv
<1> QED
  BY <1>4, <1>5, <1>6, <1>7, <1>8, <1>9 DEF DaemonNext

LEMMA LoopInit == DaemonInit => LoopInv
<1> SUFFICES ASSUME DaemonInit PROVE LoopInv
  OBVIOUS
<1>1. TypeOK
  BY TypeInit DEF DaemonInit
<1>2. JobsOK
  BY NoJobType DEF DaemonInit, JobsOK
<1>3. NoWorktree \in Worktree /\ ~NoWorktree.tree /\ ~NoWorktree.dirty
  BY DEF NoWorktree, Worktree, Checkout, CommitOrNone
<1>4. DisksOK
  BY <1>3 DEF DaemonInit, DisksOK
<1>5. FaultsOK
  BY DEF DaemonInit, FaultsOK
<1> QED
  BY <1>1, <1>2, <1>4, <1>5 DEF LoopInv

-----------------------------------------------------------------------------
(* One writer.                                                             *)

(* No two workers keep their storage id under the same root, and the       *)
(* sessions they are given are working-copy sessions: the loop modelled    *)
(* here is the one for these.                                              *)
OwnCopies == AutoDeploy = FALSE /\ \A v, w \in Worker : Root[v] = Root[w] => v = w

Busy(w) == daemon[w].phase \notin {"down", "idle"}
Held(s) == task[s].status \in {"claimed", "running"}

(* A claimed task is bound to the storage of its claimant.                 *)
BoundTask(s) ==
  /\ task[s].status # "absent" => task[s].kind = "copy"
  /\ task[s].claimedBy # None => task[s].affinity = Root[task[s].claimedBy]
  /\ Held(s) => /\ task[s].claimedBy # None
                /\ wc[task[s].issue].storage = Root[task[s].claimedBy]
(* A running worker is registered with its own storage id.                 *)
Registered(w) ==
  /\ worker[w].storage \in {None, Root[w]}
  /\ daemon[w].phase # "down" => worker[w].storage = Root[w]
(* The task of a busy worker is still its own.                             *)
Owner(w) == Busy(w) => Held(daemon[w].session) /\ task[daemon[w].session].claimedBy = w

FleetInv ==
  /\ \A s \in Session : BoundTask(s)
  /\ \A w \in Worker : Registered(w) /\ Owner(w)

(* What most steps do to a task, a worker and its job.                     *)
TaskGoesOn(s) ==
  \/ /\ task[s].status = "absent" /\ task'[s].status = "queued"
     /\ task'[s].kind = "copy" /\ task'[s].claimedBy = None
  \/ /\ task'[s].kind = task[s].kind /\ task'[s].claimedBy = task[s].claimedBy
     /\ task'[s].affinity = task[s].affinity /\ task'[s].issue = task[s].issue
     /\ task[s].status = "absent" => task'[s].status = "absent"
     /\ Held(s)' => Held(s)
WorkerGoesOn(w) ==
  \/ worker'[w].storage = Root[w]
  \/ /\ worker'[w].storage = worker[w].storage
     /\ daemon'[w].phase # "down" => daemon[w].phase # "down"
JobGoesOn(w) ==
  Busy(w)' => /\ Busy(w) /\ daemon'[w].session = daemon[w].session
              /\ Held(daemon[w].session)'

LEMMA RootType == \A w \in Worker : Root[w] \in Storage /\ Root[w] # None
BY DaemonAssumption, NoneAssumption DEF DaemonAssumption

LEMMA FleetGoesOn ==
  ASSUME LoopInv, FleetInv,
         \A i \in Issue : wc[i].storage # None => wc'[i].storage = wc[i].storage,
         \A s \in Session : TaskGoesOn(s),
         \A w \in Worker : WorkerGoesOn(w) /\ JobGoesOn(w)
  PROVE  FleetInv'
<1>1. ASSUME NEW s \in Session PROVE BoundTask(s)'
  <2>1. /\ BoundTask(s) /\ TaskGoesOn(s) /\ task[s].claimedBy \in Worker \cup {None}
        /\ task[s].status # "absent" => task[s].issue \in Issue
    BY DEF FleetInv, LoopInv, TypeOK, TaskRecord
  <2>2. CASE task[s].status = "absent" /\ task'[s].claimedBy = None
    BY <2>1, <2>2 DEF BoundTask, TaskGoesOn, Held
  <2>3. CASE ~(task[s].status = "absent" /\ task'[s].claimedBy = None)
    <3>1. /\ task'[s].kind = task[s].kind /\ task'[s].claimedBy = task[s].claimedBy
          /\ task'[s].affinity = task[s].affinity /\ task'[s].issue = task[s].issue
          /\ task[s].status = "absent" => task'[s].status = "absent"
          /\ Held(s)' => Held(s)
      BY <2>1, <2>3 DEF TaskGoesOn
    <3>2. Held(s) => /\ task[s].issue \in Issue /\ task[s].claimedBy \in Worker
                     /\ wc[task[s].issue].storage = Root[task[s].claimedBy]
      BY <2>1 DEF BoundTask, Held
    <3>3. Held(s)' => wc'[task[s].issue].storage = Root[task[s].claimedBy]
      BY <3>1, <3>2, RootType
    <3> QED BY <2>1, <3>1, <3>3 DEF BoundTask
  <2> QED BY <2>2, <2>3
<1>2. ASSUME NEW w \in Worker PROVE Registered(w)'
  BY DEF FleetInv, Registered, WorkerGoesOn
<1>3. ASSUME NEW w \in Worker PROVE Owner(w)'
  <2> SUFFICES ASSUME Busy(w)'
               PROVE  Held(daemon[w].session)' /\ task'[daemon'[w].session].claimedBy = w
    BY DEF Owner
  <2>1. /\ Busy(w) /\ daemon'[w].session = daemon[w].session
        /\ Held(daemon[w].session)'
    BY DEF JobGoesOn
  <2>2. daemon[w].session \in Session /\ task[daemon[w].session].claimedBy = w
    BY <2>1 DEF FleetInv, Owner, Busy, LoopInv, JobsOK
  <2>3. task'[daemon[w].session].claimedBy = w
    BY <2>1, <2>2 DEF TaskGoesOn, FleetInv, Owner, Held
  <2> QED BY <2>1, <2>3
<1> QED BY <1>1, <1>2, <1>3 DEF FleetInv


(* Clients, the passing of time and the private steps of a worker.         *)
LEMMA FleetBystanders ==
  ASSUME OwnCopies, LoopInv, RecordInv, FleetInv, [Next]_vars,
         \/ Client \/ \E s \in Session : GoesStale(s)
         \/ \E d \in Storage, i \in Issue : WorktreeRemoved(d, i)
         \/ UNCHANGED wvars
  PROVE  FleetInv'
<1>1. UNCHANGED daemon
  BY DEF Client, GoesStale, WorktreeRemoved, wvars
<1>2. \A w \in Worker : worker'[w].storage = worker[w].storage
  <2>1. UNCHANGED worker \/ \E w \in Worker : WorkerFallsSilent(w)
    BY DEF Client, GoesStale, WorktreeRemoved, wvars, server, CreateIssue, CreateCopySession,
       RequestCancel, CancelNow, TaskGoesStale
  <2> QED BY <2>1 DEF WorkerFallsSilent, LoopInv, TypeOK, WorkerRecord
<1>3. task \in [Session -> TaskRecord] /\ \A s \in Session : BoundTask(s)
  BY DEF LoopInv, TypeOK, FleetInv
<1>4. ASSUME NEW s \in Session
      PROVE  TaskGoesOn(s) /\ (Held(s) => Held(s)')
  <2>1. CASE UNCHANGED task
    BY <2>1 DEF TaskGoesOn, Held
  <2>2. CASE \E i \in Issue, t \in Session : CreateCopySession(i, t)
    <3> PICK i \in Issue, t \in Session : CreateCopySession(i, t)
      BY <2>2
    <3> DEFINE queued == QueuedTask("copy", i, CopyOf(i))
    <3>1. queued.status = "queued" /\ queued.kind = "copy" /\ queued.claimedBy = None
      BY DEF QueuedTask, NoTask
    <3>2. task' = [task EXCEPT ![t] = queued] /\ task[t].status = "absent"
      BY DEF CreateCopySession, CanStartSession
    <3> HIDE DEF queued
    <3> QED BY <1>3, <3>1, <3>2 DEF TaskGoesOn, Held
  <2>3. CASE \E t \in Session : RequestCancel(t)
    BY <1>3, <2>3 DEF RequestCancel, TaskRecord, TaskGoesOn, Held
  <2>4. CASE \E t \in Session : CancelNow(t)
    <3> PICK t \in Session : CancelNow(t)
      BY <2>4
    <3>1. task[t].status = "queued" /\ task' = [task EXCEPT ![t].status = "cancelled"]
      BY <1>3 DEF CancelNow, IsCopyTask, Live, LiveStatus, BoundTask
    <3> QED BY <1>3, <3>1 DEF TaskRecord, TaskGoesOn, Held
  <2>5. CASE \E t \in Session : TaskGoesStale(t)
    BY <1>3, <2>5 DEF TaskGoesStale, TaskRecord, TaskGoesOn, Held
  <2> QED BY <2>1, <2>2, <2>3, <2>4, <2>5
          DEF Client, GoesStale, WorktreeRemoved, wvars, server, CreateIssue,
              WorkerFallsSilent
<1>5. ASSUME NEW w \in Worker
      PROVE  WorkerGoesOn(w) /\ JobGoesOn(w)
  <2>1. Busy(w) => daemon[w].session \in Session /\ Held(daemon[w].session)
    BY DEF Busy, LoopInv, JobsOK, FleetInv, Owner
  <2> QED BY <1>1, <1>2, <1>4, <2>1 DEF WorkerGoesOn, JobGoesOn, Busy
<1> QED BY <1>4, <1>5, StorageStep, FleetGoesOn

(* A private step of w is part of w's job, or its end.                     *)
LEMMA PrivateJob ==
  ASSUME JobsOK, NEW w \in Worker, Private(w)
  PROVE  /\ \A v \in Worker \ {w} : daemon'[v] = daemon[v]
         /\ \/ daemon'[w] = NoJob("down")
            \/ /\ Busy(w) /\ daemon'[w].session = daemon[w].session
               /\ daemon'[w].initialize = daemon[w].initialize
<1>1. daemon \in [Worker -> Job]
  BY DEF JobsOK
<1>2. CASE Crash(w)
  BY <1>1, <1>2 DEF Crash
<1>3. CASE ~Crash(w)
  <2>1. /\ Busy(w)
        /\ \/ UNCHANGED daemon
           \/ \E phase : Enter(w, phase)
           \/ \E status, seen, source : Conclude(w, status, seen, source)
           \/ \E phase, base : daemon' = [daemon EXCEPT ![w] = [@ EXCEPT !.phase = phase, !.base = base]]
           \/ \E phase, r : daemon' = [daemon EXCEPT ![w] = [@ EXCEPT !.phase = phase, !.report = r]]
           \/ \E told : daemon' = [daemon EXCEPT ![w].told = told]
    <3>1. CASE Prepare(w)
      BY <3>1 DEF Prepare, Busy, In, RepositoryFails, WorktreeMissing, AddWorktree,
         AddRefused, WriteMetadata, MetadataFails, Reuse, Refuse, ProjectMissing, SetUp,
         SetUpFails, Abort
    <3>2. CASE \/ AgentEdits(w) \/ AgentCommits(w) \/ AgentStrays(w) \/ Watch(w)
               \/ BeginEngine(w) \/ EngineUnavailable(w) \/ EngineEnds(w)
      BY <3>2 DEF AgentEdits, AgentCommits, AgentStrays, Watch, BeginEngine, EngineUnavailable,
         EngineEnds, Busy, In
    <3>3. CASE EngineFails(w) \/ EngineStops(w) \/ Capture(w) \/ CaptureFails(w)
      BY <3>3 DEF EngineFails, EngineStops, Capture, CaptureFails, Abort, Busy, In
    <3> QED BY <1>3, <3>1, <3>2, <3>3 DEF Private
  <2>2. daemon[w] \in Job
    BY <1>1
  <2> QED BY <1>1, <2>1, <2>2 DEF Enter, Conclude, Job
<1> QED BY <1>2, <1>3

(* What a step of w's process leaves of the other workers.                 *)
LEMMA FleetOthers ==
  ASSUME LoopInv, FleetInv, NEW w \in Worker,
         \A v \in Worker \ {w} : daemon'[v] = daemon[v] /\ worker'[v].storage = worker[v].storage,
         WorkerGoesOn(w), JobGoesOn(w),
         \A i \in Issue : wc[i].storage # None => wc'[i].storage = wc[i].storage,
         \A s \in Session : TaskGoesOn(s),
         \A s \in Session : task[s].claimedBy # w => (Held(s) => Held(s)')
  PROVE  FleetInv'
<1>1. ASSUME NEW v \in Worker \ {w} PROVE WorkerGoesOn(v) /\ JobGoesOn(v)
  <2>1. Busy(v) => /\ daemon[v].session \in Session /\ Held(daemon[v].session)
                   /\ task[daemon[v].session].claimedBy = v
    BY DEF Busy, LoopInv, JobsOK, FleetInv, Owner
  <2> QED BY <2>1 DEF WorkerGoesOn, JobGoesOn, Busy
<1> QED BY <1>1, FleetGoesOn

(* The process starts, dies, or goes on by itself.                         *)
LEMMA FleetProcess ==
  ASSUME LoopInv, RecordInv, FleetInv, [Next]_vars, NEW w \in Worker,
         Start(w) \/ ShutDown(w) \/ Private(w)
  PROVE  FleetInv'
<1>1. UNCHANGED <<wc, task>>
  BY PrivateUnseen DEF Start, ShutDown, RegisterWorker, Heartbeat, vars
<1>2. \A s \in Session : TaskGoesOn(s) /\ (Held(s) => Held(s)')
  BY <1>1 DEF TaskGoesOn, Held
<1>3. daemon \in [Worker -> Job] /\ worker \in [Worker -> WorkerRecord]
  BY DEF LoopInv, JobsOK, TypeOK
<1>4. CASE Start(w) \/ ShutDown(w)
  <2>1. \E phase \in {"down", "idle"} : daemon' = [daemon EXCEPT ![w] = NoJob(phase)]
    BY <1>4 DEF Start, ShutDown, Idle
  <2>2. daemon'[w].phase \in {"down", "idle"} /\ \A v \in Worker \ {w} : daemon'[v] = daemon[v]
    BY <1>3, <2>1, NoJobType
  <2>3. worker'[w].storage = Root[w] /\ \A v \in Worker \ {w} : worker'[v] = worker[v]
    BY <1>3, <1>4, RootType DEF Start, ShutDown, RegisterWorker, Heartbeat
  <2> QED BY <1>1, <1>2, <2>2, <2>3, FleetOthers DEF WorkerGoesOn, JobGoesOn, Busy
<1>5. CASE Private(w)
  <2>1. UNCHANGED worker
    BY <1>5, PrivateUnseen DEF vars
  <2>2. \A v \in Worker \ {w} : daemon'[v] = daemon[v]
    BY <1>5, PrivateJob DEF LoopInv
  <2>3. Busy(w)' => Busy(w) /\ daemon'[w].session = daemon[w].session
    BY <1>5, PrivateJob, NoJobType DEF Busy, LoopInv
  <2>4. daemon'[w].phase # "down" => daemon[w].phase # "down"
    BY <1>5, PrivateJob, NoJobType DEF Busy, LoopInv
  <2>5. Busy(w) => daemon[w].session \in Session /\ Held(daemon[w].session)
    BY DEF Busy, LoopInv, JobsOK, FleetInv, Owner
  <2>6. Busy(w)' => Held(daemon[w].session)'
    BY <1>1, <2>3, <2>5 DEF Held
  <2> QED BY <1>1, <1>2, <2>1, <2>2, <2>3, <2>4, <2>6, FleetOthers DEF WorkerGoesOn, JobGoesOn
<1> QED BY <1>4, <1>5

(* The answer to a claimed task, and the last report of a session.         *)
LEMMA FleetMark ==
  ASSUME LoopInv, RecordInv, FleetInv, [Next]_vars, NEW w \in Worker, Mark(w)
  PROVE  FleetInv'
<1> DEFINE s == daemon[w].session
<1>1. Busy(w) /\ s \in Session /\ task[s] \in TaskRecord
      /\ Held(s) /\ task[s].claimedBy = w
  BY DEF Mark, In, Busy, LoopInv, JobsOK, TypeOK, FleetInv, Owner
<1>2. UNCHANGED <<wc, worker>>
  BY DEF Mark, MarkRunning, server
<1>3. \/ UNCHANGED task
      \/ task' = [task EXCEPT ![s] = [@ EXCEPT !.status = "running", !.stale = FALSE]]
  BY DEF Mark, MarkRunning, server
<1>4. \A t \in Session : TaskGoesOn(t) /\ (Held(t) => Held(t)')
  <2>1. /\ \A t \in Session \ {s} : task'[t] = task[t]
        /\ \/ task'[s] = task[s]
           \/ task'[s] = [task[s] EXCEPT !.status = "running", !.stale = FALSE]
    BY <1>1, <1>3 DEF LoopInv, TypeOK
  <2>2. /\ task'[s].kind = task[s].kind /\ task'[s].claimedBy = task[s].claimedBy
        /\ task'[s].affinity = task[s].affinity /\ task'[s].issue = task[s].issue
        /\ task'[s].status \in {"claimed", "running"} /\ task[s].status # "absent"
    BY <1>1, <2>1 DEF Held, TaskRecord
  <2>3. ASSUME NEW t \in Session PROVE TaskGoesOn(t) /\ (Held(t) => Held(t)')
    <3>1. CASE t = s
      BY <1>1, <2>2, <3>1 DEF TaskGoesOn, Held
    <3>2. CASE t # s
      BY <2>1, <3>2 DEF TaskGoesOn, Held
    <3> QED BY <3>1, <3>2
  <2> QED BY <2>3
<1>5. daemon \in [Worker -> Job] /\ (Enter(w, "preparing") \/ Idle(w))
  BY DEF Mark, LoopInv, JobsOK
<1>6. /\ \A v \in Worker \ {w} : daemon'[v] = daemon[v]
      /\ Busy(w)' => daemon'[w].session = s
  BY <1>5, NoJobType DEF Enter, Idle, Busy, Job
<1> QED BY <1>1, <1>2, <1>4, <1>6, FleetOthers DEF WorkerGoesOn, JobGoesOn, Busy

LEMMA FleetSend ==
  ASSUME OwnCopies, LoopInv, RecordInv, FleetInv, [Next]_vars, NEW w \in Worker, Send(w)
  PROVE  FleetInv'
<1> DEFINE s == daemon[w].session
           status == EffectiveStatus(s, daemon[w].report.status)
           done == FinishedTask(s, w, status, daemon[w].report)
<1>1. s \in Session /\ task[s] \in TaskRecord /\ task[s].claimedBy = w /\ Held(s)
  BY DEF Send, In, Busy, LoopInv, JobsOK, TypeOK, FleetInv, Owner
<1>2. UNCHANGED worker
  BY DEF Send, FinishTask, server
<1>3. UNCHANGED task \/ task' = [task EXCEPT ![s] = done]
  BY DEF Send, FinishTask, server, OwnCopies, QueuesDeploy
<1>4. /\ done.kind = task[s].kind /\ done.claimedBy = w /\ done.issue = task[s].issue
      /\ done.affinity = task[s].affinity
  BY <1>1 DEF FinishedTask, TaskRecord
<1> HIDE DEF done
<1>5. task[s].status # "absent"
  BY <1>1 DEF Held
<1>6. \A t \in Session : TaskGoesOn(t) /\ (task[t].claimedBy # w => (Held(t) => Held(t)'))
  BY <1>1, <1>3, <1>4, <1>5 DEF TaskGoesOn, Held, LoopInv, TypeOK
<1>7. daemon \in [Worker -> Job] /\ Idle(w)
  BY DEF Send, LoopInv, JobsOK
<1>8. ~Busy(w)' /\ daemon[w].phase # "down" /\ \A v \in Worker \ {w} : daemon'[v] = daemon[v]
  BY <1>7, NoJobType DEF Idle, Busy, Send, In
<1> QED BY <1>2, <1>6, <1>8, StorageStep, FleetOthers DEF WorkerGoesOn, JobGoesOn

(* A worker claims only what no other one works on.                        *)
LEMMA ClaimIsFree ==
  ASSUME OwnCopies, LoopInv, FleetInv, NEW w \in Worker, In(w, "idle"),
         NEW s \in Candidates(w)
  PROVE  /\ s \in Session /\ Live(s) /\ IsCopyTask(s) /\ worker[w].storage = Root[w]
         /\ wc[task[s].issue].storage \in {None, Root[w]}
         /\ \A v \in Worker : Busy(v) => daemon[v].session # s
<1>1. s \in Session /\ Live(s)
  BY CandidatesAreLive
<1>2. worker[w].storage = Root[w] /\ BoundTask(s)
  BY <1>1 DEF FleetInv, Registered, In
<1>3. IsCopyTask(s)
  BY <1>1, <1>2 DEF IsCopyTask, BoundTask, Live, LiveStatus
<1>4. MatchesStorage(s, w)
  BY <1>3 DEF Candidates, StaleCandidates, QueuedCandidates, FirstOf
<1>5. ASSUME NEW v \in Worker, Busy(v), daemon[v].session = s PROVE FALSE
  <2>1. task[s].affinity = Root[v]
    BY <1>2, <1>5, NoneAssumption DEF FleetInv, Owner, BoundTask
  <2>2. Root[v] = Root[w]
    BY <1>2, <1>4, <2>1, RootType DEF MatchesStorage
  <2>3. v = w
    BY <2>2 DEF OwnCopies
  <2> QED BY <1>5, <2>3 DEF Busy, In
<1> QED BY <1>1, <1>2, <1>3, <1>4, <1>5 DEF MatchesStorage

LEMMA FleetClaim ==
  ASSUME OwnCopies, LoopInv, RecordInv, FleetInv, [Next]_vars, NEW w \in Worker, Claim(w)
  PROVE  FleetInv'
<1>1. PICK s \in Candidates(w) :
        /\ ClaimTask(w, s)
        /\ \/ daemon' = [daemon EXCEPT ![w] =
                [@ EXCEPT !.phase = "claimed", !.session = s,
                          !.initialize = wc[task[s].issue].state = "uninitialized"]]
           \/ UNCHANGED daemon
  BY DEF Claim
<1>2. /\ s \in Session /\ Live(s) /\ IsCopyTask(s) /\ worker[w].storage = Root[w]
      /\ wc[task[s].issue].storage \in {None, Root[w]}
      /\ \A v \in Worker : Busy(v) => daemon[v].session # s
  BY ClaimIsFree DEF Claim
<1>3. task[s].issue \in Issue /\ wc \in [Issue -> CopyRecord] /\ task[s] \in TaskRecord
  BY <1>2 DEF LoopInv, TypeOK, IsCopyTask
<1>4. task' = [task EXCEPT ![s] = ClaimedTask(s, w)] /\ UNCHANGED worker
  BY <1>1 DEF ClaimTask
<1>5. /\ ClaimedTask(s, w).status = "claimed" /\ ClaimedTask(s, w).claimedBy = w
      /\ ClaimedTask(s, w).affinity = Root[w] /\ ClaimedTask(s, w).issue = task[s].issue
      /\ ClaimedTask(s, w).kind = "copy"
  BY <1>2, <1>3 DEF ClaimedTask, TaskRecord, IsCopyTask
<1>6. wc'[task[s].issue].storage = Root[w]
  BY <1>1, <1>2, <1>3 DEF ClaimTask, CopyRecord
<1>7. /\ task'[s] = ClaimedTask(s, w)
      /\ \A t \in Session \ {s} : task'[t] = task[t]
  BY <1>2, <1>4 DEF LoopInv, TypeOK
<1>8. BoundTask(s)'
  BY <1>5, <1>6, <1>7, NoneAssumption DEF BoundTask
<1>9. ASSUME NEW t \in Session \ {s} PROVE BoundTask(t)'
  <2>1. BoundTask(t) /\ task[t].claimedBy \in Worker \cup {None}
        /\ (Held(t) => task[t].issue \in Issue)
    BY DEF FleetInv, LoopInv, TypeOK, TaskRecord, Held
  <2>2. Held(t) => wc'[task[t].issue].storage = Root[task[t].claimedBy]
    BY <2>1, StorageStep, RootType DEF BoundTask
  <2> QED BY <1>7, <2>1, <2>2 DEF BoundTask, Held
<1>10. ASSUME NEW v \in Worker PROVE Registered(v)' /\ Owner(v)'
  <2>1. daemon \in [Worker -> Job] /\ daemon[w].phase = "idle"
    BY DEF LoopInv, JobsOK, Claim, In
  <2>2. CASE daemon'[v] = daemon[v]
    <3>1. Registered(v) /\ Owner(v) /\ (Busy(v) => daemon[v].session \in Session \ {s})
      BY <1>2 DEF FleetInv, Busy, LoopInv, JobsOK
    <3> QED BY <1>4, <1>7, <2>2, <3>1 DEF Registered, Owner, Busy, Held
  <2>3. CASE daemon'[v] # daemon[v]
    <3>1. v = w /\ daemon'[w].session = s
      BY <1>1, <2>1, <2>3 DEF Job
    <3> QED BY <1>2, <1>4, <1>5, <1>7, <3>1 DEF Registered, Owner, Held
  <2> QED BY <2>2, <2>3
<1> QED BY <1>8, <1>9, <1>10 DEF FleetInv

LEMMA FleetStep ==
  ASSUME Covers, OwnCopies, LoopInv, RecordInv, FleetInv, [DaemonNext]_wvars
  PROVE  FleetInv'
<1>1. [Next]_vars
  BY ServerStep DEF LoopInv
<1>2. ASSUME NEW w \in Worker,
             \/ Start(w) \/ Crash(w) \/ ShutDown(w) \/ Claim(w) \/ Mark(w) \/ Prepare(w)
             \/ Finish(w) \/ AgentEdits(w) \/ AgentCommits(w) \/ AgentStrays(w) \/ Watch(w)
      PROVE  FleetInv'
  BY <1>1, <1>2, FleetProcess, FleetMark, FleetSend, FleetClaim DEF Private, Finish
<1> QED BY <1>1, <1>2, FleetBystanders DEF DaemonNext

LEMMA FleetInit == DaemonInit => FleetInv
BY NoJobType, RootType
   DEF DaemonInit, Init, FleetInv, BoundTask, Registered, Owner, Busy, Held, NoTask, NoJob

LEMMA FleetInvariant ==
  ASSUME Covers, OwnCopies
  PROVE  DaemonSpec => [](LoopInv /\ RecordInv /\ FleetInv)
<1>1. RecordInv /\ [Next]_vars => RecordInv'
  BY TypeStep, ReservationStep, BlankStep DEF RecordInv
<1>2. LoopInv /\ RecordInv /\ FleetInv /\ [DaemonNext]_wvars
        => (LoopInv /\ RecordInv /\ FleetInv)'
  <2>1. LoopInv /\ [DaemonNext]_wvars => [Next]_vars
    BY ServerStep DEF LoopInv
  <2> QED BY <1>1, <2>1, LoopStep, FleetStep
<1>3. DaemonInit => LoopInv /\ RecordInv /\ FleetInv
  <2>1. Init => RecordInv
    BY TypeInit, ReservationInit DEF RecordInv, AbsentIsBlank, Init
  <2> QED BY <2>1, LoopInit, FleetInit DEF DaemonInit
<1> QED BY <1>2, <1>3, PTL DEF DaemonSpec

(* The turn of a busy worker is the one its issue's record is reserved for. *)
LEMMA Writer ==
  ASSUME LoopInv, RecordInv, FleetInv, NEW w \in Worker, Busy(w)
  PROVE  LET s == daemon[w].session
             i == TaskOf(w).issue
         IN /\ s \in Session /\ LiveCopyTask(s) /\ Held(s) /\ task[s].claimedBy = w
            /\ i \in Issue /\ wc[i] \in CopyRecord
            /\ wc[i].active = s /\ wc[i].gen = task[s].gen /\ wc[i].head = task[s].head
            /\ wc[i].state \in {"uninitialized", "clean", "dirty"}
            /\ wc[i].storage = Root[w] /\ worker[w].storage = Root[w]
<1> DEFINE s == daemon[w].session
           i == TaskOf(w).issue
<1>1. s \in Session /\ BoundTask(s) /\ Held(s) /\ task[s].claimedBy = w
      /\ task[s].status # "absent"
  BY DEF Busy, LoopInv, JobsOK, FleetInv, Owner
<1>2. LiveCopyTask(s)
  BY <1>1 DEF BoundTask, Held, LiveCopyTask, IsCopyTask, Live, LiveStatus
<1>3. ReservationExact
  BY ReservationIsConsistency DEF RecordInv
<1>4. i \in Issue /\ wc[i] \in CopyRecord
  BY <1>1 DEF LoopInv, TypeOK, TaskOf
<1>5. wc[i].storage = Root[w] /\ worker[w].storage = Root[w]
  BY <1>1 DEF BoundTask, TaskOf, FleetInv, Registered, Busy
<1> HIDE DEF s
<1> QED BY <1>1, <1>2, <1>3, <1>4, <1>5 DEF ReservationExact, TaskOf, s

LEMMA WritersApart ==
  ASSUME LoopInv, RecordInv, FleetInv, NEW v \in Worker, NEW w \in Worker,
         Busy(v), Busy(w), TaskOf(v).issue = TaskOf(w).issue
  PROVE  v = w
BY Writer

-----------------------------------------------------------------------------
(* The worktree and the record.                                            *)

Recorded == {"clean", "dirty"}

(* No worker has the turn the record is in yet.                            *)
Waiting(i) == wc[i].active = None \/ task[wc[i].active].status = "queued"

(* The worktree of a record is there with its metadata, and as the record  *)
(* says until a worker has claimed the task of the next turn; a record     *)
(* that was never reported on has no base.                                 *)
Matches(copy, tree) ==
  tree.on = "branch" /\ tree.head = copy.head /\ tree.dirty = (copy.state = "dirty")
Described(i) ==
  /\ wc[i].state \in Recorded =>
       LET tree == disk[wc[i].storage][i] IN
       /\ wc[i].storage # None /\ wc[i].base # None
       /\ tree.tree /\ tree.base = wc[i].base
       /\ Waiting(i) => Matches(wc[i], tree)
  /\ wc[i].state = "uninitialized" => wc[i].base = None

(* A report that does not ask for recovery tells of the worktree as it is. *)
Says(r, tree) ==
  r.present /\ r.state \in Recorded =>
    /\ tree.tree /\ tree.on = "branch"
    /\ r.head = tree.head /\ tree.dirty = (r.state = "dirty")
    /\ r.base \in {None, tree.base}

(* What a worker knows of the worktree it prepares, changes or reports.    *)
Knows(w) ==
  /\ daemon[w].phase \in {"idle", "claimed", "preparing"} => daemon[w].base = None
  /\ Busy(w) => daemon[w].initialize = (wc[TaskOf(w).issue].state = "uninitialized")
  /\ In(w, "initializing") => Tree(w).tree /\ daemon[w].initialize /\ daemon[w].base # None
  /\ daemon[w].phase \in {"prepared", "starting", "engine", "capturing"} =>
       Tree(w).tree /\ Tree(w).base # None /\ daemon[w].base = Tree(w).base
  /\ In(w, "reporting") => Says(daemon[w].report, Tree(w))

CopiesKnown == (\A i \in Issue : Described(i)) /\ (\A w \in Worker : Knows(w))
CopyInv == faults["removal"] = 0 => CopiesKnown

(* What a step that no worker's job is part of does to a record.           *)
RecordGoesOn(i) ==
  \/ wc[i].state = "absent" /\ wc'[i].state = "uninitialized" /\ wc'[i].base = None
  \/ /\ wc'[i].state = wc[i].state /\ wc'[i].base = wc[i].base /\ wc'[i].head = wc[i].head
     /\ wc[i].state \in Recorded => wc'[i].storage = wc[i].storage
     /\ Waiting(i)' => Waiting(i)

LEMMA CopiesGoOn ==
  ASSUME LoopInv, RecordInv, FleetInv, CopiesKnown, [Next]_vars, UNCHANGED disk,
         \A i \in Issue : RecordGoesOn(i),
         \A w \in Worker : daemon'[w] = daemon[w] \/ Knows(w)'
  PROVE  CopiesKnown'
<1>1. ASSUME NEW i \in Issue PROVE Described(i)'
  <2>1. Described(i) /\ RecordGoesOn(i)
    BY DEF CopiesKnown
  <2> QED BY <2>1 DEF RecordGoesOn, Described, Recorded, Matches
<1>2. ASSUME NEW w \in Worker, daemon'[w] = daemon[w] PROVE Knows(w)'
  <2>1. Knows(w)
    BY DEF CopiesKnown
  <2>2. CASE ~Busy(w)
    BY <1>2, <2>1, <2>2 DEF Knows, Busy, In
  <2>3. CASE Busy(w)
    <3> DEFINE s == daemon[w].session
               i == TaskOf(w).issue
    <3>1. s \in Session /\ task[s].status # "absent"
      BY <2>3 DEF Busy, LoopInv, JobsOK
    <3>2. TaskOf(w)'.issue = i
      BY <1>2, <3>1, StartedStays DEF TaskOf, SameTask, LoopInv
    <3>3. Tree(w)' = Tree(w)
      BY <3>2 DEF Tree
    <3>4. i \in Issue /\ wc[i].state \in {"uninitialized", "clean", "dirty"}
      BY <2>3, Writer
    <3>5. wc'[i].state = wc[i].state
      BY <3>4 DEF RecordGoesOn
    <3> HIDE DEF s, i
    <3>6. (wc[TaskOf(w).issue].state)' = wc[TaskOf(w).issue].state
      BY <3>2, <3>5 DEF i
    <3> QED BY <1>2, <2>1, <3>3, <3>6 DEF Knows, Busy, In
  <2> QED BY <2>2, <2>3
<1> QED BY <1>1, <1>2 DEF CopiesKnown

(* Other reservations, and other workers' turns, are of other sessions.    *)
LEMMA ActiveApart ==
  ASSUME RecordInv, NEW i \in Issue, NEW s \in Session,
         ~LiveCopyTask(s) \/ task[s].issue # i
  PROVE  wc[i].active # s
<1>1. ReservationExact /\ s # None
  BY ReservationIsConsistency, NoneAssumption DEF RecordInv
<1> QED BY <1>1 DEF ReservationExact

(* A task changes without a change of its turn.                            *)
LEMMA WaitingStays ==
  ASSUME RecordInv, NEW i \in Issue, NEW s \in Session,
         \A t \in Session \ {s} : task'[t] = task[t],
         \/ task'[s].status = "queued" => task[s].status = "queued"
         \/ ~LiveCopyTask(s) \/ task[s].issue # i,
         wc'[i].active = wc[i].active, Waiting(i)'
  PROVE  Waiting(i)
<1>1. wc[i].active \in Session \cup {None}
  BY DEF RecordInv, TypeOK, CopyRecord
<1> QED BY <1>1, ActiveApart DEF Waiting

(* Clients and the passing of time.                                        *)
LEMMA CopiesClient ==
  ASSUME LoopInv, RecordInv, FleetInv, CopiesKnown, [Next]_vars,
         Client \/ \E s \in Session : GoesStale(s)
  PROVE  (\A i \in Issue : RecordGoesOn(i)) /\ CopiesKnown'
<1>1. UNCHANGED <<daemon, disk>>
  BY DEF Client, GoesStale
<1>2. wc \in [Issue -> CopyRecord] /\ task \in [Session -> TaskRecord]
  BY DEF LoopInv, TypeOK
<1> SUFFICES ASSUME NEW i \in Issue PROVE RecordGoesOn(i)
  BY <1>1, CopiesGoOn
<1>3. CASE UNCHANGED <<wc, task>>
  BY <1>3 DEF RecordGoesOn, Waiting
<1>4. ASSUME NEW j \in Issue, NEW s \in Session, CreateCopySession(j, s)
      PROVE  RecordGoesOn(i)
  <2> DEFINE copy == CopyOf(j)
  <2>1. /\ wc' = [wc EXCEPT ![j] = [copy EXCEPT !.active = s]]
        /\ task[s].status = "absent" /\ \A t \in Session \ {s} : task'[t] = task[t]
    BY <1>2, <1>4 DEF CreateCopySession, CanStartSession
  <2>2. copy \in CopyRecord /\ copy.active = None
    BY <1>4, CopyOfType DEF CreateCopySession, Reservable, LoopInv
  <2>3. CASE i # j
    <3>1. wc'[i] = wc[i]
      BY <1>2, <2>1, <2>3
    <3>2. ~LiveCopyTask(s)
      BY <2>1 DEF LiveCopyTask, IsCopyTask
    <3> QED BY <2>1, <3>1, <3>2, WaitingStays DEF RecordGoesOn
  <2>4. CASE i = j /\ wc[j].state = "absent"
    <3>1. copy.state = "uninitialized" /\ copy.base = None
      BY <2>4 DEF CopyOf, NoCopy
    <3> QED BY <1>2, <2>1, <2>2, <2>4, <3>1 DEF RecordGoesOn, CopyRecord
  <2>5. CASE i = j /\ wc[j].state # "absent"
    <3>1. copy = wc[i]
      BY <2>5 DEF CopyOf
    <3>2. wc'[i] = [wc[i] EXCEPT !.active = s] /\ wc[i] \in CopyRecord
      BY <1>2, <2>1, <2>5, <3>1
    <3>3. Waiting(i)
      BY <2>2, <3>1 DEF Waiting
    <3> QED BY <3>2, <3>3 DEF RecordGoesOn, CopyRecord
  <2> QED BY <2>3, <2>4, <2>5
<1>5. ASSUME NEW s \in Session, RequestCancel(s) \/ TaskGoesStale(s)
      PROVE  RecordGoesOn(i)
  <2>1. UNCHANGED wc /\ task[s] \in TaskRecord
    BY <1>2, <1>5 DEF RequestCancel, TaskGoesStale
  <2>2. task'[s].status = task[s].status /\ \A t \in Session \ {s} : task'[t] = task[t]
    <3>1. CASE RequestCancel(s)
      BY <1>2, <2>1, <3>1 DEF RequestCancel, TaskRecord
    <3>2. CASE TaskGoesStale(s)
      BY <1>2, <2>1, <3>2 DEF TaskGoesStale, TaskRecord
    <3> QED BY <1>5, <3>1, <3>2
  <2> QED BY <2>1, <2>2, WaitingStays DEF RecordGoesOn
<1>6. ASSUME NEW s \in Session, CancelNow(s)
      PROVE  RecordGoesOn(i)
  <2>1. BoundTask(s) /\ Live(s) /\ IsCopyTask(s) /\ task[s].status = "queued"
    BY <1>6 DEF CancelNow, FleetInv, BoundTask, IsCopyTask, Live, LiveStatus
  <2>2. LiveCopyTask(s) /\ ReservationExact
    BY <2>1, ReservationIsConsistency DEF LiveCopyTask, RecordInv
  <2>3. task[s].issue \in Issue /\ Holds(s) /\ wc[task[s].issue].gen = task[s].gen
    BY <2>1, <2>2 DEF ReservationExact, Holds, LoopInv, TypeOK
  <2>4. /\ wc' = [wc EXCEPT ![task[s].issue] = Released(wc[task[s].issue])]
        /\ \A t \in Session \ {s} : task'[t] = task[t]
    BY <1>2, <1>6, <2>3 DEF CancelNow
  <2>5. CASE i # task[s].issue
    BY <1>2, <2>3, <2>4, <2>5, WaitingStays DEF RecordGoesOn
  <2>6. CASE i = task[s].issue
    <3>1. wc'[i] = Released(wc[i]) /\ wc[i] \in CopyRecord /\ Waiting(i)
      BY <1>2, <2>1, <2>3, <2>4, <2>6 DEF Waiting, Holds
    <3> QED BY <3>1 DEF RecordGoesOn, Released, CopyRecord
  <2> QED BY <2>5, <2>6
<1> QED BY <1>3, <1>4, <1>5, <1>6 DEF Client, GoesStale, CreateIssue, WorkerFallsSilent

(* The process starts or dies, claims a task and marks it running.         *)
LEMMA CopiesProcess ==
  ASSUME LoopInv, RecordInv, FleetInv, CopiesKnown, [Next]_vars, NEW w \in Worker,
         Start(w) \/ Crash(w) \/ ShutDown(w)
  PROVE  CopiesKnown'
<1>1. UNCHANGED <<wc, task, disk>> /\ daemon \in [Worker -> Job]
  BY DEF Start, Crash, ShutDown, RegisterWorker, Heartbeat, server, LoopInv, JobsOK
<1>2. \E phase \in {"down", "idle"} : daemon' = [daemon EXCEPT ![w] = NoJob(phase)]
  BY DEF Start, Crash, ShutDown, Idle
<1>3. Knows(w)' /\ \A v \in Worker \ {w} : daemon'[v] = daemon[v]
  <2>1. daemon'[w].phase \in {"down", "idle"} /\ daemon'[w].base = None
    BY <1>1, <1>2 DEF NoJob
  <2>2. \A v \in Worker \ {w} : daemon'[v] = daemon[v]
    BY <1>1, <1>2
  <2> QED BY <2>1, <2>2 DEF Knows, Busy, In
<1>4. \A i \in Issue : RecordGoesOn(i)
  BY <1>1 DEF RecordGoesOn, Waiting
<1> QED BY <1>1, <1>3, <1>4, CopiesGoOn

LEMMA CopiesClaim ==
  ASSUME OwnCopies, LoopInv, RecordInv, FleetInv, CopiesKnown, [Next]_vars,
         NEW w \in Worker, Claim(w)
  PROVE  (\A i \in Issue : RecordGoesOn(i)) /\ CopiesKnown'
<1>1. PICK s \in Candidates(w) :
        /\ ClaimTask(w, s)
        /\ \/ daemon' = [daemon EXCEPT ![w] =
                [@ EXCEPT !.phase = "claimed", !.session = s,
                          !.initialize = wc[task[s].issue].state = "uninitialized"]]
           \/ UNCHANGED daemon
  BY DEF Claim
<1> DEFINE j == task[s].issue
<1>2. s \in Session /\ LiveCopyTask(s) /\ task[s].status # "absent"
  BY ClaimIsFree DEF Claim, LiveCopyTask, Live, LiveStatus
<1>3. j \in Issue /\ wc \in [Issue -> CopyRecord] /\ task[s] \in TaskRecord
  BY <1>2 DEF LoopInv, TypeOK
<1>4. /\ \A t \in Session \ {s} : task'[t] = task[t]
      /\ task'[s] = ClaimedTask(s, w) /\ task'[s].status = "claimed"
  BY <1>1, <1>2, <1>3 DEF ClaimTask, ClaimedTask, TaskRecord, LoopInv, TypeOK
<1>5. ReservationExact
  BY ReservationIsConsistency DEF RecordInv
<1>6. wc[j].state \in {"uninitialized", "clean", "dirty"}
  BY <1>2, <1>5 DEF ReservationExact
<1>7. ASSUME NEW i \in Issue
      PROVE  /\ wc'[i].state = wc[i].state /\ wc'[i].base = wc[i].base
             /\ wc'[i].head = wc[i].head /\ wc'[i].active = wc[i].active
             /\ wc[i].storage # None => wc'[i].storage = wc[i].storage
  BY <1>1, <1>3 DEF ClaimTask, CopyRecord
<1>8. ASSUME NEW i \in Issue PROVE RecordGoesOn(i)
  <2>1. wc[i].state \in Recorded => wc[i].storage # None
    BY DEF CopiesKnown, Described
  <2>2. Waiting(i)' => Waiting(i)
    BY <1>2, <1>4, <1>7, WaitingStays
  <2> QED BY <1>7, <2>1, <2>2 DEF RecordGoesOn
<1>9. daemon \in [Worker -> Job] /\ daemon[w].phase = "idle" /\ UNCHANGED disk
  BY DEF LoopInv, JobsOK, Claim, In
<1>10. Knows(w)' \/ daemon'[w] = daemon[w]
  <2> SUFFICES ASSUME daemon'[w] # daemon[w] PROVE Knows(w)'
    OBVIOUS
  <2>1. daemon'[w] = [daemon[w] EXCEPT !.phase = "claimed", !.session = s,
                        !.initialize = wc[j].state = "uninitialized"]
    BY <1>1, <1>9
  <2>2. daemon[w].base = None
    BY <1>9 DEF CopiesKnown, Knows
  <2>3. /\ daemon'[w].phase = "claimed" /\ daemon'[w].base = None
        /\ daemon'[w].initialize = (wc[j].state = "uninitialized")
        /\ daemon'[w].session = s
    BY <1>9, <2>1, <2>2 DEF Job
  <2>4. task'[s].issue = j
    BY <1>2, StartedStays DEF SameTask, LoopInv
  <2>5. wc'[j].state = wc[j].state
    BY <1>3, <1>7
  <2> HIDE DEF j
  <2> QED BY <2>3, <2>4, <2>5 DEF Knows, TaskOf, In
<1>11. \A v \in Worker \ {w} : daemon'[v] = daemon[v]
  BY <1>1, <1>9
<1> QED BY <1>8, <1>9, <1>10, <1>11, CopiesGoOn

LEMMA CopiesMark ==
  ASSUME LoopInv, RecordInv, FleetInv, CopiesKnown, [Next]_vars, NEW w \in Worker, Mark(w)
  PROVE  (\A i \in Issue : RecordGoesOn(i)) /\ CopiesKnown'
<1> DEFINE s == daemon[w].session
<1>1. Busy(w)
  BY DEF Mark, In, Busy
<1>2. s \in Session /\ Held(s) /\ task[s] \in TaskRecord
  BY <1>1, Writer DEF LoopInv, TypeOK
<1>3. UNCHANGED <<wc, disk>>
  BY DEF Mark, MarkRunning, server
<1>4. /\ \A t \in Session \ {s} : task'[t] = task[t]
      /\ task'[s] = task[s] \/ task'[s].status = "running"
  BY <1>2 DEF Mark, MarkRunning, server, LoopInv, TypeOK, TaskRecord
<1>5. \A i \in Issue : RecordGoesOn(i)
  BY <1>2, <1>3, <1>4, WaitingStays DEF RecordGoesOn
<1>6. daemon \in [Worker -> Job] /\ daemon[w].phase = "claimed"
  BY DEF LoopInv, JobsOK, Mark, In
<1>7. \A v \in Worker \ {w} : daemon'[v] = daemon[v]
  BY <1>6 DEF Mark, Enter, Idle
<1>8. Knows(w)'
  <2>1. Knows(w)
    BY DEF CopiesKnown
  <2>2. CASE Idle(w)
    BY <1>6, <2>2 DEF Idle, NoJob, Knows, Busy, In
  <2>3. CASE Enter(w, "preparing")
    <3>1. daemon'[w].phase = "preparing" /\ daemon'[w].session = s
          /\ daemon'[w].base = daemon[w].base /\ daemon'[w].initialize = daemon[w].initialize
      BY <1>6, <2>3 DEF Enter, Job
    <3>2. TaskOf(w)'.issue = TaskOf(w).issue
      BY <1>2, <3>1, StartedStays DEF TaskOf, SameTask, LoopInv, Held
    <3>3. wc'[TaskOf(w)'.issue].state = wc[TaskOf(w).issue].state
      BY <1>3, <3>2
    <3> QED BY <1>1, <1>6, <2>1, <3>1, <3>3 DEF Knows, In
  <2> QED BY <2>2, <2>3 DEF Mark
<1> QED BY <1>3, <1>5, <1>7, <1>8, CopiesGoOn

(* Steps of a worker's own job: the record of its issue is reserved for    *)
(* it, and no other record describes the worktree it changes.              *)
SameJob(w) ==
  /\ UNCHANGED <<wc, task>>
  /\ daemon'[w].session = daemon[w].session
  /\ daemon'[w].initialize = daemon[w].initialize
  /\ \A v \in Worker \ {w} : daemon'[v] = daemon[v]
OnlyTree(w) ==
  \A d \in Storage, i \in Issue :
    disk'[d][i] # disk[d][i] => d = Root[w] /\ i = TaskOf(w).issue
KeepsRecorded(w) ==
  wc[TaskOf(w).issue].state \in Recorded => Tree(w)'.tree /\ Tree(w)'.base = Tree(w).base

LEMMA CopiesByJob ==
  ASSUME OwnCopies, LoopInv, RecordInv, FleetInv, CopiesKnown, NEW w \in Worker, Busy(w),
         SameJob(w), OnlyTree(w), KeepsRecorded(w), Knows(w)'
  PROVE  CopiesKnown'
<1>0. PICK j \in Issue : j = TaskOf(w).issue
  BY Writer
<1>1. /\ wc[j].active = daemon[w].session /\ Held(daemon[w].session)
      /\ daemon[w].session \in Session /\ wc[j].storage = Root[w] /\ Root[w] \in Storage
      /\ Root[w] # None
  BY <1>0, Writer, RootType
<1>2. Tree(w)' = disk'[Root[w]][j] /\ Tree(w) = disk[Root[w]][j]
  BY <1>0 DEF SameJob, Tree, TaskOf
<1>3. ASSUME NEW i \in Issue \ {j} PROVE Described(i)'
  <2>1. Described(i) /\ wc[i].storage \in Storage \cup {None}
    BY DEF CopiesKnown, LoopInv, TypeOK, CopyRecord, StorageOrNone
  <2>2. wc[i].storage \in Storage => disk'[wc[i].storage][i] = disk[wc[i].storage][i]
    BY <1>0, <1>3 DEF OnlyTree
  <2>3. Waiting(i)' <=> Waiting(i)
    BY DEF Waiting, SameJob
  <2> QED BY <2>1, <2>2, <2>3 DEF Described, Matches, SameJob
<1>4. Described(j)'
  <2>1. Described(j)
    BY <1>1 DEF CopiesKnown
  <2>2. ~Waiting(j)'
    BY <1>1, NoneAssumption DEF Waiting, SameJob, Held
  <2>3. wc[j].state \in Recorded => Tree(w)'.tree /\ Tree(w)'.base = Tree(w).base
    BY <1>0 DEF KeepsRecorded
  <2> QED BY <1>1, <1>2, <2>1, <2>2, <2>3 DEF Described, SameJob
<1>5. ASSUME NEW v \in Worker \ {w} PROVE Knows(v)'
  <2>1. Knows(v) /\ daemon'[v] = daemon[v]
    BY DEF CopiesKnown, SameJob
  <2>2. TaskOf(v)' = TaskOf(v) /\ UNCHANGED wc
    BY <2>1 DEF TaskOf, SameJob
  <2>3. CASE ~Busy(v)
    BY <2>1, <2>3 DEF Knows, Busy, In
  <2>4. CASE Busy(v)
    <3>1. TaskOf(v).issue \in Issue /\ Root[v] \in Storage /\ TaskOf(v).issue # j
      BY <1>0, <2>4, Writer, WritersApart, RootType
    <3>2. Tree(v)' = Tree(v)
      BY <1>0, <2>2, <3>1 DEF OnlyTree, Tree
    <3> QED BY <2>1, <2>2, <3>2 DEF Knows, Busy, In
  <2> QED BY <2>3, <2>4
<1> QED BY <1>3, <1>4, <1>5 DEF CopiesKnown

(* Two ways a job's step touches the disk: not at all, or the worktree.    *)
LEMMA SameDisk ==
  ASSUME LoopInv, RecordInv, FleetInv, CopiesKnown, NEW w \in Worker, Busy(w),
         SameJob(w), UNCHANGED disk
  PROVE  OnlyTree(w) /\ KeepsRecorded(w) /\ Tree(w)' = Tree(w)
<1>1. Tree(w)' = Tree(w)
  BY DEF SameJob, Tree, TaskOf
<1>2. Described(TaskOf(w).issue) /\ wc[TaskOf(w).issue].storage = Root[w]
  BY Writer DEF CopiesKnown
<1> QED BY <1>1, <1>2 DEF OnlyTree, KeepsRecorded, Described, Tree

LEMMA NewTree ==
  ASSUME LoopInv, RecordInv, FleetInv, NEW w \in Worker, Busy(w),
         SameJob(w), NEW tree, SetTree(w, tree)
  PROVE  OnlyTree(w) /\ Tree(w)' = tree
<1>1. TaskOf(w).issue \in Issue /\ Root[w] \in Storage
  BY Writer, RootType
<1>2. disk \in [Storage -> [Issue -> Worktree]]
  BY DEF LoopInv, DisksOK
<1>3. TaskOf(w)' = TaskOf(w)
  BY DEF SameJob, TaskOf
<1> QED BY <1>1, <1>2, <1>3 DEF SetTree, OnlyTree, Tree

(* The worktree of a recorded copy, as the worker finds it.                *)
LEMMA RecordedTree ==
  ASSUME LoopInv, RecordInv, FleetInv, CopiesKnown, NEW w \in Worker, Busy(w),
         wc[TaskOf(w).issue].state \in Recorded
  PROVE  Tree(w).tree /\ Tree(w).base = wc[TaskOf(w).issue].base /\ Tree(w).base # None
BY Writer DEF CopiesKnown, Described, Tree

(* Reports computed from the worktree say what it is like.                 *)
LEMMA InspectedSays ==
  ASSUME NEW w \in Worker, NEW tree, NEW status, NEW source, NEW forced,
         daemon[w].base \in {None, tree.base}, tree.dirty \in BOOLEAN, tree.on \in Checkout
  PROVE  Says(ReportOf(w, status, Inspected(w, tree, forced), source), tree)
<1> DEFINE seen == Inspected(w, tree, forced)
           r == ReportOf(w, status, seen, source)
<1>1. r.state = seen.state /\ r.head = seen.head /\ r.base = seen.base
  BY DEF ReportOf
<1>2. seen.head = tree.head /\ seen.base = daemon[w].base
  BY DEF Inspected
<1>3. seen.state \in Recorded =>
        tree.tree /\ tree.on = "branch" /\ tree.dirty = (seen.state = "dirty")
  <2>1. CASE tree.dirty
    BY <2>1, NoneAssumption DEF Inspected, Recorded, RecoveryReasons, Checkout
  <2>2. CASE ~tree.dirty
    BY <2>2, NoneAssumption DEF Inspected, Recorded, RecoveryReasons, Checkout
  <2> QED BY <2>1, <2>2
<1> HIDE DEF seen, r
<1>4. Says(r, tree)
  BY <1>1, <1>2, <1>3 DEF Says
<1> QED BY <1>4 DEF r, seen

LEMMA Concluded ==
  ASSUME LoopInv, NEW w \in Worker, Busy(w), NEW status, NEW seen, NEW source,
         Conclude(w, status, seen, source), UNCHANGED <<wc, task>>
  PROVE  /\ SameJob(w) /\ daemon'[w].phase = "reporting"
         /\ daemon'[w].report = ReportOf(w, status, seen, source)
<1>1. daemon \in [Worker -> Job]
  BY DEF LoopInv, JobsOK
<1> QED BY <1>1 DEF Conclude, SameJob, Job

(* The knowledge of a job that goes on is about the same record.           *)
LEMMA KnowsReport ==
  ASSUME CopiesKnown, NEW w \in Worker, Busy(w), SameJob(w),
         daemon'[w].phase = "reporting", Says(daemon'[w].report, Tree(w)')
  PROVE  Knows(w)'
<1>1. Knows(w) /\ TaskOf(w)' = TaskOf(w)
  BY DEF CopiesKnown, SameJob, TaskOf
<1>2. (wc[TaskOf(w).issue].state)' = wc[TaskOf(w).issue].state
  BY <1>1 DEF SameJob
<1>3. Says(daemon[w].report, Tree(w))'
  BY DEF Says
<1> QED BY <1>1, <1>2, <1>3 DEF Knows, SameJob, Busy, In

(* Preparation.                                                            *)
LEMMA CopiesAborts ==
  ASSUME OwnCopies, LoopInv, RecordInv, FleetInv, CopiesKnown, NEW w \in Worker,
         \/ RepositoryFails(w) \/ WorktreeMissing(w) \/ AddRefused(w) \/ Refuse(w)
         \/ ProjectMissing(w) \/ SetUpFails(w)
         \/ EngineFails(w) \/ EngineStops(w) \/ CaptureFails(w)
  PROVE  CopiesKnown'
<1>1. Busy(w) /\ UNCHANGED disk /\ UNCHANGED <<wc, task>>
      /\ daemon[w].phase \in {"preparing", "prepared", "engine", "capturing"}
  BY DEF RepositoryFails, WorktreeMissing, AddRefused, Refuse, ProjectMissing, SetUpFails,
     EngineFails, EngineStops, CaptureFails, Busy, In, server
<1>2. /\ daemon[w].base \in {None, Tree(w).base} /\ Tree(w).dirty \in BOOLEAN
      /\ Tree(w).on \in Checkout
  BY <1>1, TreeType DEF CopiesKnown, Knows, Busy, Worktree
<1>3. \E status, seen, source :
        /\ Conclude(w, status, seen, source)
        /\ Says(ReportOf(w, status, seen, source), Tree(w))
  <2>1. CASE Refuse(w)
    <3> DEFINE base == IF Refusal(w) = "head_mismatch" THEN Tree(w).base ELSE daemon[w].base
               seen == [Inspected(w, Tree(w), Refusal(w)) EXCEPT !.base = base]
    <3>1. Conclude(w, "failed", seen, FALSE)
      BY <2>1 DEF Refuse
    <3>2. seen.state = "recovery_required"
      BY NoneAssumption DEF Inspected, Refusal, RecoveryReasons
    <3>3. ReportOf(w, "failed", seen, FALSE).state = "recovery_required"
      BY <3>2 DEF ReportOf
    <3> HIDE DEF seen
    <3> QED BY <3>1, <3>3 DEF Says, Recorded
  <2>2. CASE ~Refuse(w)
    <3>1. PICK status, forced : Conclude(w, status, Inspected(w, Tree(w), forced), FALSE)
      BY <1>1, <2>2 DEF RepositoryFails, WorktreeMissing, AddRefused, ProjectMissing, SetUpFails,
         EngineFails, EngineStops, CaptureFails, Abort
    <3>2. PICK tree : tree = Tree(w)
      OBVIOUS
    <3>3. daemon[w].base \in {None, tree.base} /\ tree.dirty \in BOOLEAN /\ tree.on \in Checkout
      BY <1>2, <3>2
    <3>4. \A source : Says(ReportOf(w, status, Inspected(w, tree, forced), source), tree)
      BY <3>3, InspectedSays
    <3> QED BY <3>1, <3>2, <3>4
  <2> QED BY <2>1, <2>2
<1>4. SameJob(w) /\ daemon'[w].phase = "reporting" /\ Says(daemon'[w].report, Tree(w))
  BY <1>1, <1>3, Concluded
<1>5. OnlyTree(w) /\ KeepsRecorded(w) /\ Tree(w)' = Tree(w)
  BY <1>1, <1>4, SameDisk
<1>6. Knows(w)'
  BY <1>1, <1>4, <1>5, KnowsReport
<1> QED BY <1>1, <1>4, <1>5, <1>6, CopiesByJob

(* The job goes on in a phase that knows the worktree and its base.        *)
LEMMA KnowsPhase ==
  ASSUME CopiesKnown, NEW w \in Worker, Busy(w), SameJob(w),
         daemon'[w].phase \in {"prepared", "starting", "engine", "capturing"},
         Tree(w)'.tree, Tree(w)'.base # None, daemon'[w].base = Tree(w)'.base
  PROVE  Knows(w)'
<1>1. Knows(w) /\ TaskOf(w)' = TaskOf(w)
  BY DEF CopiesKnown, SameJob, TaskOf
<1>2. (wc[TaskOf(w).issue].state)' = wc[TaskOf(w).issue].state
  BY <1>1 DEF SameJob
<1> QED BY <1>1, <1>2 DEF Knows, SameJob, Busy, In

LEMMA CopiesAddWorktree ==
  ASSUME OwnCopies, LoopInv, RecordInv, FleetInv, CopiesKnown, NEW w \in Worker,
         AddWorktree(w)
  PROVE  CopiesKnown'
<1> DEFINE base == IF TaskOf(w).head # None THEN TaskOf(w).head ELSE 0
<1>1. Busy(w) /\ daemon[w] \in Job /\ daemon \in [Worker -> Job]
  BY DEF AddWorktree, In, Busy, LoopInv, JobsOK
<1>2. base # None
  <2>1. 0 # None
    BY DaemonAssumption, NoneAssumption DEF DaemonAssumption
  <2> QED BY <2>1
<1>3. /\ SameJob(w) /\ daemon'[w].phase = "initializing" /\ daemon'[w].base = base
      /\ daemon[w].initialize
  BY <1>1 DEF AddWorktree, SameJob, server, Job
<1>4. OnlyTree(w) /\ Tree(w)'.tree
  <2>1. PICK project : SetTree(w, Added(base, project))
    BY DEF AddWorktree
  <2>2. OnlyTree(w) /\ Tree(w)' = Added(base, project)
    BY <1>1, <1>3, <2>1, NewTree
  <2> QED BY <2>2 DEF Added
<1>5. KeepsRecorded(w)
  BY <1>1, RecordedTree DEF AddWorktree, KeepsRecorded
<1>6. Knows(w)'
  <2>1. Knows(w) /\ TaskOf(w)' = TaskOf(w)
    BY <1>3 DEF CopiesKnown, SameJob, TaskOf
  <2>2. (wc[TaskOf(w).issue].state)' = wc[TaskOf(w).issue].state
    BY <1>3, <2>1 DEF SameJob
  <2>3. Tree(w)'.tree
    BY <1>4
  <2> HIDE DEF base
  <2> QED BY <1>1, <1>2, <1>3, <2>1, <2>2, <2>3 DEF Knows, SameJob, Busy, In
<1> QED BY <1>1, <1>3, <1>4, <1>5, <1>6, CopiesByJob

LEMMA CopiesMetadata ==
  ASSUME OwnCopies, LoopInv, RecordInv, FleetInv, CopiesKnown, NEW w \in Worker,
         WriteMetadata(w) \/ MetadataFails(w)
  PROVE  CopiesKnown'
<1>1. /\ Busy(w) /\ UNCHANGED <<wc, task>> /\ daemon \in [Worker -> Job] /\ daemon[w] \in Job
  BY DEF WriteMetadata, MetadataFails, In, Busy, LoopInv, JobsOK, server
<1>2. /\ daemon[w].base # None /\ Tree(w).tree
      /\ wc[TaskOf(w).issue].state = "uninitialized"
  BY <1>1 DEF WriteMetadata, MetadataFails, In, CopiesKnown, Knows
<1>3. KeepsRecorded(w)
  BY <1>2 DEF KeepsRecorded, Recorded
<1>4. CASE WriteMetadata(w)
  <2> DEFINE tree == [Tree(w) EXCEPT !.base = MetadataBase(w)]
  <2>1. SameJob(w) /\ daemon'[w].phase = "prepared" /\ daemon'[w].base = daemon[w].base
    BY <1>1, <1>4 DEF WriteMetadata, Enter, SameJob, Job
  <2>2. OnlyTree(w) /\ Tree(w)' = tree
    BY <1>1, <1>4, <2>1, NewTree DEF WriteMetadata
  <2>3. tree.tree /\ tree.base = daemon[w].base
    BY <1>1, <1>2, TreeType DEF MetadataBase, Worktree, Busy
  <2> HIDE DEF tree
  <2> QED BY <1>1, <1>2, <1>3, <2>1, <2>2, <2>3, KnowsPhase, CopiesByJob
<1>5. CASE MetadataFails(w)
  <2> DEFINE tree == [NoWorktree EXCEPT !.branch = TRUE]
             seen == [base |-> daemon[w].base, head |-> None,
                      state |-> "recovery_required", reason |-> "metadata_missing"]
  <2>1. Conclude(w, "failed", seen, FALSE) /\ SetTree(w, tree)
    BY <1>5 DEF MetadataFails
  <2>2. ReportOf(w, "failed", seen, FALSE).state = "recovery_required"
    BY DEF ReportOf
  <2> HIDE DEF seen, tree
  <2>3. /\ SameJob(w) /\ daemon'[w].phase = "reporting"
        /\ daemon'[w].report = ReportOf(w, "failed", seen, FALSE)
    BY <1>1, <2>1, Concluded
  <2>4. OnlyTree(w)
    BY <1>1, <2>1, <2>3, NewTree
  <2>5. Knows(w)'
    BY <1>1, <2>2, <2>3, KnowsReport DEF Says, Recorded
  <2> QED BY <1>1, <1>3, <2>3, <2>4, <2>5, CopiesByJob
<1> QED BY <1>4, <1>5

LEMMA CopiesReuse ==
  ASSUME OwnCopies, LoopInv, RecordInv, FleetInv, CopiesKnown, NEW w \in Worker,
         Reuse(w)
  PROVE  CopiesKnown'
<1>1. Busy(w) /\ UNCHANGED disk /\ daemon \in [Worker -> Job] /\ daemon[w] \in Job
  BY DEF Reuse, In, Busy, LoopInv, JobsOK
<1>2. SameJob(w) /\ daemon'[w].phase = "prepared" /\ daemon'[w].base = Tree(w).base
  BY <1>1 DEF Reuse, SameJob, server, Job
<1>3. OnlyTree(w) /\ KeepsRecorded(w) /\ Tree(w)' = Tree(w)
  BY <1>1, <1>2, SameDisk
<1>4. Tree(w).tree /\ Tree(w).base # None
  BY DEF Reuse, Reusable
<1> QED BY <1>1, <1>2, <1>3, <1>4, KnowsPhase, CopiesByJob

(* The engine.                                                             *)
LEMMA CopiesEngine ==
  ASSUME OwnCopies, LoopInv, RecordInv, FleetInv, CopiesKnown, NEW w \in Worker,
         \/ SetUp(w) \/ BeginEngine(w) \/ EngineEnds(w)
         \/ AgentEdits(w) \/ AgentCommits(w) \/ AgentStrays(w)
  PROVE  CopiesKnown'
<1>1. /\ Busy(w) /\ UNCHANGED <<wc, task>> /\ daemon \in [Worker -> Job] /\ daemon[w] \in Job
      /\ daemon[w].phase \in {"prepared", "starting", "engine"}
  BY DEF SetUp, BeginEngine, EngineEnds, AgentEdits, AgentCommits, AgentStrays, In,
     Busy, LoopInv, JobsOK, server
<1>2. Tree(w).tree /\ Tree(w).base # None /\ daemon[w].base = Tree(w).base
  BY <1>1 DEF CopiesKnown, Knows
<1>3. /\ SameJob(w) /\ daemon'[w].phase \in {"starting", "engine", "capturing"}
      /\ daemon'[w].base = daemon[w].base
  BY <1>1 DEF SetUp, BeginEngine, EngineEnds, AgentEdits, AgentCommits, AgentStrays, Enter,
     In, SameJob, Job
<1>4. CASE SetUp(w) \/ BeginEngine(w) \/ EngineEnds(w)
  <2>1. OnlyTree(w) /\ KeepsRecorded(w) /\ Tree(w)' = Tree(w)
    BY <1>1, <1>3, <1>4, SameDisk DEF SetUp, BeginEngine, EngineEnds
  <2> QED BY <1>1, <1>2, <1>3, <2>1, KnowsPhase, CopiesByJob
<1>5. CASE AgentEdits(w) \/ AgentCommits(w) \/ AgentStrays(w)
  <2>1. PICK tree : /\ SetTree(w, tree)
                    /\ \/ tree = [Tree(w) EXCEPT !.dirty = TRUE] \/ tree = Committed(Tree(w))
                       \/ tree \in Strayed(Tree(w))
    BY <1>5 DEF AgentEdits, AgentCommits, AgentStrays
  <2>2. tree.tree = Tree(w).tree /\ tree.base = Tree(w).base
    BY <1>1, <2>1, TreeType DEF Committed, Strayed, Worktree, Busy
  <2>3. OnlyTree(w) /\ Tree(w)' = tree
    BY <1>1, <1>3, <2>1, NewTree
  <2>4. KeepsRecorded(w)
    BY <1>2, <2>2, <2>3 DEF KeepsRecorded
  <2> QED BY <1>1, <1>2, <1>3, <2>2, <2>3, <2>4, KnowsPhase, CopiesByJob
<1> QED BY <1>4, <1>5

LEMMA CopiesWatch ==
  ASSUME OwnCopies, LoopInv, RecordInv, FleetInv, CopiesKnown, NEW w \in Worker,
         Watch(w) \/ EngineUnavailable(w)
  PROVE  CopiesKnown'
<1>1. /\ Busy(w) /\ UNCHANGED <<wc, task, disk>>
      /\ daemon \in [Worker -> Job] /\ daemon[w] \in Job
      /\ daemon[w].phase \in {"starting", "engine", "capturing"}
  BY DEF Watch, EngineUnavailable, In, Busy, LoopInv, JobsOK, server
<1>2. Tree(w).tree /\ Tree(w).base # None /\ daemon[w].base = Tree(w).base
  BY <1>1 DEF CopiesKnown, Knows
<1>3. SameJob(w)
  <2>1. CASE Watch(w)
    BY <1>1, <2>1 DEF Watch, SameJob, Job, server
  <2>2. CASE EngineUnavailable(w)
    BY <1>1, <2>2 DEF EngineUnavailable, SameJob, Job, server
  <2> QED BY <2>1, <2>2
<1>4. OnlyTree(w) /\ KeepsRecorded(w) /\ Tree(w)' = Tree(w)
  BY <1>1, <1>3, SameDisk
<1>5. CASE Watch(w)
  <2>1. daemon'[w].phase = daemon[w].phase /\ daemon'[w].base = daemon[w].base
    BY <1>1, <1>5 DEF Watch, Job
  <2> QED BY <1>1, <1>2, <1>3, <1>4, <2>1, KnowsPhase, CopiesByJob
<1>6. CASE EngineUnavailable(w)
  <2>1. daemon'[w].phase = "reporting" /\ daemon'[w].report = BareFailure
    BY <1>1, <1>6 DEF EngineUnavailable, Job
  <2>2. Says(BareFailure, Tree(w)')
    BY DEF Says, BareFailure
  <2> QED BY <1>1, <1>3, <1>4, <2>1, <2>2, KnowsReport, CopiesByJob
<1> QED BY <1>5, <1>6

LEMMA CopiesCapture ==
  ASSUME OwnCopies, LoopInv, RecordInv, FleetInv, CopiesKnown, NEW w \in Worker, Capture(w)
  PROVE  CopiesKnown'
<1>1. /\ Busy(w) /\ UNCHANGED <<wc, task>> /\ daemon[w].phase = "capturing"
  BY DEF Capture, In, Busy, server
<1>2. Tree(w).tree /\ Tree(w).base # None /\ daemon[w].base = Tree(w).base
      /\ Tree(w) \in Worktree
  BY <1>1, TreeType DEF CopiesKnown, Knows, Busy
<1>3. PICK tree, status, source :
        /\ tree \in Captured(Tree(w)) /\ SetTree(w, tree)
        /\ Conclude(w, status, Inspected(w, tree, None), source)
  BY DEF Capture
<1>4. /\ tree.tree /\ tree.base = Tree(w).base /\ tree.dirty \in BOOLEAN
      /\ tree.on \in Checkout
  BY <1>2, <1>3 DEF Captured, Committed, Worktree
<1>5. Says(ReportOf(w, status, Inspected(w, tree, None), source), tree)
  BY <1>2, <1>4, InspectedSays
<1>6. /\ SameJob(w) /\ daemon'[w].phase = "reporting"
      /\ daemon'[w].report = ReportOf(w, status, Inspected(w, tree, None), source)
  BY <1>1, <1>3, Concluded
<1>7. OnlyTree(w) /\ Tree(w)' = tree
  BY <1>1, <1>3, <1>6, NewTree
<1>8. KeepsRecorded(w)
  BY <1>4, <1>7 DEF KeepsRecorded
<1>9. Says(daemon'[w].report, Tree(w)')
  BY <1>5, <1>6, <1>7
<1> QED BY <1>1, <1>6, <1>7, <1>8, <1>9, KnowsReport, CopiesByJob

(* The report: an accepted one makes the record say what the worktree is   *)
(* like, a rejected one makes no claim about it.                           *)
LEMMA CopiesSend ==
  ASSUME OwnCopies, LoopInv, RecordInv, FleetInv, CopiesKnown, [Next]_vars,
         NEW w \in Worker, Send(w)
  PROVE  CopiesKnown'
<1> DEFINE s == daemon[w].session
           r == daemon[w].report
           status == EffectiveStatus(s, r.status)
<1>0. PICK j \in Issue : j = task[s].issue
  BY Writer DEF Send, In, Busy, TaskOf
<1>1. /\ Busy(w) /\ s \in Session /\ LiveCopyTask(s) /\ Held(s) /\ wc[j] \in CopyRecord
      /\ wc[j].active = s /\ wc[j].state \in {"uninitialized", "clean", "dirty"}
      /\ wc[j].storage = Root[w] /\ worker[w].storage = Root[w] /\ Root[w] # None
  BY <1>0, Writer, RootType DEF Send, In, Busy, TaskOf
<1>2. daemon \in [Worker -> Job] /\ Idle(w) /\ UNCHANGED disk /\ In(w, "reporting")
  BY DEF Send, LoopInv, JobsOK
<1>3. Knows(w)' /\ \A v \in Worker \ {w} : daemon'[v] = daemon[v]
  <2>1. daemon'[w].phase = "idle" /\ daemon'[w].base = None
    BY <1>2 DEF Idle, NoJob
  <2>2. \A v \in Worker \ {w} : daemon'[v] = daemon[v]
    BY <1>2 DEF Idle
  <2> QED BY <2>1, <2>2 DEF Knows, Busy, In
<1>4. CASE UNCHANGED server
  <2>1. \A i \in Issue : RecordGoesOn(i)
    BY <1>4 DEF server, RecordGoesOn, Waiting
  <2> QED BY <1>2, <1>3, <2>1, CopiesGoOn
<1>5. CASE FinishTask(w, s, r)
  <2>1. /\ wc' = [wc EXCEPT ![j] = Reconciled(s, w, status, r)]
        /\ \A t \in Session \ {s} : task'[t] = task[t]
    <3>1. Holds(s) /\ s \in Session
      BY <1>0, <1>1 DEF Holds, LiveCopyTask
    <3>2. task' = [task EXCEPT ![s] = FinishedTask(s, w, status, r)]
      BY <1>5 DEF FinishTask, OwnCopies, QueuesDeploy
    <3>3. wc' = [wc EXCEPT ![j] = Reconciled(s, w, status, r)]
      BY <1>0, <1>5, <3>1 DEF FinishTask
    <3> QED BY <3>2, <3>3 DEF LoopInv, TypeOK
  <2>2. \A i \in Issue \ {j} : wc'[i] = wc[i]
    BY <2>1 DEF LoopInv, TypeOK
  <2>3. wc'[j] = Reconciled(s, w, status, r)
    BY <2>1 DEF LoopInv, TypeOK
  <2>4. ASSUME NEW i \in Issue \ {j} PROVE Described(i)'
    <3>1. Waiting(i)' => Waiting(i)
      BY <1>0, <1>1, <2>1, <2>2, WaitingStays
    <3> QED BY <1>2, <2>2, <3>1 DEF CopiesKnown, Described
  <2>5. Described(j)'
    <3> DEFINE reason == RecoveryReason(s, w, status, r)
               tree == disk[Root[w]][j]
    <3>1. CASE reason # None
      <4>1. wc'[j].state = "recovery_required"
        BY <1>0, <1>1, <2>3, <3>1 DEF Reconciled, NeedsRecovery, Released, CopyRecord
      <4> QED BY <4>1 DEF Described, Recorded
    <3>2. CASE reason = None
      <4>1. wc'[j] = WithReport(wc[j], r)
        BY <1>0, <2>3, <3>2 DEF Reconciled
      <4>2. /\ wc'[j].state = r.state /\ wc'[j].head = r.head /\ wc'[j].storage = r.storage
            /\ wc'[j].base = IF wc[j].base = None THEN r.base ELSE wc[j].base
        BY <1>1, <4>1 DEF WithReport, Released, CopyRecord
      <4>3. /\ EnvelopeOK(r) /\ r.state # "recovery_required" /\ r.storage = Root[w]
            /\ wc[j].state = "uninitialized" => r.base # None
        BY <1>0, <1>1, <3>2, NoneAssumption
           DEF RecoveryReason, RecoveryReasons, EnvelopeOK, ReportedElsewhere
      <4>4. r.present /\ r.state \in Recorded
        BY <4>3 DEF EnvelopeOK, Recorded
      <4>5. Says(r, tree)
        BY <1>0, <1>2 DEF CopiesKnown, Knows, Tree, TaskOf
      <4>6. /\ wc[j].state \in Recorded => wc[j].base # None /\ tree.base = wc[j].base
            /\ wc[j].state = "uninitialized" => wc[j].base = None
        BY <1>1 DEF CopiesKnown, Described
      <4>7. wc'[j].base # None /\ wc'[j].base = tree.base
        BY <1>1, <4>2, <4>3, <4>4, <4>5, <4>6 DEF Says, Recorded
      <4>8. disk'[wc'[j].storage][j] = tree
        BY <1>2, <4>2, <4>3
      <4> HIDE DEF tree, r
      <4> QED BY <1>1, <4>2, <4>3, <4>4, <4>5, <4>7, <4>8
              DEF Described, Matches, Says, Recorded
    <3> QED BY <3>1, <3>2
  <2>6. ASSUME NEW v \in Worker \ {w} PROVE Knows(v)'
    <3>1. Knows(v) /\ daemon'[v] = daemon[v]
      BY <1>3 DEF CopiesKnown
    <3>2. CASE ~Busy(v)
      BY <3>1, <3>2 DEF Knows, Busy, In
    <3>3. CASE Busy(v)
      <4>1. /\ daemon[v].session \in Session /\ daemon[v].session # s
            /\ TaskOf(v).issue \in Issue \ {j}
        BY <1>0, <1>1, <3>3, Writer, WritersApart DEF TaskOf
      <4>2. TaskOf(v)' = TaskOf(v)
        BY <2>1, <3>1, <4>1 DEF TaskOf
      <4>3. Tree(v)' = Tree(v)
        BY <1>2, <4>2 DEF Tree
      <4>4. (wc[TaskOf(v).issue])' = wc[TaskOf(v).issue]
        BY <2>2, <4>1, <4>2
      <4> QED BY <3>1, <4>2, <4>3, <4>4 DEF Knows, Busy, In
    <3> QED BY <3>2, <3>3
  <2> QED BY <1>3, <2>4, <2>5, <2>6 DEF CopiesKnown
<1> QED BY <1>4, <1>5 DEF Send, server

LEMMA CopiesStep ==
  ASSUME Covers, OwnCopies, LoopInv, RecordInv, FleetInv, CopyInv, [DaemonNext]_wvars
  PROVE  CopyInv'
<1>1. [Next]_vars
  BY ServerStep DEF LoopInv
<1>2. faults["removal"] \in Nat /\ "removal" \in Fault
  BY DEF LoopInv, FaultsOK, Fault
<1>3. faults'["removal"] = 0 => faults["removal"] = 0
  <2>1. UNCHANGED faults \/ \E f \in Fault : Fails(f)
    BY FaultNames DEF DaemonNext, wvars, Client, GoesStale, WorktreeRemoved, Start, Crash,
       ShutDown, Claim, Mark, Prepare, RepositoryFails, WorktreeMissing, AddWorktree,
       AddRefused, WriteMetadata, MetadataFails, Reuse, Refuse, ProjectMissing, SetUp,
       SetUpFails, Finish, BeginEngine, EngineUnavailable, EngineEnds, EngineFails,
       EngineStops, Capture, CaptureFails, Send, AgentEdits, AgentCommits, AgentStrays, Watch
  <2> QED BY <1>2, <2>1 DEF Fails, LoopInv, FaultsOK
<1> SUFFICES ASSUME faults'["removal"] = 0 PROVE CopiesKnown'
  BY DEF CopyInv
<1>4. CopiesKnown
  BY <1>3 DEF CopyInv
<1>5. CASE Client \/ \E s \in Session : GoesStale(s)
  BY <1>1, <1>4, <1>5, CopiesClient
<1>6. ASSUME NEW d \in Storage, NEW i \in Issue, WorktreeRemoved(d, i) PROVE FALSE
  BY <1>2, <1>6 DEF WorktreeRemoved, Fails, LoopInv, FaultsOK
<1>7. CASE \E w \in Worker : Start(w) \/ Crash(w) \/ ShutDown(w)
  BY <1>1, <1>4, <1>7, CopiesProcess
<1>8. CASE \E w \in Worker : Claim(w) \/ Mark(w) \/ Send(w)
  BY <1>1, <1>4, <1>8, CopiesClaim, CopiesMark, CopiesSend
<1>9. CASE \E w \in Worker : Prepare(w)
  BY <1>4, <1>9, CopiesAborts, CopiesAddWorktree, CopiesMetadata, CopiesReuse, CopiesEngine
  DEF Prepare
<1>10. CASE \E w \in Worker : Finish(w) /\ ~Send(w)
  BY <1>4, <1>10, CopiesAborts, CopiesEngine, CopiesWatch, CopiesCapture DEF Finish
<1>11. CASE \E w \in Worker : AgentEdits(w) \/ AgentCommits(w) \/ AgentStrays(w) \/ Watch(w)
  BY <1>4, <1>11, CopiesEngine, CopiesWatch
<1>12. CASE UNCHANGED wvars
  <2>1. UNCHANGED <<wc, task, daemon, disk>>
    BY <1>12 DEF wvars
  <2>2. \A i \in Issue : RecordGoesOn(i)
    BY <2>1 DEF RecordGoesOn, Waiting
  <2> QED BY <1>1, <1>4, <2>1, <2>2, CopiesGoOn
<1> QED BY <1>5, <1>6, <1>7, <1>8, <1>9, <1>10, <1>11, <1>12 DEF DaemonNext

LEMMA CopiesInit == DaemonInit => CopyInv
BY DEF DaemonInit, Init, CopyInv, CopiesKnown, Described, Knows, Recorded, NoCopy, NoJob,
   Busy, In

-----------------------------------------------------------------------------
(* As long as nothing goes wrong.                                          *)

NoFault == \A f \in Fault : faults[f] = 0

(* No worker has begun to change the worktree in the turn the record is    *)
(* in, and nobody asked one to stop.                                       *)
Working(w) ==
  daemon[w].phase \in {"initializing", "prepared", "starting", "engine", "capturing",
                       "reporting"}
Untouched(i) ==
  /\ Waiting(i) \/ ~task[wc[i].active].cancelRequested
  /\ \A w \in Worker : Working(w) => TaskOf(w).issue # i
Pristine(i) ==
  /\ wc[i].state \in Recorded => Matches(wc[i], disk[wc[i].storage][i])
  /\ wc[i].state \in {"absent", "uninitialized"} =>
       \A d \in Storage : ~disk[d][i].tree /\ ~disk[d][i].branch
Usable(i) ==
  /\ wc[i].state # "recovery_required"
  /\ wc[i].state \in Recorded => wc[i].head # None
  /\ Untouched(i) => Pristine(i)

(* The worktree has not fallen behind the head the turn started from, and  *)
(* the report is one the server accepts.                                   *)
Ancestor(w) == IF TaskOf(w).head # None THEN TaskOf(w).head ELSE daemon[w].base
Acceptable(r, w) ==
  /\ r.present /\ r.genOK /\ r.branchOK /\ r.storage = Root[w]
  /\ r.base # None /\ r.head # None /\ r.reason = None /\ r.state \in Recorded
  /\ r.status = "completed" => r.state = "clean"
Healthy(w) ==
  /\ In(w, "preparing") => Pristine(TaskOf(w).issue)
  /\ daemon[w].phase \in {"initializing", "prepared", "starting", "engine", "capturing"} =>
       Ancestor(w) \in Commit /\ Ancestor(w) <= Tree(w).head
  /\ In(w, "reporting") => Acceptable(daemon[w].report, w)

AllHealthy == (\A i \in Issue : Usable(i)) /\ (\A w \in Worker : Healthy(w))

(* Every worktree is on its issue's branch and has the project's directory. *)
Straight(tree) == tree.tree => tree.on = "branch" /\ tree.project
AllStraight == \A d \in Storage, i \in Issue : Straight(disk[d][i])

HealthInv == NoFault => AllHealthy /\ AllStraight

LEMMA UntouchedBefore ==
  ASSUME LoopInv, RecordInv, [Next]_vars, NEW i \in Issue, RecordGoesOn(i),
         \A w \in Worker : Working(w) =>
           Working(w)' /\ daemon'[w].session = daemon[w].session,
         Untouched(i)'
  PROVE  Untouched(i)
<1>1. \A w \in Worker : Working(w) => TaskOf(w).issue # i
  <2> SUFFICES ASSUME NEW w \in Worker, Working(w) PROVE TaskOf(w).issue # i
    OBVIOUS
  <2>1. /\ daemon[w].session \in Session /\ task[daemon[w].session].status # "absent"
        /\ Working(w)' /\ daemon'[w].session = daemon[w].session
    BY DEF Working, LoopInv, JobsOK
  <2>2. TaskOf(w)'.issue = TaskOf(w).issue
    BY <2>1, StartedStays DEF TaskOf, SameTask, LoopInv
  <2> QED BY <2>1, <2>2 DEF Untouched
<1>2. Waiting(i) \/ ~task[wc[i].active].cancelRequested
  <2> SUFFICES ASSUME ~Waiting(i) PROVE ~task[wc[i].active].cancelRequested
    OBVIOUS
  <2>1. wc[i].active \in Session /\ wc[i] \in CopyRecord /\ Consistent(wc, task)
    BY DEF Waiting, LoopInv, TypeOK, CopyRecord, RecordInv
  <2>2. task[wc[i].active].status # "absent" /\ wc[i].state # "absent"
    BY <2>1, NoneAssumption, ReservedIsWorkable DEF Consistent, Reserved, LiveCopy, LiveStatus, LoopInv
  <2>3. ~Waiting(i)'
    BY <2>2 DEF RecordGoesOn
  <2>4. wc'[i].active = wc[i].active
    <3>1. CASE Begins(i)
      BY <2>2, <3>1 DEF Begins, CopyOf, Waiting
    <3>2. CASE Binds(i)
      BY <2>1, <3>2 DEF Binds, CopyRecord
    <3>3. CASE Releases(i) \/ Rejects(i) \/ Accepted(i)
      <4>1. wc'[i].active = None
        BY <2>1, <3>3
           DEF Releases, Rejects, Accepted, Released, NeedsRecovery, WithReport, CopyRecord
      <4> QED BY <2>3, <4>1 DEF Waiting
    <3> QED BY <2>1, <3>1, <3>2, <3>3, RecordStep DEF LoopInv
  <2>5. ~task'[wc[i].active].cancelRequested
    BY <2>3, <2>4 DEF Untouched
  <2> QED BY <2>1, <2>2, <2>5, StartedStays DEF SameTask, LoopInv
<1> QED BY <1>1, <1>2 DEF Untouched

LEMMA PristineStays ==
  ASSUME NEW i \in Issue, RecordGoesOn(i), UNCHANGED disk, Pristine(i)
  PROVE  Pristine(i)'
BY DEF RecordGoesOn, Pristine, Matches, Recorded

(* A step that changes no worktree and is part of no worker's work.        *)
LEMMA HealthGoesOn ==
  ASSUME LoopInv, RecordInv, FleetInv, AllHealthy, [Next]_vars, UNCHANGED disk,
         \A i \in Issue : RecordGoesOn(i),
         \A w \in Worker :
           \/ daemon'[w] = daemon[w]
           \/ /\ ~Working(w) /\ ~Working(w)'
              /\ In(w, "preparing")' => Pristine(TaskOf(w).issue)'
  PROVE  AllHealthy'
<1>1. ASSUME NEW i \in Issue PROVE Usable(i)'
  <2>1. Usable(i) /\ RecordGoesOn(i)
    BY DEF AllHealthy
  <2>2. Untouched(i)' => Untouched(i)
    BY UntouchedBefore DEF Working
  <2>3. Untouched(i)' => Pristine(i)'
    BY <2>1, <2>2, PristineStays DEF Usable
  <2> QED BY <2>1, <2>3 DEF Usable, RecordGoesOn, Recorded
<1>2. ASSUME NEW w \in Worker, daemon'[w] = daemon[w] PROVE Healthy(w)'
  <2>1. Healthy(w)
    BY DEF AllHealthy
  <2>2. CASE ~Busy(w)
    BY <1>2, <2>2 DEF Healthy, Busy, In
  <2>3. CASE Busy(w)
    <3>1. /\ daemon[w].session \in Session /\ task[daemon[w].session].status # "absent"
          /\ TaskOf(w).issue \in Issue
      BY <2>3, Writer DEF Busy, LoopInv, JobsOK
    <3>2. TaskOf(w)'.issue = TaskOf(w).issue /\ TaskOf(w)'.head = TaskOf(w).head
      BY <1>2, <3>1, StartedStays DEF TaskOf, SameTask, LoopInv
    <3>3. Tree(w)' = Tree(w)
      BY <3>2 DEF Tree
    <3>4. Ancestor(w)' = Ancestor(w)
      BY <1>2, <3>2 DEF Ancestor
    <3>5. In(w, "preparing")' => Pristine(TaskOf(w).issue)'
      <4>1. PICK j \in Issue : j = TaskOf(w).issue
        BY <3>1
      <4>2. Pristine(j) => Pristine(j)'
        BY PristineStays
      <4> QED BY <1>2, <2>1, <3>2, <4>1, <4>2 DEF Healthy, In
    <3> QED BY <1>2, <2>1, <3>3, <3>4, <3>5 DEF Healthy, In, Acceptable
  <2> QED BY <2>2, <2>3
<1>3. ASSUME NEW w \in Worker, ~Working(w)', In(w, "preparing")' => Pristine(TaskOf(w).issue)'
      PROVE  Healthy(w)'
  BY <1>3 DEF Healthy, Working, In
<1> QED BY <1>1, <1>2, <1>3 DEF AllHealthy

(* Nothing goes wrong: no process dies, no message is lost, no command     *)
(* fails.                                                                  *)
LEMMA HealthProcess ==
  ASSUME OwnCopies, LoopInv, RecordInv, FleetInv, CopiesKnown, AllHealthy, [Next]_vars,
         \/ Client \/ \E s \in Session : GoesStale(s)
         \/ \E w \in Worker : Start(w) \/ Claim(w)
  PROVE  AllHealthy'
<1>1. UNCHANGED disk /\ daemon \in [Worker -> Job]
  BY DEF Client, GoesStale, Start, Claim, LoopInv, JobsOK
<1>2. \A i \in Issue : RecordGoesOn(i)
  <2>1. CASE Client \/ \E s \in Session : GoesStale(s)
    BY <2>1, CopiesClient
  <2>2. CASE \E w \in Worker : Start(w)
    BY <2>2 DEF Start, RegisterWorker, RecordGoesOn, Waiting
  <2>3. CASE \E w \in Worker : Claim(w)
    BY <2>3, CopiesClaim
  <2> QED BY <2>1, <2>2, <2>3
<1>3. ASSUME NEW w \in Worker
      PROVE  \/ daemon'[w] = daemon[w]
             \/ ~Working(w) /\ ~Working(w)' /\ ~In(w, "preparing")'
  <2>1. CASE Client \/ \E s \in Session : GoesStale(s)
    BY <2>1 DEF Client, GoesStale
  <2>2. CASE \E v \in Worker : Start(v)
    BY <1>1, <2>2 DEF Start, Idle, NoJob, In, Working
  <2>3. CASE \E v \in Worker : Claim(v)
    <3>1. PICK v \in Worker : Claim(v)
      BY <2>3
    <3>2. PICK s \in Candidates(v) :
            \/ daemon' = [daemon EXCEPT ![v] =
                 [@ EXCEPT !.phase = "claimed", !.session = s,
                           !.initialize = wc[task[s].issue].state = "uninitialized"]]
            \/ UNCHANGED daemon
      BY <3>1 DEF Claim
    <3>3. daemon[v].phase = "idle" /\ daemon[v] \in Job
      BY <1>1, <3>1 DEF Claim, In
    <3>4. CASE UNCHANGED daemon
      BY <3>4
    <3>5. CASE daemon' = [daemon EXCEPT ![v] =
                 [@ EXCEPT !.phase = "claimed", !.session = s,
                           !.initialize = wc[task[s].issue].state = "uninitialized"]]
      <4>1. \A u \in Worker \ {v} : daemon'[u] = daemon[u]
        BY <1>1, <3>5
      <4>2. daemon'[v].phase = "claimed"
        BY <1>1, <3>3, <3>5 DEF Job
      <4> QED BY <3>3, <4>1, <4>2 DEF In, Working
    <3> QED BY <3>2, <3>4, <3>5
  <2> QED BY <2>1, <2>2, <2>3
<1> QED BY <1>1, <1>2, <1>3, HealthGoesOn

LEMMA HealthMark ==
  ASSUME OwnCopies, LoopInv, RecordInv, FleetInv, CopiesKnown, AllHealthy, [Next]_vars,
         NEW w \in Worker, Mark(w)
  PROVE  AllHealthy'
<1>1. UNCHANGED disk /\ daemon \in [Worker -> Job] /\ In(w, "claimed") /\ Busy(w)
  BY DEF Mark, LoopInv, JobsOK, Busy, In
<1>2. \A i \in Issue : RecordGoesOn(i)
  BY CopiesMark
<1>3. PICK j \in Issue : j = TaskOf(w).issue
  BY <1>1, Writer
<1>4. \A v \in Worker \ {w} : daemon'[v] = daemon[v]
  BY <1>1 DEF Mark, Enter, Idle
<1>5. ~Working(w) /\ ~Working(w)' /\ (In(w, "preparing")' => Pristine(TaskOf(w).issue)')
  <2>1. CASE Idle(w)
    BY <1>1, <2>1 DEF Idle, NoJob, Working, In
  <2>2. CASE MarkRunning(w, daemon[w].session) /\ Enter(w, "preparing")
    <3>1. /\ daemon'[w].phase = "preparing" /\ daemon'[w].session = daemon[w].session
          /\ daemon[w].phase = "claimed"
      BY <1>1, <2>2 DEF Enter, Job, In
    <3>2. TaskOf(w)'.issue = j
      BY <1>1, <1>3, <3>1, StartedStays DEF TaskOf, SameTask, LoopInv, JobsOK, Busy
    <3>3. wc[j].active = daemon[w].session /\ ~task[wc[j].active].cancelRequested
      BY <1>1, <1>3, <2>2, Writer DEF MarkRunning, Accepts
    <3>4. Untouched(j)
      BY <1>1, <1>3, <3>1, <3>3, WritersApart DEF Untouched, Working, Busy
    <3>5. Pristine(j)'
      BY <1>1, <1>2, <3>4, PristineStays DEF AllHealthy, Usable
    <3> QED BY <3>1, <3>2, <3>5 DEF Working
  <2> QED BY <2>1, <2>2 DEF Mark
<1> QED BY <1>1, <1>2, <1>4, <1>5, HealthGoesOn

(* A step of a worker's job: from here on it works.                        *)
LEMMA HealthByJob ==
  ASSUME LoopInv, RecordInv, FleetInv, CopiesKnown, AllHealthy, NEW w \in Worker, Busy(w),
         SameJob(w), OnlyTree(w), Working(w)', Healthy(w)'
  PROVE  AllHealthy'
<1>0. PICK j \in Issue : j = TaskOf(w).issue
  BY Writer
<1>1. UNCHANGED <<wc, task>> /\ daemon'[w].session = daemon[w].session
      /\ \A v \in Worker \ {w} : daemon'[v] = daemon[v]
  BY DEF SameJob
<1>2. \A v \in Worker \ {w} : TaskOf(v)' = TaskOf(v) /\ Working(v)' = Working(v)
  BY <1>1 DEF TaskOf, Working
<1>3. ASSUME NEW i \in Issue \ {j} PROVE Pristine(i)' <=> Pristine(i)
  <2>1. \A d \in Storage : disk'[d][i] = disk[d][i]
    BY <1>0 DEF OnlyTree
  <2>2. wc[i].state \in Recorded => wc[i].storage \in Storage
    BY DEF CopiesKnown, Described, LoopInv, TypeOK, CopyRecord, StorageOrNone
  <2> QED BY <1>1, <2>1, <2>2 DEF Pristine, Matches
<1>4. ASSUME NEW i \in Issue PROVE Usable(i)'
  <2>1. Usable(i)
    BY DEF AllHealthy
  <2>2. CASE i = j
    <3>1. ~Untouched(j)'
      <4>1. TaskOf(w)' = TaskOf(w)
        BY <1>1 DEF TaskOf
      <4> QED BY <1>0, <4>1 DEF Untouched
    <3> QED BY <1>1, <2>1, <2>2, <3>1 DEF Usable
  <2>3. CASE i # j
    <3>1. Untouched(i)' => Untouched(i)
      BY <1>0, <1>1, <1>2, <2>3 DEF Untouched, Waiting
    <3> QED BY <1>1, <1>3, <2>1, <2>3, <3>1 DEF Usable
  <2> QED BY <2>2, <2>3
<1>5. ASSUME NEW v \in Worker \ {w} PROVE Healthy(v)'
  <2>1. Healthy(v) /\ daemon'[v] = daemon[v]
    BY <1>1 DEF AllHealthy
  <2>2. CASE ~Busy(v)
    BY <2>1, <2>2 DEF Healthy, Busy, In
  <2>3. CASE Busy(v)
    <3>1. PICK i \in Issue \ {j} : i = TaskOf(v).issue
      BY <1>0, <2>3, Writer, WritersApart
    <3>2. Tree(v)' = Tree(v)
      BY <1>0, <1>2, <3>1, RootType DEF OnlyTree, Tree
    <3>3. Pristine(TaskOf(v).issue)' <=> Pristine(TaskOf(v).issue)
      BY <1>2, <1>3, <3>1
    <3>4. Ancestor(v)' = Ancestor(v)
      BY <1>2, <2>1 DEF Ancestor
    <3> QED BY <2>1, <3>2, <3>3, <3>4 DEF Healthy, In, Acceptable
  <2> QED BY <2>2, <2>3
<1> QED BY <1>4, <1>5 DEF AllHealthy

(* What a worker finds when it prepares the worktree of its session: none  *)
(* where none was made, otherwise one at the head the session starts from. *)
LEMMA FoundReady ==
  ASSUME LoopInv, RecordInv, FleetInv, CopiesKnown, AllHealthy, NEW w \in Worker,
         In(w, "preparing")
  PROVE  /\ ~Tree(w).tree => daemon[w].initialize /\ ~Tree(w).branch
         /\ Tree(w).tree => /\ Tree(w).base # None /\ Tree(w).head = TaskOf(w).head
                            /\ Tree(w).head \in Commit /\ ~daemon[w].initialize
<1>1. Busy(w) /\ Root[w] \in Storage
  BY RootType DEF In, Busy
<1>2. PICK j \in Issue : j = TaskOf(w).issue
  BY <1>1, Writer
<1>3. /\ wc[j].storage = Root[w] /\ wc[j].head = TaskOf(w).head
      /\ wc[j].state \in {"uninitialized", "clean", "dirty"}
  BY <1>1, <1>2, Writer DEF TaskOf
<1>4. Pristine(j) /\ Described(j) /\ Tree(w) = disk[Root[w]][j]
  BY <1>2 DEF AllHealthy, Healthy, CopiesKnown, Tree
<1>5. daemon[w].initialize <=> wc[j].state = "uninitialized"
  BY <1>1, <1>2 DEF CopiesKnown, Knows
<1>6. Tree(w).tree => Tree(w).head \in Commit
  BY <1>1, TreeType DEF Busy
<1> QED BY <1>1, <1>3, <1>4, <1>5, <1>6 DEF Pristine, Described, Matches, Recorded

LEMMA ReportAccepted ==
  ASSUME NEW w \in Worker, NEW tree, NEW status, NEW source,
         tree.tree, tree.on = "branch", tree.head \in Commit, tree.dirty \in BOOLEAN,
         Ancestor(w) \in Commit, Ancestor(w) <= tree.head, daemon[w].base # None,
         status = "completed" => Inspected(w, tree, None).state = "clean"
  PROVE  Acceptable(ReportOf(w, status, Inspected(w, tree, None), source), w)
<1> DEFINE seen == Inspected(w, tree, None)
<1>1. Ancestor(w) # None /\ ~(Ancestor(w) > tree.head) /\ tree.head # None
  BY DaemonAssumption, NoneAssumption DEF DaemonAssumption
<1>2. seen.base = daemon[w].base /\ seen.head = tree.head
  BY DEF Inspected
<1>3. seen.reason = None /\ seen.state \in Recorded
  BY <1>1 DEF Inspected, Ancestor, Recorded
<1> HIDE DEF seen
<1> QED BY <1>1, <1>2, <1>3 DEF Acceptable, ReportOf, seen

(* A phase in which the worktree is changed, at a head that is no older.   *)
LEMMA HealthyPhase ==
  ASSUME NEW w \in Worker, SameJob(w), daemon'[w].base = daemon[w].base,
         daemon'[w].phase \in {"initializing", "prepared", "starting", "engine", "capturing"},
         Ancestor(w) \in Commit, Ancestor(w) <= Tree(w)'.head
  PROVE  Working(w)' /\ Healthy(w)'
<1>1. Ancestor(w)' = Ancestor(w)
  BY DEF SameJob, Ancestor, TaskOf
<1> QED BY <1>1 DEF Healthy, Working, In

LEMMA HealthyReport ==
  ASSUME NEW w \in Worker, daemon'[w].phase = "reporting", Acceptable(daemon'[w].report, w)
  PROVE  Working(w)' /\ Healthy(w)'
BY DEF Healthy, Working, In, Acceptable

LEMMA HealthEngine ==
  ASSUME LoopInv, RecordInv, FleetInv, CopiesKnown, AllHealthy, NEW w \in Worker,
         \/ SetUp(w) \/ BeginEngine(w) \/ EngineEnds(w)
         \/ AgentEdits(w) \/ AgentCommits(w) \/ Watch(w)
  PROVE  AllHealthy'
<1>1. /\ Busy(w) /\ UNCHANGED <<wc, task>> /\ daemon \in [Worker -> Job] /\ daemon[w] \in Job
      /\ daemon[w].phase \in {"prepared", "starting", "engine", "capturing"}
  BY DEF SetUp, BeginEngine, EngineEnds, AgentEdits, AgentCommits, Watch, In, Busy, LoopInv,
     JobsOK, server
<1>2. /\ Ancestor(w) \in Commit /\ Tree(w).head \in Commit /\ Ancestor(w) <= Tree(w).head
      /\ Tree(w) \in Worktree
  BY <1>1, TreeType DEF AllHealthy, Healthy, CopiesKnown, Knows, Busy
<1>3. /\ SameJob(w) /\ daemon'[w].phase \in {"starting", "engine", "capturing"}
      /\ daemon'[w].base = daemon[w].base
  <2>1. CASE SetUp(w) \/ BeginEngine(w) \/ EngineEnds(w)
    BY <1>1, <2>1 DEF SetUp, BeginEngine, EngineEnds, Enter, In, SameJob, Job
  <2>2. CASE AgentEdits(w) \/ AgentCommits(w)
    BY <1>1, <2>2 DEF AgentEdits, AgentCommits, In, SameJob
  <2>3. CASE Watch(w)
    BY <1>1, <2>3 DEF Watch, SameJob, Job
  <2> QED BY <2>1, <2>2, <2>3
<1>4. CASE SetUp(w) \/ BeginEngine(w) \/ EngineEnds(w) \/ Watch(w)
  <2>1. OnlyTree(w) /\ Tree(w)' = Tree(w)
    BY <1>1, <1>3, <1>4, SameDisk DEF SetUp, BeginEngine, EngineEnds, Watch
  <2> QED BY <1>1, <1>2, <1>3, <2>1, HealthyPhase, HealthByJob
<1>5. CASE AgentEdits(w) \/ AgentCommits(w)
  <2>1. PICK tree : /\ SetTree(w, tree)
                    /\ tree = [Tree(w) EXCEPT !.dirty = TRUE] \/ tree = Committed(Tree(w))
    BY <1>5 DEF AgentEdits, AgentCommits
  <2>2. tree.head \in {Tree(w).head, Tree(w).head + 1}
    BY <1>2, <2>1 DEF Committed, Worktree
  <2>3. OnlyTree(w) /\ Tree(w)' = tree
    BY <1>1, <1>3, <2>1, NewTree
  <2>4. Ancestor(w) <= Tree(w)'.head
    BY <1>2, <2>2, <2>3, DaemonAssumption DEF DaemonAssumption
  <2> QED BY <1>1, <1>2, <1>3, <2>3, <2>4, HealthyPhase, HealthByJob
<1> QED BY <1>4, <1>5

(* Without faults no worktree leaves its branch or loses the project's     *)
(* directory.                                                              *)
LEMMA StraightTree ==
  ASSUME LoopInv, AllStraight, NEW w \in Worker, Busy(w)
  PROVE  Straight(Tree(w))
BY TreeType DEF AllStraight, Tree, Busy

LEMMA StraightSet ==
  ASSUME LoopInv, AllStraight, NEW w \in Worker, Busy(w), NEW tree, SetTree(w, tree),
         Straight(tree)
  PROVE  AllStraight'
<1>1. TaskOf(w).issue \in Issue /\ Root[w] \in Storage
  BY TreeType DEF Busy
<1>2. disk \in [Storage -> [Issue -> Worktree]]
  BY DEF LoopInv, DisksOK
<1>3. ASSUME NEW d \in Storage, NEW i \in Issue
      PROVE  disk'[d][i] = tree \/ disk'[d][i] = disk[d][i]
  BY <1>1, <1>2 DEF SetTree
<1> QED BY <1>3 DEF AllStraight, Straight

LEMMA StraightStep ==
  ASSUME LoopInv, AllStraight, [DaemonNext]_wvars, \A f \in Fault : ~Fails(f)
  PROVE  AllStraight'
<1>1. CASE UNCHANGED disk
  BY <1>1 DEF AllStraight
<1>2. ASSUME NEW w \in Worker,
             \/ AddWorktree(w) \/ WriteMetadata(w) \/ AgentEdits(w) \/ AgentCommits(w)
             \/ Capture(w)
      PROVE  AllStraight'
  <2>1. Busy(w)
    BY <1>2 DEF AddWorktree, WriteMetadata, AgentEdits, AgentCommits, Capture, In, Busy
  <2>2. Straight(Tree(w)) /\ Tree(w) \in Worktree
    BY <2>1, StraightTree, TreeType DEF Busy
  <2>3. CASE AddWorktree(w)
    <3>1. PICK base : SetTree(w, Added(base, TRUE))
      BY <2>3, FaultNames DEF AddWorktree
    <3>2. Straight(Added(base, TRUE))
      BY DEF Straight, Added
    <3> QED BY <2>1, <3>1, <3>2, StraightSet
  <2>4. CASE ~AddWorktree(w)
    <3>1. PICK tree :
            /\ SetTree(w, tree)
            /\ \/ tree = [Tree(w) EXCEPT !.base = MetadataBase(w)]
               \/ tree = [Tree(w) EXCEPT !.dirty = TRUE]
               \/ tree = Committed(Tree(w))
               \/ tree \in Captured(Tree(w))
      BY <1>2, <2>4 DEF WriteMetadata, AgentEdits, AgentCommits, Capture
    <3>2. tree.tree = Tree(w).tree /\ tree.on = Tree(w).on /\ tree.project = Tree(w).project
      BY <2>2, <3>1 DEF Captured, Committed, Worktree
    <3> QED BY <2>1, <2>2, <3>1, <3>2, StraightSet DEF Straight
  <2> QED BY <2>3, <2>4
<1>3. ASSUME NEW w \in Worker PROVE ~AgentStrays(w) /\ ~MetadataFails(w)
  BY FaultNames DEF AgentStrays, MetadataFails
<1>4. \A d \in Storage, i \in Issue : ~WorktreeRemoved(d, i)
  BY FaultNames DEF WorktreeRemoved
<1>5. CASE \/ Client \/ \E s \in Session : GoesStale(s)
           \/ \E w \in Worker : Start(w) \/ Crash(w) \/ ShutDown(w) \/ Claim(w) \/ Mark(w)
           \/ \E w \in Worker : Watch(w)
           \/ UNCHANGED wvars
  BY <1>1, <1>5 DEF Client, GoesStale, Start, Crash, ShutDown, Claim, Mark, Watch, wvars
<1>6. CASE \E w \in Worker : Prepare(w)
  BY <1>1, <1>2, <1>3, <1>6
     DEF Prepare, RepositoryFails, WorktreeMissing, AddRefused, Reuse, Refuse,
         ProjectMissing, SetUp, SetUpFails
<1>7. CASE \E w \in Worker : Finish(w)
  BY <1>1, <1>2, <1>7
     DEF Finish, BeginEngine, EngineUnavailable, EngineEnds, EngineFails, EngineStops,
         CaptureFails, Send
<1> QED BY <1>2, <1>3, <1>4, <1>5, <1>6, <1>7 DEF DaemonNext

LEMMA HealthPrepare ==
  ASSUME LoopInv, RecordInv, FleetInv, CopiesKnown, AllHealthy, AllStraight, NEW w \in Worker,
         Prepare(w), \A f \in Fault : ~Fails(f)
  PROVE  AllHealthy'
<1>1. /\ Busy(w) /\ daemon \in [Worker -> Job] /\ daemon[w] \in Job
      /\ UNCHANGED <<wc, task>>
  BY DEF Prepare, RepositoryFails, WorktreeMissing, AddWorktree, AddRefused, WriteMetadata,
     MetadataFails, Reuse, Refuse, ProjectMissing, SetUp, SetUpFails, In, Busy, LoopInv, JobsOK, server
<1>2. TaskOf(w).head \in CommitOrNone
  BY <1>1, TreeType DEF Busy
<1>3. CASE AddWorktree(w)
  <2> DEFINE base == IF TaskOf(w).head # None THEN TaskOf(w).head ELSE 0
  <2>0. PICK project : SetTree(w, Added(base, project))
    BY <1>3 DEF AddWorktree
  <2>1. SameJob(w) /\ daemon'[w].phase = "initializing" /\ daemon'[w].base = base
    BY <1>1, <1>3 DEF AddWorktree, SameJob, Job
  <2>2. OnlyTree(w) /\ Tree(w)' = Added(base, project)
    BY <1>1, <2>0, <2>1, NewTree
  <2>3. base \in Commit /\ base <= base
    BY <1>2, DaemonAssumption DEF DaemonAssumption, CommitOrNone
  <2>4. Ancestor(w)' = base
    <3>1. TaskOf(w)' = TaskOf(w)
      BY <2>1 DEF SameJob, TaskOf
    <3> QED BY <2>1, <3>1 DEF Ancestor
  <2>5. Tree(w)'.head = base
    BY <2>2 DEF Added
  <2> HIDE DEF base
  <2>6. Working(w)' /\ Healthy(w)'
    BY <2>1, <2>3, <2>4, <2>5 DEF Healthy, Working, In
  <2> QED BY <1>1, <2>1, <2>2, <2>6, HealthByJob
<1>4. CASE WriteMetadata(w)
  <2> DEFINE tree == [Tree(w) EXCEPT !.base = MetadataBase(w)]
  <2>1. /\ SameJob(w) /\ daemon'[w].phase = "prepared" /\ daemon'[w].base = daemon[w].base
        /\ daemon[w].phase = "initializing"
    BY <1>1, <1>4 DEF WriteMetadata, Enter, In, SameJob, Job
  <2>2. OnlyTree(w) /\ Tree(w)' = tree
    BY <1>1, <1>4, <2>1, NewTree DEF WriteMetadata
  <2>3. tree.head = Tree(w).head
    BY <1>1, TreeType DEF Worktree, Busy
  <2>4. Ancestor(w) \in Commit /\ Ancestor(w) <= Tree(w)'.head
    BY <2>1, <2>2, <2>3 DEF AllHealthy, Healthy
  <2> QED BY <1>1, <2>1, <2>2, <2>4, HealthyPhase, HealthByJob
<1>5. CASE Reuse(w)
  <2>1. /\ SameJob(w) /\ daemon'[w].phase = "prepared" /\ Tree(w).tree /\ UNCHANGED disk
        /\ In(w, "preparing")
    BY <1>1, <1>5 DEF Reuse, SameJob, server, Job
  <2>2. OnlyTree(w) /\ Tree(w)' = Tree(w)
    BY <1>1, <2>1, SameDisk
  <2>3. Tree(w).head = TaskOf(w).head /\ Tree(w).head \in Commit
    BY <2>1, FoundReady
  <2>4. Ancestor(w)' = Tree(w).head
    <3>1. TaskOf(w)' = TaskOf(w) /\ TaskOf(w).head # None
      BY <2>1, <2>3, NoneAssumption DEF SameJob, TaskOf
    <3> QED BY <2>3, <3>1 DEF Ancestor
  <2>5. Working(w)' /\ Healthy(w)'
    <3>1. Tree(w).head <= Tree(w).head
      BY <2>3, DaemonAssumption DEF DaemonAssumption
    <3> QED BY <2>1, <2>2, <2>3, <2>4, <3>1 DEF Healthy, Working, In
  <2> QED BY <1>1, <2>1, <2>2, <2>5, HealthByJob
<1>6. ~RepositoryFails(w) /\ ~MetadataFails(w) /\ ~SetUpFails(w)
  BY FaultNames DEF RepositoryFails, MetadataFails, SetUpFails
<1>7. ~WorktreeMissing(w) /\ ~AddRefused(w) /\ ~Refuse(w)
  <2> SUFFICES ASSUME In(w, "preparing") PROVE ~WorktreeMissing(w) /\ ~AddRefused(w) /\ ~Refuse(w)
    BY DEF WorktreeMissing, AddRefused, Refuse
  <2>1. CASE ~Tree(w).tree
    BY <2>1, FoundReady DEF WorktreeMissing, AddRefused, Refuse
  <2>2. CASE Tree(w).tree
    <3>1. Reusable(w)
      BY <1>1, <2>2, FoundReady, StraightTree, NoneAssumption DEF Reusable, ExpectedHead, Straight
    <3> QED BY <2>2, <3>1 DEF WorktreeMissing, AddRefused, Refuse
  <2> QED BY <2>1, <2>2
<1>8. ~ProjectMissing(w)
  <2> SUFFICES ASSUME In(w, "prepared") PROVE HasProject(w)
    BY DEF ProjectMissing
  <2>1. Tree(w).tree
    BY DEF CopiesKnown, Knows, In
  <2> QED BY <1>1, <2>1, StraightTree DEF Straight, HasProject
<1>9. CASE SetUp(w)
  BY <1>9, HealthEngine
<1> QED BY <1>3, <1>4, <1>5, <1>6, <1>7, <1>8, <1>9 DEF Prepare


LEMMA HealthReport ==
  ASSUME LoopInv, RecordInv, FleetInv, CopiesKnown, AllHealthy, AllStraight, NEW w \in Worker,
         EngineFails(w) \/ EngineStops(w) \/ Capture(w) \/ CaptureFails(w)
  PROVE  AllHealthy'
<1>1. /\ Busy(w) /\ UNCHANGED <<wc, task>> /\ daemon \in [Worker -> Job] /\ daemon[w] \in Job
      /\ daemon[w].phase \in {"engine", "capturing"}
  BY DEF EngineFails, EngineStops, Capture, CaptureFails, In, Busy, LoopInv, JobsOK, server
<1>2. /\ Ancestor(w) \in Commit /\ Tree(w).head \in Commit /\ Ancestor(w) <= Tree(w).head
      /\ Tree(w).tree /\ daemon[w].base # None /\ Tree(w) \in Worktree
      /\ Tree(w).on = "branch"
  BY <1>1, TreeType, StraightTree DEF AllHealthy, Healthy, CopiesKnown, Knows, Busy, Straight
<1>3. CASE EngineFails(w) \/ EngineStops(w) \/ CaptureFails(w)
  <2>1. PICK status, source : /\ Conclude(w, status, Inspected(w, Tree(w), None), source)
                              /\ status # "completed" /\ UNCHANGED disk
    BY <1>3 DEF EngineFails, EngineStops, CaptureFails, Abort
  <2>2. PICK tree : tree = Tree(w)
    OBVIOUS
  <2>3. Acceptable(ReportOf(w, status, Inspected(w, tree, None), source), w)
    <3>1. /\ tree.tree /\ tree.on = "branch" /\ tree.head \in Commit /\ tree.dirty \in BOOLEAN
          /\ Ancestor(w) <= tree.head
      BY <1>2, <2>2 DEF Worktree
    <3> QED BY <1>2, <2>1, <3>1, ReportAccepted
  <2>4. /\ SameJob(w) /\ daemon'[w].phase = "reporting"
        /\ daemon'[w].report = ReportOf(w, status, Inspected(w, tree, None), source)
    BY <1>1, <2>1, <2>2, Concluded
  <2>5. OnlyTree(w)
    BY <1>1, <2>1, <2>4, SameDisk
  <2> QED BY <1>1, <2>3, <2>4, <2>5, HealthyReport, HealthByJob
<1>4. CASE Capture(w)
  <2>1. PICK tree, source, status :
          /\ tree \in Captured(Tree(w)) /\ tree.head <= MaxCommit /\ SetTree(w, tree)
          /\ Conclude(w, status, Inspected(w, tree, None), source)
          /\ status = "completed" => Inspected(w, tree, None).state = "clean"
    BY <1>4 DEF Capture
  <2>2. /\ tree.tree /\ tree.on = "branch" /\ tree.dirty \in BOOLEAN
        /\ tree.head = Tree(w).head \/ tree.head = Tree(w).head + 1
    BY <1>2, <2>1 DEF Captured, Committed, Worktree
  <2>3. tree.head \in Commit
    BY <1>2, <2>1, <2>2, DaemonAssumption DEF DaemonAssumption
  <2>4. Ancestor(w) <= tree.head
    BY <1>2, <2>2, DaemonAssumption DEF DaemonAssumption
  <2>5. Acceptable(ReportOf(w, status, Inspected(w, tree, None), source), w)
    BY <1>2, <2>1, <2>2, <2>3, <2>4, ReportAccepted
  <2>6. /\ SameJob(w) /\ daemon'[w].phase = "reporting"
        /\ daemon'[w].report = ReportOf(w, status, Inspected(w, tree, None), source)
    BY <1>1, <2>1, Concluded
  <2>7. OnlyTree(w)
    BY <1>1, <2>1, <2>6, NewTree
  <2> QED BY <1>1, <2>5, <2>6, <2>7, HealthyReport, HealthByJob
<1> QED BY <1>3, <1>4

(* An acceptable report is accepted: the record takes the worktree's head, *)
(* and the next turn finds both alike.                                     *)
LEMMA HealthSend ==
  ASSUME OwnCopies, LoopInv, RecordInv, FleetInv, CopiesKnown, AllHealthy, [Next]_vars,
         CopiesKnown', NEW w \in Worker, Send(w), \A f \in Fault : ~Fails(f)
  PROVE  AllHealthy'
<1> DEFINE s == daemon[w].session
           r == daemon[w].report
           status == EffectiveStatus(s, r.status)
<1>0. PICK j \in Issue : j = task[s].issue
  BY Writer DEF Send, In, Busy, TaskOf
<1>1. /\ Busy(w) /\ s \in Session /\ LiveCopyTask(s) /\ Held(s) /\ wc[j] \in CopyRecord
      /\ wc[j].active = s /\ wc[j].state \in {"uninitialized", "clean", "dirty"}
      /\ wc[j].gen = task[s].gen /\ wc[j].head = task[s].head /\ task[s].claimedBy = w
      /\ wc[j].storage = Root[w] /\ worker[w].storage = Root[w] /\ Root[w] # None
  BY <1>0, Writer, RootType DEF Send, In, Busy, TaskOf
<1>2. /\ daemon \in [Worker -> Job] /\ Idle(w) /\ UNCHANGED disk /\ In(w, "reporting")
      /\ daemon'[w].phase = "idle" /\ \A v \in Worker \ {w} : daemon'[v] = daemon[v]
  BY DEF Send, LoopInv, JobsOK, Idle, NoJob
<1>3. ASSUME NEW v \in Worker \ {w}, Busy(v)
      PROVE  TaskOf(v).issue \in Issue \ {j} /\ daemon[v].session \in Session \ {s}
  BY <1>0, <1>1, <1>3, Writer, WritersApart DEF TaskOf
<1>4. /\ \A i \in Issue \ {j} : wc'[i] = wc[i]
      /\ \A t \in Session \ {s} : task'[t] = task[t]
  <2>1. CASE UNCHANGED server
    BY <2>1 DEF server
  <2>2. CASE FinishTask(w, s, r)
    <3>1. task' = [task EXCEPT ![s] = FinishedTask(s, w, status, r)]
      BY <2>2 DEF FinishTask, OwnCopies, QueuesDeploy
    <3>2. wc' = [wc EXCEPT ![j] = Reconciled(s, w, status, r)] \/ wc' = wc
      BY <1>0, <2>2 DEF FinishTask
    <3> QED BY <3>1, <3>2 DEF LoopInv, TypeOK
  <2> QED BY <2>1, <2>2, FaultNames DEF Send, server
<1>5. ASSUME NEW i \in Issue \ {j} PROVE Usable(i)'
  <2>1. Usable(i) /\ wc'[i] = wc[i]
    BY <1>4 DEF AllHealthy
  <2>2. wc[i].active # s /\ wc[i].active \in Session \cup {None}
    BY <1>0, <1>1, ActiveApart DEF LoopInv, TypeOK, CopyRecord
  <2>3. Waiting(i)' <=> Waiting(i)
    BY <1>4, <2>1, <2>2 DEF Waiting
  <2>4. Untouched(i)' => Untouched(i)
    <3>1. wc'[i].active = wc[i].active
      BY <2>1
    <3>2. Waiting(i)' \/ ~task'[wc[i].active].cancelRequested
            => Waiting(i) \/ ~task[wc[i].active].cancelRequested
      BY <1>4, <2>2, <2>3, <3>1 DEF Waiting
    <3>3. ASSUME NEW v \in Worker \ {w}, Working(v)
          PROVE  Working(v)' /\ TaskOf(v)' = TaskOf(v)
      BY <1>2, <1>3, <1>4, <3>3 DEF Working, TaskOf, Busy
    <3>4. TaskOf(w).issue # i
      BY <1>0 DEF TaskOf
    <3> QED BY <2>1, <3>2, <3>3, <3>4 DEF Untouched
  <2> QED BY <1>2, <2>1, <2>4 DEF Usable, Pristine, Matches
<1>6. Usable(j)'
  <2>1. Usable(j) /\ Acceptable(r, w) /\ r \in ReportType
    BY <1>2 DEF AllHealthy, Healthy, LoopInv, JobsOK, In
  <2>2. CASE ~Accepts(s, w, status) /\ UNCHANGED server
    <3>1. task[s].cancelRequested /\ ~Waiting(j)
      BY <1>1, <2>2, NoneAssumption DEF Accepts, Held, Waiting
    <3>2. wc'[j] = wc[j] /\ ~Untouched(j)'
      BY <1>1, <2>2, <3>1 DEF Untouched, Waiting, server
    <3> QED BY <2>1, <3>2 DEF Usable
  <2>3. CASE FinishTask(w, s, r)
    <3>1. wc' = [wc EXCEPT ![j] = Reconciled(s, w, status, r)]
      <4>1. Holds(s)
        BY <1>0, <1>1 DEF Holds, LiveCopyTask
      <4> QED BY <1>0, <2>3, <4>1 DEF FinishTask
    <3>2. EnvelopeOK(r) /\ r.genOK /\ r.branchOK
      BY <1>1, <2>1 DEF Acceptable, EnvelopeOK, Recorded
    <3>3. status = "completed" => r.state = "clean"
      BY <2>1 DEF Acceptable, EffectiveStatus
    <3>4. ~ReportedElsewhere(wc[task[s].issue], w, r)
      BY <1>0, <1>1, <2>1 DEF ReportedElsewhere, Acceptable
    <3>5. RecoveryReason(s, w, status, r) = None
      BY <1>0, <1>1, <2>1, <3>2, <3>3, <3>4 DEF RecoveryReason, Acceptable, Recorded
    <3>6. wc'[j] = WithReport(wc[j], r)
      BY <1>0, <3>1, <3>5 DEF Reconciled, LoopInv, TypeOK
    <3>7. wc'[j].state = r.state /\ wc'[j].head = r.head /\ wc'[j].active = None
      BY <1>1, <3>6 DEF WithReport, Released, CopyRecord
    <3>8. Described(j)' /\ Waiting(j)'
      BY <3>7 DEF CopiesKnown, Waiting
    <3>9. Pristine(j)'
      BY <2>1, <3>7, <3>8 DEF Pristine, Described, Acceptable, Recorded
    <3> QED BY <2>1, <3>7, <3>9 DEF Usable, Acceptable, Recorded
  <2> QED BY <2>2, <2>3, FaultNames DEF Send
<1>7. ASSUME NEW v \in Worker \ {w} PROVE Healthy(v)'
  <2>1. Healthy(v) /\ daemon'[v] = daemon[v]
    BY <1>2 DEF AllHealthy
  <2>2. CASE ~Busy(v)
    BY <2>1, <2>2 DEF Healthy, Busy, In
  <2>3. CASE Busy(v)
    <3>1. PICK i \in Issue \ {j} : i = TaskOf(v).issue
      BY <1>3, <2>3
    <3>2. TaskOf(v)' = TaskOf(v)
      BY <1>3, <1>4, <2>1, <2>3 DEF TaskOf
    <3>3. Tree(v)' = Tree(v) /\ Ancestor(v)' = Ancestor(v)
      BY <1>2, <2>1, <3>2 DEF Tree, Ancestor
    <3>4. Pristine(TaskOf(v).issue)' <=> Pristine(TaskOf(v).issue)
      BY <1>2, <1>4, <3>1, <3>2 DEF Pristine, Matches
    <3> QED BY <2>1, <3>2, <3>3, <3>4 DEF Healthy, In, Acceptable
  <2> QED BY <2>2, <2>3
<1>8. Healthy(w)'
  BY <1>2 DEF Healthy, In
<1> QED BY <1>5, <1>6, <1>7, <1>8 DEF AllHealthy

LEMMA HealthStep ==
  ASSUME Covers, OwnCopies, LoopInv, RecordInv, FleetInv, CopyInv, CopyInv', HealthInv,
         [DaemonNext]_wvars
  PROVE  HealthInv'
<1>1. [Next]_vars
  BY ServerStep DEF LoopInv
<1> SUFFICES ASSUME NoFault' PROVE AllHealthy' /\ AllStraight'
  BY DEF HealthInv
<1>2. NoFault /\ \A f \in Fault : ~Fails(f)
  <2>1. UNCHANGED faults \/ \E f \in Fault : Fails(f)
    BY FaultNames DEF DaemonNext, wvars, Client, GoesStale, WorktreeRemoved, Start, Crash,
       ShutDown, Claim, Mark, Prepare, RepositoryFails, WorktreeMissing, AddWorktree,
       AddRefused, WriteMetadata, MetadataFails, Reuse, Refuse, ProjectMissing, SetUp,
       SetUpFails, Finish, BeginEngine, EngineUnavailable, EngineEnds, EngineFails,
       EngineStops, Capture, CaptureFails, Send, AgentEdits, AgentCommits, AgentStrays, Watch
  <2>2. ASSUME NEW f \in Fault, Fails(f) PROVE FALSE
    BY <2>2 DEF Fails, LoopInv, FaultsOK, NoFault
  <2> QED BY <2>1, <2>2 DEF NoFault
<1>3. AllHealthy /\ AllStraight /\ CopiesKnown /\ CopiesKnown'
  BY <1>2, FaultNames DEF HealthInv, CopyInv, NoFault
<1>4. AllStraight'
  BY <1>2, <1>3, StraightStep
<1> SUFFICES AllHealthy'
  BY <1>4
<1>5. CASE \/ Client \/ \E s \in Session : GoesStale(s)
           \/ \E w \in Worker : Start(w) \/ Claim(w)
  BY <1>1, <1>3, <1>5, HealthProcess
<1>6. CASE \E w \in Worker : Mark(w)
  BY <1>1, <1>3, <1>6, HealthMark
<1>7. CASE \E w \in Worker : Prepare(w)
  BY <1>2, <1>3, <1>7, HealthPrepare
<1>8. ASSUME NEW w \in Worker, Finish(w) PROVE AllHealthy'
  <2>1. ~EngineUnavailable(w)
    BY <1>2, FaultNames DEF EngineUnavailable
  <2>2. CASE BeginEngine(w) \/ EngineEnds(w)
    BY <1>3, <2>2, HealthEngine
  <2>3. CASE EngineFails(w) \/ EngineStops(w) \/ Capture(w) \/ CaptureFails(w)
    BY <1>3, <2>3, HealthReport
  <2>4. CASE Send(w)
    BY <1>1, <1>2, <1>3, <2>4, HealthSend
  <2> QED BY <1>8, <2>1, <2>2, <2>3, <2>4 DEF Finish
<1>9. CASE \E w \in Worker : AgentEdits(w) \/ AgentCommits(w) \/ Watch(w)
  BY <1>3, <1>9, HealthEngine
<1>10. CASE UNCHANGED wvars
  <2>1. UNCHANGED <<wc, task, daemon, disk>>
    BY <1>10 DEF wvars
  <2>2. \A i \in Issue : RecordGoesOn(i)
    BY <2>1 DEF RecordGoesOn, Waiting
  <2> QED BY <1>1, <1>3, <2>1, <2>2, HealthGoesOn
<1>11. /\ \A d \in Storage, i \in Issue : ~WorktreeRemoved(d, i)
       /\ \A w \in Worker : ~Crash(w) /\ ~ShutDown(w) /\ ~AgentStrays(w)
  BY <1>2, FaultNames DEF WorktreeRemoved, Crash, ShutDown, AgentStrays
<1> QED BY <1>5, <1>6, <1>7, <1>8, <1>9, <1>10, <1>11 DEF DaemonNext

LEMMA HealthInit == DaemonInit => HealthInv
<1> SUFFICES ASSUME DaemonInit PROVE AllHealthy /\ AllStraight
  BY DEF HealthInv
<1>1. ASSUME NEW i \in Issue PROVE Usable(i)
  BY DEF DaemonInit, Init, Usable, Pristine, NoCopy, NoWorktree, Recorded
<1>2. ASSUME NEW w \in Worker PROVE Healthy(w)
  BY DEF DaemonInit, Healthy, NoJob, In
<1>3. AllStraight
  BY DEF DaemonInit, AllStraight, Straight, NoWorktree
<1> QED BY <1>1, <1>2, <1>3 DEF AllHealthy

-----------------------------------------------------------------------------
(* Theorems.                                                               *)

(* Types of records, jobs and disks, for any number of workers, storages,  *)
(* issues, sessions and faults.                                            *)
THEOREM DaemonTypeCorrect == ASSUME Covers PROVE DaemonSpec => []DaemonTypeOK
<1>1. LoopInv => DaemonTypeOK
  BY DEF LoopInv, JobsOK, DisksOK, FaultsOK, DaemonTypeOK
<1> QED
  BY <1>1, LoopInit, LoopStep, PTL DEF DaemonSpec

(* Workers and server together behave as the server's specification says:  *)
(* whatever crashes, is lost or fails, no report is of another kind.       *)
THEOREM DaemonImplementsServer == ASSUME Covers PROVE DaemonSpec => ImplementsServer
<1>1. DaemonInit => Init
  BY DEF DaemonInit
<1>2. LoopInv /\ [DaemonNext]_wvars => [Next]_vars
  BY ServerStep DEF LoopInv
<1> QED
  BY <1>1, <1>2, LoopInit, LoopStep, PTL DEF DaemonSpec, ImplementsServer, Spec

(* Hence the record's guarantees hold of the workers of WorkerDaemon.      *)
THEOREM DaemonsKeepTheRecord ==
  ASSUME Covers
  PROVE  DaemonSpec => /\ []ReservationExact /\ []CancelHonoured
                       /\ []GenerationCountsTurns /\ []LinearHistory
                       /\ []PublishedSourceIsCanonical
                       /\ StorageIsSticky /\ RecoveryIsTerminal /\ FinalIsFinal
                       /\ DeployFromAcceptedSource /\ ImplementsLease
BY DaemonImplementsServer, ReservationIsExact, CancellationIsHonoured, GenerationsCountTurns,
   HistoryIsLinear, PublishedSourceWasAccepted, StorageNeverMoves, RecoveryNeverEnds,
   OutcomesAreFinal, DeploysAcceptedSource, RecordImplementsLease, PTL DEF ImplementsServer

(* Two workers never write the copy of one issue at the same time: the one *)
(* that works on it holds its reservation, through crashes, reclaims and   *)
(* lost answers.                                                           *)
THEOREM OneWriterEver == ASSUME Covers, OwnCopies PROVE DaemonSpec => []OneWriter
<1>1. LoopInv /\ RecordInv /\ FleetInv => OneWriter
  BY WritersApart DEF OneWriter, Writing, Busy
<1> QED BY <1>1, FleetInvariant, PTL

(* Unless a worktree was deleted behind everybody's back, the next session *)
(* of an issue finds the worktree its record describes: whatever crashed,  *)
(* was reclaimed, lost or rejected meanwhile.                              *)
THEOREM RecordsStayCoherent ==
  ASSUME Covers, OwnCopies
  PROVE  DaemonSpec => []Coherent
<1>1. LoopInv /\ CopyInv => Coherent
  BY DEF CopyInv, CopiesKnown, Described, Matches, Recorded, Waiting, Coherent
<1>2. LoopInv /\ RecordInv /\ FleetInv /\ CopyInv /\ [DaemonNext]_wvars => CopyInv'
  BY CopiesStep
<1> QED BY <1>1, <1>2, CopiesInit, FleetInvariant, PTL DEF DaemonSpec

(* Cancellations, reclaims of tasks that seem abandoned, agents that fail, *)
(* edits and commits they leave behind never cost an issue its working     *)
(* copy: it is lost to recovery_required only after a crash, a lost        *)
(* message, a failing repository, file or git command, a removed worktree, *)
(* an engine that is gone, or an agent that left its branch, rewrote what  *)
(* it found or removed the project's directory.                            *)
THEOREM HealthyCopiesStayUsable ==
  ASSUME Covers, OwnCopies
  PROVE  DaemonSpec => []HealthyStaysUsable
<1>1. LoopInv /\ HealthInv => HealthyStaysUsable
  <2> SUFFICES ASSUME LoopInv, HealthInv, NEW i \in Issue, wc[i].state = "recovery_required"
               PROVE  \E f \in Fault : faults[f] > 0
    BY DEF HealthyStaysUsable
  <2>1. ~NoFault
    BY DEF HealthInv, AllHealthy, Usable
  <2> QED BY <2>1 DEF NoFault, LoopInv, FaultsOK
<1>2. LoopInv /\ RecordInv /\ FleetInv /\ CopyInv /\ [DaemonNext]_wvars => CopyInv'
  BY CopiesStep
<1>3. LoopInv /\ RecordInv /\ FleetInv /\ CopyInv /\ CopyInv' /\ HealthInv /\ [DaemonNext]_wvars
        => HealthInv'
  BY HealthStep
<1> QED BY <1>1, <1>2, <1>3, CopiesInit, HealthInit, FleetInvariant, PTL DEF DaemonSpec
=============================================================================
