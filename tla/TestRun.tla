------------------------------ MODULE TestRun -------------------------------
(***************************************************************************)
(* One run of a test plan: the server's state machine (memory_store.go,    *)
(* test_module_artifacts.go) together with the run pages of several users  *)
(* (TestRunDetailPage of packages/views/src/tests-page.tsx).               *)
(*                                                                         *)
(* The items of a run are executed in batches, each by one agent session;  *)
(* a plan with setup steps runs a setup session first.  A page shows the   *)
(* run as it was last read: it is not polled, and what a button sends may  *)
(* be served after another user or a worker has moved the run on.          *)
(***************************************************************************)
EXTENDS Naturals, Sequences, FiniteSets

CONSTANTS
  Items,            \* the run's items
  Batches,          \* positive naturals; sessions are created in this order
  BatchOf,          \* the batch an item is executed in
  Users,
  Buttons,          \* those the users press
  MaxSessions       \* bound

\* What the constants must satisfy.
RunAssumption == /\ IsFiniteSet(Items) /\ Items # {} /\ Batches \subseteq Nat \ {0}
                 /\ BatchOf \in [Items -> Batches] /\ Batches = {BatchOf[i]: i \in Items}
                 /\ Buttons \subseteq {"retry", "cancel", "accept", "block"}
                 /\ MaxSessions \in Nat \ {0} /\ Cardinality(Batches) <= MaxSessions

VARIABLES
  status, setup, review,   \* of the run
  item,                    \* status and session number of every item
  sessions,                \* the sessions created so far; batch 0 is the setup
  strayed,                 \* history: the batches with an item whose result came from
                           \* another session than its own
  online,                  \* batches for which a capable worker is online
  page,                    \* per user: what the run, as last read, offers
  calls                    \* per user: the calls under way

vars == <<status, setup, review, item, sessions, strayed, online, page, calls>>

Cancellable == {"queued", "setup_running", "running"}
Reviews == {"accepted", "blocked"}
RunStatuses == Cancellable \cup Reviews \cup {"needs_acceptance", "setup_failed", "cancelled"}

(* A result: what need not be run again (also "skipped"), or what may be   *)
(* retried (also "blocked").                                               *)
Results == {"passed", "failed"}
Final == Results \cup {"cancelled"}
Retriable == {"failed"}

TypeOK ==
  /\ status \in RunStatuses
  /\ setup \in {"not_required", "running", "passed", "failed", "cancelled"}
  /\ review \in {"pending"} \cup Reviews
  /\ item \in [Items -> [status: Final \cup {"queued", "running"}, session: 0 .. MaxSessions]]
  /\ sessions \in Seq([batch: Batches \cup {0}, state: {"active", "over"}])
  /\ Len(sessions) <= MaxSessions /\ online \subseteq Batches /\ strayed \subseteq Batches
  /\ page \in [Users -> SUBSET Buttons]
  /\ calls \in [Users -> SUBSET Buttons]

-----------------------------------------------------------------------------
(* Sessions for every queued item, batch by batch; the first batch without *)
(* a worker ends the loop, and what was created before it stays.           *)
Queued(items) == {BatchOf[i]: i \in {j \in Items: items[j].status = "queued"}}
Startable(items) == {b \in Queued(items): \A c \in Queued(items): c <= b => c \in online}
Rank(b, batches) == Cardinality({c \in batches: c <= b})

NewSessions(items) ==
  LET new == Startable(items)
  IN  [k \in 1 .. Cardinality(new) |-> [batch |-> CHOOSE b \in new: Rank(b, new) = k, state |-> "active"]]

StartSessions(items, base) ==
  /\ Len(base) + Cardinality(Startable(items)) <= MaxSessions
  /\ sessions' = base \o NewSessions(items)
  /\ item' = [i \in Items |->
                IF items[i].status = "queued" /\ BatchOf[i] \in Startable(items)
                THEN [status |-> "running", session |-> Len(base) + Rank(BatchOf[i], Startable(items))]
                ELSE items[i]]

AllStart(items) == Startable(items) = Queued(items)

NewItems == [i \in Items |-> [status |-> "queued", session |-> 0]]

Init ==
  /\ review = "pending" /\ online = Batches /\ strayed = {}
  /\ calls = [u \in Users |-> {}]
  /\ \/ /\ status = "setup_running" /\ setup = "running" /\ item = NewItems
        /\ sessions = <<[batch |-> 0, state |-> "active"]>>
     \/ /\ status = "running" /\ setup = "not_required"
        /\ sessions = NewSessions(NewItems)
        /\ item = [i \in Items |-> [status |-> "running", session |-> Rank(BatchOf[i], Batches)]]
  /\ page = [u \in Users |-> Buttons \cap {"cancel"}]

-----------------------------------------------------------------------------
(* What workers report.  A report on a stopped session is refused, and how *)
(* a session ended makes no difference afterwards.                         *)
Closed(k) == [sessions EXCEPT ![k].state = "over"]

SetupPassed(k) ==
  /\ sessions[k] = [batch |-> 0, state |-> "active"]
  /\ StartSessions(item, Closed(k))
  /\ IF AllStart(item) THEN status' = "running" /\ setup' = "passed"
                       ELSE status' = "setup_failed" /\ setup' = "failed"
  /\ UNCHANGED <<review, strayed, online, page, calls>>

SetupFailed(k) ==   \* a failing artifact, or no artifact
  /\ sessions[k] = [batch |-> 0, state |-> "active"]
  /\ sessions' = Closed(k)
  /\ status' = "setup_failed" /\ setup' = "failed"
  /\ UNCHANGED <<review, item, strayed, online, page, calls>>

Open == {i \in Items: item[i].status \notin Final}
Mine(k) == {i \in Open: item[i].session = k}

(* All final: to be reviewed; else the run is running, whatever it was.    *)
Settled(items) == \A i \in Items: items[i].status \in Final
AfterReport_OneOpen(items) ==
  IF Cardinality({i \in Items: items[i].status \notin Final}) <= 1 THEN "needs_acceptance" ELSE "running"
AfterReport_Running(items) == "running"
AfterReport(items) == IF Settled(items) THEN "needs_acceptance" ELSE "running"

(* A report lists cases.  Whatever it lists that is open gets its result,  *)
(* whichever session works on it; what it leaves out stays open.           *)
Listed(listed) == listed \cap Open

Take(listed, own) ==
  /\ \E results \in [Listed(listed) -> Results]:
        item' = [i \in Items |-> IF i \in Listed(listed) THEN [item[i] EXCEPT !.status = results[i]] ELSE item[i]]
  /\ strayed' = strayed \cup {BatchOf[i]: i \in Listed(listed) \ own}
  /\ status' = AfterReport(item')

(* The session is over, although a cancelled run takes no result and a     *)
(* report of too many items none at all.                                   *)
ReportResults(k) ==
  /\ sessions[k].batch # 0 /\ sessions[k].state = "active"
  /\ sessions' = Closed(k)
  /\ \/ status # "cancelled" /\ \E listed \in SUBSET Items: Take(listed, Mine(k))
     \/ UNCHANGED <<status, item, strayed>>
  /\ UNCHANGED <<setup, review, online, page, calls>>

(* Any session of the workspace may leave a report that names this run:    *)
(* only what the run's own sessions need is compared with the run.         *)
OthersReport ==
  /\ status # "cancelled" /\ \E listed \in SUBSET Items: Take(listed, {})
  /\ UNCHANGED <<setup, review, sessions, online, page, calls>>

SessionFailed(k) ==   \* no result artifact: no part of the run is touched
  /\ sessions[k].batch # 0 /\ sessions[k].state = "active"
  /\ sessions' = Closed(k)
  /\ UNCHANGED <<status, setup, review, item, strayed, online, page, calls>>

SessionStopped(k) ==   \* on its issue's page; CancelRuntimeTask does not look at the run
  /\ sessions[k].state = "active"
  /\ sessions' = Closed(k)
  /\ UNCHANGED <<status, setup, review, item, strayed, online, page, calls>>

WorkerChanges(b) ==
  /\ online' = IF b \in online THEN online \ {b} ELSE online \cup {b}
  /\ UNCHANGED <<status, setup, review, item, sessions, strayed, page, calls>>

-----------------------------------------------------------------------------
(* The run page.                                                           *)
CanRetry == status \in {"needs_acceptance", "blocked"} /\ \E i \in Items: item[i].status \in Retriable
CanCancel == status \in Cancellable
CanReview == status = "needs_acceptance"

Offered == {op \in Buttons: \/ op = "retry" /\ CanRetry
                            \/ op = "cancel" /\ CanCancel
                            \/ op \in {"accept", "block"} /\ CanReview}

Press(u, op) ==
  /\ op \in page[u] \ calls[u]
  /\ calls' = [calls EXCEPT ![u] = @ \cup {op}]
  /\ UNCHANGED <<status, setup, review, item, sessions, strayed, online, page>>

Refused(u, op) ==   \* no worker, or the server answers with an error
  /\ op \in calls[u]
  /\ calls' = [calls EXCEPT ![u] = @ \ {op}]
  /\ UNCHANGED <<status, setup, review, item, sessions, strayed, online, page>>

Served(u, op) == op \in calls[u] /\ calls' = [calls EXCEPT ![u] = @ \ {op}]

Read(u) ==   \* opened, focused, or invalidated after a call
  /\ page' = [page EXCEPT ![u] = Offered]
  /\ UNCHANGED <<status, setup, review, item, sessions, strayed, online, calls>>

(* RetryWorkspaceTestRun looks at the items and at no status.              *)
Reset_Open == [i \in Items |-> IF item[i].status # "passed" THEN [status |-> "queued", session |-> 0] ELSE item[i]]
Reset == [i \in Items |-> IF item[i].status \in Retriable THEN [status |-> "queued", session |-> 0] ELSE item[i]]

Retry(u) ==
  /\ Served(u, "retry")
  /\ \E i \in Items: item[i].status \in Retriable
  /\ \A i \in Items: item[i].status \in Retriable => BatchOf[i] \in online
  /\ StartSessions(Reset, sessions)
  /\ status' = "running" /\ review' = "pending"
  /\ UNCHANGED <<setup, strayed, online, page>>

(* The sessions of the setup and of every open item are cancelled.         *)
ToStop_Items == {item[i].session: i \in {j \in Items: item[j].status \in {"queued", "running"}}}
ToStop == {item[i].session: i \in {j \in Items: item[j].status \in {"queued", "running"}}}
          \cup {k \in DOMAIN sessions: sessions[k].batch = 0}

Cancel(u) ==
  /\ Served(u, "cancel")
  /\ status \in Cancellable
  /\ sessions' = [k \in DOMAIN sessions |-> IF k \in ToStop /\ sessions[k].state = "active"
                                            THEN [sessions[k] EXCEPT !.state = "over"] ELSE sessions[k]]
  /\ item' = [i \in Items |-> IF item[i].status \in {"queued", "running"}
                              THEN [item[i] EXCEPT !.status = "cancelled"] ELSE item[i]]
  /\ setup' = IF setup = "running" THEN "cancelled" ELSE setup
  /\ status' = "cancelled" /\ review' = "pending"
  /\ UNCHANGED <<strayed, online, page>>

(* reviewTestRun sets the status whatever it was.                          *)
Review(u, op, decision) ==
  /\ Served(u, op)
  /\ status' = decision /\ review' = decision
  /\ UNCHANGED <<setup, item, sessions, strayed, online, page>>

Report == \E k \in DOMAIN sessions: SetupPassed(k) \/ SetupFailed(k) \/ ReportResults(k) \/ SessionFailed(k)

Next ==
  \/ Report \/ OthersReport \/ \E k \in DOMAIN sessions: SessionStopped(k)
  \/ \E b \in Batches: WorkerChanges(b)
  \/ \E u \in Users: \/ Read(u) \/ Retry(u) \/ Cancel(u)
                     \/ Review(u, "accept", "accepted") \/ Review(u, "block", "blocked")
                     \/ \E op \in Buttons: Press(u, op) \/ Refused(u, op)

(* A worker that has claimed a session ends it (its lease sees to that).   *)
Spec == Init /\ [][Next]_vars /\ WF_vars(Report)

-----------------------------------------------------------------------------
(* A run that waits for its review has a result for every item, and one    *)
(* that runs has an item without, whatever retries, reviews and reports    *)
(* have crossed before: a page offers a running run no review, and nothing *)
(* ends one that has all its results.  A setup that passes when strange    *)
(* reports have left nothing to start is the exception.                    *)
ReviewedWhole == /\ status = "needs_acceptance" => Settled(item)
                 /\ status = "running" /\ strayed = {} => ~Settled(item)

(* A cancelled run has nothing left to do, and no session goes on with an  *)
(* item that was cancelled: "the server cancels linked setup/execution     *)
(* runtime tasks, marks queued/running run items cancelled"                *)
(* (architecture.md).  The sessions are found through the open items: the  *)
(* cancel misses one whose items got their results from another.           *)
CancelStopsAll ==
  /\ status = "cancelled" =>
       /\ Settled(item)
       /\ \A k \in DOMAIN sessions: sessions[k].state = "active" => sessions[k].batch \in strayed
  /\ \A i \in Items: item[i].status = "cancelled" /\ item[i].session # 0 =>
       sessions[item[i].session].state # "active"

(* A session works on items of its own batch only; and no batch has two    *)
(* sessions at work, or one with nothing left to report on, unless results *)
(* of its items came from a session that is not theirs: a retry of such a  *)
(* result starts another session beside the one at work.                   *)
OneSessionPerItem ==
  \A k \in DOMAIN sessions: sessions[k].state = "active" /\ sessions[k].batch # 0 =>
     /\ \A i \in Mine(k): BatchOf[i] = sessions[k].batch
     /\ sessions[k].batch \notin strayed =>
          /\ Mine(k) # {}
          /\ \A l \in DOMAIN sessions: l # k /\ sessions[l].state = "active" => sessions[l].batch # sessions[k].batch

(* Nobody is left to report on an item whose session is over: a report     *)
(* that left it out, or a session without a report.                        *)
Attended == \A i \in Open: item[i].session # 0 /\ sessions[item[i].session].state = "active"

(* A running run does not stay one whose open items are all at work: it    *)
(* gets to its review or to where users take it, or an item loses its      *)
(* session.                                                                *)
UnderWay == status = "running" /\ Attended /\ strayed = {}

(* "When a run finishes, it should move to needs_acceptance."  It fails    *)
(* for a run with a session that ended without a result for each of its    *)
(* items: nothing else ends them, and a running run offers no retry.       *)
RunSettles == (status = "running") ~> (status # "running")

(* "A failed, cancelled, or missing setup artifact marks the run           *)
(* setup_failed".  It fails: a session stopped on its issue's page is       *)
(* never reconciled.                                                       *)
SetupIsUnderWay == setup = "running" => \E k \in DOMAIN sessions: sessions[k] = [batch |-> 0, state |-> "active"]

(* "... before any case session starts".  It fails: a later batch without  *)
(* a worker fails the setup after earlier batches were started.            *)
FailedSetupStartsNothing == status = "setup_failed" => \A i \in Items: item[i].session = 0

(* "Record that a user reviewed the run result": what is recorded is the   *)
(* run's decision until someone retries it.  It fails: a review sent from  *)
(* a page that shows an older state is overwritten by the next report.     *)
ReviewStands == review # "pending" => status = review
=============================================================================
