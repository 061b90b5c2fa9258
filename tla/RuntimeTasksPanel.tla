-------------------------- MODULE RuntimeTasksPanel --------------------------
(***************************************************************************)
(* The task queue of the settings page (packages/views/src/                *)
(* workspace-settings-page.tsx): a page of runtime tasks that is polled    *)
(* while tasks come and change, the details of one of them, and the        *)
(* cancelling of a task.                                                   *)
(***************************************************************************)
EXTENDS Naturals, Sequences, FiniteSets, SequencesExt

CONSTANTS
    PageSize,                  \* RUNTIME_TASKS_PAGE_SIZE
    Does,                      \* bound: what the user does
    Modes,                     \* bound: execution modes of the tasks
    MaxTasks, MaxChanges, MaxFails, MaxMoves   \* bounds: tasks, their changes, lost requests, page turns, openings and cancels

\* What the constants must satisfy.
RuntimeTasksPanelAssumption ==
    /\ PageSize \in Nat \ {0} /\ Modes \subseteq {"working copy", "detached"}
    /\ {MaxTasks, MaxChanges, MaxFails, MaxMoves} \subseteq Nat

VARIABLES
    tasks,      \* the server's runtime tasks, oldest first
    page,       \* runtimeTasksPage
    data,       \* tasksQuery.data, of the page
    open,       \* selectedTaskID
    evidence,   \* the events and logs on screen of the open task
    cancelling, \* cancelTask.variables
    posts,      \* cancel requests under way
    walk,       \* history: the tasks there were at the last look at the first page, and those seen since
    fails, moves, changes

panel == <<page, data, open, evidence, cancelling>>
vars == <<tasks, panel, posts, walk, fails, moves, changes>>

NoTask == 0
Active == {"queued", "claimed", "running"}
Cancellable(t) == t.state \in Active

TypeOK ==
    /\ \A n \in DOMAIN tasks : /\ tasks[n].state \in Active \cup {"completed", "failed", "cancelled"}
                               /\ tasks[n].asked \in BOOLEAN /\ tasks[n].events \in Nat
    /\ page \in Nat /\ (page > 0 => page * PageSize < Len(tasks))
    /\ \A d \in data : Len(d.rows) <= PageSize
    /\ Cardinality(data) <= 1 /\ Cardinality(evidence) <= 1
    /\ open \in 0..Len(tasks) /\ cancelling \in 0..Len(tasks)
    /\ \A r \in posts : r.task \in DOMAIN tasks

Init ==
    /\ tasks = <<>> /\ page = 0 /\ data = {} /\ open = NoTask /\ evidence = {} /\ cancelling = NoTask
    /\ posts = {} /\ walk = [from |-> {}, seen |-> {}]
    /\ fails = MaxFails /\ moves = MaxMoves /\ changes = MaxChanges

-----------------------------------------------------------------------------
\* The tasks.

Queue(m) ==
    /\ Len(tasks) < MaxTasks
    /\ tasks' = Append(tasks, [state |-> "queued", mode |-> m, asked |-> FALSE, events |-> 1])
    /\ UNCHANGED <<panel, posts, walk, fails, moves, changes>>

\* Every change of a task is an event of it.
Moves(n, s) ==
    /\ \/ tasks[n].state = "queued" /\ s = "claimed"
       \/ tasks[n].state = "claimed" /\ s = "running"
       \/ tasks[n].state = "running" /\ s \in {"completed", "failed"}
       \/ tasks[n].asked /\ s = "cancelled"
    /\ Cancellable(tasks[n]) /\ changes > 0 /\ changes' = changes - 1
    /\ tasks' = [tasks EXCEPT ![n].state = s, ![n].events = @ + 1]
    /\ UNCHANGED <<panel, posts, walk, fails, moves>>

-----------------------------------------------------------------------------
\* The list: newest first, one page of it, and how many there are.

Before_Active(a, b) ==                  \* mutant: those still active first
    IF Cancellable(tasks[a]) # Cancellable(tasks[b]) THEN Cancellable(tasks[a]) ELSE a > b

Before(a, b) == a > b

TaskAt(i) == CHOOSE n \in DOMAIN tasks : Cardinality({k \in DOMAIN tasks : Before(k, n)}) = i - 1

Rows(p) ==
    LET start == p * PageSize
    IN [k \in {i \in 1..PageSize : start + i <= Len(tasks)} |->
           LET n == TaskAt(start + k) IN [task |-> n, state |-> tasks[n].state, asked |-> tasks[n].asked]]

ListRuntimeTasksPage == {[rows |-> Rows(page), total |-> Len(tasks)]}

Shown(rows) == {rows[k].task : k \in DOMAIN rows}

Reads(p) ==
    LET seen == Shown(Rows(p))
    IN walk' = IF p = 0 THEN [from |-> DOMAIN tasks, seen |-> seen] ELSE [walk EXCEPT !.seen = @ \cup seen]

Polled_Once == data = {}                \* mutant: no refetchInterval

Polled == TRUE

\* Every 5 s. The effect that steps back from an empty page has nothing to do: tasks stay.
Poll ==
    /\ Polled /\ data' = ListRuntimeTasksPage /\ Reads(page)
    /\ UNCHANGED <<tasks, page, open, evidence, cancelling, posts, fails, moves, changes>>

LastPage_Next(total) == total \div PageSize     \* mutant: a last page of exactly PageSize tasks has a next

LastPage(total) == IF total = 0 THEN 0 ELSE (total - 1) \div PageSize

Turn(p) ==
    /\ "page" \in Does /\ moves > 0 /\ moves' = moves - 1
    /\ \E d \in data : d.total > PageSize /\ p <= LastPage(d.total)
    /\ p \in {page + 1} \cup (IF page > 0 THEN {page - 1} ELSE {})
    /\ page' = p /\ data' = {} /\ open' = NoTask /\ evidence' = {}
    /\ UNCHANGED <<tasks, cancelling, posts, walk, fails, changes>>

-----------------------------------------------------------------------------
\* The details of one task.

Row(n) == UNION {{d.rows[k] : k \in {j \in DOMAIN d.rows : d.rows[j].task = n}} : d \in data}

\* Row and button open the details and close them.
Select(n) ==
    /\ "open" \in Does /\ Row(n) # {} /\ moves > 0 /\ moves' = moves - 1
    /\ open' = (IF open = n THEN NoTask ELSE n) /\ evidence' = {}
    /\ UNCHANGED <<tasks, page, data, cancelling, posts, walk, fails, changes>>

\* Fetched when they open, then every 2.5 s while the task is listed as active.
EvidencePolled == evidence = {} \/ \E r \in Row(open) : r.state \in Active

PollEvidence ==
    /\ open # NoTask /\ Row(open) # {} /\ EvidencePolled
    /\ evidence' = {tasks[open].events}
    /\ UNCHANGED <<tasks, page, data, open, cancelling, posts, walk, fails, moves, changes>>

-----------------------------------------------------------------------------
\* Cancelling.

CancellationPending(r) == r.asked \/ cancelling = r.task

CancelOffered(n) == \E r \in Row(n) : r.state \in Active /\ ~CancellationPending(r)

PressCancel(n) ==
    /\ "cancel" \in Does /\ CancelOffered(n) /\ moves > 0 /\ moves' = moves - 1
    /\ cancelling' = n /\ posts' = posts \cup {[task |-> n, pc |-> "sent"]}
    /\ UNCHANGED <<tasks, page, data, open, evidence, walk, fails, changes>>

\* A turn in a working copy is asked to stop; anything else stops at once.
CancelRuntimeTask(r) ==
    LET t == tasks[r.task]
    IN /\ r.pc = "sent" /\ Cancellable(t)
       /\ tasks' = [tasks EXCEPT ![r.task] =
              IF t.mode = "working copy" /\ t.state # "queued"
              THEN [t EXCEPT !.asked = TRUE, !.events = @ + 1]
              ELSE [t EXCEPT !.state = "cancelled", !.events = @ + 1]]
       /\ posts' = (posts \ {r}) \cup {[r EXCEPT !.pc = "ok"]}
       /\ UNCHANGED <<panel, walk, fails, moves, changes>>

\* The task has ended meanwhile, or the request or its answer is lost.
CancelFails(r) ==
    /\ \/ r.pc = "sent" /\ ~Cancellable(tasks[r.task]) /\ UNCHANGED fails
       \/ fails > 0 /\ fails' = fails - 1
    /\ posts' = posts \ {r}
    /\ UNCHANGED <<tasks, panel, walk, moves, changes>>

\* onSuccess: the list and the events of the task are loaded again.
Cancelled(r) ==
    /\ r.pc = "ok" /\ posts' = posts \ {r}
    /\ data' = ListRuntimeTasksPage /\ Reads(page)
    /\ evidence' = IF open = r.task THEN {tasks[open].events} ELSE evidence
    /\ UNCHANGED <<tasks, page, open, cancelling, fails, moves, changes>>

-----------------------------------------------------------------------------
Next ==
    \/ \E m \in Modes : Queue(m)
    \/ \E n \in DOMAIN tasks : \/ \E s \in {"claimed", "running", "completed", "failed", "cancelled"} : Moves(n, s)
                               \/ Select(n) \/ PressCancel(n)
    \/ Poll \/ PollEvidence
    \/ \E p \in 0..MaxTasks : Turn(p)
    \/ \E r \in posts : CancelRuntimeTask(r) \/ CancelFails(r) \/ Cancelled(r)

\* The polls go on.
Spec == Init /\ [][Next]_vars /\ WF_vars(Poll) /\ WF_vars(PollEvidence)

-----------------------------------------------------------------------------
\* Whoever turns the pages to the last one has seen every task there was when he
\* looked at the first, though new ones come in front of them all the while (the
\* order of ListRuntimeTasksPage, the offset of the query).
NoneSkipped ==
    \A d \in data : page = LastPage(d.total) => walk.from \subseteq walk.seen

\* The list shows in the end what has become of a task on it (the poll).
ListCatchesUp ==
    \A n \in 1..MaxTasks :
        (n \in DOMAIN tasks /\ ~Cancellable(tasks[n])) ~> (\A r \in Row(n) : r.state \notin Active)

\* A task that is not being cancelled and for which no request is under way can
\* be cancelled (the button of its row).
CanBeCancelled ==
    \A n \in DOMAIN tasks :
        (\E r \in Row(n) : r.state \in Active /\ ~r.asked) /\ (\A r \in posts : r.task # n) => CancelOffered(n)

\* The open details of a task that has ended have all its events in the end.
EvidenceComplete ==
    \A n \in 1..MaxTasks :
        (open = n /\ Row(n) # {} /\ ~Cancellable(tasks[n])) ~>
            (open # n \/ Row(n) = {} \/ evidence = {tasks[n].events})
=============================================================================
