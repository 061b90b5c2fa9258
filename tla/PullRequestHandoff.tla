-------------------------- MODULE PullRequestHandoff --------------------------
(***************************************************************************)
(* The pull request of one issue: the agent session that publishes a       *)
(* source branch and opens the request, the one handoff record the server  *)
(* keeps of it (server/internal/control), and the Commits tab and sidebar  *)
(* that start it (packages/views/src/issue-detail-page.tsx).               *)
(***************************************************************************)
EXTENDS Naturals, Sequences, FiniteSets, SequencesExt

CONSTANTS
    Windows,                   \* open pages of the issue
    Branches,                  \* source branches; NoBranch: none was captured
    NoBranch,
    Database,                  \* the Postgres store: checks, queues and records in several statements
    MaxNodes, MaxSessions, MaxFails   \* bounds: source commits, PR sessions, failures

\* What the constants must satisfy.
PullRequestHandoffAssumption ==
    /\ Database \in BOOLEAN /\ NoBranch \notin Branches
    /\ {MaxNodes, MaxSessions, MaxFails} \subseteq Nat

VARIABLES
    nodes,      \* the issue's source commits, each with its branch, oldest first
    sessions,   \* the pull_request_handoff sessions
    handoff,    \* the handoff record
    worker,     \* a worker for the session is there
    known,      \* the window's copy of the issue
    branch,     \* sourceBranch of the panel
    posts,      \* requests under way
    fails

server == <<nodes, sessions, handoff>>
vars == <<server, worker, known, branch, posts, fails>>

None == 0
NoHandoff == [node |-> None, pr |-> None, error |-> FALSE]
Active == {"queued", "running"}
Copy == {[nodes |-> nodes, handoff |-> handoff, active |-> \E n \in DOMAIN sessions : sessions[n].state \in Active]}

TypeOK ==
    /\ nodes \in Seq(Branches \cup {NoBranch})
    /\ \A n \in DOMAIN sessions : /\ sessions[n].node \in DOMAIN nodes
                                  /\ sessions[n].state \in Active \cup {"completed", "empty", "stopped"}
    /\ Cardinality({n \in DOMAIN sessions : sessions[n].state \in Active}) <= 1
    /\ handoff.node \in 0..Len(nodes) /\ handoff.pr \in 0..Len(sessions)
    /\ \A w \in Windows : Cardinality(known[w]) <= 1 /\ branch[w] \in Branches \cup {NoBranch}
    /\ \A r, q \in posts : r.win = q.win /\ r.op = q.op => r = q

Init ==
    /\ nodes = <<>> /\ sessions = <<>> /\ handoff = NoHandoff /\ worker = TRUE
    /\ known = [w \in Windows |-> {}] /\ branch = [w \in Windows |-> NoBranch]
    /\ posts = {} /\ fails = MaxFails

-----------------------------------------------------------------------------
\* What goes on elsewhere.

SourceCaptured(b) ==
    /\ Len(nodes) < MaxNodes /\ nodes' = Append(nodes, b)
    /\ UNCHANGED <<sessions, handoff, worker, known, branch, posts, fails>>

WorkerChanges ==
    /\ fails > 0 /\ fails' = fails - 1 /\ worker' = ~worker
    /\ UNCHANGED <<server, known, branch, posts>>

-----------------------------------------------------------------------------
\* The panel.

Detail(w) == CHOOSE d \in known[w] : TRUE

\* prSourceBranchNodes: the newest commit of every captured branch.
SourceNodes(list) ==
    {n \in DOMAIN list : list[n] # NoBranch /\ \A k \in DOMAIN list : list[k] = list[n] => k <= n}

Newest(S) == CHOOSE n \in S : \A k \in S : k <= n

\* The effect: a branch that is no longer one of the list gives way to the first.
Kept(b, list) ==
    LET S == SourceNodes(list)
    IN CASE S = {}                         -> NoBranch
         [] \E n \in S : list[n] = b       -> b
         [] OTHER                          -> list[Newest(S)]

SelectedNode(w) ==
    LET S == {n \in SourceNodes(Detail(w).nodes) : Detail(w).nodes[n] = branch[w]}
    IN IF S = {} THEN None ELSE Newest(S)

Pending(w, op) == \E r \in posts : r.win = w /\ r.op = op
SyncedPR(w) == Detail(w).handoff.pr # None

CanCreate(w) ==
    /\ known[w] # {} /\ SelectedNode(w) # None
    /\ ~SyncedPR(w) /\ ~Detail(w).active /\ ~Pending(w, "create")

SelectBranch(w, b) ==
    /\ known[w] # {} /\ ~SyncedPR(w) /\ Cardinality(SourceNodes(Detail(w).nodes)) > 1
    /\ branch' = [branch EXCEPT ![w] = Kept(b, Detail(w).nodes)]
    /\ UNCHANGED <<server, worker, known, posts, fails>>

Asks(w, op, node) == posts' = posts \cup {[win |-> w, op |-> op, node |-> node, pc |-> "sent"]}

PressCreate(w) ==
    /\ CanCreate(w)
    /\ posts' = posts \cup {[win |-> w, op |-> "create", node |-> SelectedNode(w), pc |-> "ready"]}
    /\ UNCHANGED <<server, worker, known, branch, fails>>

\* Of the panel and of the sidebar; the personal server only notes that it cannot.
PressRefresh(w) ==
    /\ known[w] # {} /\ Detail(w).handoff # NoHandoff /\ ~Pending(w, "refresh")
    /\ Asks(w, "refresh", None)
    /\ UNCHANGED <<server, worker, known, branch, fails>>

\* HandoffStatusPill, and the status line while there is no request.
Status(w) ==
    CASE SyncedPR(w)                  -> IF Detail(w).handoff.error THEN "needs attention" ELSE "open"
      [] Detail(w).active             -> "syncing"
      [] SelectedNode(w) = None       -> "waiting for a branch"
      [] OTHER                        -> "ready to sync"

-----------------------------------------------------------------------------
\* The requests.

Goes(r, pc) == posts' = (posts \ {r}) \cup {[r EXCEPT !.pc = pc]}
HasActive == \E n \in DOMAIN sessions : sessions[n].state \in Active

\* ensureAgentWorkerReady starts the personal worker.
EnsureReady(r) ==
    /\ r.pc = "ready" /\ worker' = TRUE /\ Goes(r, "sent")
    /\ UNCHANGED <<server, known, branch, fails>>

\* The record of a session that was queued, and of one that is done.
Handoff(node, pr) == [node |-> node, pr |-> pr, error |-> FALSE]

Queued(node) == sessions' = Append(sessions, [node |-> node, state |-> "queued"])

CreateIssuePullRequestSession(r) ==
    /\ r.op = "create" /\ r.pc = "sent" /\ ~Database
    /\ ~HasActive /\ worker /\ Len(sessions) < MaxSessions
    /\ Queued(r.node) /\ handoff' = Handoff(r.node, None) /\ Goes(r, "answered")
    /\ UNCHANGED <<nodes, worker, known, branch, fails>>

\* In Postgres the issue is read, the session inserted and the handoff stored by
\* statements of their own; a unique index admits one active session.
IndexAdmits_Any == TRUE                 \* mutant: there is no such index

IndexAdmits == ~HasActive

ReadIssue(r) ==
    /\ r.op = "create" /\ r.pc = "sent" /\ Database /\ ~HasActive
    /\ Goes(r, "insert")
    /\ UNCHANGED <<server, worker, known, branch, fails>>

InsertSession(r) ==
    /\ r.pc = "insert" /\ IndexAdmits /\ worker /\ Len(sessions) < MaxSessions
    /\ Queued(r.node) /\ Goes(r, "record")
    /\ UNCHANGED <<nodes, handoff, worker, known, branch, fails>>

StoreHandoff(r) ==
    /\ r.pc = "record" /\ handoff' = Handoff(r.node, None) /\ Goes(r, "answered")
    /\ UNCHANGED <<nodes, sessions, worker, known, branch, fails>>

\* A conflict or a missing worker: the mutation has failed, and settles too.
Settles_Success(r) == r.pc = "answered" /\ sessions # <<>>   \* mutant: only a request that queued a session settles

Settles(r) == r.pc = "answered"

Refused(r) ==
    /\ r.op = "create" /\ r.pc \in {"sent", "insert"} /\ (HasActive \/ ~worker \/ Len(sessions) = MaxSessions)
    /\ Goes(r, "answered")
    /\ UNCHANGED <<server, worker, known, branch, fails>>

RefreshIssueHandoff(r) ==
    /\ r.op = "refresh" /\ r.pc = "sent"
    /\ handoff' = [handoff EXCEPT !.error = TRUE] /\ Goes(r, "answered")
    /\ UNCHANGED <<nodes, sessions, worker, known, branch, fails>>

Lost(r) ==
    /\ r.pc \in {"ready", "sent"} /\ fails > 0 /\ fails' = fails - 1 /\ Goes(r, "answered")
    /\ UNCHANGED <<server, worker, known, branch>>

Shows(w) == known' = [known EXCEPT ![w] = Copy] /\ branch' = [branch EXCEPT ![w] = Kept(@, nodes)]

\* onSettled, and the refetch it waits for.
Settled(r) ==
    /\ Settles(r) /\ posts' = posts \ {r} /\ Shows(r.win)
    /\ UNCHANGED <<server, worker, fails>>

Poll(w) ==
    /\ Shows(w)
    /\ UNCHANGED <<server, worker, posts, fails>>

-----------------------------------------------------------------------------
\* The session.

SessionRuns(n) ==
    /\ sessions[n].state = "queued" /\ worker
    /\ sessions' = [sessions EXCEPT ![n].state = "running"]
    /\ UNCHANGED <<nodes, handoff, worker, known, branch, posts, fails>>

Published_Newest(n) == Len(nodes)       \* mutant: the newest commit, whatever was published

Published(n) == sessions[n].node

\* mutant: the report does not replace a record that says an error
Reports_KeepError(n, state) == IF state = "completed" /\ ~handoff.error THEN Handoff(Published(n), n) ELSE handoff

Reports(n, state) ==
    CASE state = "completed" -> Handoff(Published(n), n)
      [] state = "empty"     -> [handoff EXCEPT !.error = TRUE, !.node = IF @ = None THEN sessions[n].node ELSE @]
      [] OTHER               -> handoff

\* It completes with pull-request.json, or without, or it fails or is cancelled.
SessionEnds(n, state) ==
    /\ sessions[n].state \in (IF state = "stopped" THEN Active ELSE {"running"})
    /\ sessions' = [sessions EXCEPT ![n].state = state]
    /\ handoff' = Reports(n, state)
    /\ UNCHANGED <<nodes, worker, known, branch, posts, fails>>

Serve(r) ==
    \/ EnsureReady(r) \/ CreateIssuePullRequestSession(r) \/ ReadIssue(r) \/ InsertSession(r)
    \/ StoreHandoff(r) \/ Refused(r) \/ RefreshIssueHandoff(r) \/ Settled(r)
Requests(w, op) == \E r \in posts : r.win = w /\ r.op = op /\ Serve(r)
Session == \E n \in DOMAIN sessions : SessionRuns(n) \/ \E state \in {"completed", "empty", "stopped"} : SessionEnds(n, state)

Next ==
    \/ \E b \in Branches \cup {NoBranch} : SourceCaptured(b) \/ \E w \in Windows : SelectBranch(w, b)
    \/ WorkerChanges \/ Session
    \/ \E w \in Windows : PressCreate(w) \/ PressRefresh(w) \/ Poll(w) \/ \E op \in {"create", "refresh"} : Requests(w, op)
    \/ \E r \in posts : Lost(r)

\* Requests are answered, the issue is polled, and a session that runs comes to an end.
Spec ==
    /\ Init /\ [][Next]_vars
    /\ \A w \in Windows : WF_vars(Requests(w, "create")) /\ WF_vars(Poll(w))
    /\ WF_vars(\E n \in DOMAIN sessions, state \in {"completed", "empty", "stopped"} : SessionEnds(n, state))

-----------------------------------------------------------------------------
\* Properties.

\* A recorded pull request is one of the commit its session was given, whatever
\* commits came in and whatever other windows asked for meanwhile.
RightCommit == handoff.pr # None => handoff.node = sessions[handoff.pr].node

\* The pull request of the newest session, once it has completed with one, is recorded.
Recorded ==
    sessions # <<>> /\ Last(sessions).state = "completed" => handoff.pr = Len(sessions)

\* "Syncing" comes to an end, with a pull request, an error or the button back.
SyncEnds ==
    \A w \in Windows : (known[w] # {} /\ (Pending(w, "create") \/ Detail(w).active))
                           ~> (known[w] # {} /\ ~Pending(w, "create") /\ ~Detail(w).active)
=============================================================================
