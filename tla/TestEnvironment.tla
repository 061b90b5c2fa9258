--------------------------- MODULE TestEnvironment ---------------------------
(***************************************************************************)
(* The test environment of one issue: the record the server keeps of its   *)
(* namespace (server/internal/control: memory_store.go, under its lock, and*)
(* server_owned_runtime_store.go, statement by statement), the agent       *)
(* sessions that deploy it and clean it up, and the windows of the issue   *)
(* page that show it, check its preview by themselves and ask for the next *)
(* step (packages/views/src/issue-detail-page.tsx).                        *)
(***************************************************************************)
EXTENDS Naturals, Sequences, FiniteSets

CONSTANTS
    Windows,                 \* open pages of the issue
    Database,                \* the Postgres store, which asks the preview itself
    Does,                    \* bound: the requests the users make
    MaxSessions, MaxLeaves   \* bounds: sessions of the issue, returns to the page

\* What the constants must satisfy.
TestEnvironmentAssumption ==
    /\ Database \in BOOLEAN /\ {MaxSessions, MaxLeaves} \subseteq Nat
    /\ Does \subseteq {"deploy", "cleanup", "retain"}

VARIABLES
    env,        \* the issue's test environment
    sessions,   \* the issue's sessions, in the order they were created
    commits,    \* how many source commits the issue has
    known,      \* the window's copy of the issue
    form,       \* the commit chosen in the deploy dialog, None when it is closed
    posts,      \* requests under way
    checked,    \* autoPreviewCheckAtByIssue: the keys checked in the last minute
    seen,       \* the dependencies the effect last ran with
    visit       \* which visit to the page the window is at

server == <<env, sessions, commits>>
ui == <<form, seen, visit>>
vars == <<server, known, form, posts, checked, seen, visit>>

None == 0
Statuses == {"deploying", "active", "preview_unverified", "deploy_failed", "deploy_interrupted",
             "cleanup_requested", "cleanup_failed", "cleaned"}
Decisions == {"retained", "cleanup_requested", "cleanup_failed", "cleaned"}
NoEnv == [status |-> "none", cleanup |-> "none", deploy |-> 0, clean |-> 0, source |-> 0, url |-> FALSE]
Exists == env # NoEnv
Envs == [status : Statuses, cleanup : Decisions, deploy : 1..MaxSessions, clean : 0..MaxSessions,
         source : 1..MaxSessions, url : BOOLEAN]
Session == [kind : {"source", "deploy", "cleanup"}, state : {"active", "completed", "failed", "cancelled"},
            commit : 0..MaxSessions]
Active(kinds) == {n \in DOMAIN sessions : sessions[n].kind \in kinds /\ sessions[n].state = "active"}

TypeOK ==
    /\ env \in Envs \cup {NoEnv} /\ commits \in 0..MaxSessions
    /\ sessions \in Seq(Session) /\ Len(sessions) <= MaxSessions
    /\ Cardinality(Active({"source"})) <= 1
    /\ ~Database => Cardinality(Active({"deploy", "cleanup"})) <= 1
    /\ \A w \in Windows : Cardinality(known[w]) <= 1 /\ form[w] \in 0..MaxSessions
    /\ visit \in [Windows -> 0..MaxLeaves]
    /\ \A r, q \in posts : (r.win = q.win /\ r.op = q.op /\ r.visit = q.visit) => r = q

Init ==
    /\ env = NoEnv /\ sessions = <<>> /\ commits = 0
    /\ known = [w \in Windows |-> {}] /\ form = [w \in Windows |-> None]
    /\ posts = {} /\ checked = [w \in Windows |-> {}]
    /\ seen = [w \in Windows |-> <<>>] /\ visit = [w \in Windows |-> 0]

-----------------------------------------------------------------------------
\* The server.

HasActive == Active({"source", "deploy", "cleanup"}) # {}

Queue(kind, commit) ==
    /\ Len(sessions) < MaxSessions
    /\ sessions' = Append(sessions, [kind |-> kind, state |-> "active", commit |-> commit])

\* A user's comment starts an agent session on the issue's source. Only another
\* one holds it up: deployments and cleanups do not use the working copy.
SourceSession ==
    /\ Active({"source"}) = {} /\ Queue("source", 0)
    /\ UNCHANGED <<env, commits, known, ui, posts, checked>>

Ends(n, state) ==
    /\ n \in DOMAIN sessions /\ sessions[n].state = "active"
    /\ sessions' = [sessions EXCEPT ![n].state = state]

\* The worker reports success: a source session adds a commit, a deployment may
\* bring the preview's address, and so may any other session that is no cleanup:
\* the environment is then said to be of the commit of that session.
SourceOf(n) ==
    CASE sessions[n].kind = "source"  -> commits'
      [] sessions[n].kind = "deploy"  -> sessions[n].commit
      [] sessions[n].kind = "cleanup" -> env.source

SessionSucceeds(n, preview) ==
    /\ Ends(n, "completed")
    /\ commits' = IF sessions[n].kind = "source" THEN commits + 1 ELSE commits
    /\ env' = CASE Exists /\ env.deploy = n ->
                     [env EXCEPT !.status = "active", !.cleanup = "retained", !.url = @ \/ preview]
                [] env.deploy # n /\ env.clean = n ->
                     [env EXCEPT !.status = "cleaned", !.cleanup = "cleaned"]
                [] Exists /\ n \notin {env.deploy, env.clean} /\ preview ->
                     [env EXCEPT !.status = "active", !.cleanup = "retained", !.url = TRUE, !.deploy = n,
                                 !.source = SourceOf(n)]
                [] OTHER -> env
    /\ UNCHANGED <<known, ui, posts, checked>>

\* It reports a failure, or the session was cancelled.
SessionStops(n, state) ==
    /\ state \in {"failed", "cancelled"} /\ Ends(n, state)
    /\ env' = CASE Exists /\ env.deploy = n ->
                     [env EXCEPT !.status = IF state = "failed" THEN "deploy_failed" ELSE "deploy_interrupted"]
                [] env.deploy # n /\ env.clean = n ->
                     [env EXCEPT !.status = "cleanup_failed", !.cleanup = "cleanup_failed"]
                [] OTHER -> env
    /\ UNCHANGED <<commits, known, ui, posts, checked>>

-----------------------------------------------------------------------------
\* What a window shows and offers.

Detail(w) == CHOOSE d \in known[w] : TRUE
Shown(w) == Detail(w).env
Pending(w, op) == \E r \in posts : r.win = w /\ r.op = op /\ r.visit = visit[w]

\* The panel's buttons, once there is something to press them for.
CanCleanup(w) ==
    /\ Shown(w) # NoEnv /\ ~Detail(w).active /\ ~Pending(w, "cleanup")
    /\ "cleaned" \notin {Shown(w).status, Shown(w).cleanup}

CanRetain(w) ==
    /\ Shown(w) # NoEnv /\ ~Detail(w).active /\ ~Pending(w, "retain")
    /\ Shown(w).status \notin {"cleaned", "cleanup_requested"} /\ Shown(w).cleanup # "cleaned"

CanDeploy(w) == ~Detail(w).active /\ ~Pending(w, "deploy")

\* testDeployDefaults: the environment's own commit, or else the newest.
DefaultCommit(w) == IF Shown(w).source > 0 THEN Shown(w).source ELSE Detail(w).commits

\* The timeline's deployment: under way, needing attention, or ready; and its
\* Retry, which is also offered by the failures the deployment left.
Timeline(w, n) ==
    CASE Shown(w).deploy # n                                               -> "session"
      [] sessions[n].state = "active"                                      -> "deploying"
      [] sessions[n].state = "failed"                                      -> "failed"
      [] Shown(w).status \in {"deploy_failed", "deploy_interrupted", "preview_unverified"} -> Shown(w).status
      [] OTHER                                                             -> "ready"
CanRetry(w) ==
    /\ CanDeploy(w) /\ Detail(w).commits > 0
    /\ \E n \in DOMAIN sessions : Timeline(w, n) # "session"

Request(w, op, commit) ==
    [win |-> w, op |-> op, visit |-> visit[w], commit |-> commit, pc |-> "sent", loaded |-> NoEnv]

Asks(w, op, commit) == posts' = posts \cup {Request(w, op, commit)}
Shows(w, op) == known[w] # {} /\ op \in Does

OpenDialog(w) ==
    /\ Shows(w, "deploy") /\ CanDeploy(w) /\ form[w] = None
    /\ form' = [form EXCEPT ![w] = DefaultCommit(w)]
    /\ UNCHANGED <<server, known, posts, checked, seen, visit>>

ChooseCommit(w, c) ==
    /\ form[w] # None /\ c \in 1..Detail(w).commits
    /\ form' = [form EXCEPT ![w] = c]
    /\ UNCHANGED <<server, known, posts, checked, seen, visit>>

CloseDialog(w) ==
    /\ form[w] # None /\ ~Pending(w, "deploy") /\ form' = [form EXCEPT ![w] = None]
    /\ UNCHANGED <<server, known, posts, checked, seen, visit>>

PressDeploy(w) ==
    /\ form[w] # None /\ CanDeploy(w) /\ Asks(w, "deploy", form[w])
    /\ UNCHANGED <<server, known, checked, ui>>

PressRetry(w) ==
    /\ Shows(w, "deploy") /\ form[w] = None /\ CanRetry(w) /\ Asks(w, "deploy", DefaultCommit(w))
    /\ UNCHANGED <<server, known, checked, ui>>

PressCleanup(w) ==
    /\ Shows(w, "cleanup") /\ CanCleanup(w) /\ Asks(w, "cleanup", 0)
    /\ UNCHANGED <<server, known, checked, ui>>

PressRetain(w) ==
    /\ Shows(w, "retain") /\ CanRetain(w) /\ Asks(w, "retain", 0)
    /\ UNCHANGED <<server, known, checked, ui>>

-----------------------------------------------------------------------------
\* The automatic check of the preview.

Deps(w) == <<Shown(w).deploy, Shown(w).url, Shown(w).status, Detail(w).active, Pending(w, "probe")>>
CheckKey(w) == <<Shown(w).deploy, Shown(w).url, Shown(w).status>>

ShouldCheckPreview(w) ==
    /\ Shown(w) # NoEnv /\ ~Detail(w).active /\ ~Pending(w, "probe")
    /\ Shown(w).url \/ Shown(w).status \in {"deploy_failed", "deploy_interrupted", "preview_unverified"}

CheckedLately_Never(w) == FALSE         \* mutant: the minute between two checks is not kept

CheckedLately(w) == CheckKey(w) \in checked[w]

\* The effect runs when one of its dependencies has changed.
AutoCheck(w) ==
    /\ known[w] # {} /\ seen[w] # Deps(w)
    /\ seen' = [seen EXCEPT ![w] = Deps(w)]
    /\ IF ShouldCheckPreview(w) /\ ~CheckedLately(w)
       THEN /\ checked' = [checked EXCEPT ![w] = @ \cup {CheckKey(w)}]
            /\ Asks(w, "probe", 0)
       ELSE UNCHANGED <<checked, posts>>
    /\ UNCHANGED <<server, known, form, visit>>

MinutePasses(w) ==
    /\ checked' = [checked EXCEPT ![w] = {}]
    /\ UNCHANGED <<server, known, ui, posts>>

-----------------------------------------------------------------------------
\* The requests at the server, and their answers.

Goes(r, next) == posts' = (posts \ {r}) \cup {next}

\* What a request makes of the record, n being the session it queues.
\* mutant: the record names the newest commit, not the one that is deployed
Deploying_Newest(e, commit, n) ==
    [e EXCEPT !.status = "deploying", !.cleanup = "retained", !.source = commits, !.deploy = n]

Deploying(e, commit, n) ==
    [e EXCEPT !.status = "deploying", !.cleanup = "retained", !.source = commit, !.deploy = n]

CleaningUp(e, n) ==
    [e EXCEPT !.status = "cleanup_requested", !.cleanup = "cleanup_requested", !.clean = n]

Retained(e) == [e EXCEPT !.cleanup = "retained"]

Requested(e, r, n) ==
    CASE r.op = "deploy"  -> Deploying(e, r.commit, n)
      [] r.op = "cleanup" -> CleaningUp(e, n)
      [] r.op = "retain"  -> Retained(e)

Accepts(r) ==
    /\ r.pc = "sent" /\ r.op \in {"deploy", "cleanup", "retain"}
    /\ IF r.op = "deploy" THEN r.commit \in 1..commits ELSE Exists
    /\ r.op # "retain" => ~HasActive

\* The memory store does it all under its lock.
Handled(r) ==
    /\ ~Database /\ Accepts(r) /\ Goes(r, [r EXCEPT !.pc = "answered"])
    /\ IF r.op = "retain" THEN UNCHANGED sessions ELSE Queue(r.op, r.commit)
    /\ env' = Requested(env, r, Len(sessions'))
    /\ UNCHANGED <<commits, known, checked, ui>>

\* Postgres reads the issue, queues the session (whatever sessions others have
\* queued meanwhile), and saves the whole record it had read, as the request changes it.
ReadIssue(r) ==
    /\ Database /\ Accepts(r)
    /\ Goes(r, IF r.op = "retain" THEN [r EXCEPT !.pc = "built", !.loaded = Retained(env)]
                                  ELSE [r EXCEPT !.pc = "read", !.loaded = env])
    /\ UNCHANGED <<server, known, checked, ui>>

CreateAgentSession(r) ==
    /\ r.pc = "read" /\ Queue(r.op, r.commit)
    /\ Goes(r, [r EXCEPT !.pc = "built", !.loaded = Requested(r.loaded, r, Len(sessions'))])
    /\ UNCHANGED <<env, commits, known, checked, ui>>

SaveIssueTestEnvironment(r) ==
    /\ r.pc = "built" /\ env' = r.loaded /\ Goes(r, [r EXCEPT !.pc = "answered"])
    /\ UNCHANGED <<sessions, commits, known, checked, ui>>

\* A session is active, there is no worker, or the database fails on the way.
Refused(r) ==
    /\ r.op # "probe" /\ r.pc \in {"sent", "read", "built"} /\ posts' = posts \ {r}
    /\ UNCHANGED <<server, known, checked, ui>>

Answer_Active == "active"               \* mutant: a check that asks nobody finds the preview there

Answer == "preview_unverified"

\* The personal server asks nobody; the Postgres store loads the record first.
ProbeIssueTestEnvironment(r) ==
    /\ r.pc = "sent" /\ r.op = "probe"
    /\ IF Database /\ env.url
       THEN Goes(r, [r EXCEPT !.pc = "asking", !.loaded = env]) /\ env' = env
       ELSE Goes(r, [r EXCEPT !.pc = "answered"])
            /\ env' = IF env.url THEN [env EXCEPT !.status = Answer] ELSE env
    /\ UNCHANGED <<sessions, commits, known, checked, ui>>

\* The preview answers, or not within eight seconds, or with an error of its own.
PreviewAnswers(r, status) ==
    /\ r.pc = "asking" /\ status \in {"active", "preview_unverified", r.loaded.status}
    /\ env' = [r.loaded EXCEPT !.status = status]
    /\ Goes(r, [r EXCEPT !.pc = "answered"])
    /\ UNCHANGED <<sessions, commits, known, checked, ui>>

Copy == {[env |-> env, active |-> HasActive, commits |-> commits]}

\* The mutation is over when the invalidated issue has been read again.
Answered(r) ==
    /\ r.pc = "answered" /\ posts' = posts \ {r}
    /\ known' = [known EXCEPT ![r.win] = Copy]
    /\ form' = IF r.op = "deploy" /\ r.visit = visit[r.win] THEN [form EXCEPT ![r.win] = None] ELSE form
    /\ UNCHANGED <<server, checked, seen, visit>>

Poll(w) ==
    /\ known' = [known EXCEPT ![w] = Copy]
    /\ UNCHANGED <<server, posts, checked, ui>>

\* The user leaves the page and comes back to it: the cache is still there.
Returns(w) ==
    /\ visit[w] < MaxLeaves /\ visit' = [visit EXCEPT ![w] = @ + 1]
    /\ form' = [form EXCEPT ![w] = None] /\ seen' = [seen EXCEPT ![w] = <<>>]
    /\ UNCHANGED <<server, known, posts, checked>>

Network(r) ==
    \/ Handled(r) \/ ReadIssue(r) \/ CreateAgentSession(r) \/ SaveIssueTestEnvironment(r) \/ Refused(r)
    \/ ProbeIssueTestEnvironment(r) \/ Answered(r)
    \/ \E status \in Statuses : PreviewAnswers(r, status)
Requests(op) == \E r \in posts : r.op = op /\ Network(r)
SessionEnds ==
    \E n \in DOMAIN sessions :
        \/ \E preview \in BOOLEAN : SessionSucceeds(n, preview)
        \/ \E state \in {"failed", "cancelled"} : SessionStops(n, state)

Next ==
    \/ SourceSession \/ SessionEnds
    \/ \E op \in {"deploy", "cleanup", "retain", "probe"} : Requests(op)
    \/ \E w \in Windows :
          \/ OpenDialog(w) \/ CloseDialog(w) \/ PressDeploy(w) \/ PressRetry(w)
          \/ PressCleanup(w) \/ PressRetain(w)
          \/ AutoCheck(w) \/ MinutePasses(w) \/ Poll(w) \/ Returns(w)
          \/ \E c \in 1..MaxSessions : ChooseCommit(w, c)

\* Requests are answered, effects run and the issue is polled.
Spec ==
    /\ Init /\ [][Next]_vars
    /\ WF_vars(Requests("probe"))
    /\ \A w \in Windows : WF_vars(AutoCheck(w)) /\ WF_vars(Poll(w))

\* Time goes by, too.
TimedSpec == Spec /\ \A w \in Windows : WF_vars(MinutePasses(w))

-----------------------------------------------------------------------------
\* Properties.

\* The commit the environment shows is the one its deployment was given, in both
\* stores: whatever old records requests and checks of Postgres write back, and
\* whatever sessions they have queued, the two never come of different requests
\* (the whole record is saved).
SourceShown ==
    Exists /\ sessions[env.deploy].kind = "deploy" => env.source = sessions[env.deploy].commit

\* "Active" is said of an environment whose deployment has succeeded, whatever
\* checks of the preview were under way when it was started or when it ended. Of
\* the memory store: Postgres may write back the record of before.
ActiveMeansDeployed ==
    env.status = "active" => sessions[env.deploy].state = "completed"

\* The automatic check does not feed itself: within a minute (and with nothing
\* else happening) the windows come to rest.
ChecksEnd == (<>[][\A w \in Windows : ~MinutePasses(w)]_vars) => <>[](\A w \in Windows : ~Pending(w, "probe"))

\* A check only says whether the preview can be reached.
ProbeOnlyReachability ==
    [][(\E r \in posts, s \in Statuses : PreviewAnswers(r, s)) => env' = [env EXCEPT !.status = env'.status]]_vars

\* "Kubernetes resources look ready" is not said of a namespace that was cleaned up.
ReadyNotCleaned == env.status = "preview_unverified" => env.cleanup # "cleaned"

\* An unverified preview on an open page is checked again and again.
KeepsChecking ==
    \A w \in Windows :
        []<>(~(known[w] # {} /\ Shown(w).status = "preview_unverified" /\ ~Detail(w).active) \/ Pending(w, "probe"))
=============================================================================
