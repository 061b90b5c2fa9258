---------------------------- MODULE IssueEvidence ----------------------------
(***************************************************************************)
(* The evidence tab of one issue: the review evidence its agent sessions   *)
(* report and the server keeps (server/internal/control), the detail the   *)
(* server reads in one go or, from Postgres, piece by piece, and the       *)
(* review packet and the history of attempts that the page makes of it     *)
(* (packages/views/src/issue-detail-page.tsx).                             *)
(***************************************************************************)
EXTENDS Integers, Sequences, FiniteSets

CONSTANTS
    Torn,           \* the detail is read piece by piece
    MaxSessions,    \* bound: agent sessions of the issue
    Fails, Builds   \* bounds: what the evidence says of checks and of builds

\* What the constants must satisfy.
IssueEvidenceAssumption ==
    /\ Torn \in BOOLEAN /\ MaxSessions \in Nat
    /\ Fails \subseteq {"tests", "deployment"} /\ Builds \subseteq {"passed", "failed", "recovered"}

VARIABLES
    sessions,   \* the issue's sessions, in the order they were created
    env,        \* the issue's test environment
    reviews,    \* SessionReviewEvidence, the newest first
    failures,   \* sessions with a SessionFailure
    commits,    \* source commits of the issue
    runs,       \* history: the commit that the environment's namespace runs
    reading,    \* the reviews of a detail that is being read
    known       \* the page's copy of the detail

server == <<sessions, env, reviews, failures, commits, runs>>
vars == <<server, reading, known>>

\* A commit: its source commit, and the deployment that adapted it, or 0.
Nothing == <<0, 0>>
SessionNumbers == 1..MaxSessions
Session == [kind : {"source", "deploy", "cleanup"}, state : {"active", "completed", "failed", "cancelled"},
            commit : SessionNumbers \X (SessionNumbers \cup {0}) \cup {Nothing}, source : SessionNumbers \cup {0}]
NoEnv == [status |-> "none", deploy |-> 0, clean |-> 0, source |-> 0, commit |-> Nothing]
Review == [session : SessionNumbers, source : SessionNumbers, commit : SessionNumbers \X (SessionNumbers \cup {0}) \cup {Nothing},
           failed : SUBSET Fails, builds : Builds]

TypeOK ==
    /\ sessions \in Seq(Session) /\ Len(sessions) <= MaxSessions
    /\ Cardinality({n \in DOMAIN sessions : sessions[n].state = "active"}) <= 1
    /\ \A i \in DOMAIN reviews : reviews[i] \in Review
    /\ \A i, j \in DOMAIN reviews : reviews[i].session = reviews[j].session => i = j
    /\ failures \subseteq DOMAIN sessions /\ commits \in 0..MaxSessions
    /\ Cardinality(reading) <= 1 /\ Cardinality(known) <= 1

Init ==
    /\ sessions = <<>> /\ env = NoEnv /\ reviews = <<>> /\ failures = {} /\ commits = 0
    /\ runs = Nothing /\ reading = {} /\ known = {}

-----------------------------------------------------------------------------
\* The server.

HasActive_No == FALSE           \* mutant: a session may be started beside another one

HasActive == \E n \in DOMAIN sessions : sessions[n].state = "active"

Starts(kind, commit, source) ==
    /\ ~HasActive /\ Len(sessions) < MaxSessions
    /\ sessions' = Append(sessions, [kind |-> kind, state |-> "active", commit |-> commit, source |-> source])
    /\ UNCHANGED <<reviews, failures, commits, runs, reading, known>>

SourceSession == Starts("source", Nothing, 0) /\ UNCHANGED env

\* A deployment names a source commit and the session that made it.
StartIssueTestDeploy(c) ==
    \E n \in DOMAIN sessions :
        /\ sessions[n].kind = "source" /\ sessions[n].commit = <<c, 0>>
        /\ Starts("deploy", <<c, 0>>, n)
        /\ env' = [env EXCEPT !.status = "deploying", !.deploy = Len(sessions'), !.source = n, !.commit = <<c, 0>>]

RequestIssueTestEnvironmentCleanup ==
    /\ env # NoEnv /\ Starts("cleanup", Nothing, 0)
    /\ env' = [env EXCEPT !.status = "cleanup_requested", !.clean = Len(sessions')]

\* storeRuntimeReviewEvidence: one for each session, kept the newest first.
FirstNonEmpty(a, b) == IF a # 0 THEN a ELSE b
Stored(n, commit, failed, builds) ==
    <<[session |-> n, source |-> FirstNonEmpty(sessions[n].source, n), commit |-> commit,
       failed |-> failed, builds |-> builds]>> \o SelectSeq(reviews, LAMBDA r : r.session # n)

Reported(n, commit) ==
    \/ reviews' = reviews
    \/ \E failed \in SUBSET Fails, builds \in Builds :
          reviews' = Stored(n, commit, failed, builds)

Ended(n, state, commit) ==
    /\ n \in DOMAIN sessions /\ sessions[n].state = "active"
    /\ sessions' = [sessions EXCEPT ![n].state = state, ![n].commit = commit]
    /\ UNCHANGED <<reading, known>>

\* The environment when a session that reports a preview takes it over.
TakenOver_Stale(n, commit) == [env EXCEPT !.status = "active", !.deploy = n]  \* mutant: the commit stays the old one

TakenOver(n, commit) == [env EXCEPT !.status = "active", !.deploy = n, !.commit = IF commit = Nothing THEN @ ELSE commit]

\* The commit in the result: a new one, the head of the issue's branch, or for a
\* deployment the commit it was given or its own adaptation of that.
SessionSucceeds(n, new, preview) ==
    LET s == sessions[n]
        commit == CASE s.kind = "source" -> (IF new THEN <<commits + 1, 0>> ELSE <<commits, 0>>)
                    [] s.kind = "deploy" -> (IF new THEN <<s.commit[1], n>> ELSE s.commit)
                    [] OTHER             -> Nothing
        takes == env # NoEnv /\ n \notin {env.deploy, env.clean} /\ preview
    IN /\ Ended(n, "completed", commit) /\ Reported(n, commit)
       /\ commits' = IF s.kind = "source" /\ new THEN commits + 1 ELSE commits
       /\ env' = CASE env.deploy = n -> [env EXCEPT !.status = "active"]
                   [] env.clean = n  -> [env EXCEPT !.status = "cleaned"]
                   [] takes          -> TakenOver(n, commit)
                   [] OTHER          -> env
       /\ runs' = IF env.deploy = n \/ takes THEN commit ELSE runs
       /\ UNCHANGED failures

\* A failed session may still have left its evidence, a cancelled one has not.
SessionStops(n, state) ==
    /\ state \in {"failed", "cancelled"} /\ Ended(n, state, sessions[n].commit)
    /\ IF state = "failed" THEN Reported(n, sessions[n].commit) ELSE UNCHANGED reviews
    /\ failures' = failures \cup {n}
    /\ env' = CASE env.deploy = n -> [env EXCEPT !.status = "deploy_" \o state]
                [] env.clean = n  -> [env EXCEPT !.status = "cleanup_failed"]
                [] OTHER          -> env
    /\ UNCHANGED <<commits, runs>>

-----------------------------------------------------------------------------
\* The detail: the reviews are read before the environment.

Whole(read) == {[reviews |-> read, failures |-> failures, env |-> env]}

GetIssue ==
    /\ IF Torn
       THEN reading = {} /\ reading' = {reviews} /\ UNCHANGED known
       ELSE known' = Whole(reviews) /\ UNCHANGED reading
    /\ UNCHANGED server

ReadEnvironment ==
    /\ \E read \in reading : known' = Whole(read)
    /\ reading' = {} /\ UNCHANGED server

-----------------------------------------------------------------------------
\* The evidence tab.

Shown == CHOOSE d \in known : TRUE

\* The shas of a commit and of its adaptations differ; the session they name need not.
MatchesEnvironment_Commit(r, e) == e # NoEnv /\ r.commit = e.commit  \* mutant: the source session is not compared

MatchesEnvironment(r, e) == e # NoEnv /\ ((r.commit # Nothing /\ r.commit = e.commit) \/ r.source = e.source)

\* currentReviewEvidence: the newest that matches, or else the newest.
CurrentReview_Newest(d) == {r \in {d.reviews[i] : i \in {1} \cap DOMAIN d.reviews} : TRUE}  \* mutant: whatever is newest

CurrentReview(d) ==
    LET matching == {i \in DOMAIN d.reviews : MatchesEnvironment(d.reviews[i], d.env)}
        candidates == IF matching # {} THEN matching ELSE DOMAIN d.reviews
    IN {d.reviews[i] : i \in {i \in candidates : \A j \in candidates : i <= j}}

\* testStatusForChecks and reviewResultForDisplay, the signals under the verdict.
TestStatus(r) == IF "tests" \in r.failed THEN "failed" ELSE "passed"
DeploymentStatus(r) == IF "deployment" \in r.failed THEN "failed" ELSE "passed"
BuildShown(r) == IF r.builds = "failed" THEN "failed" ELSE "passed"

\* reviewStatusForPacket looks at the build's result as it was reported.
ReviewStatus(r) == IF r.failed # {} \/ r.builds \in {"failed", "recovered"} THEN "failed" ELSE "passed"

\* EvidenceOutcomePacket.
PacketStatus(d) ==
    IF d.env.status = "active" THEN "passed"
    ELSE IF CurrentReview(d) = {} THEN "not_reported" ELSE ReviewStatus(CHOOSE r \in CurrentReview(d) : TRUE)

\* IssueEvidenceTab, and the facts beside the packet: the review's, or else the environment's.
Tab(d) ==
    CASE d.reviews = <<>> /\ d.env = NoEnv -> "no evidence"
      [] CurrentReview(d) = {}             -> "no review"
      [] OTHER                             -> "packet"

Facts(d) ==
    LET own == {r.commit : r \in CurrentReview(d)} \ {Nothing}
        sources == {r.source : r \in CurrentReview(d)}
    IN [commits |-> IF own # {} THEN own ELSE {d.env.commit},
        sources |-> IF sources # {} THEN sources ELSE {d.env.source}]

\* The page of previous attempts.
HistoryEntries(d) == {d.reviews[i].session : i \in DOMAIN d.reviews}
OlderReviews(d) == HistoryEntries(d) \ {r.session : r \in CurrentReview(d)}

-----------------------------------------------------------------------------
SessionEnds ==
    \E n \in DOMAIN sessions :
        \/ \E new, preview \in BOOLEAN : SessionSucceeds(n, new, preview)
        \/ \E state \in {"failed", "cancelled"} : SessionStops(n, state)

Next ==
    \/ SourceSession \/ (\E c \in 1..commits : StartIssueTestDeploy(c))
    \/ RequestIssueTestEnvironmentCleanup \/ SessionEnds
    \/ GetIssue \/ ReadEnvironment

\* The page polls, and the queries it waits for are answered.
Spec == Init /\ [][Next]_vars /\ WF_vars(GetIssue) /\ WF_vars(ReadEnvironment)

-----------------------------------------------------------------------------
\* Properties.

Grounded(d) ==
    d.env.status = "active" /\ (\E i \in DOMAIN d.reviews : d.reviews[i].session = d.env.deploy)
    => Tab(d) = "packet" /\ \A c \in Facts(d).commits : c[1] = d.env.commit[1]

\* The packet shown beside an active environment is about the source that runs
\* there, when the session that brought it there has left its evidence
\* (currentReviewEvidence), whichever sessions have reported since.
PacketOfEnvironment == \A d \in known : Grounded(d)

\* What the environment says it runs is the source that runs there.
EnvironmentSaysWhatRuns == env.status = "active" => env.commit[1] = runs[1]

\* A detail read from Postgres while a deployment is reconciled may pair an
\* environment with the reviews of before: the next polls put that right.
PacketHeals == <>[](known # {} /\ PacketOfEnvironment)

\* docs/ia.md:325: the packet is grounded in the build, deploy and test result.
VerdictGrounded ==
    \A d \in known : \A r \in CurrentReview(d) :
        PacketStatus(d) = "passed" => "failed" \notin {TestStatus(r), DeploymentStatus(r), BuildShown(r)}

\* docs/ia.md:321: the previous attempts are older reviews, interruptions, failures.
HistoryShowsFailures == \A d \in known : d.failures \subseteq HistoryEntries(d)
=============================================================================
