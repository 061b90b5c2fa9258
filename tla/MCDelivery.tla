---- MODULE MCDelivery ----
(*****************************************************************************)
(* What becomes of a commit on the page of an issue: its test environment,   *)
(* the resources that run there, and its pull request. Each runs alone,      *)
(* chosen by the variable part; an instance gives a component the            *)
(* constants of one question.                                                *)
(*****************************************************************************)
EXTENDS Naturals, Sequences, FiniteSets, TLAPS

CONSTANTS b1, b2, w1, w2
CONSTANTS MaxSteps, NoBranch

VARIABLES
    part,   \* the component that runs, and in which instance
    env, testEnvironmentSessions, commits, testEnvironmentKnown, form,
    testEnvironmentPosts, checked, seen, visit,
    namespace, environmentResourcesKnown, tab, data, failed, reads, latest, entered,
    budget,
    nodes, pullRequestHandoffSessions, handoff, worker, pullRequestHandoffKnown, branch,
    pullRequestHandoffPosts, fails

testEnvironmentVars == <<env, testEnvironmentSessions, commits, testEnvironmentKnown,
    form, testEnvironmentPosts, checked, seen, visit>>
environmentResourcesVars == <<namespace, environmentResourcesKnown, tab, data, failed,
    reads, latest, entered, budget>>
pullRequestHandoffVars == <<nodes, pullRequestHandoffSessions, handoff, worker,
    pullRequestHandoffKnown, branch, pullRequestHandoffPosts, fails>>
vars == <<part, testEnvironmentVars, environmentResourcesVars, pullRequestHandoffVars>>

\* The constants of an instance, where it does not say otherwise.
Windows == {w1}
Database == TRUE
Does == {"deploy"}
MaxSessions == 2
MaxLeaves == 0
Sections == <<"pods", "deployments">>
MaxReads == 2
MaxFails == 2
Branches == {b1}
MaxNodes == 2

TwoWindowsOpen == {w1, w2}
EveryRequest == {"deploy", "cleanup", "retain"}
DeployedDoes == {"deploy", "cleanup"}
EnteredAgainSections == <<"pods", "events">>
PullRequestBranches == {b1, b2}

Deployed == INSTANCE DeliveryProofs WITH Database <- FALSE, Does <- DeployedDoes,
    MaxSessions <- 3
PreviewChecks == INSTANCE DeliveryProofs WITH MaxLeaves <- 1
Overlapping == INSTANCE DeliveryProofs WITH Does <- EveryRequest
TwoWindows == INSTANCE DeliveryProofs WITH Windows <- TwoWindowsOpen, Database <- FALSE,
    Does <- DeployedDoes
Resources == INSTANCE DeliveryProofs WITH MaxReads <- 3
EnteredAgain == INSTANCE EnvironmentResources WITH known <- environmentResourcesKnown, Sections <- EnteredAgainSections, MaxFails <- 1
PullRequest == INSTANCE DeliveryProofs WITH Branches <- PullRequestBranches,
    Database <- FALSE, MaxFails <- 1
PullRequestRows == INSTANCE DeliveryProofs WITH Windows <- TwoWindowsOpen, MaxNodes <- 1,
    MaxFails <- 0
Syncing == INSTANCE PullRequestHandoff WITH sessions <- pullRequestHandoffSessions,
    known <- pullRequestHandoffKnown, posts <- pullRequestHandoffPosts

\* Every instance satisfies what its component assumes of the constants.
ASSUME InstancesAssumption ==
    /\ Deployed!Env!TestEnvironmentAssumption /\ PreviewChecks!Env!TestEnvironmentAssumption
    /\ Overlapping!Env!TestEnvironmentAssumption /\ TwoWindows!Env!TestEnvironmentAssumption
    /\ Resources!Res!EnvironmentResourcesAssumption
    /\ EnteredAgain!EnvironmentResourcesAssumption
    /\ PullRequest!Pull!PullRequestHandoffAssumption
    /\ PullRequestRows!Pull!PullRequestHandoffAssumption
    /\ Syncing!PullRequestHandoffAssumption

\* One component runs; the variables of the others stand still.
TestEnvironmentInit ==
  \/ part = "environment" /\ Deployed!Env!Init
  \/ part = "preview checks" /\ PreviewChecks!Env!Init
  \/ part = "overlapping requests" /\ Overlapping!Env!Init
  \/ part = "two windows" /\ TwoWindows!Env!Init
  \/ part \notin {"environment", "preview checks", "overlapping requests", "two windows"}
     /\ env = 0 /\ testEnvironmentSessions = 0 /\ commits = 0 /\ testEnvironmentKnown = 0
     /\ form = 0 /\ testEnvironmentPosts = 0 /\ checked = 0 /\ seen = 0 /\ visit = 0
EnvironmentResourcesInit ==
  \/ part = "resources" /\ Resources!Res!Init
  \/ part = "entered again" /\ EnteredAgain!Init
  \/ part \notin {"resources", "entered again"} /\ namespace = 0
     /\ environmentResourcesKnown = 0 /\ tab = 0 /\ data = 0 /\ failed = 0 /\ reads = 0
     /\ latest = 0 /\ entered = 0 /\ budget = 0
PullRequestHandoffInit ==
  \/ part = "pull request" /\ PullRequest!Pull!Init
  \/ part = "pull requests of Postgres" /\ PullRequestRows!Pull!Init
  \/ part = "syncing" /\ Syncing!Init
  \/ part \notin {"pull request", "pull requests of Postgres", "syncing"} /\ nodes = 0
     /\ pullRequestHandoffSessions = 0 /\ handoff = 0 /\ worker = 0
     /\ pullRequestHandoffKnown = 0 /\ branch = 0 /\ pullRequestHandoffPosts = 0 /\ fails = 0

Init ==
  /\ part \in {"environment", "preview checks", "overlapping requests", "two windows",
      "resources", "entered again", "pull request", "pull requests of Postgres",
      "syncing"}
  /\ TestEnvironmentInit /\ EnvironmentResourcesInit /\ PullRequestHandoffInit

OnlyTestEnvironment == UNCHANGED <<part, environmentResourcesVars,
    pullRequestHandoffVars>>
OnlyEnvironmentResources == UNCHANGED <<part, testEnvironmentVars,
    pullRequestHandoffVars>>
OnlyPullRequestHandoff == UNCHANGED <<part, testEnvironmentVars,
    environmentResourcesVars>>

TestEnvironmentNext ==
  /\ \/ part = "environment" /\ Deployed!Env!Next
     \/ part = "preview checks" /\ PreviewChecks!Env!Next
     \/ part = "overlapping requests" /\ Overlapping!Env!Next
     \/ part = "two windows" /\ TwoWindows!Env!Next
  /\ OnlyTestEnvironment
EnvironmentResourcesNext ==
  /\ \/ part = "resources" /\ Resources!Res!Next
     \/ part = "entered again" /\ EnteredAgain!Next
  /\ OnlyEnvironmentResources
PullRequestHandoffNext ==
  /\ \/ part = "pull request" /\ PullRequest!Pull!Next
     \/ part = "pull requests of Postgres" /\ PullRequestRows!Pull!Next
     \/ part = "syncing" /\ Syncing!Next
  /\ OnlyPullRequestHandoff

Next == \/ TestEnvironmentNext \/ EnvironmentResourcesNext \/ PullRequestHandoffNext

\* What each module says of its own fairness, while it runs.
Spec ==
  /\ Init /\ [][Next]_vars
  /\ WF_testEnvironmentVars(part = "preview checks" /\ PreviewChecks!Env!Requests("probe"))
  /\ WF_testEnvironmentVars(part = "preview checks" /\ PreviewChecks!Env!AutoCheck(w1))
  /\ WF_testEnvironmentVars(part = "preview checks" /\ PreviewChecks!Env!Poll(w1))
  /\ WF_environmentResourcesVars(part = "entered again" /\ \E r \in reads : EnteredAgain!IsLatest(r) /\ EnteredAgain!Serve(r))
  /\ WF_pullRequestHandoffVars(part = "syncing" /\ Syncing!Requests(w1, "create"))
  /\ WF_pullRequestHandoffVars(part = "syncing" /\ Syncing!Poll(w1))
  /\ WF_pullRequestHandoffVars(part = "syncing" /\ \E n \in DOMAIN pullRequestHandoffSessions, state \in {"completed", "empty", "stopped"} : Syncing!SessionEnds(n, state))

-----------------------------------------------------------------------------
\* The tab shows nothing newer than what it was entered with; a window syncs.
Unsettled ==
    \/ /\ part = "entered again" /\ tab = "resources" /\ environmentResourcesKnown
       /\ ~failed /\ ~\E d \in data : d.n > entered
    \/ /\ part = "syncing" /\ pullRequestHandoffKnown[w1] # {}
       /\ Syncing!Pending(w1, "create") \/ Syncing!Detail(w1).active

\* What the issue page says of a delivery:
\* - the commit the environment shows is the one its deployment was given, though
\*   Postgres writes back records that it read before others changed them;
\* - of the in-memory store, "Active" is said of an environment whose deployment
\*   has succeeded, whatever checks of the preview were under way when it was
\*   started or when it ended, and in whichever window;
\* - a recorded pull request is one of the commit its session was given, whatever
\*   commits came in and whatever other windows asked for meanwhile;
\* - of the in-memory store, the pull request of the newest session, once it has
\*   completed with one, is recorded.
DeliverySound ==
    /\ part = "environment" => /\ Deployed!Env!ActiveMeansDeployed
                               /\ Deployed!Env!SourceShown
    /\ part = "preview checks" => PreviewChecks!Env!TypeOK /\ PreviewChecks!Env!SourceShown
    /\ part = "overlapping requests" => Overlapping!Env!TypeOK /\ Overlapping!Env!SourceShown
    /\ part = "two windows" => /\ TwoWindows!Env!TypeOK /\ TwoWindows!Env!SourceShown
                               /\ TwoWindows!Env!ActiveMeansDeployed
    /\ part = "resources" => Resources!Res!TypeOK
    /\ part = "pull request" => PullRequest!Pull!RightCommit /\ PullRequest!Pull!Recorded
    /\ part = "pull requests of Postgres" => /\ PullRequestRows!Pull!TypeOK
                                             /\ PullRequestRows!Pull!RightCommit

\* What the page waits for comes: a tab that was entered shows a new reading or
\* the failure, and "Syncing" gives way to a pull request, an error or the button.
\* No reading on the way misleads: a kind is called empty only if it was when it
\* was read, or if an error says that it could not be read, so that a broken kind
\* never passes for an empty one; and none is replaced by an older one.
\* And the automatic check of a preview does not feed itself: when no further
\* minute passes, the checks come to rest.
DeliverySettles ==
    /\ Unsettled ~> ~Unsettled
    /\ [][part = "resources" => Resources!Res!EmptyIsTold /\ Resources!Res!NeverOlder]_vars
    /\ (<>[][part = "preview checks" => ~PreviewChecks!Env!MinutePasses(w1)]_vars)
          => <>[](part = "preview checks" => ~PreviewChecks!Env!Pending(w1, "probe"))

-----------------------------------------------------------------------------
\* The inductive invariant of whichever component runs.
PartsInv ==
    /\ part = "environment" => Deployed!EnvInv /\ Deployed!Env!ActiveMeansDeployed
    /\ part = "preview checks" => PreviewChecks!EnvInv
    /\ part = "overlapping requests" => Overlapping!EnvInv
    /\ part = "two windows" => TwoWindows!EnvInv /\ TwoWindows!Env!ActiveMeansDeployed
    /\ part = "resources" => Resources!ReadingsInv
    /\ part = "pull request" => PullRequest!PullInv /\ PullRequest!Pull!Recorded
    /\ part = "pull requests of Postgres" => PullRequestRows!PullInv

LEMMA PartsInit ==
    ASSUME Init
    PROVE  PartsInv
<1>1. ASSUME part = "environment" PROVE Deployed!EnvInv /\ Deployed!Env!ActiveMeansDeployed
  <2>1. Deployed!Env!Init
    BY <1>1 DEF Init, TestEnvironmentInit
  <2> QED
    BY <2>1, InstancesAssumption, Deployed!EnvInitial, Deployed!ActiveInitial
<1>2. ASSUME part = "preview checks" PROVE PreviewChecks!EnvInv
  <2>1. PreviewChecks!Env!Init
    BY <1>2 DEF Init, TestEnvironmentInit
  <2> QED
    BY <2>1, InstancesAssumption, PreviewChecks!EnvInitial
<1>3. ASSUME part = "two windows" PROVE TwoWindows!EnvInv /\ TwoWindows!Env!ActiveMeansDeployed
  <2>1. TwoWindows!Env!Init
    BY <1>3 DEF Init, TestEnvironmentInit
  <2> QED
    BY <2>1, InstancesAssumption, TwoWindows!EnvInitial, TwoWindows!ActiveInitial
<1>4. ASSUME part = "resources" PROVE Resources!ReadingsInv
  <2>1. Resources!Res!Init
    BY <1>4 DEF Init, EnvironmentResourcesInit
  <2> QED
    BY <2>1, InstancesAssumption, Resources!ReadingsInit
<1>5. ASSUME part = "pull request" PROVE PullRequest!PullInv /\ PullRequest!Pull!Recorded
  <2>1. PullRequest!Pull!Init
    BY <1>5 DEF Init, PullRequestHandoffInit
  <2>2. PullRequest!Pull!Recorded
    BY <2>1 DEF PullRequest!Pull!Init, PullRequest!Pull!Recorded
  <2> QED
    BY <2>1, <2>2, InstancesAssumption, PullRequest!PullInit
<1>6. ASSUME part = "pull requests of Postgres" PROVE PullRequestRows!PullInv
  <2>1. PullRequestRows!Pull!Init
    BY <1>6 DEF Init, PullRequestHandoffInit
  <2> QED
    BY <2>1, InstancesAssumption, PullRequestRows!PullInit
<1>7. ASSUME part = "overlapping requests" PROVE Overlapping!EnvInv
  <2>1. Overlapping!Env!Init
    BY <1>7 DEF Init, TestEnvironmentInit
  <2> QED
    BY <2>1, InstancesAssumption, Overlapping!EnvInitial
<1> QED
  BY <1>1, <1>2, <1>3, <1>4, <1>5, <1>6, <1>7 DEF PartsInv

LEMMA PartsStep ==
    ASSUME PartsInv, [Next]_vars
    PROVE  PartsInv'
<1>1. part' = part
  BY DEF Next, TestEnvironmentNext, EnvironmentResourcesNext, PullRequestHandoffNext, vars,
     OnlyTestEnvironment, OnlyEnvironmentResources, OnlyPullRequestHandoff
<1>2. ASSUME part = "environment" PROVE Deployed!EnvInv' /\ Deployed!Env!ActiveMeansDeployed'
  <2>1. [Deployed!Env!Next]_(Deployed!Env!vars)
    BY <1>2 DEF Next, TestEnvironmentNext, EnvironmentResourcesNext, PullRequestHandoffNext,
       vars, testEnvironmentVars, Deployed!Env!vars, Deployed!Env!server
  <2>2. Deployed!EnvInv /\ Deployed!Env!ActiveMeansDeployed
    BY <1>2 DEF PartsInv
  <2> QED
    BY <2>1, <2>2, InstancesAssumption, Deployed!EnvStep, Deployed!ActiveStep
<1>3. ASSUME part = "preview checks" PROVE PreviewChecks!EnvInv'
  <2>1. [PreviewChecks!Env!Next]_(PreviewChecks!Env!vars)
    BY <1>3 DEF Next, TestEnvironmentNext, EnvironmentResourcesNext, PullRequestHandoffNext,
       vars, testEnvironmentVars, PreviewChecks!Env!vars, PreviewChecks!Env!server
  <2> QED
    BY <1>3, <2>1, InstancesAssumption, PreviewChecks!EnvStep DEF PartsInv
<1>4. ASSUME part = "two windows" PROVE TwoWindows!EnvInv' /\ TwoWindows!Env!ActiveMeansDeployed'
  <2>1. [TwoWindows!Env!Next]_(TwoWindows!Env!vars)
    BY <1>4 DEF Next, TestEnvironmentNext, EnvironmentResourcesNext, PullRequestHandoffNext,
       vars, testEnvironmentVars, TwoWindows!Env!vars, TwoWindows!Env!server
  <2>2. TwoWindows!EnvInv /\ TwoWindows!Env!ActiveMeansDeployed
    BY <1>4 DEF PartsInv
  <2> QED
    BY <2>1, <2>2, InstancesAssumption, TwoWindows!EnvStep, TwoWindows!ActiveStep
<1>5. ASSUME part = "resources" PROVE Resources!ReadingsInv'
  <2>1. [Resources!Res!Next]_(Resources!Res!vars)
    BY <1>5 DEF Next, TestEnvironmentNext, EnvironmentResourcesNext, PullRequestHandoffNext,
       vars, environmentResourcesVars, Resources!Res!vars, Resources!Res!page, Resources!Res!query
  <2> QED
    BY <1>5, <2>1, InstancesAssumption, Resources!ReadingsStep DEF PartsInv
<1>6. ASSUME part = "pull request" PROVE PullRequest!PullInv' /\ PullRequest!Pull!Recorded'
  <2>1. [PullRequest!Pull!Next]_(PullRequest!Pull!vars)
    BY <1>6 DEF Next, TestEnvironmentNext, EnvironmentResourcesNext, PullRequestHandoffNext,
       vars, pullRequestHandoffVars, PullRequest!Pull!vars, PullRequest!Pull!server
  <2>2. PullRequest!PullInv /\ PullRequest!Pull!Recorded
    BY <1>6 DEF PartsInv
  <2> QED
    BY <2>1, <2>2, InstancesAssumption, PullRequest!PullStep, PullRequest!RecordedStep
<1>7. ASSUME part = "pull requests of Postgres" PROVE PullRequestRows!PullInv'
  <2>1. [PullRequestRows!Pull!Next]_(PullRequestRows!Pull!vars)
    BY <1>7 DEF Next, TestEnvironmentNext, EnvironmentResourcesNext, PullRequestHandoffNext,
       vars, pullRequestHandoffVars, PullRequestRows!Pull!vars, PullRequestRows!Pull!server
  <2> QED
    BY <1>7, <2>1, InstancesAssumption, PullRequestRows!PullStep DEF PartsInv
<1>8. ASSUME part = "overlapping requests" PROVE Overlapping!EnvInv'
  <2>1. [Overlapping!Env!Next]_(Overlapping!Env!vars)
    BY <1>8 DEF Next, TestEnvironmentNext, EnvironmentResourcesNext, PullRequestHandoffNext,
       vars, testEnvironmentVars, Overlapping!Env!vars, Overlapping!Env!server
  <2> QED
    BY <1>8, <2>1, InstancesAssumption, Overlapping!EnvStep DEF PartsInv
<1> QED
  BY <1>1, <1>2, <1>3, <1>4, <1>5, <1>6, <1>7, <1>8 DEF PartsInv

LEMMA PartsSound ==
    ASSUME PartsInv
    PROVE  DeliverySound
<1>1. part = "environment" => Deployed!Env!ActiveMeansDeployed /\ Deployed!Env!SourceShown
  BY InstancesAssumption, Deployed!EnvTyped DEF PartsInv
<1>2. part = "preview checks" => PreviewChecks!Env!TypeOK /\ PreviewChecks!Env!SourceShown
  BY InstancesAssumption, PreviewChecks!EnvTyped DEF PartsInv
<1>3. part = "two windows" => /\ TwoWindows!Env!TypeOK /\ TwoWindows!Env!SourceShown
                              /\ TwoWindows!Env!ActiveMeansDeployed
  BY InstancesAssumption, TwoWindows!EnvTyped DEF PartsInv
<1>4. part = "resources" => Resources!Res!TypeOK
  BY InstancesAssumption, Resources!ReadingsTyped DEF PartsInv
<1>5. part = "pull request" => PullRequest!Pull!RightCommit /\ PullRequest!Pull!Recorded
  BY DEF PartsInv, PullRequest!PullInv, PullRequest!RecordInv
<1>6. part = "pull requests of Postgres" =>
         PullRequestRows!Pull!TypeOK /\ PullRequestRows!Pull!RightCommit
  BY PullRequestRows!PullTyped DEF PartsInv, PullRequestRows!PullInv, PullRequestRows!RecordInv
<1>7. part = "overlapping requests" => Overlapping!Env!TypeOK /\ Overlapping!Env!SourceShown
  BY InstancesAssumption, Overlapping!EnvTyped DEF PartsInv
<1> QED
  BY <1>1, <1>2, <1>3, <1>4, <1>5, <1>6, <1>7 DEF DeliverySound

\* What the issue page says of a delivery is true of every instance, for any
\* identities of windows and branches and any number of steps of a namespace.
THEOREM DeliveryIsSound == Spec => []DeliverySound
<1>1. Init => PartsInv
  BY PartsInit
<1>2. PartsInv /\ [Next]_vars => PartsInv'
  BY PartsStep
<1>3. PartsInv => DeliverySound
  BY PartsSound
<1> QED
  BY <1>1, <1>2, <1>3, PTL DEF Spec

=============================================================================
