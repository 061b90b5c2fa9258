---- MODULE MCDesktop ----
(*****************************************************************************)
(* The desktop application: the supervisor of the personal worker, the       *)
(* local server, the session of the client, the readiness of the runtime     *)
(* and the sidebar. They share no state in these models, so each runs        *)
(* alone, chosen by the variable part; an instance gives a component the     *)
(* constants of one question.                                                *)
(*****************************************************************************)
EXTENDS Integers, Sequences, FiniteSets

CONSTANTS b1, c1, c2, c3, home, k1, k2, lost, p1, p2, p3, p4, r1, s1, team, w1, w2
CONSTANTS Engines, StopSlots, RenewSlots, Preinstalled, None, Calls, StaleAtStart,
    Servers, Home, Compatible, Inviter, Locked, NoToken, NoWs, MaxLogin, MaxOut, Blocked,
    Age, MaxAttempts, MaxRun, Issues, Runs, IssueKinds, RunStatuses, Plans

VARIABLES
    part,   \* the component that runs, and in which instance
    personalWorkerMain, companions, workspace, stopping, credential, lastInput, browser,
    restart, restartVar, renewTimer, oldTimers, waiting, ensure, stops, renews,
    personalWorkerProcs, alive, tokenFile, issued, installed, held, personalWorkerBudget,
    remote, serverProcess, starting, promise, interval, localServerProcs, port,
    localServerCall, localServerBudget,
    base, token, selected, me, pending, accepted, clientSessionMain, hash, login, github,
    switching, save, accept, joined, wanted, arrived, clientSessionBudget,
    clock, row, other, proc, leaving, session, effect, inflight, runtimeReadinessCall,
    asked, runtimeReadinessBudget,
    issue, run,
    rootFile, rootSynced, rootPc, rootId, rootMade, rootServed, rootFaults

personalWorkerVars == <<personalWorkerMain, companions, workspace, stopping, credential,
    lastInput, browser, restart, restartVar, renewTimer, oldTimers, waiting, ensure,
    stops, renews, personalWorkerProcs, alive, tokenFile, issued, installed, held,
    personalWorkerBudget>>
localServerVars == <<remote, serverProcess, starting, promise, interval, localServerProcs,
    port, localServerCall, localServerBudget>>
clientSessionVars == <<base, token, selected, me, pending, accepted, clientSessionMain,
    hash, login, github, switching, save, accept, joined, wanted, arrived,
    clientSessionBudget>>
runtimeReadinessVars == <<clock, row, other, proc, leaving, session, effect, inflight,
    runtimeReadinessCall, asked, runtimeReadinessBudget>>
activeWorkVars == <<issue, run>>
rootVars == <<rootFile, rootSynced, rootPc, rootId, rootMade, rootServed, rootFaults>>
partsVars == <<part, personalWorkerVars, localServerVars, clientSessionVars, runtimeReadinessVars,
    activeWorkVars, rootVars>>

\* What the renderer asks a worker for: nothing, the codex CLI, a browser for it.
AnyBrowser == {{}, {"codex", "browser"}}
AnyCodex == {{}, {"codex"}}

\* The values in which the instances differ.
SupervisorWorkspaces == {w1, w2}
SupervisorProcs == {p1, p2, p3}
SupervisorCreds == {c1, c2}
SupervisorBrowsers == {b1}
RenewalWorkspaces == {w1}
RenewalCreds == {c1, c2, c3}
KeptProcs == {p1, p2, p3, p4}
KeptBrowsers == {}
ReadinessPreflights == {}
PreflightPreflights == {p1}
PowerlessWorkers == {"w1", "w2"}
StartsWorkers == {"w1", "w2", "w3"}
PowerlessFaults == {"power", "kill", "write", "sync"}
StartsFaults == {"write", "sync"}

Supervisor == INSTANCE PersonalWorker WITH Workspaces <- SupervisorWorkspaces,
    Needs <- AnyBrowser, Procs <- SupervisorProcs, Creds <- SupervisorCreds,
    Browsers <- SupervisorBrowsers, MaxRequest <- 2, MaxStop <- 1, MaxExit <- 0,
    MaxFail <- 1, main <- personalWorkerMain, procs <- personalWorkerProcs,
    budget <- personalWorkerBudget
Renewal == INSTANCE PersonalWorker WITH Workspaces <- RenewalWorkspaces,
    Needs <- AnyBrowser, Procs <- SupervisorProcs, Creds <- RenewalCreds,
    Browsers <- SupervisorBrowsers, MaxRequest <- 3, MaxStop <- 0, MaxExit <- 1,
    MaxFail <- 1, main <- personalWorkerMain, procs <- personalWorkerProcs,
    budget <- personalWorkerBudget
Kept == INSTANCE PersonalWorker WITH Workspaces <- RenewalWorkspaces, Needs <- AnyCodex,
    Procs <- KeptProcs, Creds <- SupervisorCreds, Browsers <- KeptBrowsers,
    MaxRequest <- 2, MaxStop <- 0, MaxExit <- 2, MaxFail <- 0, main <- personalWorkerMain,
    procs <- personalWorkerProcs, budget <- personalWorkerBudget
Server == INSTANCE LocalServer WITH Procs <- SupervisorProcs, Packaged <- FALSE,
    MaxCall <- 2, MaxSwitch <- 1, MaxFail <- 1, procs <- localServerProcs,
    call <- localServerCall, budget <- localServerBudget
PackagedServer == INSTANCE LocalServer WITH Procs <- SupervisorProcs, Packaged <- TRUE,
    MaxCall <- 3, MaxSwitch <- 2, MaxFail <- 1, procs <- localServerProcs,
    call <- localServerCall, budget <- localServerBudget
Session == INSTANCE ClientSession WITH MaxLink <- 1, MaxSave <- 1, MaxFail <- 1,
    main <- clientSessionMain, budget <- clientSessionBudget
Links == INSTANCE ClientSession WITH MaxLink <- 2, MaxSave <- 0, MaxFail <- 1,
    main <- clientSessionMain, budget <- clientSessionBudget
Readiness == INSTANCE RuntimeReadiness WITH Preflights <- ReadinessPreflights,
    OtherHost <- TRUE, MaxClock <- 2, MaxSign <- 1, MaxExit <- 1,
    call <- runtimeReadinessCall, budget <- runtimeReadinessBudget
Preflight == INSTANCE RuntimeReadiness WITH Preflights <- PreflightPreflights,
    OtherHost <- FALSE, MaxClock <- 1, MaxSign <- 0, MaxExit <- 1,
    call <- runtimeReadinessCall, budget <- runtimeReadinessBudget
Work == INSTANCE ActiveWork WITH LostPlan <- lost
Powerless == INSTANCE WorkerStorage WITH Workers <- PowerlessWorkers,
    Faults <- PowerlessFaults, MaxFaults <- 3, file <- rootFile, synced <- rootSynced,
    pc <- rootPc, id <- rootId, made <- rootMade, served <- rootServed, faults <- rootFaults
Starts == INSTANCE WorkerStorage WITH Workers <- StartsWorkers, Faults <- StartsFaults,
    MaxFaults <- 1, file <- rootFile, synced <- rootSynced, pc <- rootPc, id <- rootId,
    made <- rootMade, served <- rootServed, faults <- rootFaults

\* Every instance satisfies what its component assumes of the constants.
ASSUME InstancesAssumption == Supervisor!PersonalWorkerAssumption
    /\ Renewal!PersonalWorkerAssumption /\ Kept!PersonalWorkerAssumption
    /\ Server!LocalServerAssumption /\ PackagedServer!LocalServerAssumption
    /\ Session!ClientSessionAssumption /\ Links!ClientSessionAssumption
    /\ Readiness!RuntimeReadinessAssumption /\ Preflight!RuntimeReadinessAssumption
    /\ Work!InputsAssumption
    /\ Powerless!WorkerStorageAssumption /\ Starts!WorkerStorageAssumption

\* One component runs; the variables of the others stand still.
PersonalWorkerInit ==
  \/ part = "supervisor" /\ Supervisor!Init
  \/ part = "renewal" /\ Renewal!Init
  \/ part = "kept" /\ Kept!Init
  \/ part \notin {"supervisor", "renewal", "kept"} /\ personalWorkerMain = 0
     /\ companions = 0 /\ workspace = 0 /\ stopping = 0 /\ credential = 0 /\ lastInput = 0
     /\ browser = 0 /\ restart = 0 /\ restartVar = 0 /\ renewTimer = 0 /\ oldTimers = 0
     /\ waiting = 0 /\ ensure = 0 /\ stops = 0 /\ renews = 0 /\ personalWorkerProcs = 0
     /\ alive = 0 /\ tokenFile = 0 /\ issued = 0 /\ installed = 0 /\ held = 0
     /\ personalWorkerBudget = 0
LocalServerInit ==
  \/ part = "server" /\ Server!Init
  \/ part = "packaged" /\ PackagedServer!Init
  \/ part \notin {"server", "packaged"} /\ remote = 0 /\ serverProcess = 0
     /\ starting = 0 /\ promise = 0 /\ interval = 0 /\ localServerProcs = 0 /\ port = 0
     /\ localServerCall = 0 /\ localServerBudget = 0
ClientSessionInit ==
  \/ part = "session" /\ Session!Init
  \/ part = "links" /\ Links!Init
  \/ part \notin {"session", "links"} /\ base = 0 /\ token = 0 /\ selected = 0
     /\ me = 0 /\ pending = 0 /\ accepted = 0 /\ clientSessionMain = 0 /\ hash = 0
     /\ login = 0 /\ github = 0 /\ switching = 0 /\ save = 0 /\ accept = 0 /\ joined = 0
     /\ wanted = 0 /\ arrived = 0 /\ clientSessionBudget = 0
RuntimeReadinessInit ==
  \/ part = "readiness" /\ Readiness!Init
  \/ part = "preflight" /\ Preflight!Init
  \/ part \notin {"readiness", "preflight"} /\ clock = 0 /\ row = 0 /\ other = 0
     /\ proc = 0 /\ leaving = 0 /\ session = 0 /\ effect = 0 /\ inflight = 0
     /\ runtimeReadinessCall = 0 /\ asked = 0 /\ runtimeReadinessBudget = 0
ActiveWorkInit ==
  \/ part = "active work" /\ Work!Init
  \/ part # "active work" /\ issue = 0 /\ run = 0
StorageInit ==
  \/ part = "storage without power" /\ Powerless!Init
  \/ part = "overlapping starts" /\ Starts!Init
  \/ part \notin {"storage without power", "overlapping starts"} /\ rootFile = 0
     /\ rootSynced = 0 /\ rootPc = 0 /\ rootId = 0 /\ rootMade = 0 /\ rootServed = 0
     /\ rootFaults = 0

PartsInit ==
  /\ part \in {"supervisor", "renewal", "kept", "server", "packaged", "session", "links",
      "readiness", "preflight", "active work", "storage without power", "overlapping starts"}
  /\ PersonalWorkerInit /\ LocalServerInit /\ ClientSessionInit /\ RuntimeReadinessInit
  /\ ActiveWorkInit /\ StorageInit

OnlyPersonalWorker == UNCHANGED <<part, localServerVars, clientSessionVars,
    runtimeReadinessVars, activeWorkVars, rootVars>>
OnlyLocalServer == UNCHANGED <<part, personalWorkerVars, clientSessionVars,
    runtimeReadinessVars, activeWorkVars, rootVars>>
OnlyClientSession == UNCHANGED <<part, personalWorkerVars, localServerVars,
    runtimeReadinessVars, activeWorkVars, rootVars>>
OnlyRuntimeReadiness == UNCHANGED <<part, personalWorkerVars, localServerVars,
    clientSessionVars, activeWorkVars, rootVars>>
OnlyActiveWork == UNCHANGED <<part, personalWorkerVars, localServerVars,
    clientSessionVars, runtimeReadinessVars, rootVars>>
OnlyStorage == UNCHANGED <<part, personalWorkerVars, localServerVars, clientSessionVars,
    runtimeReadinessVars, activeWorkVars>>

PersonalWorkerNext ==
  /\ \/ part = "supervisor" /\ Supervisor!Next
     \/ part = "renewal" /\ Renewal!Next
     \/ part = "kept" /\ Kept!Next
  /\ OnlyPersonalWorker
LocalServerNext ==
  /\ \/ part = "server" /\ Server!Next
     \/ part = "packaged" /\ PackagedServer!Next
  /\ OnlyLocalServer
ClientSessionNext ==
  /\ \/ part = "session" /\ Session!Next
     \/ part = "links" /\ Links!Next
  /\ OnlyClientSession
RuntimeReadinessNext ==
  /\ \/ part = "readiness" /\ Readiness!Next
     \/ part = "preflight" /\ Preflight!Next
  /\ OnlyRuntimeReadiness
ActiveWorkNext == part = "active work" /\ Work!Next /\ OnlyActiveWork
StorageNext ==
  /\ \/ part = "storage without power" /\ Powerless!Next
     \/ part = "overlapping starts" /\ Starts!Next
  /\ OnlyStorage

PartsNext == \/ PersonalWorkerNext \/ LocalServerNext \/ ClientSessionNext
        \/ RuntimeReadinessNext \/ ActiveWorkNext \/ StorageNext

\* What each module says of its own fairness, while it runs.
PartsSpec ==
  /\ PartsInit /\ [][PartsNext]_partsVars
  /\ WF_personalWorkerVars(part = "kept" /\ Kept!EnsureCommit)
  /\ WF_personalWorkerVars(part = "kept" /\ Kept!Event /\ Kept!EnsureStep)
  /\ WF_personalWorkerVars(part = "kept" /\ Kept!Event /\ \E s \in Kept!Slots : Kept!StopStep(s))
  /\ WF_personalWorkerVars(part = "kept" /\ Kept!Event /\ Kept!RenewStep(r1))
  /\ \A p \in {p1, p2, p3, p4} : WF_personalWorkerVars(part = "kept" /\ Kept!Event /\ Kept!RestartFires(p))
  /\ \A p \in {p1, p2, p3, p4} :
       WF_personalWorkerVars(part = "kept" /\ Kept!Event /\ personalWorkerProcs[p].state = "signalled" /\ Kept!WorkerExit(p))
  /\ \A c \in {k1, k2} : WF_localServerVars(part = "server" /\ Server!CallStep(c))
  /\ \A p \in {p1, p2, p3} : WF_localServerVars(part = "server" /\ Server!IntervalEnds(p))
  /\ \A p \in {p1, p2, p3} : WF_localServerVars(part = "server" /\ Server!Listen(p))
  /\ \A p \in {p1, p2, p3} :
       WF_localServerVars(part = "server" /\ localServerProcs[p] \in {"killed", "signalled"} /\ Server!Exit(p))
  /\ WF_clientSessionVars(part = "session" /\ Session!MeServed)
  /\ WF_clientSessionVars(part = "session" /\ Session!MeAnswered)
  /\ WF_clientSessionVars(part = "session" /\ Session!DropSession)
  /\ WF_clientSessionVars(part = "session" /\ Session!CorrectSelection)
  /\ WF_clientSessionVars(part = "session" /\ Session!InviteEffect)
  /\ WF_clientSessionVars(part = "session" /\ Session!Switched)
  /\ \A by \in {"root", "page"} : WF_clientSessionVars(part = "session" /\ Session!AcceptStep(by))
  /\ WF_runtimeReadinessVars(part = "readiness" /\ Readiness!ShellEffect)
  /\ WF_runtimeReadinessVars(part = "readiness" /\ Readiness!CallStep(Readiness!Shell))
  /\ \A w \in StartsWorkers : WF_rootVars(part = "overlapping starts" /\ Starts!Step(w))

-----------------------------------------------------------------------------
\* No worker runs for the selected workspace, or the selection is not in the list.
Broken ==
    \/ part = "kept" /\ workspace # None /\ Kept!Live = {}
    \/ part = "session" /\ me.loaded /\ selected \notin me.list

Repaired ==
    \/ part = "kept" /\ Kept!Live # {}
    \/ part = "session" /\ (~me.loaded \/ selected \in me.list)

\* A call has not been answered: of a caller of the local server, or of the shell.
Waits ==
    \/ part = "server" /\ localServerCall[k1].pc # "idle"
    \/ part = "readiness" /\ runtimeReadinessCall[Readiness!Shell].pc # "idle"
    \/ part = "overlapping starts" /\ rootPc["w1"] # "runs"

\* The session holds the token of another server than the one selected.
ForeignToken ==
    part = "session" /\ token # NoToken /\ token[1] # base /\ me.error # "failed"

\* What the parts of the desktop keep true:
\* - the supervisor never loses a worker it has not told to stop: every process
\*   that runs unsignalled is the current one or a companion, so the next stop
\*   reaches it, whatever stops, exits and failed spawns came between the checks
\*   of an ensure and its spawn;
\* - two workers never share a work root: a browser companion has a directory of
\*   its own, and no interleaving of ensure calls, stops and restarts starts a
\*   second base worker or a second companion;
\* - a worker reads its token file before each call: what it finds there is a
\*   credential the server accepts, through renewals, the delayed revocation of
\*   replaced credentials, upgrades and restarts;
\* - a credential that was in use and has been replaced is revoked: it has a
\*   timer pending, or a stop that is about to revoke it;
\* - whoever finds starting set joins a start that can still succeed: the answer
\*   of an earlier start is never handed to a later caller;
\* - a list of workspaces is shown only with the address and the account it was
\*   fetched from, whatever logins, links and changes of the address overtake
\*   one another;
\* - a link the user opened is not forgotten: until it is accepted, or the user
\*   leaves its page, the renderer holds the token, is on its page, is changing
\*   the server for it or is accepting it;
\* - when a call started the worker, "ready" is never the snapshot from before: a
\*   heartbeat has arrived since its first question, unless a worker of another
\*   host was there all along;
\* - the shell's key is set only while its call is under way, so that no later
\*   sign-in is refused for ever;
\* - the sidebar leaves no place free while there is work, gives issues three of
\*   the five places and tests two unless the other kind has too little to fill
\*   its own, hides nothing more urgent than what it shows, and orders by urgency;
\* - every active run stands behind exactly one entry, a plan has one entry, and
\*   the entry opens a run that nothing in the entry outranks.
DesktopSound ==
    /\ part = "supervisor" => /\ Supervisor!TypeOK
                              /\ Supervisor!NoWorkerLost /\ Supervisor!OneWorkerPerRoot
    /\ part = "renewal" => /\ Renewal!NoWorkerLost /\ Renewal!OneWorkerPerRoot
                           /\ Renewal!TokenFileUsable /\ Renewal!ReplacedIsRevoked
    /\ part = "server" => Server!TypeOK /\ Server!StartingIsPending
    /\ part = "session" => Session!TypeOK /\ Session!ShownTogether /\ Session!InviteKept
    /\ part = "links" => Links!ShownTogether /\ Links!InviteKept
    /\ part = "readiness" => /\ Readiness!TypeOK /\ Readiness!ReadyIsNews
                             /\ Readiness!KeyHeld
    /\ part = "preflight" => Preflight!ReadyIsNews
    /\ part = "active work" => Work!SharedFairly /\ Work!EntriesCoverRuns

\* What no step of the desktop does:
\* - preparing or losing a browser interrupts no task of an ordinary worker: the
\*   only step that signals one is a stop, which drops all of them together;
\* - a packaged app kills nothing it did not start;
\* - an id that was synced is not lost by loss of power or a later start,
\*   whatever fails (the file is synced and closed before its id is returned).
DesktopSpares == [][
    /\ part = "supervisor" => Supervisor!BrowserSparesOthers
    /\ part = "renewal" => Renewal!BrowserSparesOthers
    /\ part = "packaged" => PackagedServer!ForeignSpared
    /\ part = "storage without power" => Powerless!SyncedStays]_partsVars

\* What the desktop waits for comes:
\* - with a workspace selected, a time without a worker ends (the restart timers
\*   of personal-worker.ts), and the stored selection comes to name a workspace
\*   of the list, also after an acceptance that was answered when the account had
\*   changed;
\* - a caller of the local server is answered whatever starts, exits and switches
\*   come between (callers are alike, so one stands for all), the preflight of
\*   the shell ends though the worker never registers, and overlapping workers of
\*   a root all start;
\* - the token of another server, from a login that was answered after the
\*   address had changed, is dropped once the new server has refused it.
DesktopSettles ==
    /\ Broken ~> Repaired
    /\ Waits ~> ~Waits
    /\ ForeignToken ~> ~ForeignToken

=============================================================================
