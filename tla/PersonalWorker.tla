--------------------------- MODULE PersonalWorker ---------------------------
(***************************************************************************)
(* The personal-worker supervisor of the desktop's main process            *)
(* (apps/desktop/src/main/index.ts).  The main process is one thread: what *)
(* interleaves are the continuations of its async functions, so an action  *)
(* is the code from one await to the next.                                  *)
(*                                                                         *)
(*   ensure   ensurePersonalWorker: one body at a time, the others wait     *)
(*   stop     stopPersonalWorker: takes no lock; also called inside ensure  *)
(*   renew    renewPersonalWorkerCredential: started by a timer             *)
(*                                                                         *)
(* The worker processes, the managed browser and the credentials of the    *)
(* control plane are the environment those functions act on.               *)
(***************************************************************************)
EXTENDS Naturals, FiniteSets

CONSTANTS
    Workspaces,    \* personal workspaces a user may select
    Engines,       \* agent CLIs the desktop can discover ("codex", ...)
    Needs,         \* the sets of capabilities an ensure call may require
    Procs,         \* identities of the worker processes ever spawned
    Creds,         \* identities of the registration credentials ever minted
    Browsers,      \* identities of the managed browsers ever spawned
    StopSlots,     \* concurrent calls of the stop handler
    RenewSlots,    \* concurrent renewals
    Preinstalled,  \* the CLIs found on PATH when the app starts
    None,          \* "no process", "no credential", "no workspace"
    MaxRequest,    \* bound: ensure calls of the renderer
    MaxStop,       \* bound: stop calls of the renderer
    MaxExit,       \* bound: worker processes that exit on their own
    MaxFail        \* bound: failed steps (network, CLI, CDP, spawn)

Browser == "browser"
Cap == Engines \cup {Browser}

\* What the constants must satisfy.
PersonalWorkerAssumption ==
    /\ Preinstalled \subseteq Engines
    /\ Browser \notin Engines
    /\ Needs \subseteq SUBSET Cap
    /\ {MaxRequest, MaxStop, MaxExit, MaxFail} \subseteq Nat

VARIABLES
    main,         \* personalWorkerProcess
    companions,   \* personalWorkerCompanionProcesses
    workspace,    \* personalWorkerWorkspaceId
    stopping,     \* personalWorkerStopping
    credential,   \* personalWorkerCredential
    lastInput,    \* personalWorkerCredentialInput
    browser,      \* personalWorkerBrowserProcess and its CDP URL
    restart,      \* the restart timers, by the process whose exit armed each
    restartVar,   \* personalWorkerRestartTimer: the timer the code still holds
    renewTimer,   \* personalWorkerCredentialTimer: the input it renews for
    oldTimers,    \* personalWorkerOldCredentialRevokeTimers
    waiting,      \* ensure calls waiting for the one in flight
    ensure,       \* personalWorkerEnsureInFlight: the body that runs
    stops,        \* stop calls, by slot; "inner" is the one ensure awaits
    renews,       \* renewals in flight, by slot
    procs,        \* the worker processes
    alive,        \* the browsers that run
    tokenFile,    \* the token file of each workspace
    issued,       \* server: the state of each credential
    installed,    \* the CLIs on PATH
    held,         \* ghost: the credentials that ever were personalWorkerCredential
    budget        \* what is left of the bounds

supervisor == <<main, companions, workspace, stopping, credential, lastInput>>
timers     == <<restart, restartVar, renewTimer, oldTimers>>
calls      == <<waiting, ensure, stops, renews>>
machine    == <<procs, alive, browser>>
world      == <<machine, tokenFile, issued, installed, held, budget>>
vars       == <<supervisor, timers, calls, world>>

Slots == StopSlots \cup {"inner"}

\* An ensure input: the workspace and requiredCapabilities.
Requests == [ws : Workspaces, need : Needs]

Unborn == [state |-> "unborn", req |-> None, caps |-> {}, cdp |-> None]
Idle   == [pc |-> "idle"]

Up(p)   == procs[p].state = "up"
Live    == {p \in Procs : Up(p)}
\* Identities that were never used are alike: one of them is the next.
NextOf(unused) == {u \in unused : u = CHOOSE v \in unused : TRUE}
FreshProc == NextOf({p \in Procs : procs[p].state = "unborn"})
FreshCred == NextOf({c \in Creds : issued[c] = "none"})
FreshBrowser == NextOf({b \in Browsers : alive[b] = "unborn"})

\* discoverAgentEngineCapabilities: the CLIs the search path gives at this moment.
Discovered == installed

\* personalWorkerRuntime: it is set and cleared together with the process.
RuntimeCaps == IF main = None THEN {} ELSE procs[main].caps

\* runtimeHasRequiredCapabilities
HasRequired(need) == need = {} \/ (main # None /\ need \subseteq RuntimeCaps)

NeedsBrowser(need) == Browser \in need          \* personalWorkerRequiresBrowser

Root_Shared(p) == "base"                \* mutant: one directory for both

\* personalWorkerWorkRoot: browser companions work in a directory of their own.
Root(p) == IF Browser \in procs[p].caps THEN "browser-companion" ELSE "base"

Spend(k) == /\ budget[k] > 0
            /\ budget' = [budget EXCEPT ![k] = @ - 1]

Signal(ps) == [p \in Procs |->
    IF p \in ps /\ Up(p) THEN [procs[p] EXCEPT !.state = "signalled"] ELSE procs[p]]

\* The worker advertises the managed browser of the moment.
UsesBrowser(p) == Browser \in procs[p].caps /\ procs[p].cdp = browser

\* stopPersonalWorkerBrowserRuntime
KillBrowser == IF browser = None THEN alive ELSE [alive EXCEPT ![browser] = "gone"]

Init ==
    /\ main = None /\ companions = {} /\ workspace = None /\ stopping = FALSE
    /\ credential = None /\ lastInput = None /\ browser = None
    /\ restart = [p \in Procs |-> "no"] /\ restartVar = None
    /\ renewTimer = None /\ oldTimers = {}
    /\ waiting = {} /\ ensure = Idle
    /\ stops = [s \in Slots |-> Idle] /\ renews = [s \in RenewSlots |-> Idle]
    /\ procs = [p \in Procs |-> Unborn]
    /\ alive = [b \in Browsers |-> "unborn"]
    /\ tokenFile = [w \in Workspaces |-> None]
    /\ issued = [c \in Creds |-> "none"]
    /\ installed = Preinstalled
    /\ held = {}
    /\ budget = [request |-> MaxRequest, stop |-> MaxStop, exit |-> MaxExit, fail |-> MaxFail]

-----------------------------------------------------------------------------
(* stopPersonalWorker                                                       *)

\* Everything up to the first await; what is cleared at the end is read now.
StopBegin(s) ==
    /\ stopping' = TRUE
    /\ restart' = [p \in Procs |-> IF p = restartVar /\ restart[p] = "set" THEN "cleared" ELSE restart[p]]
    /\ restartVar' = None
    /\ renewTimer' = None
    /\ oldTimers' = {}
    /\ procs' = Signal(companions \cup {main})
    /\ main' = None
    /\ companions' = {}
    /\ alive' = KillBrowser
    /\ browser' = None
    /\ IF workspace = None /\ (credential = None \/ lastInput = None)
       THEN /\ stops' = [stops EXCEPT ![s] = [pc |-> "done"]]
            /\ credential' = None /\ lastInput' = None
            /\ UNCHANGED workspace
       ELSE /\ stops' = [stops EXCEPT ![s] =
                   [pc    |-> IF workspace # None THEN "rm" ELSE "revoke",
                    ws    |-> workspace,
                    cred  |-> IF lastInput = None THEN None ELSE credential]]
            /\ UNCHANGED <<workspace, credential, lastInput>>

\* The token file is gone; the revocation is requested if there is a credential.
StopRemove(s) ==
    /\ stops[s].pc = "rm"
    /\ tokenFile' = [tokenFile EXCEPT ![stops[s].ws] = None]
    /\ stops' = [stops EXCEPT ![s].pc = IF @ = "rm" /\ stops[s].cred # None THEN "revoke" ELSE "clear"]
    /\ UNCHANGED <<supervisor, timers, waiting, ensure, renews, machine, issued, installed, held, budget>>

\* The server revokes the credential, or the request fails and is only logged.
StopRevoke(s) ==
    /\ stops[s].pc = "revoke"
    /\ \/ issued' = [issued EXCEPT ![stops[s].cred] = "revoked"] /\ UNCHANGED budget
       \/ Spend("fail") /\ UNCHANGED issued
    /\ stops' = [stops EXCEPT ![s].pc = "clear"]
    /\ UNCHANGED <<supervisor, timers, waiting, ensure, renews, machine, tokenFile, installed, held>>

\* The assignments after the last await, whatever happened in between.
StopFinish(s) ==
    /\ stops[s].pc = "clear"
    /\ workspace' = None
    /\ credential' = None
    /\ lastInput' = None
    /\ stops' = [stops EXCEPT ![s] = [pc |-> "done"]]
    /\ UNCHANGED <<main, companions, stopping, timers, waiting, ensure, renews, world>>

\* The renderer signs out or switches the server.
Stop(s) ==
    /\ s \in StopSlots
    /\ stops[s].pc = "idle"
    /\ Spend("stop")
    /\ StopBegin(s)
    /\ UNCHANGED <<waiting, ensure, renews, tokenFile, issued, installed, held>>

StopAnswered(s) ==
    /\ s \in StopSlots
    /\ stops[s].pc = "done"
    /\ stops' = [stops EXCEPT ![s] = Idle]
    /\ UNCHANGED <<supervisor, timers, waiting, ensure, renews, world>>

-----------------------------------------------------------------------------
(* ensurePersonalWorker                                                     *)

\* The renderer asks for a worker (after sign-in, or before an agent turn).
Ask(r) ==
    /\ Spend("request")
    /\ waiting' = waiting \cup {r}
    /\ UNCHANGED <<supervisor, timers, ensure, stops, renews, machine, tokenFile, issued, installed, held>>

\* while (personalWorkerEnsureInFlight) await ...: one body at a time.
EnsureBegin(r) ==
    /\ r \in waiting
    /\ ensure.pc = "idle"
    /\ waiting' = waiting \ {r}
    /\ ensure' = [pc |-> "host", req |-> r]
    /\ UNCHANGED <<supervisor, timers, stops, renews, world>>

Found(need) == (need \cap Engines) \subseteq Discovered   \* assertRequestedAgentExecutables

\* A throw: the caller gets the error, the next waiter may run.
EnsureThrow == ensure' = Idle

\* A required CLI (or the Codex login) is missing.
EnsureRefused ==
    /\ ensure.pc = "host"
    /\ \/ ~Found(ensure.req.need) /\ UNCHANGED budget
       \/ "codex" \in ensure.req.need /\ Spend("fail")
    /\ EnsureThrow
    /\ UNCHANGED <<supervisor, timers, waiting, stops, renews, machine, tokenFile, issued, installed, held>>

\* The current worker will do.
EnsureRunning ==
    /\ ensure.pc = "host"
    /\ Found(ensure.req.need)
    /\ main # None /\ workspace = ensure.req.ws /\ HasRequired(ensure.req.need)
    /\ lastInput' = ensure.req
    /\ renewTimer' = IF credential # None THEN ensure.req ELSE renewTimer
    /\ ensure' = Idle
    /\ UNCHANGED <<main, companions, workspace, stopping, credential, restart, restartVar, oldTimers,
                   waiting, stops, renews, world>>

CompanionServes(r) ==
    /\ main = None /\ workspace = r.ws
    /\ companions # {} /\ ~NeedsBrowser(r.need)

\* A base worker that a browser upgrade left behind will do.
EnsureCompanion ==
    /\ ensure.pc = "host"
    /\ Found(ensure.req.need)
    /\ CompanionServes(ensure.req)
    /\ ensure' = Idle
    /\ UNCHANGED <<supervisor, timers, waiting, stops, renews, world>>

Upgrading(r) == main # None /\ workspace = r.ws

\* preparePersonalWorkerRuntime: an ordinary worker has nothing to prepare, one
\* with a browser tries the managed one first.
Prepare(r) == IF ~NeedsBrowser(r.need) THEN "ready" ELSE IF browser = None THEN "pick" ELSE "probe"

\* A worker must be started: beside the current one, after stopping that of
\* another workspace, or as the first.
EnsureStart ==
    /\ ensure.pc = "host"
    /\ LET r == ensure.req
           replace == main # None \/ workspace \notin {None, r.ws}
           stop    == ~Upgrading(r) /\ replace
       IN  /\ Found(r.need)
           /\ ~(Upgrading(r) /\ HasRequired(r.need))
           /\ ~CompanionServes(r)
           /\ ensure' = [pc |-> IF stop THEN "stop" ELSE Prepare(r), req |-> r,
                         up |-> Upgrading(r), prev |-> IF Upgrading(r) THEN main ELSE None,
                         caps |-> Discovered, cdp |-> browser, cred |-> None, tries |-> 0]
           /\ IF stop
              THEN StopBegin("inner") /\ UNCHANGED <<tokenFile, issued, installed, held, budget>>
              ELSE UNCHANGED <<supervisor, timers, stops, world>>
           /\ UNCHANGED <<waiting, renews>>

\* await stopPersonalWorker() inside ensure has returned.
EnsureStopped ==
    /\ ensure.pc = "stop"
    /\ stops["inner"].pc = "done"
    /\ stops' = [stops EXCEPT !["inner"] = Idle]
    /\ ensure' = [ensure EXCEPT !.pc = Prepare(ensure.req), !.cdp = browser]
    /\ UNCHANGED <<supervisor, timers, waiting, renews, world>>

\* isChromeCdpReachable answers for the managed browser.  The URL is read from
\* the variable again, which a stop may have emptied in the meantime.
ProbeAnswered ==
    /\ ensure.pc = "probe"
    /\ alive[ensure.cdp] = "up"
    /\ ensure' = [ensure EXCEPT !.pc = IF ensure.up THEN "recheck" ELSE "ready",
                                !.caps = @ \cup {Browser}, !.cdp = browser]
    /\ UNCHANGED <<supervisor, timers, waiting, stops, renews, world>>

\* It does not answer: what is left of it is stopped.
ProbeFailed ==
    /\ ensure.pc = "probe"
    /\ alive[ensure.cdp] # "up"
    /\ alive' = KillBrowser
    /\ browser' = None
    /\ ensure' = [ensure EXCEPT !.pc = "pick", !.cdp = None]
    /\ UNCHANGED <<supervisor, timers, waiting, stops, renews, procs, tokenFile, issued, installed, held, budget>>

\* Chrome is spawned, then Electron.
Launch(b) ==
    /\ ensure.pc = "pick"
    /\ ensure.tries < 2
    /\ b \in FreshBrowser
    /\ alive' = [alive EXCEPT ![b] = "starting"]
    /\ browser' = b
    /\ ensure' = [ensure EXCEPT !.pc = "launch", !.cdp = b, !.tries = @ + 1]
    /\ UNCHANGED <<supervisor, timers, waiting, stops, renews, procs, tokenFile, issued, installed, held, budget>>

\* waitForChromeCdp has seen the browser.
LaunchReady ==
    /\ ensure.pc = "launch"
    /\ alive[ensure.cdp] = "starting"
    /\ alive' = [alive EXCEPT ![ensure.cdp] = "up"]
    /\ ensure' = [ensure EXCEPT !.pc = IF ensure.up THEN "recheck" ELSE "ready", !.caps = @ \cup {Browser}]
    /\ UNCHANGED <<supervisor, timers, waiting, stops, renews, procs, browser, tokenFile, issued, installed, held, budget>>

\* It timed out, exited or was killed by a stop.
LaunchFailed ==
    /\ ensure.pc = "launch"
    /\ \/ alive[ensure.cdp] = "starting" /\ Spend("fail")
       \/ alive[ensure.cdp] = "gone" /\ UNCHANGED budget
    /\ alive' = [alive EXCEPT ![ensure.cdp] = "gone"]
    /\ browser' = IF browser = ensure.cdp THEN None ELSE browser
    /\ ensure' = [ensure EXCEPT !.pc = "pick", !.cdp = None]
    /\ UNCHANGED <<supervisor, timers, waiting, stops, renews, procs, tokenFile, issued, installed, held>>

\* No candidate is left: assertPersonalWorkerCapabilities throws.
NoBrowser ==
    /\ ensure.pc = "pick"
    /\ ensure.tries = 2 \/ FreshBrowser = {}
    /\ EnsureThrow
    /\ UNCHANGED <<supervisor, timers, waiting, stops, renews, world>>

\* An upgrade asks the CDP once more before it commits.
RecheckPassed ==
    /\ ensure.pc = "recheck"
    /\ ensure.cdp # None /\ alive[ensure.cdp] = "up"
    /\ ensure' = [ensure EXCEPT !.pc = "ready"]
    /\ UNCHANGED <<supervisor, timers, waiting, stops, renews, world>>

RecheckFailed ==
    /\ ensure.pc = "recheck"
    /\ ensure.cdp = None \/ alive[ensure.cdp] # "up"
    /\ alive' = KillBrowser
    /\ browser' = None
    /\ EnsureThrow
    /\ UNCHANGED <<supervisor, timers, waiting, stops, renews, procs, tokenFile, issued, installed, held, budget>>

\* The credential to start with: the current one when the worker is upgraded,
\* or when the workspace still has its token file.
Reusable ==
    IF ensure.up \/ (workspace = ensure.req.ws /\ tokenFile[ensure.req.ws] # None)
    THEN credential ELSE None

\* The worker an upgrade leaves running.
LeftBehind_Dropped == {}                \* mutant: it is not added to the set

LeftBehind == IF ensure.prev = None THEN {} ELSE {ensure.prev}

\* startPersonalWorkerProcess and the statements around it.
Spawn(cred) ==
    \E p \in FreshProc :
        /\ credential' = cred
        /\ held' = held \cup {cred}
        /\ companions' = companions \cup LeftBehind
        /\ stopping' = FALSE
        /\ main' = p
        /\ procs' = [procs EXCEPT ![p] = [state |-> "up", req |-> ensure.req, caps |-> ensure.caps,
                                          cdp |-> IF Browser \in ensure.caps THEN ensure.cdp ELSE None]]
        /\ renewTimer' = ensure.req
        /\ ensure' = Idle
        /\ UNCHANGED <<alive, browser, budget>>

\* The spawn throws: the previous worker is put back and the browser stopped.
SpawnThrows(cred) ==
    /\ Spend("fail")
    /\ credential' = cred
    /\ held' = held \cup {cred}
    /\ companions' = companions \ {ensure.prev}
    /\ main' = IF ensure.prev = None THEN main ELSE ensure.prev
    /\ stopping' = FALSE
    /\ alive' = KillBrowser
    /\ browser' = None
    /\ EnsureThrow
    /\ UNCHANGED <<procs, renewTimer>>

\* From the prepared runtime to the next await: a credential at hand starts the
\* worker at once, otherwise one is asked for.
EnsureCommit ==
    /\ ensure.pc = "ready"
    /\ workspace' = ensure.req.ws
    /\ lastInput' = ensure.req
    /\ IF Reusable # None
       THEN Spawn(Reusable) \/ SpawnThrows(Reusable)
       ELSE /\ stopping' = FALSE
            /\ ensure' = [ensure EXCEPT !.pc = "mint"]
            /\ UNCHANGED <<main, companions, credential, renewTimer, machine, held, budget>>
    /\ UNCHANGED <<restart, restartVar, oldTimers, waiting, stops, renews, tokenFile, issued, installed>>

\* createWorkerBootstrapCredential answers, or the request fails.
EnsureMint ==
    /\ ensure.pc = "mint"
    /\ \/ /\ \E c \in FreshCred :
                /\ issued' = [issued EXCEPT ![c] = "live"]
                /\ ensure' = [ensure EXCEPT !.pc = "write", !.cred = c]
          /\ UNCHANGED budget
       \/ Spend("fail") /\ EnsureThrow /\ UNCHANGED issued
    /\ UNCHANGED <<supervisor, timers, waiting, stops, renews, machine, tokenFile, installed, held>>

\* writePersonalWorkerTokenFile has renamed the file: the worker is started.
EnsureWrite ==
    /\ ensure.pc = "write"
    /\ tokenFile' = [tokenFile EXCEPT ![ensure.req.ws] = ensure.cred]
    /\ Spawn(ensure.cred) \/ SpawnThrows(ensure.cred)
    /\ UNCHANGED <<workspace, lastInput, restart, restartVar, oldTimers, waiting, stops, renews, issued, installed>>

EnsureWriteFails ==
    /\ ensure.pc = "write"
    /\ Spend("fail")
    /\ EnsureThrow
    /\ UNCHANGED <<supervisor, timers, waiting, stops, renews, machine, tokenFile, issued, installed, held>>

-----------------------------------------------------------------------------
(* Credentials: renewal, and the revocation of what was replaced            *)

\* The timer of schedulePersonalWorkerCredentialTimer fires; the renewal is for
\* the workspace in use or not at all.
RenewBegin(s) ==
    /\ renewTimer # None
    /\ renews[s].pc = "idle"
    /\ FreshCred # {}
    /\ renewTimer' = None
    /\ renews' = IF workspace = renewTimer.ws
                 THEN [renews EXCEPT ![s] = [pc |-> "mint", req |-> renewTimer, prev |-> credential, next |-> None]]
                 ELSE renews
    /\ UNCHANGED <<supervisor, restart, restartVar, oldTimers, waiting, ensure, stops, world>>

\* The catch of the timer: try again in a minute, unless stopped or switched.
RenewFailed(s) ==
    /\ Spend("fail")
    /\ renewTimer' = IF ~stopping /\ workspace = renews[s].req.ws THEN renews[s].req ELSE renewTimer
    /\ renews' = [renews EXCEPT ![s] = Idle]

RenewMint(s) ==
    /\ renews[s].pc = "mint"
    /\ \/ /\ \E c \in FreshCred :
                /\ issued' = [issued EXCEPT ![c] = "live"]
                /\ renews' = [renews EXCEPT ![s].pc = "write", ![s].next = c]
          /\ UNCHANGED <<renewTimer, budget>>
       \/ RenewFailed(s) /\ UNCHANGED issued
    /\ UNCHANGED <<supervisor, restart, restartVar, oldTimers, waiting, ensure, stops, machine, tokenFile, installed, held>>

\* The credential a renewal replaced, to be revoked later.
Replaced_Unchecked(e) == {e.prev}       \* mutant: the missing id is not looked for
Replaced_Next(e) == {e.next}            \* mutant: the wrong one of the two
Replaced_Dropped(e) == {}               \* mutant: no timer

Replaced(e) == IF e.prev = None THEN {} ELSE {e.prev}

\* The new token is in the file: it becomes the credential, and the one it
\* replaces is to be revoked after the grace period.
RenewWrite(s) ==
    /\ renews[s].pc = "write"
    /\ LET e == renews[s] IN
       \/ /\ tokenFile' = [tokenFile EXCEPT ![e.req.ws] = e.next]
          /\ credential' = e.next
          /\ held' = held \cup {e.next}
          /\ renewTimer' = e.req
          /\ oldTimers' = oldTimers \cup Replaced(e)
          /\ renews' = [renews EXCEPT ![s] = Idle]
          /\ UNCHANGED budget
       \/ RenewFailed(s) /\ UNCHANGED <<tokenFile, credential, held, oldTimers>>
    /\ UNCHANGED <<main, companions, workspace, stopping, lastInput, restart, restartVar, waiting, ensure, stops,
                   machine, issued, installed>>

\* The grace period is over; a failed revocation is logged and not repeated.
RevokeOld(o) ==
    /\ o \in oldTimers
    /\ oldTimers' = oldTimers \ {o}
    /\ \/ issued' = [issued EXCEPT ![o] = "revoked"] /\ UNCHANGED budget
       \/ issued' = [issued EXCEPT ![o] = IF @ = "live" THEN "given up" ELSE @] /\ Spend("fail")
    /\ UNCHANGED <<supervisor, restart, restartVar, renewTimer, calls, machine, tokenFile, installed, held>>

-----------------------------------------------------------------------------
(* Worker processes, browsers, the machine                                  *)

\* The exit is neither asked for nor that of a worker already replaced.
RestartDue_Companion(p) == main # p /\ ~stopping    \* mutant: the wrong process returns early

RestartDue(p) == main = p /\ ~stopping /\ workspace = procs[p].req.ws

\* The exit handler: the process that was the current one is restarted later.
WorkerExit(p) ==
    /\ \/ Up(p) /\ Spend("exit")
       \/ procs[p].state = "signalled" /\ UNCHANGED budget
    /\ procs' = [procs EXCEPT ![p].state = "gone"]
    /\ companions' = companions \ {p}
    /\ main' = IF main = p THEN None ELSE main
    /\ IF RestartDue(p)
       THEN restart' = [restart EXCEPT ![p] = "set"] /\ restartVar' = p
       ELSE UNCHANGED <<restart, restartVar>>
    /\ UNCHANGED <<workspace, stopping, credential, lastInput, renewTimer, oldTimers, calls,
                   alive, browser, tokenFile, issued, installed, held>>

RestartFires(p) ==
    /\ restart[p] = "set"
    /\ restart' = [restart EXCEPT ![p] = "fired"]
    /\ waiting' = waiting \cup {procs[p].req}
    /\ UNCHANGED <<supervisor, restartVar, renewTimer, oldTimers, ensure, stops, renews, world>>

\* refreshPersonalWorkerAfterBrowserLoss
Refreshed_Any(b) == IF main = None THEN {} ELSE {main}    \* mutant: any worker is restarted

Refreshed(b) == IF browser = b /\ main # None /\ ~stopping /\ UsesBrowser(main) THEN {main} ELSE {}

\* The managed browser exits: the worker that advertises it is restarted.
BrowserExit(b) ==
    /\ alive[b] \in {"starting", "up"}
    /\ Spend("exit")
    /\ alive' = [alive EXCEPT ![b] = "gone"]
    /\ browser' = IF browser = b THEN None ELSE browser
    /\ procs' = Signal(Refreshed(b))
    /\ UNCHANGED <<supervisor, timers, calls, tokenFile, issued, installed, held>>

\* The user installs an agent CLI.
Install(e) ==
    /\ e \notin installed
    /\ installed' = installed \cup {e}
    /\ UNCHANGED <<supervisor, timers, calls, machine, tokenFile, issued, held, budget>>

-----------------------------------------------------------------------------

EnsureStep ==
    \/ \E r \in waiting : EnsureBegin(r)
    \/ EnsureRefused \/ EnsureRunning \/ EnsureCompanion \/ EnsureStart \/ EnsureStopped
    \/ ProbeAnswered \/ ProbeFailed \/ \E b \in Browsers : Launch(b)
    \/ LaunchReady \/ LaunchFailed \/ NoBrowser \/ RecheckPassed \/ RecheckFailed
    \/ EnsureMint \/ EnsureWrite \/ EnsureWriteFails

StopStep(s) == StopRemove(s) \/ StopRevoke(s) \/ StopFinish(s) \/ StopAnswered(s)

RenewStep(s) == RenewMint(s) \/ RenewWrite(s)

\* What the event loop may run next when no continuation is due.
Event ==
    \/ \E r \in Requests : Ask(r)
    \/ EnsureStep
    \/ \E s \in Slots : Stop(s) \/ StopStep(s)
    \/ \E s \in RenewSlots : RenewBegin(s) \/ RenewStep(s)
    \/ \E o \in oldTimers : RevokeOld(o)
    \/ \E p \in Procs : WorkerExit(p) \/ RestartFires(p)
    \/ \E b \in Browsers : BrowserExit(b)
    \/ \E e \in Engines : Install(e)

\* An await on a promise that is already settled lets no event in: a body that
\* is "ready" goes on before any of them.
Next == IF ensure.pc = "ready" THEN EnsureCommit ELSE Event

Spec == Init /\ [][Next]_vars

\* What the runtime guarantees: due continuations and timers run, processes that
\* got SIGTERM exit.  Renewals and the user's calls need not come.
Fairness ==
    /\ WF_vars(EnsureCommit)
    /\ WF_vars(Event /\ EnsureStep)
    /\ \A s \in Slots : WF_vars(Event /\ StopStep(s))
    /\ \A s \in RenewSlots : WF_vars(Event /\ RenewStep(s))
    /\ \A p \in Procs : WF_vars(Event /\ RestartFires(p))
    /\ \A p \in Procs : WF_vars(Event /\ procs[p].state = "signalled" /\ WorkerExit(p))

FairSpec == Spec /\ Fairness

-----------------------------------------------------------------------------
(* Properties                                                               *)

\* Every variable has its type.
TypeOK ==
    /\ main \in Procs \cup {None}
    /\ companions \subseteq Procs
    /\ workspace \in Workspaces \cup {None}
    /\ stopping \in BOOLEAN
    /\ credential \in Creds \cup {None}
    /\ browser \in Browsers \cup {None}
    /\ restart \in [Procs -> {"no", "set", "fired", "cleared"}]
    /\ restartVar \in Procs \cup {None}
    /\ oldTimers \subseteq Creds
    /\ waiting \subseteq Requests
    /\ tokenFile \in [Workspaces -> Creds \cup {None}]
    /\ installed \subseteq Engines
    /\ held \subseteq Creds

\* The supervisor never loses a worker it has not told to stop: every process
\* that runs unsignalled is the current one or a companion, so the next stop
\* reaches it, whatever stops, exits and failed spawns came between the checks
\* of an ensure and its spawn.
NoWorkerLost == \A p \in Procs : Up(p) => p = main \/ p \in companions

\* Two workers never share a work root: a browser companion runs beside the
\* base worker in a directory of its own, and no interleaving of ensure calls,
\* stops and restarts starts a second base worker or a second companion.
OneWorkerPerRoot == \A p, q \in Live : Root(p) = Root(q) => p = q

\* Preparing or losing a browser interrupts no task of an ordinary worker: the
\* only step that signals one is a stop, which drops all of them together.
BrowserSparesOthers ==
    \A p \in Procs : (Up(p) /\ procs'[p].state = "signalled" /\ ~UsesBrowser(p))
                          => stopping' /\ main' = None /\ companions' = {}

\* A worker reads its token file before each call: what it finds there is a
\* credential the server accepts, through renewals, the delayed revocation of
\* replaced credentials, upgrades and restarts.
TokenFileUsable ==
    \A p \in Live : LET c == tokenFile[procs[p].req.ws] IN c # None /\ issued[c] = "live"

\* A credential that was in use and has been replaced is revoked: it has a timer
\* pending, or a stop that is about to revoke it.
ReplacedIsRevoked ==
    \A c \in held : issued[c] = "live" =>
        \/ c = credential
        \/ c \in oldTimers
        \/ \E s \in Slots : stops[s].pc \in {"rm", "revoke"} /\ stops[s].cred = c

\* At rest, a worker that runs is one the renewal timer works for.
LiveWorkerIsRenewed ==
    (ensure.pc = "idle" /\ \A s \in Slots : stops[s].pc = "idle") =>
        \A p \in Live : workspace = procs[p].req.ws

\* An ensure call that answers "running" has a worker process to show for it.
AnsweredRunning ==
    [][(EnsureRunning \/ EnsureCompanion) => \E p \in Procs : procs[p].state \in {"up", "signalled"}]_vars
=============================================================================
