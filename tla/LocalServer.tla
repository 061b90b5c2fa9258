---------------------------- MODULE LocalServer ----------------------------
(***************************************************************************)
(* The local server of the desktop's main process                          *)
(* (apps/desktop/src/main/server-manager.ts and the handlers of index.ts   *)
(* that use it).  ensureServerStarted is async and takes no lock: calls of *)
(* it interleave with one another, with the interval that waits for the    *)
(* server, with the exit handlers of server processes and with the user    *)
(* who switches between the local and a remote server.                     *)
(***************************************************************************)
EXTENDS Naturals, FiniteSets

CONSTANTS
    Procs,      \* identities of the server processes ever spawned
    Calls,      \* concurrent calls of ensureServerStarted
    None,
    Packaged,   \* app.isPackaged
    StaleAtStart, \* an older server listens on the port when the app starts
    MaxCall,    \* bound: calls
    MaxSwitch,  \* bound: changes of the configured server
    MaxFail     \* bound: servers that crash, or cannot be spawned

Foreign == "foreign"   \* the older server

\* What the constants must satisfy.
LocalServerAssumption ==
    Packaged \in BOOLEAN /\ StaleAtStart \in BOOLEAN /\ {MaxCall, MaxSwitch, MaxFail} \subseteq Nat

VARIABLES
    remote,         \* hasConfiguredRemoteServer
    serverProcess,  \* serverProcess
    starting,       \* starting: the promise, named by the process it waits for
    promise,        \* the state of each such promise
    interval,       \* the intervals that are not cleared
    procs,          \* the server processes
    port,           \* who listens on the local port
    call,           \* the calls of ensureServerStarted
    budget

vars == <<remote, serverProcess, starting, promise, interval, procs, port, call, budget>>

Idle == [pc |-> "idle", on |-> None]
Fresh == {p \in Procs : procs[p] = "unborn"}
Healthy == port \in Procs                        \* hasExpectedServerCapabilities

Spend(k) == budget[k] > 0 /\ budget' = [budget EXCEPT ![k] = @ - 1]

Init ==
    /\ remote = FALSE /\ serverProcess = None /\ starting = None
    /\ promise = [p \in Procs |-> "none"] /\ interval = {}
    /\ procs = [p \in Procs |-> "unborn"]
    /\ port = IF StaleAtStart THEN Foreign ELSE None
    /\ call = [c \in Calls |-> Idle]
    /\ budget = [call |-> MaxCall, switch |-> MaxSwitch, fail |-> MaxFail]

At(c, pc) == call[c].pc = pc
Goes_Keeps(c, pc) == call' = [call EXCEPT ![c].pc = pc]   \* mutant: the old promise is kept

Goes(c, pc) == call' = [call EXCEPT ![c] = [pc |-> pc, on |-> None]]

\* The app starts, or the user goes back to the local server.
Ensure(c) ==
    /\ At(c, "idle") /\ Spend("call")
    /\ Goes(c, "probe")
    /\ UNCHANGED <<remote, serverProcess, starting, promise, interval, procs, port>>

\* fetchReadiness has answered: the server of the configured address is ready.
ProbeReady(c) ==
    /\ At(c, "probe") /\ (remote \/ Healthy)
    /\ Goes(c, "ok")
    /\ UNCHANGED <<remote, serverProcess, starting, promise, interval, procs, port, budget>>

\* It does not answer, or a remote one answers nothing useful.
ProbeUnavailable(c) ==
    /\ At(c, "probe") /\ (remote \/ port = None)
    /\ Goes(c, "unavailable")
    /\ UNCHANGED <<remote, serverProcess, starting, promise, interval, procs, port, budget>>

Spared_Never(c) == FALSE                 \* mutant: the packaged app is not told apart

Spared(c) == Packaged

\* An old server answers: it is none of a packaged app's business, otherwise
\* the processes on the port get SIGTERM.
ProbeStale(c) ==
    /\ At(c, "probe") /\ ~remote /\ port = Foreign
    /\ IF Spared(c) THEN Goes(c, "failed") /\ UNCHANGED port
                    ELSE Goes(c, "killing") /\ port' \in {None, Foreign}
    /\ UNCHANGED <<remote, serverProcess, starting, promise, interval, procs, budget>>

\* The port is free, or whatever still listens after three seconds gets SIGKILL.
StaleStopped(c) ==
    /\ At(c, "killing")
    /\ port' = None
    /\ procs' = [p \in Procs |-> IF p = port THEN "killed" ELSE procs[p]]
    /\ Goes(c, "unavailable")
    /\ UNCHANGED <<remote, serverProcess, starting, promise, interval, budget>>

\* The configuration changed while the probe was under way.
RefuseRemote(c) ==
    /\ At(c, "unavailable") /\ remote
    /\ Goes(c, "failed")
    /\ UNCHANGED <<remote, serverProcess, starting, promise, interval, procs, port, budget>>

\* Somebody else is starting it: wait for the same promise.
Join(c) ==
    /\ At(c, "unavailable") /\ ~remote /\ starting # None
    /\ call' = [call EXCEPT ![c] = [pc |-> "wait", on |-> starting]]
    /\ UNCHANGED <<remote, serverProcess, starting, promise, interval, procs, port, budget>>

\* The executor of the new promise spawns the server and sets the interval.
Launch(c) ==
    /\ At(c, "unavailable") /\ ~remote /\ starting = None
    /\ \E p \in Fresh :
        /\ procs' = [procs EXCEPT ![p] = "booting"]
        /\ serverProcess' = p
        /\ starting' = p
        /\ promise' = [promise EXCEPT ![p] = "pending"]
        /\ interval' = interval \cup {p}
        /\ call' = [call EXCEPT ![c] = [pc |-> "wait", on |-> p]]
    /\ UNCHANGED <<remote, port, budget>>

\* The awaited promise has settled.
Settled(c) ==
    /\ At(c, "wait") /\ promise[call[c].on] # "pending"
    /\ Goes(c, IF promise[call[c].on] = "resolved" THEN "ok" ELSE "failed")
    /\ UNCHANGED <<remote, serverProcess, starting, promise, interval, procs, port, budget>>

Return(c) ==
    /\ call[c].pc \in {"ok", "failed"}
    /\ Goes(c, "idle")
    /\ UNCHANGED <<remote, serverProcess, starting, promise, interval, procs, port, budget>>

\* A tick of the interval finds a server that answers, or is past the deadline.
\* Either way starting is emptied, whichever start it belongs to.
Tick_Keeps(p) == starting' = starting              \* mutant: starting is not reset

Tick(p) == starting' = None

IntervalEnds(p) ==
    /\ p \in interval
    /\ interval' = interval \ {p}
    /\ Tick(p)
    /\ promise' = IF promise[p] # "pending" THEN promise
                  ELSE [promise EXCEPT ![p] = IF remote \/ Healthy THEN "resolved" ELSE "rejected"]
    /\ UNCHANGED <<remote, serverProcess, procs, port, call, budget>>

\* The server opens its port, unless another holds it.
Listen(p) ==
    /\ procs[p] = "booting" /\ port = None
    /\ procs' = [procs EXCEPT ![p] = "listening"]
    /\ port' = p
    /\ UNCHANGED <<remote, serverProcess, starting, promise, interval, call, budget>>

Cleared_OnExit(p) == interval \ {p}     \* mutant: the handler clears the interval as well

Cleared(p) == interval

\* The exit handler: whichever process exited, both variables are emptied.
Exit(p) ==
    /\ \/ procs[p] \in {"killed", "signalled"} /\ UNCHANGED budget
       \/ procs[p] = "booting" /\ port # None /\ UNCHANGED budget
       \/ procs[p] \in {"booting", "listening"} /\ Spend("fail")
    /\ procs' = [procs EXCEPT ![p] = "gone"]
    /\ port' = IF port = p THEN None ELSE port
    /\ serverProcess' = None
    /\ starting' = None
    /\ interval' = Cleared(p)
    /\ UNCHANGED <<remote, promise, call>>

\* mspace:set-server-base-url with a remote address: stopServer.
SwitchRemote ==
    /\ ~remote /\ Spend("switch")
    /\ remote' = TRUE
    /\ serverProcess' = None
    /\ procs' = [p \in Procs |-> IF p = serverProcess /\ procs[p] \in {"booting", "listening"}
                                 THEN "signalled" ELSE procs[p]]
    /\ UNCHANGED <<starting, promise, interval, port, call>>

\* Back to the default address: the file is removed and the server ensured.
SwitchLocal(c) ==
    /\ remote /\ At(c, "idle") /\ Spend("switch")
    /\ remote' = FALSE
    /\ Goes(c, "probe")
    /\ UNCHANGED <<serverProcess, starting, promise, interval, procs, port>>

CallStep(c) ==
    \/ ProbeReady(c) \/ ProbeUnavailable(c) \/ ProbeStale(c) \/ StaleStopped(c)
    \/ RefuseRemote(c) \/ Join(c) \/ Launch(c) \/ Settled(c) \/ Return(c)

Next ==
    \/ \E c \in Calls : Ensure(c) \/ CallStep(c) \/ SwitchLocal(c)
    \/ \E p \in Procs : IntervalEnds(p) \/ Listen(p) \/ Exit(p)
    \/ SwitchRemote

Spec == Init /\ [][Next]_vars

\* Awaited answers come, intervals tick until their deadline, a process that was
\* told to exit exits.
Fairness ==
    /\ \A c \in Calls : WF_vars(CallStep(c))
    /\ \A p \in Procs : WF_vars(IntervalEnds(p)) /\ WF_vars(Listen(p))
    /\ \A p \in Procs : WF_vars(procs[p] \in {"killed", "signalled"} /\ Exit(p))

FairSpec == Spec /\ Fairness

-----------------------------------------------------------------------------

\* Every variable has its type.
TypeOK ==
    /\ remote \in BOOLEAN
    /\ serverProcess \in Procs \cup {None} /\ starting \in Procs \cup {None}
    /\ promise \in [Procs -> {"none", "pending", "resolved", "rejected"}]
    /\ interval \subseteq Procs
    /\ procs \in [Procs -> {"unborn", "booting", "listening", "signalled", "killed", "gone"}]
    /\ port \in Procs \cup {None, Foreign}
    /\ call \in [Calls -> [pc : {"idle", "probe", "killing", "unavailable", "wait", "ok", "failed"},
                           on : Procs \cup {None}]]
    /\ \A c \in Calls : (call[c].pc = "wait") = (call[c].on # None)

\* Whoever finds starting set joins a start that can still succeed: the answer
\* of an earlier start is never handed to a later caller.
StartingIsPending == starting # None => promise[starting] = "pending" /\ starting \in interval

\* A packaged app kills nothing it did not start.
ForeignSpared == port = Foreign => port' = Foreign

\* The local server is started only when nothing healthy answers at the address.
StartsOnlyIfNeeded == [][\A p \in Procs : procs[p] = "unborn" /\ procs'[p] = "booting" => ~Healthy]_vars
=============================================================================
