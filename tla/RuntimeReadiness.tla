-------------------------- MODULE RuntimeReadiness --------------------------
(***************************************************************************)
(* ensureRuntimeReady (packages/views/src/runtime-worker-readiness.ts) of  *)
(* a personal workspace, with its two kinds of callers: the shell, once    *)
(* per sign-in (apps/desktop/src/renderer/src/main.tsx), and the preflight *)
(* of an agent session or a test run.  The server answers from the rows    *)
(* its workers' heartbeats left; the desktop starts the worker process.    *)
(***************************************************************************)
EXTENDS Integers, FiniteSets

CONSTANTS
    Preflights,    \* preflights under way at the same time
    OtherHost,     \* a worker of the workspace runs on another machine, too
    Blocked,       \* the server may answer that the working copy is blocked
    Age,           \* activeWorkerMaxAge, in ticks
    MaxAttempts,   \* maxAttempts of the poll loop
    MaxClock, MaxSign, MaxRun, MaxExit   \* bounds

\* What the constants must satisfy.
RuntimeReadinessAssumption ==
    /\ OtherHost \in BOOLEAN /\ Blocked \in BOOLEAN
    /\ {Age, MaxAttempts, MaxClock, MaxSign, MaxRun, MaxExit} \subseteq Nat

Shell == "shell"
Slots == Preflights \cup {Shell}
Never == -1

VARIABLES
    clock,
    row,       \* the server's row of this host's worker
    other,     \* when the other host's worker was last seen
    proc,      \* the worker process of the desktop: none, booting or alive
    leaving,   \* a process that was told to stop has yet to say "offline"
    session,   \* which sign-in this is, 0 when signed out
    effect,    \* the shell's effect of this sign-in has yet to run
    inflight,  \* personalWorkerReadinessInFlightKey is set
    call,      \* the calls of ensureRuntimeReady
    asked,     \* ghost: the desktop was asked for a worker since this sign-in
    budget

vars == <<clock, row, other, proc, leaving, session, effect, inflight, call, asked, budget>>

Spend(k) == budget[k] > 0 /\ budget' = [budget EXCEPT ![k] = @ - 1]
Nothing == [ready |-> FALSE, blocked |-> FALSE, seen |-> Never]
Rest == [pc |-> "idle", by |-> 0, first |-> Nothing, status |-> "none", left |-> 0, since |-> 0]

Init ==
    /\ clock = 0
    /\ row \in [online : BOOLEAN, seen : {Never, 0}]
    /\ other = IF OtherHost THEN 0 ELSE Never
    /\ proc = "none" /\ leaving = FALSE
    /\ session = 1 /\ effect = TRUE /\ inflight = FALSE
    /\ call = [c \in Slots |-> Rest]
    /\ asked = FALSE
    /\ budget = [sign |-> MaxSign, run |-> MaxRun, exit |-> MaxExit]

-----------------------------------------------------------------------------
\* The server and the worker processes.

Fresh(seen) == seen # Never /\ clock - seen <= Age
Seen == {s \in {other} \cup (IF row.online THEN {row.seen} ELSE {}) : Fresh(s)}

\* evaluateRuntimeAvailability: the newest worker that is online and fresh.
Availability ==
    [ready |-> Seen # {}, blocked |-> FALSE,
     seen |-> IF Seen = {} THEN Never ELSE CHOOSE s \in Seen : \A t \in Seen : t <= s]

Answers == {Availability} \cup IF Blocked THEN {[Nothing EXCEPT !.blocked = TRUE]} ELSE {}

Tick ==
    /\ clock < MaxClock
    /\ clock' = clock + 1
    /\ UNCHANGED <<row, other, proc, leaving, session, effect, inflight, call, asked, budget>>

Stamp_Ahead == clock + 1                                 \* mutant: a stamp of the future

\* worker.LastSeenAt: whole seconds of the server's clock.
Stamp == clock

\* Registration, then heartbeats.
Beat ==
    /\ proc # "none" /\ (proc = "booting" \/ row.seen < clock \/ ~row.online)
    /\ proc' = "alive"
    /\ row' = [online |-> TRUE, seen |-> Stamp]
    /\ UNCHANGED <<clock, other, leaving, session, effect, inflight, call, asked, budget>>

OtherBeat ==
    /\ OtherHost /\ other < clock
    /\ other' = clock
    /\ UNCHANGED <<clock, row, proc, leaving, session, effect, inflight, call, asked, budget>>

\* A process that was told to stop says so, or is killed before.
Offline ==
    /\ leaving
    /\ leaving' = FALSE
    /\ row' \in {row, [online |-> FALSE, seen |-> clock]}
    /\ UNCHANGED <<clock, other, proc, session, effect, inflight, call, asked, budget>>

WorkerExits ==
    /\ proc # "none" /\ Spend("exit")
    /\ proc' = "none"
    /\ UNCHANGED <<clock, row, other, leaving, session, effect, inflight, call, asked>>

-----------------------------------------------------------------------------
\* The renderer's calls.

Begin(c) == call' = [call EXCEPT ![c] = [Rest EXCEPT !.pc = "first", !.by = session]]
Goes(c, pc) == call' = [call EXCEPT ![c].pc = pc]

\* The effect of the shell: one call at a time for an address and a workspace.
ShellEffect ==
    /\ effect /\ session # 0
    /\ effect' = FALSE
    /\ IF inflight THEN UNCHANGED <<inflight, call>>
       ELSE inflight' = TRUE /\ Begin(Shell)
    /\ UNCHANGED <<clock, row, other, proc, leaving, session, asked, budget>>

Preflight(c) ==
    /\ c # Shell /\ session # 0 /\ call[c].pc = "idle" /\ Spend("run")
    /\ Begin(c)
    /\ UNCHANGED <<clock, row, other, proc, leaving, session, effect, inflight, asked>>

\* The first availability: a blocked working copy ends the call.
First(c) ==
    /\ call[c].pc = "first"
    /\ \E a \in Answers :
        call' = [call EXCEPT ![c].pc = IF a.blocked THEN "failed" ELSE "ensure",
                             ![c].first = a, ![c].since = clock]
    /\ UNCHANGED <<clock, row, other, proc, leaving, session, effect, inflight, asked, budget>>

Baseline_None(c) == Never                                \* mutant: nothing to compare with

\* previousLastSeenAt
Baseline(c) == call[c].first.seen

\* availabilityReadyAfterPersonalEnsure
Accepts(c, a, status) ==
    a.ready /\ (status = "starting" /\ Baseline(c) # Never => a.seen # Baseline(c))

\* ensurePersonalWorker of the desktop, and what follows it.
Ensure(c) ==
    /\ call[c].pc = "ensure"
    /\ LET status == IF proc = "none" THEN "starting" ELSE "running"
       IN call' = [call EXCEPT ![c].status = status, ![c].left = MaxAttempts,
                               ![c].pc = IF Accepts(c, call[c].first, status) THEN "ready" ELSE "poll"]
    /\ proc' = IF proc = "none" THEN "booting" ELSE proc
    /\ asked' = (asked \/ call[c].by = session)
    /\ UNCHANGED <<clock, row, other, leaving, session, effect, inflight, budget>>

\* It throws: no executable, no credential.
EnsureFails(c) ==
    /\ call[c].pc = "ensure" /\ Spend("exit")
    /\ Goes(c, "failed")
    /\ asked' = (asked \/ call[c].by = session)
    /\ UNCHANGED <<clock, row, other, proc, leaving, session, effect, inflight>>

Exhausted_Never(c) == FALSE                              \* mutant: no limit of attempts

Exhausted(c) == call[c].left = 1

\* A turn of the poll loop.
Poll(c) ==
    /\ call[c].pc = "poll"
    /\ call' = [call EXCEPT ![c].pc = IF Accepts(c, Availability, call[c].status) THEN "ready"
                                      ELSE IF Exhausted(c) THEN "failed" ELSE "poll",
                            ![c].left = IF @ > 1 THEN @ - 1 ELSE @]
    /\ UNCHANGED <<clock, row, other, proc, leaving, session, effect, inflight, asked, budget>>

Released_Never(c) == inflight                            \* mutant: no finally

Released(c) == inflight /\ c # Shell

\* The caller goes on; the shell forgets its key.
Return(c) ==
    /\ call[c].pc \in {"ready", "failed"}
    /\ call' = [call EXCEPT ![c] = Rest]
    /\ inflight' = Released(c)
    /\ UNCHANGED <<clock, row, other, proc, leaving, session, effect, asked, budget>>

\* handleSignOut stops the worker and does not wait for it.
SignOut ==
    /\ session # 0
    /\ session' = 0 /\ effect' = FALSE
    /\ leaving' = (leaving \/ proc = "alive")
    /\ proc' = "none"
    /\ UNCHANGED <<clock, row, other, inflight, call, asked, budget>>

SignIn ==
    /\ session = 0 /\ Spend("sign")
    /\ session' = MaxSign - budget.sign + 2
    /\ effect' = TRUE /\ asked' = FALSE
    /\ UNCHANGED <<clock, row, other, proc, leaving, inflight, call>>

\* The app is started again: the worker was told to stop, the rows stay.
Relaunch ==
    /\ session # 0 /\ Spend("exit")
    /\ call' = [c \in Slots |-> Rest]
    /\ inflight' = FALSE /\ effect' = TRUE
    /\ leaving' = (leaving \/ proc = "alive")
    /\ proc' = "none"
    /\ UNCHANGED <<clock, row, other, session, asked>>

CallStep(c) == First(c) \/ Ensure(c) \/ EnsureFails(c) \/ Poll(c) \/ Return(c)

Next ==
    \/ Tick \/ Beat \/ OtherBeat \/ Offline \/ WorkerExits
    \/ ShellEffect \/ SignOut \/ SignIn \/ Relaunch
    \/ \E c \in Slots : Preflight(c) \/ CallStep(c)

Spec == Init /\ [][Next]_vars

\* Requests are answered, timers fire and effects run.
Fairness == WF_vars(ShellEffect) /\ \A c \in Slots : WF_vars(CallStep(c))

FairSpec == Spec /\ Fairness

-----------------------------------------------------------------------------

\* Every variable has its type.
TypeOK ==
    /\ clock \in 0..MaxClock
    /\ row \in [online : BOOLEAN, seen : {Never} \cup 0..MaxClock]
    /\ other \in {Never} \cup 0..MaxClock /\ row.seen <= clock
    /\ proc \in {"none", "booting", "alive"}
    /\ {leaving, effect, inflight, asked} \subseteq BOOLEAN
    /\ session \in 0..(MaxSign + 1)
    /\ \A c \in Slots : call[c].pc \in {"idle", "first", "ensure", "poll", "ready", "failed"}

\* When a call started the worker, "ready" is never the snapshot from before: a
\* heartbeat has arrived since its first question, unless a worker of another
\* host was there all along.
ReadyIsNews ==
    \A c \in Slots : call[c].pc = "ready" /\ call[c].status = "starting" =>
        \/ row.seen >= call[c].since /\ row.seen # call[c].first.seen
        \/ other # Never /\ call[c].since - other <= Age

\* The shell's key is set only while its call is under way, so that no later
\* sign-in is refused for ever.
KeyHeld == inflight = (call[Shell].pc # "idle")

\* "Ready" means that the worker has registered, or one on another host is there.
ReadyIsRegistered ==
    \A c \in Slots : call[c].pc = "ready" =>
        proc # "booting" \/ Fresh(other)

\* Every sign-in to a personal workspace asks the desktop for a worker.
EverySignInAsks ==
    \A n \in 1..(MaxSign + 1) : session = n ~> asked \/ session # n
=============================================================================
