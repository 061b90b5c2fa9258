-------------------------- MODULE SessionSnapshots --------------------------
(***************************************************************************)
(* The agent sessions on the issue page (packages/views/src/issue-detail-  *)
(* page.tsx): the list of sessions comes with the polled issue, the logs   *)
(* of each are read separately, in overlapping loads, and kept with the    *)
(* status the session was listed with.  A load that a newer list has made  *)
(* obsolete is cancelled; a failed read of a finished session is retried.  *)
(***************************************************************************)
EXTENDS Naturals, FiniteSets

CONSTANTS
    Sessions,
    MaxLog, MaxFail, MaxLoads   \* bounds: log lines, failed reads, loads outstanding

\* What the constants must satisfy.
SessionSnapshotsAssumption == {MaxLog, MaxFail, MaxLoads} \subseteq Nat

VARIABLES
    status, logs,    \* the server: the session, and how many log lines it has
    listed,          \* detail.sessions
    shots,           \* sessionSnapshotsById
    loads,           \* loadSessionSnapshots under way
    timer,           \* terminalRetryTimer: the sessions it will read again
    stopping,        \* stopSession is pending, for which session
    fails

server == <<status, logs>>
vars == <<server, listed, shots, loads, timer, stopping, fails>>

Active == {"queued", "running"}
Ended == {"completed", "cancelled"}
Waits == MaxLog + 1
Failed == MaxLog + 2
Shots == [tag : Active \cup Ended, lines : 0..MaxLog]
Nobody == {}

TypeOK ==
    /\ status \in [Sessions -> Active \cup Ended \cup {"absent"}]
    /\ listed \in [Sessions -> Active \cup Ended \cup {"absent"}]
    /\ \A s \in Sessions : shots[s] \subseteq Shots /\ Cardinality(shots[s]) <= 1
    /\ \A b \in loads : DOMAIN b.want \subseteq Sessions
    /\ \A s \in timer : s \in Sessions /\ listed[s] \in Ended
    /\ Cardinality(stopping) <= 1

Init ==
    /\ status = [s \in Sessions |-> "absent"] /\ logs = [s \in Sessions |-> 0]
    /\ listed = status /\ shots = [s \in Sessions |-> {}]
    /\ loads = {} /\ timer = Nobody /\ stopping = {} /\ fails = MaxFail

-----------------------------------------------------------------------------
\* The server.

SessionStarts(s) ==
    /\ status[s] = "absent" /\ status' = [status EXCEPT ![s] = "queued"]
    /\ UNCHANGED <<logs, listed, shots, loads, timer, stopping, fails>>

SessionRuns(s) ==
    /\ status[s] = "queued" /\ status' = [status EXCEPT ![s] = "running"]
    /\ UNCHANGED <<logs, listed, shots, loads, timer, stopping, fails>>

\* The worker of a cancelled task may still append: the claim is what is checked.
LogAppended(s) ==
    /\ status[s] \in {"running", "cancelled"} /\ logs[s] < MaxLog
    /\ logs' = [logs EXCEPT ![s] = @ + 1]
    /\ UNCHANGED <<status, listed, shots, loads, timer, stopping, fails>>

SessionCompletes(s) ==
    /\ status[s] = "running" /\ status' = [status EXCEPT ![s] = "completed"]
    /\ UNCHANGED <<logs, listed, shots, loads, timer, stopping, fails>>

-----------------------------------------------------------------------------
\* The page's reading.

ListedIn(set) == {s \in Sessions : listed[s] \in set}

\* stale: the effect that began the load has been cleaned up (cancelled).
Load(kind, tags) ==
    [kind |-> kind, stale |-> FALSE, want |-> tags, got |-> [s \in DOMAIN tags |-> Waits]]

Tags(list, S) == [s \in S |-> list[s]]

\* The issue is read again; the effect runs anew when its sessions have changed.
Poll ==
    /\ listed' = status
    /\ IF listed' = listed
       THEN UNCHANGED <<shots, loads, timer>>
       ELSE /\ Cardinality(loads) <= MaxLoads
            /\ timer' = Nobody
            /\ loads' = {[b EXCEPT !.stale = TRUE] : b \in loads} \cup {Load("full", Tags(status, {s \in Sessions : status[s] # "absent"}))}
            /\ UNCHANGED shots
    /\ UNCHANGED <<server, stopping, fails>>

\* The interval, every 2.5 s while a listed session is active.
Tick ==
    /\ ListedIn(Active) # {} /\ Cardinality(loads) < MaxLoads
    /\ loads' = loads \cup {Load("tick", Tags(listed, ListedIn(Active)))}
    /\ UNCHANGED <<server, listed, shots, timer, stopping, fails>>

Answers(b, s, a) ==
    /\ s \in DOMAIN b.want /\ b.got[s] = Waits
    /\ loads' = (loads \ {b}) \cup {[b EXCEPT !.got[s] = a]}

ReadAnswered(b, s) ==
    /\ Answers(b, s, logs[s])
    /\ UNCHANGED <<server, listed, shots, timer, stopping, fails>>

ReadFails(b, s) ==
    /\ fails > 0 /\ fails' = fails - 1
    /\ Answers(b, s, Failed)
    /\ UNCHANGED <<server, listed, shots, timer, stopping>>

Cancelled_Never(b) == FALSE             \* mutant: the cleanup does not cancel the load

Cancelled(b) == b.stale

\* replace: only snapshots of listed sessions are kept.
Base(b) == [s \in Sessions |-> IF b.kind = "full" /\ listed[s] = "absent" THEN {} ELSE shots[s]]

FailedIn(b) == {s \in DOMAIN b.got : b.got[s] = Failed}

Retried_Active(b) == FailedIn(b)        \* mutant: sessions still active are retried too

Retried(b) == {s \in FailedIn(b) : b.want[s] \in Ended}

\* All the reads of a load have been answered.
Apply(b) ==
    /\ \A s \in DOMAIN b.got : b.got[s] # Waits
    /\ IF Cancelled(b)
       THEN loads' = loads \ {b} /\ UNCHANGED <<shots, timer>>
       ELSE /\ loads' = loads \ {b}
            /\ shots' = [s \in Sessions |->
                            IF s \in DOMAIN b.got /\ b.got[s] # Failed
                            THEN {[tag |-> b.want[s], lines |-> b.got[s]]} ELSE Base(b)[s]]
            /\ timer' = IF timer = Nobody
                        THEN Retried(b) ELSE timer
    /\ UNCHANGED <<server, listed, stopping, fails>>

RetryTimer ==
    /\ timer # Nobody
    /\ loads' = loads \cup {Load("retry", Tags(listed, timer))} /\ timer' = Nobody
    /\ UNCHANGED <<server, listed, shots, stopping, fails>>

-----------------------------------------------------------------------------
\* What the timeline shows of a session.

CurrentShot_Any(s) == shots[s]          \* mutant: the status it was read with is ignored

CurrentShot(s) == {x \in shots[s] : x.tag = listed[s]}
Pending(s) == CurrentShot(s) = {}
Lines(s) == IF Pending(s) THEN 0 ELSE (CHOOSE x \in CurrentShot(s) : TRUE).lines

\* WorkingSessionLine, the agent's last message, a skeleton, or "no final summary".
Shown(s) ==
    CASE listed[s] = "absent"                                -> "nothing"
      [] listed[s] \in Active                                -> "working"
      [] listed[s] = "cancelled" /\ ~Pending(s) /\ Lines(s) = 0 -> "cancelled"
      [] Lines(s) > 0                                        -> "message"
      [] Pending(s)                                          -> "skeleton"
      [] OTHER                                               -> "no summary"

\* The Stop button of an active session.
PressStop(s) ==
    /\ listed[s] \in Active /\ stopping = {}
    /\ stopping' = {s}
    /\ UNCHANGED <<server, listed, shots, loads, timer, fails>>

Stopped(s) ==
    /\ s \in stopping
    /\ status' = IF status[s] \in Active THEN [status EXCEPT ![s] = "cancelled"] ELSE status
    /\ stopping' = {}
    /\ UNCHANGED <<logs, listed, shots, loads, timer, fails>>

Next ==
    \/ \E s \in Sessions :
          \/ SessionStarts(s) \/ SessionRuns(s) \/ LogAppended(s) \/ SessionCompletes(s)
          \/ PressStop(s) \/ Stopped(s)
    \/ Poll \/ Tick \/ RetryTimer
    \/ \E b \in loads : Apply(b) \/ \E s \in Sessions : ReadAnswered(b, s) \/ ReadFails(b, s)

\* The issue is polled, the timer fires, and the reads of a load are answered.
Reading(kind) ==
    \E b \in loads : /\ b.kind = kind
                     /\ Apply(b) \/ \E s \in Sessions : ReadAnswered(b, s)

Spec ==
    /\ Init /\ [][Next]_vars
    /\ WF_vars(Poll) /\ WF_vars(RetryTimer) /\ WF_vars(Reading("full")) /\ WF_vars(Reading("retry"))
    /\ WF_vars(Reading("tick"))

-----------------------------------------------------------------------------
\* Properties.

\* A finished session is shown with everything it said: a read that began
\* while the session ran never passes for its final one.
FinalLogs == \A s \in Sessions : listed[s] = "completed" /\ ~Pending(s) => Lines(s) = logs[s]

\* "No final summary" is said only of a session without one.
NoFalseSummary == \A s \in Sessions : Shown(s) = "no summary" => status[s] = "completed" /\ logs[s] = 0

\* The skeleton of a finished session gives way to its summary, whatever reads failed.
SummaryArrives == \A s \in Sessions : <>(listed[s] = "completed") => <>[](Shown(s) \in {"message", "no summary"})
=============================================================================
