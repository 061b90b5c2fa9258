---------------------------- MODULE AgentEngine ----------------------------
(***************************************************************************)
(* One run of an agent engine by a worker: the engine's process            *)
(* (worker/agent_engine_process.go), the adapter that speaks its protocol  *)
(* (Codex in worker/main.go, agent_engine_claude.go, agent_engine_pi.go),  *)
(* and executeAgentEngine, which cancels the run when the task is          *)
(* cancelled or when a test has left its result.                           *)
(*                                                                         *)
(* The engine writes messages to a pipe; a goroutine reads them, gives a   *)
(* response to the request that waits for it, and puts anything else into  *)
(* a channel of limited room.  The adapter takes from the channel only     *)
(* once the engine has its prompt, for Codex once it has acknowledged it.  *)
(* Timers count half seconds.  Time passes only when nothing of the worker *)
(* can take a step: what is modelled is the sum of the timeouts, not the   *)
(* speed of the host.                                                      *)
(***************************************************************************)
EXTENDS Naturals, FiniteSets, Sequences

CONSTANTS
  Engines,     \* engines the session may name
  Room,        \* room of the channel (128 for Codex, 32 for the others)
  MaxNotes,    \* bound: notifications of the engine
  Ahead,       \* most messages Codex sends before it acknowledges the prompt
  Large,       \* may the prompt exceed what the pipe to the engine holds?
  Helpers,     \* may the engine leave a child that holds its output?
  Tests        \* is the session a test run's, which ends with an artifact?

\* What the constants must satisfy.
EngineAssumption == /\ Engines \subseteq {"codex", "claude_code", "pi"}
                    /\ Room \in Nat \ {0} /\ MaxNotes \in Nat /\ Ahead \in 0 .. MaxNotes + 1
                    /\ {Large, Helpers, Tests} \subseteq BOOLEAN

VARIABLES
  engine,    \* the engine's process, external but for its death by a signal
  pipe,      \* what it has printed and nobody has read
  proc,      \* the worker's record of it: are its outputs closed, is it reaped
  chan,      \* the channel the adapter takes from
  reader,    \* the goroutine that reads the pipe: over or not
  request,   \* the last request, whether the response is awaited, and what it was
  adapter,   \* the adapter's step, its timer, the stops left to do, its result
  run,       \* executeAgentEngine: its step, its timer, the outcome
  cancel,    \* the task's cancellation has been seen
  artifact   \* the test's result file

vars == <<engine, pipe, proc, chan, reader, request, adapter, run, cancel, artifact>>

Results == {"none", "completed", "failed", "cancelled"}
Messages == {"reply", "refusal", "note", "ok", "error", "interrupted", "garbled"}

TypeOK ==
  /\ engine.name \in Engines
  /\ engine \in [name: Engines, alive: BOOLEAN, helper: BOOLEAN, large: BOOLEAN, read: BOOLEAN,
                 replies: Nat, notes: 0 .. MaxNotes, ended: {"no", "ok", "error", "interrupted"}, fault: BOOLEAN]
  /\ pipe \in Seq(Messages) /\ chan \in Seq(Messages) /\ Len(chan) <= Room
  /\ proc \in [closed: BOOLEAN, done: BOOLEAN] /\ (proc.done => ~engine.alive)
  /\ reader \in BOOLEAN
  /\ request \in [number: 0 .. 4, awaited: BOOLEAN, answer: {"none", "reply", "refusal"}]
  /\ adapter.step \in {"write", "await", "turn", "abort", "close", "stop", "grace", "kill", "over"}
  /\ adapter.timer \in Nat /\ adapter.result \in Results /\ adapter.stops \in Seq(Nat)
  /\ run.step \in {"waiting", "stopping", "settling", "returned"} /\ run.timer \in 0 .. 10
  /\ run.outcome \in Results /\ run.found \in BOOLEAN
  /\ cancel \in BOOLEAN /\ artifact \in {"missing", "pending", "ready"}

Init ==
  /\ \E name \in Engines, large \in {FALSE, Large}:
       engine = [name |-> name, alive |-> TRUE, helper |-> FALSE, large |-> large, read |-> FALSE,
                 replies |-> 0, notes |-> 0, ended |-> "no", fault |-> FALSE]
  /\ pipe = <<>> /\ chan = <<>> /\ reader = TRUE
  /\ proc = [closed |-> FALSE, done |-> FALSE]
  /\ request = [number |-> 0, awaited |-> FALSE, answer |-> "none"]
  /\ adapter = [step |-> "write", timer |-> 0, stops |-> <<>>, result |-> "none"]
  /\ run = [step |-> "waiting", timer |-> 0, outcome |-> "none", found |-> FALSE]
  /\ cancel = FALSE /\ artifact = "missing"

-----------------------------------------------------------------------------
(* The engine (external).  "fault" remembers that it failed by itself.     *)
Codex == engine.name = "codex"

\* Requests before the turn: initialize, thread and turn; state and prompt; the
\* prompt alone.  Only the last carries the prompt.
LastRequest == CASE Codex -> 3 [] engine.name = "pi" -> 2 [] OTHER -> 1
Prompted == request.number >= LastRequest /\ (engine.large => engine.read)

Say(message) == pipe' = Append(pipe, message)
EngineStep == UNCHANGED <<proc, chan, reader, request, adapter, run, cancel>>

ReadsPrompt ==
  /\ engine.alive /\ engine.large /\ ~engine.read /\ request.number = LastRequest - 1
  /\ engine' = [engine EXCEPT !.read = TRUE]
  /\ UNCHANGED <<pipe, artifact>> /\ EngineStep

Replies(message) ==
  /\ engine.alive /\ Codex /\ engine.replies < request.number
  /\ engine' = [engine EXCEPT !.replies = @ + 1,
                             !.fault = @ \/ (message = "refusal" /\ engine.replies < LastRequest)]
  /\ Say(message)
  /\ UNCHANGED artifact /\ EngineStep

\* Codex acknowledges the prompt before it has sent more than Ahead messages.
Acknowledged == Codex => engine.replies >= LastRequest
Said == engine.notes + (IF engine.ended = "no" THEN 0 ELSE 1)
MaySay == engine.alive /\ (Acknowledged \/ Said < Ahead)

Notifies ==
  /\ MaySay /\ engine.notes < MaxNotes
  /\ engine' = [engine EXCEPT !.notes = @ + 1]
  /\ Say("note")
  /\ UNCHANGED artifact /\ EngineStep

\* Codex may also end a turn as interrupted, asked to or not.
Ends(how) ==
  /\ how = "interrupted" => Codex
  /\ MaySay /\ Prompted /\ engine.ended = "no"
  /\ engine' = [engine EXCEPT !.ended = how, !.fault = @ \/ how = "error"]
  /\ Say(how)
  /\ UNCHANGED artifact /\ EngineStep

\* A line that is no JSON: Codex's reader skips it.
Garbles ==
  /\ MaySay /\ ~Codex /\ engine.ended = "no"
  /\ engine' = [engine EXCEPT !.ended = "error", !.fault = TRUE]
  /\ Say("garbled")
  /\ UNCHANGED artifact /\ EngineStep

Starts == /\ Helpers /\ engine.alive /\ ~engine.helper
          /\ engine' = [engine EXCEPT !.helper = TRUE]
          /\ UNCHANGED <<pipe, artifact>> /\ EngineStep

\* Whether it is asked to or not; to stop unasked before the turn is acknowledged
\* and ended is a fault.
Exits == /\ engine.alive
         /\ engine' = [engine EXCEPT !.alive = FALSE, !.fault =
                         @ \/ ((engine.ended = "no" \/ ~Acknowledged) /\ adapter.step \in {"write", "await", "turn"})]
         /\ UNCHANGED <<pipe, artifact>> /\ EngineStep

WritesResult(state) ==
  /\ Tests /\ engine.alive /\ Prompted
  /\ <<artifact, state>> \in {<<"missing", "pending">>, <<"missing", "ready">>, <<"pending", "ready">>}
  /\ artifact' = state
  /\ UNCHANGED <<engine, pipe>> /\ EngineStep

EngineNext ==
  \/ ReadsPrompt
  \/ \E message \in {"reply", "refusal"}: Replies(message)
  \/ Notifies
  \/ \E how \in {"ok", "error", "interrupted"}: Ends(how)
  \/ Garbles
  \/ Starts
  \/ Exits
  \/ \E state \in {"pending", "ready"}: WritesResult(state)

-----------------------------------------------------------------------------
(* The process and the reader of its output.                               *)

\* cmd.Wait returns when the process is gone and nothing holds its output; then
\* the outputs are closed.  What the reader holds already is not lost.
Reap ==
  /\ ~engine.alive /\ ~engine.helper /\ ~proc.done
  /\ proc' = [closed |-> TRUE, done |-> TRUE]
  /\ UNCHANGED <<engine, pipe, chan, reader, request, adapter, run, cancel, artifact>>

\* It must return when nothing is left to copy, or nobody to copy it to.
MustReap == ~engine.alive /\ ~engine.helper /\ ~proc.done /\ (pipe = <<>> \/ proc.closed)

\* Claude's and Pi's output is read from the time the prompt is written.
Reading == reader /\ (Codex \/ request.number = LastRequest)
Response(message) == message \in {"reply", "refusal"}

\* mutant: the channel takes any number
CanRead_Unbounded == Reading /\ pipe # <<>>

CanRead == Reading /\ pipe # <<>> /\ (Response(Head(pipe)) \/ Len(chan) < Room)

ReadMessage ==
  /\ CanRead
  /\ LET message == Head(pipe)
     IN \/ /\ Response(message)
           /\ request' = IF request.awaited THEN [request EXCEPT !.awaited = FALSE, !.answer = message] ELSE request
           /\ UNCHANGED <<chan, reader>>
        \/ /\ ~Response(message)
           /\ chan' = Append(chan, message)
           /\ reader' = (message # "garbled")
           /\ UNCHANGED request
  /\ pipe' = Tail(pipe)
  /\ UNCHANGED <<engine, proc, adapter, run, cancel, artifact>>

\* failPending answers the request that waits.
CanEnd == Reading /\ pipe = <<>> /\ proc.closed

\* mutant: nobody answers the request that waits
ReadEnd_Forget ==
  /\ CanEnd
  /\ reader' = FALSE
  /\ UNCHANGED <<engine, pipe, proc, chan, request, adapter, run, cancel, artifact>>

ReadEnd ==
  /\ CanEnd
  /\ reader' = FALSE
  /\ request' = IF request.awaited THEN [request EXCEPT !.awaited = FALSE, !.answer = "refusal"] ELSE request
  /\ UNCHANGED <<engine, pipe, proc, chan, adapter, run, cancel, artifact>>

-----------------------------------------------------------------------------
(* The adapter.                                                            *)
AdapterStep == UNCHANGED <<run, cancel, artifact>>
At(step) == adapter.step = step
Stopped == cancel \/ run.step \in {"stopping", "returned"}

\* mutant: Claude Code and Pi return without stopping the process
Conclude_Leave(result) ==
  adapter' = IF Codex THEN [step |-> "close", timer |-> 1, stops |-> <<4>>, result |-> result]
                      ELSE [step |-> "over", timer |-> 0, stops |-> <<>>, result |-> result]

\* The adapter returns: what it deferred stops the process.
Conclude(result) ==
  adapter' = IF Codex THEN [step |-> "close", timer |-> 1, stops |-> <<4>>, result |-> result]
                      ELSE [step |-> "stop", timer |-> 0, stops |-> <<2>>, result |-> result]

Enter(step) == adapter' = [adapter EXCEPT !.step = step]

\* Encode does not return before the engine has room for the request.
CanWrite == ~engine.alive \/ (engine.large /\ request.number = LastRequest - 1 => engine.read)
Write ==
  /\ At("write") /\ CanWrite
  /\ \/ /\ ~engine.alive
        /\ Conclude("failed")
        /\ UNCHANGED request
     \/ /\ engine.alive
        /\ request' = [number |-> request.number + 1, awaited |-> Codex, answer |-> "none"]
        /\ Enter(IF Codex THEN "await" ELSE IF request.number + 1 = LastRequest THEN "turn" ELSE "write")
  /\ UNCHANGED <<engine, pipe, proc, chan, reader>> /\ AdapterStep

Answered ==
  /\ At("await") /\ request.answer # "none"
  /\ IF request.answer = "refusal" THEN Conclude("failed")
     ELSE Enter(IF request.number = LastRequest THEN "turn" ELSE "write")
  /\ UNCHANGED <<engine, pipe, proc, chan, reader, request>> /\ AdapterStep

GiveUpRequest ==
  /\ At("await") /\ Stopped
  /\ request' = [request EXCEPT !.awaited = FALSE]
  /\ Conclude("cancelled")
  /\ UNCHANGED <<engine, pipe, proc, chan, reader>> /\ AdapterStep

Take ==
  /\ At("turn") /\ chan # <<>>
  /\ chan' = Tail(chan)
  /\ CASE Head(chan) = "note" -> UNCHANGED adapter
       [] Head(chan) = "ok" -> Conclude("completed")
       [] Head(chan) = "interrupted" -> Conclude("cancelled")
       [] OTHER -> Conclude("failed")
  /\ UNCHANGED <<engine, pipe, proc, reader, request>> /\ AdapterStep

\* The output ended without a terminal message; Claude Code and Pi wait for the
\* process first.
CanMiss == chan = <<>> /\ ~reader /\ (Codex \/ proc.done)
MissEnd ==
  /\ At("turn") /\ CanMiss
  /\ Conclude("failed")
  /\ UNCHANGED <<engine, pipe, proc, chan, reader, request>> /\ AdapterStep

\* mutant: Codex is given as long to answer the interrupt as to stop
Interrupt_Long ==
  /\ At("turn") /\ Stopped
  /\ adapter' = CASE Codex -> [step |-> "abort", timer |-> 6, stops |-> <<4>>, result |-> "cancelled"]
                  [] engine.name = "pi" -> [step |-> "abort", timer |-> 1, stops |-> <<2, 2>>, result |-> "cancelled"]
                  [] OTHER -> [step |-> "stop", timer |-> 0, stops |-> <<2, 2>>, result |-> "cancelled"]
  /\ request' = IF Codex THEN [number |-> 4, awaited |-> engine.alive,
                               answer |-> IF engine.alive THEN "none" ELSE "refusal"] ELSE request
  /\ UNCHANGED <<engine, pipe, proc, chan, reader>> /\ AdapterStep

\* Codex is asked to interrupt the turn, Pi to abort; Claude Code is stopped.
Interrupt ==
  /\ At("turn") /\ Stopped
  /\ adapter' = CASE Codex -> [step |-> "abort", timer |-> 4, stops |-> <<4>>, result |-> "cancelled"]
                  [] engine.name = "pi" -> [step |-> "abort", timer |-> 1, stops |-> <<2, 2>>, result |-> "cancelled"]
                  [] OTHER -> [step |-> "stop", timer |-> 0, stops |-> <<2, 2>>, result |-> "cancelled"]
  /\ request' = IF Codex THEN [number |-> 4, awaited |-> engine.alive,
                               answer |-> IF engine.alive THEN "none" ELSE "refusal"] ELSE request
  /\ UNCHANGED <<engine, pipe, proc, chan, reader>> /\ AdapterStep

Expired == adapter.timer = 0
CanGoOn ==
  CASE At("abort") -> Expired \/ (IF Codex THEN request.answer # "none" ELSE proc.done)
    [] At("close") \/ At("grace") \/ At("kill") -> Expired \/ proc.done
    [] OTHER -> At("stop")

AbortOver ==
  /\ At("abort") /\ CanGoOn
  /\ adapter' = IF Codex THEN [adapter EXCEPT !.step = "close", !.timer = 1] ELSE [adapter EXCEPT !.step = "stop"]
  /\ request' = [request EXCEPT !.awaited = FALSE]
  /\ UNCHANGED <<engine, pipe, proc, chan, reader>> /\ AdapterStep

CloseOver ==
  /\ At("close") /\ CanGoOn
  /\ Enter(IF proc.done THEN "over" ELSE "stop")
  /\ UNCHANGED <<engine, pipe, proc, chan, reader, request>> /\ AdapterStep

NextStop == adapter' = IF Len(adapter.stops) > 1
                       THEN [adapter EXCEPT !.step = "stop", !.stops = Tail(@)]
                       ELSE [adapter EXCEPT !.step = "over", !.stops = <<>>]

\* agentEngineProcess.stop: an interrupt, the outputs, a grace, the kill of the
\* whole group, and two seconds for it to be reaped.
Stop ==
  /\ At("stop")
  /\ IF proc.done THEN NextStop /\ UNCHANGED proc
     ELSE /\ adapter' = [adapter EXCEPT !.step = "grace", !.timer = Head(adapter.stops)]
          /\ proc' = [proc EXCEPT !.closed = TRUE]
  /\ UNCHANGED <<engine, pipe, chan, reader, request>> /\ AdapterStep

GraceOver ==
  /\ At("grace") /\ CanGoOn
  /\ IF proc.done THEN NextStop /\ UNCHANGED engine
     ELSE /\ engine' = [engine EXCEPT !.alive = FALSE, !.helper = FALSE]
          /\ adapter' = [adapter EXCEPT !.step = "kill", !.timer = 4]
  /\ UNCHANGED <<pipe, proc, chan, reader, request>> /\ AdapterStep

KillOver ==
  /\ At("kill") /\ CanGoOn
  /\ NextStop
  /\ UNCHANGED <<engine, pipe, proc, chan, reader, request>> /\ AdapterStep

AdapterNext == \/ Write \/ Answered \/ GiveUpRequest \/ Take \/ MissEnd \/ Interrupt
               \/ AbortOver \/ CloseOver \/ Stop \/ GraceOver \/ KillOver

-----------------------------------------------------------------------------
(* executeAgentEngine and the fallback of runPreparedAgentSession.         *)
RunStep == UNCHANGED <<engine, pipe, proc, chan, reader, request, adapter, cancel, artifact>>
Ready == Tests /\ artifact = "ready"

\* What went wrong does not matter to a test that has left its result.
Return(outcome) ==
  run' = [run EXCEPT !.step = "returned", !.timer = 0, !.outcome = IF Ready THEN "completed" ELSE outcome]

Cancel == /\ ~cancel /\ run.step # "returned"
          /\ cancel' = TRUE
          /\ UNCHANGED <<engine, pipe, proc, chan, reader, request, adapter, run, artifact>>

SeeCancel == /\ run.step = "waiting" /\ cancel
             /\ run' = [run EXCEPT !.step = "stopping", !.timer = 10]
             /\ RunStep

SeeArtifact == /\ run.step = "waiting" /\ Ready
               /\ run' = [run EXCEPT !.step = "stopping", !.timer = 10, !.found = TRUE]
               /\ RunStep

\* mutant: a test that ended well is completed whatever it left
TakeResult_Trusting ==
  /\ run.step = "waiting" /\ At("over")
  /\ Return(adapter.result)
  /\ RunStep

TakeResult ==
  /\ run.step = "waiting" /\ At("over")
  /\ CASE adapter.result # "completed" \/ ~Tests -> Return(adapter.result)
       [] adapter.result = "completed" /\ Tests /\ artifact = "pending" -> run' = [run EXCEPT !.step = "settling"]
       [] OTHER -> Return("failed")
  /\ RunStep

\* The engine is gone: only the ten seconds or a cancellation end the wait.
Settle == /\ run.step = "settling"
          /\ \/ Return("failed")
             \/ cancel /\ Return("cancelled")
          /\ RunStep

StopSeen ==
  /\ run.step = "stopping" /\ At("over")
  /\ Return(IF adapter.result = "failed" THEN "failed" ELSE IF run.found THEN "completed" ELSE "cancelled")
  /\ RunStep

\* mutant: the adapter is waited for without a limit
GiveUp_Never == FALSE /\ RunStep

\* "agent engine did not stop after cancellation"
GiveUp == /\ run.step = "stopping" /\ run.timer = 0
          /\ Return("failed")
          /\ RunStep

-----------------------------------------------------------------------------
(* Half a second passes when the worker has nothing to do but to wait.     *)
Busy ==
  \/ MustReap \/ CanRead \/ CanEnd \/ CanGoOn
  \/ At("write") /\ CanWrite
  \/ At("await") /\ (request.answer # "none" \/ Stopped)
  \/ At("turn") /\ (chan # <<>> \/ CanMiss \/ Stopped)
  \/ run.step = "waiting" /\ (cancel \/ At("over"))
  \/ run.step = "stopping" /\ (At("over") \/ run.timer = 0)

Less(n) == IF n = 0 THEN 0 ELSE n - 1
Tick ==
  /\ ~Busy /\ (adapter.timer > 0 \/ run.timer > 0)
  /\ adapter' = [adapter EXCEPT !.timer = Less(@)]
  /\ run' = [run EXCEPT !.timer = Less(@)]
  /\ UNCHANGED <<engine, pipe, proc, chan, reader, request, cancel, artifact>>

RunNext == SeeCancel \/ SeeArtifact \/ TakeResult \/ Settle \/ StopSeen \/ GiveUp

Next == EngineNext \/ Reap \/ ReadMessage \/ ReadEnd \/ AdapterNext \/ Cancel \/ RunNext \/ Tick

Spec == Init /\ [][Next]_vars

\* The goroutines go on, the kernel reaps, time passes; Codex answers requests.
\* Among several things that are ready, select takes each some time.
FairSpec ==
  /\ Spec
  /\ WF_vars(Reap /\ MustReap) /\ WF_vars(ReadMessage) /\ WF_vars(ReadEnd)
  /\ WF_vars(AdapterNext) /\ WF_vars(RunNext) /\ WF_vars(Tick)
  /\ WF_vars(\E message \in {"reply", "refusal"}: Replies(message))

-----------------------------------------------------------------------------
\* When the run has returned, the worktree is inspected and the writer's
\* reservation released: neither the engine nor a child of it may still run
\* (executeAgentEngine, agentEngineProcess.stop).
EngineGone == run.step = "returned" => ~engine.alive /\ ~engine.helper

\* A run is told as completed only if the engine said so or the test left its
\* result, as cancelled only if it was or Codex says that its turn was interrupted,
\* and as failed only if the engine failed by itself or a test left no result:
\* stopping it is no failure, and takes less than the five seconds it is given
\* (waitForAgentEngineStop).
OutcomeTold ==
  /\ run.outcome = "completed" => IF Tests THEN artifact = "ready" ELSE engine.ended = "ok"
  /\ run.outcome = "cancelled" => cancel \/ engine.ended = "interrupted"
  /\ run.outcome = "failed" => engine.fault \/ (Tests /\ engine.ended = "ok")

\* A cancelled run returns (watchTaskCancellation).
CancelEnds == cancel ~> run.step = "returned"

\* When the engine has taken its prompt and ended, or its process is gone, the run
\* returns (waitCodexTurn, claudeCodeEngineAdapter.Execute, piEngineAdapter.Execute).
EndSeen == ((Prompted /\ engine.ended # "no") \/ ~engine.alive) ~> run.step = "returned"

=============================================================================
