---------------------------- MODULE HostIdentity ----------------------------
(***************************************************************************)
(* The anonymous host id of the desktop                                    *)
(* (apps/desktop/src/main/personal-worker-host-identity.ts): read from a   *)
(* file, or generated and written there.  Several callers ask at the same  *)
(* time, writing may fail, the app may crash between any two awaits, and   *)
(* while it is down the file may be damaged.                               *)
(***************************************************************************)
EXTENDS Naturals, FiniteSets

CONSTANTS
    Ids,        \* the values randomUUID may return, each at most once
    Callers,    \* calls of loadOrCreatePersonalWorkerHostId
    NoId,
    MaxCrash,   \* bound: crashes of the app
    MaxFail     \* bound: file operations that fail

\* What the constants must satisfy.
HostIdentityAssumption == NoId \notin Ids /\ MaxCrash \in Nat /\ MaxFail \in Nat

VARIABLES
    file,      \* the identity file: an id, or NoId when absent or not valid
    temp,      \* the temporary files and the id in each
    load,      \* the entry of hostIdentityLoads
    call,      \* each caller: waiting or not
    answers,   \* ghost: the ids answered since the file was last damaged
    used,      \* ghost: the ids generated so far
    up,        \* the app runs
    crashes, fails

vars == <<file, temp, load, call, answers, used, up, crashes, fails>>

NoLoad == [pc |-> "none", id |-> NoId]

Init ==
    /\ file = NoId /\ temp = {} /\ load = NoLoad
    /\ call = [c \in Callers |-> "idle"]
    /\ answers = {} /\ used = {}
    /\ up = TRUE /\ crashes = 0 /\ fails = 0

\* A call joins the load in flight, or starts one.
Call(c) ==
    /\ up /\ call[c] = "idle"
    /\ call' = [call EXCEPT ![c] = "waiting"]
    /\ load' = IF load.pc = "none" THEN [NoLoad EXCEPT !.pc = "read"] ELSE load
    /\ UNCHANGED <<file, temp, answers, used, up, crashes, fails>>

\* The load's promise settles: everyone who waits gets the same outcome.
Settle(result) ==
    /\ call' = [c \in Callers |-> "idle"]
    /\ load' = NoLoad
    /\ answers' = answers \cup result

\* readFile and parseHostIdentity: a valid file is the answer ...
ReadFound ==
    /\ load.pc = "read"
    /\ file # NoId
    /\ Settle({file})
    /\ UNCHANGED <<file, temp, used, up, crashes, fails>>

Created_Blank(id) == [pc |-> "write", id |-> NoId]   \* mutant: the id is not in the new identity

\* createHostIdentity
Created(id) == [pc |-> "write", id |-> id]

\* ... anything else makes a new identity.
ReadMissing ==
    /\ load.pc = "read"
    /\ file = NoId
    /\ \E id \in Ids \ used : used' = used \cup {id} /\ load' = Created(id)
    /\ UNCHANGED <<file, temp, call, answers, up, crashes, fails>>

\* readFile fails although the file is there: readHostIdentity answers null.
ReadFails ==
    /\ load.pc = "read"
    /\ fails < MaxFail
    /\ fails' = fails + 1
    /\ \E id \in Ids \ used : used' = used \cup {id} /\ load' = Created(id)
    /\ UNCHANGED <<file, temp, call, answers, up, crashes>>

\* writeFile has written the temporary file.
WriteTemp ==
    /\ load.pc = "write"
    /\ temp' = temp \cup {load.id}
    /\ load' = [load EXCEPT !.pc = "rename"]
    /\ UNCHANGED <<file, call, answers, used, up, crashes, fails>>

\* rename replaces the file at once.
Rename ==
    /\ load.pc = "rename"
    /\ file' = load.id
    /\ temp' = temp \ {load.id}
    /\ load' = [load EXCEPT !.pc = "answer"]
    /\ UNCHANGED <<call, answers, used, up, crashes, fails>>

Answered_Early == load.pc \in {"rename", "answer"}   \* mutant: answered before the rename

Answered == load.pc = "answer"

\* The finally block is done, the new id is returned.
Answer ==
    /\ Answered
    /\ Settle({load.id})
    /\ UNCHANGED <<file, temp, used, up, crashes, fails>>

Rejected_Swallowed == load' = NoLoad /\ UNCHANGED <<call, answers>>   \* mutant: nobody is told

Rejected == Settle({})

\* mkdir, writeFile or rename fails: the temporary file is removed, the callers
\* get the error.
WriteFails ==
    /\ load.pc \in {"write", "rename"}
    /\ fails < MaxFail
    /\ fails' = fails + 1
    /\ temp' = temp \ {load.id}
    /\ Rejected
    /\ UNCHANGED <<file, used, up, crashes>>

\* The app ends between two awaits; a temporary file may stay behind.
Crash ==
    /\ up /\ crashes < MaxCrash
    /\ up' = FALSE
    /\ crashes' = crashes + 1
    /\ Settle({})
    /\ UNCHANGED <<file, temp, used, fails>>

Restart == ~up /\ up' = TRUE /\ UNCHANGED <<file, temp, load, call, answers, used, crashes, fails>>

\* While the app is down its file is removed or damaged: no id is to be kept.
Damage ==
    /\ ~up /\ file # NoId
    /\ file' = NoId
    /\ answers' = {}
    /\ UNCHANGED <<temp, load, call, used, up, crashes, fails>>

\* Every step but the failing read.
Reliable ==
    \/ \E c \in Callers : Call(c)
    \/ ReadFound \/ ReadMissing \/ WriteTemp \/ Rename \/ Answer \/ WriteFails
    \/ Crash \/ Restart \/ Damage

Spec == Init /\ [][Reliable]_vars

FailingReads == Init /\ [][Reliable \/ ReadFails]_vars

\* Awaited file operations end.
Fairness == WF_vars(ReadFound \/ ReadMissing) /\ WF_vars(WriteTemp) /\ WF_vars(Rename) /\ WF_vars(Answer)

FairSpec == Spec /\ Fairness

-----------------------------------------------------------------------------

\* Every variable has its type.
TypeOK ==
    /\ file \in Ids \cup {NoId}
    /\ temp \subseteq Ids
    /\ load \in [pc : {"none", "read", "write", "rename", "answer"}, id : Ids \cup {NoId}]
    /\ load.pc \in {"write", "rename", "answer"} => load.id \in Ids
    /\ call \in [Callers -> {"idle", "waiting"}]
    /\ answers \subseteq Ids /\ used \subseteq Ids
    /\ up \in BOOLEAN /\ crashes \in Nat /\ fails \in Nat

\* One host, one id: until the file is damaged every answer, of any caller, of
\* any run of the app, before and after crashes and failed writes, is the id on
\* disk.
OneIdentity == \A id \in answers : file = id

\* Everyone who asks is answered, unless the app crashes again and again.
Answers == \A c \in Callers : call[c] = "waiting" ~> call[c] = "idle"
=============================================================================
