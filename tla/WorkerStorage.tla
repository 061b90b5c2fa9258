---------------------------- MODULE WorkerStorage ----------------------------
(***************************************************************************)
(* The storage identity of a work root (worker/working_copy.go,            *)
(* ensureWorkerStorageID).  Several workers may be started on one root:    *)
(* each looks for the file, and the first to create it writes its own id.  *)
(* Every file operation may meet those of the others; the process may be   *)
(* killed or lose power between any two, and writing or syncing may fail.  *)
(***************************************************************************)
EXTENDS Naturals, FiniteSets

CONSTANTS
    Workers,     \* worker processes of one work root
    Faults,      \* of "write", "sync" (or close), "kill" and "power"
    MaxFaults    \* bound: faults of all kinds

\* What the constants must satisfy.
WorkerStorageAssumption ==
    /\ IsFiniteSet(Workers)
    /\ Faults \subseteq {"write", "sync", "kill", "power"} /\ MaxFaults \in Nat

VARIABLES
    file,      \* <workRoot>/.mspace/storage-id: Absent, Torn or an id
    synced,    \* the file would survive a loss of power
    pc, id,    \* each worker: where it is, and the id it made
    made,      \* ghost: ids generated so far; 24 random bytes do not repeat
    served,    \* ghost: the ids with which a worker went on to register
    faults

vars == <<file, synced, pc, id, made, served, faults>>

NoStorageId == 0
Absent == [kind |-> "absent", id |-> NoStorageId]
Torn == [kind |-> "torn", id |-> NoStorageId] \* not a valid id: empty, or cut off
Whole(i) == [kind |-> "whole", id |-> i]

Init ==
    /\ file = Absent /\ synced = FALSE
    /\ pc = [w \in Workers |-> "down"] /\ id = [w \in Workers |-> NoStorageId]
    /\ made = 0 /\ served = {} /\ faults = 0

Goto(w, place) == pc' = [pc EXCEPT ![w] = place]
Fault(kind) == kind \in Faults /\ faults < MaxFaults /\ faults' = faults + 1

\* The process starts; its state directory is there.
Start(w) ==
    /\ pc[w] = "down"
    /\ Goto(w, "looks")
    /\ UNCHANGED <<file, synced, id, made, served, faults>>

\* readWorkerStorageID and what run makes of it: a valid id is registered, a
\* malformed one ends the process.
Readable_Torn == file # Absent       \* mutant: whatever the file holds is taken for the id
Readable == file.kind = "whole"
Served(i) == served' = served \cup {i}
ReadId(w) ==
    \/ Readable /\ Goto(w, "runs") /\ Served(file.id)
    \/ ~Readable /\ Goto(w, "down") /\ UNCHANGED served

\* The first look: a file that is not there leads to a new id.
Look(w) ==
    /\ pc[w] = "looks"
    /\ \/ file # Absent /\ ReadId(w) /\ UNCHANGED <<id, made>>
       \/ /\ file = Absent
          /\ made' = made + 1 /\ id' = [id EXCEPT ![w] = made']
          /\ Goto(w, "creates") /\ UNCHANGED served
    /\ UNCHANGED <<file, synced, faults>>

\* O_EXCL: only one creates the file, the others read it once more.
Exclusive_Truncate == TRUE           \* mutant: the file is opened without O_EXCL
Exclusive == file = Absent
Create(w) ==
    /\ pc[w] = "creates"
    /\ \/ Exclusive /\ file' = Torn /\ synced' = FALSE /\ Goto(w, "writes")
       \/ ~Exclusive /\ Goto(w, "loses") /\ UNCHANGED <<file, synced>>
    /\ UNCHANGED <<id, made, served, faults>>

Reread(w) ==
    /\ pc[w] = "loses"
    /\ ReadId(w)
    /\ UNCHANGED <<file, synced, id, made, faults>>

Write(w) ==
    /\ pc[w] = "writes"
    /\ \/ file' = Whole(id[w]) /\ Goto(w, "syncs") /\ UNCHANGED faults
       \/ Fault("write") /\ Goto(w, "removes") /\ UNCHANGED file
    /\ UNCHANGED <<synced, id, made, served>>

\* Sync and Close; the id is returned after both.
Sync(w) ==
    /\ pc[w] = "syncs"
    /\ \/ synced' = TRUE /\ Goto(w, "runs") /\ Served(id[w]) /\ UNCHANGED faults
       \/ Fault("sync") /\ Goto(w, "removes") /\ UNCHANGED <<synced, served>>
    /\ UNCHANGED <<file, id, made>>

\* The deferred function of a call that did not finish, and the end of the process.
Left_Behind == file                  \* mutant: the unfinished file is left in place
Left == Absent
Remove(w) ==
    /\ pc[w] = "removes"
    /\ file' = Left
    /\ Goto(w, "down")
    /\ UNCHANGED <<synced, id, made, served, faults>>

\* The process is killed: nothing deferred runs, what was written stays.
Kill(w) ==
    /\ pc[w] # "down" /\ Fault("kill")
    /\ Goto(w, "down")
    /\ UNCHANGED <<file, synced, id, made, served>>

\* The machine loses power: of a file not synced anything may be left.
LosePower ==
    /\ Fault("power")
    /\ pc' = [w \in Workers |-> "down"]
    /\ file' \in IF synced THEN {file} ELSE {Absent, Torn, file}
    /\ UNCHANGED <<synced, id, made, served>>

Step(w) ==
    \/ Start(w) \/ Look(w) \/ Create(w) \/ Reread(w)
    \/ Write(w) \/ Sync(w) \/ Remove(w)

Next == LosePower \/ \E w \in Workers : Step(w) \/ Kill(w)

Spec == Init /\ [][Next]_vars

\* A worker that ended is started again (StatefulSet, desktop), and a process
\* finishes what it began.
FairSpec == Spec /\ \A w \in Workers : WF_vars(Step(w))

-----------------------------------------------------------------------------
\* Types, and that a worker which runs has registered with an id.
TypeOK ==
    /\ file \in {Absent, Torn} \cup {Whole(i) : i \in 1 .. made}
    /\ synced \in BOOLEAN
    /\ pc \in [Workers -> {"down", "looks", "creates", "loses", "writes", "syncs", "removes", "runs"}]
    /\ id \in [Workers -> 0 .. made]
    /\ made \in Nat /\ faults \in 0 .. MaxFaults
    /\ served \subseteq 1 .. made

\* Whoever registers from this root, at any time and after any restart, does so
\* under one and the same identity.
OneIdentity == Cardinality(served) <= 1

\* The identity a worker registered with is not lost: it stays in the file, so
\* that the working copies bound to it are found again (ensureWorkerStorageID).
IdentityStays == \A i \in served : file = Whole(i)

\* An id that was synced outlives loss of power and every later start, whatever
\* fails (the file is synced and closed before its id is returned).
SyncedStays == synced => synced' /\ file' = file

\* However the starts overlap, a worker that met an unfinished file gets in on a
\* later start, also when writing the file failed once.
EveryWorkerStarts == \A w \in Workers : <>(pc[w] = "runs")
=============================================================================
