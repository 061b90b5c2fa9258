---------------------------- MODULE SnapshotStore ----------------------------
(***************************************************************************)
(* The personal server's store: everything is in memory, and the whole of  *)
(* it is written to one row of a SQLite file after each request that is    *)
(* not a GET.  Handlers run concurrently; one mutex orders the writes of   *)
(* the snapshot, and the store's own mutex makes the snapshot atomic.  A   *)
(* row stands for whatever one request adds or changes, with the number it *)
(* took from the store's counter.                                          *)
(***************************************************************************)
EXTENDS Integers, FiniteSets

CONSTANTS
  Clients,      \* the desktop, workers: each has one request at a time
  Large,        \* whether answers outgrow the connection's buffer
  MaxRows,      \* bound: rows ever created
  MaxCrashes,   \* bound: times the process dies
  MaxFails,     \* bound: snapshots SQLite refuses
  None          \* nobody holds the mutex

\* What the constants must satisfy.
SnapshotStoreAssumption ==
  None \notin Clients /\ Large \in BOOLEAN /\ {MaxRows, MaxCrashes, MaxFails} \subseteq Nat

VARIABLES
  memory,     \* the store: its rows and the counter
  disk,       \* the last snapshot in the file
  request,    \* per client: where its request is, its row, its snapshot
  mutex,      \* who writes a snapshot
  answered,   \* history: rows whose request was answered
  budget

vars == <<memory, disk, request, mutex, answered, budget>>

Row == [id: 1..MaxRows, by: Clients, no: 1..MaxRows]
Store == [rows: SUBSET Row, nextID: 0..MaxRows]
Empty == [rows |-> {}, nextID |-> 0]
Resting == [pc |-> "rest", row |-> {}, copy |-> Empty]

Request == [pc: {"rest", "applied", "copying", "writing", "written"},
            row: SUBSET Row, copy: Store]

\* Every variable has its type, and the mutex is held by who is writing.
TypeOK ==
  /\ memory \in Store /\ disk \in Store
  /\ request \in [Clients -> Request]
  /\ \A c \in Clients : (mutex = c) <=> request[c].pc \in {"copying", "writing"}
  /\ mutex \in Clients \cup {None}
  /\ answered \subseteq Row
  /\ budget \in [rows: 0..MaxRows, crashes: 0..MaxCrashes, fails: 0..MaxFails]

Init ==
  /\ memory = Empty /\ disk = Empty
  /\ request = [c \in Clients |-> Resting]
  /\ mutex = None /\ answered = {}
  /\ budget = [rows |-> MaxRows, crashes |-> MaxCrashes, fails |-> MaxFails]

Spend(k) == budget[k] > 0 /\ budget' = [budget EXCEPT ![k] = @ - 1]
At(c, pc) == request[c].pc = pc
Go(c, pc) == request' = [request EXCEPT ![c].pc = pc]
-----------------------------------------------------------------------------
\* The handler changes memory under the store's mutex and takes the next number.
Apply(c) ==
  /\ At(c, "rest") /\ memory.nextID < MaxRows
  /\ Spend("rows")
  /\ LET row == [id |-> memory.nextID + 1, by |-> c, no |-> budget.rows]
     IN  /\ memory' = [rows |-> memory.rows \cup {row}, nextID |-> row.id]
         /\ request' = [request EXCEPT ![c].pc = "applied", ![c].row = {row}]
  /\ UNCHANGED <<disk, mutex, answered>>

\* mutant: writers of the snapshot are not ordered
MayPersist_Mutation == TRUE
\* persist takes SQLiteStore's mutex, then copies memory, then writes the copy.
MayPersist == mutex = None

Lock(c) ==
  /\ At(c, "applied") /\ MayPersist
  /\ mutex' = c /\ Go(c, "copying")
  /\ UNCHANGED <<memory, disk, answered, budget>>

Copy(c) ==
  /\ At(c, "copying")
  /\ request' = [request EXCEPT ![c].pc = "writing", ![c].copy = memory]
  /\ UNCHANGED <<memory, disk, mutex, answered, budget>>

\* mutant: the mutex is not given back
Released_Mutation == mutex
Released == None

\* SQLite replaces the row in one statement, or fails and keeps the old one; a
\* failure is only logged.
Write(c) ==
  /\ At(c, "writing")
  /\ \/ disk' = request[c].copy /\ UNCHANGED budget
     \/ Spend("fails") /\ UNCHANGED disk
  /\ mutex' = Released /\ Go(c, "written")
  /\ UNCHANGED <<memory, answered>>

\* mutant: the answer goes out with the handler's return
Flushed_Mutation(c) == request[c].pc # "rest"
\* A small answer stays in the connection's buffer until the middleware returns;
\* a large one overflows it and is sent while the handler writes it.
Flushed(c) == At(c, "written") \/ (Large /\ request[c].pc # "rest")

Answer(c) ==
  /\ Flushed(c) /\ ~(request[c].row \subseteq answered)
  /\ answered' = answered \cup request[c].row
  /\ UNCHANGED <<memory, disk, request, mutex, budget>>

Finish(c) ==
  /\ At(c, "written") /\ request[c].row \subseteq answered
  /\ request' = [request EXCEPT ![c] = Resting]
  /\ UNCHANGED <<memory, disk, mutex, answered, budget>>

\* mutant: the counter is not part of the snapshot
Restored_Mutation == [disk EXCEPT !.nextID = 0]
Restored == disk

\* The process dies anywhere; the next one loads the file before it serves.
Crash ==
  /\ Spend("crashes")
  /\ memory' = Restored
  /\ request' = [c \in Clients |-> Resting] /\ mutex' = None
  /\ UNCHANGED <<disk, answered>>

Persist(c) == Lock(c) \/ Copy(c) \/ Write(c)
Next ==
  \/ \E c \in Clients : Apply(c) \/ Persist(c) \/ Answer(c) \/ Finish(c)
  \/ Crash
Spec == Init /\ [][Next]_vars
\* A handler that has begun to persist goes on, and the mutex is granted fairly.
FairSpec == Spec /\ \A c \in Clients : WF_vars(Copy(c) \/ Write(c)) /\ SF_vars(Lock(c))
-----------------------------------------------------------------------------
\* An answered request survives every crash: whatever was answered is in the file.
AnswersSurvive == answered \subseteq disk.rows

\* A number that went out in an answer is not given to something else.
IdsFresh == \A a, b \in answered : a.id = b.id => a = b

\* The file never goes back to an older snapshot, whichever request writes it.
DiskAdvances == [][disk.rows \subseteq disk'.rows]_vars

\* A snapshot that failed is made up for: what one request left behind is in the
\* file as soon as a later request's snapshot succeeds.
NextSaves ==
  [][\A c \in Clients :
       (At(c, "writing") /\ disk' # disk) => \A d \in Clients \ {c} :
         At(d, "written") => request[d].row \subseteq disk'.rows]_vars

\* Requests waiting for the mutex all get to write.
AllPersist == \A c \in Clients : At(c, "applied") ~> ~At(c, "applied")
=============================================================================
