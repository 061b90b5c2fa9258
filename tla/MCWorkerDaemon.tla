--------------------------- MODULE MCWorkerDaemon ---------------------------
(* Small instances of WorkerDaemon.                                        *)
EXTENDS WorkerDaemon, TLC

CONSTANTS w1, d1, d2, MaxCrash, MaxLoss, MaxRepository, MaxRemoval,
          MaxEngine, MaxAgent

Commits == 0 .. MaxCommit
Flat == [i \in Issue |-> None]
NoInputs == [w \in Worker |-> {}]
OneRoot == [w \in Worker |-> d1]
OwnRoots == [w \in Worker |-> IF w = w1 THEN d1 ELSE d2]
FaultBounds == [f \in Fault |->
  CASE f = "crash" -> MaxCrash [] f = "loss" -> MaxLoss
    [] f = "repository" -> MaxRepository [] f = "removal" -> MaxRemoval
    [] f = "engine" -> MaxEngine [] f = "agent" -> MaxAgent]

(* What the server is told by a worker that keeps to the protocol: it      *)
(* comes with its storage and all capabilities, leaves without changing    *)
(* them, and reports either nothing about the copy, or that it needs       *)
(* recovery and why, or the commit it stands at.                           *)
Registers == [w \in Worker |->
  {[status |-> "online", storage |-> Root[w], caps |-> Capability]}]
Leaves == [w \in Worker |->
  {[status |-> "offline", storage |-> Root[w], caps |-> Capability, engineDown |-> FALSE]}]
Reporting(statuses, bases, heads, states, reasons, sources) ==
  [status : statuses, present : {TRUE}, genOK : {TRUE}, branchOK : {TRUE},
   storage : Storage, base : bases, head : heads, state : states, reason : reasons,
   source : sources]
ProtocolReports ==
  {BareFailure}
    \cup Reporting({"failed", "cancelled"}, CommitOrNone, CommitOrNone,
                   {"recovery_required"}, RecoveryReasons, BOOLEAN)
    \cup Reporting({"failed", "cancelled"}, CommitOrNone, Commit, {"clean", "dirty"},
                   {None}, BOOLEAN)
    \cup Reporting({"completed"}, {0}, Commit, {"clean"}, {None}, BOOLEAN)

Symmetric == Permutations(Session)
=============================================================================
