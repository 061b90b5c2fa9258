------------------------- MODULE MCIssueWorkingCopy -------------------------
(* Small instances of IssueWorkingCopy.                                    *)
EXTENDS IssueWorkingCopy, TLC

CONSTANTS i1, i2, s1, s2, s3, w1, w2, p1, p2, d1, d2, c1, c2

NoParent == [i \in Issue |-> None]
ChildOfFirst == [i \in Issue |-> IF i = i1 THEN None ELSE i1]

Both == {"codex", "issueWorkingCopyV1"}
Online(storage, caps) == [status |-> "online", storage |-> storage, caps |-> caps]
Beating(status, storage, down) ==
  [status |-> status, storage |-> storage, caps |-> {}, engineDown |-> down]

(* w1 may come back with an empty work root, hence a new storage id; w2    *)
(* shares the first storage of w1, as a replacement worker on its volume.  *)
MovingOffers == [w \in Worker |->
  IF w = w1 THEN {Online(d1, Both), Online(d2, Both)} ELSE {Online(d1, Both)}]
PlainOffers == [w \in Worker |-> {Online(d1, Both)}]

NoBeats == [w \in Worker |-> {}]
AllBeats == [w \in Worker |->
  {Beating("online", None, FALSE), Beating("offline", None, FALSE),
   Beating("online", d2, TRUE)}]

Clean(storage, head) ==
  [status |-> "completed", present |-> TRUE, genOK |-> TRUE, branchOK |-> TRUE,
   storage |-> storage, base |-> c1, head |-> head, state |-> "clean",
   reason |-> None, source |-> TRUE]

(* One report per branch of the reconciliation a worker can provoke.       *)
TurnReports ==
  {Clean(d1, c1), Clean(d1, c2), Clean(d2, c2),
   [Clean(d1, c2) EXCEPT !.state = "dirty"],
   [Clean(d1, c2) EXCEPT !.status = "failed", !.state = "dirty"],
   [Clean(d1, c1) EXCEPT !.status = "cancelled"],
   [Clean(d1, c1) EXCEPT !.status = "failed", !.base = None],
   [Clean(d1, c2) EXCEPT !.status = "failed", !.state = "recovery_required",
                         !.reason = "worktree_missing"],
   [Clean(d1, c2) EXCEPT !.status = "failed", !.branchOK = FALSE],
   [Clean(d1, c2) EXCEPT !.status = "cancelled", !.present = FALSE]}
FewReports == {Clean(d1, c2), [Clean(d1, c2) EXCEPT !.branchOK = FALSE],
               [Clean(d1, c2) EXCEPT !.status = "failed", !.state = "dirty"]}

\* No definition orders sessions or projects.
Symmetric == Permutations(Session) \cup Permutations(Project)
=============================================================================
