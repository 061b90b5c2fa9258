-------------------------- MODULE WorkingCopyLease --------------------------
(***************************************************************************)
(* What an issue working copy promises, without workers, tasks or reports: *)
(* per issue one lease, handed to one session at a time together with the  *)
(* turn it plays and the head it starts from.  Ending a turn moves the     *)
(* head at most once and always moves the turn; a broken copy is never     *)
(* leased again.                                                           *)
(***************************************************************************)
EXTENDS Naturals

CONSTANTS Issue, Session, Commit, None

VARIABLES
  holder,  \* holder[i]: the session writing the copy of i, or None
  turn,    \* turn[i]: how many turns of i have ended
  head,    \* head[i]: the head the last successful turn left, or None
  broken,  \* broken[i]: the copy needs recovery
  lease    \* lease[s]: what session s was given, or None

lvars == <<holder, turn, head, broken, lease>>

Lease == [issue : Issue, turn : Nat, head : Commit \cup {None}]

Init ==
  /\ holder = [i \in Issue |-> None]
  /\ turn = [i \in Issue |-> 0]
  /\ head = [i \in Issue |-> None]
  /\ broken = [i \in Issue |-> FALSE]
  /\ lease = [s \in Session |-> None]

Acquire(i, s) ==
  /\ holder[i] = None
  /\ ~broken[i]
  /\ lease[s] = None
  /\ holder' = [holder EXCEPT ![i] = s]
  /\ lease' = [lease EXCEPT ![s] = [issue |-> i, turn |-> turn[i], head |-> head[i]]]
  /\ UNCHANGED <<turn, head, broken>>

EndTurn(i) ==
  /\ holder[i] # None
  /\ holder' = [holder EXCEPT ![i] = None]
  /\ turn' = [turn EXCEPT ![i] = @ + 1]
  /\ UNCHANGED lease

(* The turn ends and leaves the copy at h (its own head if it never ran).  *)
Return(i, h) ==
  /\ EndTurn(i)
  /\ head' = [head EXCEPT ![i] = h]
  /\ UNCHANGED broken

(* The turn ends and nobody can say what the copy holds.                   *)
Break(i) ==
  /\ EndTurn(i)
  /\ broken' = [broken EXCEPT ![i] = TRUE]
  /\ UNCHANGED head

Next ==
  \E i \in Issue :
    \/ \E s \in Session : Acquire(i, s)
    \/ \E h \in Commit \cup {None} : Return(i, h)
    \/ Break(i)

Spec == Init /\ [][Next]_lvars
=============================================================================
