----------------------------- MODULE TestImport -----------------------------
(***************************************************************************)
(* The dialog that imports test cases from a file (TestsPage of            *)
(* packages/views/src/tests-page.tsx).  A chosen file is read and          *)
(* previewed by the server; a table may be given to a worker, which        *)
(* suggests what its columns mean; the page polls the runtime tasks for    *)
(* the answer, previews the file again with the suggested mapping and      *)
(* imports what the user then confirms.                                    *)
(*                                                                         *)
(* Every request is a member of inFlight until it is answered.  "own" says *)
(* that the page's mutation still observes it: reset() forgets the         *)
(* request, yet its onSuccess runs all the same when it is answered.       *)
(* "latest" says that its number is still the one in                       *)
(* importPreviewRequestRef.                                                *)
(***************************************************************************)
EXTENDS Naturals, FiniteSets, Sequences

CONSTANTS
  Files,        \* files the user may choose
  Tables,       \* those a worker can map: CSV and Excel
  None,         \* no file, payload, preview or mapping
  PageSize,     \* length of the page of runtime tasks that is polled
  MaxRequests,  \* bound: requests the page sends
  MaxTasks      \* bound: runtime tasks of the workspace

\* What the constants must satisfy.
DialogAssumption == /\ Tables \subseteq Files /\ None \notin Files
                    /\ {PageSize, MaxRequests, MaxTasks} \subseteq Nat \ {0}

VARIABLES
  open, file,
  payload,     \* what would be imported: a file and the file its mapping was made for
  preview,     \* the payload the shown preview is about
  fileError,
  mapTask,     \* the polled mapping task, 0 when there is none
  remapping,   \* the preview with the suggested mapping is under way
  sent,        \* requests sent so far
  inFlight,
  tasks,       \* the workspace's runtime tasks, oldest first
  page         \* what the last poll returned: task numbers with their states

vars == <<open, file, payload, preview, fileError, mapTask, remapping, sent, inFlight, tasks, page>>
dialog == <<open, file, payload, preview, fileError, mapTask, remapping>>

Payloads == [file: Files, mapping: Files \cup {None}]
Kinds == {"preview", "remap", "map", "import"}
Requests == [id: 1 .. MaxRequests, kind: Kinds, payload: Payloads, own: BOOLEAN, latest: BOOLEAN]
Unfinished == {"queued", "claimed", "running"}
Statuses == Unfinished \cup {"completed", "empty", "failed", "cancelled"}
Tasks == [file: Files \cup {None}, status: Statuses]

TypeOK ==
  /\ open \in BOOLEAN /\ fileError \in BOOLEAN /\ remapping \in BOOLEAN
  /\ file \in Files \cup {None}
  /\ payload \in Payloads \cup {None} /\ preview \in Payloads \cup {None}
  /\ mapTask \in 0 .. MaxTasks /\ sent \in 0 .. MaxRequests
  /\ inFlight \subseteq Requests
  /\ tasks \in Seq(Tasks) /\ Len(tasks) <= MaxTasks
  /\ \A t \in DOMAIN page: page[t] \in Tasks

Init ==
  /\ open = FALSE /\ file = None /\ payload = None /\ preview = None /\ fileError = FALSE
  /\ mapTask = 0 /\ remapping = FALSE /\ sent = 0 /\ inFlight = {}
  /\ tasks = <<>> /\ page = <<>>

Pending(kind) == \E r \in inFlight: r.kind = kind /\ r.own

-----------------------------------------------------------------------------
(* What the page knows of the polled task.                                 *)
Known == mapTask \in DOMAIN page
MappingActive == mapTask # 0 /\ (Known => page[mapTask].status \in Unfinished)

CanMap ==
  /\ open /\ file # None /\ payload # None /\ preview # None /\ file \in Tables
  /\ ~Pending("preview") /\ ~Pending("map") /\ ~remapping /\ ~MappingActive

CanImport_WhileRemapping ==
  /\ open /\ file # None /\ payload # None /\ preview # None /\ ~fileError
  /\ ~Pending("map") /\ ~MappingActive
  /\ ~Pending("import") /\ ~Pending("preview")

CanImport ==
  /\ open /\ file # None /\ payload # None /\ preview # None /\ ~fileError
  /\ ~Pending("map") /\ ~MappingActive /\ ~remapping
  /\ ~Pending("import") /\ ~Pending("preview")

(* Forget the file, its preview, the mapping and the observed requests.    *)
Outdated(requests) == {[r EXCEPT !.latest = FALSE]: r \in requests}
Forgotten == {[r EXCEPT !.own = FALSE]: r \in Outdated(inFlight)}
Reset == payload' = None /\ preview' = None /\ mapTask' = 0 /\ remapping' = FALSE

Send(kind, p, others) ==
  /\ sent < MaxRequests
  /\ sent' = sent + 1
  /\ inFlight' = others \cup {[id |-> sent + 1, kind |-> kind, payload |-> p, own |-> TRUE,
                              latest |-> kind \in {"preview", "remap"}]}

(* Opening, closing and changing the format start over.                    *)
StartOver(o) ==
  /\ open' = o /\ file' = None /\ fileError' = FALSE /\ Reset
  /\ inFlight' = Forgotten
  /\ UNCHANGED <<sent, tasks, page>>
OpenDialog == ~open /\ StartOver(TRUE)
CloseDialog == open /\ StartOver(FALSE)
ChangeFormat == open /\ file # None /\ StartOver(TRUE)

SelectFile(f) ==
  /\ open /\ open' = open
  /\ file' = f /\ fileError' = FALSE /\ Reset
  /\ Send("preview", [file |-> f, mapping |-> None], Forgotten)
  /\ UNCHANGED <<tasks, page>>

SelectOther ==   \* a file that does not match the format
  /\ open /\ open' = open /\ ~fileError
  /\ file' = None /\ fileError' = TRUE /\ Reset
  /\ inFlight' = Forgotten
  /\ UNCHANGED <<sent, tasks, page>>

Latest_Any(r) == TRUE
Latest(r) == r.latest

PreviewAnswered(r) ==
  /\ r.kind = "preview"
  /\ \/ /\ Latest(r)
        /\ payload' = r.payload /\ preview' = r.payload /\ fileError' = FALSE
        /\ inFlight' = {IF q.kind = "import" THEN [q EXCEPT !.own = FALSE] ELSE q: q \in inFlight \ {r}}
     \/ /\ Latest(r)
        /\ payload' = None /\ preview' = None /\ fileError' = TRUE
        /\ inFlight' = inFlight \ {r}
     \/ ~Latest(r) /\ inFlight' = inFlight \ {r} /\ UNCHANGED <<payload, preview, fileError>>
  /\ UNCHANGED <<open, file, mapTask, remapping, sent, tasks, page>>

-----------------------------------------------------------------------------
(* The mapping task.                                                       *)
MapColumns ==
  /\ CanMap
  /\ Send("map", payload, inFlight)
  /\ UNCHANGED <<open, file, payload, preview, fileError, mapTask, remapping, tasks, page>>

MapCreated(r) ==
  /\ r.kind = "map" /\ Len(tasks) < MaxTasks
  /\ tasks' = Append(tasks, [file |-> r.payload.file, status |-> "queued"])
  /\ mapTask' = Len(tasks) + 1
  /\ inFlight' = inFlight \ {r}
  /\ UNCHANGED <<open, file, payload, preview, fileError, remapping, sent, page>>

MapRefused(r) ==   \* no worker, or the request failed: only a message
  /\ r.kind = "map"
  /\ inFlight' = inFlight \ {r}
  /\ UNCHANGED <<dialog, sent, tasks, page>>

OtherTask ==   \* any other task of the workspace moves the older ones down the page
  /\ Len(tasks) < MaxTasks
  /\ tasks' = Append(tasks, [file |-> None, status |-> "queued"])
  /\ UNCHANGED <<dialog, sent, inFlight, page>>

Successors_Renamed(s) == CASE s = "queued" -> {"claimed", "cancelled"} [] s = "claimed" -> {"running"}
                           [] s = "running" -> {"succeeded", "failed"} [] OTHER -> {}
Successors(s) == CASE s = "queued" -> {"claimed", "cancelled"}
                   [] s = "claimed" -> {"running", "failed"}
                   [] s = "running" -> {"completed", "empty", "failed"}
                   [] OTHER -> {}

Work(t) ==
  /\ tasks[t].file # None
  /\ \E s \in Successors(tasks[t].status): tasks' = [tasks EXCEPT ![t].status = s]
  /\ UNCHANGED <<dialog, sent, inFlight, page>>

Newest == {t \in DOMAIN tasks: t + PageSize > Len(tasks)}
Poll == /\ mapTask # 0
        /\ page' = [t \in Newest |-> tasks[t]]
        /\ UNCHANGED <<dialog, sent, inFlight, tasks>>

(* The effect that follows the polled task.  A completed one changes the   *)
(* payload at once and previews it again.                                  *)
ApplyMapping ==
  /\ mapTask # 0 /\ Known /\ payload # None /\ page[mapTask].status = "completed"
  /\ payload' = [payload EXCEPT !.mapping = page[mapTask].file]
  /\ mapTask' = 0 /\ remapping' = TRUE
  /\ Send("remap", payload', Outdated(inFlight))
  /\ UNCHANGED <<open, file, preview, fileError, tasks, page>>

Ends_Failed == {"empty", "failed"}
Ends == {"empty", "failed", "cancelled"}
GiveUpMapping ==
  /\ mapTask # 0 /\ Known /\ payload # None /\ page[mapTask].status \in Ends
  /\ mapTask' = 0
  /\ UNCHANGED <<open, file, payload, preview, fileError, remapping, sent, inFlight, tasks, page>>

RemapAnswered(r) ==
  /\ r.kind = "remap"
  /\ \/ /\ Latest(r) /\ remapping' = FALSE
        /\ payload' = r.payload /\ preview' = r.payload /\ fileError' = FALSE
        /\ inFlight' = {IF q.kind = "import" THEN [q EXCEPT !.own = FALSE] ELSE q: q \in inFlight \ {r}}
     \/ /\ Latest(r) /\ remapping' = FALSE
        /\ fileError' = TRUE
        /\ inFlight' = inFlight \ {r} /\ UNCHANGED <<payload, preview>>
     \/ ~Latest(r) /\ inFlight' = inFlight \ {r} /\ UNCHANGED <<payload, preview, fileError, remapping>>
  /\ UNCHANGED <<open, file, mapTask, sent, tasks, page>>

-----------------------------------------------------------------------------
Import ==
  /\ CanImport
  /\ Send("import", payload, inFlight)
  /\ UNCHANGED <<open, file, payload, preview, fileError, mapTask, remapping, tasks, page>>

(* The answer closes whichever dialog is open; the latest preview request  *)
(* keeps its number.                                                       *)
Imported(r) ==
  /\ r.kind = "import"
  /\ open' = FALSE /\ file' = None /\ fileError' = FALSE /\ Reset
  /\ inFlight' = inFlight \ {r}
  /\ UNCHANGED <<sent, tasks, page>>

ImportFailed(r) ==
  /\ r.kind = "import"
  /\ inFlight' = inFlight \ {r}
  /\ UNCHANGED <<dialog, sent, tasks, page>>

Next ==
  \/ OpenDialog \/ CloseDialog \/ ChangeFormat \/ SelectOther \/ \E f \in Files: SelectFile(f)
  \/ MapColumns \/ OtherTask \/ \E t \in DOMAIN tasks: Work(t)
  \/ Poll \/ ApplyMapping \/ GiveUpMapping \/ Import
  \/ \E r \in inFlight: PreviewAnswered(r) \/ MapCreated(r) \/ MapRefused(r) \/ RemapAnswered(r)
                        \/ Imported(r) \/ ImportFailed(r)

(* The page polls every 2.5 s and React runs the effect after every change; *)
(* requests end; a worker finishes what it has claimed.  Nothing is assumed *)
(* of the user.                                                            *)
Fairness ==
  /\ WF_vars(Poll) /\ WF_vars(ApplyMapping) /\ WF_vars(GiveUpMapping)
  /\ WF_vars(\E t \in DOMAIN tasks: Work(t))
  /\ WF_vars(\E r \in inFlight: PreviewAnswered(r) \/ RemapAnswered(r))

Spec == Init /\ [][Next]_vars /\ Fairness

-----------------------------------------------------------------------------
(* The preview on screen is about the file on screen: the answer for a     *)
(* file the user has replaced meanwhile is never shown (the request        *)
(* numbers of previewImport).                                              *)
ShownIsChosen == (file # None /\ preview # None) => preview.file = file

(* What the user can confirm is what the preview shows, mapping included:  *)
(* integration-guide "call /test-cases/import with the same body only      *)
(* after the user confirms".                                               *)
ConfirmedIsPreviewed == CanImport => preview = payload

(* The dialog does not wait for a mapping task for ever: it leaves the     *)
(* waiting state unless the task has left the polled page or there is      *)
(* nothing to apply the answer to.                                         *)
Waiting == mapTask # 0 /\ payload # None /\ (mapTask \in Newest \/ Known) /\ sent < MaxRequests

(* A file is mapped by the suggestions made for its own columns: "the      *)
(* worker returns suggestions only, the user reviews them, and the client  *)
(* re-previews/imports with explicit columnMappings".  It fails: the       *)
(* answer that creates the task is not tied to the file it was asked for.  *)
MappedByOwnColumns == payload # None => payload.mapping \in {None, payload.file}
=============================================================================
