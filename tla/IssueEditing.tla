----------------------------- MODULE IssueEditing -----------------------------
(***************************************************************************)
(* The fields of one issue: title, body, status, labels and child tasks,   *)
(* as the issue page edits them (packages/views/src/issue-detail-page.tsx, *)
(* issue-labels.ts), and the background triage that refines the title and  *)
(* classifies the type (server/internal/control).                          *)
(***************************************************************************)
EXTENDS Naturals, FiniteSets

CONSTANTS
    Windows,            \* open pages of the issue
    Types, Priorities,  \* label keys of the two dimensions
    Tasks,              \* child issues
    Does,               \* bound: which parts are used
    MaxTyped, MaxFails  \* bounds: new texts typed, requests lost

\* What the constants must satisfy.
IssueEditingAssumption ==
    /\ Does \subseteq {"content", "labels", "status", "tasks", "triage"}
    /\ {MaxTyped, MaxFails} \subseteq Nat /\ Types \cap Priorities = {}

VARIABLES
    issue,      \* title, body, status, type, priority, triage
    kids,       \* status of each child task
    triage,     \* the issue_type_triage task
    known,      \* the window's copy of the issue and its tasks
    editor,     \* the window's title and body drafts, while it edits
    posts,      \* requests under way
    told,       \* history: what the last request of each kind was told to be saved
    chosen,     \* history: a person has chosen a type
    typed, fails

server == <<issue, kids, triage>>
vars == <<server, known, editor, posts, told, chosen, typed, fails>>

NoLabel == "none"
Empty == 0                      \* an empty title
Draft == 1                      \* the title the issue was created with
Refined == 2                    \* the title of the triage worker
Texts == 0..MaxTyped + 2
Dimension(key) == IF key \in Types THEN "type" ELSE "priority"
Statuses == {"open", "closed", "cancelled", "changes_requested"}

Copy == {[issue |-> issue, kids |-> kids]}
Detail(w) == CHOOSE d \in known[w] : TRUE
Pending(w, op) == \E r \in posts : r.win = w /\ r.op = op
Untold == [content |-> {}, labels |-> {}, status |-> {}, tasks |-> [t \in Tasks |-> {}]]

TypeOK ==
    /\ issue \in [title : Texts \ {Empty}, body : Texts, status : Statuses, type : Types \cup {NoLabel},
                  priority : Priorities \cup {NoLabel}, triage : {"pending", "classified", "failed", "none"}]
    /\ kids \in [Tasks -> {"absent", "open", "closed", "gone"}]
    /\ triage \in {"queued", "done"}
    /\ \A w \in Windows : Cardinality(known[w]) <= 1 /\ (editor[w] # {} => known[w] # {})
    /\ \A r, q \in posts : r.win = q.win /\ r.op = q.op /\ r.op # "tasks" => r = q

Init ==
    /\ issue = [title |-> Draft, body |-> Draft, status |-> "open", type |-> NoLabel, priority |-> NoLabel,
                triage |-> IF "triage" \in Does THEN "pending" ELSE "none"]
    /\ \E first \in Tasks : kids = [t \in Tasks |-> IF t = first THEN "open" ELSE "absent"]
    /\ triage = IF "triage" \in Does THEN "queued" ELSE "done"
    /\ known = [w \in Windows |-> {}] /\ editor = [w \in Windows |-> {}] /\ posts = {}
    /\ told = Untold /\ chosen = FALSE /\ typed = 0 /\ fails = MaxFails

-----------------------------------------------------------------------------
\* Title and body.

Editing(w) == editor[w] # {}
Text(w) == CHOOSE e \in editor[w] : TRUE

StartIssueEditing(w) ==
    /\ "content" \in Does /\ known[w] # {} /\ ~Editing(w)
    /\ LET shown == Detail(w).issue
       IN editor' = [editor EXCEPT ![w] = {[title |-> shown.title, body |-> shown.body, base |-> shown.title]}]
    /\ UNCHANGED <<server, known, posts, told, chosen, typed, fails>>

\* A new title, no title, or a new body; the fields stay open while a save is under way.
TypeText(w) ==
    /\ Editing(w) /\ typed < MaxTyped /\ typed' = typed + 1
    /\ \E next \in {[Text(w) EXCEPT !.title = typed + 3], [Text(w) EXCEPT !.title = Empty], [Text(w) EXCEPT !.body = typed + 3]} :
          editor' = [editor EXCEPT ![w] = {next}]
    /\ UNCHANGED <<server, known, posts, told, chosen, fails>>

CancelIssueEditing(w) ==
    /\ Editing(w) /\ ~Pending(w, "content") /\ editor' = [editor EXCEPT ![w] = {}]
    /\ UNCHANGED <<server, known, posts, told, chosen, typed, fails>>

CanSave_Pending(w) == Text(w).title # Empty   \* mutant: also while a save is under way

CanSave(w) == Text(w).title # Empty /\ ~Pending(w, "content")

\* What is asked for is kept apart, and compared with the issue once it is told.
Ask(w, op, what) == posts' = posts \cup {[win |-> w, op |-> op, what |-> what, pc |-> "sent"]}

SaveIssueContent(w) ==
    /\ Editing(w) /\ CanSave(w) /\ Ask(w, "content", Text(w))
    /\ told' = [told EXCEPT !.content = {}]
    /\ UNCHANGED <<server, known, editor, chosen, typed, fails>>

-----------------------------------------------------------------------------
\* Labels.

\* The header and the pickers; the type has no picker while it is being classified.
TypeShown(w) ==
    LET shown == Detail(w).issue
    IN IF shown.type = NoLabel /\ shown.triage = "pending" THEN "classifying" ELSE shown.type

CanPick_Always(w, dimension) == TRUE          \* mutant: the pickers stay open while a choice is saved

CanPick(w, dimension) ==
    /\ ~Pending(w, "labels")
    /\ dimension = "type" => TypeShown(w) # "classifying"

\* nextIssueLabelSelection: the labels shown, with one dimension replaced.
NextSelection(w, dimension, key) ==
    LET shown == Detail(w).issue
    IN [type |-> IF dimension = "type" THEN key ELSE shown.type,
        priority |-> IF dimension = "priority" THEN key ELSE shown.priority, by |-> dimension]

PickLabel(w, dimension, key) ==
    /\ "labels" \in Does /\ known[w] # {} /\ CanPick(w, dimension)
    /\ key \in {NoLabel} \cup (IF dimension = "type" THEN Types ELSE Priorities)
    /\ Ask(w, "labels", NextSelection(w, dimension, key))
    /\ told' = [told EXCEPT !.labels = {c \in @ : c.dimension # dimension}]
    /\ chosen' = (chosen \/ dimension = "type")
    /\ UNCHANGED <<server, known, editor, typed, fails>>

-----------------------------------------------------------------------------
\* Status and child tasks.

\* Close, close as not planned, or reopen for changes.
Lifecycle(status) == IF status \in {"closed", "cancelled"} THEN {"changes_requested"} ELSE {"closed", "cancelled"}

PressStatus(w) ==
    /\ "status" \in Does /\ known[w] # {} /\ ~Pending(w, "status")
    /\ \E status \in Lifecycle(Detail(w).issue.status) : Ask(w, "status", status)
    /\ told' = [told EXCEPT !.status = {}]
    /\ UNCHANGED <<server, known, editor, chosen, typed, fails>>

Listed(w, t) == Detail(w).kids[t] \in {"open", "closed"}

\* The title of a new task is typed and sent; one at a time.
CreateTask(w) ==
    /\ "tasks" \in Does /\ known[w] # {} /\ ~Pending(w, "create")
    /\ \E t \in Tasks : kids[t] = "absent"                 \* bound
    /\ Ask(w, "create", NoLabel)
    /\ UNCHANGED <<server, known, editor, told, chosen, typed, fails>>

\* Only the task of the newest change is held back; one that was asked before it may be pressed again.
Newest(r) == r.op = "tasks" /\ \A q \in posts : q.op = "tasks" /\ q.win = r.win => q.what.order <= r.what.order
Busy(w, t) == \E r \in posts : r.win = w /\ Newest(r) /\ r.what.task = t
Order(w) == Cardinality({r \in posts : r.op = "tasks" /\ r.win = w})

Underway(w, t) == \E r \in posts : r.win = w /\ r.op = "tasks" /\ r.what.task = t /\ r.pc = "sent"

ToggleTask(w, t) ==
    /\ "tasks" \in Does /\ known[w] # {} /\ Listed(w, t) /\ ~Busy(w, t) /\ Order(w) < Cardinality(Tasks) + 1
    /\ \A r \in posts : r.op = "tasks" /\ r.win = w => r.what.order # Order(w)
    /\ LET status == IF Detail(w).kids[t] = "closed" THEN "open" ELSE "closed"
       IN /\ Ask(w, "tasks", [task |-> t, status |-> status, order |-> Order(w)])
          /\ told' = [told EXCEPT !.tasks[t] = IF Underway(w, t) THEN {} ELSE {status}]
    /\ UNCHANGED <<server, known, editor, chosen, typed, fails>>

DeleteTask(w, t) ==
    /\ "tasks" \in Does /\ known[w] # {} /\ Listed(w, t) /\ ~Busy(w, t) /\ ~Pending(w, "delete")
    /\ Ask(w, "delete", [task |-> t]) /\ told' = [told EXCEPT !.tasks[t] = {}]
    /\ UNCHANGED <<server, known, editor, chosen, typed, fails>>

-----------------------------------------------------------------------------
\* The server.

Handled(r) == posts' = (posts \ {r}) \cup {[r EXCEPT !.pc = "answered"]}

\* mutant: the title is compared with the triage's draft for every update
Patched_Cas(r) ==
    IF r.op = "status" THEN [issue EXCEPT !.status = r.what]
    ELSE [issue EXCEPT !.title = IF @ = Draft THEN r.what.title ELSE @, !.body = r.what.body]

Patched(r) ==
    IF r.op = "status" THEN [issue EXCEPT !.status = r.what]
    ELSE [issue EXCEPT !.title = r.what.title, !.body = r.what.body]

\* UpdateIssue patches what the request holds; the page always sends title and body together.
UpdateIssue(r) ==
    /\ r.op \in {"content", "status"} /\ r.pc = "sent" /\ Handled(r)
    /\ issue' = Patched(r)
    /\ UNCHANGED <<kids, triage, known, editor, told, chosen, typed, fails>>

UpdateIssueLabels(r) ==
    /\ r.op = "labels" /\ r.pc = "sent" /\ Handled(r)
    /\ issue' = [issue EXCEPT !.type = r.what.type, !.priority = r.what.priority,
                              !.triage = IF r.what.type # NoLabel THEN "classified" ELSE "none"]
    /\ UNCHANGED <<kids, triage, known, editor, told, chosen, typed, fails>>

\* mutant: the server turns the status over
TaskStatus_Toggle(r) == IF kids[r.what.task] = "closed" THEN "open" ELSE "closed"

TaskStatus(r) == r.what.status

CreateIssueTask(r) ==
    /\ r.op = "create" /\ r.pc = "sent" /\ Handled(r)
    /\ \E t \in Tasks : kids[t] = "absent" /\ kids' = [kids EXCEPT ![t] = "open"]
    /\ UNCHANGED <<issue, triage, known, editor, told, chosen, typed, fails>>

\* UpdateIssue of the child issue, or DeleteIssueTask; a task that is gone is not found.
UpdateTask(r) ==
    /\ r.op \in {"tasks", "delete"} /\ r.pc = "sent" /\ Handled(r)
    /\ kids' = IF kids[r.what.task] = "gone" THEN kids
               ELSE [kids EXCEPT ![r.what.task] = IF r.op = "delete" THEN "gone" ELSE TaskStatus(r)]
    /\ UNCHANGED <<issue, triage, known, editor, told, chosen, typed, fails>>

Failed_Pending == issue.triage         \* mutant: a triage that failed leaves the issue pending

Failed == IF issue.triage = "pending" THEN "failed" ELSE issue.triage

\* reconcileIssueTypeTriageRuntimeResultLocked: the title by compare-and-set, the type while it is pending.
TriageEnds(result) ==
    /\ triage = "queued" /\ triage' = "done"
    /\ issue' = IF result = NoLabel THEN [issue EXCEPT !.triage = Failed]
                ELSE [issue EXCEPT !.title  = IF @ = Draft THEN Refined ELSE @,
                                   !.type   = IF issue.triage = "pending" THEN result ELSE @,
                                   !.triage = IF @ = "pending" THEN "classified" ELSE @]
    /\ UNCHANGED <<kids, known, editor, posts, told, chosen, typed, fails>>

-----------------------------------------------------------------------------
\* Answers.

TellSaved(r) ==
    CASE r.op = "content" -> [told EXCEPT !.content = {[title |-> r.what.title, body |-> r.what.body]}]
      [] r.op = "labels"  -> [told EXCEPT !.labels = @ \cup {[dimension |-> r.what.by, key |-> r.what[r.what.by]]}]
      [] r.op = "status"  -> [told EXCEPT !.status = {r.what}]
      [] OTHER            -> told

\* onSuccess: the editor closes, then the page waits for the refetch.
Answered(r) ==
    /\ r.pc = "answered" /\ told' = TellSaved(r)
    /\ posts' = (posts \ {r}) \cup {[r EXCEPT !.pc = "refetch"]}
    /\ editor' = IF r.op = "content" THEN [editor EXCEPT ![r.win] = {}] ELSE editor
    /\ UNCHANGED <<server, known, chosen, typed, fails>>

\* Opening the editor again meanwhile drops the mutation: reset().
Refetched(r) ==
    /\ r.pc = "refetch" /\ posts' = posts \ {r} /\ known' = [known EXCEPT ![r.win] = Copy]
    /\ UNCHANGED <<server, editor, told, chosen, typed, fails>>

\* The request or its answer is lost: the error is shown, and nothing refetched.
Lost(r) ==
    /\ r.pc \in {"sent", "answered"} /\ fails > 0 /\ fails' = fails - 1 /\ posts' = posts \ {r}
    /\ told' = IF r.op = "tasks" THEN [told EXCEPT !.tasks[r.what.task] = {}] ELSE told
    /\ UNCHANGED <<server, known, editor, chosen, typed>>

Poll(w) ==
    /\ known' = [known EXCEPT ![w] = Copy]
    /\ UNCHANGED <<server, editor, posts, told, chosen, typed, fails>>

Serve(r) == UpdateIssue(r) \/ UpdateIssueLabels(r) \/ CreateIssueTask(r) \/ UpdateTask(r) \/ Answered(r) \/ Refetched(r)

Next ==
    \/ \E w \in Windows :
          \/ StartIssueEditing(w) \/ TypeText(w) \/ CancelIssueEditing(w) \/ SaveIssueContent(w) \/ PressStatus(w)
          \/ CreateTask(w) \/ Poll(w)
          \/ \E key \in Types \cup Priorities : PickLabel(w, Dimension(key), key) \/ PickLabel(w, Dimension(key), NoLabel)
          \/ \E t \in Tasks : ToggleTask(w, t) \/ DeleteTask(w, t)
    \/ \E result \in Types \cup {NoLabel} : TriageEnds(result)
    \/ \E r \in posts : Serve(r) \/ Lost(r)

\* The triage task of a worker ends, and the issue is polled.
Spec ==
    /\ Init /\ [][Next]_vars
    /\ WF_vars(\E result \in Types \cup {NoLabel} : TriageEnds(result))
    /\ \A w \in Windows : WF_vars(Poll(w))

-----------------------------------------------------------------------------
\* Properties.

\* What Save said it saved is what the issue holds, but for the refinement of an untouched draft title.
SaveStands ==
    \A saved \in told.content :
        (~\E r \in posts : r.op = "content" /\ r.pc = "sent") =>
            issue.body = saved.body /\ (issue.title = saved.title \/ (saved.title = Draft /\ issue.title = Refined))

\* A label or status that was chosen, and told to be saved, stays until the next choice
\* of its kind, whatever is chosen in the other dimension and whatever the triage says.
ChoicesKept ==
    /\ \A c \in told.labels : (~\E r \in posts : r.op = "labels") => issue[c.dimension] = c.key
    /\ \A s \in told.status : (~\E r \in posts : r.op = "status") => issue.status = s

\* A task ends as the last press on it asked, also when it is pressed again before it is
\* refetched; a press while the request of an earlier one is on its way may be overtaken by it.
TogglesKept ==
    \A t \in Tasks : \A s \in told.tasks[t] :
        (~\E r \in posts : r.op \in {"tasks", "delete"} /\ r.what.task = t) => kids[t] \in {s, "gone"}

\* "Classifying" comes to an end in every window.
ClassifyingEnds ==
    \A w \in Windows : (known[w] # {} /\ TypeShown(w) = "classifying") ~> (known[w] # {} /\ TypeShown(w) # "classifying")

\* A save in which only the body was edited leaves the title alone.
BodyEditKeepsTitle ==
    [][\A r \in posts : r.op = "content" /\ r.pc = "sent" /\ r.what.title = r.what.base
                          /\ [r EXCEPT !.pc = "answered"] \in posts' => issue'.title = issue.title]_vars

\* An issue whose triage ended with a type has one, unless a person has chosen a type or none.
Classified == triage = "done" /\ ~chosen => issue.type # NoLabel \/ issue.triage = "failed"
=============================================================================
