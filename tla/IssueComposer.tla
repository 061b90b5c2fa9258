---------------------------- MODULE IssueComposer ----------------------------
(***************************************************************************)
(* The issue page's composer (packages/views/src/issue-detail-page.tsx):   *)
(* the draft, the comment being edited, the project attached on the way,   *)
(* and the agent session a comment starts.  A send is several requests; in *)
(* between the user types, edits, opens another issue, and the page polls. *)
(***************************************************************************)
EXTENDS Naturals, Sequences, FiniteSets

CONSTANTS
    Issues, First,      \* the issues of the workspace, and the one opened first
    Team,               \* runtimeMode = "team"
    Does,               \* bound: the operations the user carries out
    MaxText, MaxSend, MaxFail, MaxAway   \* bounds: texts typed, sends, failures, changes of the worker

\* What the constants must satisfy.
IssueComposerAssumption ==
    /\ First \in Issues /\ Team \in BOOLEAN
    /\ {MaxText, MaxSend, MaxFail, MaxAway} \subseteq Nat

VARIABLES
    server,    \* per issue: project attached, source session active, comments, sessions
    worker,    \* a worker of the workspace is ready
    page,      \* issueId
    known,     \* issueQuery per issue
    avail,     \* runtimeAvailabilityQuery of the page
    draft,     \* composerBody
    edit,      \* editingCommentId, editingCommentBody
    attach,    \* projectAttachOpen, projectAttachIntent, projectAttachFeedback
    posts,     \* sendComposer and updateComment, pending
    links,     \* attachProject and createAndAttachProject, pending (bound: one at a time)
    budget

ui == <<draft, edit, attach>>
requests == <<posts, links>>
vars == <<server, worker, page, known, avail, ui, requests, budget>>

Agents == {"none", "known", "unknown"}
Texts == [id : 0..MaxText, agent : Agents]
Empty == [id |-> 0, agent |-> "none"]
NoComment == <<First, 0>>
NoEdit == [comment |-> NoComment, text |-> Empty]
Closed == [open |-> FALSE, intent |-> "sidebar", feedback |-> "none"]
Spend(k) == budget[k] > 0 /\ budget' = [budget EXCEPT ![k] = @ - 1]

Fresh == [project |-> FALSE, active |-> FALSE, comments |-> <<>>, turns |-> {}]
\* The k-th comment of an issue is named by its place: comments are only added.
Comments == Issues \X Nat

TypeOK ==
    /\ worker \in BOOLEAN /\ page \in Issues
    /\ \A i \in Issues :
          /\ {server[i].project, server[i].active} \subseteq BOOLEAN
          /\ \A k \in DOMAIN server[i].comments : server[i].comments[k] \in Texts
          /\ Cardinality(known[i]) <= 1
    /\ avail \in {"none", "ready", "away", "blocked"}
    /\ draft \in Texts /\ edit.text \in Texts /\ edit.comment \in Comments
    /\ attach.open \in BOOLEAN /\ attach.intent \in {"sidebar", "composer", "edit"}
    /\ attach.feedback \in {"none", "sidebar", "composer", "edit"}
    /\ \A r \in posts : r.pc \in {"ensure", "comment", "session", "answered", "refetch"}
    /\ Cardinality({r \in posts : r.op = "send"}) <= 1

Init ==
    /\ server \in {[i \in Issues |-> [Fresh EXCEPT !.project = i \in attached]] : attached \in SUBSET Issues}
    /\ worker \in BOOLEAN /\ page = First
    /\ known = [i \in Issues |-> {}] /\ avail = "none"
    /\ draft = Empty /\ edit = NoEdit /\ attach = Closed
    /\ posts = {} /\ links = {}
    /\ budget = [text |-> MaxText, send |-> MaxSend, fail |-> MaxFail, away |-> MaxAway]

-----------------------------------------------------------------------------
\* What the page shows.

Loaded == known[page] # {}
Detail == CHOOSE d \in known[page] : TRUE
NewText(a) == [id |-> budget.text, agent |-> a]

\* The conditions that canSendComposer and canSaveEditingComment share.
Sendable(text) ==
    /\ text # Empty /\ text.agent # "unknown"
    /\ text.agent = "known" =>
          /\ ~Detail.active /\ avail # "blocked"
          /\ Detail.project /\ Team => avail = "ready"

Sending == \E r \in posts : r.op = "send"
CanSendComposer_Twice == Loaded /\ Sendable(draft)   \* mutant: isPending is not looked at

CanSendComposer == Loaded /\ Sendable(draft) /\ ~Sending
NeedsProject(text) == text.agent = "known" /\ ~Detail.project

Saving(c) == \E r \in posts : r.op = "save" /\ r.comment = c
CanSaveEdit == Sendable(edit.text) /\ ~Saving(edit.comment)

Consumed(d, i, k) == \E t \in d.turns : t.trigger = <<i, k>>

\* editableCommentId
Editable ==
    LET n == Len(Detail.comments) IN
    {<<page, n>> : k \in {j \in {n} : j > 0 /\ ~Detail.active /\ ~Consumed(Detail, page, j)}}

\* The form of the comment being edited is on the page.
EditShown ==
    Loaded /\ edit # NoEdit /\ edit.comment[1] = page /\ edit.comment[2] \in DOMAIN Detail.comments

\* composerHelperText: "attach a project first ... this draft will stay here".
DraftPromised == Loaded /\ NeedsProject(draft) /\ ~Detail.active

\* The dialog covers the page.
Presses(op) == op \in Does /\ ~attach.open

-----------------------------------------------------------------------------
\* The user.

Open(i) ==
    /\ Presses("open") /\ i # page
    /\ page' = i /\ avail' = "none" /\ attach' = Closed
    /\ UNCHANGED <<server, worker, known, draft, edit, requests, budget>>

Type(a) ==
    /\ Presses("type") /\ Loaded /\ Spend("text")
    /\ draft' = NewText(a)
    /\ UNCHANGED <<server, worker, page, known, avail, edit, attach, requests>>

\* A failure's "continue" button replaces the draft.
ContinueFromFailure ==
    /\ Presses("continue") /\ Loaded /\ ~Detail.active /\ Spend("text")
    /\ draft' = NewText("known")
    /\ UNCHANGED <<server, worker, page, known, avail, edit, attach, requests>>

OpenProjectAttach(intent) == attach' = [open |-> TRUE, intent |-> intent, feedback |-> "none"]

\* The request as the click sees it: a mention starts with the worker.
Request(op, text, c) ==
    [op |-> op, pc |-> IF text.agent = "known" THEN "ensure" ELSE "comment",
     issue |-> page, text |-> text, comment |-> c]

PressSend ==
    /\ Presses("send") /\ CanSendComposer
    /\ IF NeedsProject(draft)
       THEN OpenProjectAttach("composer") /\ UNCHANGED <<posts, budget>>
       ELSE /\ posts' = posts \cup {Request("send", draft, NoComment)}
            /\ Spend("send") /\ attach' = attach
    /\ UNCHANGED <<server, worker, page, known, avail, draft, edit, links>>

StartEdit(c) ==
    /\ Presses("edit") /\ Loaded /\ c \in Editable /\ edit.comment # c
    /\ edit' = [comment |-> c, text |-> Detail.comments[c[2]]]
    /\ UNCHANGED <<server, worker, page, known, avail, draft, attach, requests, budget>>

TypeEdit(a) ==
    /\ Presses("edit") /\ EditShown /\ Spend("text")
    /\ edit' = [edit EXCEPT !.text = NewText(a)]
    /\ UNCHANGED <<server, worker, page, known, avail, draft, attach, requests>>

CancelEdit ==
    /\ Presses("edit") /\ EditShown /\ ~Saving(edit.comment)
    /\ edit' = NoEdit
    /\ UNCHANGED <<server, worker, page, known, avail, draft, attach, requests, budget>>

PressSave ==
    /\ Presses("edit") /\ EditShown /\ CanSaveEdit
    /\ IF NeedsProject(edit.text)
       THEN OpenProjectAttach("edit") /\ posts' = posts
       ELSE posts' = posts \cup {Request("save", edit.text, edit.comment)} /\ attach' = attach
    /\ UNCHANGED <<server, worker, page, known, avail, draft, edit, links, budget>>

\* The header and the sidebar open the dialog too.
AttachFromSidebar ==
    /\ Presses("attach") /\ Loaded /\ OpenProjectAttach("sidebar")
    /\ UNCHANGED <<server, worker, page, known, avail, draft, edit, requests, budget>>

CloseAttach ==
    /\ attach.open /\ attach' = [attach EXCEPT !.open = FALSE]
    /\ UNCHANGED <<server, worker, page, known, avail, draft, edit, requests, budget>>

\* Choosing a project, or creating one and attaching it.
ChooseProject(pc) ==
    /\ attach.open /\ links = {} /\ pc \in {"create", "update"}
    /\ links' = {[pc |-> pc, issue |-> page, intent |-> attach.intent]}
    /\ UNCHANGED <<server, worker, page, known, avail, ui, posts, budget>>

-----------------------------------------------------------------------------
\* The requests, and what the server does with them.

Availability(i) ==
    IF server[i].active THEN "blocked" ELSE IF worker THEN "ready" ELSE "away"

Goes(r, next) == posts' = (posts \ {r}) \cup {next}
Ends(r) == posts' = posts \ {r}

\* ensureAgentWorkerReady starts the personal worker and only looks at a team's.
EnsureReady(r) ==
    /\ r.pc = "ensure" /\ ~server[r.issue].active /\ (Team => worker)
    /\ worker' = TRUE
    /\ Goes(r, [r EXCEPT !.pc = "comment"])
    /\ UNCHANGED <<server, page, known, avail, ui, links, budget>>

NotReady(r) ==
    /\ r.pc = "ensure" /\ Availability(r.issue) # "ready" /\ (server[r.issue].active \/ Team)
    /\ Ends(r)
    /\ UNCHANGED <<server, worker, page, known, avail, ui, links, budget>>

Posted(r) ==
    /\ r.pc = "comment"
    /\ LET i == r.issue
           c == IF r.op = "send" THEN <<i, Len(server[i].comments) + 1>> ELSE r.comment
       IN /\ server' = IF r.op = "send"
                       THEN [server EXCEPT ![i].comments = Append(@, r.text)]
                       ELSE [server EXCEPT ![i].comments[c[2]] = r.text]
          /\ Goes(r, [r EXCEPT !.comment = c, !.pc = IF r.text.agent = "known" THEN "session" ELSE "answered"])
    /\ UNCHANGED <<worker, page, known, avail, ui, links, budget>>

TargetIssue_Page(r) == page             \* mutant: the second request reads the newest issueId

TargetIssue(r) == r.issue

TurnAllowed(i) == server[i].project /\ ~server[i].active /\ worker

TurnStarted(r) ==
    /\ r.pc = "session" /\ TurnAllowed(TargetIssue(r))
    /\ server' = [server EXCEPT ![TargetIssue(r)].active = TRUE,
                                ![TargetIssue(r)].turns = @ \cup {[trigger |-> r.comment, text |-> r.text]}]
    /\ Goes(r, [r EXCEPT !.pc = "answered"])
    /\ UNCHANGED <<worker, page, known, avail, ui, links, budget>>

\* An error ends the mutation: the draft, the form and a comment already posted stay.
TurnRefused(r) ==
    /\ r.pc = "session" /\ ~TurnAllowed(TargetIssue(r))
    /\ Ends(r)
    /\ UNCHANGED <<server, worker, page, known, avail, ui, links, budget>>

RequestFails(r) ==
    /\ r.pc \in {"ensure", "comment", "session"} /\ Spend("fail")
    /\ Ends(r)
    /\ UNCHANGED <<server, worker, page, known, avail, ui, links>>

Feedback(intent) == IF attach.feedback = intent THEN "none" ELSE attach.feedback

\* onSuccess, with the page as it is now.
Answered(r) ==
    /\ r.pc = "answered"
    /\ IF r.op = "send"
       THEN draft' = Empty /\ attach' = [attach EXCEPT !.feedback = Feedback("composer")] /\ edit' = edit
       ELSE edit' = NoEdit /\ attach' = [attach EXCEPT !.feedback = Feedback("edit")] /\ draft' = draft
    /\ Goes(r, [r EXCEPT !.pc = "refetch"])
    /\ UNCHANGED <<server, worker, page, known, avail, links, budget>>

Settled_Stuck(r) == posts' = posts      \* mutant: the refetch's promise is never settled

Settled(r) == Ends(r)

\* The mutation is pending until the invalidated issue has been read again.
Refetched(r) ==
    /\ r.pc = "refetch"
    /\ known' = [known EXCEPT ![page] = {server[page]}]
    /\ Settled(r)
    /\ UNCHANGED <<server, worker, page, avail, ui, links, budget>>

ProjectCreated(l) ==
    /\ l.pc = "create" /\ links' = {[l EXCEPT !.pc = "update"]}
    /\ UNCHANGED <<server, worker, page, known, avail, ui, posts, budget>>

ProjectAttached(l) ==
    /\ l.pc = "update"
    /\ server' = [server EXCEPT ![l.issue].project = TRUE]
    /\ links' = {[l EXCEPT !.pc = "answered"]}
    /\ UNCHANGED <<worker, page, known, avail, ui, posts, budget>>

AttachFails(l) ==
    /\ l.pc \in {"create", "update"} /\ Spend("fail") /\ links' = {}
    /\ UNCHANGED <<server, worker, page, known, avail, ui, posts>>

AttachAnswered(l) ==
    /\ l.pc = "answered"
    /\ attach' = [attach EXCEPT !.open = FALSE, !.feedback = l.intent]
    /\ known' = [known EXCEPT ![page] = {server[page]}] /\ links' = {}
    /\ UNCHANGED <<server, worker, page, avail, draft, edit, posts, budget>>

-----------------------------------------------------------------------------
\* Polling, and what goes on elsewhere.

Poll ==
    /\ known' = [known EXCEPT ![page] = {server[page]}]
    /\ UNCHANGED <<server, worker, page, avail, ui, requests, budget>>

PollAvailability ==
    /\ avail' = Availability(page)
    /\ UNCHANGED <<server, worker, page, known, ui, requests, budget>>

TurnEnds(i) ==
    /\ server[i].active /\ server' = [server EXCEPT ![i].active = FALSE]
    /\ UNCHANGED <<worker, page, known, avail, ui, requests, budget>>

WorkerChanges ==
    /\ Spend("away") /\ worker' = ~worker
    /\ UNCHANGED <<server, page, known, avail, ui, requests>>

Progress(r) ==
    \/ EnsureReady(r) \/ NotReady(r) \/ Posted(r) \/ TurnStarted(r) \/ TurnRefused(r)
    \/ Answered(r) \/ Refetched(r)
Network(op) == \E r \in posts : r.op = op /\ Progress(r)

Next ==
    \/ \E i \in Issues : Open(i) \/ TurnEnds(i)
    \/ \E a \in Agents : Type(a) \/ TypeEdit(a)
    \/ ContinueFromFailure \/ PressSend \/ CancelEdit \/ PressSave
    \/ \E i \in Issues : \E k \in DOMAIN server[i].comments : StartEdit(<<i, k>>)
    \/ AttachFromSidebar \/ CloseAttach \/ \E pc \in {"create", "update"} : ChooseProject(pc)
    \/ Network("send") \/ Network("save")
    \/ \E r \in posts : RequestFails(r)
    \/ \E l \in links : ProjectCreated(l) \/ ProjectAttached(l) \/ AttachAnswered(l) \/ AttachFails(l)
    \/ Poll \/ PollAvailability \/ WorkerChanges

\* Every request is answered, or fails.
Spec == Init /\ [][Next]_vars /\ WF_vars(Network("send"))

-----------------------------------------------------------------------------
\* Properties.

\* A session a comment started belongs to the comment's own issue, whatever
\* issue the page shows when the worker has at last come up.
SessionAnchored ==
    \A i \in Issues : \A t \in server[i].turns :
        t.trigger[1] = i /\ t.trigger[2] \in DOMAIN server[i].comments

\* The Send button comes back: a send does not stay pending for ever.
SendSettles == Sending ~> ~Sending

\* A comment an agent session has consumed is not edited any more.
ConsumedNotEdited ==
    [][\A i \in Issues : \A k \in DOMAIN server[i].comments :
          Consumed(server[i], i, k) => server'[i].comments[k] = server[i].comments[k]]_vars

\* While the page promises that a draft for an agent stays until a project is
\* attached, only the user's typing replaces it.
DraftStays == [][DraftPromised => draft' # Empty]_vars

\* "Project attached ... your draft is still here": there is a draft, and the
\* project is the one of the issue shown.
NoticeTrue == attach.feedback = "composer" => draft # Empty /\ server[page].project
=============================================================================
