---- MODULE MCIssuePage ----
(*****************************************************************************)
(* The page of an issue: the composer, the logs and summaries of its         *)
(* sessions, its content, labels and tasks, the evidence and the preview     *)
(* of a diff; and the inbox that leads to it. Each runs alone, chosen by     *)
(* the variable part; an instance gives a component the constants of one     *)
(* question. The module extends Inbox, so that what is proved of it is       *)
(* checked here as it stands.                                                *)
(*****************************************************************************)
EXTENDS Inbox

CONSTANTS devNull, feat, fix, i1, i2, n1, n2, none, p1, p2, s1, t1, tornPath, w1
CONSTANTS u1
CONSTANTS First, MaxText, Logged, MaxLoads, Windows, Tasks, Fails, Builds, Names,
    Quoted, Twins

VARIABLES
    part,   \* the component that runs, and in which instance
    server, worker, issueComposerPage, issueComposerKnown, avail, draft, edit, attach,
    issueComposerPosts, links, budget,
    status, logs, listed, shots, loads, timer, stopping, sessionSnapshotsFails,
    issue, kids, triage, issueEditingKnown, editor, issueEditingPosts, told, chosen,
    typed, issueEditingFails,
    sessions, env, reviews, failures, commits, runs, reading, issueEvidenceKnown,
    text, commit, at, cut,
    postgresChanged, postgresEvents, postgresUnread, postgresListing, postgresPage,
    postgresClicks, postgresFails, postgresAppeared, postgresCleared

issueComposerVars == <<server, worker, issueComposerPage, issueComposerKnown, avail, draft,
    edit, attach, issueComposerPosts, links, budget>>
sessionSnapshotsVars == <<status, logs, listed, shots, loads, timer, stopping,
    sessionSnapshotsFails>>
issueEditingVars == <<issue, kids, triage, issueEditingKnown, editor, issueEditingPosts,
    told, chosen, typed, issueEditingFails>>
issueEvidenceVars == <<sessions, env, reviews, failures, commits, runs, reading,
    issueEvidenceKnown>>
diffPreviewVars == <<text, commit, at, cut>>
postgresVars == <<postgresChanged, postgresEvents, postgresUnread, postgresListing,
    postgresPage, postgresClicks, postgresFails, postgresAppeared, postgresCleared>>
inboxVars == <<vars, postgresVars>>
partsVars == <<part, issueComposerVars, sessionSnapshotsVars, issueEditingVars, issueEvidenceVars,
    diffPreviewVars, inboxVars>>

\* The values in which the instances differ.
SendingIssues == {i1, i2}
SendingDoes == {"open", "type", "send", "continue"}
EditingCommentIssues == {i1}
EditingCommentDoes == {"type", "send", "edit"}
ContentTypes == {fix}
ContentPriorities == {p1}
ContentDoes == {"content", "triage"}
LabelsTypes == {fix, feat}
LabelsPriorities == {p1, p2}
LabelsDoes == {"labels", "status", "triage"}
TasklistDoes == {"tasks"}
ClassifyingDoes == {"labels", "triage"}
PostgresInstants == {11, 12}
PostgresDoes == {"change", "refused", "read one"}

Sending == INSTANCE IssueComposer WITH Issues <- SendingIssues, Team <- FALSE,
    Does <- SendingDoes, MaxSend <- 2, MaxFail <- 0, MaxAway <- 1,
    page <- issueComposerPage, known <- issueComposerKnown,
    posts <- issueComposerPosts
EditingComment == INSTANCE IssueComposer WITH Issues <- EditingCommentIssues,
    Team <- TRUE, Does <- EditingCommentDoes, MaxSend <- 1, MaxFail <- 1, MaxAway <- 2,
    page <- issueComposerPage, known <- issueComposerKnown,
    posts <- issueComposerPosts
Logs == INSTANCE SessionSnapshots WITH Sessions <- Logged, MaxLog <- 2,
    MaxFail <- 0, fails <- sessionSnapshotsFails
FailingReads == INSTANCE SessionSnapshots WITH Sessions <- Logged, MaxLog <- 1,
    MaxFail <- 2, fails <- sessionSnapshotsFails
Content == INSTANCE IssueEditing WITH Types <- ContentTypes,
    Priorities <- ContentPriorities, Does <- ContentDoes, MaxTyped <- 2, MaxFails <- 1,
    known <- issueEditingKnown, posts <- issueEditingPosts, fails <- issueEditingFails
Labels == INSTANCE IssueEditing WITH Types <- LabelsTypes, Priorities <- LabelsPriorities,
    Does <- LabelsDoes, MaxTyped <- 0, MaxFails <- 0, known <- issueEditingKnown,
    posts <- issueEditingPosts, fails <- issueEditingFails
Tasklist == INSTANCE IssueEditing WITH Types <- ContentTypes,
    Priorities <- ContentPriorities, Does <- TasklistDoes, MaxTyped <- 0, MaxFails <- 2,
    known <- issueEditingKnown, posts <- issueEditingPosts, fails <- issueEditingFails
Classifying == INSTANCE IssueEditing WITH Types <- ContentTypes,
    Priorities <- ContentPriorities, Does <- ClassifyingDoes, MaxTyped <- 0,
    MaxFails <- 1, known <- issueEditingKnown, posts <- issueEditingPosts,
    fails <- issueEditingFails
Packet == INSTANCE IssueEvidence WITH Torn <- FALSE, MaxSessions <- 4,
    known <- issueEvidenceKnown
TornReads == INSTANCE IssueEvidence WITH Torn <- TRUE, MaxSessions <- 3,
    known <- issueEvidenceKnown
Diff == INSTANCE DiffPreview WITH DevNull <- devNull, TornPath <- tornPath, None <- none,
    MaxHunks <- 2, MaxGap <- 2, MaxLines <- 2
Postgres == INSTANCE Inbox WITH Database <- TRUE, Team <- FALSE,
    Instants <- PostgresInstants, Does <- PostgresDoes, changed <- postgresChanged,
    events <- postgresEvents, unread <- postgresUnread, listing <- postgresListing,
    page <- postgresPage, clicks <- postgresClicks, fails <- postgresFails,
    appeared <- postgresAppeared, cleared <- postgresCleared

\* Every instance satisfies what its component assumes of the constants.
ASSUME InstancesAssumption == Sending!IssueComposerAssumption
    /\ EditingComment!IssueComposerAssumption /\ Logs!SessionSnapshotsAssumption
    /\ FailingReads!SessionSnapshotsAssumption /\ Content!IssueEditingAssumption
    /\ Labels!IssueEditingAssumption /\ Tasklist!IssueEditingAssumption
    /\ Classifying!IssueEditingAssumption /\ Packet!IssueEvidenceAssumption
    /\ TornReads!IssueEvidenceAssumption /\ Diff!PreviewAssumption
    /\ InboxAssumption /\ Postgres!InboxAssumption

\* One component runs; the variables of the others stand still.
IssueComposerInit ==
  \/ part = "sending" /\ Sending!Init
  \/ part = "editing a comment" /\ EditingComment!Init
  \/ part \notin {"sending", "editing a comment"} /\ server = 0 /\ worker = 0
     /\ issueComposerPage = 0 /\ issueComposerKnown = 0 /\ avail = 0 /\ draft = 0 /\ edit = 0
     /\ attach = 0 /\ issueComposerPosts = 0 /\ links = 0 /\ budget = 0
SessionSnapshotsInit ==
  \/ part = "logs" /\ Logs!Init
  \/ part = "failing reads" /\ FailingReads!Init
  \/ part \notin {"logs", "failing reads"} /\ status = 0 /\ logs = 0 /\ listed = 0
     /\ shots = 0 /\ loads = 0 /\ timer = 0 /\ stopping = 0 /\ sessionSnapshotsFails = 0
IssueEditingInit ==
  \/ part = "content" /\ Content!Init
  \/ part = "labels" /\ Labels!Init
  \/ part = "tasks" /\ Tasklist!Init
  \/ part = "classifying" /\ Classifying!Init
  \/ part \notin {"content", "labels", "tasks", "classifying"} /\ issue = 0 /\ kids = 0
     /\ triage = 0 /\ issueEditingKnown = 0 /\ editor = 0 /\ issueEditingPosts = 0
     /\ told = 0 /\ chosen = 0 /\ typed = 0 /\ issueEditingFails = 0
IssueEvidenceInit ==
  \/ part = "packet" /\ Packet!Init
  \/ part = "torn reads" /\ TornReads!Init
  \/ part \notin {"packet", "torn reads"} /\ sessions = 0 /\ env = 0 /\ reviews = 0
     /\ failures = 0 /\ commits = 0 /\ runs = 0 /\ reading = 0 /\ issueEvidenceKnown = 0
DiffPreviewInit ==
  \/ part = "diff" /\ Diff!Init
  \/ part # "diff" /\ text = 0 /\ commit = 0 /\ at = 0 /\ cut = 0

PartsInit ==
  /\ part \in {"sending", "editing a comment", "logs", "failing reads", "content",
      "labels", "tasks", "classifying", "packet", "torn reads", "diff", "inbox", "inbox of Postgres"}
  /\ IssueComposerInit /\ SessionSnapshotsInit /\ IssueEditingInit /\ IssueEvidenceInit
  /\ DiffPreviewInit /\ Init /\ Postgres!Init

OnlyIssueComposer == UNCHANGED <<part, sessionSnapshotsVars, issueEditingVars,
    issueEvidenceVars, diffPreviewVars, inboxVars>>
OnlySessionSnapshots == UNCHANGED <<part, issueComposerVars, issueEditingVars,
    issueEvidenceVars, diffPreviewVars, inboxVars>>
OnlyIssueEditing == UNCHANGED <<part, issueComposerVars, sessionSnapshotsVars,
    issueEvidenceVars, diffPreviewVars, inboxVars>>
OnlyIssueEvidence == UNCHANGED <<part, issueComposerVars, sessionSnapshotsVars,
    issueEditingVars, diffPreviewVars, inboxVars>>
OnlyDiffPreview == UNCHANGED <<part, issueComposerVars, sessionSnapshotsVars,
    issueEditingVars, issueEvidenceVars, inboxVars>>
OnlyInbox == UNCHANGED <<part, issueComposerVars, sessionSnapshotsVars, issueEditingVars,
    issueEvidenceVars, diffPreviewVars>>

IssueComposerNext ==
  /\ \/ part = "sending" /\ Sending!Next
     \/ part = "editing a comment" /\ EditingComment!Next
  /\ OnlyIssueComposer
SessionSnapshotsNext ==
  /\ \/ part = "logs" /\ Logs!Next
     \/ part = "failing reads" /\ FailingReads!Next
  /\ OnlySessionSnapshots
IssueEditingNext ==
  /\ \/ part = "content" /\ Content!Next
     \/ part = "labels" /\ Labels!Next
     \/ part = "tasks" /\ Tasklist!Next
     \/ part = "classifying" /\ Classifying!Next
  /\ OnlyIssueEditing
IssueEvidenceNext ==
  /\ \/ part = "packet" /\ Packet!Next
     \/ part = "torn reads" /\ TornReads!Next
  /\ OnlyIssueEvidence
DiffPreviewNext == part = "diff" /\ Diff!Next /\ OnlyDiffPreview
InboxNext ==
  /\ \/ part = "inbox" /\ Next /\ UNCHANGED postgresVars
     \/ part = "inbox of Postgres" /\ Postgres!Next /\ UNCHANGED vars
  /\ OnlyInbox

PartsNext == \/ IssueComposerNext \/ SessionSnapshotsNext \/ IssueEditingNext
        \/ IssueEvidenceNext \/ DiffPreviewNext \/ InboxNext

\* What each module says of its own fairness, while it runs.
PartsSpec ==
  /\ PartsInit /\ [][PartsNext]_partsVars
  /\ WF_issueComposerVars(part = "editing a comment" /\ EditingComment!Network("send"))
  /\ WF_sessionSnapshotsVars(part = "failing reads" /\ FailingReads!Poll)
  /\ WF_sessionSnapshotsVars(part = "failing reads" /\ FailingReads!RetryTimer)
  /\ WF_sessionSnapshotsVars(part = "failing reads" /\ FailingReads!Reading("full"))
  /\ WF_sessionSnapshotsVars(part = "failing reads" /\ FailingReads!Reading("retry"))
  /\ WF_sessionSnapshotsVars(part = "failing reads" /\ FailingReads!Reading("tick"))
  /\ WF_issueEditingVars(part = "classifying" /\ \E result \in {fix, Classifying!NoLabel} : Classifying!TriageEnds(result))
  /\ WF_issueEditingVars(part = "classifying" /\ Classifying!Poll(w1))
  /\ WF_issueEvidenceVars(part = "torn reads" /\ TornReads!GetIssue)
  /\ WF_issueEvidenceVars(part = "torn reads" /\ TornReads!ReadEnvironment)
  /\ WF_postgresVars(part = "inbox of Postgres" /\ Postgres!Poll(u1))
  /\ WF_postgresVars(part = "inbox of Postgres" /\ Postgres!Show(u1))
  /\ \A e \in {1, 2} : WF_postgresVars(part = "inbox of Postgres"
       /\ e \in DOMAIN postgresEvents /\ Postgres!CommitIssueEvent(e))

-----------------------------------------------------------------------------
\* A comment is being sent; a finished session has no summary yet; an issue is
\* being classified; the packet beside an active environment is of another source;
\* an unread event has not appeared.
Unsettled ==
    \/ part = "editing a comment" /\ EditingComment!Sending
    \/ part = "failing reads" /\ listed[s1] = "completed" /\ FailingReads!Shown(s1) \notin {"message", "no summary"}
    \/ part = "classifying" /\ issueEditingKnown[w1] # {} /\ Classifying!TypeShown(w1) = "classifying"
    \/ part = "torn reads" /\ ~TornReads!PacketOfEnvironment
    \/ /\ part = "inbox of Postgres"
       /\ \E e \in {1, 2} : e \in postgresUnread[u1] \ postgresAppeared[u1]

\* What the page of an issue shows and saves:
\* - a session a comment started belongs to the comment's own issue, whatever
\*   issue the page shows when the worker has at last come up;
\* - a finished session is shown with everything it said: a read that began while
\*   it ran never passes for its final one, and "No final summary" is said only of
\*   a session without one;
\* - what Save said it saved is what the issue holds, but for the refinement of an
\*   untouched draft title;
\* - a label or status that was chosen, and told to be saved, stays until the next
\*   choice of its kind, whatever is chosen in the other dimension and whatever
\*   the triage says;
\* - a task ends as the last press on it asked, also when it is pressed again
\*   before it is refetched; a press while the request of an earlier one is on its
\*   way may be overtaken by it;
\* - the packet shown beside an active environment is about the source that runs
\*   there, when the session that brought it there has left its evidence
\*   (currentReviewEvidence), whichever sessions have reported since;
\* - what the environment says it runs is the source that runs there;
\* - every changed and context line that was printed is shown in the section of
\*   its own file, in order, with the numbers it has in the old and the new
\*   content and with the number of the lines left out above it, and nothing else
\*   is shown as a line: not the names of the files, nor what a cut has torn
\*   (parseUnifiedDiffPreview);
\* - the additions and deletions above a section are those of the file it names
\*   (DiffFileSection);
\* - a click on a changed file goes to the section with its lines, unless the cut
\*   has taken them (CommitReviewFilesNav).
PageSound ==
    /\ part = "sending" => Sending!TypeOK /\ Sending!SessionAnchored
    /\ part = "logs" => Logs!FinalLogs /\ Logs!NoFalseSummary
    /\ part = "failing reads" => FailingReads!TypeOK
    /\ part = "content" => Content!TypeOK /\ Content!SaveStands
    /\ part = "labels" => Labels!ChoicesKept
    /\ part = "tasks" => Tasklist!TogglesKept
    /\ part = "packet" => /\ Packet!TypeOK
                          /\ Packet!PacketOfEnvironment /\ Packet!EnvironmentSaysWhatRuns
    /\ part = "diff" => /\ Diff!TypeOK
                        /\ Diff!LinesInPlace /\ Diff!CountsRight /\ Diff!FindsSection

\* What the page waits for comes: the Send button is back, the skeleton of a
\* finished session gives way to its summary, "Classifying" to a type or none, an
\* evidence packet that a torn read has mixed up to the right one, and an unread
\* event appears in its reader's inbox, whichever requests fail.
PageSettles == Unsettled ~> ~Unsettled

=============================================================================
