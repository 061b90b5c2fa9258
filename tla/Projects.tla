------------------------------- MODULE Projects -------------------------------
(***************************************************************************)
(* The projects of a workspace and their runbooks, as the store keeps them *)
(* (CreateProject .. UpdateProjectRunbook), and the page that creates them *)
(* and edits their settings (packages/views/src/projects-page.tsx).  The   *)
(* runbook is loaded apart from the project, into the same form, and saved *)
(* with it in a second request.                                            *)
(***************************************************************************)
EXTENDS Naturals, FiniteSets

CONSTANTS
    Ids, Names,         \* ids of projects; what can be set apart from the runbook
    Texts, Empty,       \* runbooks; the empty one
    None,
    Team,               \* a team workspace, whose projects are GitHub repositories
    Database,           \* the Postgres store; otherwise the memory store
    Does, Fails,        \* bounds: the operations carried out; what may fail on the way
    MaxEdits, MaxOthers, MaxFails, MaxAsks    \* bounds: of the user, of others, ...

\* What the constants must satisfy.
ProjectsAssumption ==
    /\ Texts # {} /\ Empty \notin Texts /\ None \notin Ids /\ {Team, Database} \subseteq BOOLEAN
    /\ {MaxEdits, MaxOthers, MaxFails, MaxAsks} \subseteq Nat

VARIABLES
    projects,   \* the projects that exist: what is set of them
    runbook,    \* project_runbooks
    working,    \* projects with issues
    gone,       \* history: projects deleted while they had issues
    late,       \* history: projects given an issue when a deletion had counted none
    listed,     \* projectsQuery.data
    cache,      \* the runbooks that were loaded: settingsRunbookQuery.data, by project
    fetching,   \* runbooks being loaded
    page,       \* the settings that are open, and what is typed into them
    seen,       \* history: the runbooks loaded of each project, and those typed for it
    unloaded,   \* history: the runbooks that could not be loaded, and are not yet tried again
    calls,      \* requests under way: saves, deletions, creations
    new,        \* the dialog for a new project
    picking,    \* the folder picker is open
    budget

server == <<projects, runbook, working, gone, late>>
loads == <<listed, cache, fetching, seen, unloaded>>
vars == <<server, loads, page, calls, new, picking, budget>>

Spend(k) == budget[k] > 0 /\ budget' = [budget EXCEPT ![k] = @ - 1]

Contents == Texts \cup {Empty}
ClosedSettings == [open |-> None, name |-> None, hasWork |-> FALSE, draft |-> Empty, touched |-> FALSE]
EmptyForm == [shown |-> FALSE, path |-> FALSE, url |-> FALSE]

TypeOK ==
    /\ DOMAIN projects \subseteq Ids /\ \A p \in DOMAIN projects : projects[p] \in Names
    /\ runbook \in [Ids -> Contents] /\ working \cup late \subseteq Ids
    /\ DOMAIN listed \subseteq Ids /\ fetching \cup unloaded \subseteq Ids
    /\ \A p \in Ids : Cardinality(cache[p]) <= 1 /\ cache[p] \subseteq seen[p]
    /\ page.open \in Ids \cup {None} /\ page.draft \in Contents
    /\ \A r \in calls : r.op \in {"save", "delete", "create"}
    /\ Cardinality({r \in calls : r.op = "save"}) <= 1

Init ==
    /\ \E X \in SUBSET Ids, n \in Names : projects = [p \in X |-> n]
    /\ runbook \in [Ids -> {Empty, CHOOSE t \in Texts : TRUE}]
    /\ working = {} /\ gone = {} /\ late = {} /\ listed = <<>>
    /\ cache = [p \in Ids |-> {}] /\ seen = [p \in Ids |-> {}] /\ fetching = {} /\ unloaded = {}
    /\ page = ClosedSettings /\ calls = {} /\ new = EmptyForm /\ picking = FALSE
    /\ budget = [edits |-> MaxEdits, others |-> MaxOthers, fails |-> MaxFails, asks |-> MaxAsks]

-----------------------------------------------------------------------------
\* Others, in the same workspace.

OtherWritesRunbook(p, t) ==
    /\ "runbooks" \in Does /\ p \in DOMAIN projects /\ t # runbook[p] /\ Spend("others")
    /\ runbook' = [runbook EXCEPT ![p] = t]
    /\ UNCHANGED <<projects, working, gone, late, loads, page, calls, new, picking>>

CreateIssue(p) ==
    /\ "issues" \in Does /\ p \in DOMAIN projects \ working /\ Spend("others")
    /\ working' = working \cup {p}
    /\ late' = late \cup {q \in {p} : \E r \in calls : r.of = p /\ r.pc = "counted"}
    /\ UNCHANGED <<projects, runbook, gone, loads, page, calls, new, picking>>

-----------------------------------------------------------------------------
\* What the page loads.

ListProjects ==
    /\ listed' = [p \in DOMAIN projects |-> [name |-> projects[p], hasWork |-> p \in working]]
    /\ UNCHANGED <<server, cache, fetching, seen, unloaded, page, calls, new, picking, budget>>

\* The effect on settingsProject and settingsRunbookQuery.data.
Filled(s, data) == IF data = {} THEN s ELSE [s EXCEPT !.draft = CHOOSE t \in data : TRUE, !.touched = FALSE]

RunbookLoads(p) ==
    /\ p \in fetching /\ p \in DOMAIN projects
    /\ fetching' = fetching \ {p} /\ unloaded' = unloaded \ {p}
    /\ cache' = [cache EXCEPT ![p] = {runbook[p]}]
    /\ seen' = [seen EXCEPT ![p] = @ \cup {runbook[p]}]
    /\ page' = IF page.open = p /\ cache[p] # {runbook[p]} THEN Filled(page, {runbook[p]}) ELSE page
    /\ UNCHANGED <<server, listed, calls, new, picking, budget>>

RunbookFails(p) ==
    /\ p \in fetching
    /\ p \notin DOMAIN projects \/ ("load" \in Fails /\ budget.fails > 0)
    /\ budget' = IF p \in DOMAIN projects THEN [budget EXCEPT !.fails = @ - 1] ELSE budget
    /\ fetching' = fetching \ {p} /\ unloaded' = unloaded \cup {q \in {p} : cache[q] = {}}
    /\ UNCHANGED <<server, listed, cache, seen, page, calls, new, picking>>

-----------------------------------------------------------------------------
\* The settings of a project.

Pending(op) == \E r \in calls : r.op = op
IsLoading == page.open \in fetching /\ cache[page.open] = {}

Fetch(P) == fetching' = fetching \cup P /\ unloaded' = unloaded \ P

OpenSettings(p) ==
    /\ page.open = None /\ ~new.shown /\ p \in DOMAIN listed
    /\ page' = Filled([ClosedSettings EXCEPT !.open = p, !.name = listed[p].name, !.hasWork = listed[p].hasWork],
                      cache[p])
    /\ Fetch({p})
    /\ UNCHANGED <<server, listed, cache, seen, calls, new, picking, budget>>

\* Back to the projects; not while a save is under way.
CloseSettings ==
    /\ page.open # None /\ ~Pending("save") /\ page' = ClosedSettings
    /\ UNCHANGED <<server, loads, calls, new, picking, budget>>

TypeName(n) ==
    /\ page.open # None /\ n # page.name /\ Spend("edits")
    /\ page' = [page EXCEPT !.name = n]
    /\ UNCHANGED <<server, loads, calls, new, picking>>

\* The editor of the runbook.
TypeRunbook(t) ==
    /\ page.open # None /\ ~IsLoading /\ t # page.draft /\ Spend("edits")
    /\ page' = [page EXCEPT !.draft = t, !.touched = TRUE]
    /\ seen' = [seen EXCEPT ![page.open] = @ \cup {t}]
    /\ UNCHANGED <<server, listed, cache, fetching, unloaded, calls, new, picking>>

SaveDisabled_Loaded == Pending("save")  \* mutant: not while the runbook is being loaded
SaveDisabled_Saving == IsLoading        \* mutant: not while a save is under way

SaveDisabled == Pending("save") \/ IsLoading

Ask(op, body) == calls' = calls \cup {[op |-> op, of |-> page.open, body |-> body, pc |-> "sent"]}

PressSave ==
    /\ "save" \in Does /\ page.open # None /\ ~SaveDisabled /\ Spend("asks")
    /\ Ask("save", [name |-> page.name, text |-> page.draft, touched |-> page.touched,
                    blind |-> page.open \in unloaded])
    /\ UNCHANGED <<server, loads, page, new, picking>>

PressDelete ==
    /\ "delete" \in Does /\ page.open # None /\ ~page.hasWork /\ ~Pending("delete") /\ ~SaveDisabled
    /\ Ask("delete", None)
    /\ UNCHANGED <<server, loads, page, new, picking, budget>>

-----------------------------------------------------------------------------
\* The requests. A save is two of them, the project and then its runbook.

Goes(r, pc) == calls' = (calls \ {r}) \cup {[r EXCEPT !.pc = pc]}

UpdateProject(r) ==
    /\ r.op = "save" /\ r.pc = "sent" /\ r.of \in DOMAIN projects
    /\ projects' = [projects EXCEPT ![r.of] = r.body.name] /\ Goes(r, "runbook")
    /\ UNCHANGED <<runbook, working, gone, late, loads, page, new, picking, budget>>

UpdateProjectRunbook(r) ==
    /\ r.op = "save" /\ r.pc = "runbook" /\ r.of \in DOMAIN projects
    /\ runbook' = [runbook EXCEPT ![r.of] = r.body.text] /\ Goes(r, "ok")
    /\ UNCHANGED <<projects, working, gone, late, loads, page, new, picking, budget>>

\* Counted in one statement and deleted in another; under one lock in memory.
MayDelete_Any(p) == TRUE                \* mutant: the issues are not counted

MayDelete(p) == p \notin working

CountIssues(r) ==
    /\ r.op = "delete" /\ r.pc = "sent" /\ Database /\ r.of \in DOMAIN projects /\ MayDelete(r.of)
    /\ Goes(r, "counted")
    /\ UNCHANGED <<server, loads, page, new, picking, budget>>

DeleteProject(r) ==
    /\ r.op = "delete" /\ r.of \in DOMAIN projects
    /\ (r.pc = "sent" /\ ~Database /\ MayDelete(r.of)) \/ r.pc = "counted"
    /\ projects' = [p \in DOMAIN projects \ {r.of} |-> projects[p]]
    /\ runbook' = [runbook EXCEPT ![r.of] = Empty]
    /\ gone' = gone \cup ({r.of} \cap working) /\ working' = working \ {r.of}
    /\ Goes(r, "ok")
    /\ UNCHANGED <<late, loads, page, new, picking, budget>>

CreateProject(r, n) ==
    /\ r.op = "create" /\ r.pc = "sent" /\ r.body.path # r.body.url
    /\ r.of \notin DOMAIN projects
    /\ projects' = [p \in DOMAIN projects \cup {r.of} |-> IF p = r.of THEN n ELSE projects[p]]
    /\ runbook' = [runbook EXCEPT ![r.of] = Empty] /\ Goes(r, "ok")
    /\ UNCHANGED <<working, gone, late, loads, page, new, picking, budget>>

\* An error: the project is not there, is in use or exists; or the request is lost.
Refused(r) ==
    \/ r.op \in {"save", "delete"} /\ r.pc \in {"sent", "runbook", "counted"} /\ r.of \notin DOMAIN projects
    \/ r.op = "delete" /\ r.pc = "sent" /\ r.of \in working
    \/ r.op = "create" /\ r.pc = "sent" /\ r.of \in DOMAIN projects

ShowError(r) ==
    /\ Refused(r) \/ (r.op \in Fails /\ budget.fails > 0)
    /\ budget' = IF Refused(r) THEN budget ELSE [budget EXCEPT !.fails = @ - 1]
    /\ r.pc # "refetch" /\ calls' = calls \ {r}
    /\ UNCHANGED <<server, loads, page, new, picking>>

Invalidates_Not(r) == {}                \* mutant: only the projects are loaded again

Invalidates(r) == {page.open} \ {None}

\* onSuccess: the effect runs for the new settingsProject, with the runbook that
\* was loaded before; then the refetch that the save waits for. Settings that
\* were left by then are open again, and load their runbook.
Saved(r) ==
    /\ r.op = "save" /\ r.pc = "ok" /\ Goes(r, "refetch")
    /\ page' = Filled([page EXCEPT !.open = r.of, !.name = r.body.name, !.hasWork = r.of \in working], cache[r.of])
    /\ Fetch(Invalidates(r) \cup ({r.of} \ {page.open}))
    /\ UNCHANGED <<server, listed, cache, seen, new, picking, budget>>

SaveEnds(r) ==
    /\ r.op = "save" /\ r.pc = "refetch" /\ r.of \notin fetching /\ calls' = calls \ {r}
    /\ UNCHANGED <<server, loads, page, new, picking, budget>>

Deleted(r) ==
    /\ r.op = "delete" /\ r.pc = "ok" /\ calls' = calls \ {r}
    /\ page' = [ClosedSettings EXCEPT !.draft = page.draft]
    /\ UNCHANGED <<server, loads, new, picking, budget>>

\* The dialog that is open by then closes, and is emptied.
Created(r) ==
    /\ r.op = "create" /\ r.pc = "ok" /\ calls' = calls \ {r} /\ new' = EmptyForm
    /\ UNCHANGED <<server, loads, page, picking, budget>>

-----------------------------------------------------------------------------
\* The dialog for a new project: a local folder, or the URL of a repository.

OpenCreate ==
    /\ "create" \in Does /\ page.open = None /\ ~new.shown
    /\ new' = [EmptyForm EXCEPT !.shown = TRUE]
    /\ UNCHANGED <<server, loads, page, calls, picking, budget>>

CloseCreate ==
    /\ new.shown /\ new' = [new EXCEPT !.shown = FALSE]
    /\ UNCHANGED <<server, loads, page, calls, picking, budget>>

PickFolder ==
    /\ new.shown /\ ~Team /\ ~picking /\ Spend("edits") /\ picking' = TRUE
    /\ UNCHANGED <<server, loads, page, calls, new>>

\* The choice is set in the form there is by then.
Chosen_Kept(form) == [form EXCEPT !.path = TRUE]    \* mutant: the URL is left

Chosen(form) == [form EXCEPT !.path = TRUE, !.url = FALSE]

FolderPicked(chosen) ==
    /\ picking /\ picking' = FALSE /\ new' = IF chosen THEN Chosen(new) ELSE new
    /\ UNCHANGED <<server, loads, page, calls, budget>>

TypeUrl(filled) ==
    /\ new.shown /\ Spend("edits") /\ new' = [new EXCEPT !.path = FALSE, !.url = filled]
    /\ UNCHANGED <<server, loads, page, calls, picking>>

CanCreate == new.url \/ (new.path /\ ~Team)

SubmitCreate(p) ==
    /\ new.shown /\ CanCreate /\ Spend("asks")
    /\ p \notin DOMAIN projects /\ \A r \in calls : r.op = "create" => r.of # p
    /\ calls' = calls \cup {[op |-> "create", of |-> p, pc |-> "sent",
                             body |-> [path |-> new.path /\ ~Team, url |-> new.url]]}
    /\ UNCHANGED <<server, loads, page, new, picking>>

-----------------------------------------------------------------------------
Next ==
    \/ \E p \in Ids : \/ CreateIssue(p) \/ \E t \in Contents : OtherWritesRunbook(p, t)
                      \/ RunbookLoads(p) \/ RunbookFails(p) \/ OpenSettings(p) \/ SubmitCreate(p)
    \/ ListProjects \/ CloseSettings \/ PressSave \/ PressDelete
    \/ \E n \in Names : TypeName(n)
    \/ \E t \in Contents : TypeRunbook(t)
    \/ \E r \in calls : \/ UpdateProject(r) \/ UpdateProjectRunbook(r) \/ CountIssues(r) \/ DeleteProject(r)
                        \/ \E n \in Names : CreateProject(r, n)
                        \/ ShowError(r) \/ Saved(r) \/ SaveEnds(r) \/ Deleted(r) \/ Created(r)
    \/ OpenCreate \/ CloseCreate \/ PickFolder
    \/ \E b \in BOOLEAN : FolderPicked(b) \/ TypeUrl(b)

Spec == Init /\ [][Next]_vars

-----------------------------------------------------------------------------
\* A save never writes a runbook that was neither loaded of that project nor typed
\* for it: not that of another project, nor the empty one of an editor that is
\* not filled yet (the Save button, and the effect that fills the editor).  The
\* one exception is a save of settings whose runbook could not be loaded: the
\* button is enabled then as well.
RunbookKnown ==
    \A r \in calls : r.op = "save" => r.body.text \in seen[r.of] \/ r.body.blind

\* When nobody else writes it, and every load and save is answered, a runbook changes
\* only by a save of somebody who has typed something into its editor, however
\* often settings are opened and saved.
RunbookByChoice ==
    \A p \in DOMAIN projects \cap DOMAIN projects' :
        runbook'[p] # runbook[p] => \E r \in calls : r.op = "save" /\ r.of = p /\ r.body.touched

\* A project with issues is not deleted, however deletions and the creation of
\* issues are timed.  The one exception is an issue that Postgres creates between
\* the two statements that count the issues and delete the project.
OnlyUnusedDeleted == gone \subseteq late /\ (~Database => gone = {})

\* A project is created of one source, also when the folder picker answers after
\* the URL was typed, or into a dialog that was opened anew.
OneSource == \A r \in calls : r.op = "create" => r.body.path # r.body.url
=============================================================================
