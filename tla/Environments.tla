----------------------------- MODULE Environments -----------------------------
(***************************************************************************)
(* The environments of a workspace: the clusters and virtual machines its  *)
(* issues, test plans and test runs are deployed to, as the store keeps    *)
(* them (CreateEnvironment .. DeleteEnvironment, UpdateCluster ..          *)
(* DeleteCluster), and the page that manages them (packages/views/src/     *)
(* clusters-page.tsx).  Other admins act through the same requests.        *)
(***************************************************************************)
EXTENDS Naturals

CONSTANTS
    Envs, VMs,          \* ids of environments; those of virtual machines
    Configs, Auths,     \* what can be configured; the credentials of a virtual machine
    Blank,              \* a form without a name, or without a credential
    None,
    Database,           \* the Postgres store; otherwise the memory store
    Does,               \* bound: the operations carried out
    MaxAsks, MaxOthers, MaxFails, MaxVisits, MaxEdits   \* bounds: of the user, of other admins, ...

\* What the constants must satisfy.
EnvironmentsAssumption ==
    /\ VMs \subseteq Envs /\ Blank \notin Configs \cup Auths /\ None \notin Envs
    /\ Database \in BOOLEAN /\ {MaxAsks, MaxOthers, MaxFails, MaxVisits, MaxEdits} \subseteq Nat

VARIABLES
    envs,       \* the environments that exist: configuration, credential, status
    refs,       \* those a test plan, a test run or an issue refers to
    deleted,    \* ids that are not used again
    passed,     \* history: what a login or a probe has succeeded with
    overtaken,  \* history: those whose status is of a check that a save overtook
    missed,     \* history: those deleted while a reference to them was made
    calls,      \* requests under way
    listed,     \* environmentsQuery.data
    window,     \* the dialog that is open, for which environment
    form,       \* what it is filled with, and from which environment (history)
    prompt,     \* the import prompt
    skipped,    \* localStorage's DEFAULT_KUBE_IMPORT_PROMPT_KEY
    closed,     \* history: the user has closed the prompt
    visit,      \* how often the page was opened; 0 when never
    budget

server == <<envs, refs, deleted, passed, overtaken, missed>>
dialogs == <<window, form>>
intro == <<prompt, skipped, closed, visit>>
vars == <<server, calls, listed, dialogs, intro, budget>>

Clusters == Envs \ VMs
Spend(k) == budget[k] > 0 /\ budget' = [budget EXCEPT ![k] = @ - 1]

Environment == [config : Configs, auth : Auths \cup {Blank}, status : {"configured", "ready", "unreachable"}]

\* What a response says of an environment; only the list counts the references.
View(record, used) ==
    [config |-> record.config, status |-> record.status,
     sshAuthConfigured |-> record.auth # Blank, used |-> used]

EmptyForm == [of |-> None, config |-> Blank, auth |-> Blank]
Closed == [kind |-> "none", env |-> None, view |-> {}]

TypeOK ==
    /\ DOMAIN envs \subseteq Envs /\ \A e \in DOMAIN envs : envs[e] \in Environment
    /\ \A e \in DOMAIN envs \cap Clusters : envs[e].auth = Blank
    /\ refs \subseteq Envs /\ overtaken \subseteq Envs /\ missed \subseteq deleted
    /\ deleted \subseteq Envs \ DOMAIN envs /\ DOMAIN listed \subseteq Envs
    /\ window.kind \in {"none", "settings", "create", "check"}
    /\ (window.kind \in {"settings", "check"}) <=> (window.env \in Envs)
    /\ form.config \in Configs \cup {Blank} /\ form.auth \in Auths \cup {Blank}
    /\ prompt \in {"none", "asked", "open", "shut"}
    /\ \A r \in calls : r.pc \in {"sent", "loaded", "working", "ok"} /\ (r.pc = "ok" => r.by = "page")

\* A virtual machine of before migration 022 has no credential.
Init ==
    /\ \E X \in SUBSET Envs, c \in Configs :
          envs = [e \in X |-> [config |-> c, auth |-> Blank, status |-> "configured"]]
    /\ refs = {} /\ deleted = {} /\ passed = {} /\ overtaken = {} /\ missed = {}
    /\ calls = {} /\ listed = <<>>
    /\ window = Closed /\ form = EmptyForm
    /\ prompt = "none" /\ skipped = FALSE /\ closed = FALSE
    /\ visit = (IF MaxVisits = 0 THEN 0 ELSE 1)
    /\ budget = [asks |-> MaxAsks, others |-> MaxOthers, fails |-> MaxFails, edits |-> MaxEdits]

-----------------------------------------------------------------------------
\* Requests.

Request(by, op, e, c, a) ==
    [by |-> by, op |-> op, env |-> e, config |-> c, auth |-> a, live |-> TRUE,
     visit |-> visit, pc |-> "sent", read |-> {}, met |-> FALSE]

\* The id that a new environment will get.
Fresh(e) == e \notin DOMAIN envs \cup deleted /\ \A r \in calls : r.env # e

\* By other admins, or a plan, a run or an issue that chooses an environment.
Others(op, e, c, a) ==
    /\ op \in Does /\ Spend("others")
    /\ e \in Clusters => a = Blank
    /\ op = "create" => Fresh(e) /\ (e \in VMs => a # Blank)
    /\ op = "import" => Fresh(e) /\ e \in Clusters
    /\ op \in {"check", "delete", "refer"} => c = Blank
    /\ op \in {"delete", "refer"} => a = Blank
    /\ op \in {"create", "import", "update"} => c # Blank
    /\ calls' = calls \cup {Request("other", op, e, c, a)}
    /\ UNCHANGED <<server, listed, dialogs, intro>>

\* A save writes all of the record; a check the status and the credential, but
\* Postgres all of a cluster.
WritesAll(r) == r.op = "update" \/ (Database /\ r.env \in Clusters)

\* The requests that have read the record r writes now.
Meets(r) ==
    {IF WritesAll(r) /\ q.env = r.env /\ q.pc \in {"loaded", "working"} THEN [q EXCEPT !.met = TRUE] ELSE q :
        q \in calls \ {r}}

Goes(r, pc, record) == calls' = (calls \ {r}) \cup {[r EXCEPT !.pc = pc, !.read = record]}
Done(r, record) ==
    calls' = Meets(r) \cup IF r.by = "page" THEN {[r EXCEPT !.pc = "ok", !.read = record]} ELSE {}
Refuses(r) == calls' = calls \ {r} /\ UNCHANGED server
Read(r) == CHOOSE s \in r.read : TRUE

\* Under the lock of the memory store, or in one statement.
Locked(r) == ~Database /\ (r.env \in Clusters \/ r.op \in {"delete", "refer"})

Protects_Not(e) == TRUE                 \* mutant: the references are not counted

Protects(e) == e \notin refs

\* The record is read, and the lock released for the login or the probe; so are
\* the references counted, or the environment looked up that is referred to.
Begin(r) ==
    /\ r.pc = "sent" /\ r.op \notin {"create", "import"}
    /\ IF r.env \notin DOMAIN envs \/ (r.op = "delete" /\ ~Protects(r.env))
       THEN Refuses(r)
       ELSE /\ ~Locked(r) /\ UNCHANGED server
            /\ Goes(r, IF r.env \in VMs /\ r.op \in {"update", "check"} THEN "loaded" ELSE "working",
                    {envs[r.env]})
    /\ UNCHANGED <<listed, dialogs, intro, budget>>

\* The credential of a virtual machine is read apart from its record.
ReadAuth(r) ==
    /\ r.pc = "loaded"
    /\ IF r.env \in DOMAIN envs
       THEN Goes(r, "working", {[Read(r) EXCEPT !.auth = envs[r.env].auth]}) /\ UNCHANGED server
       ELSE Refuses(r)
    /\ UNCHANGED <<listed, dialogs, intro, budget>>

\* Postgres finds a cluster of the file and the context that are imported.
FindCluster(r) ==
    /\ r.pc = "sent" /\ r.op = "import" /\ Database
    /\ \E e \in Clusters \cap DOMAIN envs :
          calls' = (calls \ {r}) \cup {[r EXCEPT !.env = e, !.pc = "working", !.read = {envs[e]}]}
    /\ UNCHANGED <<server, listed, dialogs, intro, budget>>

\* The credential that is sent, or else the saved one.
Auth(r, saved) == IF r.auth = Blank THEN saved ELSE r.auth

Verdicts(e, auth) == IF e \in VMs /\ auth = Blank THEN {} ELSE {"ready", "unreachable"}

Checked_Whole(r, old, now, v) == [old EXCEPT !.auth = Auth(r, old.auth), !.status = v]  \* mutant: what was read

Checked(r, old, now, v) ==
    [(IF WritesAll(r) THEN old ELSE now) EXCEPT !.auth = Auth(r, old.auth), !.status = v]

Saved_Newest(r, old, now, v) == [config |-> r.config, auth |-> now.auth, status |-> v]  \* mutant: the credential there is by now

Saved(r, old, now, v) == [config |-> r.config, auth |-> Auth(r, old.auth), status |-> v]

Written(r, old, now, v) == IF r.op = "update" THEN Saved(r, old, now, v) ELSE Checked(r, old, now, v)

Tried(r, old) == <<r.env, IF r.op = "update" THEN r.config ELSE old.config, Auth(r, old.auth)>>

Writes(r, old, v) ==
    /\ r.env \in DOMAIN envs
    /\ v \in Verdicts(r.env, Auth(r, old.auth))
    /\ envs' = [envs EXCEPT ![r.env] = Written(r, old, envs[r.env], v)]
    /\ passed' = IF v = "ready" THEN passed \cup {Tried(r, old)} ELSE passed
    /\ overtaken' = IF r.met /\ ~WritesAll(r) THEN overtaken \cup {r.env} ELSE overtaken \ {r.env}
    /\ Done(r, {envs'[r.env]}) /\ UNCHANGED <<refs, deleted, missed>>

Validate(r, v) ==
    /\ r.op \in {"update", "check", "checkCluster", "import"}
    /\ \/ r.pc = "sent" /\ r.op # "import" /\ Locked(r) /\ Writes(r, envs[r.env], v)
       \/ r.pc = "working" /\ Writes(r, Read(r), v)
       \/ r.pc = "working" /\ Refuses(r)
             /\ (r.env \notin DOMAIN envs \/ Verdicts(r.env, Auth(r, Read(r).auth)) = {})
    /\ UNCHANGED <<listed, dialogs, intro, budget>>

Put(e, record) == [x \in DOMAIN envs \cup {e} |-> IF x = e THEN record ELSE envs[x]]

\* The in-memory store imports every file as a new cluster, Postgres what it does
\* not know yet.
CreateEnvironment(r, v) ==
    /\ r.pc = "sent" /\ r.op \in {"create", "import"} /\ v \in {"ready", "unreachable"}
    /\ r.env \notin DOMAIN envs \cup deleted
    /\ r.op = "import" /\ Database => \A e \in Clusters \cap DOMAIN envs : envs[e].config # r.config
    /\ envs' = Put(r.env, [config |-> r.config, auth |-> r.auth, status |-> v])
    /\ passed' = IF v = "ready" THEN passed \cup {<<r.env, r.config, r.auth>>} ELSE passed
    /\ Done(r, {envs'[r.env]})
    /\ UNCHANGED <<refs, deleted, overtaken, missed, listed, dialogs, intro, budget>>

Remaining(e) == [x \in DOMAIN envs \ {e} |-> envs[x]]

\* A reference is made, or was made since the references were counted.
Referring(e) == e \in refs \/ \E q \in calls : q.op = "refer" /\ q.env = e /\ q.pc = "working"

DeleteEnvironment(r) ==
    /\ r.op = "delete"
    /\ (r.pc = "sent" /\ Locked(r) /\ r.env \in DOMAIN envs /\ Protects(r.env)) \/ r.pc = "working"
    /\ IF r.env \in DOMAIN envs
       THEN /\ envs' = Remaining(r.env) /\ deleted' = deleted \cup {r.env}
            /\ missed' = IF r.pc = "working" /\ Referring(r.env) THEN missed \cup {r.env} ELSE missed
            /\ Done(r, {}) /\ UNCHANGED <<refs, passed, overtaken>>
       ELSE Refuses(r)
    /\ UNCHANGED <<listed, dialogs, intro, budget>>

Refer(r) ==
    /\ r.op = "refer"
    /\ (r.pc = "sent" /\ Locked(r) /\ r.env \in DOMAIN envs) \/ r.pc = "working"
    /\ refs' = refs \cup {r.env} /\ Done(r, {})
    /\ UNCHANGED <<envs, deleted, passed, overtaken, missed, listed, dialogs, intro, budget>>

-----------------------------------------------------------------------------
\* The page.

Here(r) == visit > 0 /\ r.visit = visit
Pending(op) == \E r \in calls : Here(r) /\ r.op = op /\ r.by = "page"

Viewed == [e \in DOMAIN envs |-> View(envs[e], e \in refs)]

ListEnvironments ==
    /\ visit > 0 /\ listed' = Viewed
    /\ UNCHANGED <<server, calls, dialogs, intro, budget>>

Asks(op, e, c, a) ==
    /\ op \in Does /\ Spend("asks")
    /\ calls' = {IF r.op = op /\ r.by = "page" THEN [r EXCEPT !.live = FALSE] ELSE r : r \in calls}
                \cup {Request("page", op, e, c, a)}

Filled(e, view) == [of |-> e, config |-> view.config, auth |-> Blank]

\* The buttons of a row; a dialog covers the list.
OpenSettings(e) ==
    /\ visit > 0 /\ window = Closed /\ prompt # "open" /\ e \in DOMAIN listed
    /\ window' = [kind |-> "settings", env |-> e, view |-> {listed[e]}]
    /\ form' = Filled(e, listed[e])
    /\ UNCHANGED <<server, calls, listed, intro, budget>>

Checking(e) == \E r \in calls : Here(r) /\ r.op = "check" /\ r.env = e /\ r.live

PressCheck(e) ==
    /\ visit > 0 /\ window = Closed /\ prompt # "open" /\ e \in DOMAIN listed /\ ~Checking(e)
    /\ IF e \in VMs /\ ~listed[e].sshAuthConfigured
       THEN /\ window' = [kind |-> "check", env |-> e, view |-> {listed[e]}]
            /\ form' = Filled(e, listed[e]) /\ UNCHANGED <<calls, budget>>
       ELSE Asks("check", e, Blank, Blank) /\ UNCHANGED dialogs
    /\ UNCHANGED <<server, listed, intro>>

\* The menu, and the same two choices where there is no environment yet.
Menu == IF visit > 0 /\ window = Closed /\ prompt # "open"
        THEN {"create"} \cup {op \in {"import"} : ~Pending(op)} ELSE {}

ImportFromPicker(e) ==
    /\ "import" \in Menu /\ e \in Clusters /\ Fresh(e)
    /\ \E c \in Configs : Asks("import", e, c, Blank)
    /\ UNCHANGED <<server, listed, dialogs, intro>>

OpenCreateVirtualMachine ==
    /\ "create" \in Menu \cap Does
    /\ window' = [Closed EXCEPT !.kind = "create"] /\ form' = EmptyForm
    /\ UNCHANGED <<server, calls, listed, intro, budget>>

\* Escape, also while a request of the dialog is under way.
CloseWindow ==
    /\ window # Closed /\ window' = Closed
    /\ UNCHANGED <<server, calls, listed, form, intro, budget>>

\* The fields of the dialogs. The credential of a virtual machine is never shown.
Types(c, a) ==
    /\ Spend("edits")
    /\ form' = [of |-> IF form.config = Blank THEN window.env ELSE form.of, config |-> c, auth |-> a]
    /\ UNCHANGED <<server, calls, listed, window, intro>>

TypeCluster(c) == window.kind = "settings" /\ window.env \in Clusters /\ Types(c, Blank)
TypeVirtualMachine(c) == window.kind \in {"settings", "create"} /\ window.env \notin Clusters /\ Types(c, form.auth)
TypeAuth(a) == window.kind # "none" /\ window.env \notin Clusters /\ Types(form.config, a)

HasAuth == \E view \in window.view : view.sshAuthConfigured
CanSubmit == form.config # Blank /\ (window.env \in Clusters \/ HasAuth \/ form.auth # Blank)

SubmitSettings ==
    /\ window.kind = "settings" /\ CanSubmit /\ ~Pending("update")
    /\ window.env \in Clusters => ~Pending("checkCluster")
    /\ Asks("update", window.env, form.config, form.auth)
    /\ UNCHANGED <<server, listed, dialogs, intro>>

PressDelete ==
    /\ window.kind = "settings" /\ \A op \in {"update", "delete", "checkCluster"} : ~Pending(op)
    /\ \A view \in window.view : ~view.used
    /\ Asks("delete", window.env, Blank, Blank)
    /\ UNCHANGED <<server, listed, dialogs, intro>>

SubmitCheck ==
    /\ window.kind = "check" /\ CanSubmit
    /\ ~Pending("check") /\ Asks("check", window.env, Blank, form.auth)
    /\ UNCHANGED <<server, listed, dialogs, intro>>

PressCheckCluster ==
    /\ window.kind = "settings" /\ window.env \in Clusters
    /\ ~Pending("update") /\ ~Pending("checkCluster")
    /\ Asks("checkCluster", window.env, Blank, Blank)
    /\ UNCHANGED <<server, listed, dialogs, intro>>

SubmitCreate(e) ==
    /\ window.kind = "create" /\ CanSubmit /\ form.auth # Blank /\ ~Pending("create")
    /\ e \in VMs /\ Fresh(e) /\ Asks("create", e, form.config, form.auth)
    /\ UNCHANGED <<server, listed, dialogs, intro>>

\* The answers. Those of a save or a delete close whatever settings are open, and
\* blank the form that all the dialogs of virtual machines share.
SharesForm(e) == (window.kind = "create" \/ window.env \in VMs) /\ e \in VMs

SettingsAnswered(r) ==
    /\ r.op \in {"update", "delete"}
    /\ IF window.kind = "settings" /\ (window.env \in VMs <=> r.env \in VMs)
       THEN window' = Closed /\ form' = EmptyForm
       ELSE UNCHANGED window /\ form' = IF SharesForm(r.env) /\ window.kind = "create" THEN EmptyForm ELSE form

CreateAnswered(r) ==
    /\ r.op \in {"create", "import"}
    /\ window' = IF r.op = "create" /\ window.kind = "create" THEN Closed ELSE window
    /\ form' = IF r.op = "create" /\ SharesForm(r.env) /\ window.kind # "check" THEN EmptyForm ELSE form

\* settingsClusterIdRef, and settingsEnvironment as of the latest render.
Refreshes_Any(r) == window.kind = "settings"    \* mutant: whatever settings are open

Refreshes(r) == window.kind = "settings" /\ window.env = r.env /\ (r.op = "checkCluster" \/ (r.live /\ r.env \in VMs))

CheckAnswered(r) ==
    /\ r.op \in {"check", "checkCluster"}
    /\ LET view == View(Read(r), FALSE)
       IN CASE Refreshes(r) -> /\ window' = [window EXCEPT !.view = {view}]
                               /\ form' = Filled(r.env, view)
            [] r.op = "check" /\ window.kind = "check" -> window' = Closed /\ form' = EmptyForm
            [] OTHER -> UNCHANGED dialogs

Answer(r) ==
    /\ r.pc = "ok" /\ calls' = calls \ {r}
    /\ IF Here(r) THEN SettingsAnswered(r) \/ CreateAnswered(r) \/ CheckAnswered(r) ELSE UNCHANGED dialogs
    /\ UNCHANGED <<server, listed, intro, budget>>

Lost(r) ==
    /\ r.by = "page" /\ Spend("fails") /\ calls' = calls \ {r}
    /\ UNCHANGED <<server, listed, dialogs, intro>>

-----------------------------------------------------------------------------
\* The prompt that offers to import the kubeconfig files of the default directory.

Discover ==
    /\ "discover" \in Does /\ visit > 0 /\ DOMAIN listed \cap Clusters = {}
    /\ ~skipped /\ prompt = "none"
    /\ prompt' = "asked"
    /\ UNCHANGED <<server, calls, listed, dialogs, skipped, closed, visit, budget>>

Discovered ==
    /\ visit > 0 /\ prompt = "asked" /\ prompt' = "open"
    /\ UNCHANGED <<server, calls, listed, dialogs, skipped, closed, visit, budget>>

Remembers_Not == skipped                \* mutant: closing the prompt is not remembered

Remembers == TRUE

\* Its buttons: Skip, or Import of the files that are ticked.
Offers(e) == ~Pending("import") /\ (e = None \/ Fresh(e))

CloseDefaultImportPrompt(e) ==
    /\ visit > 0 /\ prompt = "open" /\ Offers(e) /\ prompt' = "shut" /\ skipped' = Remembers /\ closed' = TRUE
    /\ IF e = None THEN UNCHANGED <<calls, budget>> ELSE \E c \in Configs : Asks("import", e, c, Blank)
    /\ UNCHANGED <<server, listed, dialogs, visit>>

\* The page is left; what it asked for goes on. It is opened again with nothing.
Leave ==
    /\ 0 < visit /\ visit < MaxVisits /\ visit' = visit + 1
    /\ window' = Closed /\ form' = EmptyForm /\ prompt' = "none"
    /\ UNCHANGED <<server, calls, listed, skipped, closed, budget>>

-----------------------------------------------------------------------------
Next ==
    \/ \E op \in {"create", "import", "update", "check", "delete", "refer"}, e \in Envs,
          c \in Configs \cup {Blank}, a \in Auths \cup {Blank} : Others(op, e, c, a)
    \/ \E r \in calls : \/ Begin(r) \/ ReadAuth(r) \/ FindCluster(r) \/ DeleteEnvironment(r) \/ Refer(r) \/ Answer(r) \/ Lost(r)
                        \/ \E v \in {"ready", "unreachable"} : Validate(r, v) \/ CreateEnvironment(r, v)
    \/ ListEnvironments \/ OpenCreateVirtualMachine \/ CloseWindow
    \/ SubmitSettings \/ PressDelete \/ SubmitCheck \/ PressCheckCluster
    \/ \E e \in Envs : OpenSettings(e) \/ PressCheck(e) \/ SubmitCreate(e)
    \/ \E c \in Configs : TypeCluster(c) \/ TypeVirtualMachine(c)
    \/ \E a \in Auths : TypeAuth(a)
    \/ Discover \/ Discovered \/ Leave
    \/ \E e \in Clusters \cup {None} : CloseDefaultImportPrompt(e) \/ ImportFromPicker(e)

Spec == Init /\ [][Next]_vars

-----------------------------------------------------------------------------
\* An environment is ready only when a login or a probe has succeeded with the
\* configuration and the credential it has (the status that saves and checks
\* write).  Nothing but a check of a virtual machine during which a save was
\* written breaks this: its verdict is about what was saved before.
ReadyWasTested ==
    \A e \in DOMAIN envs \ overtaken :
        envs[e].status = "ready" => <<e, envs[e].config, envs[e].auth>> \in passed

\* Postgres writes a cluster back as a check or an import has read it.
TakesBack(r) == Database /\ r.env \in Clusters /\ r.op # "update" /\ r.pc = "working" /\ r.met

\* Only a save changes a configuration, to what was sent.  What is saved while a
\* check tries the login stays configured, with one exception: a check or an
\* import of a cluster in Postgres, overtaken by a save, takes it back to what it
\* has read (the records CheckEnvironment and updateClusterRecord write).
ConfigBySave ==
    \A e \in DOMAIN envs \cap DOMAIN envs' :
        envs'[e].config # envs[e].config =>
            \E r \in calls : /\ r.env = e
                             /\ \/ r.op = "update" /\ r.config = envs'[e].config
                                \/ TakesBack(r) /\ Read(r).config = envs'[e].config

\* What a test plan, a run or an issue refers to is not deleted under it (the count
\* of references before a deletion).  In Postgres it is when the reference is made
\* between the count and the deletion, in memory never.
Protected ==
    /\ refs \subseteq DOMAIN envs \cup missed
    /\ ~Database => missed = {}

\* Save in the settings of one environment never writes what was loaded of another,
\* whatever is answered in between and in whatever order (the answers of the
\* mutations, which fill the forms again).
SavesOwn == window.kind = "settings" => form.of \in {window.env, None}

\* Once the user has closed the import prompt it is never shown again, not on a
\* later visit either (the key in localStorage).
PromptOnce == closed => ~(prompt # "open" /\ prompt' = "open")
=============================================================================
