---- MODULE MCWorkspace ----
(*****************************************************************************)
(* What a workspace owns: its settings, invitations and credentials, the     *)
(* tasks of its runtimes, environments, projects and skills. Each runs       *)
(* alone, chosen by the variable part; an instance gives a component the     *)
(* constants of one question, and what is proved of the component holds in   *)
(* each of them.                                                             *)
(*****************************************************************************)
EXTENDS WorkspaceProofs

CONSTANTS a1, a2, c1, c2, k1, k2, k3, n1, n2, p1, p2, s1, s2, t1, t2, v1, v2, w1, w2
CONSTANTS desktop, daemon

VARIABLE part   \* the component that runs, and in which instance

workspaceSettingsVars == <<settings, profile, links, ws, me, loaded,
    workspaceSettingsListed, workspaceSettingsForm, draft, touched, strayed, dialog, shown,
    workspaceSettingsPosts, workspaceSettingsBudget>>
runtimeTasksPanelVars == <<tasks, runtimeTasksPanelPage, data, open, evidence, cancelling,
    runtimeTasksPanelPosts, walk, fails, moves, changes>>
environmentsVars == <<envs, refs, deleted, passed, overtaken, missed, environmentsCalls, environmentsListed, window,
    environmentsForm, prompt, skipped, closed, visit, environmentsBudget>>
projectsVars == <<projects, runbook, working, gone, late, projectsListed, cache, fetching, unloaded,
    projectsPage, seen, projectsCalls, new, picking, projectsBudget>>
skillsVars == <<skills, skillsListed, modal, skillsCalls, known, skillsBudget>>
partsVars == <<part, workspaceSettingsVars, runtimeTasksPanelVars, environmentsVars, projectsVars,
    skillsVars, vars>>

\* The values in which the instances differ from the constants of this module.
FormsWorkspaces == {w1, w2}
LinksWorkspaces == {w1}
FormsDoes == {"settings", "identity", "role"}
LinksDoes == {"invitation", "credential"}
TaskCancelsDoes == {"cancel", "open"}
TaskCancelsModes == {"working copy", "detached"}
SavesEnvs == {v1, k1}
SavesVMs == {v1}
SavesConfigs == {c1, c2}
SavesAuths == {a1}
SavesDoes == {"create", "update", "check", "delete", "refer"}
ChecksEnvs == {v1, k1, k2}
ChecksDoes == {"update", "check", "import"}
DeletesDoes == {"create", "delete", "refer"}
ImportDoes == {"discover", "import", "create"}
RunbooksDoes == {"save", "runbooks"}
SaveFails == {"save", "load"}
OneWriterTexts == {t1, t2}
OneWriterDoes == {"save"}
NothingFails == {}
ProjectDeletesDoes == {"save", "delete", "issues"}
DeleteFails == {"delete"}
SluggedIds == {k1, k2, k3}
SluggedDoes == {"delete", "duplicate", "creates", "others"}
SluggedTexts == {t1}
TogglesBuiltins == {k1}
TogglesNames == {n1, n2}
TogglesDoes == {"toggle", "others", "load"}

\* Forms that are saved while others change the same.
Saves == INSTANCE WorkspaceProofs WITH AdminWorkspaces <- FormsWorkspaces,
    AdminTeam <- FormsWorkspaces, AdminDoes <- FormsDoes, AdminEdits <- 1, AdminOthers <- 1,
    AdminSwitches <- 2,
    Envs <- SavesEnvs, VMs <- SavesVMs, Configs <- SavesConfigs, Auths <- SavesAuths,
    EnvDatabase <- TRUE, EnvDoes <- SavesDoes, EnvAsks <- 0, EnvOthers <- 3, EnvVisits <- 0,
    EnvEdits <- 0,
    ProjectsDatabase <- TRUE, ProjectsDoes <- RunbooksDoes, ProjectsFails <- SaveFails,
    ProjectsEdits <- 1, ProjectsOthers <- 1
\* Deletions of what is referred to, and of skills whose slugs are free again.
Deletes == INSTANCE WorkspaceProofs WITH Envs <- SavesEnvs, VMs <- SavesVMs,
    EnvDatabase <- FALSE, EnvDoes <- DeletesDoes, EnvAsks <- 0, EnvOthers <- 4, EnvVisits <- 0,
    EnvEdits <- 0,
    ProjectsDatabase <- TRUE, ProjectsDoes <- ProjectDeletesDoes, ProjectsFails <- DeleteFails,
    ProjectsEdits <- 0, ProjectsOthers <- 2, ProjectsAsks <- 1,
    SkillIds <- SluggedIds, SkillTexts <- SluggedTexts, SkillsDoes <- SluggedDoes,
    SkillsOthers <- 1, SkillsEdits <- 0
\* Checks of environments, a runbook of one writer, skills switched on and off.
Changes == INSTANCE WorkspaceProofs WITH Envs <- ChecksEnvs, VMs <- SavesVMs,
    Configs <- SavesConfigs, Auths <- SavesAuths, EnvDatabase <- TRUE, EnvDoes <- ChecksDoes,
    EnvAsks <- 0, EnvOthers <- 3, EnvVisits <- 0, EnvEdits <- 0,
    RunbookTexts <- OneWriterTexts, ProjectsDoes <- OneWriterDoes, ProjectsFails <- NothingFails,
    ProjectsMaxFails <- 0, ProjectsAsks <- 3,
    Builtins <- TogglesBuiltins, SkillNames <- TogglesNames, SkillTexts <- SluggedTexts,
    SkillsDatabase <- TRUE, SkillsDoes <- TogglesDoes, SkillsAsks <- 2, SkillsOthers <- 1,
    SkillsFails <- 0
\* The prompt that offers to import environments, over several visits.
Prompt == INSTANCE WorkspaceProofs WITH Envs <- SavesEnvs, VMs <- SavesVMs,
    EnvDoes <- ImportDoes, EnvFails <- 1, EnvVisits <- 3
\* Links and cancellations: what is only model-checked.
Links == INSTANCE WorkspaceSettings WITH Workspaces <- LinksWorkspaces,
    Team <- LinksWorkspaces, Names <- AdminNames, Does <- LinksDoes,
    MaxEdits <- 0, MaxOthers <- 1, MaxSwitches <- 0, MaxFails <- 0, MaxLinks <- 2,
    listed <- workspaceSettingsListed, form <- workspaceSettingsForm,
    posts <- workspaceSettingsPosts, budget <- workspaceSettingsBudget
TaskCancels == INSTANCE RuntimeTasksPanel WITH Does <- TaskCancelsDoes,
    Modes <- TaskCancelsModes, MaxTasks <- 2, MaxFails <- 1, MaxMoves <- 2,
    page <- runtimeTasksPanelPage, posts <- runtimeTasksPanelPosts

\* Every instance satisfies what its component assumes of the constants, and the
\* snapshots of this run are written before the answers they are of.
ASSUME InstancesAssumption == SnapshotStoreAssumption /\ Reliable
    /\ Admin!WorkspaceSettingsAssumption /\ Saves!Admin!WorkspaceSettingsAssumption
    /\ Links!WorkspaceSettingsAssumption
    /\ Panel!RuntimeTasksPanelAssumption /\ TaskCancels!RuntimeTasksPanelAssumption
    /\ Env!EnvironmentsAssumption /\ Saves!Env!EnvironmentsAssumption
    /\ Changes!Env!EnvironmentsAssumption /\ Deletes!Env!EnvironmentsAssumption
    /\ Prompt!Env!EnvironmentsAssumption
    /\ Project!ProjectsAssumption /\ Saves!Project!ProjectsAssumption
    /\ Changes!Project!ProjectsAssumption /\ Deletes!Project!ProjectsAssumption
    /\ Skill!SkillsAssumption /\ Deletes!Skill!SkillsAssumption /\ Changes!Skill!SkillsAssumption

\* One component runs; the variables of the others stand still.
WorkspaceSettingsInit ==
  \/ part = "settings forms" /\ Saves!Admin!Init
  \/ part = "settings saves" /\ Admin!Init
  \/ part = "links" /\ Links!Init
  \/ part \notin {"settings forms", "settings saves", "links"} /\ settings = 0
     /\ profile = 0 /\ links = 0 /\ ws = 0 /\ me = 0 /\ loaded = 0
     /\ workspaceSettingsListed = 0 /\ workspaceSettingsForm = 0 /\ draft = 0
     /\ touched = 0 /\ strayed = 0 /\ dialog = 0 /\ shown = 0 /\ workspaceSettingsPosts = 0
     /\ workspaceSettingsBudget = 0
RuntimeTasksPanelInit ==
  \/ part = "task pages" /\ Panel!Init
  \/ part = "task cancels" /\ TaskCancels!Init
  \/ part \notin {"task pages", "task cancels"} /\ tasks = 0
     /\ runtimeTasksPanelPage = 0 /\ data = 0 /\ open = 0 /\ evidence = 0
     /\ cancelling = 0 /\ runtimeTasksPanelPosts = 0 /\ walk = 0 /\ fails = 0 /\ moves = 0
     /\ changes = 0
EnvironmentsInit ==
  \/ part = "environment saves" /\ Saves!Env!Init
  \/ part = "environment checks" /\ Changes!Env!Init
  \/ part = "environment deletes" /\ Deletes!Env!Init
  \/ part = "environment page" /\ Env!Init
  \/ part = "import prompt" /\ Prompt!Env!Init
  \/ part \notin {"environment saves", "environment checks", "environment deletes", "environment page", "import prompt"}
     /\ envs = 0 /\ refs = 0 /\ deleted = 0 /\ passed = 0 /\ overtaken = 0 /\ missed = 0
     /\ environmentsCalls = 0
     /\ environmentsListed = 0 /\ window = 0 /\ environmentsForm = 0 /\ prompt = 0
     /\ skipped = 0 /\ closed = 0 /\ visit = 0 /\ environmentsBudget = 0
ProjectsInit ==
  \/ part = "runbooks" /\ Saves!Project!Init
  \/ part = "one writer" /\ Changes!Project!Init
  \/ part = "project deletes" /\ Deletes!Project!Init
  \/ part = "project creates" /\ Project!Init
  \/ part \notin {"runbooks", "one writer", "project deletes", "project creates"}
     /\ projects = 0 /\ runbook = 0 /\ working = 0 /\ gone = 0 /\ late = 0 /\ projectsListed = 0
     /\ cache = 0 /\ fetching = 0 /\ unloaded = 0 /\ projectsPage = 0 /\ seen = 0 /\ projectsCalls = 0
     /\ new = 0 /\ picking = 0 /\ projectsBudget = 0
SkillsInit ==
  \/ part = "skill saves" /\ Skill!Init
  \/ part = "slugs" /\ Deletes!Skill!Init
  \/ part = "toggles" /\ Changes!Skill!Init
  \/ part \notin {"skill saves", "slugs", "toggles"} /\ skills = 0 /\ skillsListed = 0
     /\ modal = 0 /\ skillsCalls = 0 /\ known = 0 /\ skillsBudget = 0

PartsInit ==
  /\ part \in {"settings forms", "settings saves", "links", "task pages", "task cancels",
      "environment saves", "environment checks", "environment deletes",
      "environment page", "import prompt", "runbooks", "one writer", "project deletes",
      "project creates", "skill saves", "slugs", "toggles", "snapshots"}
  /\ WorkspaceSettingsInit /\ RuntimeTasksPanelInit /\ EnvironmentsInit /\ ProjectsInit
  /\ SkillsInit /\ Init

OnlyWorkspaceSettings == UNCHANGED <<part, runtimeTasksPanelVars, environmentsVars,
    projectsVars, skillsVars, vars>>
OnlyRuntimeTasksPanel == UNCHANGED <<part, workspaceSettingsVars, environmentsVars,
    projectsVars, skillsVars, vars>>
OnlyEnvironments == UNCHANGED <<part, workspaceSettingsVars, runtimeTasksPanelVars,
    projectsVars, skillsVars, vars>>
OnlyProjects == UNCHANGED <<part, workspaceSettingsVars, runtimeTasksPanelVars,
    environmentsVars, skillsVars, vars>>
OnlySkills == UNCHANGED <<part, workspaceSettingsVars, runtimeTasksPanelVars,
    environmentsVars, projectsVars, vars>>
OnlyStore == UNCHANGED <<part, workspaceSettingsVars, runtimeTasksPanelVars,
    environmentsVars, projectsVars, skillsVars>>

WorkspaceSettingsNext ==
  /\ \/ part = "settings forms" /\ Saves!Admin!Next
     \/ part = "settings saves" /\ Admin!Next
     \/ part = "links" /\ Links!Next
  /\ OnlyWorkspaceSettings
RuntimeTasksPanelNext ==
  /\ \/ part = "task pages" /\ Panel!Next
     \/ part = "task cancels" /\ TaskCancels!Next
  /\ OnlyRuntimeTasksPanel
EnvironmentsNext ==
  /\ \/ part = "environment saves" /\ Saves!Env!Next
     \/ part = "environment checks" /\ Changes!Env!Next
     \/ part = "environment deletes" /\ Deletes!Env!Next
     \/ part = "environment page" /\ Env!Next
     \/ part = "import prompt" /\ Prompt!Env!Next
  /\ OnlyEnvironments
ProjectsNext ==
  /\ \/ part = "runbooks" /\ Saves!Project!Next
     \/ part = "one writer" /\ Changes!Project!Next
     \/ part = "project deletes" /\ Deletes!Project!Next
     \/ part = "project creates" /\ Project!Next
  /\ OnlyProjects
SkillsNext ==
  /\ \/ part = "skill saves" /\ Skill!Next
     \/ part = "slugs" /\ Deletes!Skill!Next
     \/ part = "toggles" /\ Changes!Skill!Next
  /\ OnlySkills
StoreNext == part = "snapshots" /\ Next /\ OnlyStore

PartsNext == \/ WorkspaceSettingsNext \/ RuntimeTasksPanelNext \/ EnvironmentsNext
        \/ ProjectsNext \/ SkillsNext \/ StoreNext

\* What each module says of its own fairness, while it runs.
PartsSpec ==
  /\ PartsInit /\ [][PartsNext]_partsVars
  /\ WF_workspaceSettingsVars(part = "links" /\ Links!PollLists)
  /\ WF_workspaceSettingsVars(part = "links" /\ Links!RefreshAuth)
  /\ WF_workspaceSettingsVars(part = "links" /\ Links!LoadSettings)
  /\ WF_runtimeTasksPanelVars(part = "task cancels" /\ TaskCancels!Poll)
  /\ WF_runtimeTasksPanelVars(part = "task cancels" /\ TaskCancels!PollEvidence)

-----------------------------------------------------------------------------
\* A revoked link is still offered; a task that has ended is still shown as active.
Behind ==
    \/ part = "links" /\ \E n \in DOMAIN links :
          /\ links[n].state = "revoked" /\ <<n, "open">> \in workspaceSettingsListed[ws] /\ links[n].of = ws /\ Links!Allowed(ws)
    \/ part = "task cancels" /\ \E n \in DOMAIN tasks :
          /\ ~TaskCancels!Cancellable(tasks[n]) /\ \E r \in TaskCancels!Row(n) : r.state \in TaskCancels!Active

\* What the pages of a workspace and its server keep true, each with the exception
\* that the code makes:
\* - apart from what the user changed in them since, the forms show what the page
\*   has loaded of the workspace on screen, so that Save writes nothing the user
\*   did not choose, whoever else changes it, except in the course of a save, and
\*   when the answer to a save comes after the user went on to another workspace;
\* - whoever turns the pages to the last one has seen every task there was when he
\*   looked at the first, though new ones come in front of them all the while (the
\*   order of ListRuntimeTasksPage, the offset of the query);
\* - a form saves what is its own: Save in the settings of an environment never
\*   writes what was loaded of another, and a skill is saved with a text that was
\*   loaded of it or typed for it, whatever loads and saves are answered late;
\* - a save never writes a runbook that was neither loaded of that project nor
\*   typed for it (the Save button, and the effect that fills the editor), unless
\*   the runbook could not be loaded;
\* - a project is created of one source, also when the folder picker answers
\*   after the URL was typed, or into a dialog that was opened anew;
\* - an environment is ready only when a login or a probe has succeeded with the
\*   configuration and the credential it has (the status that saves and checks
\*   write), unless a save overtook the check of a VM in the memory store, which
\*   then marks as ready what was saved meanwhile;
\* - what a test plan, a run or an issue refers to is not deleted under it (the
\*   count of references before a deletion), and a project with issues is not
\*   deleted either, unless the reference or the issue is made between the two
\*   statements with which Postgres counts and deletes;
\* - live skills have different slugs, however creations and copies overlap: a
\*   session asks for its skills by slug (CreateSkill, DuplicateSkill and the
\*   unique index);
\* - a number that went out in an answer of the personal server is not given to
\*   something else, also after crashes.
WorkspaceSound ==
    /\ part = "settings forms" => Saves!Admin!TypeOK /\ Saves!Admin!OnlyChosen
    /\ part = "settings saves" => Admin!OnlyChosen
    /\ part = "task pages" => Panel!TypeOK /\ Panel!NoneSkipped
    /\ part = "environment page" => Env!SavesOwn /\ Env!ReadyWasTested
    /\ part = "runbooks" => Saves!Project!TypeOK /\ Saves!Project!RunbookKnown
    /\ part = "project creates" => Project!OneSource
    /\ part = "skill saves" => Skill!TypeOK /\ Skill!SavesOwn
    /\ part = "environment saves" => /\ Saves!Env!TypeOK
                                     /\ Saves!Env!ReadyWasTested /\ Saves!Env!Protected
    /\ part = "environment checks" => Changes!Env!ReadyWasTested
    /\ part = "environment deletes" => Deletes!Env!Protected
    /\ part = "project deletes" => Deletes!Project!OnlyUnusedDeleted /\ Deletes!Project!RunbookKnown
    /\ part = "slugs" => Deletes!Skill!SlugsDiffer
    /\ part = "snapshots" => TypeOK /\ IdsFresh

\* What is saved changes only by a choice that somebody made for it, each with the
\* exception that the code makes:
\* - what was chosen in one workspace is saved in that workspace, also when the
\*   user has gone on to another one before it is sent (the mutations' closures);
\* - only a save of an environment's configuration changes it: the check of a VM
\*   refreshes the status and may replace the credential, but whatever is saved
\*   while it tries the login stays configured (CheckEnvironment).  The check and
\*   the import of a cluster in Postgres write back the whole record that they
\*   read, and so take back a save that came between (CheckCluster);
\* - once the user has closed the import prompt it is never shown again, not on a
\*   later visit either (the key in localStorage);
\* - when nobody else writes it and every load and save is answered, a runbook
\*   changes only by a save of somebody who has typed something into its editor;
\* - a skill that was deleted stays deleted and switched off, though an update
\*   that read it before may still be under way (UpdateSkill, DeleteSkill);
\* - the name and the text of a skill change only to what somebody sent: switching
\*   it on or off takes back no change that another admin made since the page
\*   listed the skills (toggleSkill, UpdateSkill), only a name that was changed
\*   between the two statements with which Postgres reads and updates the skill.
ChangedByChoice == [][
    /\ part = "settings saves" => Admin!SavedWhereChosen
    /\ part = "environment saves" => Saves!Env!ConfigBySave
    /\ part = "environment checks" => Changes!Env!ConfigBySave
    /\ part = "import prompt" => Prompt!Env!PromptOnce
    /\ part = "one writer" => Changes!Project!RunbookByChoice
    /\ part = "slugs" => Deletes!Skill!DeletedStays
    /\ part = "toggles" => Changes!Skill!TogglesKeep]_partsVars

\* What is behind catches up: a link that was used up or revoked, here or
\* elsewhere, is no longer offered for revocation, and a task that has ended is
\* not shown as active.
WorkspaceSettles == Behind ~> ~Behind

-----------------------------------------------------------------------------
\* The inductive invariants of the components, whichever runs.
AdminPartsInv ==
    /\ part = "settings forms" => Saves!AdminInv
    /\ part = "settings saves" => AdminInv
PanelPartsInv ==
    /\ part = "task pages" => PanelInv
EnvPartsInv ==
    /\ part = "environment saves" => Saves!EnvInv
    /\ part = "environment checks" => Changes!EnvInv
    /\ part = "environment deletes" => Deletes!EnvInv
    /\ part = "environment page" => EnvInv
    /\ part = "import prompt" => Prompt!EnvInv
ProjectPartsInv ==
    /\ part = "runbooks" => Saves!ProjectInv
    /\ part = "one writer" => Changes!ProjectInv
    /\ part = "project deletes" => Deletes!ProjectInv
    /\ part = "project creates" => ProjectInv
SkillPartsInv ==
    /\ part = "skill saves" => SkillsInv
    /\ part = "slugs" => Deletes!SkillsInv
    /\ part = "toggles" => Changes!SkillsInv
PartsInv == /\ AdminPartsInv /\ PanelPartsInv /\ EnvPartsInv /\ ProjectPartsInv /\ SkillPartsInv
            /\ part = "snapshots" => IInv

LEMMA PartsInitially ==
    ASSUME PartsInit
    PROVE  PartsInv
<1>1. AdminPartsInv
  BY InstancesAssumption, Saves!AdminInit, AdminInit DEF PartsInit, WorkspaceSettingsInit,
      AdminPartsInv
<1>2. PanelPartsInv
  BY InstancesAssumption, PanelInit DEF PartsInit, RuntimeTasksPanelInit, PanelPartsInv
<1>3. EnvPartsInv
  BY InstancesAssumption, Saves!EnvInit, Changes!EnvInit, Deletes!EnvInit, EnvInit,
      Prompt!EnvInit DEF PartsInit, EnvironmentsInit, EnvPartsInv
<1>4. ProjectPartsInv
  BY InstancesAssumption, Saves!ProjectInit, Changes!ProjectInit, Deletes!ProjectInit,
      ProjectInit DEF PartsInit, ProjectsInit, ProjectPartsInv
<1>5. SkillPartsInv
  BY InstancesAssumption, SkillInit, Deletes!SkillInit, Changes!SkillInit DEF PartsInit,
      SkillsInit, SkillPartsInv
<1>6. part = "snapshots" => IInv
  BY InstancesAssumption, InitIInv DEF PartsInit
<1> QED
  BY <1>1, <1>2, <1>3, <1>4, <1>5, <1>6 DEF PartsInv

\* A step of one component is none of another.
LEMMA PartsApart ==
    ASSUME [PartsNext]_partsVars
    PROVE  /\ part' = part
           /\ [WorkspaceSettingsNext]_workspaceSettingsVars
           /\ [RuntimeTasksPanelNext]_runtimeTasksPanelVars
           /\ [EnvironmentsNext]_environmentsVars
           /\ [ProjectsNext]_projectsVars
           /\ [SkillsNext]_skillsVars
           /\ [StoreNext]_vars
<1>1. CASE UNCHANGED partsVars
  BY <1>1 DEF partsVars
<1>2. CASE WorkspaceSettingsNext
  BY <1>2 DEF WorkspaceSettingsNext, OnlyWorkspaceSettings
<1>3. CASE RuntimeTasksPanelNext
  BY <1>3 DEF RuntimeTasksPanelNext, OnlyRuntimeTasksPanel
<1>4. CASE EnvironmentsNext
  BY <1>4 DEF EnvironmentsNext, OnlyEnvironments
<1>5. CASE ProjectsNext
  BY <1>5 DEF ProjectsNext, OnlyProjects
<1>6. CASE SkillsNext
  BY <1>6 DEF SkillsNext, OnlySkills
<1>7. CASE StoreNext
  BY <1>7 DEF StoreNext, OnlyStore
<1> QED
  BY <1>1, <1>2, <1>3, <1>4, <1>5, <1>6, <1>7 DEF PartsNext

\* A step of the whole is one of the component that runs, or changes nothing of it.
LEMMA PartsRun ==
    ASSUME [PartsNext]_partsVars
    PROVE
      /\ part = "settings forms" => [Saves!Admin!Next]_(Saves!Admin!vars)
      /\ part = "settings saves" => [Admin!Next]_(Admin!vars)
      /\ part = "task pages" => [Panel!Next]_(Panel!vars)
      /\ part = "environment saves" => [Saves!Env!Next]_(Saves!Env!vars)
      /\ part = "environment checks" => [Changes!Env!Next]_(Changes!Env!vars)
      /\ part = "environment deletes" => [Deletes!Env!Next]_(Deletes!Env!vars)
      /\ part = "environment page" => [Env!Next]_(Env!vars)
      /\ part = "import prompt" => [Prompt!Env!Next]_(Prompt!Env!vars)
      /\ part = "runbooks" => [Saves!Project!Next]_(Saves!Project!vars)
      /\ part = "one writer" => [Changes!Project!Next]_(Changes!Project!vars)
      /\ part = "project deletes" => [Deletes!Project!Next]_(Deletes!Project!vars)
      /\ part = "project creates" => [Project!Next]_(Project!vars)
      /\ part = "skill saves" => [Skill!Next]_(Skill!vars)
      /\ part = "slugs" => [Deletes!Skill!Next]_(Deletes!Skill!vars)
      /\ part = "toggles" => [Changes!Skill!Next]_(Changes!Skill!vars)
      /\ part = "snapshots" => [Next]_vars
<1>1. /\ part = "settings forms" => [Saves!Admin!Next]_(Saves!Admin!vars)
      /\ part = "settings saves" => [Admin!Next]_(Admin!vars)
  <2>1. UNCHANGED workspaceSettingsVars =>
          /\ UNCHANGED Saves!Admin!vars
          /\ UNCHANGED Admin!vars
    BY DEF workspaceSettingsVars, Saves!Admin!vars, Saves!Admin!server, Saves!Admin!page,
        Admin!vars, Admin!server, Admin!page
  <2> QED
    BY <2>1, PartsApart DEF WorkspaceSettingsNext
<1>2. /\ part = "task pages" => [Panel!Next]_(Panel!vars)
  <2>1. UNCHANGED runtimeTasksPanelVars =>
          /\ UNCHANGED Panel!vars
    BY DEF runtimeTasksPanelVars, Panel!vars, Panel!panel
  <2> QED
    BY <2>1, PartsApart DEF RuntimeTasksPanelNext
<1>3. /\ part = "environment saves" => [Saves!Env!Next]_(Saves!Env!vars)
      /\ part = "environment checks" => [Changes!Env!Next]_(Changes!Env!vars)
      /\ part = "environment deletes" => [Deletes!Env!Next]_(Deletes!Env!vars)
      /\ part = "environment page" => [Env!Next]_(Env!vars)
      /\ part = "import prompt" => [Prompt!Env!Next]_(Prompt!Env!vars)
  <2>1. UNCHANGED environmentsVars =>
          /\ UNCHANGED Saves!Env!vars
          /\ UNCHANGED Changes!Env!vars
          /\ UNCHANGED Deletes!Env!vars
          /\ UNCHANGED Env!vars
          /\ UNCHANGED Prompt!Env!vars
    BY DEF environmentsVars, Saves!Env!vars, Saves!Env!server, Saves!Env!dialogs,
        Saves!Env!intro, Changes!Env!vars, Changes!Env!server, Changes!Env!dialogs,
        Changes!Env!intro, Deletes!Env!vars, Deletes!Env!server, Deletes!Env!dialogs,
        Deletes!Env!intro, Env!vars, Env!server, Env!dialogs, Env!intro, Prompt!Env!vars,
        Prompt!Env!server, Prompt!Env!dialogs, Prompt!Env!intro
  <2> QED
    BY <2>1, PartsApart DEF EnvironmentsNext
<1>4. /\ part = "runbooks" => [Saves!Project!Next]_(Saves!Project!vars)
      /\ part = "one writer" => [Changes!Project!Next]_(Changes!Project!vars)
      /\ part = "project deletes" => [Deletes!Project!Next]_(Deletes!Project!vars)
      /\ part = "project creates" => [Project!Next]_(Project!vars)
  <2>1. UNCHANGED projectsVars =>
          /\ UNCHANGED Saves!Project!vars
          /\ UNCHANGED Changes!Project!vars
          /\ UNCHANGED Deletes!Project!vars
          /\ UNCHANGED Project!vars
    BY DEF projectsVars, Saves!Project!vars, Saves!Project!server, Saves!Project!loads,
        Changes!Project!vars, Changes!Project!server, Changes!Project!loads,
        Deletes!Project!vars, Deletes!Project!server, Deletes!Project!loads, Project!vars,
        Project!server, Project!loads
  <2> QED
    BY <2>1, PartsApart DEF ProjectsNext
<1>5. /\ part = "skill saves" => [Skill!Next]_(Skill!vars)
      /\ part = "slugs" => [Deletes!Skill!Next]_(Deletes!Skill!vars)
      /\ part = "toggles" => [Changes!Skill!Next]_(Changes!Skill!vars)
  <2>1. UNCHANGED skillsVars =>
          /\ UNCHANGED Skill!vars
          /\ UNCHANGED Deletes!Skill!vars
          /\ UNCHANGED Changes!Skill!vars
    BY DEF skillsVars, Skill!vars, Deletes!Skill!vars, Changes!Skill!vars
  <2> QED
    BY <2>1, PartsApart DEF SkillsNext
<1>6. part = "snapshots" => [Next]_vars
  BY PartsApart DEF StoreNext
<1> QED
  BY <1>1, <1>2, <1>3, <1>4, <1>5, <1>6

LEMMA PartsStep ==
    ASSUME PartsInv, [PartsNext]_partsVars
    PROVE  PartsInv'
<1>1. part' = part
  BY PartsApart
<1>2. AdminPartsInv'
  BY <1>1, PartsRun, InstancesAssumption, Saves!AdminStep, AdminStep DEF PartsInv,
      AdminPartsInv
<1>3. PanelPartsInv'
  BY <1>1, PartsRun, InstancesAssumption, PanelStep DEF PartsInv, PanelPartsInv
<1>4. EnvPartsInv'
  BY <1>1, PartsRun, InstancesAssumption, Saves!EnvStep, Changes!EnvStep, Deletes!EnvStep,
      EnvStep, Prompt!EnvStep DEF PartsInv, EnvPartsInv
<1>5. ProjectPartsInv'
  BY <1>1, PartsRun, InstancesAssumption, Saves!ProjectStep, Changes!ProjectStep,
      Deletes!ProjectStep, ProjectStep DEF PartsInv, ProjectPartsInv
<1>6. SkillPartsInv'
  BY <1>1, PartsRun, InstancesAssumption, SkillsStep, Deletes!SkillsStep, Changes!SkillsStep
      DEF PartsInv, SkillPartsInv
<1>7. part = "snapshots" => IInv'
  BY PartsRun, InstancesAssumption, StepIInv DEF PartsInv
<1> QED
  BY <1>1, <1>2, <1>3, <1>4, <1>5, <1>6, <1>7 DEF PartsInv

LEMMA PartsSound ==
    ASSUME PartsInv
    PROVE  WorkspaceSound
<1>1. /\ part = "settings forms" => Saves!Admin!TypeOK /\ Saves!Admin!OnlyChosen
      /\ part = "settings saves" => Admin!OnlyChosen
  BY Saves!AdminSound, AdminSound DEF PartsInv, AdminPartsInv
<1>2. part = "task pages" => Panel!TypeOK /\ Panel!NoneSkipped
  BY InstancesAssumption, PanelSound DEF PartsInv, PanelPartsInv
<1>3. part = "environment page" => Env!SavesOwn /\ Env!ReadyWasTested
  BY InstancesAssumption, EnvSound DEF PartsInv, EnvPartsInv
<1>4. part = "runbooks" => Saves!Project!TypeOK /\ Saves!Project!RunbookKnown
  BY Saves!ProjectSound DEF PartsInv, ProjectPartsInv
<1>5. part = "project creates" => Project!OneSource
  BY ProjectSound DEF PartsInv, ProjectPartsInv
<1>6. part = "skill saves" => Skill!TypeOK /\ Skill!SavesOwn
  BY InstancesAssumption, SkillsSound DEF PartsInv, SkillPartsInv
<1>7. /\ part = "environment saves" => /\ Saves!Env!TypeOK
                                       /\ Saves!Env!ReadyWasTested /\ Saves!Env!Protected
      /\ part = "environment checks" => Changes!Env!ReadyWasTested
  BY InstancesAssumption, Saves!EnvSound, Changes!EnvSound DEF PartsInv, EnvPartsInv
<1>8. part = "environment deletes" => Deletes!Env!Protected
  BY InstancesAssumption, Deletes!EnvSound DEF PartsInv, EnvPartsInv
<1>9. part = "project deletes" => Deletes!Project!OnlyUnusedDeleted /\ Deletes!Project!RunbookKnown
  BY Deletes!ProjectSound DEF PartsInv, ProjectPartsInv
<1>10. part = "slugs" => Deletes!Skill!SlugsDiffer
  BY InstancesAssumption, Deletes!SkillsSound DEF PartsInv, SkillPartsInv
<1>11. part = "snapshots" => TypeOK /\ IdsFresh
  BY InstancesAssumption DEF PartsInv, IInv, AnswersSurvive, Counted, IdsFresh
<1> QED
  BY <1>1, <1>2, <1>3, <1>4, <1>5, <1>6, <1>7, <1>8, <1>9, <1>10, <1>11 DEF WorkspaceSound

\* A change of what is saved is one somebody chose.
LEMMA PartsChange ==
    ASSUME PartsInv, [PartsNext]_partsVars
    PROVE  /\ part = "settings saves" => Admin!SavedWhereChosen
           /\ part = "environment saves" => Saves!Env!ConfigBySave
           /\ part = "environment checks" => Changes!Env!ConfigBySave
           /\ part = "import prompt" => Prompt!Env!PromptOnce
           /\ part = "one writer" => Changes!Project!RunbookByChoice
           /\ part = "slugs" => Deletes!Skill!DeletedStays
           /\ part = "toggles" => Changes!Skill!TogglesKeep
<1>1. ASSUME part = "settings saves" PROVE Admin!SavedWhereChosen
  BY <1>1, PartsRun, InstancesAssumption, AdminSaved DEF PartsInv, AdminPartsInv
<1>2. ASSUME part = "environment checks" PROVE Changes!Env!ConfigBySave
  BY <1>2, PartsRun, InstancesAssumption, Changes!EnvConfigs DEF PartsInv, EnvPartsInv
<1>7. ASSUME part = "environment saves" PROVE Saves!Env!ConfigBySave
  BY <1>7, PartsRun, InstancesAssumption, Saves!EnvConfigs DEF PartsInv, EnvPartsInv
<1>3. ASSUME part = "import prompt" PROVE Prompt!Env!PromptOnce
  BY <1>3, PartsRun, Prompt!EnvPromptOnce DEF PartsInv, EnvPartsInv
<1>4. ASSUME part = "one writer" PROVE Changes!Project!RunbookByChoice
  <2>1. Changes!ProjectAlone
    BY DEF Changes!ProjectAlone, Changes!ProjectSteady, OneWriterDoes, NothingFails
  <2> QED
    BY <1>4, <2>1, PartsRun, InstancesAssumption, Changes!ProjectRunbooks DEF PartsInv, ProjectPartsInv
<1>5. ASSUME part = "slugs" PROVE Deletes!Skill!DeletedStays
  BY <1>5, PartsRun, Deletes!SkillsDeletedStay DEF PartsInv, SkillPartsInv
<1>6. ASSUME part = "toggles" PROVE Changes!Skill!TogglesKeep
  BY <1>6, PartsRun, InstancesAssumption, Changes!SkillsKept DEF PartsInv, SkillPartsInv
<1> QED
  BY <1>1, <1>2, <1>3, <1>4, <1>5, <1>6, <1>7

\* What a workspace owns is what its pages and its server say of it, but for the
\* exceptions that WorkspaceSound names, in every instance, the memory store's and
\* Postgres's, for any workspaces, environments, projects, skills and clients and any
\* number of requests of the instances whose bounds are constants of this module.
THEOREM WorkspaceIsSound == PartsSpec => []WorkspaceSound
<1>1. PartsInit => PartsInv
  BY PartsInitially
<1>2. PartsInv /\ [PartsNext]_partsVars => PartsInv'
  BY PartsStep
<1>3. PartsInv => WorkspaceSound
  BY PartsSound
<1> QED
  BY <1>1, <1>2, <1>3, PTL DEF PartsSpec

\* And it changes only by a choice that somebody made for it, but for the exceptions
\* that ChangedByChoice names: a check of a cluster and a request that switches a
\* skill on or off write back what they read in Postgres.
THEOREM WorkspaceChangesByChoice == PartsSpec => ChangedByChoice
<1>1. PartsInit => PartsInv
  BY PartsInitially
<1>2. PartsInv /\ [PartsNext]_partsVars => PartsInv'
  BY PartsStep
<1>3. PartsInv /\ [PartsNext]_partsVars =>
        [ /\ part = "settings saves" => Admin!SavedWhereChosen
          /\ part = "environment saves" => Saves!Env!ConfigBySave
          /\ part = "environment checks" => Changes!Env!ConfigBySave
          /\ part = "import prompt" => Prompt!Env!PromptOnce
          /\ part = "one writer" => Changes!Project!RunbookByChoice
          /\ part = "slugs" => Deletes!Skill!DeletedStays
          /\ part = "toggles" => Changes!Skill!TogglesKeep ]_partsVars
  BY PartsChange
<1> QED
  BY <1>1, <1>2, <1>3, PTL DEF PartsSpec, ChangedByChoice

=============================================================================
