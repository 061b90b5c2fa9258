------------------------------ MODULE WorkspaceProofs ------------------------------
(***************************************************************************)
(* What a workspace owns, and its store: the snapshots of the personal     *)
(* server (SnapshotStore), for any number of clients, rows and crashes;    *)
(* the settings page (Admin) and its task queue (Panel), environments      *)
(* (Env), projects (Project) and skills (Skill), each with whatever the    *)
(* server and other people do meanwhile, for any number of requests.       *)
(***************************************************************************)
EXTENDS SnapshotStore, Sequences, FiniteSetTheorems, TLAPS

-----------------------------------------------------------------------------
(* The snapshots.                                                          *)

\* A store's rows have distinct numbers, none above its counter.
Counted(s) ==
  /\ \A r \in s.rows : r.id <= s.nextID
  /\ \A a, b \in s.rows : a.id = b.id => a = b

\* What a request's place says of its row and its copy of memory.
Written(c) ==
  /\ request[c].pc # "rest" => request[c].row \subseteq memory.rows
  /\ request[c].pc = "writing" =>
       /\ Counted(request[c].copy)
       /\ request[c].copy.rows \subseteq memory.rows
       /\ disk.rows \subseteq request[c].copy.rows
       /\ request[c].row \subseteq request[c].copy.rows
  /\ (MaxFails = 0 /\ request[c].pc = "written") => request[c].row \subseteq disk.rows

\* Snapshots are written, and answers wait for them.
Reliable == MaxFails = 0 /\ ~Large

\* The inductive invariant.
IInv ==
  /\ TypeOK
  /\ Counted(memory) /\ Counted(disk)
  /\ disk.rows \subseteq memory.rows
  /\ \A c \in Clients : Written(c)
  /\ Reliable => AnswersSurvive

LEMMA InitIInv ==
  ASSUME SnapshotStoreAssumption PROVE Init => IInv
BY SMTT(30)
  DEF SnapshotStoreAssumption, Init, IInv, TypeOK, Counted, Written, Reliable, AnswersSurvive, Resting, Empty, Request,
      Store, Row

\* A step leaves the budget within its bounds.
LEMMA BudgetType ==
  ASSUME SnapshotStoreAssumption, TypeOK, Next
  PROVE  budget' \in [rows: 0..MaxRows, crashes: 0..MaxCrashes, fails: 0..MaxFails]
<1>1. budget' = budget \/ Spend("rows") \/ Spend("crashes") \/ Spend("fails")
  BY DEF Next, Apply, Persist, Lock, Copy, Write, Answer, Finish, Crash
<1>2. budget \in [rows: 0..MaxRows, crashes: 0..MaxCrashes, fails: 0..MaxFails]
  BY DEF TypeOK
<1> QED
  BY <1>1, <1>2 DEF Spend, SnapshotStoreAssumption

LEMMA StepIInv ==
  ASSUME SnapshotStoreAssumption, IInv, [Next]_vars
  PROVE  IInv'
<1> USE DEF SnapshotStoreAssumption, IInv, TypeOK, Request
<1>1. ASSUME NEW c \in Clients, Apply(c) PROVE IInv'
  <2> DEFINE row == [id |-> memory.nextID + 1, by |-> c, no |-> budget.rows]
  <2>1. row \in Row /\ row.id = memory.nextID + 1 /\ row.id \in 1..MaxRows
    BY <1>1 DEF Apply, Spend, Row, Store
  <2>2. /\ memory' = [rows |-> memory.rows \cup {row}, nextID |-> row.id]
        /\ request' = [request EXCEPT ![c].pc = "applied", ![c].row = {row}]
        /\ request[c].pc = "rest"
        /\ UNCHANGED <<disk, mutex, answered>>
    BY <1>1 DEF Apply, At
  <2> HIDE DEF row
  <2>3. memory' \in Store
    BY <2>1, <2>2 DEF Store
  <2>4. TypeOK'
    BY <1>1, <2>1, <2>2, <2>3, BudgetType DEF Next
  <2>5. Counted(memory')
    BY <2>1, <2>2 DEF Counted, Store, Row
  <2>6. \A d \in Clients : Written(d)'
    BY <2>1, <2>2 DEF Written
  <2> QED
    BY <2>2, <2>4, <2>5, <2>6 DEF Counted, AnswersSurvive, Reliable
<1>2. ASSUME NEW c \in Clients, Lock(c) PROVE IInv'
  <2>1. TypeOK'
    BY <1>2, BudgetType DEF Next, Persist, Lock, At, Go, MayPersist
  <2>2. \A d \in Clients : Written(d)'
    BY <1>2 DEF Lock, At, Go, Written
  <2> QED
    BY <1>2, <2>1, <2>2 DEF Lock, Counted, AnswersSurvive, Reliable
<1>3. ASSUME NEW c \in Clients, Copy(c) PROVE IInv'
  <2>1. TypeOK'
    BY <1>3, BudgetType DEF Next, Persist, Copy, At
  <2>2. \A d \in Clients : Written(d)'
    BY <1>3 DEF Copy, At, Written
  <2> QED
    BY <1>3, <2>1, <2>2 DEF Copy, Counted, AnswersSurvive, Reliable
<1>4. ASSUME NEW c \in Clients, Write(c) PROVE IInv'
  <2>1. /\ request[c].pc = "writing" /\ request' = [request EXCEPT ![c].pc = "written"]
        /\ mutex' = None /\ UNCHANGED <<memory, answered>>
        /\ disk' = request[c].copy \/ (disk' = disk /\ budget.fails > 0)
    BY <1>4 DEF Write, At, Go, Released, Spend
  <2>2. TypeOK'
    BY <1>4, <2>1, BudgetType DEF Next, Persist
  <2>3. Counted(disk') /\ disk.rows \subseteq disk'.rows /\ disk'.rows \subseteq memory.rows
    BY <2>1 DEF Written
  <2>4. MaxFails = 0 => disk' = request[c].copy
    BY <2>1
  <2>5. \A d \in Clients \ {c} : request[d].pc # "writing"
    BY <2>1
  <2>6. \A d \in Clients : Written(d)'
    BY <2>1, <2>3, <2>4, <2>5 DEF Written
  <2> QED
    BY <2>1, <2>2, <2>3, <2>6 DEF Counted, AnswersSurvive, Reliable
<1>5. ASSUME NEW c \in Clients, Answer(c) PROVE IInv'
  <2>1. TypeOK'
    BY <1>5, BudgetType DEF Next, Answer
  <2>2. \A d \in Clients : Written(d)'
    BY <1>5 DEF Answer, Written
  <2>3. Reliable => AnswersSurvive'
    BY <1>5 DEF Answer, Flushed, At, Reliable, AnswersSurvive, Written
  <2> QED
    BY <1>5, <2>1, <2>2, <2>3 DEF Answer, Counted, Reliable
<1>6. ASSUME NEW c \in Clients, Finish(c) PROVE IInv'
  <2>1. Resting \in Request /\ Resting.pc = "rest"
    BY DEF Resting, Empty, Store
  <2>2. TypeOK'
    BY <1>6, <2>1, BudgetType DEF Next, Finish, At
  <2>3. \A d \in Clients : Written(d)'
    BY <1>6, <2>1 DEF Finish, At, Written
  <2> QED
    BY <1>6, <2>2, <2>3 DEF Finish, Counted, AnswersSurvive, Reliable
<1>7. CASE Crash
  <2>1. Resting \in Request /\ Resting.pc = "rest"
    BY DEF Resting, Empty, Store
  <2>2. /\ memory' = disk /\ request' = [c \in Clients |-> Resting] /\ mutex' = None
        /\ UNCHANGED <<disk, answered>>
    BY <1>7 DEF Crash, Restored
  <2>3. TypeOK'
    BY <1>7, <2>1, <2>2, BudgetType DEF Next
  <2>4. \A d \in Clients : Written(d)'
    BY <2>1, <2>2 DEF Written
  <2> QED
    BY <2>2, <2>3, <2>4 DEF Counted, AnswersSurvive, Reliable
<1>8. CASE UNCHANGED vars
  BY <1>8 DEF vars, Counted, Written, AnswersSurvive, Reliable
<1> QED
  BY <1>1, <1>2, <1>3, <1>4, <1>5, <1>6, <1>7, <1>8 DEF Next, Persist

(* A snapshot that failed is made up for: who has already tried to write its *)
(* own is in the copy of whoever writes now.                               *)
Later ==
  \A c, d \in Clients :
    request[c].pc = "writing" /\ request[d].pc = "written" => request[d].row \subseteq request[c].copy.rows

LEMMA StepLater ==
  ASSUME SnapshotStoreAssumption, IInv, Later, [Next]_vars
  PROVE  Later'
<1> USE DEF IInv, TypeOK, Request
<1>1. ASSUME NEW c \in Clients, Apply(c) \/ Lock(c) \/ Answer(c) PROVE Later'
  BY <1>1 DEF Later, Apply, Lock, Answer, At, Go
<1>2. ASSUME NEW c \in Clients, Copy(c) PROVE Later'
  BY <1>2 DEF Later, Copy, At, Written
<1>3. ASSUME NEW c \in Clients, Write(c) PROVE Later'
  <2>1. /\ request[c].pc = "writing" /\ request' = [request EXCEPT ![c].pc = "written"]
        /\ \A d \in Clients \ {c} : request[d].pc # "writing"
    BY <1>3 DEF Write, At, Go
  <2> QED
    BY <2>1 DEF Later
<1>4. ASSUME NEW c \in Clients, Finish(c) PROVE Later'
  BY <1>4 DEF Later, Finish, At, Resting
<1>5. CASE Crash
  BY <1>5 DEF Later, Crash, Resting
<1>6. CASE UNCHANGED vars
  BY <1>6 DEF Later, vars
<1> QED
  BY <1>1, <1>2, <1>3, <1>4, <1>5, <1>6 DEF Next, Persist

\* Every variable has its type, and at most one request writes the snapshot.
THEOREM TypeCorrect ==
  ASSUME SnapshotStoreAssumption PROVE Spec => []TypeOK
<1>1. IInv => TypeOK
  BY DEF IInv
<1>2. Init => IInv
  BY InitIInv
<1>3. IInv /\ [Next]_vars => IInv'
  BY StepIInv
<1> QED
  BY <1>1, <1>2, <1>3, PTL DEF Spec

\* The file never goes back to an older snapshot, also when writes fail and
\* answers are early.
THEOREM DiskMonotone ==
  ASSUME SnapshotStoreAssumption PROVE Spec => DiskAdvances
<1>1. IInv /\ [Next]_vars => [disk.rows \subseteq disk'.rows]_vars
  BY DEF IInv, Next, Persist, Apply, Lock, Copy, Write, Answer, Finish, Crash, At, Written, vars
<1>2. Init => IInv
  BY InitIInv
<1>3. IInv /\ [Next]_vars => IInv'
  BY StepIInv
<1> QED
  BY <1>1, <1>2, <1>3, PTL DEF Spec, DiskAdvances

\* If snapshots are written and answers wait for them, a crash takes back nothing
\* that was answered.
THEOREM AnswersDurable ==
  ASSUME SnapshotStoreAssumption, Reliable PROVE Spec => []AnswersSurvive
<1>1. IInv => AnswersSurvive
  BY DEF IInv
<1>2. Init => IInv
  BY InitIInv
<1>3. IInv /\ [Next]_vars => IInv'
  BY StepIInv
<1> QED
  BY <1>1, <1>2, <1>3, PTL DEF Spec

\* Under the same conditions no number is answered twice.
THEOREM IdsUnique ==
  ASSUME SnapshotStoreAssumption, Reliable PROVE Spec => []IdsFresh
<1>1. IInv => IdsFresh
  BY DEF IInv, AnswersSurvive, Counted, IdsFresh
<1>2. Init => IInv
  BY InitIInv
<1>3. IInv /\ [Next]_vars => IInv'
  BY StepIInv
<1> QED
  BY <1>1, <1>2, <1>3, PTL DEF Spec

\* What one request failed to write is in the file as soon as a later request's
\* snapshot succeeds.
THEOREM LaterSaves ==
  ASSUME SnapshotStoreAssumption PROVE Spec => NextSaves
<1>1. IInv /\ Later /\ [Next]_vars =>
        [\A c \in Clients : (At(c, "writing") /\ disk' # disk) => \A d \in Clients \ {c} :
           At(d, "written") => request[d].row \subseteq disk'.rows]_vars
  <2> SUFFICES ASSUME IInv, Later, Next, NEW c \in Clients, At(c, "writing"), disk' # disk,
                      NEW d \in Clients \ {c}, At(d, "written")
               PROVE  request[d].row \subseteq disk'.rows
    BY DEF vars
  <2>1. PICK e \in Clients : Write(e)
    BY DEF Next, Persist, Apply, Lock, Copy, Answer, Finish, Crash
  <2>2. e = c /\ disk' = request[c].copy
    BY <2>1 DEF Write, At, IInv, TypeOK
  <2> QED
    BY <2>2 DEF Later, At
<1>2. Init => IInv /\ Later
  BY InitIInv DEF Init, Later, Resting
<1>3. IInv /\ Later /\ [Next]_vars => (IInv /\ Later)'
  BY StepIInv, StepLater
<1> QED
  BY <1>1, <1>2, <1>3, PTL DEF Spec, NextSaves

\* A set whose members are equal has at most one.
LEMMA AtMostOne ==
    ASSUME NEW S, \A x, y \in S : x = y
    PROVE  IsFiniteSet(S) /\ Cardinality(S) \in Nat /\ Cardinality(S) <= 1
<1>1. IsFiniteSet({}) /\ Cardinality({}) = 0
  BY FS_EmptySet
<1>2. \A x \in S : S = {x}
  OBVIOUS
<1>3. \A x \in S : IsFiniteSet({x}) /\ Cardinality({x}) = 1
  BY FS_Singleton
<1> QED
  BY <1>1, <1>2, <1>3

-----------------------------------------------------------------------------
(* Projects.                                                               *)

CONSTANTS NoText
CONSTANTS ProjectIds, ProjectNames, RunbookTexts, ProjectTeam, ProjectsDatabase, ProjectsDoes, ProjectsFails,
    ProjectsEdits, ProjectsOthers, ProjectsMaxFails, ProjectsAsks
VARIABLES projects, runbook, working, gone, late, projectsListed, cache, fetching, unloaded, projectsPage,
    seen, projectsCalls, new, picking, projectsBudget

Project == INSTANCE Projects WITH Empty <- NoText, Ids <- ProjectIds, Names <- ProjectNames,
    Texts <- RunbookTexts, Team <- ProjectTeam, Database <- ProjectsDatabase, Does <- ProjectsDoes, Fails <- ProjectsFails,
    MaxEdits <- ProjectsEdits, MaxOthers <- ProjectsOthers, MaxFails <- ProjectsMaxFails,
    MaxAsks <- ProjectsAsks, listed <- projectsListed, page <- projectsPage,
    calls <- projectsCalls, budget <- projectsBudget

ProjectSave == [name: ProjectNames, text: Project!Contents, touched: BOOLEAN, blind: BOOLEAN]
ProjectPage == [open: ProjectIds \cup {None}, name: ProjectNames \cup {None}, hasWork: BOOLEAN,
                draft: Project!Contents, touched: BOOLEAN]
ProjectForm == [shown: BOOLEAN, path: BOOLEAN, url: BOOLEAN]
ProjectView == [name: ProjectNames, hasWork: BOOLEAN]

\* A request is what it carries and how far it is.
ProjectCall(r) ==
    /\ r = [op |-> r.op, of |-> r.of, body |-> r.body, pc |-> r.pc]
    /\ r.op \in {"save", "delete", "create"} /\ r.of \in ProjectIds
    /\ r.op = "save" => r.body \in ProjectSave /\ r.pc \in {"sent", "runbook", "ok", "refetch"}
    /\ r.op = "delete" => "delete" \in ProjectsDoes
    /\ r.pc = "counted" => ProjectsDatabase
    /\ r.op = "create" => r.body.path # r.body.url

ProjectServer ==
    /\ DOMAIN projects \subseteq ProjectIds /\ \A p \in DOMAIN projects : projects[p] \in ProjectNames
    /\ runbook \in [ProjectIds -> Project!Contents] /\ working \subseteq ProjectIds
    /\ ~ProjectsDatabase => gone = {}

ProjectLoads ==
    /\ DOMAIN projectsListed \subseteq ProjectIds
    /\ \A p \in DOMAIN projectsListed : projectsListed[p] \in ProjectView
    /\ fetching \subseteq ProjectIds
    /\ cache \in [ProjectIds -> SUBSET Project!Contents] /\ seen \in [ProjectIds -> SUBSET Project!Contents]
    /\ \A p \in ProjectIds : cache[p] \subseteq seen[p] /\ \A s, t \in cache[p] : s = t

ProjectOpen ==
    /\ projectsPage \in ProjectPage
    /\ projectsPage.open # None => projectsPage.name \in ProjectNames
    /\ new \in ProjectForm /\ ~(new.path /\ new.url)

ProjectCalls ==
    /\ \A r \in projectsCalls : ProjectCall(r)
    /\ \A r, q \in projectsCalls : r.op = "save" /\ q.op = "save" => r = q

\* The runbook of the open settings was loaded, is being loaded or could not be;
\* what the editor shows of a runbook that was loaded was loaded of its project or
\* typed for it.
ProjectLoaded ==
    /\ unloaded \subseteq ProjectIds
    /\ projectsPage.open # None =>
         /\ cache[projectsPage.open] # {} \/ projectsPage.open \in fetching \cup unloaded
         /\ cache[projectsPage.open] # {} => projectsPage.draft \in seen[projectsPage.open]
    /\ \A r \in projectsCalls : r.op = "save" => r.body.text \in seen[r.of] \/ r.body.blind

\* A deletion that has counted the issues of its project found none, and an issue
\* was created since if the project has one now.
ProjectCounted ==
    /\ late \subseteq ProjectIds /\ gone \subseteq late
    /\ \A r \in projectsCalls : r.pc = "counted" => r.of \notin working \/ r.of \in late

\* While no project is deleted and every runbook can be loaded, a project of the
\* page exists, and a save is of the settings that are open.
ProjectKnown ==
    /\ fetching \subseteq DOMAIN projects /\ DOMAIN projectsListed \subseteq DOMAIN projects
    /\ \A p \in ProjectIds : cache[p] # {} => p \in DOMAIN projects
    /\ projectsPage.open # None =>
         /\ projectsPage.open \in DOMAIN projects
         /\ cache[projectsPage.open] # {} \/ projectsPage.open \in fetching
         /\ cache[projectsPage.open] # {} => projectsPage.draft \in seen[projectsPage.open]
    /\ \A r \in projectsCalls : r.op = "save" => r.of = projectsPage.open /\ r.body.text \in seen[r.of]

\* While nobody else writes a runbook and every save is answered, an editor that
\* was not touched shows what is cached, and only in the course of a save is that
\* another runbook than the one that is stored.
ProjectChosen ==
    /\ \A p \in ProjectIds : cache[p] # {} /\ cache[p] # {runbook[p]} =>
         \E r \in projectsCalls : /\ r.op = "save" /\ r.of = p
                                  /\ r.pc = "ok" \/ (r.pc = "refetch" /\ p \in fetching)
    /\ projectsPage.open # None /\ ~projectsPage.touched /\ cache[projectsPage.open] # {} =>
         cache[projectsPage.open] = {projectsPage.draft}
    /\ \A r \in projectsCalls : r.op = "save" /\ ~r.body.touched /\ r.pc \in {"sent", "runbook"} =>
         r.body.text = runbook[r.of]

ProjectSteady == "delete" \notin ProjectsDoes /\ "load" \notin ProjectsFails
ProjectAlone == ProjectSteady /\ "runbooks" \notin ProjectsDoes /\ "save" \notin ProjectsFails

ProjectInv ==
    /\ ProjectServer /\ ProjectLoads /\ ProjectOpen /\ ProjectCalls /\ ProjectLoaded /\ ProjectCounted
    /\ ProjectSteady => ProjectKnown
    /\ ProjectAlone => ProjectChosen

\* The settings when the effect has run for what was loaded.
LEMMA ProjectFilled ==
    ASSUME NEW s \in ProjectPage, NEW D \in SUBSET Project!Contents, \A a, b \in D : a = b
    PROVE  /\ Project!Filled(s, D) \in ProjectPage
           /\ Project!Filled(s, D).open = s.open /\ Project!Filled(s, D).name = s.name
           /\ D = {} => Project!Filled(s, D) = s
           /\ D # {} => D = {Project!Filled(s, D).draft} /\ Project!Filled(s, D).touched = FALSE
<1>1. CASE D = {}
  BY <1>1 DEF Project!Filled
<1>2. CASE D # {}
  <2>1. PICK t : D = {t} /\ t \in Project!Contents
    BY <1>2
  <2>2. (CHOOSE u \in D : TRUE) = t
    BY <2>1
  <2>3. Project!Filled(s, D) = [s EXCEPT !.draft = t, !.touched = FALSE]
    BY <1>2, <2>2 DEF Project!Filled
  <2> DEFINE f == [s EXCEPT !.draft = t, !.touched = FALSE]
  <2>4. f \in ProjectPage /\ f.open = s.open /\ f.name = s.name /\ f.draft = t /\ f.touched = FALSE
    BY <2>1 DEF ProjectPage
  <2> HIDE DEF f
  <2>5. Project!Filled(s, D) = f
    BY <2>3 DEF f
  <2> QED
    BY <1>2, <2>1, <2>4, <2>5
<1> QED
  BY <1>1, <1>2

LEMMA ProjectClosed == Project!ClosedSettings \in ProjectPage /\ Project!ClosedSettings.open = None
BY DEF Project!ClosedSettings, ProjectPage, Project!Contents

\* The settings of a project as they open, and as a deletion leaves them.
LEMMA ProjectOpened ==
    ASSUME NEW p \in ProjectIds, NEW v \in ProjectView
    PROVE  LET s == [Project!ClosedSettings EXCEPT !.open = p, !.name = v.name, !.hasWork = v.hasWork]
           IN  s \in ProjectPage /\ s.open = p /\ s.name \in ProjectNames
BY DEF Project!ClosedSettings, ProjectPage, ProjectView, Project!Contents

LEMMA ProjectEmptied ==
    ASSUME NEW t \in Project!Contents
    PROVE  LET s == [Project!ClosedSettings EXCEPT !.draft = t] IN s \in ProjectPage /\ s.open = None
BY DEF Project!ClosedSettings, ProjectPage

LEMMA ProjectInit ==
    ASSUME Project!ProjectsAssumption, Project!Init
    PROVE  ProjectInv
<1>1. PICK X \in SUBSET ProjectIds, n \in ProjectNames : projects = [p \in X |-> n]
  BY DEF Project!Init
<1>2. /\ runbook \in [ProjectIds -> {NoText, CHOOSE t \in RunbookTexts : TRUE}]
      /\ working = {} /\ gone = {} /\ late = {} /\ projectsListed = <<>>
      /\ cache = [p \in ProjectIds |-> {}] /\ seen = [p \in ProjectIds |-> {}] /\ fetching = {} /\ unloaded = {}
      /\ projectsPage = Project!ClosedSettings /\ projectsCalls = {} /\ new = Project!EmptyForm
  BY DEF Project!Init
<1>3. DOMAIN projectsListed = {}
  <2>1. <<>> \in Seq(ProjectIds) /\ Len(<<>>) = 0
    OBVIOUS
  <2> QED
    BY <1>2, <2>1
<1>4. ProjectServer
  <2>1. RunbookTexts # {}
    BY DEF Project!ProjectsAssumption
  <2> QED
    BY <1>1, <1>2, <2>1 DEF ProjectServer, Project!Contents
<1>5. ProjectLoads
  BY <1>2, <1>3 DEF ProjectLoads
<1>6. ProjectOpen
  BY <1>2, ProjectClosed DEF ProjectOpen, Project!EmptyForm, ProjectForm
<1>7. ProjectCalls
  BY <1>2 DEF ProjectCalls
<1>8. ProjectLoaded /\ ProjectCounted /\ ProjectKnown /\ ProjectChosen
  BY <1>2, <1>3, ProjectClosed DEF ProjectLoaded, ProjectCounted, ProjectKnown, ProjectChosen
<1> QED
  BY <1>4, <1>5, <1>6, <1>7, <1>8 DEF ProjectInv

-----------------------------------------------------------------------------
\* A request that moves on carries what it carried.
LEMMA ProjectGoes ==
    ASSUME ProjectCalls, NEW r \in projectsCalls, NEW pc, Project!Goes(r, pc),
           r.op = "save" => pc \in {"runbook", "ok", "refetch"}, pc = "counted" => ProjectsDatabase
    PROVE  /\ ProjectCalls'
           /\ \E m : /\ projectsCalls' = (projectsCalls \ {r}) \cup {m} /\ m.pc = pc
                     /\ m.op = r.op /\ m.of = r.of /\ m.body = r.body
<1> DEFINE m == [r EXCEPT !.pc = pc]
<1>1. ProjectCall(r) /\ \A q \in projectsCalls : ProjectCall(q)
  BY DEF ProjectCalls
<1>2. r = [op |-> r.op, of |-> r.of, body |-> r.body, pc |-> r.pc]
  BY <1>1 DEF ProjectCall
<1>3. m = [op |-> r.op, of |-> r.of, body |-> r.body, pc |-> pc]
  BY <1>2
<1>4. m.op = r.op /\ m.of = r.of /\ m.body = r.body /\ m.pc = pc
  BY <1>3
<1>5. m = [op |-> m.op, of |-> m.of, body |-> m.body, pc |-> m.pc]
  BY <1>3, <1>4
<1>6. projectsCalls' = (projectsCalls \ {r}) \cup {m}
  BY DEF Project!Goes
<1> HIDE DEF m
<1>7. ProjectCall(m)
  BY <1>1, <1>4, <1>5 DEF ProjectCall
<1>8. ProjectCalls'
  BY <1>1, <1>4, <1>6, <1>7 DEF ProjectCalls
<1> QED
  BY <1>4, <1>6, <1>8

LEMMA ProjectDrops ==
    ASSUME ProjectCalls, NEW r, projectsCalls' = projectsCalls \ {r}
    PROVE  ProjectCalls'
BY DEF ProjectCalls

\* The steps of the server: a save, a deletion and a creation, and others.
LEMMA ProjectServerStep ==
    ASSUME ProjectInv, Project!ProjectsAssumption,
           \/ \E p \in ProjectIds : \/ Project!CreateIssue(p)
                                    \/ \E t \in Project!Contents : Project!OtherWritesRunbook(p, t)
           \/ \E r \in projectsCalls : \/ Project!UpdateProject(r) \/ Project!UpdateProjectRunbook(r)
                                       \/ Project!CountIssues(r) \/ Project!DeleteProject(r)
                                       \/ \E n \in ProjectNames : Project!CreateProject(r, n)
    PROVE  ProjectServer' /\ ProjectLoads' /\ ProjectOpen' /\ ProjectCalls'
<1>1. UNCHANGED <<projectsListed, cache, fetching, seen, projectsPage, new>>
  BY DEF Project!CreateIssue, Project!OtherWritesRunbook, Project!UpdateProject, Project!UpdateProjectRunbook,
    Project!CountIssues, Project!DeleteProject, Project!CreateProject, Project!loads
<1>2. ProjectLoads' /\ ProjectOpen'
  BY <1>1 DEF ProjectInv, ProjectLoads, ProjectOpen
<1>3. ProjectServer /\ ProjectCalls /\ \A r \in projectsCalls : ProjectCall(r)
  BY DEF ProjectInv, ProjectCalls
<1>4. NoText \in Project!Contents
  BY DEF Project!Contents
<1>5. ASSUME NEW p \in ProjectIds, Project!CreateIssue(p) PROVE ProjectServer' /\ ProjectCalls'
  BY <1>3, <1>5 DEF Project!CreateIssue, ProjectServer, ProjectCalls
<1>6. ASSUME NEW p \in ProjectIds, NEW t \in Project!Contents, Project!OtherWritesRunbook(p, t)
      PROVE  ProjectServer' /\ ProjectCalls'
  BY <1>3, <1>6 DEF Project!OtherWritesRunbook, ProjectServer, ProjectCalls
<1>7. ASSUME NEW r \in projectsCalls, Project!UpdateProject(r) PROVE ProjectServer' /\ ProjectCalls'
  <2>1. r.body \in ProjectSave /\ r.op = "save"
    BY <1>3, <1>7 DEF Project!UpdateProject, ProjectCall
  <2>2. ProjectServer'
    BY <1>3, <1>7, <2>1 DEF Project!UpdateProject, ProjectServer, ProjectSave
  <2>3. Project!Goes(r, "runbook")
    BY <1>7 DEF Project!UpdateProject
  <2> QED
    BY <1>3, <2>1, <2>2, <2>3, ProjectGoes
<1>8. ASSUME NEW r \in projectsCalls, Project!UpdateProjectRunbook(r) PROVE ProjectServer' /\ ProjectCalls'
  <2>1. r.body \in ProjectSave /\ r.op = "save"
    BY <1>3, <1>8 DEF Project!UpdateProjectRunbook, ProjectCall
  <2>2. ProjectServer'
    BY <1>3, <1>8, <2>1 DEF Project!UpdateProjectRunbook, ProjectServer, ProjectSave
  <2>3. Project!Goes(r, "ok")
    BY <1>8 DEF Project!UpdateProjectRunbook
  <2> QED
    BY <1>3, <2>1, <2>2, <2>3, ProjectGoes
<1>9. ASSUME NEW r \in projectsCalls, Project!CountIssues(r) PROVE ProjectServer' /\ ProjectCalls'
  <2>1. ProjectServer' /\ r.op = "delete" /\ ProjectsDatabase /\ Project!Goes(r, "counted")
    BY <1>3, <1>9 DEF Project!CountIssues, Project!server, ProjectServer
  <2> QED
    BY <1>3, <2>1, ProjectGoes
<1>10. ASSUME NEW r \in projectsCalls, Project!DeleteProject(r) PROVE ProjectServer' /\ ProjectCalls'
  <2>1. r.op = "delete" /\ Project!Goes(r, "ok")
    BY <1>10 DEF Project!DeleteProject
  <2>2. ~ProjectsDatabase => r.of \notin working
    BY <1>3, <1>10 DEF Project!DeleteProject, Project!MayDelete, ProjectCall
  <2>3. ~ProjectsDatabase => gone' = {}
    BY <1>3, <1>10, <2>2 DEF Project!DeleteProject, ProjectServer
  <2>4. DOMAIN projects' \subseteq DOMAIN projects /\ \A p \in DOMAIN projects' : projects'[p] = projects[p]
    BY <1>10 DEF Project!DeleteProject
  <2>5. runbook' \in [ProjectIds -> Project!Contents] /\ working' \subseteq working
    BY <1>3, <1>4, <1>10 DEF Project!DeleteProject, ProjectServer
  <2>6. ProjectServer'
    BY <1>3, <2>3, <2>4, <2>5 DEF ProjectServer
  <2> QED
    BY <1>3, <2>1, <2>6, ProjectGoes
<1>11. ASSUME NEW r \in projectsCalls, NEW n \in ProjectNames, Project!CreateProject(r, n)
       PROVE  ProjectServer' /\ ProjectCalls'
  <2>1. r.op = "create" /\ Project!Goes(r, "ok")
    BY <1>11 DEF Project!CreateProject
  <2>2. r.of \in ProjectIds
    BY <1>3 DEF ProjectCall
  <2>3. ProjectServer'
    BY <1>3, <1>4, <1>11, <2>2 DEF Project!CreateProject, ProjectServer
  <2> QED
    BY <1>3, <2>1, <2>3, ProjectGoes
<1> QED
  BY <1>2, <1>5, <1>6, <1>7, <1>8, <1>9, <1>10, <1>11

\* What the page loads.
LEMMA ProjectLoadStep ==
    ASSUME ProjectInv, Project!ProjectsAssumption,
           \/ Project!ListProjects
           \/ \E p \in ProjectIds : Project!RunbookLoads(p) \/ Project!RunbookFails(p)
    PROVE  ProjectServer' /\ ProjectLoads' /\ ProjectOpen' /\ ProjectCalls'
<1>1. UNCHANGED <<projects, runbook, working, gone, projectsCalls, new>>
  BY DEF Project!ListProjects, Project!RunbookLoads, Project!RunbookFails, Project!server
<1>2. ProjectServer' /\ ProjectCalls'
  BY <1>1 DEF ProjectInv, ProjectServer, ProjectCalls
<1>3. ProjectServer /\ ProjectLoads /\ ProjectOpen
  BY DEF ProjectInv
<1>4. CASE Project!ListProjects
  <2>1. \A p \in DOMAIN projects : [name |-> projects[p], hasWork |-> p \in working] \in ProjectView
    BY <1>3 DEF ProjectServer, ProjectView
  <2>2. ProjectLoads'
    BY <1>3, <1>4, <2>1 DEF Project!ListProjects, ProjectLoads, ProjectServer
  <2>3. ProjectOpen'
    BY <1>3, <1>4 DEF Project!ListProjects, ProjectOpen
  <2> QED
    BY <1>2, <2>2, <2>3
<1>5. ASSUME NEW p \in ProjectIds, Project!RunbookFails(p)
      PROVE  ProjectLoads' /\ ProjectOpen'
  BY <1>3, <1>5 DEF Project!RunbookFails, ProjectLoads, ProjectOpen
<1>6. ASSUME NEW p \in ProjectIds, Project!RunbookLoads(p)
      PROVE  ProjectLoads' /\ ProjectOpen'
  <2>1. runbook[p] \in Project!Contents
    BY <1>3 DEF ProjectServer
  <2>2. /\ projectsListed' = projectsListed /\ fetching' = fetching \ {p}
        /\ cache' = [cache EXCEPT ![p] = {runbook[p]}]
        /\ seen' = [seen EXCEPT ![p] = seen[p] \cup {runbook[p]}]
        /\ new' = new
        /\ projectsPage' \in {projectsPage, Project!Filled(projectsPage, {runbook[p]})}
    BY <1>6 DEF Project!RunbookLoads
  <2>3. ProjectLoads'
    BY <1>3, <2>1, <2>2 DEF ProjectLoads
  <2> DEFINE D == {runbook[p]}
  <2>4. D \in SUBSET Project!Contents /\ \A a, b \in D : a = b
    BY <2>1
  <2>5. projectsPage' \in {projectsPage, Project!Filled(projectsPage, D)}
    BY <2>2
  <2> HIDE DEF D
  <2>8. projectsPage \in ProjectPage
    BY <1>3 DEF ProjectOpen
  <2>9. LET f == Project!Filled(projectsPage, D)
        IN  f \in ProjectPage /\ f.open = projectsPage.open /\ f.name = projectsPage.name
    BY <2>4, <2>8, ProjectFilled
  <2>6. projectsPage' \in ProjectPage /\ projectsPage'.open = projectsPage.open
        /\ projectsPage'.name = projectsPage.name
    BY <2>5, <2>8, <2>9
  <2>7. ProjectOpen'
    BY <1>3, <2>2, <2>6 DEF ProjectOpen
  <2> QED
    BY <2>3, <2>7
<1> QED
  BY <1>2, <1>4, <1>5, <1>6

\* The settings and their buttons.
LEMMA ProjectPageStep ==
    ASSUME ProjectInv, Project!ProjectsAssumption,
           \/ \E p \in ProjectIds : Project!OpenSettings(p)
           \/ Project!CloseSettings \/ Project!PressSave \/ Project!PressDelete
           \/ \E n \in ProjectNames : Project!TypeName(n)
           \/ \E t \in Project!Contents : Project!TypeRunbook(t)
    PROVE  ProjectServer' /\ ProjectLoads' /\ ProjectOpen' /\ ProjectCalls'
<1>1. UNCHANGED <<projects, runbook, working, gone, projectsListed, cache, new>>
  BY DEF Project!OpenSettings, Project!CloseSettings, Project!PressSave, Project!PressDelete,
    Project!TypeName, Project!TypeRunbook, Project!server, Project!loads
<1>2. ProjectServer'
  BY <1>1 DEF ProjectInv, ProjectServer
<1>3. ProjectLoads /\ ProjectOpen /\ ProjectCalls /\ None \notin ProjectIds
  BY DEF ProjectInv, Project!ProjectsAssumption
<1>4. ASSUME NEW p \in ProjectIds, Project!OpenSettings(p) PROVE ProjectLoads' /\ ProjectOpen' /\ ProjectCalls'
  <2> DEFINE s == [Project!ClosedSettings EXCEPT !.open = p, !.name = projectsListed[p].name,
                                                 !.hasWork = projectsListed[p].hasWork]
  <2>1. projectsListed[p] \in ProjectView
    BY <1>3, <1>4 DEF Project!OpenSettings, ProjectLoads
  <2>2. s \in ProjectPage /\ s.open = p /\ s.name \in ProjectNames
    BY <2>1, ProjectOpened
  <2>3. projectsPage' = Project!Filled(s, cache[p]) /\ fetching' = fetching \cup {p}
        /\ UNCHANGED <<seen, projectsCalls>>
    BY <1>4 DEF Project!OpenSettings, Project!Fetch
  <2>4. cache[p] \in SUBSET Project!Contents /\ \A a, b \in cache[p] : a = b
    BY <1>3 DEF ProjectLoads
  <2> HIDE DEF s
  <2>5. ProjectOpen'
    BY <1>1, <1>3, <2>2, <2>3, <2>4, ProjectFilled DEF ProjectOpen
  <2>6. ProjectLoads' /\ ProjectCalls'
    BY <1>1, <1>3, <2>3 DEF ProjectLoads, ProjectCalls
  <2> QED
    BY <2>5, <2>6
<1>5. CASE Project!CloseSettings
  <2>1. projectsPage' = Project!ClosedSettings
        /\ UNCHANGED <<projectsListed, cache, fetching, seen, projectsCalls, new>>
    BY <1>5 DEF Project!CloseSettings, Project!loads
  <2>2. projectsPage' \in ProjectPage /\ projectsPage'.open = None
    BY <2>1, ProjectClosed
  <2> QED
    BY <1>2, <1>3, <2>1, <2>2 DEF ProjectLoads, ProjectOpen, ProjectCalls
<1>6. ASSUME NEW n \in ProjectNames, Project!TypeName(n) PROVE ProjectLoads' /\ ProjectOpen' /\ ProjectCalls'
  BY <1>3, <1>6 DEF Project!TypeName, Project!loads, ProjectLoads, ProjectOpen, ProjectCalls, ProjectPage
<1>7. ASSUME NEW t \in Project!Contents, Project!TypeRunbook(t)
      PROVE  ProjectLoads' /\ ProjectOpen' /\ ProjectCalls'
  <2>1. /\ projectsPage' = [projectsPage EXCEPT !.draft = t, !.touched = TRUE]
        /\ seen' = [seen EXCEPT ![projectsPage.open] = seen[projectsPage.open] \cup {t}]
        /\ UNCHANGED <<projectsListed, cache, fetching, projectsCalls, new>>
        /\ projectsPage.open # None
    BY <1>7 DEF Project!TypeRunbook
  <2>2. projectsPage.open \in ProjectIds
    BY <1>3, <2>1 DEF ProjectOpen, ProjectPage
  <2>3. ProjectLoads'
    BY <1>3, <2>1, <2>2 DEF ProjectLoads
  <2>4. ProjectOpen' /\ ProjectCalls'
    BY <1>3, <2>1 DEF ProjectOpen, ProjectPage, ProjectCalls
  <2> QED
    BY <2>3, <2>4
<1>8. CASE Project!PressSave
  <2> DEFINE u == projectsPage.open \in unloaded
             b == [name |-> projectsPage.name, text |-> projectsPage.draft, touched |-> projectsPage.touched,
                   blind |-> u]
             m == [op |-> "save", of |-> projectsPage.open, body |-> b, pc |-> "sent"]
  <2>1. projectsCalls' = projectsCalls \cup {m} /\ (\A r \in projectsCalls : r.op # "save")
        /\ projectsPage.open # None /\ UNCHANGED <<projectsListed, cache, fetching, seen, projectsPage, new>>
    BY <1>8 DEF Project!PressSave, Project!Ask, Project!SaveDisabled, Project!Pending, Project!loads
  <2>2. projectsPage \in ProjectPage /\ projectsPage.name \in ProjectNames
    BY <1>3, <2>1 DEF ProjectOpen
  <2>6. projectsPage.open \in ProjectIds /\ projectsPage.draft \in Project!Contents
        /\ projectsPage.touched \in BOOLEAN /\ u \in BOOLEAN
    BY <2>1, <2>2 DEF ProjectPage
  <2> HIDE DEF u
  <2>7. b \in ProjectSave
    BY <2>2, <2>6 DEF ProjectSave
  <2> HIDE DEF b
  <2>3. ProjectCall(m)
    BY <2>6, <2>7 DEF ProjectCall
  <2>4. m.op = "save"
    OBVIOUS
  <2> HIDE DEF m
  <2>5. ProjectCalls'
    BY <1>3, <2>1, <2>3, <2>4 DEF ProjectCalls
  <2> QED
    BY <1>2, <1>3, <2>1, <2>5 DEF ProjectLoads, ProjectOpen
<1>9. CASE Project!PressDelete
  <2> DEFINE m == [op |-> "delete", of |-> projectsPage.open, body |-> None, pc |-> "sent"]
  <2>1. projectsCalls' = projectsCalls \cup {m} /\ "delete" \in ProjectsDoes
        /\ projectsPage.open # None /\ UNCHANGED <<projectsListed, cache, fetching, seen, projectsPage, new>>
    BY <1>9 DEF Project!PressDelete, Project!Ask, Project!loads
  <2>2. projectsPage.open \in ProjectIds
    BY <1>3, <2>1 DEF ProjectOpen, ProjectPage
  <2>3. ProjectCall(m)
    BY <2>1, <2>2 DEF ProjectCall
  <2>4. m.op = "delete"
    OBVIOUS
  <2> HIDE DEF m
  <2>5. ProjectCalls'
    BY <1>3, <2>1, <2>3, <2>4 DEF ProjectCalls
  <2> QED
    BY <1>2, <1>3, <2>1, <2>5 DEF ProjectLoads, ProjectOpen
<1> QED
  BY <1>2, <1>4, <1>5, <1>6, <1>7, <1>8, <1>9

\* The answers.
LEMMA ProjectAnswerStep ==
    ASSUME ProjectInv, Project!ProjectsAssumption,
           \E r \in projectsCalls : \/ Project!ShowError(r) \/ Project!Saved(r) \/ Project!SaveEnds(r)
                                    \/ Project!Deleted(r) \/ Project!Created(r)
    PROVE  ProjectServer' /\ ProjectLoads' /\ ProjectOpen' /\ ProjectCalls'
<1>1. UNCHANGED <<projects, runbook, working, gone, projectsListed, cache, seen>>
  BY DEF Project!ShowError, Project!Saved, Project!SaveEnds, Project!Deleted, Project!Created,
    Project!server, Project!loads
<1>2. ProjectServer'
  BY <1>1 DEF ProjectInv, ProjectServer
<1>3. ProjectLoads /\ ProjectOpen /\ ProjectCalls
  BY DEF ProjectInv
<1>4. ASSUME NEW r \in projectsCalls, Project!ShowError(r) \/ Project!SaveEnds(r)
      PROVE  ProjectLoads' /\ ProjectOpen' /\ ProjectCalls'
  <2>1. projectsCalls' = projectsCalls \ {r} /\ UNCHANGED <<fetching, projectsPage, new>>
    BY <1>4 DEF Project!ShowError, Project!SaveEnds, Project!loads
  <2> QED
    BY <1>1, <1>3, <2>1, ProjectDrops DEF ProjectLoads, ProjectOpen
<1>5. ASSUME NEW r \in projectsCalls, Project!Saved(r)
      PROVE  ProjectLoads' /\ ProjectOpen' /\ ProjectCalls'
  <2> DEFINE w == r.of \in working
             s == [projectsPage EXCEPT !.open = r.of, !.name = r.body.name, !.hasWork = w]
  <2>1. r.op = "save" /\ Project!Goes(r, "refetch") /\ new' = new
        /\ projectsPage' = Project!Filled(s, cache[r.of]) /\ fetching' \subseteq fetching \cup {r.of} \cup ({projectsPage.open} \ {None})
    BY <1>5 DEF Project!Saved, Project!Fetch, Project!Invalidates
  <2>2. r.of \in ProjectIds /\ r.body \in ProjectSave
    BY <1>3, <2>1 DEF ProjectCalls, ProjectCall
  <2>8. r.body.name \in ProjectNames
    BY <2>2 DEF ProjectSave
  <2>9. projectsPage \in ProjectPage
    BY <1>3 DEF ProjectOpen
  <2>10. w \in BOOLEAN
    OBVIOUS
  <2> HIDE DEF w
  <2>3. s \in ProjectPage /\ s.name \in ProjectNames
    BY <2>2, <2>8, <2>9, <2>10 DEF ProjectPage
  <2>4. cache[r.of] \in SUBSET Project!Contents /\ \A a, b \in cache[r.of] : a = b
    BY <1>3, <2>2 DEF ProjectLoads
  <2> HIDE DEF s
  <2>5. ProjectOpen'
    BY <1>3, <2>1, <2>3, <2>4, ProjectFilled DEF ProjectOpen
  <2>11. projectsPage.open \in ProjectIds \cup {None}
    BY <2>9 DEF ProjectPage
  <2>6. ProjectLoads'
    BY <1>1, <1>3, <2>1, <2>2, <2>11 DEF ProjectLoads
  <2>7. ProjectCalls'
    BY <1>3, <2>1, ProjectGoes
  <2> QED
    BY <2>5, <2>6, <2>7
<1>6. ASSUME NEW r \in projectsCalls, Project!Deleted(r)
      PROVE  ProjectLoads' /\ ProjectOpen' /\ ProjectCalls'
  <2>1. projectsCalls' = projectsCalls \ {r} /\ UNCHANGED <<fetching, new>>
        /\ projectsPage' = [Project!ClosedSettings EXCEPT !.draft = projectsPage.draft]
    BY <1>6 DEF Project!Deleted, Project!loads
  <2>2. projectsPage.draft \in Project!Contents
    BY <1>3 DEF ProjectOpen, ProjectPage
  <2>3. projectsPage' \in ProjectPage /\ projectsPage'.open = None
    BY <2>1, <2>2, ProjectEmptied
  <2> QED
    BY <1>1, <1>3, <2>1, <2>3, ProjectDrops DEF ProjectLoads, ProjectOpen
<1>7. ASSUME NEW r \in projectsCalls, Project!Created(r)
      PROVE  ProjectLoads' /\ ProjectOpen' /\ ProjectCalls'
  <2>1. projectsCalls' = projectsCalls \ {r} /\ UNCHANGED <<fetching, projectsPage>>
        /\ new' = Project!EmptyForm
    BY <1>7 DEF Project!Created, Project!loads
  <2> QED
    BY <1>1, <1>3, <2>1, ProjectDrops DEF ProjectLoads, ProjectOpen, Project!EmptyForm, ProjectForm
<1> QED
  BY <1>2, <1>4, <1>5, <1>6, <1>7

\* The dialog for a new project.
LEMMA ProjectDialogStep ==
    ASSUME ProjectInv, Project!ProjectsAssumption,
           \/ Project!OpenCreate \/ Project!CloseCreate \/ Project!PickFolder
           \/ \E b \in BOOLEAN : Project!FolderPicked(b) \/ Project!TypeUrl(b)
           \/ \E p \in ProjectIds : Project!SubmitCreate(p)
    PROVE  ProjectServer' /\ ProjectLoads' /\ ProjectOpen' /\ ProjectCalls'
<1>1. UNCHANGED <<projects, runbook, working, gone, projectsListed, cache, fetching, seen, projectsPage>>
  BY DEF Project!OpenCreate, Project!CloseCreate, Project!PickFolder, Project!FolderPicked, Project!TypeUrl,
    Project!SubmitCreate, Project!server, Project!loads
<1>2. ProjectServer' /\ ProjectLoads'
  BY <1>1 DEF ProjectInv, ProjectServer, ProjectLoads
<1>3. ProjectOpen /\ ProjectCalls /\ new \in ProjectForm /\ ~(new.path /\ new.url)
  BY DEF ProjectInv, ProjectOpen
<1>4. new' \in ProjectForm /\ ~(new'.path /\ new'.url)
  <2>1. CASE Project!OpenCreate
    BY <2>1 DEF Project!OpenCreate, Project!EmptyForm, ProjectForm
  <2>2. CASE Project!CloseCreate
    BY <1>3, <2>2 DEF Project!CloseCreate, ProjectForm
  <2>3. CASE Project!PickFolder \/ \E p \in ProjectIds : Project!SubmitCreate(p)
    BY <1>3, <2>3 DEF Project!PickFolder, Project!SubmitCreate
  <2>4. ASSUME NEW b \in BOOLEAN, Project!FolderPicked(b) PROVE new' \in ProjectForm /\ ~(new'.path /\ new'.url)
    BY <1>3, <2>4 DEF Project!FolderPicked, Project!Chosen, ProjectForm
  <2>5. ASSUME NEW b \in BOOLEAN, Project!TypeUrl(b) PROVE new' \in ProjectForm /\ ~(new'.path /\ new'.url)
    BY <1>3, <2>5 DEF Project!TypeUrl, ProjectForm
  <2> QED
    BY <2>1, <2>2, <2>3, <2>4, <2>5
<1>5. ProjectOpen'
  BY <1>1, <1>3, <1>4 DEF ProjectOpen
<1>6. ProjectCalls'
  <2>1. CASE \E p \in ProjectIds : Project!SubmitCreate(p)
    <3>1. PICK p \in ProjectIds : Project!SubmitCreate(p)
      BY <2>1
    <3> DEFINE b == [path |-> new.path /\ ~ProjectTeam, url |-> new.url]
               m == [op |-> "create", of |-> p, pc |-> "sent", body |-> b]
    <3>2. projectsCalls' = projectsCalls \cup {m} /\ (new.url \/ (new.path /\ ~ProjectTeam))
      BY <3>1 DEF Project!SubmitCreate, Project!CanCreate
    <3>3. b.path # b.url
      BY <1>3, <3>2 DEF ProjectForm
    <3> HIDE DEF b
    <3>4. m = [op |-> m.op, of |-> m.of, body |-> m.body, pc |-> m.pc] /\ m.op = "create" /\ m.of = p
          /\ m.body = b /\ m.pc = "sent"
      OBVIOUS
    <3> HIDE DEF m
    <3>5. ProjectCall(m)
      BY <3>3, <3>4 DEF ProjectCall
    <3> QED
      BY <1>3, <3>2, <3>4, <3>5 DEF ProjectCalls
  <2>2. CASE projectsCalls' = projectsCalls
    BY <1>3, <2>2 DEF ProjectCalls
  <2> QED
    BY <2>1, <2>2 DEF Project!OpenCreate, Project!CloseCreate, Project!PickFolder, Project!FolderPicked,
      Project!TypeUrl
<1> QED
  BY <1>2, <1>5, <1>6

LEMMA ProjectBaseStep ==
    ASSUME ProjectInv, Project!ProjectsAssumption, Project!Next
    PROVE  ProjectServer' /\ ProjectLoads' /\ ProjectOpen' /\ ProjectCalls'
BY ProjectServerStep, ProjectLoadStep, ProjectPageStep, ProjectAnswerStep, ProjectDialogStep DEF Project!Next

\* The steps that leave the settings, and move the requests on.
LEMMA ProjectLoadedStays ==
    ASSUME ProjectLoaded, UNCHANGED <<cache, fetching, unloaded, seen>>,
           projectsPage'.open = None \/ (/\ projectsPage'.open = projectsPage.open
                                         /\ projectsPage'.draft = projectsPage.draft),
           \A q \in projectsCalls' : q.op # "save" \/
              \E r \in projectsCalls : r.op = q.op /\ r.of = q.of /\ r.body = q.body
    PROVE  ProjectLoaded'
BY DEF ProjectLoaded

\* What the page loads.
LEMMA ProjectLoadedLoads ==
    ASSUME ProjectInv, NEW p \in ProjectIds, Project!RunbookLoads(p) \/ Project!RunbookFails(p)
    PROVE  ProjectLoaded'
<1>1. ProjectLoaded /\ ProjectServer /\ ProjectLoads /\ ProjectCalls /\ projectsPage \in ProjectPage
  BY DEF ProjectInv, ProjectOpen
<1>2. CASE Project!RunbookFails(p)
  <2>1. /\ fetching' = fetching \ {p} /\ unloaded' = unloaded \cup {q \in {p} : cache[q] = {}}
        /\ UNCHANGED <<cache, seen, projectsPage, projectsCalls>>
    BY <1>2 DEF Project!RunbookFails
  <2> QED
    BY <1>1, <2>1 DEF ProjectLoaded
<1>3. CASE Project!RunbookLoads(p)
  <2> DEFINE D == {runbook[p]}
             f == Project!Filled(projectsPage, D)
  <2>1. /\ fetching' = fetching \ {p} /\ unloaded' = unloaded \ {p}
        /\ cache' = [cache EXCEPT ![p] = D] /\ seen' = [seen EXCEPT ![p] = seen[p] \cup D]
        /\ projectsPage' = IF projectsPage.open = p /\ cache[p] # D THEN f ELSE projectsPage
        /\ UNCHANGED projectsCalls
    BY <1>3 DEF Project!RunbookLoads
  <2>2. D \in SUBSET Project!Contents /\ D # {} /\ \A a, b \in D : a = b
    BY <1>1 DEF ProjectServer
  <2>3. f.open = projectsPage.open /\ D = {f.draft}
    BY <1>1, <2>2, ProjectFilled
  <2> HIDE DEF D, f
  <2>4. cache'[p] = D /\ seen'[p] = seen[p] \cup D
        /\ \A q \in ProjectIds : /\ q # p => cache'[q] = cache[q]
                                 /\ seen[q] \subseteq seen'[q]
    BY <1>1, <2>1 DEF ProjectLoads
  <2>5. projectsPage'.open = projectsPage.open
    BY <2>1, <2>3
  <2>6. projectsPage.open # None => projectsPage.open \in ProjectIds
    BY <1>1 DEF ProjectPage
  <2>7. ASSUME projectsPage.open # None
        PROVE  /\ cache'[projectsPage.open] # {} \/ projectsPage.open \in fetching' \cup unloaded'
               /\ cache'[projectsPage.open] # {} => projectsPage'.draft \in seen'[projectsPage.open]
    <3>1. CASE projectsPage.open # p
      BY <1>1, <2>1, <2>4, <2>6, <2>7, <3>1 DEF ProjectLoaded
    <3>2. CASE projectsPage.open = p /\ cache[p] # D
      BY <2>1, <2>2, <2>3, <2>4, <3>2
    <3>3. CASE projectsPage.open = p /\ cache[p] = D
      BY <1>1, <2>1, <2>2, <2>4, <2>7, <3>3 DEF ProjectLoaded
    <3> QED
      BY <3>1, <3>2, <3>3
  <2>8. \A r \in projectsCalls : r.of \in ProjectIds
    BY <1>1 DEF ProjectCalls, ProjectCall
  <2>9. \A r \in projectsCalls' : r.op = "save" => r.body.text \in seen'[r.of] \/ r.body.blind
    BY <1>1, <2>1, <2>4, <2>8 DEF ProjectLoaded
  <2> QED
    BY <1>1, <2>1, <2>5, <2>7, <2>9 DEF ProjectLoaded
<1> QED
  BY <1>2, <1>3

\* The settings that open, the editor and the Save button.
LEMMA ProjectLoadedPage ==
    ASSUME ProjectInv, Project!ProjectsAssumption,
           \/ \E p \in ProjectIds : Project!OpenSettings(p)
           \/ \E t \in Project!Contents : Project!TypeRunbook(t)
           \/ Project!PressSave
    PROVE  ProjectLoaded'
<1>1. ProjectLoaded /\ ProjectServer /\ ProjectLoads /\ ProjectCalls /\ projectsPage \in ProjectPage
  BY DEF ProjectInv, ProjectOpen
<1>2. \A r \in projectsCalls : r.of \in ProjectIds
  BY <1>1 DEF ProjectCalls, ProjectCall
<1>3. ASSUME NEW p \in ProjectIds, Project!OpenSettings(p) PROVE ProjectLoaded'
  <2> DEFINE s == [Project!ClosedSettings EXCEPT !.open = p, !.name = projectsListed[p].name,
                                                 !.hasWork = projectsListed[p].hasWork]
             f == Project!Filled(s, cache[p])
  <2>1. projectsListed[p] \in ProjectView /\ cache[p] \in SUBSET Project!Contents
        /\ (\A a, b \in cache[p] : a = b) /\ cache[p] \subseteq seen[p]
    BY <1>1, <1>3 DEF Project!OpenSettings, ProjectLoads
  <2>2. s \in ProjectPage /\ s.open = p
    BY <2>1, ProjectOpened
  <2> HIDE DEF s
  <2>3. f.open = p /\ (cache[p] # {} => cache[p] = {f.draft})
    BY <2>1, <2>2, ProjectFilled
  <2> HIDE DEF f
  <2>4. projectsPage' = f /\ fetching' = fetching \cup {p} /\ unloaded' \subseteq unloaded
        /\ UNCHANGED <<cache, seen, projectsCalls>>
    BY <1>3 DEF Project!OpenSettings, Project!Fetch, s, f
  <2> QED
    BY <1>1, <2>1, <2>3, <2>4 DEF ProjectLoaded
<1>4. ASSUME NEW t \in Project!Contents, Project!TypeRunbook(t) PROVE ProjectLoaded'
  <2> DEFINE o == projectsPage.open
  <2>1. /\ projectsPage' = [projectsPage EXCEPT !.draft = t, !.touched = TRUE]
        /\ seen' = [seen EXCEPT ![o] = seen[o] \cup {t}] /\ o # None
        /\ UNCHANGED <<cache, fetching, unloaded, projectsCalls>>
    BY <1>4 DEF Project!TypeRunbook
  <2>2. projectsPage'.open = o /\ projectsPage'.draft = t /\ o \in ProjectIds
    BY <1>1, <2>1 DEF ProjectPage
  <2>3. projectsPage.open = o
    OBVIOUS
  <2> HIDE DEF o
  <2>4. t \in seen'[o] /\ \A q \in ProjectIds : seen[q] \subseteq seen'[q]
    BY <1>1, <2>1, <2>2 DEF ProjectLoads
  <2> QED
    BY <1>1, <1>2, <2>1, <2>2, <2>3, <2>4 DEF ProjectLoaded
<1>5. CASE Project!PressSave
  <2> DEFINE u == projectsPage.open \in unloaded
             b == [name |-> projectsPage.name, text |-> projectsPage.draft, touched |-> projectsPage.touched,
                   blind |-> u]
             m == [op |-> "save", of |-> projectsPage.open, body |-> b, pc |-> "sent"]
  <2>1. /\ projectsCalls' = projectsCalls \cup {m} /\ projectsPage.open # None
        /\ ~Project!IsLoading
        /\ UNCHANGED <<cache, fetching, unloaded, seen, projectsPage>>
    BY <1>5 DEF Project!PressSave, Project!Ask, Project!SaveDisabled, Project!loads
  <2>2. projectsPage.draft \in seen[projectsPage.open] \/ u
    BY <1>1, <2>1 DEF Project!IsLoading, ProjectLoaded
  <2>3. m.op = "save" /\ m.of = projectsPage.open /\ m.body.text = projectsPage.draft /\ m.body.blind = u
    OBVIOUS
  <2> HIDE DEF m, u
  <2> QED
    BY <1>1, <2>1, <2>2, <2>3 DEF ProjectLoaded
<1> QED
  BY <1>3, <1>4, <1>5

\* The answer to a save opens its settings again, and loads their runbook.
LEMMA ProjectLoadedSaved ==
    ASSUME ProjectInv, Project!ProjectsAssumption, NEW r \in projectsCalls, Project!Saved(r)
    PROVE  ProjectLoaded'
<1>1. ProjectLoaded /\ ProjectLoads /\ ProjectCalls /\ projectsPage \in ProjectPage
  BY DEF ProjectInv, ProjectOpen
<1> DEFINE w == r.of \in working
           s == [projectsPage EXCEPT !.open = r.of, !.name = r.body.name, !.hasWork = w]
           f == Project!Filled(s, cache[r.of])
<1>2. /\ r.op = "save" /\ Project!Goes(r, "refetch") /\ projectsPage' = f
      /\ fetching' = fetching \cup (({projectsPage.open} \ {None}) \cup ({r.of} \ {projectsPage.open}))
      /\ unloaded' \subseteq unloaded /\ UNCHANGED <<cache, seen>>
  BY DEF Project!Saved, Project!Fetch, Project!Invalidates
<1>3. r.of \in ProjectIds /\ r.body.name \in ProjectNames /\ w \in BOOLEAN /\ None \notin ProjectIds
  <2>1. r.of \in ProjectIds /\ r.body \in ProjectSave
    BY <1>1, <1>2 DEF ProjectCalls, ProjectCall
  <2> QED
    BY <2>1 DEF ProjectSave, Project!ProjectsAssumption
<1> HIDE DEF w
<1>4. s \in ProjectPage /\ s.open = r.of
  BY <1>1, <1>3 DEF ProjectPage
<1> HIDE DEF s
<1>5. cache[r.of] \in SUBSET Project!Contents /\ (\A a, b \in cache[r.of] : a = b)
      /\ cache[r.of] \subseteq seen[r.of]
  BY <1>1, <1>3 DEF ProjectLoads
<1>6. f.open = r.of /\ (cache[r.of] # {} => cache[r.of] = {f.draft})
  BY <1>4, <1>5, ProjectFilled
<1> HIDE DEF f
<1>7. PICK m : /\ projectsCalls' = (projectsCalls \ {r}) \cup {m}
               /\ m.op = r.op /\ m.of = r.of /\ m.body = r.body
  BY <1>1, <1>2, ProjectGoes
<1>8. \A q \in projectsCalls' : q.op = "save" => q.body.text \in seen'[q.of] \/ q.body.blind
  BY <1>1, <1>2, <1>7 DEF ProjectLoaded
<1>9. r.of \in fetching'
  BY <1>2, <1>3
<1> QED
  BY <1>1, <1>2, <1>5, <1>6, <1>8, <1>9 DEF ProjectLoaded

\* The other steps leave what is loaded, and the draft of settings that stay open.
LEMMA ProjectLoadedStep ==
    ASSUME ProjectInv, Project!ProjectsAssumption, Project!Next
    PROVE  ProjectLoaded'
<1>1. ProjectLoaded /\ ProjectCalls /\ projectsPage \in ProjectPage
  BY DEF ProjectInv, ProjectOpen
<1>2. ASSUME UNCHANGED <<cache, fetching, unloaded, seen, projectsPage>>,
             \/ \A q \in projectsCalls' : q.op # "save" \/ q \in projectsCalls
             \/ \E r \in projectsCalls, pc \in {"runbook", "ok"} : Project!Goes(r, pc)
             \/ \E r \in projectsCalls : r.op = "delete" /\ Project!Goes(r, "counted") /\ ProjectsDatabase
      PROVE  ProjectLoaded'
  <2>1. CASE \A q \in projectsCalls' : q.op # "save" \/ q \in projectsCalls
    BY <1>1, <1>2, <2>1, ProjectLoadedStays
  <2>2. ASSUME NEW r \in projectsCalls, NEW pc, Project!Goes(r, pc),
               \/ pc \in {"runbook", "ok"}
               \/ pc = "counted" /\ r.op = "delete" /\ ProjectsDatabase
        PROVE  ProjectLoaded'
    <3>1. PICK m : /\ projectsCalls' = (projectsCalls \ {r}) \cup {m}
                   /\ m.op = r.op /\ m.of = r.of /\ m.body = r.body
      BY <1>1, <2>2, ProjectGoes
    <3>2. \A q \in projectsCalls' : \E t \in projectsCalls : t.op = q.op /\ t.of = q.of /\ t.body = q.body
      BY <3>1
    <3> QED
      BY <1>1, <1>2, <3>2, ProjectLoadedStays
  <2> QED
    BY <1>2, <2>1, <2>2
<1>3. CASE \/ \E p \in ProjectIds : \/ Project!CreateIssue(p)
                                    \/ \E t \in Project!Contents : Project!OtherWritesRunbook(p, t)
           \/ Project!OpenCreate \/ Project!CloseCreate \/ Project!PickFolder \/ Project!ListProjects
           \/ \E b \in BOOLEAN : Project!FolderPicked(b) \/ Project!TypeUrl(b)
  <2>1. UNCHANGED <<cache, fetching, unloaded, seen, projectsPage, projectsCalls>>
    BY <1>3 DEF Project!CreateIssue, Project!OtherWritesRunbook, Project!OpenCreate, Project!ListProjects,
      Project!CloseCreate, Project!PickFolder, Project!FolderPicked, Project!TypeUrl, Project!loads
  <2> QED
    BY <1>2, <2>1
<1>4. ASSUME NEW p \in ProjectIds, Project!SubmitCreate(p) PROVE ProjectLoaded'
  BY <1>2, <1>4 DEF Project!SubmitCreate, Project!loads
<1>5. CASE Project!PressDelete
  BY <1>2, <1>5 DEF Project!PressDelete, Project!Ask, Project!loads
<1>6. ASSUME NEW r \in projectsCalls,
             \/ Project!UpdateProject(r) \/ Project!UpdateProjectRunbook(r) \/ Project!CountIssues(r)
             \/ Project!DeleteProject(r) \/ \E n \in ProjectNames : Project!CreateProject(r, n)
      PROVE  ProjectLoaded'
  <2>1. UNCHANGED <<cache, fetching, unloaded, seen, projectsPage>>
    BY <1>6 DEF Project!UpdateProject, Project!UpdateProjectRunbook, Project!CountIssues,
      Project!DeleteProject, Project!CreateProject, Project!loads
  <2>2. \/ \E pc \in {"runbook", "ok"} : Project!Goes(r, pc)
        \/ r.op = "delete" /\ Project!Goes(r, "counted") /\ ProjectsDatabase
    BY <1>6 DEF Project!UpdateProject, Project!UpdateProjectRunbook, Project!CountIssues,
      Project!DeleteProject, Project!CreateProject
  <2> QED
    BY <1>2, <2>1, <2>2
<1>7. ASSUME NEW r \in projectsCalls, Project!ShowError(r) \/ Project!SaveEnds(r) \/ Project!Created(r)
      PROVE  ProjectLoaded'
  BY <1>2, <1>7 DEF Project!ShowError, Project!SaveEnds, Project!Created, Project!loads
<1>8. ASSUME NEW n \in ProjectNames, Project!TypeName(n) PROVE ProjectLoaded'
  <2>1. projectsPage' = [projectsPage EXCEPT !.name = n]
        /\ UNCHANGED <<cache, fetching, unloaded, seen, projectsCalls>>
    BY <1>8 DEF Project!TypeName, Project!loads
  <2>2. projectsPage'.open = projectsPage.open /\ projectsPage'.draft = projectsPage.draft
    BY <1>1, <2>1 DEF ProjectPage
  <2>3. \A q \in projectsCalls' : q \in projectsCalls
    BY <2>1
  <2> QED
    BY <1>1, <2>1, <2>2, <2>3, ProjectLoadedStays
<1>9. CASE Project!CloseSettings
  <2>1. projectsPage'.open = None /\ UNCHANGED <<cache, fetching, unloaded, seen, projectsCalls>>
    BY <1>9, ProjectClosed DEF Project!CloseSettings, Project!loads
  <2> QED
    BY <1>1, <2>1, ProjectLoadedStays
<1>10. ASSUME NEW r \in projectsCalls, Project!Deleted(r) PROVE ProjectLoaded'
  <2>1. projectsPage' = [Project!ClosedSettings EXCEPT !.draft = projectsPage.draft]
        /\ projectsCalls' = projectsCalls \ {r} /\ UNCHANGED <<cache, fetching, unloaded, seen>>
    BY <1>10 DEF Project!Deleted, Project!loads
  <2>2. projectsPage'.open = None
    BY <1>1, <2>1, ProjectEmptied DEF ProjectPage
  <2>3. \A q \in projectsCalls' : q \in projectsCalls
    BY <2>1
  <2> QED
    BY <1>1, <2>1, <2>2, <2>3, ProjectLoadedStays
<1> QED
  BY <1>3, <1>4, <1>5, <1>6, <1>7, <1>8, <1>9, <1>10, ProjectLoadedLoads, ProjectLoadedPage,
    ProjectLoadedSaved DEF Project!Next

\* The server counts and deletes; the other steps count nothing.
LEMMA ProjectCountedStep ==
    ASSUME ProjectInv, Project!Next
    PROVE  ProjectCounted'
<1>1. ProjectCounted /\ ProjectCalls /\ ProjectServer
  BY DEF ProjectInv
<1>2. ASSUME UNCHANGED <<gone, late>>, working' \subseteq working,
             \A q \in projectsCalls' : q.pc = "counted" => q \in projectsCalls
      PROVE  ProjectCounted'
  BY <1>1, <1>2 DEF ProjectCounted
<1>3. ASSUME NEW r \in projectsCalls, NEW pc, Project!Goes(r, pc), pc # "counted"
      PROVE  \A q \in projectsCalls' : q.pc = "counted" => q \in projectsCalls
  BY <1>1, <1>3 DEF Project!Goes, ProjectCalls, ProjectCall
<1>4. ASSUME NEW p \in ProjectIds, Project!CreateIssue(p) PROVE ProjectCounted'
  BY <1>1, <1>4 DEF Project!CreateIssue, ProjectCounted
<1>5. ASSUME NEW r \in projectsCalls, Project!CountIssues(r) PROVE ProjectCounted'
  <2>1. /\ r.of \notin working /\ Project!Goes(r, "counted")
        /\ UNCHANGED <<working, gone, late>>
    BY <1>5 DEF Project!CountIssues, Project!MayDelete, Project!server
  <2>2. PICK m : projectsCalls' = (projectsCalls \ {r}) \cup {m} /\ m.of = r.of
    <3>1. r.op # "save"
      BY <1>5 DEF Project!CountIssues
    <3>2. ProjectsDatabase
      BY <1>5 DEF Project!CountIssues
    <3> QED
      BY <1>1, <2>1, <3>1, <3>2, ProjectGoes
  <2> QED
    BY <1>1, <2>1, <2>2 DEF ProjectCounted
<1>6. ASSUME NEW r \in projectsCalls, Project!DeleteProject(r) PROVE ProjectCounted'
  <2>1. /\ Project!Goes(r, "ok") /\ late' = late
        /\ gone' = gone \cup ({r.of} \cap working) /\ working' = working \ {r.of}
        /\ r.of \notin working \/ r.pc = "counted"
    BY <1>6 DEF Project!DeleteProject, Project!MayDelete
  <2>2. \A q \in projectsCalls' : q.pc = "counted" => q \in projectsCalls
    BY <1>3, <2>1
  <2>3. r.of \notin working \/ r.of \in late
    BY <1>1, <2>1 DEF ProjectCounted
  <2> QED
    BY <1>1, <2>1, <2>2, <2>3 DEF ProjectCounted
<1>7. ASSUME NEW r \in projectsCalls,
             \/ Project!UpdateProject(r) \/ Project!UpdateProjectRunbook(r) \/ Project!Saved(r)
             \/ \E n \in ProjectNames : Project!CreateProject(r, n)
      PROVE  ProjectCounted'
  <2>1. UNCHANGED <<working, gone, late>>
    BY <1>7 DEF Project!UpdateProject, Project!UpdateProjectRunbook, Project!Saved, Project!CreateProject,
      Project!server
  <2>2. \E pc \in {"runbook", "ok", "refetch"} : Project!Goes(r, pc)
    BY <1>7 DEF Project!UpdateProject, Project!UpdateProjectRunbook, Project!Saved, Project!CreateProject
  <2> QED
    BY <1>2, <1>3, <2>1, <2>2
<1>8. ASSUME NEW r \in projectsCalls,
             \/ Project!ShowError(r) \/ Project!SaveEnds(r) \/ Project!Deleted(r) \/ Project!Created(r)
      PROVE  ProjectCounted'
  BY <1>2, <1>8 DEF Project!ShowError, Project!SaveEnds, Project!Deleted, Project!Created, Project!server
<1>9. CASE \/ \E p \in ProjectIds : \/ \E t \in Project!Contents : Project!OtherWritesRunbook(p, t)
                                    \/ Project!RunbookLoads(p) \/ Project!RunbookFails(p)
                                    \/ Project!OpenSettings(p)
           \/ Project!ListProjects \/ Project!CloseSettings
           \/ \E n \in ProjectNames : Project!TypeName(n)
           \/ \E t \in Project!Contents : Project!TypeRunbook(t)
           \/ Project!OpenCreate \/ Project!CloseCreate \/ Project!PickFolder
           \/ \E b \in BOOLEAN : Project!FolderPicked(b) \/ Project!TypeUrl(b)
  <2>1. UNCHANGED <<working, gone, late, projectsCalls>>
    BY <1>9 DEF Project!OtherWritesRunbook, Project!RunbookLoads, Project!RunbookFails, Project!OpenSettings,
      Project!ListProjects, Project!CloseSettings, Project!TypeName, Project!TypeRunbook, Project!OpenCreate,
      Project!CloseCreate, Project!PickFolder, Project!FolderPicked, Project!TypeUrl, Project!server
  <2> QED
    BY <1>2, <2>1
<1>10. ASSUME NEW p \in ProjectIds, Project!SubmitCreate(p) PROVE ProjectCounted'
  BY <1>2, <1>10 DEF Project!SubmitCreate, Project!server
<1>11. CASE Project!PressSave \/ Project!PressDelete
  BY <1>2, <1>11 DEF Project!PressSave, Project!PressDelete, Project!Ask, Project!server
<1> QED
  BY <1>4, <1>5, <1>6, <1>7, <1>8, <1>9, <1>10, <1>11 DEF Project!Next

\* While no project is deleted there is no deletion, and no project goes.
LEMMA ProjectStays ==
    ASSUME ProjectInv, ProjectSteady
    PROVE  /\ \A r \in projectsCalls : r.op # "delete"
           /\ Project!Next => DOMAIN projects \subseteq DOMAIN projects'
<1>1. \A r \in projectsCalls : ProjectCall(r) /\ r.op # "delete"
  BY DEF ProjectInv, ProjectCalls, ProjectCall, ProjectSteady
<1>2. ASSUME NEW r \in projectsCalls, Project!UpdateProject(r) PROVE DOMAIN projects' = DOMAIN projects
  BY <1>2 DEF Project!UpdateProject
<1>3. ASSUME NEW r \in projectsCalls, NEW n \in ProjectNames, Project!CreateProject(r, n)
      PROVE  DOMAIN projects \subseteq DOMAIN projects'
  BY <1>3 DEF Project!CreateProject
<1>4. ASSUME NEW r \in projectsCalls PROVE ~Project!DeleteProject(r)
  BY <1>1, <1>4 DEF Project!DeleteProject
<1>5. Project!Next => \/ \E r \in projectsCalls : \/ Project!UpdateProject(r)
                                                 \/ \E n \in ProjectNames : Project!CreateProject(r, n)
                      \/ projects' = projects
  BY <1>4 DEF Project!Next, Project!CreateIssue, Project!OtherWritesRunbook, Project!UpdateProjectRunbook,
    Project!CountIssues, Project!ListProjects, Project!RunbookLoads, Project!RunbookFails,
    Project!OpenSettings, Project!CloseSettings, Project!PressSave, Project!PressDelete, Project!TypeName,
    Project!TypeRunbook, Project!ShowError, Project!Saved, Project!SaveEnds, Project!Deleted,
    Project!Created, Project!OpenCreate, Project!CloseCreate, Project!PickFolder, Project!FolderPicked,
    Project!TypeUrl, Project!SubmitCreate, Project!server
<1> QED
  BY <1>1, <1>2, <1>3, <1>5

\* The steps that leave what the page has loaded, and move the requests on.
LEMMA ProjectKnownServer ==
    ASSUME ProjectKnown, DOMAIN projects \subseteq DOMAIN projects',
           UNCHANGED <<projectsListed, cache, fetching, seen>>,
           projectsPage'.open = projectsPage.open, projectsPage'.draft = projectsPage.draft,
           \A q \in projectsCalls' : q.op # "save" \/
              \E r \in projectsCalls : r.op = q.op /\ r.of = q.of /\ r.body = q.body
    PROVE  ProjectKnown'
BY DEF ProjectKnown

LEMMA ProjectKnownStep ==
    ASSUME ProjectInv, Project!ProjectsAssumption, ProjectSteady, Project!Next
    PROVE  ProjectKnown'
<1>1. /\ ProjectKnown /\ ProjectServer /\ ProjectLoads /\ ProjectOpen /\ ProjectCalls
      /\ DOMAIN projects \subseteq DOMAIN projects' /\ \A r \in projectsCalls : r.op # "delete"
  BY ProjectStays DEF ProjectInv
<1>2. None \notin ProjectIds /\ projectsPage \in ProjectPage
  BY <1>1 DEF Project!ProjectsAssumption, ProjectOpen
<1>3. CASE \/ \E p \in ProjectIds : \/ Project!CreateIssue(p) \/ Project!SubmitCreate(p)
                                    \/ \E t \in Project!Contents : Project!OtherWritesRunbook(p, t)
           \/ Project!OpenCreate \/ Project!CloseCreate \/ Project!PickFolder
           \/ \E b \in BOOLEAN : Project!FolderPicked(b) \/ Project!TypeUrl(b)
  <2>1. UNCHANGED <<projectsListed, cache, fetching, seen, projectsPage>>
    BY <1>3 DEF Project!CreateIssue, Project!SubmitCreate, Project!OtherWritesRunbook, Project!OpenCreate,
      Project!CloseCreate, Project!PickFolder, Project!FolderPicked, Project!TypeUrl, Project!loads
  <2>2. \A q \in projectsCalls' : q.op # "save" \/ q \in projectsCalls
    <3>1. ASSUME NEW p \in ProjectIds, Project!SubmitCreate(p)
          PROVE  \A q \in projectsCalls' : q.op # "save" \/ q \in projectsCalls
      BY <3>1 DEF Project!SubmitCreate
    <3>2. CASE projectsCalls' = projectsCalls
      BY <3>2
    <3> QED
      BY <1>3, <3>1, <3>2 DEF Project!CreateIssue, Project!OtherWritesRunbook, Project!OpenCreate,
        Project!CloseCreate, Project!PickFolder, Project!FolderPicked, Project!TypeUrl
  <2> QED
    BY <1>1, <2>1, <2>2, ProjectKnownServer
<1>4. CASE \E r \in projectsCalls : \/ Project!UpdateProject(r) \/ Project!UpdateProjectRunbook(r)
                                    \/ \E n \in ProjectNames : Project!CreateProject(r, n)
  <2>1. UNCHANGED <<projectsListed, cache, fetching, seen, projectsPage>>
    BY <1>4 DEF Project!UpdateProject, Project!UpdateProjectRunbook, Project!CreateProject, Project!loads
  <2>2. PICK r \in projectsCalls, pc \in {"runbook", "ok"} : Project!Goes(r, pc)
    BY <1>4 DEF Project!UpdateProject, Project!UpdateProjectRunbook, Project!CreateProject
  <2>3. PICK m : /\ projectsCalls' = (projectsCalls \ {r}) \cup {m}
                 /\ m.op = r.op /\ m.of = r.of /\ m.body = r.body
    BY <1>1, <2>2, ProjectGoes
  <2>4. \A q \in projectsCalls' : \E s \in projectsCalls : s.op = q.op /\ s.of = q.of /\ s.body = q.body
    BY <2>3
  <2> QED
    BY <1>1, <2>1, <2>4, ProjectKnownServer
<1>5. CASE Project!ListProjects
  <2>1. DOMAIN projectsListed' = DOMAIN projects
        /\ UNCHANGED <<projects, cache, fetching, seen, projectsPage, projectsCalls>>
    BY <1>5 DEF Project!ListProjects, Project!server
  <2> QED
    BY <1>1, <2>1 DEF ProjectKnown
<1>6. ASSUME NEW p \in ProjectIds, Project!RunbookFails(p) PROVE ProjectKnown'
  BY <1>1, <1>6 DEF Project!RunbookFails, ProjectKnown, ProjectSteady
<1>7. ASSUME NEW p \in ProjectIds, Project!RunbookLoads(p) PROVE ProjectKnown'
  <2> DEFINE D == {runbook[p]}
             f == Project!Filled(projectsPage, D)
  <2>1. /\ p \in DOMAIN projects /\ fetching' = fetching \ {p}
        /\ cache' = [cache EXCEPT ![p] = D] /\ seen' = [seen EXCEPT ![p] = seen[p] \cup D]
        /\ projectsPage' = IF projectsPage.open = p /\ cache[p] # D THEN f ELSE projectsPage
        /\ UNCHANGED <<projects, projectsListed, projectsCalls>>
    BY <1>7 DEF Project!RunbookLoads, Project!server
  <2>2. D \in SUBSET Project!Contents /\ D # {} /\ \A a, b \in D : a = b
    BY <1>1 DEF ProjectServer
  <2>3. f.open = projectsPage.open /\ D = {f.draft}
    BY <1>2, <2>2, ProjectFilled
  <2> HIDE DEF D, f
  <2>4. cache'[p] = D /\ seen'[p] = seen[p] \cup D
        /\ \A q \in ProjectIds : q # p => cache'[q] = cache[q] /\ seen'[q] = seen[q]
    BY <1>1, <2>1 DEF ProjectLoads
  <2>5. projectsPage'.open = projectsPage.open
    BY <2>1, <2>3
  <2>6. projectsPage.open # None => projectsPage.open \in ProjectIds
    BY <1>2 DEF ProjectPage
  <2>7. \A q \in ProjectIds : cache'[q] # {} => q \in DOMAIN projects'
    BY <1>1, <2>1, <2>4 DEF ProjectKnown
  <2>8. ASSUME projectsPage.open # None
        PROVE  /\ cache'[projectsPage.open] # {} \/ projectsPage.open \in fetching'
               /\ cache'[projectsPage.open] # {} => projectsPage'.draft \in seen'[projectsPage.open]
    <3>1. CASE projectsPage.open # p
      BY <1>1, <2>1, <2>4, <2>6, <2>8, <3>1 DEF ProjectKnown
    <3>2. CASE projectsPage.open = p /\ cache[p] # D
      BY <2>1, <2>2, <2>3, <2>4, <3>2
    <3>3. CASE projectsPage.open = p /\ cache[p] = D
      BY <1>1, <2>1, <2>2, <2>4, <2>8, <3>3 DEF ProjectKnown
    <3> QED
      BY <3>1, <3>2, <3>3
  <2>9. \A r \in projectsCalls' : r.op = "save" => r.of = projectsPage'.open /\ r.body.text \in seen'[r.of]
    <3> SUFFICES ASSUME NEW r \in projectsCalls, r.op = "save"
                 PROVE  r.of = projectsPage'.open /\ r.body.text \in seen'[r.of]
      BY <2>1
    <3>1. r.of \in ProjectIds
      BY <1>1 DEF ProjectCalls, ProjectCall
    <3> QED
      BY <1>1, <2>4, <2>5, <3>1 DEF ProjectKnown
  <2> QED
    BY <1>1, <2>1, <2>5, <2>7, <2>8, <2>9 DEF ProjectKnown
<1>8. ASSUME NEW p \in ProjectIds, Project!OpenSettings(p) PROVE ProjectKnown'
  <2> DEFINE s == [Project!ClosedSettings EXCEPT !.open = p, !.name = projectsListed[p].name,
                                                 !.hasWork = projectsListed[p].hasWork]
             f == Project!Filled(s, cache[p])
  <2>1. projectsListed[p] \in ProjectView /\ cache[p] \in SUBSET Project!Contents
        /\ (\A a, b \in cache[p] : a = b) /\ cache[p] \subseteq seen[p]
    BY <1>1, <1>8 DEF Project!OpenSettings, ProjectLoads
  <2>2. s \in ProjectPage /\ s.open = p
    BY <2>1, ProjectOpened
  <2> HIDE DEF s
  <2>3. f.open = p /\ (cache[p] # {} => cache[p] = {f.draft})
    BY <2>1, <2>2, ProjectFilled
  <2> HIDE DEF f
  <2>4. projectsPage' = f /\ fetching' = fetching \cup {p} /\ p \in DOMAIN projectsListed
        /\ projectsPage.open = None /\ UNCHANGED <<projects, projectsListed, cache, seen, projectsCalls>>
    BY <1>8 DEF Project!OpenSettings, Project!Fetch, Project!server, s, f
  <2>5. \A r \in projectsCalls : r.op # "save"
    <3> SUFFICES ASSUME NEW r \in projectsCalls, r.op = "save" PROVE FALSE
      OBVIOUS
    <3> QED
      BY <1>1, <1>2, <2>4 DEF ProjectKnown, ProjectCalls, ProjectCall
  <2> QED
    BY <1>1, <2>1, <2>3, <2>4, <2>5 DEF ProjectKnown
<1>9. CASE Project!CloseSettings
  <2>1. projectsPage' = Project!ClosedSettings /\ (\A r \in projectsCalls : r.op # "save")
        /\ UNCHANGED <<projects, projectsListed, cache, fetching, seen, projectsCalls>>
    BY <1>9 DEF Project!CloseSettings, Project!Pending, Project!server, Project!loads
  <2> QED
    BY <1>1, <2>1, ProjectClosed DEF ProjectKnown
<1>10. ASSUME NEW n \in ProjectNames, Project!TypeName(n) PROVE ProjectKnown'
  <2>1. projectsPage' = [projectsPage EXCEPT !.name = n]
        /\ UNCHANGED <<projects, projectsListed, cache, fetching, seen, projectsCalls>>
    BY <1>10 DEF Project!TypeName, Project!server, Project!loads
  <2>2. projectsPage'.open = projectsPage.open /\ projectsPage'.draft = projectsPage.draft
    BY <1>2, <2>1 DEF ProjectPage
  <2>3. \A q \in projectsCalls' : q.op # "save" \/
           \E r \in projectsCalls : r.op = q.op /\ r.of = q.of /\ r.body = q.body
    BY <2>1
  <2> QED
    BY <1>1, <2>1, <2>2, <2>3, ProjectKnownServer
<1>11. ASSUME NEW t \in Project!Contents, Project!TypeRunbook(t) PROVE ProjectKnown'
  <2> DEFINE o == projectsPage.open
  <2>1. /\ projectsPage' = [projectsPage EXCEPT !.draft = t, !.touched = TRUE]
        /\ seen' = [seen EXCEPT ![o] = seen[o] \cup {t}] /\ o # None
        /\ UNCHANGED <<projects, projectsListed, cache, fetching, projectsCalls>>
    BY <1>11 DEF Project!TypeRunbook, Project!server
  <2>2. projectsPage'.open = o /\ projectsPage'.draft = t /\ o \in ProjectIds
    BY <1>2, <2>1 DEF ProjectPage
  <2> HIDE DEF o
  <2>3. t \in seen'[o] /\ \A q \in ProjectIds : seen[q] \subseteq seen'[q]
    BY <1>1, <2>1, <2>2 DEF ProjectLoads
  <2>4. \A r \in projectsCalls : r.of \in ProjectIds
    BY <1>1 DEF ProjectCalls, ProjectCall
  <2>5. projectsPage.open = o
    BY DEF o
  <2> QED
    BY <1>1, <2>1, <2>2, <2>3, <2>4, <2>5 DEF ProjectKnown
<1>12. CASE Project!PressSave
  <2> DEFINE b == [name |-> projectsPage.name, text |-> projectsPage.draft, touched |-> projectsPage.touched,
                   blind |-> projectsPage.open \in unloaded]
             m == [op |-> "save", of |-> projectsPage.open, body |-> b, pc |-> "sent"]
  <2>1. /\ projectsCalls' = projectsCalls \cup {m} /\ projectsPage.open # None
        /\ ~Project!IsLoading
        /\ UNCHANGED <<projects, projectsListed, cache, fetching, seen, projectsPage>>
    BY <1>12 DEF Project!PressSave, Project!Ask, Project!SaveDisabled, Project!loads, Project!server
  <2>2. projectsPage.draft \in seen[projectsPage.open]
    BY <1>1, <2>1 DEF Project!IsLoading, ProjectKnown
  <2>3. m.op = "save" /\ m.of = projectsPage.open /\ m.body.text = projectsPage.draft
    OBVIOUS
  <2> HIDE DEF m
  <2> QED
    BY <1>1, <2>1, <2>2, <2>3 DEF ProjectKnown
<1>13. ~Project!PressDelete
  BY DEF Project!PressDelete, ProjectSteady
<1>14. ASSUME NEW r \in projectsCalls, Project!ShowError(r) \/ Project!SaveEnds(r) \/ Project!Created(r)
       PROVE  ProjectKnown'
  <2>1. projectsCalls' = projectsCalls \ {r}
        /\ UNCHANGED <<projects, projectsListed, cache, fetching, seen, projectsPage>>
    BY <1>14 DEF Project!ShowError, Project!SaveEnds, Project!Created, Project!loads, Project!server
  <2> QED
    BY <1>1, <2>1 DEF ProjectKnown
<1>15. ASSUME NEW r \in projectsCalls, Project!Saved(r) PROVE ProjectKnown'
  <2> DEFINE w == r.of \in working
             s == [projectsPage EXCEPT !.open = r.of, !.name = r.body.name, !.hasWork = w]
             f == Project!Filled(s, cache[r.of])
  <2>1. /\ r.op = "save" /\ Project!Goes(r, "refetch") /\ projectsPage' = f
        /\ fetching' = fetching \cup (({projectsPage.open} \ {None}) \cup ({r.of} \ {projectsPage.open}))
        /\ UNCHANGED <<projects, projectsListed, cache, seen>>
    BY <1>15 DEF Project!Saved, Project!Fetch, Project!Invalidates, Project!server
  <2>2. r.of \in ProjectIds /\ r.body \in ProjectSave /\ r.of = projectsPage.open
    BY <1>1, <2>1 DEF ProjectCalls, ProjectCall, ProjectKnown
  <2>3. w \in BOOLEAN /\ r.body.name \in ProjectNames
    BY <2>2 DEF ProjectSave
  <2> HIDE DEF w
  <2>4. s \in ProjectPage /\ s.open = projectsPage.open /\ s.draft = projectsPage.draft
    BY <1>2, <2>2, <2>3 DEF ProjectPage
  <2> HIDE DEF s
  <2>5. cache[r.of] \in SUBSET Project!Contents /\ (\A a, b \in cache[r.of] : a = b)
        /\ cache[r.of] \subseteq seen[r.of]
    BY <1>1, <2>2 DEF ProjectLoads
  <2>6. /\ f.open = projectsPage.open
        /\ cache[r.of] = {} => f.draft = projectsPage.draft
        /\ cache[r.of] # {} => cache[r.of] = {f.draft}
    BY <2>4, <2>5, ProjectFilled
  <2> HIDE DEF f
  <2>7. PICK m : /\ projectsCalls' = (projectsCalls \ {r}) \cup {m}
                 /\ m.op = r.op /\ m.of = r.of /\ m.body = r.body
    BY <1>1, <2>1, ProjectGoes
  <2>8. \A q \in projectsCalls' : q.op = "save" => q.of = projectsPage.open /\ q.body.text \in seen[q.of]
    BY <1>1, <2>1, <2>7 DEF ProjectKnown
  <2>9. fetching' \subseteq DOMAIN projects' /\ fetching \subseteq fetching'
    BY <1>1, <1>2, <2>1, <2>2 DEF ProjectKnown
  <2> QED
    BY <1>1, <2>1, <2>2, <2>5, <2>6, <2>8, <2>9 DEF ProjectKnown
<1>16. ASSUME NEW r \in projectsCalls
       PROVE  ~Project!CountIssues(r) /\ ~Project!DeleteProject(r) /\ ~Project!Deleted(r)
  BY <1>1 DEF Project!CountIssues, Project!DeleteProject, Project!Deleted
<1> QED
  BY <1>3, <1>4, <1>5, <1>6, <1>7, <1>8, <1>9, <1>10, <1>11, <1>12, <1>13, <1>14, <1>15, <1>16
    DEF Project!Next

\* The steps that change neither a runbook nor what the page has loaded.
LEMMA ProjectChosenCalls ==
    ASSUME ProjectChosen, UNCHANGED <<runbook, cache, fetching>>,
           projectsPage'.open = projectsPage.open, projectsPage'.draft = projectsPage.draft,
           projectsPage'.touched = projectsPage.touched,
           \A r \in projectsCalls : r.op = "save" =>
             \E q \in projectsCalls' : q.op = "save" /\ q.of = r.of /\ (r.pc \in {"ok", "refetch"} => q.pc = r.pc),
           \A q \in projectsCalls' : q.op # "save" \/
             \E r \in projectsCalls : /\ r.op = "save" /\ r.of = q.of /\ r.body = q.body
                                      /\ q.pc \in {"sent", "runbook"} => r.pc \in {"sent", "runbook"}
    PROVE  ProjectChosen'
<1>1. \A p \in ProjectIds : cache'[p] # {} /\ cache'[p] # {runbook'[p]} =>
        \E q \in projectsCalls' : q.op = "save" /\ q.of = p /\ (q.pc = "ok" \/ (q.pc = "refetch" /\ p \in fetching'))
  <2> SUFFICES ASSUME NEW p \in ProjectIds, cache[p] # {}, cache[p] # {runbook[p]}
               PROVE  \E q \in projectsCalls' : q.op = "save" /\ q.of = p
                                                /\ (q.pc = "ok" \/ (q.pc = "refetch" /\ p \in fetching'))
    OBVIOUS
  <2>1. PICK r \in projectsCalls : /\ r.op = "save" /\ r.of = p
                                   /\ r.pc = "ok" \/ (r.pc = "refetch" /\ p \in fetching)
    BY DEF ProjectChosen
  <2> QED
    BY <2>1
<1>2. \A q \in projectsCalls' : q.op = "save" /\ ~q.body.touched /\ q.pc \in {"sent", "runbook"} =>
        q.body.text = runbook'[q.of]
  BY DEF ProjectChosen
<1> QED
  BY <1>1, <1>2 DEF ProjectChosen

LEMMA ProjectChosenStep ==
    ASSUME ProjectInv, Project!ProjectsAssumption, ProjectAlone, Project!Next
    PROVE  ProjectChosen'
<1>1. /\ ProjectKnown /\ ProjectChosen /\ ProjectServer /\ ProjectLoads /\ ProjectOpen /\ ProjectCalls
      /\ \A r \in projectsCalls : r.op # "delete"
  BY ProjectStays DEF ProjectInv, ProjectAlone
<1>2. None \notin ProjectIds /\ projectsPage \in ProjectPage
  BY <1>1 DEF Project!ProjectsAssumption, ProjectOpen
<1>3. \A r \in projectsCalls : ProjectCall(r) /\ r.of \in ProjectIds
  BY <1>1 DEF ProjectCalls, ProjectCall
<1>4. CASE \/ \E p \in ProjectIds : Project!CreateIssue(p) \/ Project!SubmitCreate(p)
           \/ Project!OpenCreate \/ Project!CloseCreate \/ Project!PickFolder \/ Project!ListProjects
           \/ \E b \in BOOLEAN : Project!FolderPicked(b) \/ Project!TypeUrl(b)
           \/ \E n \in ProjectNames : Project!TypeName(n)
  <2>1. UNCHANGED <<runbook, cache, fetching>>
    BY <1>4 DEF Project!CreateIssue, Project!SubmitCreate, Project!ListProjects, Project!OpenCreate,
      Project!CloseCreate, Project!PickFolder, Project!FolderPicked, Project!TypeUrl, Project!TypeName,
      Project!loads, Project!server
  <2>2. projectsPage'.open = projectsPage.open /\ projectsPage'.draft = projectsPage.draft
        /\ projectsPage'.touched = projectsPage.touched
    <3>1. ASSUME NEW n \in ProjectNames, Project!TypeName(n)
          PROVE  projectsPage'.open = projectsPage.open /\ projectsPage'.draft = projectsPage.draft
                 /\ projectsPage'.touched = projectsPage.touched
      BY <1>2, <3>1 DEF Project!TypeName, ProjectPage
    <3>2. CASE projectsPage' = projectsPage
      BY <3>2
    <3> QED
      BY <1>4, <3>1, <3>2 DEF Project!CreateIssue, Project!SubmitCreate, Project!ListProjects,
        Project!OpenCreate, Project!CloseCreate, Project!PickFolder, Project!FolderPicked, Project!TypeUrl
  <2>3. projectsCalls \subseteq projectsCalls' /\ \A q \in projectsCalls' : q.op # "save" \/ q \in projectsCalls
    <3>1. ASSUME NEW p \in ProjectIds, Project!SubmitCreate(p)
          PROVE  projectsCalls \subseteq projectsCalls'
                 /\ \A q \in projectsCalls' : q.op # "save" \/ q \in projectsCalls
      BY <3>1 DEF Project!SubmitCreate
    <3>2. CASE projectsCalls' = projectsCalls
      BY <3>2
    <3> QED
      BY <1>4, <3>1, <3>2 DEF Project!CreateIssue, Project!ListProjects, Project!OpenCreate,
        Project!CloseCreate, Project!PickFolder, Project!FolderPicked, Project!TypeUrl, Project!TypeName
  <2> QED
    BY <1>1, <2>1, <2>2, <2>3, ProjectChosenCalls
<1>5. ASSUME NEW r \in projectsCalls, Project!UpdateProject(r) PROVE ProjectChosen'
  <2>1. UNCHANGED <<runbook, cache, fetching, projectsPage>> /\ Project!Goes(r, "runbook")
        /\ r.op = "save" /\ r.pc = "sent"
    BY <1>5 DEF Project!UpdateProject, Project!loads
  <2>2. PICK m : /\ projectsCalls' = (projectsCalls \ {r}) \cup {m} /\ m.pc = "runbook"
                 /\ m.op = r.op /\ m.of = r.of /\ m.body = r.body
    BY <1>1, <2>1, ProjectGoes
  <2>3. \A s \in projectsCalls : s.op = "save" =>
          \E q \in projectsCalls' : q.op = "save" /\ q.of = s.of /\ (s.pc \in {"ok", "refetch"} => q.pc = s.pc)
    BY <2>1, <2>2
  <2>4. \A q \in projectsCalls' : q.op # "save" \/
          \E s \in projectsCalls : /\ s.op = "save" /\ s.of = q.of /\ s.body = q.body
                                   /\ q.pc \in {"sent", "runbook"} => s.pc \in {"sent", "runbook"}
    BY <2>1, <2>2
  <2> QED
    BY <1>1, <2>1, <2>3, <2>4, ProjectChosenCalls
<1>6. ASSUME NEW r \in projectsCalls, Project!UpdateProjectRunbook(r) PROVE ProjectChosen'
  <2>1. /\ UNCHANGED <<cache, fetching, projectsPage>> /\ Project!Goes(r, "ok") /\ r.op = "save" /\ r.pc = "runbook"
        /\ runbook' = [runbook EXCEPT ![r.of] = r.body.text]
    BY <1>6 DEF Project!UpdateProjectRunbook, Project!loads
  <2>2. PICK m : /\ projectsCalls' = (projectsCalls \ {r}) \cup {m} /\ m.pc = "ok"
                 /\ m.op = r.op /\ m.of = r.of /\ m.body = r.body
    BY <1>1, <2>1, ProjectGoes
  <2>3. \A q \in projectsCalls : q.op = "save" => q = r
    BY <1>1, <2>1 DEF ProjectCalls
  <2>4. \A p \in ProjectIds : p # r.of => runbook'[p] = runbook[p]
    BY <1>1, <2>1 DEF ProjectServer
  <2>5. \A p \in ProjectIds : cache[p] # {} => cache[p] = {runbook[p]}
    BY <1>1, <2>1, <2>3 DEF ProjectChosen
  <2>6. \A p \in ProjectIds : cache'[p] # {} /\ cache'[p] # {runbook'[p]} =>
          \E q \in projectsCalls' : q.op = "save" /\ q.of = p /\ (q.pc = "ok" \/ (q.pc = "refetch" /\ p \in fetching'))
    BY <2>1, <2>2, <2>4, <2>5
  <2>7. \A q \in projectsCalls' : q.op = "save" => q.pc = "ok"
    BY <2>1, <2>2, <2>3
  <2> QED
    BY <1>1, <2>1, <2>6, <2>7 DEF ProjectChosen
<1>7. ASSUME NEW r \in projectsCalls, NEW n \in ProjectNames, Project!CreateProject(r, n) PROVE ProjectChosen'
  <2>1. /\ UNCHANGED <<cache, fetching, projectsPage>> /\ Project!Goes(r, "ok") /\ r.op = "create"
        /\ runbook' = [runbook EXCEPT ![r.of] = NoText] /\ r.of \notin DOMAIN projects
    BY <1>7 DEF Project!CreateProject, Project!loads
  <2>2. PICK m : /\ projectsCalls' = (projectsCalls \ {r}) \cup {m} /\ m.pc = "ok"
                 /\ m.op = r.op /\ m.of = r.of /\ m.body = r.body
    BY <1>1, <2>1, ProjectGoes
  <2>3. \A p \in ProjectIds : p # r.of => runbook'[p] = runbook[p]
    BY <1>1, <2>1 DEF ProjectServer
  <2>4. cache[r.of] = {}
    BY <1>1, <1>3, <2>1 DEF ProjectKnown
  <2>5. \A q \in projectsCalls' : q.op = "save" => q \in projectsCalls /\ q.of \in DOMAIN projects
    BY <1>1, <1>2, <1>3, <2>1, <2>2 DEF ProjectKnown
  <2>6. \A p \in ProjectIds : cache'[p] # {} /\ cache'[p] # {runbook'[p]} =>
          \E q \in projectsCalls' : q.op = "save" /\ q.of = p /\ (q.pc = "ok" \/ (q.pc = "refetch" /\ p \in fetching'))
    <3> SUFFICES ASSUME NEW p \in ProjectIds, cache[p] # {}, cache[p] # {runbook'[p]}
                 PROVE  \E q \in projectsCalls' : q.op = "save" /\ q.of = p
                                                 /\ (q.pc = "ok" \/ (q.pc = "refetch" /\ p \in fetching'))
      BY <2>1
    <3>1. PICK q \in projectsCalls : q.op = "save" /\ q.of = p
                                     /\ (q.pc = "ok" \/ (q.pc = "refetch" /\ p \in fetching))
      BY <1>1, <2>3, <2>4 DEF ProjectChosen
    <3> QED
      BY <2>1, <2>2, <3>1
  <2>7. \A q \in projectsCalls' : q.op = "save" /\ ~q.body.touched /\ q.pc \in {"sent", "runbook"} =>
          q.body.text = runbook'[q.of]
    <3> SUFFICES ASSUME NEW q \in projectsCalls', q.op = "save", ~q.body.touched, q.pc \in {"sent", "runbook"}
                 PROVE  q.body.text = runbook'[q.of]
      OBVIOUS
    <3>1. q \in projectsCalls /\ q.of # r.of /\ q.of \in ProjectIds
      BY <1>3, <2>1, <2>5
    <3> QED
      BY <1>1, <2>3, <3>1 DEF ProjectChosen
  <2> QED
    BY <1>1, <2>1, <2>6, <2>7 DEF ProjectChosen
<1>8. ASSUME NEW p \in ProjectIds
      PROVE  ~Project!RunbookFails(p) /\ \A t \in Project!Contents : ~Project!OtherWritesRunbook(p, t)
  BY <1>1 DEF Project!RunbookFails, Project!OtherWritesRunbook, ProjectKnown, ProjectAlone, ProjectSteady
<1>9. ASSUME NEW p \in ProjectIds, Project!RunbookLoads(p) PROVE ProjectChosen'
  <2> DEFINE D == {runbook[p]}
             f == Project!Filled(projectsPage, D)
  <2>1. /\ fetching' = fetching \ {p} /\ cache' = [cache EXCEPT ![p] = D]
        /\ projectsPage' = IF projectsPage.open = p /\ cache[p] # D THEN f ELSE projectsPage
        /\ UNCHANGED <<runbook, projectsCalls>>
    BY <1>9 DEF Project!RunbookLoads, Project!server
  <2>2. D \in SUBSET Project!Contents /\ D # {} /\ \A a, b \in D : a = b
    BY <1>1 DEF ProjectServer
  <2>3. f.open = projectsPage.open /\ D = {f.draft}
    BY <1>2, <2>2, ProjectFilled
  <2>4. D = {runbook[p]}
    OBVIOUS
  <2> HIDE DEF D, f
  <2>5. cache'[p] = D /\ \A q \in ProjectIds : q # p => cache'[q] = cache[q]
    BY <1>1, <2>1 DEF ProjectLoads
  <2>6. \A q \in ProjectIds : cache'[q] # {} /\ cache'[q] # {runbook'[q]} =>
          \E r \in projectsCalls' : r.op = "save" /\ r.of = q /\ (r.pc = "ok" \/ (r.pc = "refetch" /\ q \in fetching'))
    <3> SUFFICES ASSUME NEW q \in ProjectIds, cache'[q] # {}, cache'[q] # {runbook[q]}
                 PROVE  \E r \in projectsCalls : r.op = "save" /\ r.of = q
                                                /\ (r.pc = "ok" \/ (r.pc = "refetch" /\ q \in fetching'))
      BY <2>1
    <3>1. q # p /\ cache'[q] = cache[q]
      BY <2>4, <2>5
    <3>2. PICK r \in projectsCalls : r.op = "save" /\ r.of = q
                                     /\ (r.pc = "ok" \/ (r.pc = "refetch" /\ q \in fetching))
      BY <1>1, <3>1 DEF ProjectChosen
    <3> QED
      BY <2>1, <3>1, <3>2
  <2>7. projectsPage.open # None => projectsPage.open \in ProjectIds
    BY <1>2 DEF ProjectPage
  <2>8. projectsPage'.open # None /\ ~projectsPage'.touched /\ cache'[projectsPage'.open] # {} =>
          cache'[projectsPage'.open] = {projectsPage'.draft}
    <3>1. CASE projectsPage.open # p
      BY <1>1, <2>1, <2>5, <2>7, <3>1 DEF ProjectChosen
    <3>2. CASE projectsPage.open = p /\ cache[p] # D
      BY <2>1, <2>3, <2>5, <3>2
    <3>3. CASE projectsPage.open = p /\ cache[p] = D
      BY <1>1, <2>1, <2>5, <3>3 DEF ProjectChosen
    <3> QED
      BY <3>1, <3>2, <3>3
  <2>9. \A q \in projectsCalls' : q.op = "save" /\ ~q.body.touched /\ q.pc \in {"sent", "runbook"} =>
          q.body.text = runbook'[q.of]
    BY <1>1, <2>1 DEF ProjectChosen
  <2> QED
    BY <2>6, <2>8, <2>9 DEF ProjectChosen
<1>10. ASSUME NEW p \in ProjectIds, Project!OpenSettings(p) PROVE ProjectChosen'
  <2> DEFINE s == [Project!ClosedSettings EXCEPT !.open = p, !.name = projectsListed[p].name,
                                                 !.hasWork = projectsListed[p].hasWork]
             f == Project!Filled(s, cache[p])
  <2>1. projectsListed[p] \in ProjectView /\ cache[p] \in SUBSET Project!Contents
        /\ (\A a, b \in cache[p] : a = b)
    BY <1>1, <1>10 DEF Project!OpenSettings, ProjectLoads
  <2>2. s \in ProjectPage /\ s.open = p
    BY <2>1, ProjectOpened
  <2> HIDE DEF s
  <2>3. f.open = p /\ (cache[p] # {} => cache[p] = {f.draft})
    BY <2>1, <2>2, ProjectFilled
  <2> HIDE DEF f
  <2>4. projectsPage' = f /\ fetching' = fetching \cup {p} /\ UNCHANGED <<runbook, cache, projectsCalls>>
    BY <1>10 DEF Project!OpenSettings, Project!Fetch, Project!server, s, f
  <2>5. \A q \in ProjectIds : cache'[q] # {} /\ cache'[q] # {runbook'[q]} =>
          \E r \in projectsCalls' : r.op = "save" /\ r.of = q /\ (r.pc = "ok" \/ (r.pc = "refetch" /\ q \in fetching'))
    BY <1>1, <2>4 DEF ProjectChosen
  <2>6. \A q \in projectsCalls' : q.op = "save" /\ ~q.body.touched /\ q.pc \in {"sent", "runbook"} =>
          q.body.text = runbook'[q.of]
    BY <1>1, <2>4 DEF ProjectChosen
  <2> QED
    BY <2>3, <2>4, <2>5, <2>6 DEF ProjectChosen
<1>11. CASE Project!CloseSettings
  <2>1. projectsPage' = Project!ClosedSettings /\ UNCHANGED <<runbook, cache, fetching, projectsCalls>>
    BY <1>11 DEF Project!CloseSettings, Project!server, Project!loads
  <2> QED
    BY <1>1, <2>1, ProjectClosed DEF ProjectChosen
<1>12. ASSUME NEW t \in Project!Contents, Project!TypeRunbook(t) PROVE ProjectChosen'
  <2>1. /\ projectsPage' = [projectsPage EXCEPT !.draft = t, !.touched = TRUE]
        /\ UNCHANGED <<runbook, cache, fetching, projectsCalls>>
    BY <1>12 DEF Project!TypeRunbook, Project!server
  <2>2. projectsPage'.touched = TRUE
    BY <1>2, <2>1 DEF ProjectPage
  <2> QED
    BY <1>1, <2>1, <2>2 DEF ProjectChosen
<1>13. CASE Project!PressSave
  <2> DEFINE o == projectsPage.open
             b == [name |-> projectsPage.name, text |-> projectsPage.draft, touched |-> projectsPage.touched,
                   blind |-> o \in unloaded]
             m == [op |-> "save", of |-> o, body |-> b, pc |-> "sent"]
  <2>1. /\ projectsCalls' = projectsCalls \cup {m} /\ o # None /\ ~Project!IsLoading
        /\ \A r \in projectsCalls : r.op # "save"
    BY <1>13 DEF Project!PressSave, Project!Ask, Project!SaveDisabled, Project!Pending
  <2>2. UNCHANGED <<runbook, cache, fetching, projectsPage>>
    BY <1>13 DEF Project!PressSave, Project!loads, Project!server
  <2>3. o \in ProjectIds /\ cache[o] # {}
    BY <1>1, <1>2, <2>1 DEF ProjectPage, ProjectKnown, Project!IsLoading
  <2>4. \A p \in ProjectIds : cache[p] # {} => cache[p] = {runbook[p]}
    BY <1>1, <2>1 DEF ProjectChosen
  <2>5. ~projectsPage.touched => projectsPage.draft = runbook[o]
    BY <1>1, <2>1, <2>3, <2>4 DEF ProjectChosen
  <2>6. m.op = "save" /\ m.of = o /\ m.body.text = projectsPage.draft /\ m.body.touched = projectsPage.touched
    OBVIOUS
  <2> HIDE DEF m, o
  <2>7. \A q \in projectsCalls' : q.op = "save" /\ ~q.body.touched /\ q.pc \in {"sent", "runbook"} =>
          q.body.text = runbook'[q.of]
    BY <2>1, <2>2, <2>5, <2>6
  <2> QED
    BY <1>1, <2>1, <2>2, <2>4, <2>7 DEF ProjectChosen
<1>14. ~Project!PressDelete
  BY DEF Project!PressDelete, ProjectAlone, ProjectSteady
<1>15. ASSUME NEW r \in projectsCalls, Project!ShowError(r) \/ Project!Created(r) PROVE ProjectChosen'
  <2>1. projectsCalls' = projectsCalls \ {r} /\ UNCHANGED <<runbook, cache, fetching, projectsPage>>
    BY <1>15 DEF Project!ShowError, Project!Created, Project!loads, Project!server
  <2>2. r.op = "save" => r.of \in DOMAIN projects
    BY <1>1, <1>2, <1>3 DEF ProjectKnown
  <2>3. r.op # "save"
    BY <1>15, <2>2 DEF Project!ShowError, Project!Created, Project!Refused, ProjectAlone
  <2>4. \A s \in projectsCalls : s.op = "save" => s \in projectsCalls'
    BY <2>1, <2>3
  <2> QED
    BY <1>1, <2>1, <2>4, ProjectChosenCalls
<1>16. ASSUME NEW r \in projectsCalls, Project!SaveEnds(r) PROVE ProjectChosen'
  <2>1. /\ projectsCalls' = projectsCalls \ {r} /\ UNCHANGED <<runbook, cache, fetching, projectsPage>>
        /\ r.op = "save" /\ r.pc = "refetch" /\ r.of \notin fetching
    BY <1>16 DEF Project!SaveEnds, Project!loads, Project!server
  <2>2. \A q \in projectsCalls : q.op = "save" => q = r
    BY <1>1, <2>1 DEF ProjectCalls
  <2>3. \A p \in ProjectIds : cache[p] # {} => cache[p] = {runbook[p]}
    BY <1>1, <2>1, <2>2 DEF ProjectChosen
  <2> QED
    BY <1>1, <2>1, <2>3 DEF ProjectChosen
<1>17. ASSUME NEW r \in projectsCalls, Project!Saved(r) PROVE ProjectChosen'
  <2> DEFINE w == r.of \in working
             s == [projectsPage EXCEPT !.open = r.of, !.name = r.body.name, !.hasWork = w]
             f == Project!Filled(s, cache[r.of])
  <2>1. /\ r.op = "save" /\ r.pc = "ok" /\ Project!Goes(r, "refetch") /\ projectsPage' = f
        /\ fetching' = fetching \cup (({projectsPage.open} \ {None}) \cup ({r.of} \ {projectsPage.open}))
        /\ UNCHANGED <<runbook, cache>>
    BY <1>17 DEF Project!Saved, Project!Fetch, Project!Invalidates, Project!server
  <2>2. r.of \in ProjectIds /\ r.body \in ProjectSave /\ r.of = projectsPage.open
    BY <1>1, <1>3, <2>1 DEF ProjectCall, ProjectKnown
  <2>3. w \in BOOLEAN /\ r.body.name \in ProjectNames
    BY <2>2 DEF ProjectSave
  <2> HIDE DEF w
  <2>4. s \in ProjectPage /\ s.open = projectsPage.open
    BY <1>2, <2>2, <2>3 DEF ProjectPage
  <2> HIDE DEF s
  <2>5. cache[r.of] \in SUBSET Project!Contents /\ \A a, b \in cache[r.of] : a = b
    BY <1>1, <2>2 DEF ProjectLoads
  <2>6. f.open = projectsPage.open /\ (cache[r.of] # {} => cache[r.of] = {f.draft})
    BY <2>4, <2>5, ProjectFilled
  <2> HIDE DEF f
  <2>7. PICK m : /\ projectsCalls' = (projectsCalls \ {r}) \cup {m} /\ m.pc = "refetch"
                 /\ m.op = r.op /\ m.of = r.of /\ m.body = r.body
    BY <1>1, <2>1, ProjectGoes
  <2>8. \A q \in projectsCalls : q.op = "save" => q = r
    BY <1>1, <2>1 DEF ProjectCalls
  <2>9. r.of \in fetching'
    BY <1>2, <2>1, <2>2
  <2>10. \A p \in ProjectIds : cache'[p] # {} /\ cache'[p] # {runbook'[p]} =>
          \E q \in projectsCalls' : q.op = "save" /\ q.of = p /\ (q.pc = "ok" \/ (q.pc = "refetch" /\ p \in fetching'))
    <3> SUFFICES ASSUME NEW p \in ProjectIds, cache[p] # {}, cache[p] # {runbook[p]}
                 PROVE  \E q \in projectsCalls' : q.op = "save" /\ q.of = p
                                                 /\ (q.pc = "ok" \/ (q.pc = "refetch" /\ p \in fetching'))
      BY <2>1
    <3>1. p = r.of
      BY <1>1, <2>8 DEF ProjectChosen
    <3> QED
      BY <2>1, <2>7, <2>9, <3>1
  <2>11. \A q \in projectsCalls' : q.op = "save" => q.pc = "refetch"
    BY <2>1, <2>7, <2>8
  <2> QED
    BY <2>1, <2>2, <2>6, <2>10, <2>11 DEF ProjectChosen
<1>18. ASSUME NEW r \in projectsCalls
       PROVE  ~Project!CountIssues(r) /\ ~Project!DeleteProject(r) /\ ~Project!Deleted(r)
  BY <1>1 DEF Project!CountIssues, Project!DeleteProject, Project!Deleted
<1> QED
  BY <1>4, <1>5, <1>6, <1>7, <1>8, <1>9, <1>10, <1>11, <1>12, <1>13, <1>14, <1>15, <1>16, <1>17, <1>18
    DEF Project!Next

LEMMA ProjectStep ==
    ASSUME ProjectInv, Project!ProjectsAssumption, [Project!Next]_(Project!vars)
    PROVE  ProjectInv'
<1>1. CASE UNCHANGED Project!vars
  BY <1>1 DEF ProjectInv, ProjectServer, ProjectLoads, ProjectOpen, ProjectCalls, ProjectLoaded, ProjectCounted,
    ProjectKnown, ProjectChosen, Project!vars, Project!server, Project!loads
<1>2. CASE Project!Next
  <2>1. ProjectServer' /\ ProjectLoads' /\ ProjectOpen' /\ ProjectCalls'
    BY <1>2, ProjectBaseStep
  <2>2. ProjectSteady => ProjectKnown'
    BY <1>2, ProjectKnownStep
  <2>3. ProjectAlone => ProjectChosen'
    BY <1>2, ProjectChosenStep
  <2>4. ProjectLoaded' /\ ProjectCounted'
    BY <1>2, ProjectLoadedStep, ProjectCountedStep
  <2> QED
    BY <2>1, <2>2, <2>3, <2>4 DEF ProjectInv, ProjectSteady, ProjectAlone
<1> QED
  BY <1>1, <1>2

LEMMA SameProjectCardinality ==
    ASSUME NEW S
    PROVE  Project!Cardinality(S) = Cardinality(S)
BY DEF Cardinality, Project!Cardinality

LEMMA ProjectSound ==
    ASSUME ProjectInv
    PROVE  /\ Project!TypeOK /\ Project!OneSource /\ Project!RunbookKnown
           /\ Project!OnlyUnusedDeleted
<1>1. ProjectServer /\ ProjectLoads /\ ProjectOpen /\ ProjectCalls /\ ProjectLoaded /\ ProjectCounted
  BY DEF ProjectInv
<1>2. ASSUME NEW p \in ProjectIds PROVE Project!Cardinality(cache[p]) <= 1 /\ cache[p] \subseteq seen[p]
  BY <1>1, AtMostOne, SameProjectCardinality DEF ProjectLoads
<1>3. Project!Cardinality({r \in projectsCalls : r.op = "save"}) <= 1
  <2> DEFINE S == {r \in projectsCalls : r.op = "save"}
  <2>1. \A r, q \in S : r = q
    BY <1>1 DEF ProjectCalls
  <2> HIDE DEF S
  <2>2. Project!Cardinality(S) <= 1
    BY <2>1, AtMostOne, SameProjectCardinality
  <2> QED
    BY <2>2 DEF S
<1>4. projectsPage.open \in ProjectIds \cup {None} /\ projectsPage.draft \in Project!Contents
  BY <1>1 DEF ProjectOpen, ProjectPage
<1>5. \A r \in projectsCalls : r.op \in {"save", "delete", "create"} /\ (r.op = "create" => r.body.path # r.body.url)
  BY <1>1 DEF ProjectCalls, ProjectCall
<1>6. Project!TypeOK
  BY <1>1, <1>2, <1>3, <1>4, <1>5 DEF Project!TypeOK, ProjectServer, ProjectLoads, ProjectLoaded, ProjectCounted
<1>7. Project!OneSource
  BY <1>5 DEF Project!OneSource
<1>8. Project!RunbookKnown
  BY <1>1 DEF ProjectLoaded, Project!RunbookKnown
<1> QED
  BY <1>1, <1>6, <1>7, <1>8 DEF ProjectServer, ProjectCounted, Project!OnlyUnusedDeleted

\* A runbook is changed by a save whose editor was touched.
LEMMA ProjectRunbooks ==
    ASSUME ProjectInv, Project!ProjectsAssumption, ProjectAlone, [Project!Next]_(Project!vars)
    PROVE  Project!RunbookByChoice
<1>1. /\ ProjectChosen /\ ProjectServer /\ ProjectCalls
      /\ \A r \in projectsCalls : r.op # "delete"
  BY ProjectStays DEF ProjectInv, ProjectAlone
<1>2. ASSUME runbook' = runbook PROVE Project!RunbookByChoice
  BY <1>2 DEF Project!RunbookByChoice
<1>3. ASSUME NEW r \in projectsCalls, NEW n \in ProjectNames, Project!CreateProject(r, n)
      PROVE  Project!RunbookByChoice
  <2>1. runbook' = [runbook EXCEPT ![r.of] = NoText] /\ r.of \notin DOMAIN projects
    BY <1>3 DEF Project!CreateProject
  <2>2. \A p \in DOMAIN projects : runbook'[p] = runbook[p]
    BY <1>1, <2>1 DEF ProjectServer
  <2> QED
    BY <2>2 DEF Project!RunbookByChoice
<1>4. ASSUME NEW r \in projectsCalls, Project!UpdateProjectRunbook(r) PROVE Project!RunbookByChoice
  <2>1. runbook' = [runbook EXCEPT ![r.of] = r.body.text] /\ r.op = "save" /\ r.pc = "runbook"
    BY <1>4 DEF Project!UpdateProjectRunbook
  <2> SUFFICES ASSUME NEW p \in DOMAIN projects \cap DOMAIN projects', runbook'[p] # runbook[p]
               PROVE  \E q \in projectsCalls : q.op = "save" /\ q.of = p /\ q.body.touched
    BY DEF Project!RunbookByChoice
  <2>2. p \in ProjectIds
    BY <1>1 DEF ProjectServer
  <2>3. p = r.of /\ r.body.text # runbook[p]
    BY <1>1, <2>1, <2>2 DEF ProjectServer
  <2>4. r.body.touched
    BY <1>1, <2>1, <2>3 DEF ProjectChosen
  <2> QED
    BY <2>1, <2>3, <2>4
<1>5. ASSUME NEW r \in projectsCalls PROVE ~Project!DeleteProject(r)
  BY <1>1, <1>5 DEF Project!DeleteProject
<1>6. ASSUME NEW p \in ProjectIds, NEW t \in Project!Contents PROVE ~Project!OtherWritesRunbook(p, t)
  BY DEF Project!OtherWritesRunbook, ProjectAlone
<1>7. \/ \E r \in projectsCalls : \/ Project!UpdateProjectRunbook(r)
                                  \/ \E n \in ProjectNames : Project!CreateProject(r, n)
      \/ runbook' = runbook
  BY <1>5, <1>6 DEF Project!Next, Project!vars, Project!CreateIssue, Project!UpdateProject,
    Project!CountIssues, Project!ListProjects, Project!RunbookLoads, Project!RunbookFails,
    Project!OpenSettings, Project!CloseSettings, Project!PressSave, Project!PressDelete, Project!TypeName,
    Project!TypeRunbook, Project!ShowError, Project!Saved, Project!SaveEnds, Project!Deleted,
    Project!Created, Project!OpenCreate, Project!CloseCreate, Project!PickFolder, Project!FolderPicked,
    Project!TypeUrl, Project!SubmitCreate, Project!server
<1> QED
  BY <1>2, <1>3, <1>4, <1>7

-----------------------------------------------------------------------------
\* Variables have their types; a project is created of one source; a save never
\* writes a runbook that was neither loaded of its project nor typed for it, except
\* that settings whose runbook could not be loaded are saved as they are (the
\* dialog of projects-page.tsx, the Save button and the effect that fills the
\* editor); and no project with issues is deleted, except that Postgres deletes one
\* that was given an issue after its issues were counted (DeleteProject).
THEOREM ProjectsSaveWhatIsShown ==
    ASSUME Project!ProjectsAssumption
    PROVE  Project!Spec => [](/\ Project!TypeOK /\ Project!OneSource /\ Project!RunbookKnown
                              /\ Project!OnlyUnusedDeleted)
<1>1. Project!Init => ProjectInv
  BY ProjectInit
<1>2. ProjectInv /\ [Project!Next]_(Project!vars) => ProjectInv'
  BY ProjectStep
<1>3. ProjectInv =>
        Project!TypeOK /\ Project!OneSource /\ Project!RunbookKnown /\ Project!OnlyUnusedDeleted
  BY ProjectSound
<1> QED
  BY <1>1, <1>2, <1>3, PTL DEF Project!Spec

\* When nobody else writes it, no project is deleted and every load and save is
\* answered, a runbook changes only by a save of somebody who has typed something
\* into its editor, however often settings are opened and saved (PressSave, Saved).
THEOREM RunbooksChangeByChoice ==
    ASSUME Project!ProjectsAssumption, ProjectAlone
    PROVE  Project!Spec => [][Project!RunbookByChoice]_(Project!vars)
<1>1. Project!Init => ProjectInv
  BY ProjectInit
<1>2. ProjectInv /\ [Project!Next]_(Project!vars) => ProjectInv' /\ Project!RunbookByChoice
  BY ProjectStep, ProjectRunbooks
<1> QED
  BY <1>1, <1>2, PTL DEF Project!Spec

-----------------------------------------------------------------------------
(* Skills.                                                                 *)

CONSTANTS SkillIds, Builtins, Slugs, SkillNames, SkillTexts, SkillsDatabase, SkillsDoes,
    SkillsAsks, SkillsOthers, SkillsEdits, SkillsFails
VARIABLES skills, skillsListed, modal, skillsCalls, known, skillsBudget

Skill == INSTANCE Skills WITH Ids <- SkillIds, Names <- SkillNames, Texts <- SkillTexts,
    Database <- SkillsDatabase, Does <- SkillsDoes, MaxAsks <- SkillsAsks,
    MaxOthers <- SkillsOthers, MaxEdits <- SkillsEdits, MaxFails <- SkillsFails,
    listed <- skillsListed, calls <- skillsCalls, budget <- skillsBudget

\* An instance counts as this module does.
LEMMA SameCardinality ==
    ASSUME NEW S
    PROVE  Skill!Cardinality(S) = Cardinality(S)
BY DEF Cardinality, Skill!Cardinality

SkillRecord == [slug: Slugs \cup {None}, live: BOOLEAN, enabled: BOOLEAN,
                name: SkillNames \cup {None}, text: SkillTexts \cup {None}]
SkillBody == [slug: Slugs \cup {None}, name: SkillNames \cup {None}, text: SkillTexts \cup {None},
              enabled: BOOLEAN \cup {None}]
SkillOps == {"update", "toggle", "delete", "duplicate", "load", "create"}
SkillRequest == [op: SkillOps, of: SkillIds \cup {None}, body: SkillBody, ours: BOOLEAN,
                 kept: BOOLEAN, was: SkillRecord, pc: {"sent", "read", "ok", "refetch"}]
SkillModal == [mode: {"closed", "create", "edit", "view"}, of: SkillIds \cup {None},
               slug: Slugs \cup {None}, name: SkillNames \cup {None},
               text: SkillTexts \cup {None}, enabled: BOOLEAN]

\* What a request carries, by its kind and how far it is.
SkillCall(r) ==
    /\ r \in SkillRequest
    /\ r.op # "create" => r.of \in SkillIds
    /\ r.op = "create" => r.of = None
    /\ r.op = "create" \/ (r.op = "duplicate" /\ r.pc = "read") =>
         r.body.slug \in Slugs /\ r.body.name \in SkillNames /\ r.body.enabled \in BOOLEAN
    /\ r.op \in {"update", "toggle", "delete"} /\ r.pc = "read" => r.was.name \in SkillNames
    /\ r.op = "toggle" => r.body.name = None /\ r.body.text = None
    /\ r.op = "update" => (r.body.name = None <=> r.body.text = None)

\* The page waits for whatever it asked but saves, and has one such request.
SkillOwn(r) == r.ours /\ r.op \notin {"create", "update"}
SkillsAlone ==
    /\ \A r \in skillsCalls : SkillOwn(r) => r.kept
    /\ \A r, q \in skillsCalls : SkillOwn(r) /\ SkillOwn(q) => r = q

\* The memory store carries out one operation at a time, on what it has read.
SkillsLocked == ~SkillsDatabase =>
    /\ \A r, q \in skillsCalls : r.pc = "read" /\ q.pc = "read" => r = q
    /\ \A r \in skillsCalls : r.pc = "read" /\ r.op \in {"update", "toggle"} => r.was = skills[r.of]

SkillTypes ==
    /\ skills \in [SkillIds -> SkillRecord]
    /\ \A k \in SkillIds : /\ skills[k].enabled => skills[k].live
                           /\ skills[k].live => skills[k].slug \in Slugs /\ skills[k].name \in SkillNames
    /\ DOMAIN skillsListed \subseteq SkillIds
    /\ modal \in SkillModal
    /\ modal.mode = "edit" => modal.of \in SkillIds \ Builtins
    /\ modal.mode = "create" => modal.of = None
    /\ known \in [SkillIds \cup {None} -> SUBSET (SkillTexts \cup {None})]

\* The text in the form is known of the skill it is of.
SkillsKnown ==
    /\ \A k \in SkillIds \cup {None} : None \in known[k]
    /\ modal.mode \in {"create", "edit"} => modal.text \in known[modal.of]
    /\ Skill!SavesOwn

SkillsInv ==
    /\ SkillTypes /\ \A r \in skillsCalls : SkillCall(r)
    /\ SkillsAlone /\ SkillsLocked /\ SkillsKnown /\ Skill!SlugsDiffer

LEMMA SkillInit ==
    ASSUME Skill!SkillsAssumption, Skill!Init
    PROVE  SkillsInv
<1>1. skillsCalls = {} /\ modal = Skill!ClosedModal /\ skillsListed = <<>>
      /\ known = [k \in SkillIds \cup {None} |-> {None}]
  BY DEF Skill!Init
<1>2. DOMAIN skillsListed = {}
  <2>1. <<>> \in Seq(SkillIds) /\ Len(<<>>) = 0
    OBVIOUS
  <2> QED
    BY <1>1, <2>1
<1>3. PICK s \in [SkillIds -> Slugs], X \in SUBSET SkillIds, t \in SkillTexts, n \in SkillNames :
        /\ Builtins \subseteq X /\ \A j, k \in X : j # k => s[j] # s[k]
        /\ skills = [k \in SkillIds |-> IF k \in X
             THEN [slug |-> s[k], live |-> TRUE, enabled |-> TRUE, name |-> n, text |-> t]
             ELSE Skill!Absent]
  BY DEF Skill!Init
<1>4. skills \in [SkillIds -> SkillRecord]
  BY <1>3 DEF SkillRecord, Skill!Absent
<1>5. \A k \in SkillIds \ X : ~skills[k].live /\ ~skills[k].enabled
  BY <1>3 DEF Skill!Absent
<1>6. \A k \in X : skills[k].live /\ skills[k].slug = s[k] /\ s[k] \in Slugs
                  /\ skills[k].name \in SkillNames
  BY <1>3
<1>7. modal \in SkillModal /\ modal.mode = "closed"
  BY <1>1 DEF Skill!ClosedModal, SkillModal
<1>8. known \in [SkillIds \cup {None} -> SUBSET (SkillTexts \cup {None})]
  BY <1>1
<1>9. SkillTypes
  BY <1>2, <1>4, <1>5, <1>6, <1>7, <1>8 DEF SkillTypes
<1>10. Skill!SlugsDiffer
  BY <1>3, <1>5, <1>6 DEF Skill!SlugsDiffer
<1>11. SkillsKnown
  <2>1. \A k \in SkillIds \cup {None} : known[k] = {None}
    BY <1>1
  <2> QED
    BY <1>1, <1>7, <2>1 DEF SkillsKnown, Skill!SavesOwn
<1> QED
  BY <1>1, <1>9, <1>10, <1>11 DEF SkillsInv, SkillsAlone, SkillsLocked

\* Some requests go, and one at most comes or moves on: the page's own stay alone.
LEMMA SkillsCallsStep ==
    ASSUME SkillsInv, SkillTypes', NEW r,
           skillsCalls' \subseteq skillsCalls \cup {r},
           SkillCall(r),
           \A k \in SkillIds \cup {None} : known[k] \subseteq known'[k],
           r.ours /\ r.op \in {"create", "update"} => r.body.text \in known'[r.of],
           SkillOwn(r) => r.kept /\ \A q \in skillsCalls' : SkillOwn(q) => q = r,
           r.pc = "read" /\ ~SkillsDatabase =>
               /\ \A q \in skillsCalls' : q.pc = "read" => q = r
               /\ r.op \in {"update", "toggle"} => r.was = skills'[r.of],
           \/ skills' = skills
           \/ ~SkillsDatabase => \A q \in skillsCalls' : q.pc # "read",
           modal'.mode \in {"create", "edit"} => modal'.text \in known'[modal'.of],
           Skill!SlugsDiffer'
    PROVE  SkillsInv'
<1>1. \A q \in skillsCalls' : SkillCall(q)
  BY DEF SkillsInv
<1>2. SkillsAlone'
  BY DEF SkillsInv, SkillsAlone, SkillOwn
<1>3. SkillsLocked'
  <2> SUFFICES ASSUME ~SkillsDatabase
               PROVE  /\ \A p, q \in skillsCalls' : p.pc = "read" /\ q.pc = "read" => p = q
                      /\ \A p \in skillsCalls' : p.pc = "read" /\ p.op \in {"update", "toggle"} =>
                           p.was = skills'[p.of]
    BY DEF SkillsLocked
  <2> QED
    BY DEF SkillsInv, SkillsLocked
<1>4. \A k \in SkillIds \cup {None} : None \in known'[k]
  BY DEF SkillsInv, SkillsKnown
<1>5. Skill!SavesOwn'
  <2> SUFFICES ASSUME NEW q \in skillsCalls', q.ours, q.op \in {"create", "update"}
               PROVE  q.body.text \in known'[q.of]
    BY DEF Skill!SavesOwn
  <2>1. CASE q = r
    BY <2>1
  <2>2. CASE q # r
    <3>1. q \in skillsCalls
      BY <2>2
    <3>2. q.of \in SkillIds \cup {None}
      BY <3>1 DEF SkillsInv, SkillCall, SkillRequest
    <3>3. q.body.text \in known[q.of]
      BY <3>1 DEF SkillsInv, SkillsKnown, Skill!SavesOwn
    <3> QED
      BY <3>2, <3>3
  <2> QED
    BY <2>1, <2>2
<1>6. SkillsKnown'
  BY <1>4, <1>5 DEF SkillsKnown
<1> QED
  BY <1>1, <1>2, <1>3, <1>6 DEF SkillsInv

LEMMA SkillsSame ==
    ASSUME SkillsInv, UNCHANGED <<skills, skillsListed, modal, known>>
    PROVE  /\ SkillTypes' /\ Skill!SlugsDiffer'
           /\ \A k \in SkillIds \cup {None} : known[k] \subseteq known'[k]
           /\ modal'.mode \in {"create", "edit"} => modal'.text \in known'[modal'.of]
BY DEF SkillsInv, SkillTypes, SkillsKnown, Skill!SlugsDiffer

\* A request is sent.
LEMMA SkillsSent ==
    ASSUME SkillsInv, UNCHANGED <<skills, skillsListed, modal, known>>,
           NEW op \in SkillOps, NEW of \in SkillIds \cup {None}, NEW body \in SkillBody,
           NEW ours \in BOOLEAN,
           skillsCalls' = skillsCalls \cup {Skill!Request(op, of, body, ours)},
           SkillCall(Skill!Request(op, of, body, ours)),
           ours /\ op \in {"create", "update"} => body.text \in known[of],
           ours /\ op \notin {"create", "update"} =>
               \A q \in skillsCalls : ~(q.ours /\ q.kept)
    PROVE  SkillsInv'
<1> DEFINE r == Skill!Request(op, of, body, ours)
<1>1. r.op = op /\ r.of = of /\ r.body = body /\ r.ours = ours /\ r.kept = TRUE /\ r.pc = "sent"
  BY DEF Skill!Request
<1> HIDE DEF r
<1>2. SkillOwn(r) => \A q \in skillsCalls' : SkillOwn(q) => q = r
  BY <1>1 DEF SkillOwn, SkillsInv, SkillsAlone, r
<1> QED
  BY <1>1, <1>2, SkillsSame, SkillsCallsStep DEF r

\* A request moves on, and what it is does not change.
LEMMA SkillsMoves ==
    ASSUME SkillsInv, SkillTypes', Skill!SlugsDiffer', NEW r \in skillsCalls, NEW m,
           skillsCalls' = (skillsCalls \ {r}) \cup {m}, SkillCall(m),
           m.op = r.op, m.of = r.of, m.ours = r.ours, m.kept = r.kept,
           m.op \in {"create", "update"} => m.body = r.body,
           \A k \in SkillIds \cup {None} : known[k] \subseteq known'[k],
           modal'.mode \in {"create", "edit"} => modal'.text \in known'[modal'.of],
           m.pc = "read" => Skill!Free(r)
                /\ (~SkillsDatabase /\ m.op \in {"update", "toggle"} => m.was = skills'[m.of]),
           \/ skills' = skills
           \/ r.pc = "read" /\ m.pc # "read"
    PROVE  SkillsInv'
<1>1. m.ours /\ m.op \in {"create", "update"} => m.body.text \in known'[m.of]
  BY DEF SkillsInv, SkillsKnown, Skill!SavesOwn, SkillCall, SkillRequest
<1>2. SkillOwn(m) => m.kept /\ \A q \in skillsCalls' : SkillOwn(q) => q = m
  BY DEF SkillsInv, SkillsAlone, SkillOwn
<1>3. m.pc = "read" /\ ~SkillsDatabase =>
        /\ \A q \in skillsCalls' : q.pc = "read" => q = m
        /\ m.op \in {"update", "toggle"} => m.was = skills'[m.of]
  BY DEF Skill!Free
<1>4. skills' = skills \/ (~SkillsDatabase => \A q \in skillsCalls' : q.pc # "read")
  BY DEF SkillsInv, SkillsLocked
<1> QED
  BY <1>1, <1>2, <1>3, <1>4, SkillsCallsStep

\* A request is gone.
LEMMA SkillsLeave ==
    ASSUME SkillsInv, SkillTypes', UNCHANGED skills, NEW r \in skillsCalls,
           skillsCalls' = skillsCalls \ {r},
           \A k \in SkillIds \cup {None} : known[k] \subseteq known'[k],
           modal'.mode \in {"create", "edit"} => modal'.text \in known'[modal'.of]
    PROVE  SkillsInv'
<1>1. \A q \in skillsCalls' : q \in skillsCalls
  OBVIOUS
<1>2. \A q \in skillsCalls' : SkillCall(q)
  BY <1>1 DEF SkillsInv
<1>3. SkillsAlone'
  BY <1>1 DEF SkillsInv, SkillsAlone, SkillOwn
<1>4. SkillsLocked'
  BY <1>1 DEF SkillsInv, SkillsLocked
<1>5. SkillsKnown'
  <2>1. \A k \in SkillIds \cup {None} : None \in known'[k]
    BY DEF SkillsInv, SkillsKnown
  <2>2. Skill!SavesOwn'
    BY <1>1, <1>2 DEF SkillsInv, SkillsKnown, Skill!SavesOwn, SkillCall, SkillRequest
  <2> QED
    BY <2>1, <2>2 DEF SkillsKnown
<1>6. Skill!SlugsDiffer'
  BY DEF SkillsInv, Skill!SlugsDiffer
<1> QED
  BY <1>2, <1>3, <1>4, <1>5, <1>6 DEF SkillsInv

-----------------------------------------------------------------------------
LEMMA SkillsOthersStep ==
    ASSUME SkillsInv, Skill!SkillsAssumption,
           \/ \E k \in SkillIds, n \in SkillNames \cup {None}, t \in SkillTexts \cup {None},
                 e \in BOOLEAN : Skill!OthersUpdate(k, n, t, e)
           \/ \E k \in SkillIds : Skill!OthersDelete(k)
           \/ \E s \in Slugs, n \in SkillNames, t \in SkillTexts : Skill!OthersCreate(s, n, t)
    PROVE  SkillsInv'
<1>1. ASSUME NEW k \in SkillIds, NEW n \in SkillNames \cup {None}, NEW t \in SkillTexts \cup {None},
             NEW e \in BOOLEAN, Skill!OthersUpdate(k, n, t, e)
      PROVE  SkillsInv'
  <2> DEFINE body == [Skill!Nothing EXCEPT !.name = n, !.text = t, !.enabled = e]
  <2>1. body \in SkillBody /\ body.name = n /\ body.text = t
    BY DEF SkillBody, Skill!Nothing
  <2>2. skillsCalls' = skillsCalls \cup {Skill!Request("update", k, body, FALSE)}
        /\ UNCHANGED <<skills, skillsListed, modal, known>> /\ (n = None <=> t = None)
    BY <1>1 DEF Skill!OthersUpdate
  <2> HIDE DEF body
  <2>3. SkillCall(Skill!Request("update", k, body, FALSE))
    BY <2>1, <2>2 DEF SkillCall, SkillRequest, SkillOps, Skill!Request, Skill!Absent, SkillRecord
  <2> QED
    BY <2>1, <2>2, <2>3, SkillsSent DEF SkillOps
<1>2. ASSUME NEW k \in SkillIds, Skill!OthersDelete(k)
      PROVE  SkillsInv'
  <2>1. Skill!Nothing \in SkillBody
    BY DEF SkillBody, Skill!Nothing
  <2>2. skillsCalls' = skillsCalls \cup {Skill!Request("delete", k, Skill!Nothing, FALSE)}
        /\ UNCHANGED <<skills, skillsListed, modal, known>>
    BY <1>2 DEF Skill!OthersDelete
  <2>3. SkillCall(Skill!Request("delete", k, Skill!Nothing, FALSE))
    BY <2>1 DEF SkillCall, SkillRequest, SkillOps, Skill!Request, Skill!Absent, SkillRecord
  <2> QED
    BY <2>1, <2>2, <2>3, SkillsSent DEF SkillOps
<1>3. ASSUME NEW s \in Slugs, NEW n \in SkillNames, NEW t \in SkillTexts, Skill!OthersCreate(s, n, t)
      PROVE  SkillsInv'
  <2> DEFINE body == [slug |-> s, name |-> n, text |-> t, enabled |-> TRUE]
  <2>1. body \in SkillBody /\ body.name = n /\ body.text = t /\ body.slug = s /\ body.enabled = TRUE
    BY DEF SkillBody
  <2>2. skillsCalls' = skillsCalls \cup {Skill!Request("create", None, body, FALSE)}
        /\ UNCHANGED <<skills, skillsListed, modal, known>>
    BY <1>3 DEF Skill!OthersCreate
  <2> HIDE DEF body
  <2>3. SkillCall(Skill!Request("create", None, body, FALSE))
    BY <2>1 DEF SkillCall, SkillRequest, SkillOps, Skill!Request, Skill!Absent, SkillRecord
  <2> QED
    BY <2>1, <2>2, <2>3, SkillsSent DEF SkillOps
<1> QED
  BY <1>1, <1>2, <1>3

LEMMA SkillsAskStep ==
    ASSUME SkillsInv, Skill!SkillsAssumption,
           \/ \E k \in SkillIds : \/ Skill!OpenSkillSettings(k) \/ Skill!Duplicate(k)
                                  \/ Skill!Delete(k) \/ Skill!ToggleEnabled(k)
           \/ Skill!SubmitSkill
    PROVE  SkillsInv'
<1>1. Skill!Nothing \in SkillBody
  BY DEF SkillBody, Skill!Nothing
<1>2. ASSUME NEW k \in SkillIds, NEW op \in {"load", "duplicate", "delete"}, Skill!Offered(k),
             Skill!Ask(op, k, Skill!Nothing), UNCHANGED <<skills, skillsListed, modal, known>>
      PROVE  SkillsInv'
  <2>1. skillsCalls' = skillsCalls \cup {Skill!Request(op, k, Skill!Nothing, TRUE)}
    BY <1>2 DEF Skill!Ask
  <2>2. SkillCall(Skill!Request(op, k, Skill!Nothing, TRUE))
    BY <1>1 DEF SkillCall, SkillRequest, SkillOps, Skill!Request, Skill!Absent, SkillRecord
  <2> QED
    BY <1>1, <1>2, <2>1, <2>2, SkillsSent DEF SkillOps, Skill!Offered, Skill!IsMutating
<1>3. ASSUME NEW k \in SkillIds, Skill!ToggleEnabled(k)
      PROVE  SkillsInv'
  <2> DEFINE body == Skill!ToggleInput(skillsListed[k])
  <2>1. body \in SkillBody /\ body.name = None /\ body.text = None
    BY DEF SkillBody, Skill!ToggleInput, Skill!Nothing
  <2>2. skillsCalls' = skillsCalls \cup {Skill!Request("toggle", k, body, TRUE)}
        /\ UNCHANGED <<skills, skillsListed, modal, known>> /\ Skill!Offered(k)
    BY <1>3 DEF Skill!ToggleEnabled, Skill!Ask
  <2> HIDE DEF body
  <2>3. SkillCall(Skill!Request("toggle", k, body, TRUE))
    BY <2>1 DEF SkillCall, SkillRequest, SkillOps, Skill!Request, Skill!Absent, SkillRecord
  <2> QED
    BY <2>1, <2>2, <2>3, SkillsSent DEF SkillOps, Skill!Offered, Skill!IsMutating
<1>4. ASSUME Skill!SubmitSkill
      PROVE  SkillsInv'
  <2> DEFINE body == Skill!Input
  <2>1. modal \in SkillModal /\ modal.slug # None /\ modal.name # None /\ modal.text # None
        /\ modal.mode \in {"create", "edit"}
    BY <1>4 DEF Skill!SubmitSkill, SkillsInv, SkillTypes
  <2>2. body \in SkillBody /\ body.name = modal.name /\ body.text = modal.text /\ body.slug = modal.slug
        /\ body.enabled = modal.enabled
    BY <2>1 DEF SkillBody, Skill!Input, SkillModal
  <2>3. UNCHANGED <<skills, skillsListed, modal, known>>
    BY <1>4 DEF Skill!SubmitSkill
  <2>4. modal.text \in known[modal.of]
    BY <2>1 DEF SkillsInv, SkillsKnown
  <2> HIDE DEF body
  <2>5. CASE modal.mode = "create"
    <3>1. skillsCalls' = skillsCalls \cup {Skill!Request("create", None, body, TRUE)} /\ modal.of = None
      BY <1>4, <2>5 DEF Skill!SubmitSkill, Skill!Ask, body, SkillsInv, SkillTypes
    <3>2. SkillCall(Skill!Request("create", None, body, TRUE))
      BY <2>1, <2>2 DEF SkillCall, SkillRequest, SkillOps, Skill!Request, Skill!Absent, SkillRecord, SkillModal
    <3> QED
      BY <2>2, <2>3, <2>4, <3>1, <3>2, SkillsSent DEF SkillOps
  <2>6. CASE modal.mode = "edit"
    <3>1. skillsCalls' = skillsCalls \cup {Skill!Request("update", modal.of, body, TRUE)}
          /\ modal.of \in SkillIds
      BY <1>4, <2>6 DEF Skill!SubmitSkill, Skill!Ask, body, SkillsInv, SkillTypes
    <3>2. SkillCall(Skill!Request("update", modal.of, body, TRUE))
      BY <2>1, <2>2, <3>1 DEF SkillCall, SkillRequest, SkillOps, Skill!Request, Skill!Absent, SkillRecord, SkillModal
    <3> QED
      BY <2>2, <2>3, <2>4, <3>1, <3>2, SkillsSent DEF SkillOps
  <2> QED
    BY <2>1, <2>5, <2>6
<1>5. ASSUME NEW k \in SkillIds, Skill!OpenSkillSettings(k) \/ Skill!Duplicate(k) \/ Skill!Delete(k)
      PROVE  SkillsInv'
  BY <1>2, <1>5 DEF Skill!OpenSkillSettings, Skill!Duplicate, Skill!Delete
<1> QED
  BY <1>3, <1>4, <1>5

\* The store reads for a request.
LEMMA SkillsReadStep ==
    ASSUME SkillsInv, Skill!SkillsAssumption, NEW r \in skillsCalls,
           Skill!ReadSkill(r) \/ Skill!GetSkill(r)
    PROVE  SkillsInv'
<1>1. SkillCall(r) /\ r \in SkillRequest /\ skills \in [SkillIds -> SkillRecord]
      /\ \A k \in SkillIds : skills[k].live => skills[k].slug \in Slugs /\ skills[k].name \in SkillNames
  BY DEF SkillsInv, SkillCall, SkillTypes
<1>2. UNCHANGED <<skills, skillsListed, modal, known>>
  BY DEF Skill!ReadSkill, Skill!GetSkill
<1>3. ASSUME Skill!ReadExisting(r), Skill!Free(r), r.pc = "sent" PROVE SkillsInv'
  <2> DEFINE m == [r EXCEPT !.pc = "read", !.was = skills[r.of]]
  <2>1. m.op = r.op /\ m.of = r.of /\ m.ours = r.ours /\ m.kept = r.kept /\ m.body = r.body
        /\ m.pc = "read" /\ m.was = skills[r.of] /\ r.op \in {"update", "toggle", "delete"}
        /\ skillsCalls' = (skillsCalls \ {r}) \cup {m} /\ r.of \in SkillIds /\ skills[r.of].live
    BY <1>1, <1>3 DEF Skill!ReadExisting, SkillRequest, SkillCall
  <2>2. m \in SkillRequest
    BY <1>1, <2>1 DEF SkillRequest
  <2> HIDE DEF m
  <2>3. SkillCall(m)
    BY <1>1, <2>1, <2>2 DEF SkillCall
  <2> QED
    BY <1>2, <1>3, <2>1, <2>3, SkillsSame, SkillsMoves
<1>4. ASSUME Skill!CheckSlug(r), Skill!Free(r), r.pc = "sent" PROVE SkillsInv'
  <2> DEFINE m == [r EXCEPT !.pc = "read"]
  <2>1. m.op = r.op /\ m.of = r.of /\ m.ours = r.ours /\ m.kept = r.kept /\ m.body = r.body
        /\ m.pc = "read" /\ r.op = "create"
        /\ skillsCalls' = (skillsCalls \ {r}) \cup {m}
    BY <1>1, <1>4 DEF Skill!CheckSlug, Skill!Goes, SkillRequest, SkillCall
  <2>2. m \in SkillRequest
    BY <1>1, <2>1 DEF SkillRequest
  <2> HIDE DEF m
  <2>3. SkillCall(m)
    BY <1>1, <2>1, <2>2 DEF SkillCall
  <2> QED
    BY <1>2, <1>4, <2>1, <2>3, SkillsSame, SkillsMoves
<1>5. ASSUME Skill!CopySource(r), Skill!Free(r), r.pc = "sent" PROVE SkillsInv'
  <2>1. PICK s \in Slugs : skillsCalls' = (skillsCalls \ {r}) \cup
          {[r EXCEPT !.pc = "read", !.body = [slug |-> s, name |-> skills[r.of].name,
                                              text |-> skills[r.of].text, enabled |-> TRUE]]}
    BY <1>5 DEF Skill!CopySource
  <2> DEFINE body == [slug |-> s, name |-> skills[r.of].name, text |-> skills[r.of].text, enabled |-> TRUE]
             m == [r EXCEPT !.pc = "read", !.body = body]
  <2>2. r.op = "duplicate" /\ r.of \in SkillIds /\ skills[r.of].live
    BY <1>1, <1>5 DEF Skill!CopySource, SkillCall
  <2>3. body \in SkillBody /\ body.slug = s /\ body.name \in SkillNames /\ body.enabled = TRUE
    BY <1>1, <2>2 DEF SkillBody, SkillRecord
  <2> HIDE DEF body
  <2>4. m.op = r.op /\ m.of = r.of /\ m.ours = r.ours /\ m.kept = r.kept /\ m.body = body
        /\ m.pc = "read" /\ skillsCalls' = (skillsCalls \ {r}) \cup {m}
    BY <1>1, <2>1 DEF SkillRequest, body
  <2>5. m \in SkillRequest
    BY <1>1, <2>3, <2>4 DEF SkillRequest
  <2> HIDE DEF m
  <2>6. SkillCall(m)
    BY <1>1, <2>2, <2>3, <2>4, <2>5 DEF SkillCall
  <2> QED
    BY <1>2, <1>5, <2>2, <2>4, <2>6, SkillsSame, SkillsMoves
<1>6. ASSUME Skill!GetSkill(r) PROVE SkillsInv'
  <2> DEFINE m == [r EXCEPT !.pc = "ok", !.was = skills[r.of]]
  <2>1. m.op = r.op /\ m.of = r.of /\ m.ours = r.ours /\ m.kept = r.kept /\ m.body = r.body
        /\ m.pc = "ok" /\ m.was = skills[r.of] /\ r.op = "load"
        /\ skillsCalls' = (skillsCalls \ {r}) \cup {m} /\ r.of \in SkillIds
    BY <1>1, <1>6 DEF Skill!GetSkill, SkillRequest, SkillCall
  <2>2. m \in SkillRequest
    BY <1>1, <2>1 DEF SkillRequest
  <2> HIDE DEF m
  <2>3. SkillCall(m)
    BY <1>1, <2>1, <2>2 DEF SkillCall
  <2> QED
    BY <1>2, <2>1, <2>3, SkillsSame, SkillsMoves
<1> QED
  BY <1>3, <1>4, <1>5, <1>6 DEF Skill!ReadSkill

\* The store writes for a request: it goes on to "ok".
LEMMA SkillsWritten ==
    ASSUME SkillsInv, NEW r \in skillsCalls, r.pc = "read", Skill!Goes(r, "ok"),
           UNCHANGED <<skillsListed, modal, known>>, SkillTypes', Skill!SlugsDiffer'
    PROVE  SkillsInv'
<1>1. SkillCall(r) /\ r \in SkillRequest
  BY DEF SkillsInv, SkillCall
<1> DEFINE m == [r EXCEPT !.pc = "ok"]
<1>2. m.op = r.op /\ m.of = r.of /\ m.ours = r.ours /\ m.kept = r.kept /\ m.body = r.body
      /\ m.pc = "ok" /\ skillsCalls' = (skillsCalls \ {r}) \cup {m}
  BY <1>1 DEF Skill!Goes, SkillRequest
<1>3. m \in SkillRequest
  BY <1>1 DEF SkillRequest
<1> HIDE DEF m
<1>4. SkillCall(m)
  BY <1>1, <1>2, <1>3 DEF SkillCall
<1>5. /\ \A k \in SkillIds \cup {None} : known[k] \subseteq known'[k]
      /\ modal'.mode \in {"create", "edit"} => modal'.text \in known'[modal'.of]
  BY DEF SkillsInv, SkillsKnown
<1> QED
  BY <1>2, <1>4, <1>5, SkillsMoves

LEMMA SkillsWriteStep ==
    ASSUME SkillsInv, Skill!SkillsAssumption, NEW r \in skillsCalls,
           Skill!UpdateSkill(r) \/ Skill!DeleteSkill(r) \/ Skill!CreateSkill(r)
    PROVE  SkillsInv'
<1>1. SkillCall(r) /\ r \in SkillRequest /\ skills \in [SkillIds -> SkillRecord]
  BY DEF SkillsInv, SkillCall, SkillTypes
<1>2. UNCHANGED <<skillsListed, modal, known>> /\ r.pc = "read" /\ Skill!Goes(r, "ok")
  BY DEF Skill!UpdateSkill, Skill!DeleteSkill, Skill!CreateSkill
<1>3. SUFFICES /\ skills' \in [SkillIds -> SkillRecord]
               /\ \A k \in SkillIds : /\ skills'[k].enabled => skills'[k].live
                                      /\ skills'[k].live => skills'[k].slug \in Slugs /\ skills'[k].name \in SkillNames
               /\ Skill!SlugsDiffer'
  BY <1>2, SkillsWritten DEF SkillTypes, SkillsInv
<1>4. ASSUME NEW i \in SkillIds, NEW s \in SkillRecord, skills' = [skills EXCEPT ![i] = s],
             s.enabled => s.live, s.live => s.slug \in Slugs /\ s.name \in SkillNames,
             s.live => \A k \in SkillIds \ {i} : skills[k].live => skills[k].slug # s.slug
      PROVE  /\ skills' \in [SkillIds -> SkillRecord]
             /\ \A k \in SkillIds : /\ skills'[k].enabled => skills'[k].live
                                    /\ skills'[k].live => skills'[k].slug \in Slugs /\ skills'[k].name \in SkillNames
             /\ Skill!SlugsDiffer'
  <2>1. \A k \in SkillIds : skills'[k] = IF k = i THEN s ELSE skills[k]
    BY <1>1, <1>4
  <2>2. skills' \in [SkillIds -> SkillRecord]
    BY <1>1, <1>4
  <2> QED
    BY <1>4, <2>1, <2>2 DEF SkillsInv, SkillTypes, Skill!SlugsDiffer
<1>5. CASE Skill!UpdateSkill(r)
  <2> DEFINE i == r.of
             n == Skill!Merge(r.was, r.body).name
             e == Skill!Merge(r.was, r.body).enabled
             t == IF r.body.text = None THEN skills[i].text ELSE r.body.text
             s == [skills[i] EXCEPT !.name = n, !.enabled = e, !.text = t]
  <2>1. r.op \in {"update", "toggle"} /\ i \in SkillIds /\ skills[i].live
    BY <1>1, <1>5 DEF Skill!UpdateSkill, Skill!Updatable, SkillCall
  <2>2. r.was.name \in SkillNames /\ r.was \in SkillRecord /\ r.body \in SkillBody
    BY <1>1, <1>2, <2>1 DEF SkillCall, SkillRequest
  <2>3. Skill!Merge(r.was, r.body).name \in SkillNames /\ Skill!Merge(r.was, r.body).enabled \in BOOLEAN
    BY <2>2 DEF Skill!Merge, SkillRecord, SkillBody
  <2>4. skills[i] \in SkillRecord
    BY <1>1, <2>1
  <2>6. skills' = [skills EXCEPT ![i] = s]
    BY <1>5 DEF Skill!UpdateSkill
  <2>8. t \in SkillTexts \cup {None}
    BY <2>2, <2>4 DEF SkillRecord, SkillBody
  <2>9. n \in SkillNames /\ e \in BOOLEAN
    BY <2>3
  <2> HIDE DEF n, e, t
  <2>5. s \in SkillRecord /\ s.live = skills[i].live /\ s.slug = skills[i].slug /\ s.name \in SkillNames
        /\ (s.enabled => s.live)
    BY <2>1, <2>4, <2>8, <2>9 DEF SkillRecord
  <2>7. skills[i].slug \in Slugs /\ \A k \in SkillIds \ {i} : skills[k].live => skills[k].slug # skills[i].slug
    BY <2>1 DEF SkillsInv, Skill!SlugsDiffer, SkillTypes
  <2> HIDE DEF s, i
  <2> QED
    BY <1>4, <2>1, <2>5, <2>6, <2>7
<1>6. CASE Skill!DeleteSkill(r)
  <2> DEFINE i == r.of
             s == [skills[i] EXCEPT !.live = FALSE, !.enabled = FALSE]
  <2>1. i \in SkillIds
    BY <1>1, <1>6 DEF Skill!DeleteSkill, SkillCall
  <2>2. skills[i] \in SkillRecord
    BY <1>1, <2>1
  <2>3. s \in SkillRecord /\ s.live = FALSE /\ s.enabled = FALSE
    BY <2>2 DEF SkillRecord
  <2>4. skills' = [skills EXCEPT ![i] = s]
    BY <1>1, <1>6, <2>1 DEF Skill!DeleteSkill
  <2> HIDE DEF s, i
  <2> QED
    BY <1>4, <2>1, <2>3, <2>4
<1>7. CASE Skill!CreateSkill(r)
  <2>1. PICK i \in SkillIds \ Builtins :
          skills' = [skills EXCEPT ![i] = [slug |-> r.body.slug, live |-> TRUE, enabled |-> r.body.enabled,
                                           name |-> r.body.name, text |-> r.body.text]]
    BY <1>7 DEF Skill!CreateSkill
  <2> DEFINE s == [slug |-> r.body.slug, live |-> TRUE, enabled |-> r.body.enabled,
                   name |-> r.body.name, text |-> r.body.text]
  <2>2. r.op \in {"create", "duplicate"} /\ ~Skill!SlugTaken(r.body.slug)
    BY <1>7 DEF Skill!CreateSkill, Skill!Insertable
  <2>3. r.body.slug \in Slugs /\ r.body.name \in SkillNames /\ r.body.enabled \in BOOLEAN
    BY <1>1, <1>2, <2>2 DEF SkillCall
  <2>4. r.body \in SkillBody
    BY <1>1 DEF SkillRequest
  <2>5. s \in SkillRecord /\ s.slug = r.body.slug /\ s.live = TRUE /\ s.name = r.body.name
    BY <2>3, <2>4 DEF SkillRecord, SkillBody
  <2>6. \A k \in SkillIds : skills[k].live => skills[k].slug # s.slug
    BY <2>2, <2>5 DEF Skill!SlugTaken
  <2>7. skills' = [skills EXCEPT ![i] = s]
    BY <2>1
  <2> HIDE DEF s
  <2> QED
    BY <1>4, <2>3, <2>5, <2>6, <2>7
<1> QED
  BY <1>5, <1>6, <1>7

\* The page no longer waits for its saves, and the dialog is another.
LEMMA SkillsForgotten ==
    ASSUME SkillsInv, NEW ops \in SUBSET {"create", "update"}, skillsCalls' = Skill!Forget(ops),
           UNCHANGED <<skills, skillsListed, known>>, modal' \in SkillModal,
           modal'.mode \in {"closed", "create"}, modal'.of = None, modal'.text = None
    PROVE  SkillsInv'
<1> DEFINE m(r) == IF r.ours /\ r.op \in ops THEN [r EXCEPT !.kept = FALSE] ELSE r
<1>1. \A q \in skillsCalls' : \E r \in skillsCalls : q = m(r)
  BY DEF Skill!Forget
<1>2. ASSUME NEW r \in skillsCalls
      PROVE  /\ SkillCall(m(r)) /\ m(r).op = r.op /\ m(r).of = r.of /\ m(r).body = r.body
             /\ m(r).ours = r.ours /\ m(r).pc = r.pc /\ m(r).was = r.was
             /\ SkillOwn(r) => m(r) = r
  <2>1. SkillCall(r) /\ r \in SkillRequest
    BY DEF SkillsInv, SkillCall
  <2>2. SkillOwn(r) => m(r) = r
    BY DEF SkillOwn
  <2>3. m(r).op = r.op /\ m(r).of = r.of /\ m(r).body = r.body
        /\ m(r).ours = r.ours /\ m(r).pc = r.pc /\ m(r).was = r.was /\ m(r) \in SkillRequest
    BY <2>1 DEF SkillRequest
  <2> HIDE DEF m
  <2> QED
    BY <2>1, <2>2, <2>3 DEF SkillCall
<1> HIDE DEF m
<1>3. \A q \in skillsCalls' : SkillCall(q)
  BY <1>1, <1>2
<1>4. SkillsAlone'
  <2>1. ASSUME NEW q \in skillsCalls', SkillOwn(q) PROVE q \in skillsCalls
    BY <1>1, <1>2, <2>1 DEF SkillOwn
  <2> QED
    BY <2>1 DEF SkillsInv, SkillsAlone
<1>5. SkillsLocked'
  <2> SUFFICES ASSUME ~SkillsDatabase
               PROVE  /\ \A p, q \in skillsCalls' : p.pc = "read" /\ q.pc = "read" => p = q
                      /\ \A p \in skillsCalls' : p.pc = "read" /\ p.op \in {"update", "toggle"} =>
                           p.was = skills'[p.of]
    BY DEF SkillsLocked
  <2>1. \A p, q \in skillsCalls : p.pc = "read" /\ q.pc = "read" => p = q
    BY DEF SkillsInv, SkillsLocked
  <2>2. \A p \in skillsCalls : p.pc = "read" /\ p.op \in {"update", "toggle"} => p.was = skills[p.of]
    BY DEF SkillsInv, SkillsLocked
  <2>3. \A p, q \in skillsCalls' : p.pc = "read" /\ q.pc = "read" => p = q
    BY <1>1, <1>2, <2>1
  <2> QED
    BY <1>1, <1>2, <2>2, <2>3
<1>6. SkillsKnown'
  <2>1. \A q \in skillsCalls' : q.ours /\ q.op \in {"create", "update"} => q.body.text \in known[q.of]
    BY <1>1, <1>2 DEF SkillsInv, SkillsKnown, Skill!SavesOwn
  <2> QED
    BY <2>1 DEF SkillsInv, SkillsKnown, Skill!SavesOwn
<1>7. SkillTypes' /\ Skill!SlugsDiffer'
  BY DEF SkillsInv, SkillTypes, Skill!SlugsDiffer
<1> QED
  BY <1>3, <1>4, <1>5, <1>6, <1>7 DEF SkillsInv

LEMMA SkillsListing == DOMAIN Skill!Listing \subseteq SkillIds
BY DEF Skill!Listing

LEMMA SkillsPageStep ==
    ASSUME SkillsInv, Skill!SkillsAssumption,
           \/ Skill!ListSkills \/ Skill!OpenCreateSkillModal \/ Skill!CloseSkillModal
           \/ \E s \in Slugs, n \in SkillNames, t \in SkillTexts, e \in BOOLEAN : Skill!Type(s, n, t, e)
    PROVE  SkillsInv'
<1>1. CASE Skill!ListSkills
  BY <1>1, SkillsListing DEF Skill!ListSkills, SkillsInv, SkillTypes, SkillsAlone, SkillsLocked,
    SkillsKnown, Skill!SavesOwn, Skill!SlugsDiffer
<1>2. Skill!ClosedModal \in SkillModal /\ Skill!ClosedModal.mode = "closed"
      /\ Skill!ClosedModal.of = None /\ Skill!ClosedModal.text = None
  BY DEF SkillModal, Skill!ClosedModal
<1>3. CASE Skill!OpenCreateSkillModal
  <2>1. modal' \in SkillModal /\ modal'.mode = "create" /\ modal'.of = None /\ modal'.text = None
    BY <1>2, <1>3 DEF Skill!OpenCreateSkillModal, SkillModal
  <2> QED
    BY <1>3, <2>1, SkillsForgotten DEF Skill!OpenCreateSkillModal
<1>4. CASE Skill!CloseSkillModal
  BY <1>2, <1>4, SkillsForgotten DEF Skill!CloseSkillModal
<1>5. ASSUME NEW s \in Slugs, NEW n \in SkillNames, NEW t \in SkillTexts, NEW e \in BOOLEAN,
             Skill!Type(s, n, t, e)
      PROVE  SkillsInv'
  <2>1. modal \in SkillModal /\ modal.mode \in {"create", "edit"}
        /\ modal' = [modal EXCEPT !.slug = s, !.name = n, !.text = t, !.enabled = e]
        /\ known' = [known EXCEPT ![modal.of] = @ \cup {t}]
        /\ UNCHANGED <<skills, skillsListed, skillsCalls>>
    BY <1>5 DEF Skill!Type, SkillsInv, SkillTypes
  <2>2. modal' \in SkillModal /\ modal'.mode = modal.mode /\ modal'.of = modal.of /\ modal'.text = t
        /\ modal.of \in SkillIds \cup {None}
    BY <2>1 DEF SkillModal
  <2>3. known \in [SkillIds \cup {None} -> SUBSET (SkillTexts \cup {None})]
    BY DEF SkillsInv, SkillTypes
  <2>4. known' \in [SkillIds \cup {None} -> SUBSET (SkillTexts \cup {None})]
        /\ \A k \in SkillIds \cup {None} : known[k] \subseteq known'[k]
        /\ t \in known'[modal.of]
    BY <2>1, <2>2, <2>3
  <2>5. SkillTypes'
    BY <2>1, <2>2, <2>4 DEF SkillsInv, SkillTypes
  <2>6. \A q \in skillsCalls' : q \in skillsCalls /\ q.of \in SkillIds \cup {None}
    BY <2>1 DEF SkillsInv, SkillCall, SkillRequest
  <2>7. SkillsKnown'
    BY <2>2, <2>4, <2>6 DEF SkillsInv, SkillsKnown, Skill!SavesOwn
  <2> QED
    BY <2>1, <2>5, <2>7 DEF SkillsInv, SkillsAlone, SkillsLocked, Skill!SlugsDiffer
<1> QED
  BY <1>1, <1>3, <1>4, <1>5

LEMMA SkillsAnswerStep ==
    ASSUME SkillsInv, Skill!SkillsAssumption, NEW r \in skillsCalls,
           \/ Skill!Fails(r) \/ Skill!SkillLoaded(r) \/ Skill!Done(r) \/ Skill!Refetched(r)
           \/ Skill!OthersDone(r)
    PROVE  SkillsInv'
<1>1. SkillCall(r) /\ r \in SkillRequest
  BY DEF SkillsInv, SkillCall
<1>2. CASE Skill!Fails(r) \/ Skill!OthersDone(r)
  BY <1>2, SkillsSame, SkillsLeave DEF Skill!Fails, Skill!OthersDone
<1>3. CASE Skill!Refetched(r)
  <2>1. SkillTypes'
    BY <1>3, SkillsListing DEF Skill!Refetched, SkillsInv, SkillTypes
  <2>2. modal'.mode \in {"create", "edit"} => modal'.text \in known'[modal'.of]
    BY <1>3 DEF Skill!Refetched, SkillsInv, SkillsKnown
  <2> QED
    BY <1>3, <2>1, <2>2, SkillsLeave DEF Skill!Refetched
<1>4. CASE Skill!SkillLoaded(r)
  <2>1. r.of \in SkillIds /\ r.was \in SkillRecord
    BY <1>1, <1>4 DEF Skill!SkillLoaded, SkillCall, SkillRequest
  <2>2. modal' = Skill!Shown(r.of, r.was) /\ known' = [known EXCEPT ![r.of] = @ \cup {r.was.text}]
        /\ UNCHANGED <<skills, skillsListed>> /\ skillsCalls' = skillsCalls \ {r}
    BY <1>4 DEF Skill!SkillLoaded
  <2>3. /\ modal' \in SkillModal /\ modal'.of = r.of /\ modal'.text = r.was.text
        /\ modal'.mode \in {"view", "edit"} /\ (modal'.mode = "edit" => r.of \notin Builtins)
    <3>1. modal' = [mode |-> IF r.of \in Builtins THEN "view" ELSE "edit", of |-> r.of,
                    slug |-> r.was.slug, name |-> r.was.name, text |-> r.was.text,
                    enabled |-> r.was.enabled]
      BY <2>2 DEF Skill!Shown
    <3>2. /\ r.was.slug \in Slugs \cup {None} /\ r.was.name \in SkillNames \cup {None}
          /\ r.was.text \in SkillTexts \cup {None} /\ r.was.enabled \in BOOLEAN
      BY <2>1 DEF SkillRecord
    <3> QED
      BY <2>1, <3>1, <3>2 DEF SkillModal
  <2>4. known \in [SkillIds \cup {None} -> SUBSET (SkillTexts \cup {None})]
        /\ r.was.text \in SkillTexts \cup {None}
    BY <2>1 DEF SkillsInv, SkillTypes, SkillRecord
  <2>5. known' \in [SkillIds \cup {None} -> SUBSET (SkillTexts \cup {None})]
        /\ \A k \in SkillIds \cup {None} : known[k] \subseteq known'[k]
        /\ r.was.text \in known'[r.of]
    BY <2>1, <2>2, <2>4
  <2>6. SkillTypes'
    BY <2>1, <2>2, <2>3, <2>5 DEF SkillsInv, SkillTypes
  <2> QED
    BY <2>2, <2>3, <2>5, <2>6, SkillsLeave
<1>5. CASE Skill!Done(r)
  <2> DEFINE m == [r EXCEPT !.pc = "refetch"]
  <2>1. m.op = r.op /\ m.of = r.of /\ m.ours = r.ours /\ m.kept = r.kept /\ m.body = r.body
        /\ m.pc = "refetch" /\ skillsCalls' = (skillsCalls \ {r}) \cup {m}
    BY <1>1, <1>5 DEF Skill!Done, Skill!Goes, SkillRequest
  <2>2. m \in SkillRequest
    BY <1>1 DEF SkillRequest
  <2> HIDE DEF m
  <2>3. SkillCall(m)
    BY <1>1, <2>1, <2>2 DEF SkillCall
  <2>4. Skill!ClosedModal \in SkillModal /\ Skill!ClosedModal.mode = "closed"
    BY DEF SkillModal, Skill!ClosedModal
  <2>5. UNCHANGED <<skills, skillsListed, known>> /\ modal' \in {modal, Skill!ClosedModal}
    BY <1>5 DEF Skill!Done
  <2>6. SkillTypes' /\ Skill!SlugsDiffer'
    BY <2>4, <2>5 DEF SkillsInv, SkillTypes, Skill!SlugsDiffer
  <2>7. /\ \A k \in SkillIds \cup {None} : known[k] \subseteq known'[k]
        /\ modal'.mode \in {"create", "edit"} => modal'.text \in known'[modal'.of]
    BY <2>4, <2>5 DEF SkillsInv, SkillsKnown
  <2> QED
    BY <2>1, <2>3, <2>5, <2>6, <2>7, SkillsMoves
<1> QED
  BY <1>2, <1>3, <1>4, <1>5

LEMMA SkillsStep ==
    ASSUME SkillsInv, Skill!SkillsAssumption, [Skill!Next]_(Skill!vars)
    PROVE  SkillsInv'
<1>1. CASE UNCHANGED Skill!vars
  BY <1>1 DEF Skill!vars, SkillsInv, SkillTypes, SkillsAlone, SkillsLocked, SkillsKnown,
    Skill!SavesOwn, Skill!SlugsDiffer
<1> QED
  BY <1>1, SkillsOthersStep, SkillsAskStep, SkillsReadStep, SkillsWriteStep, SkillsPageStep,
    SkillsAnswerStep DEF Skill!Next

LEMMA SkillsSound ==
    ASSUME SkillsInv, Skill!SkillsAssumption
    PROVE  Skill!TypeOK /\ Skill!SavesOwn /\ Skill!SlugsDiffer
<1>1. ASSUME NEW op \in {"load", "toggle", "delete", "duplicate"}
      PROVE  Skill!Cardinality({r \in skillsCalls : r.op = op /\ r.ours}) <= 1
  <2> DEFINE S == {r \in skillsCalls : r.op = op /\ r.ours}
  <2>1. \A r, q \in S : r = q
    BY <1>1 DEF SkillsInv, SkillsAlone, SkillOwn
  <2> HIDE DEF S
  <2>2. Skill!Cardinality(S) <= 1
    BY <2>1, AtMostOne, SameCardinality
  <2> QED
    BY <2>2 DEF S
<1>2. Skill!TypeOK
  <2>1. \A k \in SkillIds : skills[k] \in SkillRecord
    BY DEF SkillsInv, SkillTypes
  <2>2. \A k \in SkillIds :
          /\ skills[k].slug \in Slugs \cup {None} /\ skills[k].text \in SkillTexts \cup {None}
          /\ skills[k].enabled => skills[k].live
          /\ skills[k].live => skills[k].slug # None /\ skills[k].name \in SkillNames
    BY <2>1 DEF SkillsInv, SkillTypes, SkillRecord, Skill!SkillsAssumption
  <2>3. modal.mode \in {"closed", "create", "edit", "view"}
    BY DEF SkillsInv, SkillTypes, SkillModal
  <2>4. \A r \in skillsCalls : r.pc \in {"sent", "read", "ok", "refetch"}
    BY DEF SkillsInv, SkillCall, SkillRequest
  <2>5. DOMAIN skillsListed \subseteq SkillIds /\ (modal.mode = "edit" => modal.of \in SkillIds \ Builtins)
    BY DEF SkillsInv, SkillTypes
  <2> QED
    BY <1>1, <2>2, <2>3, <2>4, <2>5 DEF Skill!TypeOK
<1> QED
  BY <1>2 DEF SkillsInv, SkillsKnown

\* What a step leaves as it is, or changes to what was sent.
LEMMA SkillsDeletedStay ==
    ASSUME SkillsInv, [Skill!Next]_(Skill!vars)
    PROVE  Skill!DeletedStays
<1> SUFFICES ASSUME NEW k \in SkillIds, skills[k].slug # None, ~skills[k].live, skills' # skills
             PROVE  skills'[k] = skills[k]
  BY DEF Skill!DeletedStays
<1>1. skills \in [SkillIds -> SkillRecord] /\ \A r \in skillsCalls : SkillCall(r)
  BY DEF SkillsInv, SkillTypes
<1>2. PICK r \in skillsCalls : Skill!UpdateSkill(r) \/ Skill!DeleteSkill(r) \/ Skill!CreateSkill(r)
  BY DEF Skill!Next, Skill!vars, Skill!OthersUpdate, Skill!OthersDelete, Skill!OpenSkillSettings,
    Skill!Duplicate, Skill!Delete, Skill!ToggleEnabled, Skill!OthersCreate, Skill!Type,
    Skill!ReadSkill, Skill!GetSkill, Skill!Fails, Skill!SkillLoaded, Skill!Done, Skill!Refetched,
    Skill!OthersDone, Skill!ListSkills, Skill!OpenCreateSkillModal, Skill!CloseSkillModal,
    Skill!SubmitSkill
<1>3. PICK i, s : skills' = [skills EXCEPT ![i] = s] /\ (skills[i].live \/ skills[i] = Skill!Absent)
  BY <1>2 DEF Skill!UpdateSkill, Skill!DeleteSkill, Skill!CreateSkill, Skill!Updatable
<1>4. i # k
  BY <1>3 DEF Skill!Absent
<1> QED
  BY <1>1, <1>3, <1>4

LEMMA SkillsKept ==
    ASSUME SkillsInv, Skill!SkillsAssumption, [Skill!Next]_(Skill!vars)
    PROVE  Skill!TogglesKeep
<1> SUFFICES ASSUME NEW k \in SkillIds, skills[k].live,
                    <<skills'[k].name, skills'[k].text>> # <<skills[k].name, skills[k].text>>
             PROVE  \E r \in skillsCalls : r.of = k /\
                       \/ /\ r.op = "update"
                          /\ <<r.body.name, r.body.text>> = <<skills'[k].name, skills'[k].text>>
                       \/ /\ SkillsDatabase /\ r.op \in {"update", "toggle"} /\ r.pc = "read"
                          /\ r.body.name = None
                          /\ skills'[k].name = r.was.name /\ skills'[k].text = skills[k].text
  BY DEF Skill!TogglesKeep
<1>1. skills \in [SkillIds -> SkillRecord] /\ \A r \in skillsCalls : SkillCall(r)
  BY DEF SkillsInv, SkillTypes
<1>2. skills' # skills
  OBVIOUS
<1>3. PICK r \in skillsCalls : Skill!UpdateSkill(r) \/ Skill!DeleteSkill(r) \/ Skill!CreateSkill(r)
  BY <1>2 DEF Skill!Next, Skill!vars, Skill!OthersUpdate, Skill!OthersDelete, Skill!OpenSkillSettings,
    Skill!Duplicate, Skill!Delete, Skill!ToggleEnabled, Skill!OthersCreate, Skill!Type,
    Skill!ReadSkill, Skill!GetSkill, Skill!Fails, Skill!SkillLoaded, Skill!Done, Skill!Refetched,
    Skill!OthersDone, Skill!ListSkills, Skill!OpenCreateSkillModal, Skill!CloseSkillModal,
    Skill!SubmitSkill
<1>4. ~Skill!CreateSkill(r)
  <2> SUFFICES ASSUME Skill!CreateSkill(r) PROVE FALSE
    OBVIOUS
  <2>1. PICK i, s : skills' = [skills EXCEPT ![i] = s] /\ skills[i] = Skill!Absent
    BY DEF Skill!CreateSkill
  <2>2. i # k
    BY <2>1 DEF Skill!Absent
  <2> QED
    BY <1>1, <2>1, <2>2
<1>5. ~Skill!DeleteSkill(r)
  <2> SUFFICES ASSUME Skill!DeleteSkill(r) PROVE FALSE
    OBVIOUS
  <2>1. skills' = [skills EXCEPT ![r.of] = [skills[r.of] EXCEPT !.live = FALSE, !.enabled = FALSE]]
    BY DEF Skill!DeleteSkill
  <2>2. skills[k] \in SkillRecord
    BY <1>1
  <2>3. skills'[k].name = skills[k].name /\ skills'[k].text = skills[k].text
    BY <1>1, <2>1, <2>2 DEF SkillRecord
  <2> QED
    BY <2>3
<1>6. r.op \in {"update", "toggle"} /\ r.pc = "read"
      /\ skills' = [skills EXCEPT ![r.of] =
          [skills[r.of] EXCEPT !.name = Skill!Merge(r.was, r.body).name, !.enabled = Skill!Merge(r.was, r.body).enabled,
                    !.text = IF r.body.text = None THEN skills[r.of].text ELSE r.body.text]]
  BY <1>3, <1>4, <1>5 DEF Skill!UpdateSkill
<1>7. r.of = k
  BY <1>1, <1>6
<1>8. ~SkillsDatabase => r.was = skills[k]
  BY <1>6, <1>7 DEF SkillsInv, SkillsLocked
<1>9. /\ skills'[k].name = Skill!Merge(r.was, r.body).name
      /\ skills'[k].text = IF r.body.text = None THEN skills[k].text ELSE r.body.text
  BY <1>1, <1>6, <1>7 DEF SkillRecord
<1>10. Skill!Merge(r.was, r.body).name = IF r.body.name = None THEN r.was.name ELSE r.body.name
  BY DEF Skill!Merge
<1>11. r.body.name = None <=> r.body.text = None
  BY <1>1, <1>6 DEF SkillCall
<1>12. CASE r.body.name # None
  <2>1. r.op = "update"
    BY <1>1, <1>6, <1>12 DEF SkillCall
  <2> QED
    BY <1>7, <1>9, <1>10, <1>11, <1>12, <2>1
<1>13. CASE r.body.name = None
  <2>1. skills'[k].name = r.was.name /\ skills'[k].text = skills[k].text
    BY <1>9, <1>10, <1>11, <1>13
  <2>2. SkillsDatabase
    BY <1>8, <2>1
  <2> QED
    BY <1>6, <1>7, <1>13, <2>1, <2>2
<1> QED
  BY <1>12, <1>13

-----------------------------------------------------------------------------
\* Variables have their types, and a skill is saved with a text that was loaded of
\* it or typed for it (SkillLoaded fills, and Done closes, the one form).
THEOREM SkillsSaveOwn ==
    ASSUME Skill!SkillsAssumption
    PROVE  Skill!Spec => [](Skill!TypeOK /\ Skill!SavesOwn)
<1>1. Skill!Init => SkillsInv
  BY SkillInit
<1>2. SkillsInv /\ [Skill!Next]_(Skill!vars) => SkillsInv'
  BY SkillsStep
<1>3. SkillsInv => Skill!TypeOK /\ Skill!SavesOwn
  BY SkillsSound
<1> QED
  BY <1>1, <1>2, <1>3, PTL DEF Skill!Spec

\* Live skills have different slugs (CreateSkill, DuplicateSkill), and one that was
\* deleted stays deleted (UpdateSkill).
THEOREM SlugsDifferAndDeletedStay ==
    ASSUME Skill!SkillsAssumption
    PROVE  Skill!Spec => []Skill!SlugsDiffer /\ [][Skill!DeletedStays]_(Skill!vars)
<1>1. Skill!Init => SkillsInv
  BY SkillInit
<1>2. SkillsInv /\ [Skill!Next]_(Skill!vars) => SkillsInv' /\ Skill!DeletedStays
  BY SkillsStep, SkillsDeletedStay
<1>3. SkillsInv => Skill!SlugsDiffer
  BY SkillsSound
<1> QED
  BY <1>1, <1>2, <1>3, PTL DEF Skill!Spec

-----------------------------------------------------------------------------
(* Environments.                                                           *)

CONSTANTS Envs, VMs, Configs, Auths, Blank, EnvDatabase, EnvDoes, EnvAsks, EnvOthers,
    EnvFails, EnvVisits, EnvEdits
VARIABLES envs, refs, deleted, passed, overtaken, missed, environmentsCalls, environmentsListed, window,
    environmentsForm, prompt, skipped, closed, visit, environmentsBudget

Env == INSTANCE Environments WITH Database <- EnvDatabase, Does <- EnvDoes,
    MaxAsks <- EnvAsks, MaxOthers <- EnvOthers, MaxFails <- EnvFails, MaxVisits <- EnvVisits,
    MaxEdits <- EnvEdits, calls <- environmentsCalls, listed <- environmentsListed,
    form <- environmentsForm, budget <- environmentsBudget

EnvOps == {"create", "update", "check", "delete", "refer", "checkCluster", "import"}
EnvRequest == [by: {"page", "other"}, op: EnvOps, env: Envs, config: Configs \cup {Blank},
               auth: Auths \cup {Blank}, live: BOOLEAN, visit: Nat, pc: {"sent", "loaded", "working", "ok"},
               read: SUBSET Env!Environment, met: BOOLEAN]
EnvView == [config: Configs, status: {"configured", "ready", "unreachable"},
            sshAuthConfigured: BOOLEAN, used: BOOLEAN]
EnvWindow == [kind: {"none", "settings", "create", "check"}, env: Envs \cup {None},
              view: SUBSET EnvView]
EnvForm == [of: Envs \cup {None}, config: Configs \cup {Blank}, auth: Auths \cup {Blank}]

\* A record of an environment; only a virtual machine has a credential.
EnvRecord(e, s) == s \in Env!Environment /\ (e \in Env!Clusters => s.auth = Blank)

\* What a request carries, by its kind and how far it is.
EnvCall(r) ==
    /\ r \in EnvRequest /\ r.op \in EnvDoes
    /\ r.op \in {"create", "update", "import"} => r.config \in Configs
    /\ r.env \in Env!Clusters => r.auth = Blank
    /\ r.op \in {"checkCluster", "import"} => r.env \in Env!Clusters
    /\ r.pc = "ok" => r.by = "page"
    /\ r.pc = "sent" => r.met = FALSE
    /\ r.pc = "loaded" => r.op \in {"update", "check"} /\ r.env \in VMs
    /\ r.pc = "working" => ~Env!Locked(r) /\ r.op # "create" /\ (r.op = "import" => EnvDatabase)
    /\ r.pc \in {"loaded", "working"} => \E s : r.read = {s} /\ EnvRecord(r.env, s)
    /\ r.pc = "ok" /\ r.op \in {"check", "checkCluster"} => \E s : r.read = {s} /\ EnvRecord(r.env, s)

\* What a request at work knows is so until another one has written the record.
EnvKnows(r) ==
    /\ r.pc \in {"loaded", "working"} => r.env \in DOMAIN envs \cup deleted
    /\ r.pc \in {"loaded", "working"} /\ r.met = FALSE /\ r.env \in DOMAIN envs =>
         Env!Read(r).config = envs[r.env].config
    /\ r.pc = "working" /\ r.op = "refer" => r.env \in DOMAIN envs \cup missed

EnvFine(r) == EnvCall(r) /\ EnvKnows(r)
EnvRequests == \A r \in environmentsCalls : EnvFine(r)

EnvServer ==
    /\ DOMAIN envs \subseteq Envs /\ \A e \in DOMAIN envs : EnvRecord(e, envs[e])
    /\ refs \subseteq Envs /\ overtaken \subseteq Envs /\ missed \subseteq deleted
    /\ deleted \subseteq Envs \ DOMAIN envs

EnvPage ==
    /\ DOMAIN environmentsListed \subseteq Envs
    /\ \A e \in DOMAIN environmentsListed : environmentsListed[e] \in EnvView
    /\ window \in EnvWindow /\ environmentsForm \in EnvForm
    /\ window.kind \in {"settings", "check"} <=> window.env \in Envs
    /\ window.env \in Env!Clusters => environmentsForm.auth = Blank
    /\ Env!SavesOwn

EnvPrompt ==
    /\ prompt \in {"none", "asked", "open", "shut"} /\ visit \in Nat
    /\ closed => skipped = TRUE /\ prompt \notin {"asked", "open"}

EnvKept == Env!ReadyWasTested /\ Env!Protected

EnvInv == EnvServer /\ EnvRequests /\ EnvPage /\ EnvPrompt /\ EnvKept

LEMMA EnvEmptyForm == Env!EmptyForm \in EnvForm /\ Env!EmptyForm.of = None /\ Env!EmptyForm.auth = Blank
                      /\ Env!EmptyForm.config = Blank
BY DEF Env!EmptyForm, EnvForm

LEMMA EnvClosed == Env!Closed \in EnvWindow /\ Env!Closed.kind = "none" /\ Env!Closed.env = None
BY DEF Env!Closed, EnvWindow

LEMMA EnvInit ==
    ASSUME Env!EnvironmentsAssumption, Env!Init
    PROVE  EnvInv
<1>1. PICK X \in SUBSET Envs, c \in Configs :
        envs = [e \in X |-> [config |-> c, auth |-> Blank, status |-> "configured"]]
  BY DEF Env!Init
<1>2. /\ refs = {} /\ deleted = {} /\ overtaken = {} /\ missed = {} /\ environmentsCalls = {} /\ environmentsListed = <<>>
      /\ window = Env!Closed /\ environmentsForm = Env!EmptyForm
      /\ prompt = "none" /\ skipped = FALSE /\ closed = FALSE
      /\ visit = (IF EnvVisits = 0 THEN 0 ELSE 1)
  BY DEF Env!Init
<1>3. DOMAIN environmentsListed = {}
  <2>1. <<>> \in Seq(Envs) /\ Len(<<>>) = 0
    OBVIOUS
  <2> QED
    BY <1>2, <2>1
<1>4. DOMAIN envs = X /\ \A e \in X : envs[e] \in Env!Environment /\ envs[e].auth = Blank
                                     /\ envs[e].status = "configured"
  BY <1>1 DEF Env!Environment
<1>5. EnvServer
  BY <1>2, <1>4 DEF EnvServer, EnvRecord
<1>6. EnvPage
  BY <1>2, <1>3, EnvClosed, EnvEmptyForm DEF EnvPage, Env!SavesOwn, Env!EnvironmentsAssumption, Env!Clusters
<1>7. EnvPrompt
  BY <1>2 DEF EnvPrompt
<1>8. EnvKept
  BY <1>2, <1>4 DEF EnvKept, Env!ReadyWasTested, Env!Protected
<1> QED
  BY <1>2, <1>5, <1>6, <1>7, <1>8 DEF EnvInv, EnvRequests

\* A new request, and what it is.
LEMMA EnvRequested ==
    ASSUME EnvPrompt, NEW by \in {"page", "other"}, NEW op \in EnvOps, op \in EnvDoes, NEW e \in Envs,
           NEW c \in Configs \cup {Blank}, NEW a \in Auths \cup {Blank},
           op \in {"create", "update", "import"} => c # Blank,
           e \in Env!Clusters => a = Blank, op \in {"checkCluster", "import"} => e \in Env!Clusters
    PROVE  EnvFine(Env!Request(by, op, e, c, a))
<1> DEFINE r == Env!Request(by, op, e, c, a)
<1>1. r = [by |-> by, op |-> op, env |-> e, config |-> c, auth |-> a, live |-> TRUE,
           visit |-> visit, pc |-> "sent", read |-> {}, met |-> FALSE]
  BY DEF Env!Request
<1>2. r \in EnvRequest
  BY <1>1 DEF EnvRequest, EnvPrompt
<1> QED
  BY <1>1, <1>2 DEF EnvFine, EnvCall, EnvKnows

LEMMA EnvAsked ==
    ASSUME EnvInv, NEW op \in EnvOps, NEW e \in Envs,
           NEW c \in Configs \cup {Blank}, NEW a \in Auths \cup {Blank},
           op \in {"create", "update", "import"} => c # Blank,
           e \in Env!Clusters => a = Blank, op \in {"checkCluster", "import"} => e \in Env!Clusters,
           Env!Asks(op, e, c, a)
    PROVE  \A r \in environmentsCalls' : EnvFine(r)
<1>1. EnvFine(Env!Request("page", op, e, c, a))
  BY EnvRequested DEF EnvInv, Env!Asks
<1>2. ASSUME NEW r \in environmentsCalls PROVE EnvFine([r EXCEPT !.live = FALSE])
  <2> DEFINE m == [r EXCEPT !.live = FALSE]
  <2>1. EnvCall(r) /\ EnvKnows(r)
    BY DEF EnvInv, EnvRequests, EnvFine
  <2>2. m \in EnvRequest /\ m.by = r.by /\ m.op = r.op /\ m.env = r.env /\ m.config = r.config
        /\ m.auth = r.auth /\ m.pc = r.pc /\ m.read = r.read /\ m.met = r.met
    BY <2>1 DEF EnvCall, EnvRequest
  <2> HIDE DEF m
  <2>3. EnvCall(m)
    BY <2>1, <2>2 DEF EnvCall, Env!Locked
  <2>4. EnvKnows(m)
    BY <2>1, <2>2 DEF EnvKnows, Env!Read
  <2> QED
    BY <2>3, <2>4 DEF m, EnvFine
<1>3. \A r \in environmentsCalls : EnvFine(r)
  BY DEF EnvInv, EnvRequests
<1>4. \A q \in environmentsCalls' :
        \/ q = Env!Request("page", op, e, c, a)
        \/ \E r \in environmentsCalls : q = r \/ q = [r EXCEPT !.live = FALSE]
  BY DEF Env!Asks
<1> QED
  BY <1>1, <1>2, <1>3, <1>4

\* A request that has read a record, of the environment it is for or has found.
LEMMA EnvMoves ==
    ASSUME EnvInv, NEW r \in environmentsCalls, NEW m \in EnvRequest, NEW s,
           m.by = r.by, m.op = r.op, m.config = r.config, m.auth = r.auth, m.met = r.met,
           m.read = {s}, m.env \in DOMAIN envs, EnvRecord(m.env, s),
           m.env \in Env!Clusters <=> r.env \in Env!Clusters,
           r.met = FALSE => s.config = envs[m.env].config,
           \/ m.pc = "loaded" /\ m.op \in {"update", "check"} /\ m.env \in VMs
           \/ m.pc = "working" /\ ~Env!Locked(m) /\ m.op # "create" /\ (m.op = "import" => EnvDatabase),
           environmentsCalls' = (environmentsCalls \ {r}) \cup {m}
    PROVE  \A q \in environmentsCalls' : EnvFine(q)
<1>1. EnvCall(r) /\ \A q \in environmentsCalls : EnvFine(q)
  BY DEF EnvInv, EnvRequests, EnvFine
<1>2. EnvCall(m)
  BY <1>1 DEF EnvCall
<1>3. EnvKnows(m)
  <2>1. Env!Read(m) = s
    BY DEF Env!Read
  <2> QED
    BY <2>1 DEF EnvKnows
<1> QED
  BY <1>1, <1>2, <1>3 DEF EnvFine

LEMMA EnvServerOnly ==
    ASSUME EnvInv, UNCHANGED <<environmentsListed, window, environmentsForm, prompt, skipped, closed, visit>>
    PROVE  EnvPage' /\ EnvPrompt'
BY DEF EnvInv, EnvPage, EnvPrompt, Env!SavesOwn

LEMMA EnvPageOnly ==
    ASSUME EnvInv, UNCHANGED <<envs, refs, deleted, passed, overtaken, missed>>,
           \A q \in environmentsCalls' : EnvFine(q)
    PROVE  EnvServer' /\ EnvKept' /\ EnvRequests'
<1>1. EnvServer' /\ EnvKept'
  BY DEF EnvInv, EnvServer, EnvKept, Env!ReadyWasTested, Env!Protected
<1>2. EnvRequests'
  BY DEF EnvRequests, EnvFine, EnvKnows, EnvCall
<1> QED
  BY <1>1, <1>2

LEMMA EnvGone ==
    ASSUME EnvInv, NEW r, environmentsCalls' \subseteq environmentsCalls
    PROVE  \A q \in environmentsCalls' : EnvFine(q)
BY DEF EnvInv, EnvRequests

LEMMA EnvRefused ==
    ASSUME EnvInv, NEW r \in environmentsCalls, Env!Refuses(r),
           UNCHANGED <<environmentsListed, window, environmentsForm, prompt, skipped, closed, visit>>
    PROVE  EnvInv' /\ Env!ConfigBySave
<1>1. UNCHANGED <<envs, refs, deleted, passed, overtaken, missed>> /\ environmentsCalls' \subseteq environmentsCalls
  BY DEF Env!Refuses, Env!server
<1> QED
  BY <1>1, EnvGone, EnvServerOnly, EnvPageOnly DEF EnvInv, Env!ConfigBySave

\* What is left of a request when another one is done.
EnvHeir(q, o) ==
    /\ q.op = o.op /\ q.env = o.env /\ q.pc = o.pc /\ q.read = o.read
    /\ q.met = FALSE => o.met = FALSE

\* Who is answered and who has been overtaken: the page's request is at "ok", another
\* one is over, and those that have read the record know that it was written.
LEMMA EnvDone ==
    ASSUME EnvInv, NEW r \in environmentsCalls, NEW record \in SUBSET Env!Environment,
           Env!Done(r, record),
           r.op \in {"check", "checkCluster"} => \E s : record = {s} /\ EnvRecord(r.env, s)
    PROVE  \A q \in environmentsCalls' :
             /\ EnvCall(q)
             /\ \/ q.pc = "ok"
                \/ \E o \in environmentsCalls \ {r} :
                     /\ EnvHeir(q, o)
                     /\ Env!WritesAll(r) /\ q.env = r.env /\ q.pc \in {"loaded", "working"} => q.met = TRUE
<1> SUFFICES ASSUME NEW q \in environmentsCalls'
             PROVE  /\ EnvCall(q)
                    /\ \/ q.pc = "ok"
                       \/ \E o \in environmentsCalls \ {r} :
                            /\ EnvHeir(q, o)
                            /\ Env!WritesAll(r) /\ q.env = r.env /\ q.pc \in {"loaded", "working"} => q.met = TRUE
  OBVIOUS
<1>1. EnvCall(r) /\ \A o \in environmentsCalls : EnvCall(o)
  BY DEF EnvInv, EnvRequests, EnvFine
<1>2. CASE r.by = "page" /\ q = [r EXCEPT !.pc = "ok", !.read = record]
  <2>1. q \in EnvRequest /\ q.by = r.by /\ q.op = r.op /\ q.env = r.env /\ q.config = r.config
        /\ q.auth = r.auth /\ q.pc = "ok" /\ q.read = record
    BY <1>1, <1>2 DEF EnvCall, EnvRequest
  <2> QED
    BY <1>1, <1>2, <2>1 DEF EnvCall
<1>3. CASE q \in Env!Meets(r)
  <2>1. PICK o \in environmentsCalls \ {r} :
          q = IF Env!WritesAll(r) /\ o.env = r.env /\ o.pc \in {"loaded", "working"}
              THEN [o EXCEPT !.met = TRUE] ELSE o
    BY <1>3 DEF Env!Meets
  <2>2. CASE q = o
    BY <1>1, <2>1, <2>2 DEF EnvCall, EnvRequest, EnvHeir
  <2>3. CASE q = [o EXCEPT !.met = TRUE] /\ o.pc \in {"loaded", "working"}
    <3>1. q \in EnvRequest /\ q.by = o.by /\ q.op = o.op /\ q.env = o.env /\ q.config = o.config
          /\ q.auth = o.auth /\ q.pc = o.pc /\ q.read = o.read /\ q.met = TRUE
      BY <1>1, <2>3 DEF EnvCall, EnvRequest
    <3>2. EnvCall(o)
      BY <1>1
    <3>3. EnvCall(q)
      BY <2>3, <3>1, <3>2 DEF EnvCall, Env!Locked
    <3> QED
      BY <3>1, <3>3 DEF EnvHeir
  <2> QED
    BY <2>1, <2>2, <2>3
<1> QED
  BY <1>2, <1>3 DEF Env!Done

LEMMA EnvBegins ==
    ASSUME EnvInv, Env!EnvironmentsAssumption, NEW r \in environmentsCalls,
           Env!Begin(r) \/ Env!ReadAuth(r) \/ Env!FindCluster(r)
    PROVE  EnvInv'
<1>1. UNCHANGED <<environmentsListed, window, environmentsForm, prompt, skipped, closed, visit>>
  BY DEF Env!Begin, Env!ReadAuth, Env!FindCluster, Env!Refuses, Env!server, Env!dialogs, Env!intro
<1>2. EnvCall(r) /\ EnvKnows(r) /\ r \in EnvRequest
  BY DEF EnvInv, EnvRequests, EnvFine, EnvCall
<1>3. \A e \in DOMAIN envs : EnvRecord(e, envs[e]) /\ envs[e] \in Env!Environment /\ e \in Envs
  BY DEF EnvInv, EnvServer, EnvRecord
<1>4. CASE Env!Refuses(r)
  BY <1>1, <1>4, EnvRefused
<1>5. ASSUME UNCHANGED Env!server, \A q \in environmentsCalls' : EnvFine(q)
      PROVE  EnvInv'
  BY <1>1, <1>5, EnvServerOnly, EnvPageOnly DEF EnvInv, Env!server
<1>6. CASE Env!Begin(r) /\ ~Env!Refuses(r)
  <2> DEFINE pc == IF r.env \in VMs /\ r.op \in {"update", "check"} THEN "loaded" ELSE "working"
             m == [r EXCEPT !.pc = pc, !.read = {envs[r.env]}]
  <2>1. r.pc = "sent" /\ r.op \notin {"create", "import"} /\ r.env \in DOMAIN envs /\ ~Env!Locked(r)
        /\ UNCHANGED Env!server /\ environmentsCalls' = (environmentsCalls \ {r}) \cup {m}
    BY <1>6 DEF Env!Begin, Env!Goes
  <2>2. m \in EnvRequest /\ m.by = r.by /\ m.op = r.op /\ m.env = r.env /\ m.config = r.config
        /\ m.auth = r.auth /\ m.met = r.met /\ m.pc = pc /\ m.read = {envs[r.env]}
    BY <1>2, <1>3, <2>1 DEF EnvRequest
  <2> HIDE DEF m
  <2>3. ~Env!Locked(m)
    BY <2>1, <2>2 DEF Env!Locked
  <2>4. \A q \in environmentsCalls' : EnvFine(q)
    BY <1>3, <2>1, <2>2, <2>3, EnvMoves
  <2> QED
    BY <1>5, <2>1, <2>4
<1>7. CASE Env!ReadAuth(r) /\ ~Env!Refuses(r)
  <2>1. PICK s : r.read = {s} /\ EnvRecord(r.env, s)
    BY <1>2, <1>7 DEF EnvCall, Env!ReadAuth
  <2>2. Env!Read(r) = s
    BY <2>1 DEF Env!Read
  <2> DEFINE t == [s EXCEPT !.auth = envs[r.env].auth]
             m == [r EXCEPT !.pc = "working", !.read = {t}]
  <2>3. r.pc = "loaded" /\ r.env \in DOMAIN envs /\ r.env \in VMs /\ r.op \in {"update", "check"}
        /\ UNCHANGED Env!server /\ environmentsCalls' = (environmentsCalls \ {r}) \cup {m}
    BY <1>2, <1>7, <2>2 DEF Env!ReadAuth, Env!Goes, EnvCall
  <2>4. t \in Env!Environment /\ t.config = s.config /\ EnvRecord(r.env, t)
    BY <1>3, <2>1, <2>3 DEF EnvRecord, Env!Environment, Env!Clusters
  <2>5. r.met = FALSE => t.config = envs[r.env].config
    BY <1>2, <2>2, <2>3, <2>4 DEF EnvKnows
  <2> HIDE DEF t
  <2>6. m \in EnvRequest /\ m.by = r.by /\ m.op = r.op /\ m.env = r.env /\ m.config = r.config
        /\ m.auth = r.auth /\ m.met = r.met /\ m.pc = "working" /\ m.read = {t}
    BY <1>2, <2>4 DEF EnvRequest
  <2> HIDE DEF m
  <2>7. ~Env!Locked(m) /\ m.op # "create" /\ m.op # "import"
    BY <2>3, <2>6 DEF Env!Locked, Env!Clusters
  <2>8. \A q \in environmentsCalls' : EnvFine(q)
    BY <2>3, <2>4, <2>5, <2>6, <2>7, EnvMoves
  <2> QED
    BY <1>5, <2>3, <2>8
<1>8. CASE Env!FindCluster(r)
  <2>1. PICK e \in Env!Clusters \cap DOMAIN envs :
          environmentsCalls' = (environmentsCalls \ {r}) \cup {[r EXCEPT !.env = e, !.pc = "working", !.read = {envs[e]}]}
    BY <1>8 DEF Env!FindCluster
  <2> DEFINE m == [r EXCEPT !.env = e, !.pc = "working", !.read = {envs[e]}]
  <2>2. r.op = "import" /\ r.env \in Env!Clusters /\ EnvDatabase /\ UNCHANGED Env!server
    BY <1>2, <1>8 DEF Env!FindCluster, EnvCall
  <2>3. m \in EnvRequest /\ m.by = r.by /\ m.op = r.op /\ m.env = e /\ m.config = r.config
        /\ m.auth = r.auth /\ m.met = r.met /\ m.pc = "working" /\ m.read = {envs[e]}
    BY <1>2, <1>3 DEF EnvRequest
  <2>4. environmentsCalls' = (environmentsCalls \ {r}) \cup {m}
    BY <2>1
  <2> HIDE DEF m
  <2>5. ~Env!Locked(m)
    BY <2>2 DEF Env!Locked
  <2>6. \A q \in environmentsCalls' : EnvFine(q)
    BY <1>3, <2>2, <2>3, <2>4, <2>5, EnvMoves
  <2> QED
    BY <1>5, <2>2, <2>6
<1> QED
  BY <1>4, <1>6, <1>7, <1>8

\* What a save or a check leaves of the record, from the one it has read.
LEMMA EnvWritten ==
    ASSUME EnvInv, NEW r \in environmentsCalls, r.op \in {"update", "check", "checkCluster", "import"},
           NEW old, EnvRecord(r.env, old), NEW v \in {"ready", "unreachable"}, r.env \in DOMAIN envs,
           r.met = FALSE => old.config = envs[r.env].config
    PROVE  LET s == Env!Written(r, old, envs[r.env], v)
           IN  /\ EnvRecord(r.env, s) /\ s.status = v
               /\ r.op = "update" => s.config = r.config
               /\ r.op # "update" /\ Env!WritesAll(r) => s.config = old.config
               /\ ~Env!WritesAll(r) => s.config = envs[r.env].config
               /\ r.met = FALSE \/ Env!WritesAll(r) => <<r.env, s.config, s.auth>> = Env!Tried(r, old)
<1> DEFINE now == envs[r.env]
           a == Env!Auth(r, old.auth)
           b == IF Env!WritesAll(r) THEN old ELSE now
<1>1. EnvCall(r) /\ r \in EnvRequest /\ EnvRecord(r.env, now)
  BY DEF EnvInv, EnvServer, EnvRequests, EnvFine, EnvCall
<1>2. a \in Auths \cup {Blank} /\ (r.env \in Env!Clusters => a = Blank)
  BY <1>1 DEF Env!Auth, EnvCall, EnvRequest, EnvRecord, Env!Environment
<1>3. b \in Env!Environment
  BY <1>1 DEF EnvRecord
<1> HIDE DEF a
<1>4. CASE r.op = "update"
  <2>1. Env!Written(r, old, now, v) = [config |-> r.config, auth |-> a, status |-> v]
    BY <1>4 DEF Env!Written, Env!Saved, a
  <2>2. Env!Tried(r, old) = <<r.env, r.config, a>> /\ Env!WritesAll(r)
    BY <1>4 DEF Env!Tried, Env!WritesAll, a
  <2>3. r.config \in Configs
    BY <1>1, <1>4 DEF EnvCall
  <2> QED
    BY <1>2, <1>4, <2>1, <2>2, <2>3 DEF EnvRecord, Env!Environment
<1>5. CASE r.op # "update"
  <2> HIDE DEF b
  <2>1. Env!Written(r, old, now, v) = [b EXCEPT !.auth = a, !.status = v]
    BY <1>5 DEF Env!Written, Env!Checked, a, b
  <2>2. Env!Tried(r, old) = <<r.env, old.config, a>>
    BY <1>5 DEF Env!Tried, a
  <2> DEFINE s == [b EXCEPT !.auth = a, !.status = v]
  <2>3. s \in Env!Environment /\ s.config = b.config /\ s.auth = a /\ s.status = v
    BY <1>2, <1>3 DEF Env!Environment
  <2> HIDE DEF s
  <2>4. /\ Env!WritesAll(r) => b = old
        /\ ~Env!WritesAll(r) => b = now
    BY DEF b
  <2>5. Env!Written(r, old, now, v) = s
    BY <2>1 DEF s
  <2>6. r.met = FALSE => old.config = now.config
    OBVIOUS
  <2> QED
    BY <1>2, <1>5, <2>2, <2>3, <2>4, <2>5, <2>6 DEF EnvRecord
<1> QED
  BY <1>4, <1>5

LEMMA EnvWrites ==
    ASSUME EnvInv, NEW r \in environmentsCalls, r.op \in {"update", "check", "checkCluster", "import"},
           NEW old, EnvRecord(r.env, old), NEW v \in {"ready", "unreachable"},
           r.env \in DOMAIN envs => (r.met = FALSE => old.config = envs[r.env].config),
           Env!Writes(r, old, v)
    PROVE  /\ EnvServer' /\ EnvKept' /\ EnvRequests'
           /\ DOMAIN envs' = DOMAIN envs /\ \A e \in DOMAIN envs : e # r.env => envs'[e] = envs[e]
           /\ envs'[r.env].config # envs[r.env].config =>
                \/ r.op = "update" /\ r.config = envs'[r.env].config
                \/ r.op # "update" /\ Env!WritesAll(r) /\ r.met = TRUE /\ old.config = envs'[r.env].config
<1> DEFINE s == Env!Written(r, old, envs[r.env], v)
           past == r.met /\ ~Env!WritesAll(r)
<1>1. /\ r.env \in DOMAIN envs /\ envs' = [envs EXCEPT ![r.env] = s]
      /\ passed' = IF v = "ready" THEN passed \cup {Env!Tried(r, old)} ELSE passed
      /\ overtaken' = IF past THEN overtaken \cup {r.env} ELSE overtaken \ {r.env}
      /\ Env!Done(r, {envs'[r.env]}) /\ refs' = refs /\ deleted' = deleted /\ missed' = missed
  BY DEF Env!Writes
<1>2. /\ EnvRecord(r.env, s) /\ s.status = v
      /\ r.op = "update" => s.config = r.config
      /\ r.op # "update" /\ Env!WritesAll(r) => s.config = old.config
      /\ ~Env!WritesAll(r) => s.config = envs[r.env].config
      /\ r.met = FALSE \/ Env!WritesAll(r) => <<r.env, s.config, s.auth>> = Env!Tried(r, old)
  BY <1>1, EnvWritten
<1>3. r.met \in BOOLEAN /\ r.env \in Envs
  BY DEF EnvInv, EnvRequests, EnvFine, EnvCall, EnvRequest
<1> HIDE DEF s
<1>4. DOMAIN envs' = DOMAIN envs /\ envs'[r.env] = s
      /\ \A e \in DOMAIN envs : e # r.env => envs'[e] = envs[e]
  BY <1>1
<1>5. EnvServer'
  BY <1>1, <1>2, <1>3, <1>4 DEF EnvInv, EnvServer
<1>6. {s} \in SUBSET Env!Environment
  BY <1>2 DEF EnvRecord
<1>7. EnvRequests'
  <2>1. \A q \in environmentsCalls' :
             /\ EnvCall(q)
             /\ \/ q.pc = "ok"
                \/ \E o \in environmentsCalls \ {r} :
                     /\ EnvHeir(q, o)
                     /\ Env!WritesAll(r) /\ q.env = r.env /\ q.pc \in {"loaded", "working"} => q.met = TRUE
    BY <1>1, <1>2, <1>4, <1>6, EnvDone
  <2>2. ASSUME NEW q \in environmentsCalls', q.pc # "ok" PROVE EnvKnows(q)'
    <3>1. PICK o \in environmentsCalls :
            /\ EnvHeir(q, o)
            /\ Env!WritesAll(r) /\ q.env = r.env /\ q.pc \in {"loaded", "working"} => q.met = TRUE
      BY <2>1, <2>2
    <3>2. EnvKnows(o) /\ Env!Read(q) = Env!Read(o)
      BY <3>1 DEF EnvInv, EnvRequests, EnvFine, EnvHeir, Env!Read
    <3>3. q.pc \in {"loaded", "working"} /\ q.met = FALSE /\ q.env \in DOMAIN envs =>
            envs'[q.env].config = envs[q.env].config
      BY <1>2, <1>4, <3>1 DEF EnvHeir
    <3> QED
      BY <1>1, <1>4, <3>1, <3>2, <3>3 DEF EnvKnows, EnvHeir, Env!Read
  <2>3. ASSUME NEW q \in environmentsCalls', q.pc = "ok" PROVE EnvKnows(q)'
    BY <2>3 DEF EnvKnows
  <2> QED
    BY <2>1, <2>2, <2>3 DEF EnvRequests, EnvFine, EnvCall
<1>8. Env!ReadyWasTested'
  <2> SUFFICES ASSUME NEW e \in DOMAIN envs \ overtaken', envs'[e].status = "ready"
               PROVE  <<e, envs'[e].config, envs'[e].auth>> \in passed'
    BY <1>4 DEF Env!ReadyWasTested
  <2>1. CASE e = r.env
    <3>1. r.met = FALSE \/ Env!WritesAll(r)
      BY <1>1, <1>3, <2>1
    <3> QED
      BY <1>1, <1>2, <1>4, <2>1, <3>1
  <2>2. CASE e # r.env
    BY <1>1, <1>4, <2>2 DEF EnvInv, EnvKept, Env!ReadyWasTested
  <2> QED
    BY <2>1, <2>2
<1>9. Env!Protected'
  BY <1>1, <1>4 DEF EnvInv, EnvKept, Env!Protected
<1> QED
  BY <1>1, <1>2, <1>3, <1>4, <1>5, <1>7, <1>8, <1>9 DEF EnvKept

LEMMA EnvValidate ==
    ASSUME EnvInv, NEW r \in environmentsCalls, NEW v \in {"ready", "unreachable"}, Env!Validate(r, v)
    PROVE  EnvInv' /\ Env!ConfigBySave
<1>1. EnvCall(r) /\ EnvKnows(r)
  BY DEF EnvInv, EnvRequests, EnvFine
<1>2. UNCHANGED <<environmentsListed, window, environmentsForm, prompt, skipped, closed, visit>>
      /\ r.op \in {"update", "check", "checkCluster", "import"}
  BY DEF Env!Validate, Env!dialogs, Env!intro
<1>3. ASSUME NEW old, EnvRecord(r.env, old), Env!Writes(r, old, v),
             r.env \in DOMAIN envs => (r.met = FALSE => old.config = envs[r.env].config),
             (r.pc = "working" /\ old = Env!Read(r)) \/ old = envs[r.env]
      PROVE  EnvInv' /\ Env!ConfigBySave
  <2>1. EnvInv'
    BY <1>2, <1>3, EnvWrites, EnvServerOnly DEF EnvInv
  <2>2. Env!ConfigBySave
    <3> SUFFICES ASSUME NEW e \in DOMAIN envs \cap DOMAIN envs', envs'[e].config # envs[e].config
                 PROVE  \E q \in environmentsCalls :
                          /\ q.env = e
                          /\ \/ q.op = "update" /\ q.config = envs'[e].config
                             \/ Env!TakesBack(q) /\ Env!Read(q).config = envs'[e].config
      BY DEF Env!ConfigBySave
    <3>1. /\ e = r.env
          /\ \/ r.op = "update" /\ r.config = envs'[r.env].config
             \/ r.op # "update" /\ Env!WritesAll(r) /\ r.met = TRUE /\ old.config = envs'[r.env].config
      BY <1>2, <1>3, EnvWrites
    <3>2. CASE r.op = "update"
      BY <3>1, <3>2
    <3>3. CASE r.op # "update"
      <4>1. old # envs[r.env]
        BY <3>1, <3>3
      <4>2. Env!TakesBack(r) /\ old = Env!Read(r)
        BY <1>3, <3>1, <3>3, <4>1 DEF Env!TakesBack, Env!WritesAll
      <4> QED
        BY <3>1, <3>3, <4>2
    <3> QED
      BY <3>2, <3>3
  <2> QED
    BY <2>1, <2>2
<1>4. CASE r.pc = "sent" /\ Env!Writes(r, envs[r.env], v)
  <2>1. EnvRecord(r.env, envs[r.env])
    BY <1>4 DEF EnvInv, EnvServer, Env!Writes
  <2> QED
    BY <1>3, <1>4, <2>1
<1>5. CASE r.pc = "working" /\ Env!Writes(r, Env!Read(r), v)
  <2>1. PICK s : r.read = {s} /\ EnvRecord(r.env, s)
    BY <1>1, <1>5 DEF EnvCall
  <2>2. Env!Read(r) = s
    BY <2>1 DEF Env!Read
  <2>3. r.env \in DOMAIN envs => (r.met = FALSE => s.config = envs[r.env].config)
    BY <1>1, <1>5, <2>2 DEF EnvKnows
  <2> QED
    BY <1>3, <1>5, <2>1, <2>2, <2>3
<1>6. CASE r.pc = "working" /\ Env!Refuses(r)
  BY <1>2, <1>6, EnvRefused
<1> QED
  BY <1>4, <1>5, <1>6 DEF Env!Validate

LEMMA EnvCreates ==
    ASSUME EnvInv, Env!EnvironmentsAssumption, NEW r \in environmentsCalls,
           NEW v \in {"ready", "unreachable"}, Env!CreateEnvironment(r, v)
    PROVE  EnvInv' /\ Env!ConfigBySave
<1>1. EnvCall(r) /\ r \in EnvRequest /\ r.op \in {"create", "import"} /\ r.env \notin DOMAIN envs \cup deleted
  BY DEF EnvInv, EnvRequests, EnvFine, EnvCall, Env!CreateEnvironment
<1>2. UNCHANGED <<environmentsListed, window, environmentsForm, prompt, skipped, closed, visit>>
  BY DEF Env!CreateEnvironment, Env!dialogs, Env!intro
<1> DEFINE s == [config |-> r.config, auth |-> r.auth, status |-> v]
<1>3. EnvRecord(r.env, s) /\ s.config = r.config /\ s.auth = r.auth /\ s.status = v /\ r.env \in Envs
  BY <1>1 DEF EnvRecord, Env!Environment, EnvCall, EnvRequest
<1>4. /\ envs' = Env!Put(r.env, s)
      /\ passed' = IF v = "ready" THEN passed \cup {<<r.env, s.config, s.auth>>} ELSE passed
      /\ Env!Done(r, {envs'[r.env]}) /\ UNCHANGED <<refs, deleted, overtaken, missed>>
  BY DEF Env!CreateEnvironment
<1> HIDE DEF s
<1>5. DOMAIN envs' = DOMAIN envs \cup {r.env} /\ envs'[r.env] = s
      /\ \A e \in DOMAIN envs : envs'[e] = envs[e]
  BY <1>1, <1>4 DEF Env!Put
<1>6. EnvServer'
  BY <1>1, <1>3, <1>4, <1>5 DEF EnvInv, EnvServer
<1>7. {s} \in SUBSET Env!Environment
  BY <1>3 DEF EnvRecord
<1>8. EnvRequests'
  <2>1. \A q \in environmentsCalls' :
             /\ EnvCall(q)
             /\ \/ q.pc = "ok"
                \/ \E o \in environmentsCalls : EnvHeir(q, o)
    BY <1>1, <1>4, <1>5, <1>7, EnvDone
  <2>2. ASSUME NEW q \in environmentsCalls' PROVE EnvKnows(q)'
    <3>1. CASE q.pc = "ok"
      BY <3>1 DEF EnvKnows
    <3>2. CASE q.pc # "ok"
      <4>1. PICK o \in environmentsCalls : EnvHeir(q, o)
        BY <2>1, <3>2
      <4>2. EnvKnows(o) /\ Env!Read(q) = Env!Read(o)
        BY <4>1 DEF EnvInv, EnvRequests, EnvFine, EnvHeir, Env!Read
      <4> QED
        BY <1>1, <1>4, <1>5, <4>1, <4>2 DEF EnvKnows, EnvHeir, Env!Read
    <3> QED
      BY <3>1, <3>2
  <2> QED
    BY <2>1, <2>2 DEF EnvRequests, EnvFine, EnvCall
<1>9. Env!ReadyWasTested'
  <2> SUFFICES ASSUME NEW e \in DOMAIN envs' \ overtaken, envs'[e].status = "ready"
               PROVE  <<e, envs'[e].config, envs'[e].auth>> \in passed'
    BY <1>4 DEF Env!ReadyWasTested
  <2>1. CASE e = r.env
    BY <1>3, <1>4, <1>5, <2>1
  <2>2. CASE e # r.env
    BY <1>4, <1>5, <2>2 DEF EnvInv, EnvKept, Env!ReadyWasTested
  <2> QED
    BY <2>1, <2>2
<1>10. Env!Protected'
  BY <1>4, <1>5 DEF EnvInv, EnvKept, Env!Protected
<1>11. Env!ConfigBySave
  BY <1>1, <1>5 DEF Env!ConfigBySave
<1> QED
  BY <1>2, <1>6, <1>8, <1>9, <1>10, <1>11, EnvServerOnly DEF EnvKept, EnvInv

\* A reference, and a deletion of what there is.
LEMMA EnvDeletes ==
    ASSUME EnvInv, NEW r \in environmentsCalls, Env!DeleteEnvironment(r) \/ Env!Refer(r)
    PROVE  EnvInv' /\ Env!ConfigBySave
<1>1. EnvCall(r) /\ EnvKnows(r) /\ r \in EnvRequest /\ r.op \in {"delete", "refer"} /\ r.env \in Envs
  BY DEF EnvInv, EnvRequests, EnvFine, EnvCall, EnvRequest, Env!DeleteEnvironment, Env!Refer
<1>2. UNCHANGED <<environmentsListed, window, environmentsForm, prompt, skipped, closed, visit>>
  BY DEF Env!DeleteEnvironment, Env!Refer, Env!dialogs, Env!intro
<1>3. CASE Env!Refuses(r)
  BY <1>2, <1>3, EnvRefused
<1>4. CASE ~Env!Refuses(r)
  <2>1. passed' = passed /\ overtaken' = overtaken /\ Env!Done(r, {})
    BY <1>4 DEF Env!DeleteEnvironment, Env!Refer
  <2>2. \/ Env!Refer(r) /\ UNCHANGED <<envs, deleted, missed>> /\ refs' = refs \cup {r.env}
        \/ /\ Env!DeleteEnvironment(r) /\ r.op = "delete" /\ r.env \in DOMAIN envs
           /\ envs' = Env!Remaining(r.env) /\ deleted' = deleted \cup {r.env} /\ refs' = refs
           /\ missed' = IF r.pc = "working" /\ Env!Referring(r.env) THEN missed \cup {r.env} ELSE missed
    BY <1>4 DEF Env!DeleteEnvironment, Env!Refer
  <2>3. /\ DOMAIN envs' \subseteq DOMAIN envs /\ DOMAIN envs \cup deleted = DOMAIN envs' \cup deleted'
        /\ \A e \in DOMAIN envs' : envs'[e] = envs[e]
    BY <2>2 DEF Env!Remaining
  <2>4. EnvServer'
    BY <1>1, <2>1, <2>2, <2>3 DEF EnvInv, EnvServer, Env!Remaining
  <2>5. r.pc \in {"sent", "working"} /\ (r.pc = "working" => EnvDatabase) /\ (r.pc = "sent" => ~EnvDatabase)
    BY <1>1, <1>4 DEF EnvCall, Env!Locked, Env!DeleteEnvironment, Env!Refer
  <2>6. Env!Protected'
    <3>1. refs \subseteq DOMAIN envs \cup missed /\ (~EnvDatabase => missed = {})
      BY DEF EnvInv, EnvKept, Env!Protected
    <3>2. CASE Env!Refer(r)
      <4>1. r.env \in DOMAIN envs \cup missed
        BY <1>1, <3>2 DEF Env!Refer, EnvKnows
      <4> QED
        BY <2>2, <3>1, <3>2, <4>1, <1>1 DEF Env!Protected, Env!Refer
    <3>3. CASE Env!DeleteEnvironment(r)
      <4>1. DOMAIN envs' = DOMAIN envs \ {r.env} /\ refs' = refs /\ r.env \in DOMAIN envs
            /\ missed' = IF r.pc = "working" /\ Env!Referring(r.env) THEN missed \cup {r.env} ELSE missed
        BY <2>2, <3>3 DEF Env!Remaining, Env!DeleteEnvironment, Env!Refer
      <4>2. r.env \in refs => r.env \in missed'
        BY <3>3, <4>1 DEF Env!DeleteEnvironment, Env!Protects, Env!Referring
      <4> QED
        BY <2>5, <3>1, <4>1, <4>2 DEF Env!Protected
    <3> QED
      BY <3>2, <3>3
  <2>7. Env!ReadyWasTested'
    BY <2>1, <2>3 DEF EnvInv, EnvKept, Env!ReadyWasTested
  <2>8. EnvRequests'
    <3>1. \A q \in environmentsCalls' :
               /\ EnvCall(q)
               /\ \/ q.pc = "ok"
                  \/ \E o \in environmentsCalls : EnvHeir(q, o)
      BY <1>1, <2>1, EnvDone
    <3>2. ASSUME NEW q \in environmentsCalls' PROVE EnvKnows(q)'
      <4>1. CASE q.pc = "ok"
        BY <4>1 DEF EnvKnows
      <4>2. CASE q.pc # "ok"
        <5>1. PICK o \in environmentsCalls : EnvHeir(q, o)
          BY <3>1, <4>2
        <5>2. EnvKnows(o) /\ EnvCall(o) /\ Env!Read(q) = Env!Read(o)
          BY <5>1 DEF EnvInv, EnvRequests, EnvFine, EnvHeir, Env!Read
        <5>3. o.pc = "working" /\ o.op = "refer" => o.env \in DOMAIN envs' \cup missed'
          <6> SUFFICES ASSUME o.pc = "working", o.op = "refer" PROVE o.env \in DOMAIN envs' \cup missed'
            OBVIOUS
          <6>1. o.env \in DOMAIN envs \cup missed
            BY <5>2 DEF EnvKnows
          <6>2. EnvDatabase
            BY <5>2 DEF EnvCall, Env!Locked
          <6>3. CASE Env!DeleteEnvironment(r) /\ o.env = r.env
            <7>1. r.pc = "working" /\ Env!Referring(r.env)
              BY <2>5, <5>1, <6>2, <6>3 DEF Env!Referring
            <7> QED
              <8>1. ~Env!Refer(r) /\ r.env \in missed'
                BY <1>1, <2>2, <6>3, <7>1 DEF Env!DeleteEnvironment, Env!Refer
              <8> QED
                BY <6>3, <8>1
          <6>4. CASE ~(Env!DeleteEnvironment(r) /\ o.env = r.env)
            BY <2>2, <6>1, <6>4 DEF Env!Remaining
          <6> QED
            BY <6>3, <6>4
        <5> QED
          BY <2>3, <5>1, <5>2, <5>3 DEF EnvKnows, EnvHeir, Env!Read
      <4> QED
        BY <4>1, <4>2
    <3> QED
      BY <3>1, <3>2 DEF EnvRequests, EnvFine, EnvCall
  <2>9. Env!ConfigBySave
    BY <2>3 DEF Env!ConfigBySave
  <2> QED
    BY <1>2, <2>4, <2>6, <2>7, <2>8, <2>9, EnvServerOnly DEF EnvKept, EnvInv
<1> QED
  BY <1>3, <1>4

LEMMA EnvOthersAsk ==
    ASSUME EnvInv, NEW op \in {"create", "import", "update", "check", "delete", "refer"}, NEW e \in Envs,
           NEW c \in Configs \cup {Blank}, NEW a \in Auths \cup {Blank}, Env!Others(op, e, c, a)
    PROVE  EnvInv'
<1>1. EnvFine(Env!Request("other", op, e, c, a))
  BY EnvRequested DEF EnvInv, Env!Others, EnvOps
<1>2. environmentsCalls' = environmentsCalls \cup {Env!Request("other", op, e, c, a)}
      /\ UNCHANGED <<envs, refs, deleted, passed, overtaken, missed>>
      /\ UNCHANGED <<environmentsListed, window, environmentsForm, prompt, skipped, closed, visit>>
  BY DEF Env!Others, Env!server, Env!dialogs, Env!intro
<1>3. \A q \in environmentsCalls' : EnvFine(q)
  BY <1>1, <1>2 DEF EnvInv, EnvRequests
<1> QED
  BY <1>2, <1>3, EnvServerOnly, EnvPageOnly DEF EnvInv

-----------------------------------------------------------------------------
LEMMA EnvLists ==
    ASSUME EnvInv, Env!ListEnvironments
    PROVE  EnvInv'
<1>1. environmentsListed' = Env!Viewed /\ UNCHANGED <<envs, refs, deleted, passed, overtaken, missed, environmentsCalls>>
      /\ UNCHANGED <<window, environmentsForm, prompt, skipped, closed, visit>>
  BY DEF Env!ListEnvironments, Env!server, Env!dialogs, Env!intro
<1>2. ASSUME NEW e \in DOMAIN envs PROVE Env!View(envs[e], e \in refs) \in EnvView
  <2>1. envs[e] \in Env!Environment
    BY DEF EnvInv, EnvServer, EnvRecord
  <2> QED
    BY <2>1 DEF Env!View, EnvView, Env!Environment
<1>3. DOMAIN environmentsListed' \subseteq Envs
      /\ \A e \in DOMAIN environmentsListed' : environmentsListed'[e] \in EnvView
  BY <1>1, <1>2 DEF Env!Viewed, EnvInv, EnvServer
<1> QED
  BY <1>1, <1>3, EnvPageOnly DEF EnvInv, EnvRequests, EnvPage, EnvPrompt, Env!SavesOwn

\* The dialog and its form, when one is opened, answered or closed.
LEMMA EnvDialog ==
    ASSUME EnvInv, window' \in EnvWindow, environmentsForm' \in EnvForm,
           window'.kind \in {"settings", "check"} <=> window'.env \in Envs,
           window'.env \in Env!Clusters => environmentsForm'.auth = Blank,
           window'.kind = "settings" => environmentsForm'.of \in {window'.env, None},
           UNCHANGED <<envs, refs, deleted, passed, overtaken, missed, environmentsListed, prompt, skipped, closed, visit>>,
           \A q \in environmentsCalls' : EnvFine(q)
    PROVE  EnvInv'
<1>1. EnvPage'
  BY DEF EnvInv, EnvPage, Env!SavesOwn
<1>2. EnvPrompt'
  BY DEF EnvInv, EnvPrompt
<1> QED
  BY <1>1, <1>2, EnvPageOnly DEF EnvInv

LEMMA EnvFilledForm ==
    ASSUME NEW e \in Envs, NEW view \in EnvView
    PROVE  Env!Filled(e, view) \in EnvForm /\ Env!Filled(e, view).of = e /\ Env!Filled(e, view).auth = Blank
BY DEF Env!Filled, EnvForm, EnvView

LEMMA EnvOpens ==
    ASSUME EnvInv, Env!EnvironmentsAssumption,
           \/ \E e \in Envs : Env!OpenSettings(e) \/ Env!PressCheck(e)
           \/ Env!OpenCreateVirtualMachine \/ Env!CloseWindow
    PROVE  EnvInv'
<1>1. ASSUME NEW e \in Envs, NEW kind \in {"settings", "check"}, e \in DOMAIN environmentsListed,
             window' = [kind |-> kind, env |-> e, view |-> {environmentsListed[e]}],
             environmentsForm' = Env!Filled(e, environmentsListed[e]),
             UNCHANGED <<envs, refs, deleted, passed, overtaken, missed, environmentsListed, prompt, skipped, closed, visit, environmentsCalls>>
      PROVE  EnvInv'
  <2>1. environmentsListed[e] \in EnvView
    BY <1>1 DEF EnvInv, EnvPage
  <2>2. window' \in EnvWindow /\ window'.kind = kind /\ window'.env = e
    BY <1>1, <2>1 DEF EnvWindow
  <2>3. environmentsForm' \in EnvForm /\ environmentsForm'.of = e /\ environmentsForm'.auth = Blank
    BY <1>1, <2>1, EnvFilledForm
  <2>4. \A q \in environmentsCalls' : EnvFine(q)
    BY <1>1 DEF EnvInv, EnvRequests
  <2> QED
    BY <1>1, <2>2, <2>3, <2>4, EnvDialog
<1>2. ASSUME NEW e \in Envs, Env!OpenSettings(e) PROVE EnvInv'
  BY <1>1, <1>2 DEF Env!OpenSettings, Env!server, Env!intro
<1>3. ASSUME NEW e \in Envs, Env!PressCheck(e) PROVE EnvInv'
  <2>1. CASE e \in VMs /\ ~environmentsListed[e].sshAuthConfigured
    BY <1>1, <1>3, <2>1 DEF Env!PressCheck, Env!server, Env!intro
  <2>2. CASE ~(e \in VMs /\ ~environmentsListed[e].sshAuthConfigured)
    <3>1. Env!Asks("check", e, Blank, Blank) /\ UNCHANGED <<envs, refs, deleted, passed, overtaken, missed>>
          /\ UNCHANGED <<environmentsListed, window, environmentsForm, prompt, skipped, closed, visit>>
      BY <1>3, <2>2 DEF Env!PressCheck, Env!server, Env!dialogs, Env!intro
    <3>2. \A q \in environmentsCalls' : EnvFine(q)
      BY <3>1, EnvAsked DEF EnvOps
    <3> QED
      BY <3>1, <3>2, EnvServerOnly, EnvPageOnly DEF EnvInv
  <2> QED
    BY <2>1, <2>2
<1>4. ASSUME Env!OpenCreateVirtualMachine PROVE EnvInv'
  <2>1. window' \in EnvWindow /\ window'.kind = "create" /\ window'.env = None
    BY <1>4, EnvClosed DEF Env!OpenCreateVirtualMachine, EnvWindow
  <2>2. environmentsForm' = Env!EmptyForm /\ UNCHANGED <<envs, refs, deleted, passed, overtaken, missed, environmentsListed, prompt, skipped, closed, visit>>
        /\ environmentsCalls' = environmentsCalls
    BY <1>4 DEF Env!OpenCreateVirtualMachine, Env!server, Env!intro
  <2>3. \A q \in environmentsCalls' : EnvFine(q)
    BY <2>2 DEF EnvInv, EnvRequests
  <2> QED
    BY <2>1, <2>2, <2>3, EnvEmptyForm, EnvDialog DEF Env!EnvironmentsAssumption
<1>5. ASSUME Env!CloseWindow PROVE EnvInv'
  <2>1. window' = Env!Closed /\ UNCHANGED <<envs, refs, deleted, passed, overtaken, missed, environmentsListed, prompt, skipped, closed, visit>>
        /\ environmentsCalls' = environmentsCalls /\ environmentsForm' = environmentsForm
    BY <1>5 DEF Env!CloseWindow, Env!server, Env!intro
  <2>2. \A q \in environmentsCalls' : EnvFine(q)
    BY <2>1 DEF EnvInv, EnvRequests
  <2>3. environmentsForm' \in EnvForm /\ None \notin Env!Clusters
    BY <2>1 DEF EnvInv, EnvPage, Env!EnvironmentsAssumption, Env!Clusters
  <2> QED
    BY <2>1, <2>2, <2>3, EnvClosed, EnvDialog DEF Env!EnvironmentsAssumption
<1> QED
  BY <1>2, <1>3, <1>4, <1>5

LEMMA EnvTypes ==
    ASSUME EnvInv, Env!EnvironmentsAssumption,
           \/ \E c \in Configs : Env!TypeCluster(c) \/ Env!TypeVirtualMachine(c)
           \/ \E a \in Auths : Env!TypeAuth(a)
    PROVE  EnvInv'
<1>1. PICK c, a : Env!Types(c, a) /\ c \in Configs \cup {Blank} /\ a \in Auths \cup {Blank}
                  /\ (window.env \in Env!Clusters => a = Blank)
  BY DEF Env!TypeCluster, Env!TypeVirtualMachine, Env!TypeAuth, EnvInv, EnvPage, EnvForm
<1>2. window \in EnvWindow /\ environmentsForm \in EnvForm
  BY DEF EnvInv, EnvPage
<1>3. UNCHANGED <<envs, refs, deleted, passed, overtaken, missed, environmentsListed, prompt, skipped, closed, visit>>
      /\ window' = window /\ environmentsCalls' = environmentsCalls
      /\ environmentsForm' = [of |-> IF environmentsForm.config = Blank THEN window.env ELSE environmentsForm.of,
                              config |-> c, auth |-> a]
  BY <1>1 DEF Env!Types, Env!server, Env!intro
<1>4. environmentsForm' \in EnvForm /\ environmentsForm'.auth = a
      /\ environmentsForm'.of \in {window.env, environmentsForm.of}
  BY <1>1, <1>2, <1>3 DEF EnvForm, EnvWindow
<1>5. window.kind = "settings" => environmentsForm.of \in {window.env, None}
  BY DEF EnvInv, EnvPage, Env!SavesOwn
<1>6. window.kind \in {"settings", "check"} <=> window.env \in Envs
  BY DEF EnvInv, EnvPage
<1>7. \A q \in environmentsCalls' : EnvFine(q)
  BY <1>3 DEF EnvInv, EnvRequests
<1> QED
  BY <1>1, <1>2, <1>3, <1>4, <1>5, <1>6, <1>7, EnvDialog

\* The buttons that send a request leave the dialogs as they are.
LEMMA EnvPresses ==
    ASSUME EnvInv, Env!EnvironmentsAssumption,
           \/ Env!SubmitSettings \/ Env!PressDelete \/ Env!SubmitCheck \/ Env!PressCheckCluster
           \/ \E e \in Envs : Env!SubmitCreate(e)
           \/ \E e \in Env!Clusters \cup {None} : Env!ImportFromPicker(e)
    PROVE  EnvInv'
<1>1. UNCHANGED <<envs, refs, deleted, passed, overtaken, missed>>
      /\ UNCHANGED <<environmentsListed, window, environmentsForm, prompt, skipped, closed, visit>>
  BY DEF Env!SubmitSettings, Env!PressDelete, Env!SubmitCheck, Env!PressCheckCluster, Env!SubmitCreate,
    Env!ImportFromPicker, Env!server, Env!dialogs, Env!intro
<1>2. environmentsForm.config \in Configs \cup {Blank} /\ environmentsForm.auth \in Auths \cup {Blank}
      /\ (window.kind \in {"settings", "check"} <=> window.env \in Envs)
      /\ (window.env \in Env!Clusters => environmentsForm.auth = Blank)
  BY DEF EnvInv, EnvPage, EnvForm
<1>3. Env!Clusters \subseteq Envs /\ VMs \cap Env!Clusters = {} /\ VMs \subseteq Envs
  BY DEF Env!Clusters, Env!EnvironmentsAssumption
<1>4. \A q \in environmentsCalls' : EnvFine(q)
  <2>1. CASE Env!SubmitSettings
    BY <1>2, <2>1, EnvAsked DEF Env!SubmitSettings, Env!CanSubmit, EnvOps
  <2>2. CASE Env!PressDelete
    BY <1>2, <2>2, EnvAsked DEF Env!PressDelete, EnvOps
  <2>3. CASE Env!SubmitCheck
    BY <1>2, <2>3, EnvAsked DEF Env!SubmitCheck, EnvOps
  <2>4. CASE Env!PressCheckCluster
    BY <1>2, <1>3, <2>4, EnvAsked DEF Env!PressCheckCluster, EnvOps
  <2>5. CASE \E e \in Envs : Env!SubmitCreate(e)
    BY <1>2, <1>3, <2>5, EnvAsked DEF Env!SubmitCreate, Env!CanSubmit, EnvOps, Env!EnvironmentsAssumption
  <2>6. CASE \E e \in Env!Clusters \cup {None} : Env!ImportFromPicker(e)
    <3>1. PICK e \in Env!Clusters, c \in Configs : Env!Asks("import", e, c, Blank)
      BY <2>6 DEF Env!ImportFromPicker
    <3> QED
      BY <1>3, <3>1, EnvAsked DEF EnvOps, Env!EnvironmentsAssumption
  <2> QED
    BY <2>1, <2>2, <2>3, <2>4, <2>5, <2>6
<1> QED
  BY <1>1, <1>4, EnvServerOnly, EnvPageOnly DEF EnvInv

LEMMA EnvAnswers ==
    ASSUME EnvInv, Env!EnvironmentsAssumption, NEW r \in environmentsCalls, Env!Answer(r) \/ Env!Lost(r)
    PROVE  EnvInv'
<1>1. UNCHANGED <<envs, refs, deleted, passed, overtaken, missed, environmentsListed, prompt, skipped, closed, visit>>
      /\ environmentsCalls' = environmentsCalls \ {r}
  BY DEF Env!Answer, Env!Lost, Env!server, Env!dialogs, Env!intro
<1>2. \A q \in environmentsCalls' : EnvFine(q)
  BY <1>1, EnvGone
<1>3. window \in EnvWindow /\ environmentsForm \in EnvForm
      /\ (window.kind \in {"settings", "check"} <=> window.env \in Envs)
      /\ (window.env \in Env!Clusters => environmentsForm.auth = Blank)
      /\ (window.kind = "settings" => environmentsForm.of \in {window.env, None})
  BY DEF EnvInv, EnvPage, Env!SavesOwn
<1>4. None \notin Env!Clusters /\ None \notin Envs
  BY DEF Env!EnvironmentsAssumption, Env!Clusters
<1>5. ASSUME window' \in {window, Env!Closed}, environmentsForm' \in {environmentsForm, Env!EmptyForm}
      PROVE  EnvInv'
  BY <1>1, <1>2, <1>3, <1>4, <1>5, EnvClosed, EnvEmptyForm, EnvDialog
<1>6. CASE Env!Lost(r) \/ Env!SettingsAnswered(r) \/ Env!CreateAnswered(r) \/ UNCHANGED Env!dialogs
  BY <1>5, <1>6 DEF Env!Lost, Env!SettingsAnswered, Env!CreateAnswered, Env!dialogs
<1>7. CASE Env!CheckAnswered(r) /\ r.pc = "ok"
  <2> DEFINE view == Env!View(Env!Read(r), FALSE)
  <2>1. CASE Env!Refreshes(r)
    <3>1. PICK s : r.read = {s} /\ EnvRecord(r.env, s)
      BY <1>7 DEF Env!CheckAnswered, EnvInv, EnvRequests, EnvFine, EnvCall
    <3>2. Env!Read(r) = s
      BY <3>1 DEF Env!Read
    <3>3. view \in EnvView
      BY <3>1, <3>2 DEF EnvView, Env!View, EnvRecord, Env!Environment
    <3>4. window' = [window EXCEPT !.view = {view}] /\ environmentsForm' = Env!Filled(r.env, view)
          /\ window.env = r.env
      BY <1>7, <2>1 DEF Env!CheckAnswered, Env!Refreshes
    <3> HIDE DEF view
    <3>5. window' \in EnvWindow /\ window'.kind = window.kind /\ window'.env = window.env
      BY <1>3, <3>3, <3>4 DEF EnvWindow
    <3>6. r.env \in Envs
      BY DEF EnvInv, EnvRequests, EnvFine, EnvCall, EnvRequest
    <3>7. environmentsForm' \in EnvForm /\ environmentsForm'.of = r.env /\ environmentsForm'.auth = Blank
      BY <3>3, <3>4, <3>6, EnvFilledForm
    <3> QED
      BY <1>1, <1>2, <1>3, <3>4, <3>5, <3>7, EnvDialog
  <2>2. CASE ~Env!Refreshes(r)
    <3>1. \/ window' = Env!Closed /\ environmentsForm' = Env!EmptyForm
          \/ window' = window /\ environmentsForm' = environmentsForm
      BY <1>7, <2>2 DEF Env!CheckAnswered, Env!dialogs
    <3> QED
      BY <1>5, <3>1
  <2> QED
    BY <2>1, <2>2
<1> QED
  BY <1>6, <1>7 DEF Env!Answer

LEMMA EnvPromptStep ==
    ASSUME EnvInv, Env!EnvironmentsAssumption,
           \/ Env!Discover \/ Env!Discovered \/ Env!Leave
           \/ \E e \in Env!Clusters \cup {None} : Env!CloseDefaultImportPrompt(e)
    PROVE  EnvInv'
<1>1. CASE Env!Discover \/ Env!Discovered
  <2>1. UNCHANGED <<envs, refs, deleted, passed, overtaken, missed, environmentsCalls, environmentsListed, window, environmentsForm>>
    BY <1>1 DEF Env!Discover, Env!Discovered, Env!server, Env!dialogs
  <2>2. EnvPage'
    BY <2>1 DEF EnvInv, EnvPage, Env!SavesOwn
  <2>3. EnvPrompt'
    BY <1>1 DEF Env!Discover, Env!Discovered, EnvInv, EnvPrompt
  <2> QED
    BY <2>1, <2>2, <2>3, EnvPageOnly DEF EnvInv, EnvRequests
<1>2. CASE Env!Leave
  <2>1. window' = Env!Closed /\ environmentsForm' = Env!EmptyForm
        /\ UNCHANGED <<envs, refs, deleted, passed, overtaken, missed, environmentsCalls, environmentsListed>>
    BY <1>2 DEF Env!Leave, Env!server
  <2>2. EnvPrompt'
    BY <1>2 DEF Env!Leave, EnvInv, EnvPrompt
  <2>3. None \notin Env!Clusters /\ None \notin Envs
    BY DEF Env!EnvironmentsAssumption, Env!Clusters
  <2>4. EnvPage'
    BY <2>1, <2>3, EnvClosed, EnvEmptyForm DEF EnvInv, EnvPage, Env!SavesOwn
  <2> QED
    BY <2>1, <2>2, <2>4, EnvPageOnly DEF EnvInv, EnvRequests
<1>3. ASSUME NEW e \in Env!Clusters \cup {None}, Env!CloseDefaultImportPrompt(e) PROVE EnvInv'
  <2>1. UNCHANGED <<envs, refs, deleted, passed, overtaken, missed, environmentsListed, window, environmentsForm, visit>>
        /\ prompt' = "shut" /\ skipped' = TRUE
    BY <1>3 DEF Env!CloseDefaultImportPrompt, Env!server, Env!dialogs, Env!Remembers
  <2>2. EnvPrompt' /\ EnvPage'
    BY <2>1 DEF EnvInv, EnvPrompt, EnvPage, Env!SavesOwn
  <2>3. \A q \in environmentsCalls' : EnvFine(q)
    <3>1. CASE e = None
      BY <1>3, <3>1 DEF Env!CloseDefaultImportPrompt, EnvInv, EnvRequests
    <3>2. CASE e # None
      <4>1. PICK c \in Configs : Env!Asks("import", e, c, Blank)
        BY <1>3, <3>2 DEF Env!CloseDefaultImportPrompt
      <4>2. e \in Envs /\ c # Blank
        BY <3>2 DEF Env!Clusters, Env!EnvironmentsAssumption
      <4> QED
        BY <3>2, <4>1, <4>2, EnvAsked DEF EnvOps
    <3> QED
      BY <3>1, <3>2
  <2> QED
    BY <2>1, <2>2, <2>3, EnvPageOnly DEF EnvInv
<1> QED
  BY <1>1, <1>2, <1>3

LEMMA EnvUnchanged ==
    ASSUME EnvInv, UNCHANGED Env!vars
    PROVE  EnvInv'
BY EnvServerOnly, EnvPageOnly DEF EnvInv, EnvRequests, Env!vars, Env!server, Env!dialogs, Env!intro

LEMMA EnvStep ==
    ASSUME EnvInv, Env!EnvironmentsAssumption, [Env!Next]_(Env!vars)
    PROVE  EnvInv'
<1>1. CASE UNCHANGED Env!vars
  BY <1>1, EnvUnchanged
<1>2. CASE \E r \in environmentsCalls :
             \/ Env!Begin(r) \/ Env!ReadAuth(r) \/ Env!FindCluster(r)
             \/ Env!DeleteEnvironment(r) \/ Env!Refer(r) \/ Env!Answer(r) \/ Env!Lost(r)
             \/ \E v \in {"ready", "unreachable"} : Env!Validate(r, v) \/ Env!CreateEnvironment(r, v)
  BY <1>2, EnvBegins, EnvDeletes, EnvAnswers, EnvValidate, EnvCreates
<1>3. CASE \E op \in {"create", "import", "update", "check", "delete", "refer"}, e \in Envs,
              c \in Configs \cup {Blank}, a \in Auths \cup {Blank} : Env!Others(op, e, c, a)
  BY <1>3, EnvOthersAsk
<1>4. CASE \/ \E e \in Envs : Env!OpenSettings(e) \/ Env!PressCheck(e)
           \/ Env!OpenCreateVirtualMachine \/ Env!CloseWindow
  BY <1>4, EnvOpens
<1>5. CASE \/ \E c \in Configs : Env!TypeCluster(c) \/ Env!TypeVirtualMachine(c)
           \/ \E a \in Auths : Env!TypeAuth(a)
  BY <1>5, EnvTypes
<1>6. CASE \/ Env!SubmitSettings \/ Env!PressDelete \/ Env!SubmitCheck \/ Env!PressCheckCluster
           \/ \E e \in Envs : Env!SubmitCreate(e)
           \/ \E e \in Env!Clusters \cup {None} : Env!ImportFromPicker(e)
  BY <1>6, EnvPresses
<1>7. CASE \/ Env!Discover \/ Env!Discovered \/ Env!Leave
           \/ \E e \in Env!Clusters \cup {None} : Env!CloseDefaultImportPrompt(e)
  BY <1>7, EnvPromptStep
<1>8. CASE Env!ListEnvironments
  BY <1>8, EnvLists
<1> QED
  BY <1>1, <1>2, <1>3, <1>4, <1>5, <1>6, <1>7, <1>8 DEF Env!Next

LEMMA EnvSound ==
    ASSUME EnvInv, Env!EnvironmentsAssumption
    PROVE  Env!TypeOK /\ Env!SavesOwn /\ Env!ReadyWasTested /\ Env!Protected
<1>1. /\ DOMAIN envs \subseteq Envs /\ \A e \in DOMAIN envs : envs[e] \in Env!Environment
      /\ \A e \in DOMAIN envs \cap Env!Clusters : envs[e].auth = Blank
      /\ refs \subseteq Envs /\ overtaken \subseteq Envs /\ missed \subseteq deleted
      /\ deleted \subseteq Envs \ DOMAIN envs /\ DOMAIN environmentsListed \subseteq Envs
  BY DEF EnvInv, EnvServer, EnvRecord, EnvPage
<1>2. /\ window.kind \in {"none", "settings", "create", "check"}
      /\ environmentsForm.config \in Configs \cup {Blank} /\ environmentsForm.auth \in Auths \cup {Blank}
  BY DEF EnvInv, EnvPage, EnvWindow, EnvForm
<1>3. (window.kind \in {"settings", "check"}) <=> (window.env \in Envs)
  BY DEF EnvInv, EnvPage
<1>4. \A r \in environmentsCalls : r.pc \in {"sent", "loaded", "working", "ok"} /\ (r.pc = "ok" => r.by = "page")
  BY DEF EnvInv, EnvRequests, EnvFine, EnvCall, EnvRequest
<1>5. prompt \in {"none", "asked", "open", "shut"}
  BY DEF EnvInv, EnvPrompt
<1>6. Env!TypeOK
  BY <1>1, <1>2, <1>3, <1>4, <1>5 DEF Env!TypeOK
<1> QED
  BY <1>6 DEF EnvInv, EnvPage, EnvKept

LEMMA EnvConfigs ==
    ASSUME EnvInv, Env!EnvironmentsAssumption, [Env!Next]_(Env!vars)
    PROVE  Env!ConfigBySave
<1>1. ASSUME envs' = envs PROVE Env!ConfigBySave
  BY <1>1 DEF Env!ConfigBySave
<1>2. CASE \E r \in environmentsCalls :
             \/ Env!DeleteEnvironment(r) \/ Env!Refer(r)
             \/ \E v \in {"ready", "unreachable"} : Env!Validate(r, v) \/ Env!CreateEnvironment(r, v)
  BY <1>2, EnvValidate, EnvCreates, EnvDeletes
<1>3. CASE \E r \in environmentsCalls : \/ Env!Begin(r) \/ Env!ReadAuth(r) \/ Env!FindCluster(r)
                                       \/ Env!Answer(r) \/ Env!Lost(r)
  <2>1. envs' = envs
    BY <1>3 DEF Env!Begin, Env!ReadAuth, Env!FindCluster, Env!Answer, Env!Lost, Env!Refuses, Env!server
  <2> QED
    BY <1>1, <2>1
<1>4. CASE ~(\E r \in environmentsCalls :
             \/ Env!Begin(r) \/ Env!ReadAuth(r) \/ Env!FindCluster(r) \/ Env!DeleteEnvironment(r) \/ Env!Refer(r) \/ Env!Answer(r) \/ Env!Lost(r)
             \/ \E v \in {"ready", "unreachable"} : Env!Validate(r, v) \/ Env!CreateEnvironment(r, v))
  <2>1. envs' = envs
    BY <1>4 DEF Env!Next, Env!vars, Env!server, Env!Others, Env!ListEnvironments, Env!OpenSettings,
      Env!PressCheck, Env!ImportFromPicker, Env!OpenCreateVirtualMachine, Env!CloseWindow, Env!Types,
      Env!TypeCluster, Env!TypeVirtualMachine, Env!TypeAuth, Env!SubmitSettings, Env!PressDelete,
      Env!SubmitCheck, Env!PressCheckCluster, Env!SubmitCreate, Env!Discover, Env!Discovered,
      Env!CloseDefaultImportPrompt, Env!Leave
  <2> QED
    BY <1>1, <2>1
<1> QED
  BY <1>2, <1>3, <1>4

LEMMA EnvPromptOnce ==
    ASSUME EnvInv, [Env!Next]_(Env!vars)
    PROVE  Env!PromptOnce
<1> SUFFICES ASSUME closed, prompt # "open", prompt' = "open" PROVE FALSE
  BY DEF Env!PromptOnce
<1>1. Env!Discovered
  BY DEF Env!Next, Env!vars, Env!intro, Env!Begin, Env!ReadAuth, Env!FindCluster, Env!DeleteEnvironment, Env!Refer, Env!Answer, Env!Lost,
      Env!Validate, Env!CreateEnvironment, Env!Others, Env!ListEnvironments, Env!OpenSettings,
      Env!PressCheck, Env!ImportFromPicker, Env!OpenCreateVirtualMachine, Env!CloseWindow, Env!Types,
      Env!TypeCluster, Env!TypeVirtualMachine, Env!TypeAuth, Env!SubmitSettings, Env!PressDelete,
      Env!SubmitCheck, Env!PressCheckCluster, Env!SubmitCreate, Env!Discover,
      Env!CloseDefaultImportPrompt, Env!Leave
<1> QED
  BY <1>1 DEF Env!Discovered, EnvInv, EnvPrompt

-----------------------------------------------------------------------------
\* Variables have their types, Save in the settings of an environment never writes
\* what was loaded of another (CheckAnswered fills the form), and ready means tested
\* as it is (Validate), but for what a check has found out about a virtual machine
\* that was saved meanwhile.
THEOREM EnvironmentsAreTested ==
    ASSUME Env!EnvironmentsAssumption
    PROVE  Env!Spec => [](Env!TypeOK /\ Env!SavesOwn /\ Env!ReadyWasTested)
<1>1. Env!Init => EnvInv
  BY EnvInit
<1>2. EnvInv /\ [Env!Next]_(Env!vars) => EnvInv'
  BY EnvStep
<1>3. EnvInv => Env!TypeOK /\ Env!SavesOwn /\ Env!ReadyWasTested
  BY EnvSound
<1> QED
  BY <1>1, <1>2, <1>3, PTL DEF Env!Spec

\* What is referred to is deleted only in Postgres and when the reference is made
\* between the count and the deletion; a configuration changes only by a save of
\* it, or in Postgres by a check or an import of a cluster that a save has overtaken
\* and that takes it back; and a prompt that was closed is not shown again
\* (DeleteEnvironment, Checked, CloseDefaultImportPrompt).
THEOREM EnvironmentsStayAsChosen ==
    ASSUME Env!EnvironmentsAssumption
    PROVE  Env!Spec => []Env!Protected /\ [][Env!ConfigBySave /\ Env!PromptOnce]_(Env!vars)
<1>1. Env!Init => EnvInv
  BY EnvInit
<1>2. EnvInv /\ [Env!Next]_(Env!vars) => EnvInv' /\ Env!ConfigBySave /\ Env!PromptOnce
  BY EnvStep, EnvConfigs, EnvPromptOnce
<1>3. EnvInv => Env!Protected
  BY EnvSound
<1> QED
  BY <1>1, <1>2, <1>3, PTL DEF Env!Spec

-----------------------------------------------------------------------------
(* The settings page.                                                      *)

CONSTANTS AdminWorkspaces, AdminTeam, AdminNames, AdminDoes, AdminEdits, AdminOthers, AdminSwitches,
    AdminFails, AdminLinks
VARIABLES settings, profile, links, ws, me, loaded, workspaceSettingsListed, workspaceSettingsForm,
    draft, touched, strayed, dialog, shown, workspaceSettingsPosts, workspaceSettingsBudget

Admin == INSTANCE WorkspaceSettings WITH Workspaces <- AdminWorkspaces, Team <- AdminTeam,
    Names <- AdminNames, Does <- AdminDoes, MaxEdits <- AdminEdits, MaxOthers <- AdminOthers,
    MaxSwitches <- AdminSwitches, MaxFails <- AdminFails, MaxLinks <- AdminLinks,
    listed <- workspaceSettingsListed, form <- workspaceSettingsForm,
    posts <- workspaceSettingsPosts, budget <- workspaceSettingsBudget

LinkStates == {"open", "used", "expired", "revoked"}
AdminOps == {"settings", "identity", "invitation", "credential", "revokeInvitation", "revokeToken"}

\* A request is what it carries and how far it is.
AdminPost(r) ==
    /\ r = [op |-> r.op, of |-> r.of, body |-> r.body, pc |-> r.pc]
    /\ r.op \in AdminOps /\ r.of \in AdminWorkspaces
    /\ r.op = "settings" => r.body \in Admin!Settings
    /\ r.op = "identity" => r.body \in AdminNames
    /\ r.pc = "refetch" => r.op = "settings"
    /\ r.op \in {"revokeInvitation", "revokeToken"} => r.body \in DOMAIN links

AdminServer ==
    /\ settings \in [AdminWorkspaces -> Admin!Settings] /\ profile \in [AdminWorkspaces -> Admin!Profile]
    /\ links \in Seq(Admin!Link) /\ Len(links) <= AdminLinks

AdminView ==
    /\ ws \in AdminWorkspaces /\ me \in [AdminWorkspaces -> Admin!Profile]
    /\ loaded \in [AdminWorkspaces -> SUBSET Admin!Settings]
    /\ \A w \in AdminWorkspaces : \A s, t \in loaded[w] : s = t
    /\ workspaceSettingsListed \in [AdminWorkspaces -> SUBSET ((DOMAIN links) \X LinkStates)]

AdminForms ==
    /\ workspaceSettingsForm \in Admin!Settings /\ draft \in AdminNames
    /\ touched \subseteq Admin!Fields \cup {"name"} /\ strayed \subseteq Admin!Fields \cup {"name"}
    /\ dialog \in {"none", "invitation", "credential"}

AdminPosts ==
    /\ \A r \in workspaceSettingsPosts : AdminPost(r)
    /\ \A r, q \in workspaceSettingsPosts : r.op = q.op => r = q

\* What the user sends for the workspace on screen is what the forms show, apart
\* from what he changed and what a save of another workspace filled.
AdminChosen ==
    /\ Admin!OnlyChosen
    /\ \A r \in workspaceSettingsPosts : r.of = ws =>
         /\ r.op = "settings" => \A s \in loaded[ws], f \in Admin!Fields \ (touched \cup strayed) : r.body[f] = s[f]
         /\ r.op = "identity" => "name" \in touched \cup strayed

AdminBudget == workspaceSettingsBudget \in [{"edits", "others", "switches", "fails"} -> Nat]

AdminInv == AdminServer /\ AdminView /\ AdminForms /\ AdminPosts /\ AdminBudget /\ AdminChosen

LEMMA SameAdminCardinality ==
    ASSUME NEW S
    PROVE  Admin!Cardinality(S) = Cardinality(S)
BY DEF Cardinality, Admin!Cardinality

LEMMA AdminInit ==
    ASSUME Admin!WorkspaceSettingsAssumption, Admin!Init
    PROVE  AdminInv
<1>1. \E n \in AdminNames : TRUE
  <2>1. Cardinality({}) = 0
    BY FS_EmptySet
  <2>2. Cardinality(AdminNames) > 1
    BY SameAdminCardinality DEF Admin!WorkspaceSettingsAssumption
  <2> QED
    BY <2>1, <2>2
<1> DEFINE n == CHOOSE n \in AdminNames : TRUE
<1>2. n \in AdminNames
  BY <1>1
<1> HIDE DEF n
<1>3. /\ settings = [w \in AdminWorkspaces |-> Admin!Off]
      /\ profile \in [AdminWorkspaces -> [name : {n}, role : {"admin"}]]
      /\ links = <<>> /\ ws \in AdminWorkspaces /\ me = profile
      /\ loaded = [w \in AdminWorkspaces |-> {}] /\ workspaceSettingsListed = [w \in AdminWorkspaces |-> {}]
      /\ workspaceSettingsForm = Admin!Off /\ draft = me[ws].name /\ touched = {} /\ strayed = {}
      /\ dialog = "none" /\ shown = {} /\ workspaceSettingsPosts = {}
  BY DEF Admin!Init, n
<1>4. Admin!Off \in Admin!Settings
  BY DEF Admin!Off, Admin!Settings
<1>5. profile \in [AdminWorkspaces -> Admin!Profile] /\ profile[ws].name \in AdminNames
  BY <1>2, <1>3 DEF Admin!Profile, Admin!Managers
<1>6. AdminServer
  BY <1>3, <1>4, <1>5 DEF AdminServer, Admin!WorkspaceSettingsAssumption
<1>7. AdminView /\ AdminForms /\ AdminPosts
  BY <1>3, <1>4, <1>5 DEF AdminView, AdminForms, AdminPosts
<1>8. AdminChosen
  BY <1>3 DEF AdminChosen, Admin!OnlyChosen
<1>9. workspaceSettingsBudget \in [{"edits", "others", "switches", "fails"} -> Nat]
  BY DEF Admin!Init, Admin!WorkspaceSettingsAssumption
<1> QED
  BY <1>6, <1>7, <1>8, <1>9 DEF AdminInv, AdminBudget

\* What spending leaves of the budget.
LEMMA AdminSpend ==
    ASSUME workspaceSettingsBudget \in [{"edits", "others", "switches", "fails"} -> Nat],
           NEW k \in {"edits", "others", "switches", "fails"}, Admin!Spend(k)
    PROVE  /\ workspaceSettingsBudget' \in [{"edits", "others", "switches", "fails"} -> Nat]
           /\ workspaceSettingsBudget[k] > 0 /\ workspaceSettingsBudget'[k] < workspaceSettingsBudget[k]
           /\ k # "switches" => workspaceSettingsBudget'["switches"] = workspaceSettingsBudget["switches"]
BY DEF Admin!Spend

LEMMA AdminOthersSpent ==
    ASSUME workspaceSettingsBudget \in [{"edits", "others", "switches", "fails"} -> Nat], Admin!Spend("others")
    PROVE  workspaceSettingsBudget'.others < workspaceSettingsBudget.others
BY DEF Admin!Spend

\* A request stays what it is while links are only added.
LEMMA AdminPostStays ==
    ASSUME NEW r, AdminPost(r), DOMAIN links \subseteq DOMAIN links'
    PROVE  AdminPost(r)'
BY DEF AdminPost

LEMMA AdminPostsStay ==
    ASSUME AdminPosts, DOMAIN links \subseteq DOMAIN links', workspaceSettingsPosts' \subseteq workspaceSettingsPosts
    PROVE  AdminPosts'
BY DEF AdminPosts, AdminPost

LEMMA AdminAsks ==
    ASSUME AdminInv, NEW op \in AdminOps, NEW body, Admin!Asks(op, body), links' = links,
           op = "settings" => body \in Admin!Settings, op = "identity" => body \in AdminNames,
           op \in {"revokeInvitation", "revokeToken"} => body \in DOMAIN links
    PROVE  /\ AdminPosts'
           /\ \E m : /\ workspaceSettingsPosts' = workspaceSettingsPosts \cup {m}
                     /\ m.op = op /\ m.of = ws /\ m.body = body
<1>1. PICK m : /\ m = [op |-> op, of |-> ws, body |-> body, pc |-> "sent"]
              /\ workspaceSettingsPosts' = workspaceSettingsPosts \cup {m}
              /\ \A r \in workspaceSettingsPosts : r.op # op
  BY DEF Admin!Asks, Admin!Free, Admin!Pending
<1>2. ws \in AdminWorkspaces /\ \A r \in workspaceSettingsPosts : AdminPost(r)
  BY DEF AdminInv, AdminView, AdminPosts
<1>3. m = [op |-> m.op, of |-> m.of, body |-> m.body, pc |-> m.pc] /\ m.op = op /\ m.of = ws /\ m.body = body
      /\ m.pc = "sent"
  BY <1>1
<1>4. AdminPost(m)'
  BY <1>2, <1>3 DEF AdminPost
<1>5. \A r \in workspaceSettingsPosts : AdminPost(r)'
  BY <1>2, AdminPostStays
<1>6. \A r \in workspaceSettingsPosts' : AdminPost(r)'
  BY <1>1, <1>4, <1>5
<1>7. \A r, q \in workspaceSettingsPosts' : r.op = q.op => r = q
  BY <1>1, <1>3 DEF AdminInv, AdminPosts
<1> QED
  BY <1>1, <1>3, <1>6, <1>7 DEF AdminPosts

LEMMA AdminGoes ==
    ASSUME AdminInv, NEW r \in workspaceSettingsPosts, NEW pc, NEW body, Admin!Goes(r, pc, body),
           DOMAIN links \subseteq DOMAIN links',
           body = r.body \/ r.op \in {"invitation", "credential"}, pc = "refetch" => r.op = "settings"
    PROVE  /\ AdminPosts'
           /\ \E m : /\ workspaceSettingsPosts' = (workspaceSettingsPosts \ {r}) \cup {m}
                     /\ m.op = r.op /\ m.of = r.of /\ m.pc = pc
                     /\ r.op \notin {"invitation", "credential"} => m.body = r.body
<1> DEFINE m == [r EXCEPT !.pc = pc, !.body = body]
<1>1. \A q \in workspaceSettingsPosts : AdminPost(q)
  BY DEF AdminInv, AdminPosts
<1>2. r = [op |-> r.op, of |-> r.of, body |-> r.body, pc |-> r.pc]
  BY <1>1 DEF AdminPost
<1> DEFINE T == [op : {r.op}, of : {r.of}, body : {r.body, body}, pc : {r.pc, pc}]
<1>3. m \in T /\ m.op = r.op /\ m.of = r.of /\ m.body = body /\ m.pc = pc
  <2>1. r \in T
    BY <1>2
  <2> QED
    BY <2>1
<1>4. ASSUME NEW x \in T PROVE x = [op |-> x.op, of |-> x.of, body |-> x.body, pc |-> x.pc]
  OBVIOUS
<1>5. workspaceSettingsPosts' = (workspaceSettingsPosts \ {r}) \cup {m}
  BY DEF Admin!Goes
<1> HIDE DEF m
<1>6. AdminPost(m)'
  <2>1. m = [op |-> m.op, of |-> m.of, body |-> m.body, pc |-> m.pc]
    BY <1>3, <1>4
  <2> QED
    BY <1>1, <1>3, <2>1 DEF AdminPost
<1>7. \A q \in workspaceSettingsPosts : AdminPost(q)'
  BY <1>1, AdminPostStays
<1>8. \A q \in workspaceSettingsPosts' : AdminPost(q)'
  BY <1>5, <1>6, <1>7
<1>9. \A q, p \in workspaceSettingsPosts' : q.op = p.op => q = p
  BY <1>3, <1>5 DEF AdminInv, AdminPosts
<1> QED
  BY <1>3, <1>5, <1>8, <1>9 DEF AdminPosts

\* A link changes its state only.
LEMMA AdminLinkChanges ==
    ASSUME AdminServer, NEW n \in DOMAIN links, NEW s \in LinkStates,
           links' = [links EXCEPT ![n].state = s]
    PROVE  links' \in Seq(Admin!Link) /\ Len(links') = Len(links) /\ DOMAIN links' = DOMAIN links
<1> DEFINE l == [links[n] EXCEPT !.state = s]
<1>1. links \in Seq(Admin!Link) /\ links[n] \in Admin!Link
  BY DEF AdminServer
<1>2. l \in Admin!Link
  BY <1>1 DEF Admin!Link, LinkStates
<1>3. links' = [links EXCEPT ![n] = l]
  OBVIOUS
<1> HIDE DEF l
<1> QED
  BY <1>1, <1>2, <1>3

LEMMA AdminListing ==
    ASSUME AdminServer, NEW w
    PROVE  Admin!Listed(w) \subseteq (DOMAIN links) \X LinkStates
<1>1. \A n \in DOMAIN links : links[n] \in Admin!Link
  BY DEF AdminServer
<1>2. \A n \in DOMAIN links : links[n].state \in LinkStates
  BY <1>1 DEF Admin!Link, LinkStates
<1> QED
  BY <1>2 DEF Admin!Listed, Admin!Listing

-----------------------------------------------------------------------------
AdminBase == AdminServer /\ AdminView /\ AdminForms /\ AdminPosts

\* Other admins, and time.
LEMMA AdminOthersStep ==
    ASSUME AdminInv,
           \/ \E w \in AdminWorkspaces : \/ \E s \in Admin!Settings : Admin!OtherSaves(w, s)
                                         \/ \E n \in AdminNames : Admin!OtherRenames(w, n)
                                         \/ Admin!Demoted(w)
           \/ \E n \in DOMAIN links : \E s \in {"used", "expired"} : Admin!LinkEnds(n, s)
    PROVE  AdminBase'
<1>1. UNCHANGED <<ws, me, loaded, workspaceSettingsListed, workspaceSettingsForm, draft, touched, strayed, dialog,
                  workspaceSettingsPosts>>
  BY DEF Admin!OtherSaves, Admin!OtherRenames, Admin!Demoted, Admin!LinkEnds, Admin!page
<1>2. AdminServer' /\ DOMAIN links' = DOMAIN links
  <2>1. ASSUME NEW w \in AdminWorkspaces, NEW s \in Admin!Settings, Admin!OtherSaves(w, s)
        PROVE  AdminServer' /\ DOMAIN links' = DOMAIN links
    BY <2>1 DEF Admin!OtherSaves, AdminInv, AdminServer
  <2>2. ASSUME NEW w \in AdminWorkspaces, NEW n \in AdminNames, Admin!OtherRenames(w, n)
        PROVE  AdminServer' /\ DOMAIN links' = DOMAIN links
    <3>1. [profile[w] EXCEPT !.name = n] \in Admin!Profile
      BY DEF AdminInv, AdminServer, Admin!Profile
    <3>2. profile' = [profile EXCEPT ![w] = [profile[w] EXCEPT !.name = n]] /\ UNCHANGED <<settings, links>>
      BY <2>2 DEF Admin!OtherRenames
    <3> QED
      BY <3>1, <3>2 DEF AdminInv, AdminServer
  <2>3. ASSUME NEW w \in AdminWorkspaces, Admin!Demoted(w)
        PROVE  AdminServer' /\ DOMAIN links' = DOMAIN links
    <3>1. [profile[w] EXCEPT !.role = "member"] \in Admin!Profile
      BY DEF AdminInv, AdminServer, Admin!Profile
    <3>2. profile' = [profile EXCEPT ![w] = [profile[w] EXCEPT !.role = "member"]] /\ UNCHANGED <<settings, links>>
      BY <2>3 DEF Admin!Demoted
    <3> QED
      BY <3>1, <3>2 DEF AdminInv, AdminServer
  <2>4. ASSUME NEW n \in DOMAIN links, NEW s \in {"used", "expired"}, Admin!LinkEnds(n, s)
        PROVE  AdminServer' /\ DOMAIN links' = DOMAIN links
    <3> DEFINE t == IF s = "used" /\ links[n].kind = "credential" THEN "open" ELSE s
    <3>1. links' = [links EXCEPT ![n].state = t] /\ UNCHANGED <<settings, profile>> /\ t \in LinkStates
      BY <2>4 DEF Admin!LinkEnds, LinkStates
    <3> HIDE DEF t
    <3>2. links' \in Seq(Admin!Link) /\ Len(links') = Len(links) /\ DOMAIN links' = DOMAIN links
      BY <3>1, AdminLinkChanges DEF AdminInv
    <3> QED
      BY <3>1, <3>2 DEF AdminInv, AdminServer
  <2> QED
    BY <2>1, <2>2, <2>3, <2>4
<1>3. AdminPosts'
  BY <1>1, <1>2, AdminPostsStay DEF AdminInv
<1>4. AdminView' /\ AdminForms'
  BY <1>1, <1>2 DEF AdminInv, AdminView, AdminForms
<1> QED
  BY <1>2, <1>3, <1>4 DEF AdminBase

\* The effect on the settings that were loaded.
LEMMA AdminFills ==
    ASSUME AdminInv, NEW s \in Admin!Settings, NEW saving \in BOOLEAN, Admin!FillsEffect(ws, s, saving)
    PROVE  /\ loaded' = [loaded EXCEPT ![ws] = {s}]
           /\ workspaceSettingsForm' \in {s, workspaceSettingsForm}
           /\ touched' \in {touched, touched \cup Admin!Fields, touched \ Admin!Fields}
           /\ strayed' \in {strayed, strayed \ Admin!Fields}
           /\ loaded[ws] # {s} => workspaceSettingsForm' = s
           /\ loaded[ws] = {s} => UNCHANGED <<workspaceSettingsForm, touched, strayed>>
           /\ loaded[ws] # {s} /\ saving => touched' = touched \cup Admin!Fields
BY DEF Admin!FillsEffect, Admin!Fills, Admin!Filled

LEMMA AdminLoaded ==
    ASSUME AdminInv, NEW s \in Admin!Settings, NEW saving \in BOOLEAN, Admin!FillsEffect(ws, s, saving),
           UNCHANGED <<settings, profile, links, ws, me, workspaceSettingsListed, draft, dialog>>,
           workspaceSettingsPosts' \subseteq workspaceSettingsPosts
    PROVE  AdminBase'
<1>1. AdminServer'
  BY DEF AdminInv, AdminServer
<1>2. /\ ws \in AdminWorkspaces /\ loaded' = [loaded EXCEPT ![ws] = {s}]
      /\ workspaceSettingsForm' \in {s, workspaceSettingsForm}
      /\ touched' \in {touched, touched \cup Admin!Fields, touched \ Admin!Fields}
      /\ strayed' \in {strayed, strayed \ Admin!Fields}
  BY AdminFills DEF AdminInv, AdminView
<1>3. AdminView'
  BY <1>2 DEF AdminInv, AdminView
<1>4. AdminForms'
  BY <1>2 DEF AdminInv, AdminForms
<1>5. AdminPosts'
  BY AdminPostsStay DEF AdminInv
<1> QED
  BY <1>1, <1>3, <1>4, <1>5 DEF AdminBase

\* What the page loads.
LEMMA AdminLoadStep ==
    ASSUME AdminInv,
           \/ Admin!LoadSettings \/ Admin!RefreshAuth \/ Admin!PollLists
           \/ \E w \in AdminWorkspaces : Admin!Switch(w)
    PROVE  AdminBase'
<1>1. CASE Admin!LoadSettings
  <2>1. settings[ws] \in Admin!Settings /\ Admin!Saving("settings", ws) \in BOOLEAN
    BY DEF AdminInv, AdminServer, AdminView, Admin!Saving
  <2>2. Admin!FillsEffect(ws, settings[ws], Admin!Saving("settings", ws))
        /\ UNCHANGED <<settings, profile, links, ws, me, workspaceSettingsListed, draft, dialog,
                       workspaceSettingsPosts>>
    BY <1>1 DEF Admin!LoadSettings, Admin!server
  <2> QED
    BY <2>1, <2>2, AdminLoaded
<1>2. CASE Admin!RefreshAuth
  <2>1. /\ me' = profile /\ draft' \in {draft, profile[ws].name} /\ touched' \subseteq touched \cup {"name"}
        /\ strayed' \subseteq strayed
        /\ UNCHANGED <<settings, profile, links, ws, loaded, workspaceSettingsListed, workspaceSettingsForm,
                       dialog, workspaceSettingsPosts>>
    BY <1>2 DEF Admin!RefreshAuth, Admin!Profiled, Admin!server
  <2>2. profile[ws].name \in AdminNames
    BY DEF AdminInv, AdminServer, AdminView, Admin!Profile
  <2> QED
    BY <2>1, <2>2, AdminPostsStay DEF AdminInv, AdminBase, AdminServer, AdminView, AdminForms
<1>3. CASE Admin!PollLists
  <2>1. /\ workspaceSettingsListed' = [workspaceSettingsListed EXCEPT ![ws] = Admin!Listed(ws)]
        /\ UNCHANGED <<settings, profile, links, ws, me, loaded, workspaceSettingsForm, draft, touched, strayed,
                       dialog, workspaceSettingsPosts>>
    BY <1>3 DEF Admin!PollLists, Admin!server, Admin!page
  <2>2. Admin!Listed(ws) \subseteq (DOMAIN links) \X LinkStates
    BY AdminListing DEF AdminInv
  <2>3. AdminView'
    BY <2>1, <2>2 DEF AdminInv, AdminView
  <2> QED
    BY <2>1, <2>3, AdminPostsStay DEF AdminInv, AdminBase, AdminServer, AdminForms
<1>4. ASSUME NEW w \in AdminWorkspaces, Admin!Switch(w) PROVE AdminBase'
  <2>1. /\ ws' = w /\ draft' = me[w].name /\ touched' \subseteq Admin!Fields \cup {"name"} /\ strayed' = {}
        /\ loaded[w] # {} => workspaceSettingsForm' \in loaded[w]
        /\ loaded[w] = {} => workspaceSettingsForm' = workspaceSettingsForm
        /\ UNCHANGED <<settings, profile, links, me, loaded, workspaceSettingsListed, dialog,
                       workspaceSettingsPosts>>
    BY <1>4 DEF Admin!Switch, Admin!server
  <2>2. me[w].name \in AdminNames
    BY DEF AdminInv, AdminView, Admin!Profile
  <2>3. AdminForms'
    BY <2>1, <2>2 DEF AdminInv, AdminView, AdminForms
  <2>4. AdminView' /\ AdminServer'
    BY <2>1 DEF AdminInv, AdminView, AdminServer
  <2> QED
    BY <2>1, <2>3, <2>4, AdminPostsStay DEF AdminInv, AdminBase
<1> QED
  BY <1>1, <1>2, <1>3, <1>4

\* The forms, the dialogs and the lists.
LEMMA AdminFormStep ==
    ASSUME AdminInv,
           \/ \E f \in Admin!Fields : Admin!Toggle(f)
           \/ \E n \in AdminNames : Admin!Edit(n)
           \/ Admin!PressSave \/ Admin!SubmitIdentity
           \/ \E k \in {"invitation", "credential"} : Admin!OpenDialog(k)
           \/ Admin!CloseDialog \/ Admin!SubmitDialog
           \/ \E n \in DOMAIN links : Admin!Dismiss(n) \/ Admin!PressRevoke(n)
    PROVE  AdminBase'
<1>1. UNCHANGED <<settings, profile, links, ws, me, loaded, workspaceSettingsListed>>
  BY DEF Admin!Toggle, Admin!Edit, Admin!PressSave, Admin!SubmitIdentity, Admin!OpenDialog,
    Admin!CloseDialog, Admin!SubmitDialog, Admin!Dismiss, Admin!PressRevoke, Admin!server
<1>2. AdminServer' /\ AdminView'
  BY <1>1 DEF AdminInv, AdminServer, AdminView
<1>3. AdminForms
  BY DEF AdminInv
<1>4. ASSUME UNCHANGED <<workspaceSettingsForm, draft, touched, strayed>>, dialog' \in {"none", "invitation", "credential"},
             workspaceSettingsPosts' = workspaceSettingsPosts
      PROVE  AdminBase'
  BY <1>1, <1>2, <1>3, <1>4, AdminPostsStay DEF AdminInv, AdminBase, AdminForms
<1>5. CASE \/ \E k \in {"invitation", "credential"} : Admin!OpenDialog(k)
           \/ Admin!CloseDialog \/ \E n \in DOMAIN links : Admin!Dismiss(n)
  BY <1>3, <1>4, <1>5 DEF Admin!OpenDialog, Admin!CloseDialog, Admin!Dismiss, AdminForms
<1>6. ASSUME NEW f \in Admin!Fields, Admin!Toggle(f) PROVE AdminBase'
  <2>1. /\ workspaceSettingsForm' = [workspaceSettingsForm EXCEPT ![f] = ~workspaceSettingsForm[f]]
        /\ touched' = touched \cup {f} /\ UNCHANGED <<draft, strayed, dialog, workspaceSettingsPosts>>
    BY <1>6 DEF Admin!Toggle
  <2>2. workspaceSettingsForm \in [Admin!Fields -> BOOLEAN]
    BY <1>3 DEF AdminForms, Admin!Settings
  <2>3. workspaceSettingsForm' \in Admin!Settings
    BY <2>1, <2>2, Zenon DEF Admin!Settings
  <2> QED
    BY <1>1, <1>2, <1>3, <2>1, <2>3, AdminPostsStay DEF AdminInv, AdminBase, AdminForms
<1>7. ASSUME NEW n \in AdminNames, Admin!Edit(n) PROVE AdminBase'
  <2>1. draft' = n /\ touched' = touched \cup {"name"}
        /\ UNCHANGED <<workspaceSettingsForm, strayed, dialog, workspaceSettingsPosts>>
    BY <1>7 DEF Admin!Edit
  <2> QED
    BY <1>1, <1>2, <1>3, <2>1, AdminPostsStay DEF AdminInv, AdminBase, AdminForms
<1>8. ASSUME UNCHANGED Admin!page, AdminPosts' PROVE AdminBase'
  BY <1>2, <1>3, <1>8 DEF AdminBase, AdminForms, Admin!page
<1>9. CASE Admin!PressSave
  BY <1>1, <1>3, <1>8, <1>9, AdminAsks DEF Admin!PressSave, AdminOps, AdminForms
<1>10. CASE Admin!SubmitIdentity
  BY <1>1, <1>3, <1>8, <1>10, AdminAsks DEF Admin!SubmitIdentity, AdminOps, AdminForms
<1>11. CASE Admin!SubmitDialog
  BY <1>1, <1>3, <1>8, <1>11, AdminAsks DEF Admin!SubmitDialog, AdminOps, AdminForms
<1>12. ASSUME NEW n \in DOMAIN links, Admin!PressRevoke(n) PROVE AdminBase'
  <2>1. Admin!RevokeOf(n).op \in {"revokeInvitation", "revokeToken"}
    BY DEF Admin!RevokeOf
  <2> QED
    BY <1>1, <1>8, <1>12, <2>1, AdminAsks DEF Admin!PressRevoke, AdminOps
<1> QED
  BY <1>5, <1>6, <1>7, <1>9, <1>10, <1>11, <1>12

\* The requests and their answers.
LEMMA AdminHandle ==
    ASSUME AdminInv, Admin!WorkspaceSettingsAssumption, NEW r \in workspaceSettingsPosts, Admin!Handle(r)
    PROVE  /\ AdminBase'
           /\ \E m : /\ workspaceSettingsPosts' = (workspaceSettingsPosts \ {r}) \cup {m}
                     /\ m.op = r.op /\ m.of = r.of
                     /\ r.op \notin {"invitation", "credential"} => m.body = r.body
           /\ settings' # settings => r.op = "settings" /\ settings' = [settings EXCEPT ![r.of] = r.body]
<1>1. AdminPost(r) /\ r.of \in AdminWorkspaces /\ r.op \in AdminOps
  BY DEF AdminInv, AdminPosts, AdminPost
<1>2. UNCHANGED <<ws, me, loaded, workspaceSettingsListed, workspaceSettingsForm, draft, touched, strayed, dialog>>
  BY DEF Admin!Handle, Admin!page
<1>3. ASSUME AdminServer', DOMAIN links \subseteq DOMAIN links', NEW body, Admin!Goes(r, "ok", body),
             body = r.body \/ r.op \in {"invitation", "credential"}
      PROVE  /\ AdminBase'
             /\ \E m : /\ workspaceSettingsPosts' = (workspaceSettingsPosts \ {r}) \cup {m}
                       /\ m.op = r.op /\ m.of = r.of
                       /\ r.op \notin {"invitation", "credential"} => m.body = r.body
  <2>1. AdminForms'
    BY <1>2 DEF AdminInv, AdminForms
  <2>2. AdminView'
    BY <1>2, <1>3 DEF AdminInv, AdminView
  <2>3. /\ AdminPosts'
        /\ \E m : /\ workspaceSettingsPosts' = (workspaceSettingsPosts \ {r}) \cup {m}
                  /\ m.op = r.op /\ m.of = r.of /\ m.pc = "ok"
                  /\ r.op \notin {"invitation", "credential"} => m.body = r.body
    BY <1>3, AdminGoes
  <2> QED
    BY <1>3, <2>1, <2>2, <2>3 DEF AdminBase
<1>4. CASE r.op = "settings"
  <2>1. settings' = [settings EXCEPT ![r.of] = r.body] /\ UNCHANGED <<profile, links>> /\ Admin!Goes(r, "ok", r.body)
    BY <1>4 DEF Admin!Handle, Admin!Target
  <2>2. AdminServer'
    BY <1>1, <1>4, <2>1 DEF AdminPost, AdminInv, AdminServer
  <2> QED
    BY <1>3, <1>4, <2>1, <2>2
<1>5. CASE r.op = "identity"
  <2>1. profile' = [profile EXCEPT ![r.of] = [profile[r.of] EXCEPT !.name = r.body]]
        /\ UNCHANGED <<settings, links>> /\ Admin!Goes(r, "ok", r.body)
    BY <1>5 DEF Admin!Handle, Admin!Target
  <2>2. [profile[r.of] EXCEPT !.name = r.body] \in Admin!Profile
    BY <1>1, <1>5 DEF AdminPost, AdminInv, AdminServer, Admin!Profile
  <2>3. AdminServer'
    BY <1>1, <2>1, <2>2 DEF AdminInv, AdminServer
  <2> QED
    BY <1>3, <2>1, <2>3
<1>6. CASE r.op \in {"invitation", "credential"}
  <2> DEFINE l == [of |-> r.of, kind |-> r.op, state |-> "open"]
  <2>1. /\ links' = Append(links, l) /\ Len(links) < AdminLinks
        /\ UNCHANGED <<settings, profile>> /\ Admin!Goes(r, "ok", Len(links'))
    BY <1>6 DEF Admin!Handle, Admin!Target
  <2>2. l \in Admin!Link
    BY <1>1, <1>6 DEF Admin!Link
  <2> HIDE DEF l
  <2>3. links' \in Seq(Admin!Link) /\ Len(links') = Len(links) + 1 /\ DOMAIN links \subseteq DOMAIN links'
    BY <2>1, <2>2 DEF AdminInv, AdminServer
  <2>4. AdminLinks \in Nat /\ Len(links) \in Nat
    BY DEF Admin!WorkspaceSettingsAssumption, AdminInv, AdminServer
  <2>5. AdminServer'
    BY <2>1, <2>3, <2>4 DEF AdminInv, AdminServer
  <2> QED
    BY <1>3, <1>6, <2>1, <2>3, <2>5
<1>7. CASE r.op \in {"revokeInvitation", "revokeToken"}
  <2>1. /\ links' = [links EXCEPT ![r.body].state = "revoked"]
        /\ UNCHANGED <<settings, profile>> /\ Admin!Goes(r, "ok", r.body)
    BY <1>7 DEF Admin!Handle
  <2>2. r.body \in DOMAIN links
    BY <1>1, <1>7 DEF AdminPost
  <2>3. "revoked" \in LinkStates
    BY DEF LinkStates
  <2>4. links' \in Seq(Admin!Link) /\ Len(links') = Len(links) /\ DOMAIN links' = DOMAIN links
    BY <2>1, <2>2, <2>3, AdminLinkChanges DEF AdminInv
  <2>5. AdminServer'
    BY <2>1, <2>4 DEF AdminInv, AdminServer
  <2> QED
    BY <1>3, <2>1, <2>4, <2>5
<1> QED
  BY <1>1, <1>4, <1>5, <1>6, <1>7 DEF AdminOps

LEMMA AdminAnswerStep ==
    ASSUME AdminInv, NEW r \in workspaceSettingsPosts,
           Admin!Refused(r) \/ Admin!Lost(r) \/ Admin!Succeeds(r) \/ Admin!SettingsRefetched(r)
    PROVE  AdminBase'
<1>1. AdminPost(r)
  BY DEF AdminInv, AdminPosts
<1>2. UNCHANGED <<settings, profile, links, ws>>
  BY DEF Admin!Refused, Admin!Lost, Admin!Succeeds, Admin!SettingsRefetched, Admin!server
<1>3. AdminServer'
  BY <1>2 DEF AdminInv, AdminServer
<1>4. CASE Admin!Refused(r) \/ Admin!Lost(r)
  <2>1. /\ UNCHANGED <<me, loaded, workspaceSettingsListed, workspaceSettingsForm, draft, touched, strayed, dialog>>
        /\ workspaceSettingsPosts' = workspaceSettingsPosts \ {r}
    BY <1>4 DEF Admin!Refused, Admin!Lost, Admin!page
  <2> QED
    BY <1>2, <1>3, <2>1, AdminPostsStay DEF AdminInv, AdminBase, AdminView, AdminForms
<1>5. CASE Admin!SettingsRefetched(r)
  <2>1. settings[ws] \in Admin!Settings
    BY DEF AdminInv, AdminServer, AdminView
  <2>2. /\ Admin!FillsEffect(ws, settings[ws], FALSE)
        /\ UNCHANGED <<settings, profile, links, ws, me, workspaceSettingsListed, draft, dialog>>
        /\ workspaceSettingsPosts' = workspaceSettingsPosts \ {r}
    BY <1>5 DEF Admin!SettingsRefetched, Admin!server
  <2> QED
    BY <2>1, <2>2, AdminLoaded
<1>6. CASE Admin!Succeeds(r) /\ Admin!SettingsSaved(r)
  <2>1. /\ r.op = "settings" /\ Admin!Goes(r, "refetch", r.body) /\ workspaceSettingsForm' = r.body
        /\ strayed' \subseteq strayed \cup Admin!Fields
        /\ UNCHANGED <<me, loaded, workspaceSettingsListed, draft, touched, dialog>>
    BY <1>6 DEF Admin!SettingsSaved
  <2>2. AdminPosts'
    BY <1>2, <2>1, AdminGoes
  <2>3. AdminForms'
    BY <1>1, <2>1 DEF AdminPost, AdminInv, AdminForms
  <2> QED
    BY <1>2, <1>3, <2>1, <2>2, <2>3 DEF AdminInv, AdminBase, AdminView
<1>7. CASE Admin!Succeeds(r) /\ Admin!IdentitySaved(r)
  <2>1. /\ r.op = "identity" /\ workspaceSettingsPosts' = workspaceSettingsPosts \ {r} /\ me' = profile
        /\ draft' \in {profile[ws].name, r.body} /\ touched' \subseteq touched
        /\ strayed' \subseteq strayed \cup {"name"}
        /\ UNCHANGED <<loaded, workspaceSettingsListed, workspaceSettingsForm, dialog>>
    BY <1>7 DEF Admin!IdentitySaved
  <2>2. profile[ws].name \in AdminNames
    BY DEF AdminInv, AdminServer, AdminView, Admin!Profile
  <2>3. AdminForms'
    BY <1>1, <2>1, <2>2 DEF AdminPost, AdminInv, AdminForms
  <2>4. AdminView'
    BY <1>2, <2>1 DEF AdminInv, AdminView, AdminServer
  <2> QED
    BY <1>2, <1>3, <2>1, <2>3, <2>4, AdminPostsStay DEF AdminInv, AdminBase
<1>8. CASE Admin!Succeeds(r) /\ (Admin!Created(r) \/ Admin!Revoked(r))
  <2> DEFINE L == IF Admin!CanManage /\ Admin!Allowed(ws) THEN Admin!Listed(ws) ELSE workspaceSettingsListed[ws]
  <2>1. /\ workspaceSettingsPosts' = workspaceSettingsPosts \ {r} /\ dialog' \in {dialog, "none"}
        /\ workspaceSettingsListed' = [workspaceSettingsListed EXCEPT ![ws] = L]
        /\ UNCHANGED <<me, loaded, workspaceSettingsForm, draft, touched, strayed>>
    BY <1>8 DEF Admin!Created, Admin!Revoked
  <2>2. L \in SUBSET ((DOMAIN links) \X LinkStates)
    BY AdminListing DEF AdminInv, AdminView
  <2> HIDE DEF L
  <2>3. AdminView'
    BY <1>2, <2>1, <2>2 DEF AdminInv, AdminView
  <2> QED
    BY <1>2, <1>3, <2>1, <2>3, AdminPostsStay DEF AdminInv, AdminBase, AdminForms
<1> QED
  BY <1>4, <1>5, <1>6, <1>7, <1>8 DEF Admin!Succeeds

\* What is spent.
LEMMA AdminSpends ==
    ASSUME AdminInv, [Admin!Next]_(Admin!vars)
    PROVE  AdminBudget'
<1>1. workspaceSettingsBudget \in [{"edits", "others", "switches", "fails"} -> Nat]
  BY DEF AdminInv, AdminBudget
<1>2. \/ Admin!Spend("others") \/ Admin!Spend("edits") \/ Admin!Spend("fails") \/ Admin!Spend("switches")
      \/ workspaceSettingsBudget' = workspaceSettingsBudget
  BY DEF Admin!Next, Admin!vars, Admin!OtherSaves, Admin!OtherRenames, Admin!Demoted, Admin!LinkEnds, Admin!Switch,
    Admin!LoadSettings, Admin!RefreshAuth, Admin!PollLists, Admin!Toggle, Admin!PressSave, Admin!Edit,
    Admin!SubmitIdentity, Admin!OpenDialog, Admin!CloseDialog, Admin!SubmitDialog, Admin!Dismiss,
    Admin!PressRevoke, Admin!Handle, Admin!Refused, Admin!Lost, Admin!Succeeds, Admin!SettingsRefetched
<1>3. \A k \in {"edits", "others", "switches", "fails"} : Admin!Spend(k) => AdminBudget'
  BY <1>1, AdminSpend DEF AdminBudget
<1> QED
  BY <1>1, <1>2, <1>3 DEF AdminBudget

\* The effect on the settings that were loaded leaves a form that shows them.
LEMMA AdminFillsChosen ==
    ASSUME AdminInv, AdminChosen, NEW saving \in BOOLEAN, Admin!FillsEffect(ws, settings[ws], saving),
           UNCHANGED <<ws, me, draft>>, workspaceSettingsPosts' \subseteq workspaceSettingsPosts,
           saving \/ \A r \in workspaceSettingsPosts' : r.op = "settings" => r.of # ws
    PROVE  AdminChosen'
<1> DEFINE s == settings[ws]
<1>1. s \in Admin!Settings /\ ws \in AdminWorkspaces /\ loaded \in [AdminWorkspaces -> SUBSET Admin!Settings]
  BY DEF AdminInv, AdminServer, AdminView
<1>2. /\ loaded' = [loaded EXCEPT ![ws] = {s}]
      /\ touched' \in {touched, touched \cup Admin!Fields, touched \ Admin!Fields}
      /\ strayed' \in {strayed, strayed \ Admin!Fields}
      /\ loaded[ws] # {s} => workspaceSettingsForm' = s
      /\ loaded[ws] = {s} => UNCHANGED <<workspaceSettingsForm, touched, strayed>>
      /\ loaded[ws] # {s} /\ saving => touched' = touched \cup Admin!Fields
  BY <1>1, AdminFills
<1> HIDE DEF s
<1>3. loaded'[ws] = {s}
  BY <1>1, <1>2
<1>4. "name" \in touched' \cup strayed' <=> "name" \in touched \cup strayed
  BY <1>2 DEF Admin!Fields
<1>5. \A f \in Admin!Fields \ (touched' \cup strayed') : workspaceSettingsForm'[f] = s[f]
  BY <1>2 DEF AdminChosen, Admin!OnlyChosen
<1>6. Admin!OnlyChosen'
  BY <1>3, <1>4, <1>5 DEF AdminChosen, Admin!OnlyChosen
<1>7. ASSUME NEW r \in workspaceSettingsPosts', r.of = ws
      PROVE  /\ r.op = "settings" => \A f \in Admin!Fields \ (touched' \cup strayed') : r.body[f] = s[f]
             /\ r.op = "identity" => "name" \in touched' \cup strayed'
  <2>1. r.op = "settings" /\ loaded[ws] # {s} => Admin!Fields \ (touched' \cup strayed') = {}
    BY <1>2, <1>7
  <2> QED
    BY <1>2, <1>4, <1>7, <2>1 DEF AdminChosen
<1> QED
  BY <1>3, <1>6, <1>7 DEF AdminChosen

LEMMA AdminChosenStep ==
    ASSUME AdminInv, Admin!WorkspaceSettingsAssumption, Admin!Next
    PROVE  AdminChosen'
<1>1. AdminChosen /\ Admin!OnlyChosen
  BY DEF AdminInv, AdminChosen
<1>2. /\ \A s \in loaded[ws], f \in Admin!Fields \ (touched \cup strayed) : workspaceSettingsForm[f] = s[f]
      /\ "name" \notin touched \cup strayed => draft = me[ws].name
      /\ \A r \in workspaceSettingsPosts : r.of = ws =>
           /\ r.op = "settings" => \A s \in loaded[ws], f \in Admin!Fields \ (touched \cup strayed) : r.body[f] = s[f]
           /\ r.op = "identity" => "name" \in touched \cup strayed
  BY <1>1 DEF AdminChosen, Admin!OnlyChosen
<1>3. ws \in AdminWorkspaces /\ "name" \notin Admin!Fields
  BY DEF AdminInv, AdminView, Admin!Fields
<1>4. ASSUME UNCHANGED <<ws, me, loaded, workspaceSettingsForm, draft, touched, strayed>>,
             \A q \in workspaceSettingsPosts' : \/ q.op \notin {"settings", "identity"}
                                                \/ \E r \in workspaceSettingsPosts : r.op = q.op /\ r.of = q.of /\ r.body = q.body
      PROVE  AdminChosen'
  BY <1>2, <1>4 DEF AdminChosen, Admin!OnlyChosen
<1>5. CASE \/ \E w \in AdminWorkspaces : \/ \E s \in Admin!Settings : Admin!OtherSaves(w, s)
                                         \/ \E n \in AdminNames : Admin!OtherRenames(w, n)
                                         \/ Admin!Demoted(w)
           \/ \E n \in DOMAIN links : \/ \E s \in {"used", "expired"} : Admin!LinkEnds(n, s)
                                      \/ Admin!Dismiss(n)
           \/ \E k \in {"invitation", "credential"} : Admin!OpenDialog(k)
           \/ Admin!CloseDialog \/ Admin!PollLists
  <2>1. UNCHANGED <<ws, me, loaded, workspaceSettingsForm, draft, touched, strayed, workspaceSettingsPosts>>
    BY <1>5 DEF Admin!OtherSaves, Admin!OtherRenames, Admin!Demoted, Admin!LinkEnds, Admin!Dismiss,
      Admin!OpenDialog, Admin!CloseDialog, Admin!PollLists, Admin!page
  <2> QED
    BY <1>4, <2>1
<1>6. CASE Admin!LoadSettings
  <2>1. /\ Admin!FillsEffect(ws, settings[ws], Admin!Saving("settings", ws))
        /\ UNCHANGED <<ws, me, draft, workspaceSettingsPosts>>
    BY <1>6 DEF Admin!LoadSettings
  <2>2. Admin!Saving("settings", ws) \/ \A r \in workspaceSettingsPosts' : r.op = "settings" => r.of # ws
    BY <2>1 DEF Admin!Saving
  <2>3. Admin!Saving("settings", ws) \in BOOLEAN
    BY DEF Admin!Saving
  <2> QED
    BY <1>1, <2>1, <2>2, <2>3, AdminFillsChosen
<1>7. CASE Admin!RefreshAuth
  <2>1. /\ me' = profile /\ UNCHANGED <<ws, loaded, workspaceSettingsForm, workspaceSettingsPosts>>
        /\ \/ /\ profile[ws].name = me[ws].name /\ UNCHANGED <<draft, touched, strayed>>
           \/ /\ draft' = profile[ws].name /\ strayed' = strayed \ {"name"}
              /\ touched' = IF Admin!Saving("identity", ws) THEN touched \cup {"name"} ELSE touched \ {"name"}
    BY <1>7 DEF Admin!RefreshAuth, Admin!Profiled
  <2>2. Admin!Fields \ (touched' \cup strayed') = Admin!Fields \ (touched \cup strayed)
    BY <1>3, <2>1
  <2>3. "name" \notin touched' \cup strayed' => draft' = me'[ws].name
    BY <1>2, <2>1
  <2>4. \A r \in workspaceSettingsPosts : r.op = "identity" /\ r.of = ws => "name" \in touched' \cup strayed'
    BY <1>2, <2>1 DEF Admin!Saving
  <2> QED
    BY <1>2, <2>1, <2>2, <2>3, <2>4 DEF AdminChosen, Admin!OnlyChosen
<1>8. ASSUME NEW f \in Admin!Fields, Admin!Toggle(f) PROVE AdminChosen'
  <2>1. /\ workspaceSettingsForm' = [workspaceSettingsForm EXCEPT ![f] = ~workspaceSettingsForm[f]]
        /\ touched' = touched \cup {f} /\ UNCHANGED <<ws, me, loaded, draft, strayed, workspaceSettingsPosts>>
        /\ \A r \in workspaceSettingsPosts : r.op # "settings"
    BY <1>8 DEF Admin!Toggle, Admin!Pending
  <2>2. \A g \in Admin!Fields \ (touched' \cup strayed') : workspaceSettingsForm'[g] = workspaceSettingsForm[g]
    BY <2>1 DEF AdminInv, AdminForms, Admin!Settings
  <2>3. "name" \in touched' <=> "name" \in touched
    BY <1>3, <2>1
  <2> QED
    BY <1>2, <2>1, <2>2, <2>3 DEF AdminChosen, Admin!OnlyChosen
<1>9. ASSUME NEW n \in AdminNames, Admin!Edit(n) PROVE AdminChosen'
  <2>1. draft' = n /\ touched' = touched \cup {"name"}
        /\ UNCHANGED <<ws, me, loaded, workspaceSettingsForm, strayed, workspaceSettingsPosts>>
    BY <1>9 DEF Admin!Edit
  <2> QED
    BY <1>2, <2>1 DEF AdminChosen, Admin!OnlyChosen
<1>10. CASE Admin!PressSave
  <2>1. links' = links /\ Admin!Asks("settings", workspaceSettingsForm)
        /\ UNCHANGED <<ws, me, loaded, workspaceSettingsForm, draft, touched, strayed>>
    BY <1>10 DEF Admin!PressSave, Admin!server, Admin!page
  <2>2. PICK m : /\ workspaceSettingsPosts' = workspaceSettingsPosts \cup {m}
                 /\ m.op = "settings" /\ m.body = workspaceSettingsForm
    BY <2>1, AdminAsks DEF AdminInv, AdminForms, AdminOps
  <2> QED
    BY <1>2, <2>1, <2>2 DEF AdminChosen, Admin!OnlyChosen
<1>11. CASE Admin!SubmitIdentity
  <2>1. links' = links /\ Admin!Asks("identity", draft) /\ draft # me[ws].name
        /\ UNCHANGED <<ws, me, loaded, workspaceSettingsForm, draft, touched, strayed>>
    BY <1>11 DEF Admin!SubmitIdentity, Admin!IdentityDirty, Admin!server, Admin!page
  <2>2. PICK m : /\ workspaceSettingsPosts' = workspaceSettingsPosts \cup {m} /\ m.op = "identity"
    BY <2>1, AdminAsks DEF AdminInv, AdminForms, AdminOps
  <2>3. "name" \in touched \cup strayed
    BY <1>2, <2>1
  <2> QED
    BY <1>2, <2>1, <2>2, <2>3 DEF AdminChosen, Admin!OnlyChosen
<1>12. CASE Admin!SubmitDialog \/ \E n \in DOMAIN links : Admin!PressRevoke(n)
  <2>1. UNCHANGED <<ws, me, loaded, workspaceSettingsForm, draft, touched, strayed>>
    BY <1>12 DEF Admin!SubmitDialog, Admin!PressRevoke, Admin!page
  <2>2. PICK op \in AdminOps \ {"settings", "identity"} : \E b : Admin!Asks(op, b)
    BY <1>12 DEF Admin!SubmitDialog, Admin!PressRevoke, Admin!RevokeOf, AdminInv, AdminForms, AdminOps
  <2>3. \A q \in workspaceSettingsPosts' : q \in workspaceSettingsPosts \/ q.op = op
    BY <2>2 DEF Admin!Asks
  <2> QED
    BY <1>4, <2>1, <2>2, <2>3
<1>13. ASSUME NEW r \in workspaceSettingsPosts, Admin!Handle(r) PROVE AdminChosen'
  <2>1. UNCHANGED <<ws, me, loaded, workspaceSettingsForm, draft, touched, strayed>>
    BY <1>13 DEF Admin!Handle, Admin!page
  <2>2. PICK n : /\ workspaceSettingsPosts' = (workspaceSettingsPosts \ {r}) \cup {n}
                 /\ n.op = r.op /\ n.of = r.of
                 /\ (r.op \notin {"invitation", "credential"} => n.body = r.body)
    BY <1>13, AdminHandle
  <2> QED
    BY <1>4, <2>1, <2>2
<1>14. ASSUME NEW r \in workspaceSettingsPosts, Admin!Refused(r) \/ Admin!Lost(r) PROVE AdminChosen'
  <2>1. UNCHANGED <<ws, me, loaded, workspaceSettingsForm, draft, touched, strayed>>
        /\ workspaceSettingsPosts' = workspaceSettingsPosts \ {r}
    BY <1>14 DEF Admin!Refused, Admin!Lost, Admin!page
  <2> QED
    BY <1>4, <2>1
<1>15. ASSUME NEW r \in workspaceSettingsPosts, Admin!SettingsRefetched(r), r.op = "settings" PROVE AdminChosen'
  <2>1. /\ Admin!FillsEffect(ws, settings[ws], FALSE) /\ workspaceSettingsPosts' = workspaceSettingsPosts \ {r}
        /\ UNCHANGED <<ws, me, draft>>
    BY <1>15 DEF Admin!SettingsRefetched
  <2>2. \A q \in workspaceSettingsPosts' : q.op = "settings" => q.of # ws
    BY <1>15, <2>1 DEF AdminInv, AdminPosts
  <2> QED
    BY <1>1, <2>1, <2>2, AdminFillsChosen
<1>16. ASSUME NEW r \in workspaceSettingsPosts, Admin!Succeeds(r) PROVE AdminChosen'
  <2>1. CASE Admin!SettingsSaved(r)
    <3>1. /\ r.op = "settings" /\ Admin!Goes(r, "refetch", r.body) /\ workspaceSettingsForm' = r.body
          /\ strayed' = IF r.of = ws THEN strayed ELSE strayed \cup Admin!Fields
          /\ UNCHANGED <<ws, me, loaded, draft, touched>> /\ links' = links
      BY <1>16, <2>1 DEF Admin!Succeeds, Admin!SettingsSaved, Admin!server
    <3>2. PICK m : /\ workspaceSettingsPosts' = (workspaceSettingsPosts \ {r}) \cup {m}
                   /\ m.op = r.op /\ m.of = r.of /\ m.body = r.body
      BY <3>1, AdminGoes
    <3>3. "name" \in touched' \cup strayed' <=> "name" \in touched \cup strayed
      BY <1>3, <3>1
    <3>4. CASE r.of = ws
      BY <1>2, <3>1, <3>2, <3>4 DEF AdminChosen, Admin!OnlyChosen
    <3>5. CASE r.of # ws
      <4>1. Admin!Fields \ (touched' \cup strayed') = {}
        BY <3>1, <3>5
      <4> QED
        BY <1>2, <3>1, <3>2, <3>3, <3>5, <4>1 DEF AdminChosen, Admin!OnlyChosen
    <3> QED
      BY <3>4, <3>5
  <2>2. CASE Admin!IdentitySaved(r)
    <3>1. /\ r.op = "identity" /\ workspaceSettingsPosts' = workspaceSettingsPosts \ {r} /\ me' = profile
          /\ \/ /\ draft' = profile[ws].name /\ touched' = touched \ {"name"} /\ strayed' = strayed \ {"name"}
             \/ touched' = touched /\ strayed' = IF r.of = ws THEN strayed ELSE strayed \cup {"name"}
          /\ UNCHANGED <<ws, loaded, workspaceSettingsForm>>
      BY <1>16, <2>2 DEF Admin!Succeeds, Admin!IdentitySaved
    <3>2. Admin!Fields \ (touched' \cup strayed') = Admin!Fields \ (touched \cup strayed)
      BY <1>3, <3>1
    <3>3. \A q \in workspaceSettingsPosts' : q.op # "identity"
      BY <3>1 DEF AdminInv, AdminPosts
    <3>4. "name" \notin touched' \cup strayed' => draft' = me'[ws].name
      BY <1>2, <3>1
    <3> QED
      BY <1>2, <3>1, <3>2, <3>3, <3>4 DEF AdminChosen, Admin!OnlyChosen
  <2>3. CASE Admin!Created(r) \/ Admin!Revoked(r)
    <3>1. UNCHANGED <<ws, me, loaded, workspaceSettingsForm, draft, touched, strayed>>
          /\ workspaceSettingsPosts' = workspaceSettingsPosts \ {r}
      BY <1>16, <2>3 DEF Admin!Succeeds, Admin!Created, Admin!Revoked
    <3> QED
      BY <1>4, <3>1
  <2> QED
    BY <1>16, <2>1, <2>2, <2>3 DEF Admin!Succeeds
<1>17. ASSUME NEW r \in workspaceSettingsPosts, Admin!SettingsRefetched(r) PROVE r.op = "settings"
  BY <1>17 DEF Admin!SettingsRefetched, AdminInv, AdminPosts, AdminPost
<1>18. ASSUME NEW w \in AdminWorkspaces, Admin!Switch(w) PROVE AdminChosen'
  <2>1. /\ ws' = w /\ draft' = me[w].name /\ strayed' = {}
        /\ loaded[w] # {} => workspaceSettingsForm' \in loaded[w]
        /\ Admin!Saving("settings", w) => Admin!Fields \subseteq touched'
        /\ Admin!Saving("identity", w) => "name" \in touched'
        /\ UNCHANGED <<me, loaded, workspaceSettingsPosts>>
    BY <1>18 DEF Admin!Switch
  <2>2. \A s \in loaded[w] : workspaceSettingsForm' = s
    BY <2>1 DEF AdminInv, AdminView
  <2>3. Admin!OnlyChosen'
    BY <2>1, <2>2 DEF Admin!OnlyChosen
  <2> QED
    BY <2>1, <2>3 DEF AdminChosen, Admin!Saving
<1> QED
  BY <1>5, <1>6, <1>7, <1>8, <1>9, <1>10, <1>11, <1>12, <1>13, <1>14, <1>15, <1>16, <1>17, <1>18 DEF Admin!Next

LEMMA AdminStep ==
    ASSUME AdminInv, Admin!WorkspaceSettingsAssumption, [Admin!Next]_(Admin!vars)
    PROVE  AdminInv'
<1>1. CASE UNCHANGED Admin!vars
  BY <1>1 DEF AdminInv, AdminServer, AdminView, AdminForms, AdminPosts, AdminPost, AdminBudget, AdminChosen,
    Admin!OnlyChosen, Admin!vars, Admin!server, Admin!page
<1>2. CASE Admin!Next
  <2>1. AdminBase'
    <3>2. ASSUME NEW r \in workspaceSettingsPosts, Admin!Handle(r) PROVE AdminBase'
      BY <3>2, AdminHandle
    <3> QED
      BY <1>2, <3>2, AdminOthersStep, AdminLoadStep, AdminFormStep, AdminAnswerStep DEF Admin!Next
  <2>2. AdminChosen' /\ AdminBudget'
    BY <1>2, AdminChosenStep, AdminSpends
  <2> QED
    BY <2>1, <2>2 DEF AdminInv, AdminBase
<1> QED
  BY <1>1, <1>2

LEMMA AdminSound ==
    ASSUME AdminInv
    PROVE  Admin!TypeOK /\ Admin!OnlyChosen
<1>1. AdminServer /\ AdminView /\ AdminForms /\ AdminPosts
  BY DEF AdminInv
<1>2. ASSUME NEW w \in AdminWorkspaces
      PROVE  /\ Admin!Cardinality(loaded[w]) <= 1
             /\ workspaceSettingsListed[w] \subseteq (DOMAIN links) \X {"open", "used", "expired", "revoked"}
  <2>1. Admin!Cardinality(loaded[w]) <= 1
    BY <1>1, AtMostOne, SameAdminCardinality DEF AdminView
  <2> QED
    BY <1>1, <2>1 DEF AdminView, LinkStates
<1>3. Admin!TypeOK
  BY <1>1, <1>2 DEF AdminServer, AdminView, AdminForms, AdminPosts, Admin!TypeOK
<1> QED
  BY <1>3 DEF AdminInv, AdminChosen

\* Settings change by another admin or by the save that was pressed for them.
LEMMA AdminSaved ==
    ASSUME AdminInv, Admin!WorkspaceSettingsAssumption, [Admin!Next]_(Admin!vars)
    PROVE  Admin!SavedWhereChosen
<1>1. ASSUME settings' = settings PROVE Admin!SavedWhereChosen
  BY <1>1 DEF Admin!SavedWhereChosen
<1>2. ASSUME NEW w \in AdminWorkspaces, NEW s \in Admin!Settings, Admin!OtherSaves(w, s)
      PROVE  Admin!SavedWhereChosen
  <2>1. Admin!Spend("others")
    BY <1>2 DEF Admin!OtherSaves
  <2>2. workspaceSettingsBudget'.others < workspaceSettingsBudget.others
    BY <2>1, AdminOthersSpent DEF AdminInv, AdminBudget
  <2> QED
    BY <2>2 DEF Admin!SavedWhereChosen
<1>3. ASSUME NEW r \in workspaceSettingsPosts, Admin!Handle(r) PROVE Admin!SavedWhereChosen
  <2>1. settings' # settings => r.op = "settings" /\ settings' = [settings EXCEPT ![r.of] = r.body]
    BY <1>3, AdminHandle
  <2>2. \A w \in AdminWorkspaces : settings'[w] # settings[w] =>
          r.op = "settings" /\ r.of = w /\ r.body = settings'[w]
    BY <2>1 DEF AdminInv, AdminServer
  <2> QED
    BY <2>2 DEF Admin!SavedWhereChosen
<1>4. \/ \E w \in AdminWorkspaces, s \in Admin!Settings : Admin!OtherSaves(w, s)
      \/ \E r \in workspaceSettingsPosts : Admin!Handle(r)
      \/ settings' = settings
  BY DEF Admin!Next, Admin!vars, Admin!server, Admin!OtherRenames, Admin!Demoted, Admin!LinkEnds, Admin!Switch,
    Admin!LoadSettings, Admin!RefreshAuth, Admin!PollLists, Admin!Toggle, Admin!PressSave, Admin!Edit,
    Admin!SubmitIdentity, Admin!OpenDialog, Admin!CloseDialog, Admin!SubmitDialog, Admin!Dismiss,
    Admin!PressRevoke, Admin!Refused, Admin!Lost, Admin!Succeeds, Admin!SettingsRefetched
<1> QED
  BY <1>1, <1>2, <1>3, <1>4

-----------------------------------------------------------------------------
\* Variables have their types, and the forms show what the page has loaded of the
\* workspace on screen, apart from what the user changed since; except that the
\* answer to a save of another workspace fills the form on screen too, until it is
\* filled again (the effects that fill the forms, and the answers of the saves).
THEOREM FormsShowWhatIsSaved ==
    ASSUME Admin!WorkspaceSettingsAssumption
    PROVE  Admin!Spec => [](Admin!TypeOK /\ Admin!OnlyChosen)
<1>1. Admin!Init => AdminInv
  BY AdminInit
<1>2. AdminInv /\ [Admin!Next]_(Admin!vars) => AdminInv'
  BY AdminStep
<1>3. AdminInv => Admin!TypeOK /\ Admin!OnlyChosen
  BY AdminSound
<1> QED
  BY <1>1, <1>2, <1>3, PTL DEF Admin!Spec

\* What was chosen in one workspace is saved in that workspace, wherever the user
\* has gone since (the closures of the mutations).
THEOREM SettingsSavedWhereChosen ==
    ASSUME Admin!WorkspaceSettingsAssumption
    PROVE  Admin!Spec => [][Admin!SavedWhereChosen]_(Admin!vars)
<1>1. Admin!Init => AdminInv
  BY AdminInit
<1>2. AdminInv /\ [Admin!Next]_(Admin!vars) => AdminInv' /\ Admin!SavedWhereChosen
  BY AdminStep, AdminSaved
<1> QED
  BY <1>1, <1>2, PTL DEF Admin!Spec

-----------------------------------------------------------------------------
(* The task queue of the settings page.                                    *)

CONSTANTS PageSize, MaxChanges, PanelDoes, PanelModes, PanelTasks, PanelFails, PanelMoves
VARIABLES tasks, runtimeTasksPanelPage, data, open, evidence, cancelling,
    runtimeTasksPanelPosts, walk, fails, moves, changes

Panel == INSTANCE RuntimeTasksPanel WITH Does <- PanelDoes, Modes <- PanelModes,
    MaxTasks <- PanelTasks, MaxFails <- PanelFails, MaxMoves <- PanelMoves,
    page <- runtimeTasksPanelPage, posts <- runtimeTasksPanelPosts

PanelTask == [state : {"queued", "claimed", "running", "completed", "failed", "cancelled"},
              mode : PanelModes, asked : BOOLEAN, events : Nat]

PanelServer ==
    /\ tasks \in Seq(PanelTask)
    /\ runtimeTasksPanelPosts \subseteq [task : DOMAIN tasks, pc : {"sent", "ok"}]

PanelShown ==
    /\ runtimeTasksPanelPage \in Nat
    /\ runtimeTasksPanelPage > 0 => runtimeTasksPanelPage * PageSize < Len(tasks)
    /\ \A d \in data : d.total \in Nat /\ d.total <= Len(tasks) /\ Len(d.rows) <= PageSize
    /\ \A d, e \in data : d = e
    /\ \A d, e \in evidence : d = e
    /\ open \in 0..Len(tasks) /\ cancelling \in 0..Len(tasks)

\* What has been seen since the last look at the first page: everything up to the
\* page that is shown, or that has been left.
PanelWalk ==
    /\ walk \in [from : SUBSET Nat, seen : SUBSET Nat]
    /\ \E n \in Nat : /\ walk.from = 1..n /\ n <= Len(tasks) /\ \A d \in data : n <= d.total
    /\ \A d \in data : \A n \in walk.from :
         n > d.total - (runtimeTasksPanelPage * PageSize + PageSize) => n \in walk.seen
    /\ data = {} => \A n \in walk.from : n > Len(tasks) - runtimeTasksPanelPage * PageSize => n \in walk.seen

PanelInv == PanelServer /\ PanelShown /\ PanelWalk

LEMMA SamePanelCardinality ==
    ASSUME NEW S
    PROVE  Panel!Cardinality(S) = Cardinality(S)
BY DEF Cardinality, Panel!Cardinality

\* The first task of each page, and of the last one.
LEMMA PanelStart ==
    ASSUME Panel!RuntimeTasksPanelAssumption, NEW p \in Nat
    PROVE  /\ PageSize \in Nat \ {0} /\ p * PageSize \in Nat
           /\ (p + 1) * PageSize = p * PageSize + PageSize
           /\ p > 0 => (p - 1) * PageSize = p * PageSize - PageSize
           /\ \A q \in Nat : p <= q => p * PageSize <= q * PageSize
<1>1. PageSize \in Nat \ {0}
  BY DEF Panel!RuntimeTasksPanelAssumption
<1>2. p * PageSize \in Nat /\ (p + 1) * PageSize = p * PageSize + PageSize
  BY <1>1
<1>3. p > 0 => (p - 1) * PageSize = p * PageSize - PageSize
  BY <1>1
<1>4. \A q \in Nat : p <= q => p * PageSize <= q * PageSize
  BY <1>1
<1> QED
  BY <1>1, <1>2, <1>3, <1>4

LEMMA PanelLastPage ==
    ASSUME Panel!RuntimeTasksPanelAssumption, NEW t \in Nat, t > 0
    PROVE  LET q == Panel!LastPage(t)
           IN  q \in Nat /\ q * PageSize <= t - 1 /\ t <= q * PageSize + PageSize
<1>1. PageSize \in Nat \ {0} /\ Panel!LastPage(t) = (t - 1) \div PageSize
  <2>1. PageSize \in Nat \ {0}
    BY DEF Panel!RuntimeTasksPanelAssumption
  <2>2. Panel!LastPage(t) = IF t = 0 THEN 0 ELSE (t - 1) \div PageSize
    BY DEF Panel!LastPage
  <2> QED
    BY <2>1, <2>2
<1> DEFINE q == (t - 1) \div PageSize
<1>2. q \in Int /\ t - 1 \in Nat
  BY <1>1
<1>3. q * PageSize <= t - 1 /\ t - 1 < q * PageSize + PageSize
  BY <1>1, <1>2
<1>4. q \in Nat
  BY <1>1, <1>2, <1>3
<1> QED
  BY <1>1, <1>2, <1>3, <1>4

\* The list is the tasks, newest first.
LEMMA PanelTaskAt ==
    ASSUME PanelServer, NEW i \in 1..Len(tasks)
    PROVE  Panel!TaskAt(i) = Len(tasks) - i + 1
<1> DEFINE L == Len(tasks)
<1>1. L \in Nat /\ DOMAIN tasks = 1..L
  BY DEF PanelServer
<1> DEFINE C(n) == Panel!Cardinality({k \in DOMAIN tasks : Panel!Before(k, n)})
<1>2. ASSUME NEW n \in 1..L PROVE C(n) = L - n
  <2>1. {k \in DOMAIN tasks : Panel!Before(k, n)} = (n + 1)..L
    <3>1. \A k : Panel!Before(k, n) <=> k > n
      BY DEF Panel!Before
    <3> QED
      BY <1>1, <3>1
  <2>2. Cardinality((n + 1)..L) = L - n
    BY <1>1, FS_Interval
  <2> QED
    BY <2>1, <2>2, SamePanelCardinality
<1>3. Panel!TaskAt(i) = CHOOSE n \in 1..L : C(n) = i - 1
  BY <1>1 DEF Panel!TaskAt
<1>4. i \in 1..L
  OBVIOUS
<1> HIDE DEF L, C
<1>5. \A n \in 1..L : (C(n) = i - 1) <=> (n = L - i + 1)
  BY <1>1, <1>2, <1>4
<1>6. L - i + 1 \in 1..L
  BY <1>1, <1>4
<1> QED
  BY <1>3, <1>5, <1>6 DEF L

LEMMA PanelRows ==
    ASSUME PanelServer, Panel!RuntimeTasksPanelAssumption, NEW p \in Nat,
           p > 0 => p * PageSize < Len(tasks)
    PROVE  /\ Len(Panel!Rows(p)) <= PageSize
           /\ \A n \in 1..Len(tasks) :
                n > Len(tasks) - (p * PageSize + PageSize) /\ n <= Len(tasks) - p * PageSize =>
                  n \in Panel!Shown(Panel!Rows(p))
<1> DEFINE L == Len(tasks)
           start == p * PageSize
           R == Panel!Rows(p)
<1>1. L \in Nat /\ start \in Nat /\ PageSize \in Nat \ {0}
  <2>1. L \in Nat
    BY DEF PanelServer
  <2> QED
    BY <2>1, PanelStart
<1>2. /\ DOMAIN R = {i \in 1..PageSize : start + i <= L}
      /\ \A k \in DOMAIN R : R[k].task = Panel!TaskAt(start + k)
  BY DEF Panel!Rows
<1>3. Len(R) <= PageSize
  <2> DEFINE m == IF L - start < PageSize THEN IF L < start THEN 0 ELSE L - start ELSE PageSize
  <2>1. m \in Nat /\ m <= PageSize /\ DOMAIN R = 1..m
    BY <1>1, <1>2
  <2> HIDE DEF m
  <2>2. Len(R) = m
    BY <2>1
  <2> QED
    BY <2>1, <2>2
<1> HIDE DEF start, R
<1>4. ASSUME NEW n \in 1..L, n > L - (start + PageSize), n <= L - start
      PROVE  n \in Panel!Shown(R)
  <2> DEFINE k == L - start - n + 1
  <2>1. k \in DOMAIN R /\ start + k \in 1..L /\ L - (start + k) + 1 = n
    BY <1>1, <1>2, <1>4
  <2> HIDE DEF k
  <2>2. R[k].task = n
    BY <1>2, <2>1, PanelTaskAt
  <2> QED
    BY <2>1, <2>2 DEF Panel!Shown
<1> QED
  BY <1>3, <1>4 DEF start, R

LEMMA PanelInit ==
    ASSUME Panel!RuntimeTasksPanelAssumption, Panel!Init PROVE PanelInv
<1>1. PanelServer
  BY DEF PanelServer, Panel!Init
<1>2. PanelShown
  BY DEF PanelShown, Panel!Init, Panel!NoTask
<1>3. PanelWalk
  <2>1. walk.from = {} /\ walk.seen = {} /\ walk \in [from : SUBSET Nat, seen : SUBSET Nat] /\ data = {}
    BY DEF Panel!Init
  <2>2. 1..0 = {} /\ 0 \in Nat /\ Len(tasks) \in Nat
    BY <1>1 DEF PanelServer
  <2>3. walk.from = 1..0 /\ 0 <= Len(tasks) /\ \A d \in data : 0 <= d.total
    BY <2>1, <2>2
  <2> QED
    BY <2>1, <2>2, <2>3 DEF PanelWalk
<1> QED
  BY <1>1, <1>2, <1>3 DEF PanelInv

\* The list that is fetched shows the page of all the tasks, and what the user
\* then has seen of it.
LEMMA PanelFetched ==
    ASSUME Panel!RuntimeTasksPanelAssumption, PanelInv, Panel!Reads(runtimeTasksPanelPage),
           data' = Panel!ListRuntimeTasksPage,
           UNCHANGED <<tasks, runtimeTasksPanelPage, cancelling>>, open' = open,
           \A d, e \in evidence' : d = e
    PROVE  PanelShown' /\ PanelWalk'
<1> DEFINE p == runtimeTasksPanelPage
           L == Len(tasks)
           R == Panel!Rows(p)
           S == Panel!Shown(R)
<1>1. /\ p \in Nat /\ L \in Nat /\ DOMAIN tasks = 1..L /\ p * PageSize \in Nat /\ PageSize \in Nat \ {0}
      /\ p > 0 => p * PageSize < L
  <2>1. p \in Nat /\ (p > 0 => p * PageSize < L)
    BY DEF PanelInv, PanelShown
  <2>2. L \in Nat /\ DOMAIN tasks = 1..L
    BY DEF PanelInv, PanelServer
  <2> QED
    BY <2>1, <2>2, PanelStart
<1>2. /\ Len(R) <= PageSize
      /\ \A n \in 1..L : n > L - (p * PageSize + PageSize) /\ n <= L - p * PageSize => n \in S
  BY <1>1, PanelRows DEF PanelInv
<1>3. S \subseteq Nat
  <2>1. \A k \in DOMAIN R : R[k].task = Panel!TaskAt(p * PageSize + k) /\ k \in 1..PageSize /\ p * PageSize + k <= L
    BY DEF Panel!Rows
  <2>2. ASSUME NEW k \in DOMAIN R PROVE R[k].task \in Nat
    <3>1. p * PageSize + k \in 1..L
      BY <1>1, <2>1
    <3>2. R[k].task = L - (p * PageSize + k) + 1
      BY <2>1, <3>1, PanelTaskAt DEF PanelInv
    <3> HIDE DEF R
    <3> QED
      BY <1>1, <3>1, <3>2
  <2> QED
    BY <2>2 DEF Panel!Shown
<1>4. data' = {[rows |-> R, total |-> L]}
  BY DEF Panel!ListRuntimeTasksPage
<1>5. walk' = IF p = 0 THEN [from |-> 1..L, seen |-> S] ELSE [walk EXCEPT !.seen = @ \cup S]
  BY <1>1 DEF Panel!Reads
<1> HIDE DEF R, S
<1>6. PanelShown'
  <2>1. \A d \in data' : d.total = L /\ Len(d.rows) <= PageSize
    BY <1>2, <1>4
  <2>2. \A d, e \in data' : d = e
    BY <1>4
  <2>3. /\ p' = p /\ L' = L
        /\ open' \in 0..L' /\ cancelling' \in 0..L'
    BY DEF PanelInv, PanelShown
  <2> QED
    BY <1>1, <2>1, <2>2, <2>3 DEF PanelShown
<1>7. data' # {} /\ (\A d \in data' : d.total = L) /\ p' = p /\ L' = L
  BY <1>4
<1>8. ASSUME NEW w, walk' = w, w \in [from : SUBSET Nat, seen : SUBSET Nat],
             NEW n \in Nat, w.from = 1..n, n <= L,
             \A k \in 1..n : k > L - (p * PageSize + PageSize) => k \in w.seen
      PROVE  PanelWalk'
  BY <1>7, <1>8 DEF PanelWalk
<1>9. CASE p = 0
  <2>1. walk' = [from |-> 1..L, seen |-> S]
    BY <1>5, <1>9
  <2>2. [from |-> 1..L, seen |-> S] \in [from : SUBSET Nat, seen : SUBSET Nat]
    BY <1>1, <1>3
  <2>3. \A k \in 1..L : k > L - (p * PageSize + PageSize) => k \in S
    <3>1. p * PageSize = 0
      BY <1>1, <1>9
    <3> QED
      BY <1>1, <1>2, <3>1
  <2> QED
    BY <1>1, <1>6, <1>8, <2>1, <2>2, <2>3
<1>10. CASE p # 0
  <2>1. walk' = [walk EXCEPT !.seen = @ \cup S] /\ walk \in [from : SUBSET Nat, seen : SUBSET Nat]
    BY <1>5, <1>10 DEF PanelInv, PanelWalk
  <2>2. /\ walk' \in [from : SUBSET Nat, seen : SUBSET Nat]
        /\ walk'.from = walk.from /\ walk'.seen = walk.seen \cup S
    BY <1>3, <2>1
  <2>3. PICK n \in Nat : walk.from = 1..n /\ n <= L /\ \A d \in data : n <= d.total
    BY DEF PanelInv, PanelWalk
  <2>4. ASSUME NEW k \in 1..n, k > L - (p * PageSize + PageSize) PROVE k \in walk'.seen
    <3>1. CASE k <= L - p * PageSize
      BY <1>1, <1>2, <2>2, <2>3, <2>4, <3>1
    <3>2. CASE k > L - p * PageSize /\ data = {}
      BY <2>2, <2>3, <3>2 DEF PanelInv, PanelWalk
    <3>3. CASE k > L - p * PageSize /\ data # {}
      <4>1. PICK d \in data : TRUE
        BY <3>3
      <4>2. d.total \in Nat /\ d.total <= L
        BY DEF PanelInv, PanelShown
      <4>3. k > d.total - (p * PageSize + PageSize)
        BY <1>1, <3>3, <4>2
      <4>4. k \in walk.seen
        BY <2>3, <4>3 DEF PanelInv, PanelWalk
      <4> QED
        BY <2>2, <4>4
    <3> QED
      BY <1>1, <2>3, <3>1, <3>2, <3>3
  <2>5. walk'.from = 1..n /\ \A k \in 1..n : k > L - (p * PageSize + PageSize) => k \in walk'.seen
    BY <2>2, <2>3, <2>4
  <2> QED
    BY <1>6, <1>8, <2>2, <2>3, <2>5
<1> QED
  BY <1>6, <1>9, <1>10

\* What a step keeps when it changes neither the page nor what has been seen.
LEMMA PanelSameWalk ==
    ASSUME Panel!RuntimeTasksPanelAssumption, PanelInv, NEW t, tasks' = t, t \in Seq(PanelTask), Len(t) >= Len(tasks),
           UNCHANGED <<runtimeTasksPanelPage, data, walk>>, cancelling' \in 0..Len(t),
           open' \in 0..Len(t), \A d, e \in evidence' : d = e,
           runtimeTasksPanelPosts' \subseteq [task : 1..Len(t), pc : {"sent", "ok"}]
    PROVE  PanelInv'
<1>1. Len(tasks) \in Nat /\ Len(t) \in Nat /\ DOMAIN t = 1..Len(t)
  BY DEF PanelInv, PanelServer
<1>2. PanelServer'
  BY <1>1 DEF PanelServer
<1>3. PanelShown'
  <2>1. runtimeTasksPanelPage \in Nat /\ (runtimeTasksPanelPage > 0 => runtimeTasksPanelPage * PageSize < Len(t))
    <3>1. /\ runtimeTasksPanelPage \in Nat
          /\ runtimeTasksPanelPage > 0 => runtimeTasksPanelPage * PageSize < Len(tasks)
      BY DEF PanelInv, PanelShown
    <3>2. runtimeTasksPanelPage * PageSize \in Nat
      BY <3>1, PanelStart
    <3> QED
      BY <1>1, <3>1, <3>2
  <2>2. \A d \in data : d.total \in Nat /\ d.total <= Len(t) /\ Len(d.rows) <= PageSize
    BY <1>1 DEF PanelInv, PanelShown
  <2>3. \A d, e \in data : d = e
    BY DEF PanelInv, PanelShown
  <2> QED
    BY <2>1, <2>2, <2>3 DEF PanelShown
<1> DEFINE q == runtimeTasksPanelPage * PageSize
<1>4. PanelWalk'
  <2>1. PICK n \in Nat : walk.from = 1..n /\ n <= Len(tasks) /\ \A d \in data : n <= d.total
    BY DEF PanelInv, PanelWalk
  <2>2. n <= Len(t)
    BY <1>1, <2>1
  <2>3. \A d \in data : \A k \in walk.from : k > d.total - (q + PageSize) => k \in walk.seen
    BY DEF PanelInv, PanelWalk
  <2>4. data = {} => \A k \in walk.from : k > Len(tasks) - q => k \in walk.seen
    BY DEF PanelInv, PanelWalk
  <2>5. data = {} => \A k \in walk.from : k > Len(t) - q => k \in walk.seen
    <3>1. q \in Nat
      BY PanelStart DEF PanelInv, PanelShown
    <3> HIDE DEF q
    <3> QED
      BY <1>1, <2>1, <2>4, <3>1
  <2> QED
    <3>1. walk \in [from : SUBSET Nat, seen : SUBSET Nat]
      BY DEF PanelWalk, PanelInv
    <3> QED
      BY <2>1, <2>2, <2>3, <2>5, <3>1 DEF PanelWalk
<1> QED
  BY <1>2, <1>3, <1>4 DEF PanelInv

LEMMA PanelQueue ==
    ASSUME Panel!RuntimeTasksPanelAssumption, PanelInv, NEW m \in PanelModes, Panel!Queue(m)
    PROVE  PanelInv'
<1> DEFINE r == [state |-> "queued", mode |-> m, asked |-> FALSE, events |-> 1]
           t == Append(tasks, r)
<1>1. r \in PanelTask /\ tasks \in Seq(PanelTask)
  BY DEF PanelTask, PanelInv, PanelServer
<1>2. /\ tasks' = t
      /\ UNCHANGED <<runtimeTasksPanelPage, data, walk, cancelling, open, evidence, runtimeTasksPanelPosts>>
  BY DEF Panel!Queue, Panel!panel
<1> HIDE DEF r
<1>3. t \in Seq(PanelTask) /\ Len(t) = Len(tasks) + 1 /\ Len(tasks) \in Nat /\ DOMAIN tasks = 1..Len(tasks)
  BY <1>1
<1> HIDE DEF t
<1>4. /\ open \in 0..Len(tasks) /\ cancelling \in 0..Len(tasks) /\ \A d, e \in evidence : d = e
      /\ runtimeTasksPanelPosts \subseteq [task : DOMAIN tasks, pc : {"sent", "ok"}]
  BY DEF PanelInv, PanelShown, PanelServer
<1>5. /\ open \in 0..Len(t) /\ cancelling \in 0..Len(t) /\ Len(t) >= Len(tasks)
      /\ 1..Len(tasks) \subseteq 1..Len(t)
  BY <1>3, <1>4
<1>6. runtimeTasksPanelPosts \subseteq [task : 1..Len(t), pc : {"sent", "ok"}]
  BY <1>3, <1>4, <1>5
<1> QED
  BY <1>2, <1>3, <1>4, <1>5, <1>6, PanelSameWalk

\* What holds of the tasks and the requests in every state.
LEMMA PanelKnows ==
    ASSUME PanelInv
    PROVE  /\ tasks \in Seq(PanelTask) /\ Len(tasks) \in Nat /\ DOMAIN tasks = 1..Len(tasks)
           /\ \A n \in 1..Len(tasks) : tasks[n] \in PanelTask
           /\ open \in 0..Len(tasks) /\ cancelling \in 0..Len(tasks) /\ \A d, e \in evidence : d = e
           /\ runtimeTasksPanelPosts \subseteq [task : 1..Len(tasks), pc : {"sent", "ok"}]
<1>1. tasks \in Seq(PanelTask) /\ runtimeTasksPanelPosts \subseteq [task : DOMAIN tasks, pc : {"sent", "ok"}]
  BY DEF PanelInv, PanelServer
<1>2. Len(tasks) \in Nat /\ DOMAIN tasks = 1..Len(tasks) /\ \A n \in 1..Len(tasks) : tasks[n] \in PanelTask
  BY <1>1
<1>3. open \in 0..Len(tasks) /\ cancelling \in 0..Len(tasks) /\ \A d, e \in evidence : d = e
  BY DEF PanelInv, PanelShown
<1> QED
  BY <1>1, <1>2, <1>3

LEMMA PanelTaskForm ==
    ASSUME NEW u \in PanelTask, NEW e \in Nat
    PROVE  /\ u.events + 1 \in Nat
           /\ [u EXCEPT !.asked = TRUE, !.events = e] \in PanelTask
           /\ \A s \in {"queued", "claimed", "running", "completed", "failed", "cancelled"} :
                [u EXCEPT !.state = s, !.events = e] \in PanelTask
<1>1. u.events + 1 \in Nat
  BY DEF PanelTask
<1>2. [u EXCEPT !.asked = TRUE, !.events = e] \in PanelTask
  BY DEF PanelTask
<1>3. ASSUME NEW s \in {"queued", "claimed", "running", "completed", "failed", "cancelled"}
      PROVE  [u EXCEPT !.state = s, !.events = e] \in PanelTask
  BY DEF PanelTask
<1> QED
  BY <1>1, <1>2, <1>3

\* A change of one task leaves the sequence one of as many tasks.
LEMMA PanelTaskChanged ==
    ASSUME PanelInv, NEW n \in 1..Len(tasks), NEW x \in PanelTask
    PROVE  [tasks EXCEPT ![n] = x] \in Seq(PanelTask) /\ Len([tasks EXCEPT ![n] = x]) = Len(tasks)
BY PanelKnows

LEMMA PanelTaskMoves ==
    ASSUME Panel!RuntimeTasksPanelAssumption, PanelInv, NEW n \in DOMAIN tasks,
           NEW s \in {"claimed", "running", "completed", "failed", "cancelled"}, Panel!Moves(n, s)
    PROVE  PanelInv'
<1>1. n \in 1..Len(tasks) /\ tasks[n] \in PanelTask /\ Len(tasks) \in Nat
  BY PanelKnows
<1> DEFINE x == [tasks[n] EXCEPT !.state = s, !.events = tasks[n].events + 1]
<1>2. x \in PanelTask
  <2>1. tasks[n].events + 1 \in Nat
    BY <1>1, PanelTaskForm
  <2> QED
    BY <1>1, <2>1, PanelTaskForm
<1> DEFINE t == [tasks EXCEPT ![n] = x]
<1>3. tasks' = t
  <2>1. tasks' = [tasks EXCEPT ![n].state = s, ![n].events = @ + 1]
    BY DEF Panel!Moves
  <2> QED
    BY <1>1, <2>1, PanelKnows DEF PanelTask
<1>4. UNCHANGED <<runtimeTasksPanelPage, data, walk, cancelling, open, evidence, runtimeTasksPanelPosts>>
  BY DEF Panel!Moves, Panel!panel
<1>5. t \in Seq(PanelTask) /\ Len(t) = Len(tasks)
  BY <1>1, <1>2, PanelTaskChanged
<1> HIDE DEF x, t
<1> QED
  BY <1>1, <1>3, <1>4, <1>5, PanelKnows, PanelSameWalk

LEMMA PanelPoll ==
    ASSUME Panel!RuntimeTasksPanelAssumption, PanelInv, Panel!Poll PROVE PanelInv'
<1>1. /\ Panel!Reads(runtimeTasksPanelPage) /\ data' = Panel!ListRuntimeTasksPage
      /\ UNCHANGED <<tasks, runtimeTasksPanelPage, open, evidence, cancelling, runtimeTasksPanelPosts>>
  BY DEF Panel!Poll
<1>2. \A d, e \in evidence' : d = e
  BY <1>1, PanelKnows
<1>3. PanelShown' /\ PanelWalk'
  BY <1>1, <1>2, PanelFetched
<1>4. PanelServer'
  BY <1>1 DEF PanelInv, PanelServer
<1> QED
  BY <1>3, <1>4 DEF PanelInv

LEMMA PanelTurn ==
    ASSUME Panel!RuntimeTasksPanelAssumption, PanelInv, NEW p \in Nat, Panel!Turn(p) PROVE PanelInv'
<1> DEFINE o == runtimeTasksPanelPage
           L == Len(tasks)
<1>1. /\ runtimeTasksPanelPage' = p /\ data' = {} /\ open' = 0 /\ evidence' = {}
      /\ UNCHANGED <<tasks, cancelling, runtimeTasksPanelPosts, walk>>
  BY DEF Panel!Turn, Panel!NoTask
<1>2. PICK d \in data : d.total > PageSize /\ p <= Panel!LastPage(d.total)
  BY DEF Panel!Turn
<1>3. o \in Nat /\ d.total \in Nat /\ d.total <= L /\ L \in Nat
  BY PanelKnows DEF PanelInv, PanelShown
<1>4. p = o + 1 \/ (o > 0 /\ p = o - 1)
  <2>1. p \in {o + 1} \cup (IF o > 0 THEN {o - 1} ELSE {})
    BY DEF Panel!Turn
  <2> QED
    BY <2>1
<1>5. PageSize \in Nat \ {0} /\ p * PageSize \in Nat /\ o * PageSize \in Nat
  BY <1>3, PanelStart
<1>6. p * PageSize < L
  <2> DEFINE q == Panel!LastPage(d.total)
  <2>1. q \in Nat /\ q * PageSize <= d.total - 1
    <3>1. d.total > 0
      BY <1>2, <1>3, <1>5
    <3> QED
      BY <1>3, <3>1, PanelLastPage
  <2>2. p * PageSize <= q * PageSize /\ q * PageSize \in Nat
    BY <1>2, <2>1, PanelStart
  <2> HIDE DEF q
  <2> QED
    BY <1>3, <1>5, <2>1, <2>2
<1>7. p * PageSize <= o * PageSize + PageSize
  <2>1. CASE p = o + 1
    BY <1>3, <2>1, PanelStart
  <2>2. CASE o > 0 /\ p = o - 1
    <3>1. p * PageSize = o * PageSize - PageSize
      BY <1>3, <2>2, PanelStart
    <3> QED
      BY <1>5, <3>1
  <2> QED
    BY <1>4, <2>1, <2>2
<1>8. PanelServer'
  BY <1>1 DEF PanelInv, PanelServer
<1>9. PanelShown'
  <2>1. 0 \in 0..L /\ cancelling \in 0..L
    BY <1>3, PanelKnows
  <2> QED
    BY <1>1, <1>6, <2>1 DEF PanelShown
<1>10. PanelWalk'
  <2>1. walk \in [from : SUBSET Nat, seen : SUBSET Nat]
    BY DEF PanelInv, PanelWalk
  <2>2. PICK n \in Nat : walk.from = 1..n /\ n <= L
    BY DEF PanelInv, PanelWalk
  <2>3. \A k \in walk.from : k > d.total - (o * PageSize + PageSize) => k \in walk.seen
    BY DEF PanelInv, PanelWalk
  <2>4. \A k \in walk.from : k > L - p * PageSize => k \in walk.seen
    <3> DEFINE a == p * PageSize
               b == o * PageSize
    <3>1. a \in Nat /\ b \in Nat /\ a <= b + PageSize /\ d.total \in Nat /\ d.total <= L /\ PageSize \in Nat
      BY <1>3, <1>5, <1>7
    <3> HIDE DEF a, b
    <3>2. \A k \in walk.from : k > L - a => k > d.total - (b + PageSize)
      BY <1>3, <2>2, <3>1
    <3> QED
      BY <2>3, <3>2 DEF a, b
  <2> QED
    BY <1>1, <2>1, <2>2, <2>4 DEF PanelWalk
<1> QED
  BY <1>8, <1>9, <1>10 DEF PanelInv

LEMMA PanelSelect ==
    ASSUME Panel!RuntimeTasksPanelAssumption, PanelInv, NEW n \in DOMAIN tasks, Panel!Select(n) PROVE PanelInv'
<1>1. /\ open' \in {0, n} /\ evidence' = {}
      /\ UNCHANGED <<tasks, runtimeTasksPanelPage, data, walk, cancelling, runtimeTasksPanelPosts>>
  BY DEF Panel!Select, Panel!NoTask
<1>2. open' \in 0..Len(tasks)
  BY <1>1, PanelKnows
<1> QED
  BY <1>1, <1>2, PanelKnows, PanelSameWalk

LEMMA PanelPollEvidence ==
    ASSUME Panel!RuntimeTasksPanelAssumption, PanelInv, Panel!PollEvidence PROVE PanelInv'
<1>1. /\ evidence' = {tasks[open].events}
      /\ UNCHANGED <<tasks, runtimeTasksPanelPage, data, open, walk, cancelling, runtimeTasksPanelPosts>>
  BY DEF Panel!PollEvidence
<1> QED
  BY <1>1, PanelKnows, PanelSameWalk

LEMMA PanelPressCancel ==
    ASSUME Panel!RuntimeTasksPanelAssumption, PanelInv, NEW n \in DOMAIN tasks, Panel!PressCancel(n) PROVE PanelInv'
<1>1. /\ cancelling' = n
      /\ runtimeTasksPanelPosts' = runtimeTasksPanelPosts \cup {[task |-> n, pc |-> "sent"]}
      /\ UNCHANGED <<tasks, runtimeTasksPanelPage, data, open, evidence, walk>>
  BY DEF Panel!PressCancel
<1>2. n \in 1..Len(tasks) /\ n \in 0..Len(tasks) /\ [task |-> n, pc |-> "sent"] \in [task : 1..Len(tasks), pc : {"sent", "ok"}]
  BY PanelKnows
<1> QED
  BY <1>1, <1>2, PanelKnows, PanelSameWalk

\* The requests that a step leaves are still for tasks there are.
LEMMA PanelPosts ==
    ASSUME PanelInv, NEW r \in runtimeTasksPanelPosts
    PROVE  /\ r.task \in 1..Len(tasks)
           /\ runtimeTasksPanelPosts \ {r} \subseteq [task : 1..Len(tasks), pc : {"sent", "ok"}]
           /\ (runtimeTasksPanelPosts \ {r}) \cup {[r EXCEPT !.pc = "ok"]}
                \subseteq [task : 1..Len(tasks), pc : {"sent", "ok"}]
<1>1. r \in [task : 1..Len(tasks), pc : {"sent", "ok"}]
      /\ runtimeTasksPanelPosts \subseteq [task : 1..Len(tasks), pc : {"sent", "ok"}]
  BY PanelKnows
<1>2. [r EXCEPT !.pc = "ok"] \in [task : 1..Len(tasks), pc : {"sent", "ok"}]
  BY <1>1
<1> QED
  BY <1>1, <1>2

LEMMA PanelCancelRuntimeTask ==
    ASSUME Panel!RuntimeTasksPanelAssumption, PanelInv, NEW r \in runtimeTasksPanelPosts,
           Panel!CancelRuntimeTask(r)
    PROVE  PanelInv'
<1> DEFINE u == tasks[r.task]
           w == u.mode = "working copy" /\ u.state # "queued"
           x == IF w THEN [u EXCEPT !.asked = TRUE, !.events = u.events + 1]
                     ELSE [u EXCEPT !.state = "cancelled", !.events = u.events + 1]
           t == [tasks EXCEPT ![r.task] = x]
<1>1. r.task \in 1..Len(tasks) /\ u \in PanelTask /\ Len(tasks) \in Nat
  BY PanelPosts, PanelKnows
<1>2. x \in PanelTask
  <2>1. /\ [u EXCEPT !.asked = TRUE, !.events = u.events + 1] \in PanelTask
        /\ [u EXCEPT !.state = "cancelled", !.events = u.events + 1] \in PanelTask
    <3>1. u.events + 1 \in Nat
      BY <1>1, PanelTaskForm
    <3> HIDE DEF u
    <3> QED
      BY <1>1, <3>1, PanelTaskForm
  <2> QED
    BY <2>1, Zenon
<1>3. /\ tasks' = t
      /\ runtimeTasksPanelPosts' = (runtimeTasksPanelPosts \ {r}) \cup {[r EXCEPT !.pc = "ok"]}
      /\ UNCHANGED <<runtimeTasksPanelPage, data, walk, cancelling, open, evidence>>
  <2>1. tasks' = [tasks EXCEPT ![r.task] = IF w THEN [u EXCEPT !.asked = TRUE, !.events = @ + 1]
                                                ELSE [u EXCEPT !.state = "cancelled", !.events = @ + 1]]
    BY DEF Panel!CancelRuntimeTask
  <2>2. /\ runtimeTasksPanelPosts' = (runtimeTasksPanelPosts \ {r}) \cup {[r EXCEPT !.pc = "ok"]}
        /\ UNCHANGED <<runtimeTasksPanelPage, data, walk, cancelling, open, evidence>>
    BY DEF Panel!CancelRuntimeTask, Panel!panel
  <2> QED
    BY <2>1, <2>2
<1>4. t \in Seq(PanelTask) /\ Len(t) = Len(tasks)
  BY <1>1, <1>2, PanelTaskChanged
<1> HIDE DEF x, t
<1> QED
  BY <1>1, <1>3, <1>4, PanelKnows, PanelPosts, PanelSameWalk

LEMMA PanelCancelFails ==
    ASSUME Panel!RuntimeTasksPanelAssumption, PanelInv, NEW r \in runtimeTasksPanelPosts, Panel!CancelFails(r)
    PROVE  PanelInv'
<1>1. /\ runtimeTasksPanelPosts' = runtimeTasksPanelPosts \ {r}
      /\ UNCHANGED <<tasks, runtimeTasksPanelPage, data, walk, cancelling, open, evidence>>
  BY DEF Panel!CancelFails, Panel!panel
<1> QED
  BY <1>1, PanelKnows, PanelPosts, PanelSameWalk

LEMMA PanelCancelled ==
    ASSUME Panel!RuntimeTasksPanelAssumption, PanelInv, NEW r \in runtimeTasksPanelPosts, Panel!Cancelled(r)
    PROVE  PanelInv'
<1>1. /\ runtimeTasksPanelPosts' = runtimeTasksPanelPosts \ {r}
      /\ Panel!Reads(runtimeTasksPanelPage) /\ data' = Panel!ListRuntimeTasksPage
      /\ evidence' = (IF open = r.task THEN {tasks[open].events} ELSE evidence)
      /\ UNCHANGED <<tasks, runtimeTasksPanelPage, open, cancelling>>
  BY DEF Panel!Cancelled
<1>2. \A d, e \in evidence' : d = e
  BY <1>1, PanelKnows
<1>3. PanelShown' /\ PanelWalk'
  BY <1>1, <1>2, PanelFetched
<1>4. PanelServer'
  <2>1. runtimeTasksPanelPosts \ {r} \subseteq [task : DOMAIN tasks, pc : {"sent", "ok"}]
    BY DEF PanelInv, PanelServer
  <2> QED
    BY <1>1, <2>1 DEF PanelInv, PanelServer
<1> QED
  BY <1>3, <1>4 DEF PanelInv

LEMMA PanelStep ==
    ASSUME Panel!RuntimeTasksPanelAssumption, PanelInv, [Panel!Next]_(Panel!vars)
    PROVE  PanelInv'
<1>1. CASE UNCHANGED Panel!vars
  <2>1. UNCHANGED <<tasks, runtimeTasksPanelPage, data, open, evidence, cancelling, runtimeTasksPanelPosts, walk>>
    BY <1>1 DEF Panel!vars, Panel!panel
  <2> QED
    BY <2>1, PanelKnows, PanelSameWalk
<1>2. CASE Panel!Next
  <2>1. ASSUME NEW m \in PanelModes, Panel!Queue(m) PROVE PanelInv'
    BY <2>1, PanelQueue
  <2>2. ASSUME NEW n \in DOMAIN tasks, NEW s \in {"claimed", "running", "completed", "failed", "cancelled"},
               Panel!Moves(n, s)
        PROVE PanelInv'
    BY <2>2, PanelTaskMoves
  <2>3. ASSUME NEW n \in DOMAIN tasks, Panel!Select(n) \/ Panel!PressCancel(n) PROVE PanelInv'
    BY <2>3, PanelSelect, PanelPressCancel
  <2>4. ASSUME Panel!Poll \/ Panel!PollEvidence PROVE PanelInv'
    BY <2>4, PanelPoll, PanelPollEvidence
  <2>5. ASSUME NEW p \in 0..PanelTasks, Panel!Turn(p) PROVE PanelInv'
    <3>1. p \in Nat
      <4>1. PanelTasks \in Nat
        BY DEF Panel!RuntimeTasksPanelAssumption
      <4> QED
        BY <4>1
    <3> QED
      BY <2>5, <3>1, PanelTurn
  <2>6. ASSUME NEW r \in runtimeTasksPanelPosts,
               Panel!CancelRuntimeTask(r) \/ Panel!CancelFails(r) \/ Panel!Cancelled(r)
        PROVE PanelInv'
    BY <2>6, PanelCancelRuntimeTask, PanelCancelFails, PanelCancelled
  <2> QED
    BY <1>2, <2>1, <2>2, <2>3, <2>4, <2>5, <2>6 DEF Panel!Next
<1> QED
  BY <1>1, <1>2

\* The pages have the form of their data, and on the last of them every task there
\* was at the first has been seen.
LEMMA PanelSound ==
    ASSUME Panel!RuntimeTasksPanelAssumption, PanelInv
    PROVE  Panel!TypeOK /\ Panel!NoneSkipped
<1>1. Panel!TypeOK
  <2>1. \A n \in DOMAIN tasks :
          /\ tasks[n].state \in Panel!Active \cup {"completed", "failed", "cancelled"}
          /\ tasks[n].asked \in BOOLEAN /\ tasks[n].events \in Nat
    BY PanelKnows DEF PanelTask, Panel!Active
  <2>2. /\ runtimeTasksPanelPage \in Nat
        /\ runtimeTasksPanelPage > 0 => runtimeTasksPanelPage * PageSize < Len(tasks)
        /\ \A d \in data : Len(d.rows) <= PageSize
    BY DEF PanelInv, PanelShown
  <2>3. Panel!Cardinality(data) <= 1 /\ Panel!Cardinality(evidence) <= 1
    <3>1. (\A d, e \in data : d = e) /\ (\A d, e \in evidence : d = e)
      BY DEF PanelInv, PanelShown
    <3> QED
      BY <3>1, AtMostOne, SamePanelCardinality
  <2>4. open \in 0..Len(tasks) /\ cancelling \in 0..Len(tasks)
    BY PanelKnows
  <2>5. \A r \in runtimeTasksPanelPosts : r.task \in DOMAIN tasks
    BY PanelKnows, PanelPosts
  <2> QED
    BY <2>1, <2>2, <2>3, <2>4, <2>5 DEF Panel!TypeOK
<1>2. ASSUME NEW d \in data, runtimeTasksPanelPage = Panel!LastPage(d.total)
      PROVE  walk.from \subseteq walk.seen
  <2> DEFINE q == runtimeTasksPanelPage * PageSize
  <2>1. PICK n \in Nat : walk.from = 1..n /\ n <= d.total
    BY DEF PanelInv, PanelWalk
  <2>2. d.total \in Nat /\ q \in Nat /\ PageSize \in Nat
    BY PanelStart DEF PanelInv, PanelShown
  <2>3. CASE d.total = 0
    BY <2>1, <2>2, <2>3
  <2>4. CASE d.total > 0
    <3>1. d.total <= q + PageSize
      BY <1>2, <2>2, <2>4, PanelLastPage
    <3>2. \A k \in walk.from : k > d.total - (q + PageSize) => k \in walk.seen
      BY DEF PanelInv, PanelWalk
    <3> HIDE DEF q
    <3> QED
      BY <2>1, <2>2, <3>1, <3>2
  <2> QED
    BY <2>2, <2>3, <2>4
<1> QED
  BY <1>1, <1>2 DEF Panel!NoneSkipped

\* Whoever turns the pages of the task queue to the last one has seen every task
\* there was when he looked at the first, though new ones come in front of them
\* all the while.
THEOREM NoTaskSkipped ==
    ASSUME Panel!RuntimeTasksPanelAssumption
    PROVE  Panel!Spec => [](Panel!TypeOK /\ Panel!NoneSkipped)
<1>1. Panel!Init => PanelInv
  BY PanelInit
<1>2. PanelInv /\ [Panel!Next]_(Panel!vars) => PanelInv'
  BY PanelStep
<1>3. PanelInv => Panel!TypeOK /\ Panel!NoneSkipped
  BY PanelSound
<1> QED
  BY <1>1, <1>2, <1>3, PTL DEF Panel!Spec

==============================================================================
