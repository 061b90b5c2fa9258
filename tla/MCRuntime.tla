---- MODULE MCRuntime ----
(*****************************************************************************)
(* What runs without a user: the triage and analysis the server queues for   *)
(* an issue, the identities of a host and of a work root, the snapshots of   *)
(* the personal server when writing them fails, and the adapter of an agent  *)
(* engine.                                                                   *)
(* They share no state in these models, so each runs alone, chosen by the    *)
(* variable part; an instance gives a component the constants of one         *)
(* question, and what RuntimeProofs proves of the component holds in each.   *)
(*****************************************************************************)
EXTENDS RuntimeProofs

CONSTANTS draft, feat, fix, i1, i2, i3, i4, k1, k2, p1, p2, t1, t2
CONSTANTS desktop, daemon, other

VARIABLES
    part,   \* the component that runs, and in which instance
    memory, disk, storeRequest, mutex, answered, storeBudget

hostVars == <<file, temp, load, call, answers, used, up, crashes, fails>>
rootVars == <<rootFile, rootSynced, rootPc, rootId, rootMade, rootServed, rootFaults>>
engineVars == <<engine, pipe, proc, chan, reader, request, adapter, run, cancel, artifact>>
storeVars == <<memory, disk, storeRequest, mutex, answered, storeBudget>>
partsVars == <<part, vars, hostVars, rootVars, storeVars, engineVars>>

\* The values in which the instances differ from the constants of this module.
AnalysisProjects == {p1, p2}
AnalysisDoes == {"attach", "crash"}
SettlingDoes == {"old", "lost report"}
TestingEngines == {"codex"}
SnapshotClients == {desktop, daemon, other}

\* The analysis of an issue, and a test of an engine.
Second == INSTANCE RuntimeProofs WITH Projects <- AnalysisProjects, Does <- AnalysisDoes,
    MaxAsks <- 3, MaxEdits <- 1, MaxTasks <- 1, MaxFaults <- 1,
    Engines <- TestingEngines, MaxNotes <- 0, Tests <- TRUE
Settling == INSTANCE IssueAutomation WITH Does <- SettlingDoes, MaxAsks <- 2,
    MaxEdits <- 0, MaxTasks <- 2, MaxFaults <- 2
Snapshots == INSTANCE SnapshotStore WITH Clients <- SnapshotClients, Large <- TRUE,
    MaxRows <- 3, MaxCrashes <- 1, MaxFails <- 1, request <- storeRequest,
    budget <- storeBudget
EngineEnds == INSTANCE AgentEngine WITH MaxNotes <- 0, Large <- TRUE, Helpers <- FALSE,
    Tests <- FALSE

\* Every instance satisfies what its component assumes of the constants; the
\* prompt fits the pipe to the engine, and what fails of a work root's file is
\* writing it.
ASSUME InstancesAssumption == IssueAutomationAssumption
    /\ Second!IssueAutomationAssumption /\ Settling!IssueAutomationAssumption
    /\ Snapshots!SnapshotStoreAssumption
    /\ Host!HostIdentityAssumption
    /\ Storage!WorkerStorageAssumption /\ StorageReliable
    /\ Engine!EngineAssumption /\ Second!Engine!EngineAssumption /\ EngineEnds!EngineAssumption
    /\ ~Large

\* One component runs; the variables of the others stand still.
AutomationInit ==
  \/ part = "analysis" /\ Second!Init
  \/ part = "triage settles" /\ Settling!Init
  \/ part \notin {"analysis", "triage settles"} /\ Init
HostsInit ==
  \/ part = "host" /\ Host!Init
  \/ part # "host" /\ file = 0 /\ temp = 0 /\ load = 0 /\ call = 0 /\ answers = 0
     /\ used = 0 /\ up = 0 /\ crashes = 0 /\ fails = 0
RootInit ==
  \/ part = "work root" /\ Storage!Init
  \/ part # "work root" /\ rootFile = 0 /\ rootSynced = 0 /\ rootPc = 0 /\ rootId = 0
     /\ rootMade = 0 /\ rootServed = 0 /\ rootFaults = 0
EnginesInit ==
  \/ part = "engine" /\ Engine!Init
  \/ part = "engine in tests" /\ Second!Engine!Init
  \/ part = "engine ends" /\ EngineEnds!Init
  \/ part \notin {"engine", "engine in tests", "engine ends"} /\ engine = 0 /\ pipe = 0
     /\ proc = 0 /\ chan = 0 /\ reader = 0 /\ request = 0 /\ adapter = 0 /\ run = 0
     /\ cancel = 0 /\ artifact = 0

PartsInit ==
  /\ part \in {"triage", "analysis", "triage settles", "host", "work root",
       "failing snapshots", "engine", "engine in tests", "engine ends"}
  /\ AutomationInit /\ HostsInit /\ RootInit /\ Snapshots!Init /\ EnginesInit

AutomationNext ==
  /\ \/ part = "triage" /\ Next
     \/ part = "analysis" /\ Second!Next
     \/ part = "triage settles" /\ Settling!Next
  /\ UNCHANGED <<part, hostVars, rootVars, storeVars, engineVars>>
HostsNext ==
  part = "host" /\ Host!Reliable /\ UNCHANGED <<part, vars, rootVars, storeVars, engineVars>>
RootNext ==
  part = "work root" /\ Storage!Next /\ UNCHANGED <<part, vars, hostVars, storeVars, engineVars>>
StoreNext ==
  /\ part = "failing snapshots" /\ Snapshots!Next
  /\ UNCHANGED <<part, vars, hostVars, rootVars, engineVars>>
EnginesNext ==
  /\ \/ part = "engine" /\ Engine!Next
     \/ part = "engine in tests" /\ Second!Engine!Next
     \/ part = "engine ends" /\ EngineEnds!Next
  /\ UNCHANGED <<part, vars, hostVars, rootVars, storeVars>>

PartsNext == AutomationNext \/ HostsNext \/ RootNext \/ StoreNext \/ EnginesNext

\* What each module says of its own fairness, while it runs.
PartsSpec ==
  /\ PartsInit /\ [][PartsNext]_partsVars
  /\ WF_vars(part = "triage settles" /\ \E r \in requests : Settling!Handle(r))
  /\ WF_vars(part = "triage settles" /\ Settling!Claim)
  /\ WF_vars(part = "triage settles" /\ Settling!MarkRunning)
  /\ WF_vars(part = "triage settles" /\ Settling!Answer)
  /\ WF_hostVars(part = "host" /\ (Host!ReadFound \/ Host!ReadMissing))
  /\ WF_hostVars(part = "host" /\ Host!WriteTemp)
  /\ WF_hostVars(part = "host" /\ Host!Rename)
  /\ WF_hostVars(part = "host" /\ Host!Answer)
  /\ \A c \in {desktop, daemon, other} :
       WF_storeVars(part = "failing snapshots" /\ (Snapshots!Copy(c) \/ Snapshots!Write(c)))
  /\ \A c \in {desktop, daemon, other} :
       SF_storeVars(part = "failing snapshots" /\ Snapshots!Lock(c))
  /\ WF_engineVars(part = "engine ends" /\ EngineEnds!Reap /\ EngineEnds!MustReap)
  /\ WF_engineVars(part = "engine ends" /\ EngineEnds!ReadMessage)
  /\ WF_engineVars(part = "engine ends" /\ EngineEnds!ReadEnd)
  /\ WF_engineVars(part = "engine ends" /\ EngineEnds!AdapterNext)
  /\ WF_engineVars(part = "engine ends" /\ EngineEnds!RunNext)
  /\ WF_engineVars(part = "engine ends" /\ EngineEnds!Tick)
  /\ WF_engineVars(part = "engine ends" /\ \E m \in {"reply", "refusal"} : EngineEnds!Replies(m))

-----------------------------------------------------------------------------
\* One of the waiting ones; callers and clients are alike.
Unsettled ==
    \/ part = "host" /\ call[k1] = "waiting"
    \/ part = "triage settles" /\ issue.triage = "pending"
    \/ part = "failing snapshots" /\ Snapshots!At(desktop, "applied")
    \/ /\ part = "engine ends" /\ run.step # "returned"
       /\ cancel \/ (EngineEnds!Prompted /\ engine.ended # "no") \/ ~engine.alive

\* Of the components beneath the pages:
\* - only requests that overlap queue more than one automatic analysis: no request
\*   that looks for one once it is there adds another, whatever is attached, ends
\*   or dies (a second one by requests that both looked before is possible);
\* - every answer of the host, to any caller and before or after crashes and
\*   failed writes, is the id on disk;
\* - all workers of a work root register under one id, whichever of them made it;
\* - when a run has returned, the worktree is inspected and the writer's
\*   reservation released: neither the engine nor a child of it may still run
\*   (executeAgentEngine, agentEngineProcess.stop);
\* - a run is told as completed only if the engine said so or the test left its
\*   result, as cancelled only if it was or Codex says that its turn was
\*   interrupted, and as failed only if the engine failed by itself or a test
\*   left no result;
\* - variables have their types.
RuntimeSound ==
    /\ part = "triage" => TypeOK
    /\ part = "analysis" => Second!OnlyRacesRepeat
    /\ part = "host" => Host!TypeOK /\ Host!OneIdentity
    /\ part = "work root" => Storage!TypeOK /\ Storage!OneIdentity
    /\ part = "engine" => Engine!TypeOK /\ Engine!EngineGone /\ Engine!OutcomeTold
    /\ part = "engine in tests" => Second!Engine!OutcomeTold

\* The identity a worker registered with is not lost: it stays in the file, so
\* that the working copies bound to it are found again (ensureWorkerStorageID).
IdentityStays == part = "work root" => Storage!IdentityStays

\* Whoever waits is served: a caller of the host identity is answered, a pending
\* triage is settled, a request gets to write its snapshot, and a run whose
\* engine ended or that was cancelled returns.  And a snapshot that failed is made
\* up for: what one request left behind is in the file as soon as a later
\* request's snapshot succeeds, and the file never goes back to an older one, also
\* when answers are sent early.
RuntimeSettles ==
    /\ Unsettled ~> ~Unsettled
    /\ Snapshots!NextSaves /\ Snapshots!DiskAdvances

-----------------------------------------------------------------------------
\* The inductive invariant of whichever component runs.
PartsInv ==
    /\ part = "triage" => IInv
    /\ part = "analysis" => Second!IInv /\ Second!AnalysisInv
    /\ part = "host" => HostInv
    /\ part = "work root" => StorageInv
    /\ part = "engine" => EngineInv
    /\ part = "engine in tests" => Second!EngineInv

LEMMA PartsInitially ==
    ASSUME PartsInit
    PROVE  PartsInv
<1>1. ASSUME part = "triage" PROVE IInv
  BY <1>1, InstancesAssumption, InitIInv DEF PartsInit, AutomationInit
<1>2. ASSUME part = "analysis" PROVE Second!IInv /\ Second!AnalysisInv
  <2>1. Second!Init
    BY <1>2 DEF PartsInit, AutomationInit
  <2>2. Second!AnalysisInv
    BY <2>1 DEF Second!Init, Second!AnalysisInv, Second!OnlyRacesRepeat
  <2> QED
    BY <2>1, <2>2, InstancesAssumption, Second!InitIInv
<1>3. ASSUME part = "host" PROVE HostInv
  BY <1>3, InstancesAssumption, HostInit DEF PartsInit, HostsInit
<1>4. ASSUME part = "work root" PROVE StorageInv
  BY <1>4, InstancesAssumption, StorageInit DEF PartsInit, RootInit
<1>5. ASSUME part = "engine" PROVE EngineInv
  BY <1>5, InstancesAssumption, EngineInit DEF PartsInit, EnginesInit
<1>6. ASSUME part = "engine in tests" PROVE Second!EngineInv
  BY <1>6, InstancesAssumption, Second!EngineInit DEF PartsInit, EnginesInit
<1> QED
  BY <1>1, <1>2, <1>3, <1>4, <1>5, <1>6 DEF PartsInv

LEMMA PartsStep ==
    ASSUME PartsInv, [PartsNext]_partsVars
    PROVE  PartsInv'
<1> USE DEF PartsNext, AutomationNext, HostsNext, RootNext, StoreNext, EnginesNext, partsVars
<1>1. part' = part
  OBVIOUS
<1>2. ASSUME part = "triage" PROVE IInv'
  <2>1. [Next]_vars
    BY <1>2 DEF vars
  <2> QED
    BY <1>2, <2>1, InstancesAssumption, StepIInv DEF PartsInv
<1>3. ASSUME part = "analysis" PROVE Second!IInv' /\ Second!AnalysisInv'
  <2>1. [Second!Next]_(Second!vars)
    BY <1>3 DEF vars, Second!vars
  <2>2. Second!IInv /\ Second!AnalysisInv
    BY <1>3 DEF PartsInv
  <2>3. Second!TypeOK
    BY <2>2 DEF Second!IInv
  <2> QED
    BY <2>1, <2>2, <2>3, InstancesAssumption, Second!StepIInv, Second!StepAnalysis
<1>4. ASSUME part = "host" PROVE HostInv'
  <2>1. [Host!Reliable]_(Host!vars)
    BY <1>4 DEF hostVars, Host!vars
  <2> QED
    BY <1>4, <2>1, InstancesAssumption, HostStep DEF PartsInv
<1>5. ASSUME part = "work root" PROVE StorageInv'
  <2>1. [Storage!Next]_(Storage!vars)
    BY <1>5 DEF rootVars, Storage!vars
  <2> QED
    BY <1>5, <2>1, InstancesAssumption, StorageStep DEF PartsInv
<1>6. ASSUME part = "engine" PROVE EngineInv'
  <2>1. [Engine!Next]_(Engine!vars)
    BY <1>6 DEF engineVars, Engine!vars
  <2> QED
    BY <1>6, <2>1, InstancesAssumption, EngineSteps DEF PartsInv
<1>7. ASSUME part = "engine in tests" PROVE Second!EngineInv'
  <2>1. [Second!Engine!Next]_(Second!Engine!vars)
    BY <1>7 DEF engineVars, Second!Engine!vars
  <2> QED
    BY <1>7, <2>1, InstancesAssumption, Second!EngineSteps DEF PartsInv
<1> QED
  BY <1>1, <1>2, <1>3, <1>4, <1>5, <1>6, <1>7 DEF PartsInv

LEMMA PartsSound ==
    ASSUME PartsInv
    PROVE  RuntimeSound
<1>1. part = "triage" => TypeOK
  BY DEF PartsInv, IInv
<1>2. part = "analysis" => Second!OnlyRacesRepeat
  BY DEF PartsInv, Second!AnalysisInv
<1>3. part = "host" => Host!TypeOK /\ Host!OneIdentity
  BY DEF PartsInv, HostInv
<1>4. part = "work root" => Storage!TypeOK /\ Storage!OneIdentity
  BY StorageOne DEF PartsInv, StorageInv
<1>5. part = "engine" => Engine!TypeOK /\ Engine!EngineGone /\ Engine!OutcomeTold
  BY InstancesAssumption, EngineSound DEF PartsInv
<1>6. part = "engine in tests" => Second!Engine!OutcomeTold
  BY InstancesAssumption, Second!EngineSound DEF PartsInv
<1> QED
  BY <1>1, <1>2, <1>3, <1>4, <1>5, <1>6 DEF RuntimeSound

\* What runs beneath the pages keeps what it promises, in every instance, for any
\* identities of projects, types, titles, hosts, callers and workers, any room of
\* the engine's channel and any number of requests and faults where the bound is
\* a constant of this module.
THEOREM RuntimeIsSound == PartsSpec => []RuntimeSound
<1>1. PartsInit => PartsInv
  BY PartsInitially
<1>2. PartsInv /\ [PartsNext]_partsVars => PartsInv'
  BY PartsStep
<1>3. PartsInv => RuntimeSound
  BY PartsSound
<1> QED
  BY <1>1, <1>2, <1>3, PTL DEF PartsSpec

\* And a work root keeps the identity its workers have registered with.
THEOREM IdentityHolds == PartsSpec => []IdentityStays
<1>1. PartsInit => PartsInv
  BY PartsInitially
<1>2. PartsInv /\ [PartsNext]_partsVars => PartsInv'
  BY PartsStep
<1>3. PartsInv => IdentityStays
  BY DEF PartsInv, StorageInv, IdentityStays
<1> QED
  BY <1>1, <1>2, <1>3, PTL DEF PartsSpec

=============================================================================
