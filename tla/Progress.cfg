SPECIFICATION FairSpec
CONSTANTS
  w1 = w1  d1 = d1  d2 = d2
  None = None
  Issue = {i1}
  Session = {s1, s2}
  Worker = {w1}
  Project = {p1}
  Storage = {d1}
  MaxCommit = 2
  MaxCrash = 1
  MaxLoss = 1
  MaxRepository = 1
  MaxRemoval = 1
  MaxEngine = 1
  MaxAgent = 1
  CancelsRunning = FALSE
  Commit <- Commits
  Kinds = {"copy"}
  Parent <- Flat
  Offers <- NoInputs
  Beats <- NoInputs
  Report = {}
  AutoDeploy = FALSE
  Root <- OneRoot
  MaxFaults <- FaultBounds
CHECK_DEADLOCK FALSE
PROPERTIES SessionsEnd
