SPECIFICATION FairSpec
CONSTANTS
  w1 = w1  d1 = d1  d2 = d2
  None = None
  Issue = {i1}
  Session = {s1}
  Worker = {w1}
  Project = {p1}
  Storage = {d1}
  MaxCommit = 2
  MaxCrash = 0
  MaxLoss = 0
  MaxRepository = 0
  MaxRemoval = 0
  MaxEngine = 0
  MaxAgent = 0
  CancelsRunning = TRUE
  Commit <- Commits
  Kinds = {"copy"}
  Parent <- Flat
  Offers <- NoInputs
  Beats <- NoInputs
  Report = {}
  AutoDeploy = FALSE
  Root <- OneRoot
  MaxFaults <- FaultBounds
CHECK_DEADLOCK FALSE
PROPERTIES CancelAcknowledged
