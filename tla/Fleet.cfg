SPECIFICATION DaemonSpec
CONSTANTS
  w1 = w1  d1 = d1  d2 = d2
  None = None
  Issue = {i1}
  Session = {s1, s2}
  Worker = {w1, w2}
  Project = {p1}
  Storage = {d1, d2}
  MaxCommit = 1
  MaxCrash = 1
  MaxLoss = 1
  MaxRepository = 0
  MaxRemoval = 1
  MaxEngine = 0
  MaxAgent = 0
  CancelsRunning = TRUE
  Commit <- Commits
  Kinds = {"copy"}
  Parent <- Flat
  Offers <- Registers
  Beats <- Leaves
  Report <- ProtocolReports
  AutoDeploy = FALSE
  Root <- OwnRoots
  MaxFaults <- FaultBounds
SYMMETRY Symmetric
CHECK_DEADLOCK FALSE
INVARIANT OneWriter
PROPERTY ImplementsServer
