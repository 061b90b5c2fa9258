\* Triage and analysis of an issue, the identities of host and work root,
\* failing snapshots and the engine, each alone.
SPECIFICATION PartsSpec
CONSTANTS
  NoId = NoId draft = draft feat = feat fix = fix i1 = i1 i2 = i2 i3 = i3 i4 = i4
  k1 = k1 k2 = k2 p1 = p1 p2 = p2 t1 = t1 t2 = t2
  desktop = desktop daemon = daemon other = other
  Projects = {p1}
  Types = {fix, feat}
  Titles = {draft, t1, t2}
  Draft = draft
  None = None
  Does = {"old", "title", "label", "lost claim", "lost report", "crash", "cancel"}
  MaxAsks = 3
  MaxEdits = 2
  MaxTasks = 2
  MaxFaults = 1
  Ids = {i1, i2, i3, i4}
  Callers = {k1, k2}
  MaxCrash = 2
  MaxFail = 1
  Workers = {"w1", "w2", "w3"}
  WorkerFaults = {"write", "kill"}
  MaxWorkerFaults = 2
  Engines = {"codex", "claude_code", "pi"}
  Large = FALSE
  Helpers = TRUE
  Tests = FALSE
  MaxNotes = 1
  Room = 1
  Ahead = 1
INVARIANTS OneActiveTask HumansWin RuntimeSound IdentityStays
PROPERTIES NoSecondTurn RuntimeSettles
CHECK_DEADLOCK FALSE
