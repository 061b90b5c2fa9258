\* What a workspace owns, and its store, each component alone.
SPECIFICATION PartsSpec
CONSTANTS
  a1 = a1 a2 = a2 c1 = c1 c2 = c2 k1 = k1 k2 = k2 k3 = k3 n1 = n1 n2 = n2 p1 = p1 p2 = p2
  s1 = s1 s2 = s2 t1 = t1 t2 = t2 v1 = v1 v2 = v2 w1 = w1 w2 = w2
  AdminWorkspaces = {w1, w2}
  AdminTeam = {w1, w2}
  AdminNames = {n1, n2}
  AdminDoes = {"settings"}
  AdminEdits = 1
  AdminOthers = 1
  AdminSwitches = 2
  AdminFails = 1
  AdminLinks = 0
  PageSize = 2
  MaxChanges = 3
  PanelDoes = {"page", "open"}
  PanelModes = {"detached"}
  PanelTasks = 4
  PanelFails = 0
  PanelMoves = 4
  Envs = {v1, v2, k1}
  VMs = {v1, v2}
  Configs = {c1}
  Auths = {a1}
  Blank = Blank
  EnvDatabase = FALSE
  EnvDoes = {"create", "update", "check", "checkCluster", "delete"}
  EnvAsks = 2
  EnvOthers = 0
  EnvFails = 0
  EnvVisits = 1
  EnvEdits = 1
  ProjectIds = {p1, p2}
  ProjectNames = {n1}
  RunbookTexts = {t1}
  NoText = NoText
  ProjectTeam = FALSE
  ProjectsDatabase = FALSE
  ProjectsDoes = {"create"}
  ProjectsFails = {"create"}
  ProjectsEdits = 2
  ProjectsOthers = 0
  ProjectsMaxFails = 1
  ProjectsAsks = 2
  SkillIds = {k1, k2}
  Builtins = {}
  Slugs = {s1, s2}
  SkillNames = {n1}
  SkillTexts = {t1, t2}
  SkillsDatabase = TRUE
  SkillsDoes = {"load", "update", "create", "toggle"}
  SkillsAsks = 2
  SkillsOthers = 0
  SkillsEdits = 1
  SkillsFails = 1
  None = None
  desktop = desktop daemon = daemon
  Clients = {desktop, daemon}
  Large = FALSE
  MaxRows = 4
  MaxCrashes = 2
  MaxFails = 0
INVARIANTS AnswersSurvive WorkspaceSound
PROPERTIES DiskAdvances ChangedByChoice WorkspaceSettles
CHECK_DEADLOCK FALSE
