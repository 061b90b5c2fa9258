\* The desktop's components, each alone: two workspaces and a browser for the
\* supervisor, four credentials for the renewal, two callers of the local
\* server, two servers for the session.
SPECIFICATION PartsSpec
CONSTANTS
  b1 = b1 c1 = c1 c2 = c2 c3 = c3 home = home k1 = k1 k2 = k2 lost = lost p1 = p1 p2 = p2
  p3 = p3 p4 = p4 r1 = r1 s1 = s1 team = team w1 = w1 w2 = w2
  Engines = {"codex"}
  StopSlots = {s1}
  RenewSlots = {r1}
  Preinstalled = {"codex"}
  None = None
  Calls = {k1, k2}
  StaleAtStart = TRUE
  Servers = {home, team}
  Home = home
  Compatible = {home, team}
  Inviter = team
  Locked = FALSE
  NoToken = NoToken
  NoWs = NoWs
  MaxLogin = 2
  MaxOut = 1
  Blocked = TRUE
  Age = 1
  MaxAttempts = 2
  MaxRun = 1
  Issues = {1, 3, 5, 7}
  Runs = {2, 4, 6}
  IssueKinds = {"closed", "review", "children"}
  RunStatuses = {"running", "needs_acceptance"}
  Plans = {p1}
INVARIANT DesktopSound
PROPERTIES DesktopSpares DesktopSettles
CHECK_DEADLOCK FALSE
