\* The page of an issue and the inbox, each component alone.
SPECIFICATION PartsSpec
CONSTANTS
  devNull = devNull feat = feat fix = fix i1 = i1 i2 = i2 n1 = n1 n2 = n2 none = none
  p1 = p1 p2 = p2 s1 = s1 t1 = t1 tornPath = tornPath w1 = w1
  u1 = u1
  None = None
  Users = {u1}
  Issues = {i1, i2}
  Database = FALSE
  Team = TRUE
  Instants = {11, 12, 23}
  Does = {"refused", "read one"}
  MaxFails = 1
  First = i1
  MaxText = 1
  Logged = {s1}
  MaxLoads = 2
  Windows = {w1}
  Tasks = {t1}
  Fails = {}
  Builds = {"passed"}
  Names = {n1, n2}
  Quoted = {}
  Twins = {}
INVARIANTS ReadHadAppeared PageSound
PROPERTIES OpenedIsRead PageSettles
CHECK_DEADLOCK FALSE
