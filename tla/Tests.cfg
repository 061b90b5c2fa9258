\* The pages of tests, each alone: two files, two items in two batches with
\* retries, two projects with three cases, two users of the editors.
SPECIFICATION Spec
CONSTANTS
  c1 = c1 c2 = c2 c3 = c3 f1 = f1 f2 = f2 i1 = i1 i2 = i2 p1 = p1 p2 = p2 u1 = u1
  Files = {f1, f2}
  Tables = {f1}
  None = None
  Items = {i1, i2}
  Batches = {1, 2}
  Users = {u1}
  MaxSessions = 4
  Projects = {p1, p2}
  ReadLimit = 2
  MaxSaves = 2
INVARIANTS TestsSound
PROPERTIES TypingStays TestsSettle
CHECK_DEADLOCK FALSE
