\* Two users, three folders, two files and two requests at a time.
CONSTANTS
  u1 = u1  u2 = u2  g1 = g1  g2 = g2  g3 = g3  f1 = f1  f2 = f2  r1 = r1  r2 = r2
  None = None
  Users = {u1, u2}
  FolderIds = {g1, g2, g3}
  FileIds = {f1, f2}
  Requests = {r1, r2}
  Patience <- AllOrNobody
SYMMETRY Interchangeable
SPECIFICATION Spec
INVARIANTS NothingDangles TreesAreOwn PlacementKept
PROPERTY DeleteIsGentle
CHECK_DEADLOCK FALSE
