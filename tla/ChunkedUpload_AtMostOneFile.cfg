\* Two concurrent requests of one client on one session; nothing fails.
CONSTANTS
  s1 = s1  s2 = s2  r1 = r1  r2 = r2  r3 = r3
  None = None
  Sessions = {s1, s2}
  Expected <- TwoChunks
  Requests = {r1, r2}
  Sweepers = {}
  Habits <- Rushed
  MaxFiles = 2
SYMMETRY Clients
SPECIFICATION Spec
INVARIANT AtMostOneFile
CHECK_DEADLOCK FALSE
