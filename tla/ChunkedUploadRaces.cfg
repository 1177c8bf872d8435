\* A client that waits for each response and uses two sessions, or concurrent
\* requests of one client on one session that may all die; and a sweep.
CONSTANTS
  s1 = s1  s2 = s2  r1 = r1  r2 = r2  r3 = r3
  None = None
  Sessions = {s1, s2}
  Expected <- TwoChunks
  Requests = {r1, r2, r3}
  Sweepers = {r3}
  Habits <- WaitingOrRushed
  MaxFiles = 2
SYMMETRY Clients
SPECIFICATION Spec
INVARIANTS OneFileIfCalm NoTornFile ReceivedIsCount CompletedLeavesNoStaging CompletedHasFile
PROPERTY CompletedIsFinal
CHECK_DEADLOCK FALSE
