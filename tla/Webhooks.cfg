\* Two requests about one share, and two webhooks of its owner.
CONSTANTS
  h1 = h1  h2 = h2  s1 = s1  q1 = q1  q2 = q2
  None = None
  Hooks = {h1, h2}
  Shares = {s1}
  Requests = {q1, q2}
  Settings <- MCSettings
  MaxEdits = 1
SPECIFICATION FairSpec
INVARIANTS RightHooks RevokedIsTrue DownloadedIsLogged RevocationReported
PROPERTY ComesToRest
CHECK_DEADLOCK FALSE
