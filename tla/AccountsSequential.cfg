\* Two admins, each of whom waits for a response before the next request; only
\* one of them administers at a time, and a user they disable and enable.
CONSTANTS
  a1 = a1  a2 = a2  u1 = u1  s1 = s1  s2 = s2  s3 = s3  r1 = r1  r2 = r2
  None = None
  Users = {a1, a2, u1}
  Admins = {a1, a2}
  Requests = {r1, r2}
  Client <- OneEach
  Secrets = {s1, s2}
  AdminsWait = TRUE
SPECIFICATION Spec
SYMMETRY AnySecret
INVARIANTS SomeAdminActive EnabledSecretProven
PROPERTIES DisableSticks RequestsAtomic
CHECK_DEADLOCK FALSE
