\* Two requests of one account and a run of the purge job.
CONSTANTS
  f1 = f1  f2 = f2  f3 = f3
  u1 = u1  u2 = u2  r1 = r1  r2 = r2  r3 = r3
  d0 = d0  d1 = d1  d2 = d2  d3 = d3  d4 = d4
  None = None  Unlimited = Unlimited
  Users = {u1, u2}
  Requests = {r1, r2, r3}
  Owner <- OneOwner
  Janitors = {r3}
  Files = {f1, f2}
  Legacy <- MCLegacy
  Expiring = {f1}
  Deks = {d0, d1, d2}
  LegacyDek <- MCLegacyDek
  LegacyOwner <- MCLegacyOwner
  Sizes = {1}
  Quota <- NoQuota
  MaxVersion = 3
  Faults = FALSE
SYMMETRY FreshDeksOrRequests
SPECIFICATION Spec
INVARIANTS VersionsContiguous RowNamesLatest BlobPresent FirstVersionReadable
  NoOrphanBlob
PROPERTY ImplementsVersionLog
CHECK_DEADLOCK FALSE
