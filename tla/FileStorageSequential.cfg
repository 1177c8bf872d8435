\* An account that waits for each response before it sends the next request,
\* beside the purge job, which is run again and again; both may die half-way.
CONSTANTS
  f1 = f1  f2 = f2  f3 = f3
  u1 = u1  u2 = u2  r1 = r1  r2 = r2  r3 = r3
  d0 = d0  d1 = d1  d2 = d2  d3 = d3  d4 = d4
  None = None  Unlimited = Unlimited
  Users = {u1}
  Requests = {r1, r3}
  Owner <- OneOwner
  Janitors = {r3}
  Files = {f1, f2}
  Legacy <- MCLegacy
  Expiring = {}
  Deks = {d0, d1, d2}
  LegacyDek <- MCLegacyDek
  LegacyOwner <- MCLegacyOwner
  Sizes = {1, 2}
  Quota <- MCQuota
  MaxVersion = 3
  Faults = TRUE
SPECIFICATION FairSpec
INVARIANTS VersionsReadable QuotaRespected RowSizeIsLatest
PROPERTY DuePurged
CHECK_DEADLOCK FALSE
