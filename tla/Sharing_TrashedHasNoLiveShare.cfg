\* A share request that runs while the file is moved to the trash.
CONSTANTS
  f1 = f1  f2 = f2  u1 = u1  r1 = r1  r2 = r2
  d0 = d0  d1 = d1  d2 = d2  h1 = h1  q1 = q1  q2 = q2  g1 = g1  g2 = g2
  None = None  Unlimited = Unlimited
  Users = {u1}
  Requests = {r1}
  Owner <- OneOwner
  Janitors = {}
  Files = {f1}
  Legacy <- MCLegacy
  Expiring = {}
  Deks = {d0, d1}
  LegacyDek <- MCLegacyDek
  LegacyOwner <- MCLegacyOwner
  Sizes = {1}
  Quota <- NoQuota
  MaxVersion = 3
  Faults = FALSE
  Shares = {h1}
  Clerks = {q1}
  Visitors = {}
  Unrevokes = FALSE
SPECIFICATION SharingSpec
INVARIANT TrashedHasNoLiveShare
CHECK_DEADLOCK FALSE
