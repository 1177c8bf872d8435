\* One owner who uploads, trashes and purges, one share request and one download
\* at a time, all of them concurrent.
CONSTANTS
  f1 = f1  f2 = f2  u1 = u1  r1 = r1  r2 = r2
  d0 = d0  d1 = d1  d2 = d2  h1 = h1  q1 = q1  q2 = q2  g1 = g1  g2 = g2
  None = None  Unlimited = Unlimited
  Users = {u1}
  Requests = {r1}
  Owner <- OneOwner
  Janitors = {}
  Files = {f1}
  Legacy <- MCLegacy
  Expiring = {}
  Deks = {d0, d1, d2}
  LegacyDek <- MCLegacyDek
  LegacyOwner <- MCLegacyOwner
  Sizes = {1}
  Quota <- NoQuota
  MaxVersion = 3
  Faults = FALSE
  Shares = {h1}
  Clerks = {q1}
  Visitors = {g1}
  Unrevokes = TRUE
SPECIFICATION SharingSpec
INVARIANTS PinnedServesPinned UnpinnedServesLatest PinsExist VisitsReadable
CHECK_DEADLOCK FALSE
