\* Two requests of one account, no failure of any kind.
CONSTANTS
  f1 = f1  f2 = f2  f3 = f3
  u1 = u1  u2 = u2  r1 = r1  r2 = r2  r3 = r3
  d0 = d0  d1 = d1  d2 = d2  d3 = d3  d4 = d4
  None = None  Unlimited = Unlimited
  Users = {u1, u2}
  Requests = {r1, r2}
  Owner <- OneOwner
  Janitors = {}
  Files = {f1, f2}
  Legacy <- MCLegacy
  Expiring = {f1}
  Deks = {d0, d1, d2, d3}
  LegacyDek <- MCLegacyDek
  LegacyOwner <- MCLegacyOwner
  Sizes = {1, 2}
  Quota <- NoQuota
  MaxVersion = 3
  Faults = FALSE
SYMMETRY FreshDeksOrRequests
SPECIFICATION Spec
INVARIANT VersionsReadable
CHECK_DEADLOCK FALSE
