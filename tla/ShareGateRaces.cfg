\* Two requests at a time of one user, who may be the recipient of the link.
CONSTANTS
  h1 = h1  g1 = g1  g2 = g2  u1 = u1  u2 = u2  None = None
  Shares = {h1}
  Users = {u1, u2}
  Owner <- MCOwner
  Visitors = {g1, g2}
  Caller <- OneCaller
  Created <- Links
  MaxLog = 2
  MaxEdits = 1
  Faults = TRUE
SYMMETRY AnyRequest
SPECIFICATION GateSpec
INVARIANTS RightsHeld NoticesMatchLog ReceiptsEarned ReceiptsFinal
CHECK_DEADLOCK FALSE
