----------------------------- MODULE AccountRows -----------------------------
(***************************************************************************)
(* What the accounts promise their users and administrators: a request     *)
(* looks at a row and changes it in one step, as if nobody else were       *)
(* there.  MFA is set up while it is off, turned on for the secret that    *)
(* is in the row, and turned off together with its secret; a disable and   *)
(* an enable set flag and time stamp together.                             *)
(***************************************************************************)
CONSTANTS Users, Admins, Secrets, None

VARIABLE account

NewRow == [active |-> TRUE, disabledAt |-> FALSE, mfa |-> FALSE, secret |-> None]

Init == account = [u \in Users |-> IF u \in Admins THEN NewRow ELSE None]

Exists(u) == account[u] # None

Register(u) ==
  /\ ~Exists(u)
  /\ account' = [account EXCEPT ![u] = NewRow]

Disable(u) ==
  /\ Exists(u)
  /\ account' = [account EXCEPT ![u].active = FALSE, ![u].disabledAt = TRUE]

Enable(u) ==
  /\ Exists(u)
  /\ account' = [account EXCEPT ![u].active = TRUE, ![u].disabledAt = FALSE]

SetUpMfa(u, s) ==
  /\ Exists(u) /\ ~account[u].mfa
  /\ account' = [account EXCEPT ![u].secret = s]

EnableMfa(u) ==
  /\ Exists(u) /\ ~account[u].mfa /\ account[u].secret # None
  /\ account' = [account EXCEPT ![u].mfa = TRUE]

DisableMfa(u) ==
  /\ Exists(u) /\ account[u].secret # None
  /\ account' = [account EXCEPT ![u].mfa = FALSE, ![u].secret = None]

Next ==
  \E u \in Users :
    \/ Register(u) \/ Disable(u) \/ Enable(u)
    \/ \E s \in Secrets : SetUpMfa(u, s)
    \/ EnableMfa(u) \/ DisableMfa(u)

Spec == Init /\ [][Next]_account
=============================================================================
