------------------------------ MODULE Accounts ------------------------------
(***************************************************************************)
(* User accounts: registration, the three ways to log in, tokens, TOTP,    *)
(* and the administrators who disable and enable accounts                  *)
(* (app/auth/routes.py, app/auth/decorators.py, app/admin/routes.py).      *)
(*                                                                         *)
(* A request reads its rows, decides, and commits later.  The ORM's UPDATE *)
(* names only the columns that differ from what the request read, so a row *)
(* can end up with columns of two requests.                                *)
(***************************************************************************)
EXTENDS FiniteSets

CONSTANTS
  Users,       \* accounts that may exist
  Admins,      \* the users with role admin, created by create_admin.py
  Requests,    \* requests that may be under way at once
  Client,      \* the user at the other end of a request
  Secrets,     \* TOTP secrets
  AdminsWait,  \* whether admin requests are sent one at a time
  None

ASSUME AccountsAssumption ==
  /\ Admins \subseteq Users /\ Admins # {}
  /\ Client \in [Requests -> Users]
  /\ AdminsWait \in BOOLEAN
  /\ None \notin Secrets

VARIABLES
  account,  \* table users
  live,     \* the kinds of token a user holds that still work
  req,      \* local variables of the requests
  proven    \* history: the last secret a user has shown a code of

vars == <<account, live, req, proven>>

-----------------------------------------------------------------------------
UserRow ==
  [active : BOOLEAN, disabledAt : BOOLEAN, mfa : BOOLEAN,
   secret : Secrets \cup {None}]

\* jwt: a signed token nobody can revoke; pat: a row of personal_access_tokens
Token == [user : Users, kind : {"jwt", "pat"}]

Ops == {"setup", "enable_mfa", "disable_mfa", "login", "new_pat", "drop_pat",
        "disable", "enable"}

ReqVars ==
  [op : Ops, target : Users, loaded : UserRow, new : UserRow]

\* None is no row and no request.
ASSUME NoneIsNoRow == None \notin UserRow /\ None \notin ReqVars

NewUser ==
  [active |-> TRUE, disabledAt |-> FALSE, mfa |-> FALSE, secret |-> None]

Exists(u) == account[u] # None

Init ==
  /\ account = [u \in Users |-> IF u \in Admins THEN NewUser ELSE None]
  /\ live = {}
  /\ req = [r \in Requests |-> None]
  /\ proven = [u \in Users |-> None]

\* jwt_required: a live token and the row of its user; the row is not asked
\* whether it is active.
Authenticated(u) == Exists(u) /\ \E t \in live : t.user = u

\* admin_required
AuthenticatedAdmin(u) == Authenticated(u) /\ account[u].active /\ u \in Admins

\* The request has read the row of u and will write new.
Load(r, op, u, new) ==
  /\ req[r] = None
  /\ req' = [req EXCEPT ![r] =
               [op |-> op, target |-> u, loaded |-> account[u], new |-> new]]
  /\ UNCHANGED <<account, live>>

Keep(r, op) == Load(r, op, Client[r], account[Client[r]]) /\ UNCHANGED proven

(*************************** registration **********************************)
\* POST /register, or the first Google login of an e-mail address, which goes on
\* as LoginWithout.
Register(u) ==
  /\ ~Exists(u)
  /\ account' = [account EXCEPT ![u] = NewUser]
  /\ UNCHANGED <<live, req, proven>>

(******************************* logins ************************************)
CanLogin(row) == row.active /\ (row.mfa => row.secret # None)

\* Password and TOTP.
Login(r) ==
  /\ Exists(Client[r])
  /\ CanLogin(account[Client[r]])
  /\ Keep(r, "login")

\* Google or a passkey: TOTP is not asked for.
LoginWithout(r) ==
  /\ Exists(Client[r])
  /\ account[Client[r]].active
  /\ Keep(r, "login")

(********************************* TOTP ************************************)
\* mutant: a second setup is accepted when MFA is already on
SetupAgain(row) == TRUE

CanSetup(row) == ~row.mfa

MfaSetup(r) ==
  LET u == Client[r]
  IN  \E s \in Secrets :
        /\ Authenticated(u)
        /\ CanSetup(account[u])
        /\ s # account[u].secret
        /\ \A p \in Requests : req[p] # None => req[p].new.secret # s
        /\ Load(r, "setup", u, [account[u] EXCEPT !.secret = s])
        /\ proven' = [proven EXCEPT ![u] = IF @ = s THEN None ELSE @]

\* The user sends a code of the secret in the row.
MfaEnable(r) ==
  LET u == Client[r]
  IN  /\ Authenticated(u)
      /\ ~account[u].mfa
      /\ account[u].secret # None
      /\ Load(r, "enable_mfa", u, [account[u] EXCEPT !.mfa = TRUE])
      /\ proven' = [proven EXCEPT ![u] = account[u].secret]

MfaDisable(r) ==
  LET u == Client[r]
  IN  /\ Authenticated(u)
      /\ account[u].secret # None     \* and a code of it, if MFA is on
      /\ Load(r, "disable_mfa", u,
              [account[u] EXCEPT !.mfa = FALSE, !.secret = None])
      /\ UNCHANGED proven

(************************** personal access tokens *************************)
TokenNew(r) == Authenticated(Client[r]) /\ Keep(r, "new_pat")

TokenDrop(r) ==
  /\ Authenticated(Client[r])
  /\ [user |-> Client[r], kind |-> "pat"] \in live
  /\ Keep(r, "drop_pat")

\* A JWT lives for an hour, a PAT may have an end.
Expire(t) ==
  /\ t \in live
  /\ live' = live \ {t}
  /\ UNCHANGED <<account, req, proven>>

(************************** administration *********************************)
AdminFree ==
  AdminsWait =>
    \A p \in Requests : req[p] # None => req[p].op \notin {"disable", "enable"}

\* mutant: nothing keeps admins from their own account
AnyTarget(r, u) == Exists(u) /\ account[u].active

CanDisable(r, u) == u # Client[r] /\ Exists(u) /\ account[u].active

Disable(r, u) ==
  /\ AuthenticatedAdmin(Client[r]) /\ AdminFree
  /\ CanDisable(r, u)
  /\ Load(r, "disable", u,
          [account[u] EXCEPT !.active = FALSE, !.disabledAt = TRUE])
  /\ UNCHANGED proven

Enabled(row) == [row EXCEPT !.active = TRUE, !.disabledAt = FALSE]

Enable(r, u) ==
  /\ AuthenticatedAdmin(Client[r]) /\ AdminFree
  /\ Exists(u) /\ ~account[u].active
  /\ Load(r, "enable", u, Enabled(account[u]))
  /\ UNCHANGED proven

(******************************* commit ************************************)
\* mutant: an UPDATE that writes the whole row
WholeRow(stored, loaded, new) == new

Changed(loaded, new, stored) == IF new # loaded THEN new ELSE stored

Merged(stored, loaded, new) ==
  [active     |-> Changed(loaded.active, new.active, stored.active),
   disabledAt |-> Changed(loaded.disabledAt, new.disabledAt, stored.disabledAt),
   mfa        |-> Changed(loaded.mfa, new.mfa, stored.mfa),
   secret     |-> Changed(loaded.secret, new.secret, stored.secret)]

TokensAfter(u, op) ==
  CASE op = "login"    -> live \cup {[user |-> u, kind |-> "jwt"]}
    [] op = "new_pat"  -> live \cup {[user |-> u, kind |-> "pat"]}
    [] op = "drop_pat" -> live \ {[user |-> u, kind |-> "pat"]}
    [] OTHER           -> live

\* The transaction commits and the response is sent.
Commit(r) ==
  LET q == req[r]
  IN  /\ q # None
      /\ account' = [account EXCEPT ![q.target] = Merged(@, q.loaded, q.new)]
      /\ live' = TokensAfter(q.target, q.op)
      /\ req' = [req EXCEPT ![r] = None]
      /\ UNCHANGED proven

\* The worker dies, or the database refuses the transaction.
Fail(r) ==
  /\ req[r] # None
  /\ req' = [req EXCEPT ![r] = None]
  /\ UNCHANGED <<account, live, proven>>

Next ==
  \/ \E u \in Users : Register(u)
  \/ \E t \in live : Expire(t)
  \/ \E r \in Requests :
       \/ Login(r) \/ LoginWithout(r)
       \/ MfaSetup(r) \/ MfaEnable(r) \/ MfaDisable(r)
       \/ TokenNew(r) \/ TokenDrop(r)
       \/ \E u \in Users : Disable(r, u) \/ Enable(r, u)
       \/ Commit(r) \/ Fail(r)

Spec == Init /\ [][Next]_vars

-----------------------------------------------------------------------------
TypeOK ==
  /\ account \in [Users -> UserRow \cup {None}]
  /\ live \subseteq Token
  /\ req \in [Requests -> ReqVars \cup {None}]
  /\ proven \in [Users -> Secrets \cup {None}]

\* Someone can always administer the system: an admin who disables others keeps
\* their own account, and only an active admin may disable ("Prevents accidental
\* lockout", MODULE_6_DELIVERY.md:129). It takes admins who act one at a time: two
\* who disable each other at once lock everybody out.
SomeAdminActive == \E u \in Admins : account[u].active

\* MFA that is on uses a secret of which the user has shown a code, so nobody
\* is asked for codes they cannot produce, and password login never meets MFA
\* without a secret.
EnabledSecretProven ==
  \A u \in Users :
    Exists(u) /\ account[u].mfa => account[u].secret \in {proven[u]} \ {None}

\* Only an administrator's enable ends a disable: a login, an MFA change or
\* another request that read the row before the disable does not undo it.
DisableSticks ==
  [][\A u \in Users :
       Exists(u) /\ ~account[u].active /\ account'[u].active =>
         \E r \in Requests :
           req[r] # None /\ req[r].op = "enable" /\ req[r].target = u]_vars

Rows == INSTANCE AccountRows

\* Although a request decides on a row that it read long before it commits, and
\* commits only the columns it changed, it acts as if it had the row to itself:
\* no update is lost and none is made of the columns of two requests.
RequestsAtomic == Rows!Spec
=============================================================================
