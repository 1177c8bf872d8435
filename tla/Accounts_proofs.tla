--------------------------- MODULE Accounts_proofs ---------------------------
(***************************************************************************)
(* Theorems about Accounts, for every set of users, admins, requests and   *)
(* secrets.  Each request is one read, in an action that only loads, and   *)
(* one Commit: the invariants say what a request that is under way carries *)
(* from the one to the other.                                              *)
(***************************************************************************)
EXTENDS Accounts, TLAPS

AdminOps == {"disable", "enable"}

\* What a request may change is decided by its op.
ReqOK(q) ==
  CASE q.op = "disable" -> /\ q.loaded.active /\ ~q.loaded.disabledAt
                           /\ ~q.new.active /\ q.new.disabledAt
    [] q.op = "enable"  -> /\ ~q.loaded.active /\ q.loaded.disabledAt
                           /\ q.new.active /\ ~q.new.disabledAt
    [] OTHER            -> /\ q.new.active = q.loaded.active
                           /\ q.new.disabledAt = q.loaded.disabledAt

ReqsOK ==
  \A r \in Requests : req[r] # None => Exists(req[r].target) /\ ReqOK(req[r])

\* disabled_at is set exactly while the account is disabled, whatever other
\* request of the user or of an admin commits in between.
DisabledStamped ==
  \A u \in Users : Exists(u) => account[u].active = ~account[u].disabledAt

Inv == TypeOK /\ ReqsOK /\ DisabledStamped

\* The request that an action of client r puts under way.
Request(r, op, u, new) ==
  [op |-> op, target |-> u, loaded |-> account[u], new |-> new]

-----------------------------------------------------------------------------
\* The column rule gives a row, and in it each flag of the new row that differs
\* from the loaded one, else the stored one.
LEMMA MergedRow ==
  ASSUME NEW stored \in UserRow, NEW loaded \in UserRow, NEW new \in UserRow
  PROVE  /\ Merged(stored, loaded, new) \in UserRow
         /\ Merged(stored, loaded, new).active =
              Changed(loaded.active, new.active, stored.active)
         /\ Merged(stored, loaded, new).disabledAt =
              Changed(loaded.disabledAt, new.disabledAt, stored.disabledAt)
BY DEF Merged, Changed, UserRow

\* A request that is put under way with changes its op allows keeps Inv.
LEMMA LoadStep ==
  ASSUME Inv, NEW r \in Requests, NEW op \in Ops, NEW u \in Users,
         NEW new \in UserRow, Exists(u), Load(r, op, u, new),
         proven' \in [Users -> Secrets \cup {None}],
         ReqOK(Request(r, op, u, new))
  PROVE  Inv'
<1> DEFINE q == Request(r, op, u, new)
<1>1. q \in ReqVars /\ q.target = u
  BY DEF Inv, TypeOK, Exists, ReqVars, Request
<1>2. req' = [req EXCEPT ![r] = q] /\ account' = account /\ live' = live
  BY DEF Load, Request
<1>3. TypeOK'
  <2> HIDE DEF q
  <2> QED BY <1>1, <1>2 DEF Inv, TypeOK
<1>4. ReqsOK'
  <2>1. ReqOK(q)
    OBVIOUS
  <2> HIDE DEF q
  <2> SUFFICES ASSUME NEW p \in Requests, req'[p] # None
               PROVE  account'[req'[p].target] # None /\ ReqOK(req'[p])
    BY DEF ReqsOK, ReqOK, Exists
  <2>2. CASE p = r
    <3>1. req'[p] = q
      BY <1>2, <2>2 DEF Inv, TypeOK
    <3> QED BY <1>1, <1>2, <2>1, <3>1 DEF Exists
  <2>3. CASE p # r
    <3>1. req'[p] = req[p]
      BY <1>2, <2>3 DEF Inv, TypeOK
    <3> QED BY <1>2, <3>1 DEF Inv, ReqsOK, Exists
  <2> QED BY <2>2, <2>3
<1>5. DisabledStamped'
  BY <1>2 DEF Inv, DisabledStamped, Exists
<1> QED BY <1>3, <1>4, <1>5 DEF Inv

\* A user edits their own row: nothing but mfa and secret may differ.
LEMMA OwnRow ==
  ASSUME Inv, NEW r \in Requests, NEW op \in Ops \ AdminOps,
         NEW new \in UserRow, Exists(Client[r]), Load(r, op, Client[r], new),
         proven' \in [Users -> Secrets \cup {None}],
         new.active = account[Client[r]].active,
         new.disabledAt = account[Client[r]].disabledAt
  PROVE  Inv'
<1>1. Client[r] \in Users
  BY AccountsAssumption
<1>2. ReqOK(Request(r, op, Client[r], new))
  BY DEF ReqOK, Request, AdminOps
<1> QED BY <1>1, <1>2, LoadStep

LEMMA EditStep ==
  ASSUME Inv, NEW r \in Requests,
         \/ Login(r) \/ LoginWithout(r)
         \/ MfaSetup(r) \/ MfaEnable(r) \/ MfaDisable(r)
         \/ TokenNew(r) \/ TokenDrop(r)
  PROVE  Inv'
<1> DEFINE u == Client[r]
<1> DEFINE row == account[u]
<1>1. u \in Users /\ Exists(u) /\ row \in UserRow
  <2>1. u \in Users
    BY AccountsAssumption
  <2>2. Exists(u)
    BY DEF Login, LoginWithout, MfaSetup, MfaEnable, MfaDisable, TokenNew,
           TokenDrop, Authenticated
  <2> QED BY <2>1, <2>2 DEF Inv, TypeOK, Exists
<1>2. proven \in [Users -> Secrets \cup {None}]
  BY DEF Inv, TypeOK
<1>3. ASSUME NEW op \in {"login", "new_pat", "drop_pat"}, Keep(r, op)
      PROVE  Inv'
  BY <1>1, <1>2, <1>3, OwnRow DEF Keep, Ops, AdminOps
<1>4. CASE MfaSetup(r)
  <2>1. PICK s \in Secrets :
          /\ Load(r, "setup", u, [row EXCEPT !.secret = s])
          /\ proven' = [proven EXCEPT ![u] = IF @ = s THEN None ELSE @]
    BY <1>4 DEF MfaSetup
  <2>2. proven' \in [Users -> Secrets \cup {None}]
    BY <1>1, <1>2, <2>1
  <2> DEFINE new == [row EXCEPT !.secret = s]
  <2>3. new \in UserRow /\ new.active = row.active
                        /\ new.disabledAt = row.disabledAt
    BY <1>1 DEF UserRow
  <2> QED BY <1>1, <2>1, <2>2, <2>3, OwnRow DEF Ops, AdminOps
<1>5. CASE MfaEnable(r)
  <2> DEFINE new == [row EXCEPT !.mfa = TRUE]
  <2>1. Load(r, "enable_mfa", u, new)
    BY <1>5 DEF MfaEnable
  <2>2. proven' \in [Users -> Secrets \cup {None}]
    BY <1>1, <1>2, <1>5 DEF MfaEnable, UserRow
  <2>3. new \in UserRow /\ new.active = row.active
                        /\ new.disabledAt = row.disabledAt
    BY <1>1 DEF UserRow
  <2> QED BY <1>1, <2>1, <2>2, <2>3, OwnRow DEF Ops, AdminOps
<1>6. CASE MfaDisable(r)
  <2> DEFINE new == [row EXCEPT !.mfa = FALSE, !.secret = None]
  <2>1. Load(r, "disable_mfa", u, new) /\ proven' = proven
    BY <1>6 DEF MfaDisable
  <2>2. new \in UserRow /\ new.active = row.active
                        /\ new.disabledAt = row.disabledAt
    BY <1>1 DEF UserRow
  <2> QED BY <1>1, <1>2, <2>1, <2>2, OwnRow DEF Ops, AdminOps
<1> QED BY <1>3, <1>4, <1>5, <1>6 DEF Login, LoginWithout, TokenNew, TokenDrop

\* Disable and enable load a row whose flags agree and change both of them.
LEMMA AdminStep ==
  ASSUME Inv, NEW r \in Requests, NEW u \in Users, Disable(r, u) \/ Enable(r, u)
  PROVE  Inv'
<1> DEFINE row == account[u]
<1>1. Exists(u) /\ proven' = proven
  BY DEF Disable, Enable, CanDisable
<1>2. row \in UserRow /\ proven \in [Users -> Secrets \cup {None}]
  BY <1>1 DEF Inv, TypeOK, Exists
<1>3. row.active = ~row.disabledAt
  BY <1>1 DEF Inv, DisabledStamped
<1>4. CASE Disable(r, u)
  <2> DEFINE new == [row EXCEPT !.active = FALSE, !.disabledAt = TRUE]
  <2>1. Load(r, "disable", u, new) /\ row.active
    BY <1>4 DEF Disable, CanDisable
  <2>2. new \in UserRow /\ ~new.active /\ new.disabledAt
    BY <1>2 DEF UserRow
  <2>3. ReqOK(Request(r, "disable", u, new))
    BY <1>2, <1>3, <2>1, <2>2 DEF ReqOK, Request, UserRow
  <2> QED BY <1>1, <1>2, <2>1, <2>2, <2>3, LoadStep DEF Ops
<1>5. CASE Enable(r, u)
  <2> DEFINE new == Enabled(row)
  <2>1. Load(r, "enable", u, new) /\ ~row.active
    BY <1>5 DEF Enable
  <2>2. new \in UserRow /\ new.active /\ ~new.disabledAt
    BY <1>2 DEF UserRow, Enabled
  <2>3. ReqOK(Request(r, "enable", u, new))
    BY <1>2, <1>3, <2>1, <2>2 DEF ReqOK, Request, UserRow
  <2> QED BY <1>1, <1>2, <2>1, <2>2, <2>3, LoadStep DEF Ops
<1> QED BY <1>4, <1>5

\* What a commit does to the two flags of its row: disable and enable set both,
\* any other request leaves both as they are stored.
LEMMA CommitRow ==
  ASSUME Inv, NEW r \in Requests, Commit(r)
  PROVE  /\ req[r] \in ReqVars /\ Exists(req[r].target)
         /\ account'[req[r].target] \in UserRow
         /\ \A u \in Users : u # req[r].target => account'[u] = account[u]
         /\ LET new == account'[req[r].target]
                old == account[req[r].target]
            IN  CASE req[r].op = "disable" -> ~new.active
                  [] req[r].op = "enable"  -> new.active
                  [] OTHER                 -> new.active = old.active
         /\ account'[req[r].target].active = ~account'[req[r].target].disabledAt
<1> DEFINE q == req[r]
<1> DEFINE old == account[q.target]
<1> DEFINE new == account'[q.target]
<1>1. q \in ReqVars /\ q.target \in Users /\ Exists(q.target) /\ ReqOK(q)
  BY DEF Commit, Inv, TypeOK, ReqsOK, ReqVars
<1>2. old \in UserRow /\ q.loaded \in UserRow /\ q.new \in UserRow
  BY <1>1 DEF Inv, TypeOK, Exists, ReqVars
<1>3. account' = [account EXCEPT ![q.target] = Merged(old, q.loaded, q.new)]
  BY DEF Commit
<1>4. new = Merged(old, q.loaded, q.new)
  BY <1>1, <1>3 DEF Inv, TypeOK
<1>5. \A u \in Users : u # q.target => account'[u] = account[u]
  BY <1>3 DEF Inv, TypeOK
<1>6. /\ new \in UserRow
      /\ new.active = Changed(q.loaded.active, q.new.active, old.active)
      /\ new.disabledAt =
           Changed(q.loaded.disabledAt, q.new.disabledAt, old.disabledAt)
  BY <1>2, <1>4, MergedRow
<1>7. old.active = ~old.disabledAt
  BY <1>1 DEF Inv, DisabledStamped
<1>8. CASE q.op = "disable"
  BY <1>1, <1>2, <1>5, <1>6, <1>8 DEF ReqOK, Changed, UserRow
<1>9. CASE q.op = "enable"
  BY <1>1, <1>2, <1>5, <1>6, <1>9 DEF ReqOK, Changed, UserRow
<1>10. CASE q.op \notin AdminOps
  BY <1>1, <1>2, <1>5, <1>6, <1>7, <1>10 DEF ReqOK, Changed, UserRow, AdminOps
<1> QED BY <1>8, <1>9, <1>10 DEF AdminOps

LEMMA CommitStep ==
  ASSUME Inv, NEW r \in Requests, Commit(r)
  PROVE  Inv'
<1> DEFINE q == req[r]
<1>1. /\ q \in ReqVars /\ q.target \in Users
      /\ account'[q.target] \in UserRow
      /\ \A u \in Users : u # q.target => account'[u] = account[u]
      /\ account'[q.target].active = ~account'[q.target].disabledAt
  BY CommitRow DEF ReqVars
<1>2. req' = [req EXCEPT ![r] = None] /\ proven' = proven
  BY DEF Commit
<1>3. TypeOK'
  <2>1. account' \in [Users -> UserRow \cup {None}]
    BY <1>1 DEF Commit, Inv, TypeOK
  <2>2. live' \subseteq Token
    BY <1>1 DEF Commit, TokensAfter, Token, Inv, TypeOK
  <2>3. req' \in [Requests -> ReqVars \cup {None}]
    BY <1>2 DEF Inv, TypeOK
  <2> QED BY <1>2, <2>1, <2>2, <2>3 DEF Inv, TypeOK
<1>4. ReqsOK'
  <2> SUFFICES ASSUME NEW p \in Requests, req'[p] # None
               PROVE  account'[req'[p].target] # None /\ ReqOK(req'[p])
    BY DEF ReqsOK, ReqOK, Exists
  <2>1. req'[p] = req[p] /\ req[p] # None
    BY <1>2 DEF Inv, TypeOK
  <2>2. /\ req[p].target \in Users /\ account[req[p].target] # None
        /\ ReqOK(req[p])
    BY <2>1 DEF Inv, TypeOK, ReqsOK, Exists, ReqVars
  <2> QED BY <1>1, <2>1, <2>2, NoneIsNoRow
<1>5. DisabledStamped'
  BY <1>1 DEF Inv, DisabledStamped, Exists
<1> QED BY <1>3, <1>4, <1>5 DEF Inv

LEMMA InitInv == Init => Inv
<1> SUFFICES ASSUME Init PROVE Inv
  OBVIOUS
<1>1. NewUser \in UserRow /\ NewUser.active /\ ~NewUser.disabledAt
  BY DEF NewUser, UserRow
<1>2. TypeOK
  BY <1>1 DEF Init, TypeOK
<1> QED BY <1>1, <1>2 DEF Init, Inv, ReqsOK, DisabledStamped, Exists

LEMMA InvStep ==
  ASSUME Inv, [Next]_vars
  PROVE  Inv'
<1>1. ASSUME NEW u \in Users, Register(u)
      PROVE  Inv'
  <2>1. NewUser \in UserRow /\ NewUser.active /\ ~NewUser.disabledAt
    BY DEF NewUser, UserRow
  <2>2. /\ \A v \in Users : v # u => account'[v] = account[v]
        /\ account'[u] = NewUser /\ account[u] = None
        /\ UNCHANGED <<live, req, proven>>
    BY <1>1 DEF Register, Exists, Inv, TypeOK
  <2>3. TypeOK'
    BY <1>1, <2>1 DEF Register, Inv, TypeOK
  <2>4. ReqsOK'
    <3> SUFFICES ASSUME NEW p \in Requests, req'[p] # None
                 PROVE  account'[req'[p].target] # None /\ ReqOK(req'[p])
      BY DEF ReqsOK, ReqOK, Exists
    <3>1. /\ req[p].target \in Users /\ account[req[p].target] # None
          /\ ReqOK(req[p])
      BY <2>2 DEF Inv, TypeOK, ReqsOK, Exists, ReqVars
    <3> QED BY <2>2, <3>1
  <2>5. DisabledStamped'
    BY <2>1, <2>2 DEF Inv, DisabledStamped, Exists
  <2> QED BY <2>3, <2>4, <2>5 DEF Inv
<1>2. ASSUME NEW t \in live, Expire(t)
      PROVE  Inv'
  BY <1>2 DEF Expire, Inv, TypeOK, ReqsOK, ReqOK, DisabledStamped, Exists
<1>3. ASSUME NEW r \in Requests, Fail(r)
      PROVE  Inv'
  <2>1. /\ req' = [req EXCEPT ![r] = None]
        /\ UNCHANGED <<account, live, proven>>
    BY <1>3 DEF Fail
  <2>2. TypeOK'
    BY <2>1 DEF Inv, TypeOK
  <2>3. ReqsOK'
    <3> SUFFICES ASSUME NEW p \in Requests, req'[p] # None
                 PROVE  account'[req'[p].target] # None /\ ReqOK(req'[p])
      BY DEF ReqsOK, ReqOK, Exists
    <3>1. req'[p] = req[p] /\ req[p] # None
      BY <2>1 DEF Inv, TypeOK
    <3> QED BY <2>1, <3>1 DEF Inv, ReqsOK, Exists
  <2>4. DisabledStamped'
    BY <2>1 DEF Inv, DisabledStamped, Exists
  <2> QED BY <2>2, <2>3, <2>4 DEF Inv
<1>4. CASE UNCHANGED vars
  BY <1>4 DEF vars, Inv, TypeOK, ReqsOK, ReqOK, DisabledStamped, Exists
<1> QED
  BY <1>1, <1>2, <1>3, <1>4, EditStep, AdminStep, CommitStep DEF Next

LEMMA Invariant == Spec => []Inv
BY InitInv, InvStep, PTL DEF Spec

-----------------------------------------------------------------------------
\* The variables keep their types.
THEOREM TypeCorrect == Spec => []TypeOK
BY Invariant, PTL DEF Inv

\* disabled_at is set exactly while the account is disabled, whatever commits in
\* between: disable and enable change both columns of what they read, the other
\* requests neither.
THEOREM StampFollowsFlag == Spec => []DisabledStamped
BY Invariant, PTL DEF Inv

\* Nobody but Register and Commit writes the table.
LEMMA OthersKeepRows ==
  ASSUME Next, ~ \E u \in Users : Register(u), ~ \E r \in Requests : Commit(r)
  PROVE  account' = account
BY DEF Next, Expire, Login, LoginWithout, MfaSetup, MfaEnable, MfaDisable,
       TokenNew, TokenDrop, Disable, Enable, Fail, Keep, Load

\* Only an enable ends a disable, whatever request read the row before it.
THEOREM DisableAlwaysSticks == Spec => DisableSticks
<1> DEFINE Sticks ==
      \A u \in Users :
        Exists(u) /\ ~account[u].active /\ account'[u].active =>
          \E r \in Requests :
            req[r] # None /\ req[r].op = "enable" /\ req[r].target = u
<1>1. ASSUME Inv, [Next]_vars PROVE [Sticks]_vars
  <2> SUFFICES ASSUME Next, NEW u \in Users, Exists(u), ~account[u].active,
                      account'[u].active
               PROVE  \E r \in Requests : /\ req[r] # None
                                          /\ req[r].op = "enable"
                                          /\ req[r].target = u
    BY <1>1
  <2>1. PICK r \in Requests : Commit(r)
    <3>1. ASSUME NEW v \in Users, Register(v) PROVE FALSE
      BY <1>1, <3>1 DEF Register, Exists, Inv, TypeOK
    <3>2. account' # account
      OBVIOUS
    <3> QED BY <3>1, <3>2, OthersKeepRows
  <2>2. req[r] # None /\ req[r].target = u /\ req[r].op = "enable"
    BY <1>1, <2>1, CommitRow DEF Commit
  <2> QED BY <2>2
<1> QED BY <1>1, Invariant, PTL DEF Spec, DisableSticks

-----------------------------------------------------------------------------
\* While administrators act one at a time, the client of a disable that is under
\* way is another admin who is active and stays so until it commits.
OneAdminRequest ==
  AdminsWait =>
    \A r, p \in Requests :
      /\ req[r] # None /\ req[r].op \in AdminOps
      /\ req[p] # None /\ req[p].op \in AdminOps
      => r = p

DisablerStays ==
  \A r \in Requests :
    req[r] # None /\ req[r].op = "disable" =>
      /\ Client[r] \in Admins /\ Client[r] # req[r].target
      /\ Exists(Client[r]) /\ account[Client[r]].active

AdminInv ==
  /\ OneAdminRequest
  /\ DisablerStays
  /\ \E u \in Admins : Exists(u) /\ account[u].active

LEMMA InitAdmin == Init => AdminInv
<1> SUFFICES ASSUME Init PROVE AdminInv
  OBVIOUS
<1>1. PICK u \in Admins : u \in Users
  BY AccountsAssumption
<1>2. account[u] = NewUser /\ NewUser.active /\ NewUser # None
  <2>1. NewUser \in UserRow /\ NewUser.active
    BY DEF NewUser, UserRow
  <2> QED BY <1>1, <2>1, NoneIsNoRow DEF Init
<1>3. OneAdminRequest /\ DisablerStays
  BY DEF Init, OneAdminRequest, DisablerStays
<1> QED BY <1>1, <1>2, <1>3 DEF AdminInv, Exists

\* A step that only puts a request of no admin op under way.
LEMMA QuietStep ==
  ASSUME Inv, AdminInv, NEW r \in Requests,
         account' = account,
         \A p \in Requests : p # r => req'[p] = req[p],
         req'[r] # None => req'[r].op \notin AdminOps
  PROVE  AdminInv'
<1>1. OneAdminRequest'
  BY DEF AdminInv, OneAdminRequest
<1>2. DisablerStays'
  BY DEF AdminInv, DisablerStays, Exists, AdminOps
<1> QED BY <1>1, <1>2 DEF AdminInv, Exists

LEMMA EditAdmin ==
  ASSUME Inv, AdminInv, NEW r \in Requests,
         \/ Login(r) \/ LoginWithout(r)
         \/ MfaSetup(r) \/ MfaEnable(r) \/ MfaDisable(r)
         \/ TokenNew(r) \/ TokenDrop(r)
  PROVE  AdminInv'
<1>1. ASSUME NEW op \in Ops \ AdminOps, NEW u, NEW new, Load(r, op, u, new)
      PROVE  AdminInv'
  <2>1. /\ account' = account
        /\ \A p \in Requests : p # r => req'[p] = req[p]
        /\ req'[r].op = op
    BY <1>1 DEF Load, Inv, TypeOK
  <2> QED BY <1>1, <2>1, QuietStep
<1>2. PICK op \in Ops \ AdminOps : \E u, new : Load(r, op, u, new)
  BY DEF Login, LoginWithout, MfaSetup, MfaEnable, MfaDisable, TokenNew,
         TokenDrop, Keep, Ops, AdminOps
<1> QED BY <1>1, <1>2

LEMMA AdminAdmin ==
  ASSUME Inv, AdminInv, AdminsWait, NEW r \in Requests, NEW u \in Users,
         Disable(r, u) \/ Enable(r, u)
  PROVE  AdminInv'
<1>1. account' = account
  BY DEF Disable, Enable, Load
<1>2. \A p \in Requests : req[p] # None => req[p].op \notin AdminOps
  BY DEF Disable, Enable, AdminFree, AdminOps
<1>3. \A p \in Requests : p # r => req'[p] = req[p]
  BY DEF Disable, Enable, Load, Inv, TypeOK
<1>4. OneAdminRequest'
  BY <1>2, <1>3 DEF OneAdminRequest
<1>5. DisablerStays'
  <2>1. CASE Enable(r, u)
    <3>1. req'[r].op = "enable"
      BY <2>1 DEF Enable, Load, Inv, TypeOK
    <3> QED BY <1>1, <1>2, <1>3, <3>1 DEF DisablerStays, AdminOps
  <2>2. CASE Disable(r, u)
    <3>1. req'[r].target = u
      BY <2>2 DEF Disable, Load, Inv, TypeOK
    <3>2. /\ Client[r] \in Admins /\ Client[r] # u
          /\ Exists(Client[r]) /\ account[Client[r]].active
      BY <2>2 DEF Disable, CanDisable, AuthenticatedAdmin, Authenticated
    <3> QED
      BY <1>1, <1>2, <1>3, <3>1, <3>2 DEF DisablerStays, AdminOps, Exists
  <2> QED BY <2>1, <2>2
<1> QED BY <1>1, <1>4, <1>5 DEF AdminInv, Exists

LEMMA CommitAdmin ==
  ASSUME Inv, AdminInv, AdminsWait, NEW r \in Requests, Commit(r)
  PROVE  AdminInv'
<1> DEFINE q == req[r]
<1>1. /\ q # None /\ q \in ReqVars
      /\ q.target \in Users /\ account[q.target] # None
  BY CommitRow DEF Commit, ReqVars, Exists
<1>2. req'[r] = None /\ \A p \in Requests : p # r => req'[p] = req[p]
  BY DEF Commit, Inv, TypeOK
<1>3. OneAdminRequest'
  BY <1>2 DEF AdminInv, OneAdminRequest
<1>4. ASSUME NEW u \in Users, Exists(u), account[u].active,
             q.op = "disable" => u # q.target
      PROVE  account'[u] # None /\ account'[u].active
  <2>1. CASE u # q.target
    BY <1>4, <2>1, CommitRow DEF Exists
  <2>2. CASE u = q.target
    BY <1>4, <2>2, CommitRow, NoneIsNoRow DEF Exists
  <2> QED BY <2>1, <2>2
<1>5. DisablerStays'
  <2> SUFFICES ASSUME NEW p \in Requests, req'[p] # None, req'[p].op = "disable"
               PROVE  /\ Client[p] \in Admins /\ Client[p] # req'[p].target
                      /\ account'[Client[p]] # None
                      /\ account'[Client[p]].active
    BY DEF DisablerStays, Exists
  <2>1. p # r /\ req'[p] = req[p]
    BY <1>2
  <2>2. q.op \notin AdminOps
    BY <1>1, <2>1 DEF AdminInv, OneAdminRequest, AdminOps
  <2>3. /\ Client[p] \in Admins /\ Client[p] # req[p].target
        /\ Exists(Client[p]) /\ account[Client[p]].active
    BY <2>1 DEF AdminInv, DisablerStays
  <2> QED BY <1>4, <2>1, <2>2, <2>3, AccountsAssumption DEF AdminOps
<1>6. \E u \in Admins : account'[u] # None /\ account'[u].active
  <2>1. CASE q.op = "disable"
    <3>1. /\ Client[r] \in Admins /\ Client[r] # q.target
          /\ Exists(Client[r]) /\ account[Client[r]].active
      BY <1>1, <2>1 DEF AdminInv, DisablerStays
    <3> QED BY <1>4, <3>1, AccountsAssumption
  <2>2. CASE q.op # "disable"
    <3>1. PICK u \in Admins : Exists(u) /\ account[u].active
      BY DEF AdminInv
    <3> QED BY <1>4, <2>2, <3>1, AccountsAssumption
  <2> QED BY <2>1, <2>2
<1> QED BY <1>3, <1>5, <1>6 DEF AdminInv, Exists

LEMMA AdminInvStep ==
  ASSUME Inv, AdminInv, AdminsWait, [Next]_vars
  PROVE  AdminInv'
<1>1. ASSUME NEW u \in Users, Register(u)
      PROVE  AdminInv'
  <2>1. req' = req /\ account[u] = None
        /\ \A v \in Users : v # u => account'[v] = account[v]
    BY <1>1 DEF Register, Exists, Inv, TypeOK
  <2>2. OneAdminRequest'
    BY <2>1 DEF AdminInv, OneAdminRequest
  <2>3. \A v \in Admins : Exists(v) => account'[v] = account[v]
    BY <2>1, AccountsAssumption DEF Exists
  <2>4. DisablerStays'
    BY <2>1, <2>3 DEF AdminInv, DisablerStays, Exists
  <2> QED BY <2>2, <2>3, <2>4 DEF AdminInv, Exists
<1>2. CASE (\E t \in live : Expire(t)) \/ UNCHANGED vars
  BY <1>2 DEF Expire, vars, AdminInv, OneAdminRequest, DisablerStays, Exists
<1>3. ASSUME NEW r \in Requests, Fail(r)
      PROVE  AdminInv'
  <2>1. /\ account' = account /\ req'[r] = None
        /\ \A p \in Requests : p # r => req'[p] = req[p]
    BY <1>3 DEF Fail, Inv, TypeOK
  <2> QED BY <2>1, QuietStep
<1> QED
  BY <1>1, <1>2, <1>3, EditAdmin, AdminAdmin, CommitAdmin DEF Next

\* However many admins there are and whatever they do to each other, if they act
\* one at a time somebody is left who can enable the others.
THEOREM SomebodyAdministers ==
  ASSUME AdminsWait
  PROVE  Spec => []SomeAdminActive
<1>1. Init => Inv /\ AdminInv
  BY InitInv, InitAdmin
<1>2. Inv /\ AdminInv /\ [Next]_vars => (Inv /\ AdminInv)'
  BY InvStep, AdminInvStep
<1>3. AdminInv => SomeAdminActive
  BY DEF AdminInv, SomeAdminActive
<1> QED BY <1>1, <1>2, <1>3, PTL DEF Spec

-----------------------------------------------------------------------------
\* Users who wait for the response before they send the next request.
OneRequestEach ==
  \A r, p \in Requests : Client[r] = Client[p] => r = p

\* A request of a user's own has the secret and the flag of their row as they
\* are stored, since only their requests change these; a request of an admin
\* changes neither.  A setup finds MFA off, leaves it off and stores a secret;
\* an enable has seen a code of the secret that it leaves in the row; a disable
\* finds a secret and takes it away with the flag.
OwnOK(r) ==
  LET q == req[r]
      own == account[q.target]
  IN  IF q.op \in AdminOps
      THEN q.new.mfa = q.loaded.mfa /\ q.new.secret = q.loaded.secret
      ELSE /\ q.target = Client[r]
           /\ q.loaded.mfa = own.mfa /\ q.loaded.secret = own.secret
           /\ CASE q.op = "setup"       -> ~q.new.mfa /\ ~own.mfa
                                           /\ q.new.secret # None
                [] q.op = "enable_mfa"  -> /\ ~own.mfa
                                           /\ q.new.secret = own.secret
                                           /\ own.secret = proven[q.target]
                                           /\ own.secret # None
                [] q.op = "disable_mfa" -> /\ ~q.new.mfa /\ q.new.secret = None
                                           /\ own.secret # None
                [] OTHER                -> /\ q.new.mfa = own.mfa
                                           /\ q.new.secret = own.secret

SecretInv ==
  /\ \A r \in Requests : req[r] # None => OwnOK(r)
  /\ EnabledSecretProven

\* Requests under way of one user are one request.
LEMMA OwnRequests ==
  ASSUME Inv, SecretInv, OneRequestEach, NEW r \in Requests, NEW p \in Requests,
         p # r, req[p] # None, req[p].op \notin AdminOps
  PROVE  req[p].target # Client[r]
BY DEF SecretInv, OwnOK, OneRequestEach

\* A request that a user puts under way changes no row, and of the codes the
\* users have shown only the user's own, and that only while MFA is off.
LEMMA OwnLoad ==
  ASSUME Inv, SecretInv, OneRequestEach, NEW r \in Requests,
         account' = account,
         \A p \in Requests : p # r => req'[p] = req[p],
         \A v \in Users : v # Client[r] => proven'[v] = proven[v],
         proven'[Client[r]] = proven[Client[r]] \/ ~account[Client[r]].mfa,
         OwnOK(r)'
  PROVE  SecretInv'
<1>1. ASSUME NEW p \in Requests, req'[p] # None
      PROVE  OwnOK(p)'
  <2>1. CASE p # r
    <3>1. req'[p] = req[p] /\ req[p] # None
      BY <1>1, <2>1
    <3>2. OwnOK(p)
      BY <3>1 DEF SecretInv
    <3>3. CASE req[p].op \in AdminOps
      BY <3>1, <3>2, <3>3 DEF OwnOK
    <3>4. CASE req[p].op \notin AdminOps
      <4>1. req[p].target # Client[r] /\ req[p].target \in Users
        BY <2>1, <3>1, <3>4, OwnRequests DEF Inv, TypeOK, ReqVars
      <4>2. proven'[req[p].target] = proven[req[p].target]
        BY <4>1
      <4> QED BY <3>1, <3>2, <3>4, <4>2 DEF OwnOK
    <3> QED BY <3>3, <3>4
  <2> QED BY <2>1
<1>2. EnabledSecretProven'
  <2> SUFFICES ASSUME NEW v \in Users, account'[v] # None, account'[v].mfa
               PROVE  account'[v].secret \in {proven'[v]} \ {None}
    BY DEF EnabledSecretProven, Exists
  <2>1. proven'[v] = proven[v]
    OBVIOUS
  <2> QED BY <2>1 DEF SecretInv, EnabledSecretProven, Exists
<1> QED BY <1>1, <1>2 DEF SecretInv

\* A login, a new token and a dropped one carry the row as it is.
LEMMA KeepSecret ==
  ASSUME Inv, SecretInv, OneRequestEach, NEW r \in Requests,
         NEW op \in {"login", "new_pat", "drop_pat"}, Keep(r, op)
  PROVE  SecretInv'
<1> DEFINE u == Client[r]
<1>1. /\ account' = account /\ proven' = proven
      /\ req' = [req EXCEPT ![r] = Request(r, op, u, account[u])]
  BY DEF Keep, Load, Request
<1>2. \A p \in Requests : p # r => req'[p] = req[p]
  BY <1>1 DEF Inv, TypeOK
<1>3. req'[r] = Request(r, op, u, account[u])
  BY <1>1 DEF Inv, TypeOK
<1>4. OwnOK(r)'
  BY <1>1, <1>3 DEF OwnOK, Request, AdminOps
<1> QED BY <1>1, <1>2, <1>4, OwnLoad

\* A setup finds MFA off, so the code that it forgets guards nothing.
LEMMA SetupSecret ==
  ASSUME Inv, SecretInv, OneRequestEach, NEW r \in Requests, MfaSetup(r)
  PROVE  SecretInv'
<1> DEFINE u == Client[r]
<1>1. PICK s \in Secrets :
        /\ Load(r, "setup", u, [account[u] EXCEPT !.secret = s])
        /\ proven' = [proven EXCEPT ![u] = IF @ = s THEN None ELSE @]
        /\ Exists(u) /\ ~account[u].mfa
  BY DEF MfaSetup, CanSetup, Authenticated
<1> DEFINE new == [account[u] EXCEPT !.secret = s]
<1>2. u \in Users /\ account[u] \in UserRow
  BY <1>1, AccountsAssumption DEF Inv, TypeOK, Exists
<1>3. ~new.mfa /\ new.secret # None
  BY <1>1, <1>2, AccountsAssumption DEF UserRow
<1>4. /\ account' = account
      /\ req' = [req EXCEPT ![r] = Request(r, "setup", u, new)]
  BY <1>1 DEF Load, Request
<1>5. \A p \in Requests : p # r => req'[p] = req[p]
  BY <1>4 DEF Inv, TypeOK
<1>6. req'[r] = Request(r, "setup", u, new)
  BY <1>4 DEF Inv, TypeOK
<1>7. OwnOK(r)'
  <2> HIDE DEF new
  <2> QED BY <1>1, <1>3, <1>4, <1>6 DEF OwnOK, Request, AdminOps
<1>8. \A v \in Users : v # u => proven'[v] = proven[v]
  BY <1>1 DEF Inv, TypeOK
<1> QED BY <1>1, <1>4, <1>5, <1>7, <1>8, OwnLoad

\* An enable has just seen a code of the secret that the row holds.
LEMMA EnableSecret ==
  ASSUME Inv, SecretInv, OneRequestEach, NEW r \in Requests, MfaEnable(r)
  PROVE  SecretInv'
<1> DEFINE u == Client[r]
<1> DEFINE new == [account[u] EXCEPT !.mfa = TRUE]
<1>1. /\ Load(r, "enable_mfa", u, new)
      /\ proven' = [proven EXCEPT ![u] = account[u].secret]
      /\ Exists(u) /\ ~account[u].mfa /\ account[u].secret # None
  BY DEF MfaEnable, Authenticated
<1>2. u \in Users /\ account[u] \in UserRow
  BY <1>1, AccountsAssumption DEF Inv, TypeOK, Exists
<1>3. new.secret = account[u].secret
  BY <1>2 DEF UserRow
<1>4. /\ account' = account
      /\ req' = [req EXCEPT ![r] = Request(r, "enable_mfa", u, new)]
  BY <1>1 DEF Load, Request
<1>5. \A p \in Requests : p # r => req'[p] = req[p]
  BY <1>4 DEF Inv, TypeOK
<1>6. req'[r] = Request(r, "enable_mfa", u, new)
  BY <1>4 DEF Inv, TypeOK
<1>7. proven'[u] = account[u].secret
  BY <1>1, <1>2 DEF Inv, TypeOK
<1>8. OwnOK(r)'
  <2> HIDE DEF new
  <2> QED BY <1>1, <1>3, <1>4, <1>6, <1>7 DEF OwnOK, Request, AdminOps
<1>9. \A v \in Users : v # u => proven'[v] = proven[v]
  BY <1>1 DEF Inv, TypeOK
<1> QED BY <1>1, <1>4, <1>5, <1>8, <1>9, OwnLoad

\* A disable turns MFA off together with the secret.
LEMMA DisableSecret ==
  ASSUME Inv, SecretInv, OneRequestEach, NEW r \in Requests, MfaDisable(r)
  PROVE  SecretInv'
<1> DEFINE u == Client[r]
<1> DEFINE new == [account[u] EXCEPT !.mfa = FALSE, !.secret = None]
<1>1. /\ Load(r, "disable_mfa", u, new)
      /\ proven' = proven /\ Exists(u) /\ account[u].secret # None
  BY DEF MfaDisable, Authenticated
<1>2. u \in Users /\ account[u] \in UserRow
  BY <1>1, AccountsAssumption DEF Inv, TypeOK, Exists
<1>3. ~new.mfa /\ new.secret = None
  BY <1>2 DEF UserRow
<1>4. /\ account' = account
      /\ req' = [req EXCEPT ![r] = Request(r, "disable_mfa", u, new)]
  BY <1>1 DEF Load, Request
<1>5. \A p \in Requests : p # r => req'[p] = req[p]
  BY <1>4 DEF Inv, TypeOK
<1>6. req'[r] = Request(r, "disable_mfa", u, new)
  BY <1>4 DEF Inv, TypeOK
<1>7. OwnOK(r)'
  <2> HIDE DEF new
  <2> QED BY <1>1, <1>3, <1>4, <1>6 DEF OwnOK, Request, AdminOps
<1> QED BY <1>1, <1>4, <1>5, <1>7, OwnLoad

\* An admin's request changes neither the secret nor the flag of MFA.
LEMMA AdminSecret ==
  ASSUME Inv, SecretInv, OneRequestEach, NEW r \in Requests, NEW u \in Users,
         Disable(r, u) \/ Enable(r, u)
  PROVE  SecretInv'
<1>1. Exists(u) /\ proven' = proven
  BY DEF Disable, Enable, CanDisable
<1>2. account[u] \in UserRow
  BY <1>1 DEF Inv, TypeOK, Exists
<1>3. PICK op \in AdminOps, new \in UserRow :
        /\ Load(r, op, u, new)
        /\ new.mfa = account[u].mfa /\ new.secret = account[u].secret
  <2>1. CASE Disable(r, u)
    <3> DEFINE new == [account[u] EXCEPT !.active = FALSE, !.disabledAt = TRUE]
    <3>1. /\ new \in UserRow
          /\ new.mfa = account[u].mfa /\ new.secret = account[u].secret
      BY <1>2 DEF UserRow
    <3> QED BY <2>1, <3>1 DEF Disable, AdminOps
  <2>2. CASE Enable(r, u)
    <3> DEFINE new == Enabled(account[u])
    <3>1. /\ new \in UserRow
          /\ new.mfa = account[u].mfa /\ new.secret = account[u].secret
      BY <1>2 DEF UserRow, Enabled
    <3> QED BY <2>2, <3>1 DEF Enable, AdminOps
  <2> QED BY <2>1, <2>2
<1>4. account' = account /\ req' = [req EXCEPT ![r] = Request(r, op, u, new)]
  BY <1>3 DEF Load, Request
<1>5. \A p \in Requests : p # r => req'[p] = req[p]
  BY <1>4 DEF Inv, TypeOK
<1>6. req'[r] = Request(r, op, u, new)
  BY <1>4 DEF Inv, TypeOK
<1>7. OwnOK(r)'
  BY <1>3, <1>6 DEF OwnOK, Request
<1> QED BY <1>1, <1>4, <1>5, <1>7, OwnLoad

\* What a commit does to secret and flag: an admin's leaves both, a user's own
\* writes both as it carries them.
LEMMA CommitSecret ==
  ASSUME Inv, SecretInv, NEW r \in Requests, Commit(r)
  PROVE  LET q   == req[r]
             old == account[q.target]
             new == account'[q.target]
         IN  IF q.op \in AdminOps
             THEN new.mfa = old.mfa /\ new.secret = old.secret
             ELSE new.mfa = q.new.mfa /\ new.secret = q.new.secret
<1> DEFINE q == req[r]
<1> DEFINE old == account[q.target]
<1> DEFINE new == account'[q.target]
<1>1. q # None /\ q \in ReqVars /\ q.target \in Users /\ OwnOK(r)
  BY DEF Commit, Inv, TypeOK, SecretInv, ReqVars
<1>2. account' = [account EXCEPT ![q.target] = Merged(old, q.loaded, q.new)]
  BY DEF Commit
<1>3. new = Merged(old, q.loaded, q.new)
  BY <1>1, <1>2 DEF Inv, TypeOK
<1>4. /\ new.mfa = Changed(q.loaded.mfa, q.new.mfa, old.mfa)
      /\ new.secret = Changed(q.loaded.secret, q.new.secret, old.secret)
  BY <1>3 DEF Merged
<1>5. CASE q.op \in AdminOps
  BY <1>1, <1>4, <1>5 DEF OwnOK, Changed
<1>6. CASE q.op \notin AdminOps
  <2>1. q.loaded.mfa = old.mfa /\ q.loaded.secret = old.secret
    BY <1>1, <1>6 DEF OwnOK
  <2> QED BY <1>4, <1>6, <2>1 DEF Changed
<1> QED BY <1>5, <1>6

\* No commit changes the secret and the flag under another request of the user,
\* and the only one that turns MFA on is an enable's.
LEMMA CommitSecretStep ==
  ASSUME Inv, SecretInv, OneRequestEach, NEW r \in Requests, Commit(r)
  PROVE  SecretInv'
<1> DEFINE q == req[r]
<1>1. /\ q # None /\ q \in ReqVars /\ q.target \in Users /\ Exists(q.target)
      /\ OwnOK(r)
      /\ \A v \in Users : v # q.target => account'[v] = account[v]
  BY CommitRow DEF Commit, SecretInv, ReqVars
<1>2. /\ proven' = proven /\ req'[r] = None
      /\ \A p \in Requests : p # r => req'[p] = req[p]
  BY DEF Commit, Inv, TypeOK
<1>3. ASSUME NEW p \in Requests, req'[p] # None
      PROVE  OwnOK(p)'
  <2>1. p # r /\ req'[p] = req[p] /\ req[p] # None
    BY <1>2, <1>3
  <2>2. OwnOK(p)
    BY <2>1 DEF SecretInv
  <2>3. CASE req[p].op \in AdminOps
    BY <2>1, <2>2, <2>3 DEF OwnOK
  <2>4. CASE req[p].op \notin AdminOps
    <3>1. req[p].target = Client[p] /\ Client[p] \in Users
      BY <2>2, <2>4, AccountsAssumption DEF OwnOK
    <3>2. /\ account'[Client[p]].mfa = account[Client[p]].mfa
          /\ account'[Client[p]].secret = account[Client[p]].secret
      <4>1. CASE Client[p] # q.target
        BY <1>1, <3>1, <4>1
      <4>2. CASE Client[p] = q.target
        <5>1. q.op \in AdminOps
          BY <1>1, <2>1, <4>2 DEF OwnOK, OneRequestEach
        <5> QED BY <4>2, <5>1, CommitSecret
      <4> QED BY <4>1, <4>2
    <3> QED BY <1>2, <2>1, <2>2, <2>4, <3>1, <3>2 DEF OwnOK
  <2> QED BY <2>3, <2>4
<1>4. EnabledSecretProven'
  <2> SUFFICES ASSUME NEW v \in Users, account'[v] # None, account'[v].mfa
               PROVE  account'[v].secret \in {proven[v]} \ {None}
    BY <1>2 DEF EnabledSecretProven, Exists
  <2>1. Exists(v) /\ account[v].mfa =>
          account[v].secret \in {proven[v]} \ {None}
    BY DEF SecretInv, EnabledSecretProven
  <2>2. CASE v # q.target
    BY <1>1, <2>1, <2>2 DEF Exists
  <2>3. CASE v = q.target /\ q.op \in AdminOps
    BY <1>1, <2>1, <2>3, CommitSecret
  <2>4. CASE v = q.target /\ q.op \notin AdminOps
    <3>1. account'[v].mfa = q.new.mfa /\ account'[v].secret = q.new.secret
      BY <2>4, CommitSecret
    <3>2. q.new.mfa
      BY <3>1
    <3>3. CASE q.op = "enable_mfa"
      BY <1>1, <2>4, <3>1, <3>3 DEF OwnOK
    <3>4. CASE q.op # "enable_mfa"
      <4>1. q.new.mfa = account[v].mfa /\ q.new.secret = account[v].secret
        BY <1>1, <2>4, <3>2, <3>4 DEF OwnOK
      <4> QED BY <1>1, <2>1, <2>4, <3>1, <3>2, <4>1
    <3> QED BY <3>3, <3>4
  <2> QED BY <2>2, <2>3, <2>4
<1> QED BY <1>3, <1>4 DEF SecretInv

LEMMA InitSecret == Init => SecretInv
<1> SUFFICES ASSUME Init PROVE SecretInv
  OBVIOUS
<1>1. ~NewUser.mfa
  BY DEF NewUser
<1> QED BY <1>1 DEF Init, SecretInv, EnabledSecretProven, Exists

LEMMA SecretStep ==
  ASSUME Inv, SecretInv, OneRequestEach, [Next]_vars
  PROVE  SecretInv'
<1>1. ASSUME NEW u \in Users, Register(u)
      PROVE  SecretInv'
  <2>1. /\ req' = req /\ proven' = proven
        /\ account[u] = None /\ account'[u] = NewUser /\ ~NewUser.mfa
        /\ \A v \in Users : v # u => account'[v] = account[v]
    BY <1>1 DEF Register, Exists, Inv, TypeOK, NewUser
  <2>2. ASSUME NEW p \in Requests, req'[p] # None
        PROVE  OwnOK(p)'
    <3>1. OwnOK(p) /\ req[p].target \in Users /\ Exists(req[p].target)
      BY <2>1, <2>2 DEF SecretInv, Inv, TypeOK, ReqVars, ReqsOK
    <3>2. account'[req[p].target] = account[req[p].target]
      BY <2>1, <3>1 DEF Exists
    <3> QED BY <2>1, <3>1, <3>2 DEF OwnOK
  <2>3. EnabledSecretProven'
    BY <2>1 DEF SecretInv, EnabledSecretProven, Exists
  <2> QED BY <2>2, <2>3 DEF SecretInv
<1>2. CASE (\E t \in live : Expire(t)) \/ UNCHANGED vars
  BY <1>2 DEF Expire, vars, SecretInv, OwnOK, EnabledSecretProven, Exists
<1>3. ASSUME NEW r \in Requests, Fail(r)
      PROVE  SecretInv'
  <2>1. /\ account' = account /\ proven' = proven /\ req'[r] = None
        /\ \A p \in Requests : p # r => req'[p] = req[p]
    BY <1>3 DEF Fail, Inv, TypeOK
  <2>2. ASSUME NEW p \in Requests, req'[p] # None
        PROVE  OwnOK(p)'
    <3>1. req'[p] = req[p] /\ OwnOK(p)
      BY <2>1, <2>2 DEF SecretInv
    <3> QED BY <2>1, <3>1 DEF OwnOK
  <2>3. EnabledSecretProven'
    BY <2>1 DEF SecretInv, EnabledSecretProven, Exists
  <2> QED BY <2>2, <2>3 DEF SecretInv
<1>4. ASSUME NEW r \in Requests, Login(r) \/ LoginWithout(r) \/ TokenNew(r)
                                 \/ TokenDrop(r)
      PROVE  SecretInv'
  BY <1>4, KeepSecret DEF Login, LoginWithout, TokenNew, TokenDrop
<1> QED
  BY <1>1, <1>2, <1>3, <1>4, SetupSecret, EnableSecret, DisableSecret,
     AdminSecret, CommitSecretStep DEF Next

\* When users wait for the response before they send the next request, MFA that
\* is on asks for codes of a secret the user has shown one of, whatever the
\* admins do to the row between the read and the commit.
THEOREM WaitingUsersKnowTheirSecret ==
  ASSUME OneRequestEach
  PROVE  Spec => []EnabledSecretProven
<1>1. Init => Inv /\ SecretInv
  BY InitInv, InitSecret
<1>2. Inv /\ SecretInv /\ [Next]_vars => (Inv /\ SecretInv)'
  BY InvStep, SecretStep
<1>3. SecretInv => EnabledSecretProven
  BY DEF SecretInv
<1> QED BY <1>1, <1>2, <1>3, PTL DEF Spec

-----------------------------------------------------------------------------
\* The effect of a commit on the row of its target as it is then, whatever it was
\* when the request read it.
LEMMA CommitEffect ==
  ASSUME Inv, SecretInv, NEW r \in Requests, Commit(r)
  PROVE  [Rows!Next]_account
<1> DEFINE q == req[r]
           u == q.target
           old == account[u]
           new == Merged(old, q.loaded, q.new)
<1>1. /\ q \in ReqVars /\ u \in Users /\ Exists(u) /\ old \in UserRow
      /\ q.loaded \in UserRow /\ q.new \in UserRow /\ ReqOK(q) /\ OwnOK(r)
  BY DEF Commit, Inv, TypeOK, ReqsOK, SecretInv, ReqVars, Exists
<1>2. account' = [account EXCEPT ![u] = new] /\ account'[u] = new
  BY <1>1 DEF Commit, Inv, TypeOK
<1>3. /\ new.active = Changed(q.loaded.active, q.new.active, old.active)
      /\ new.disabledAt =
           Changed(q.loaded.disabledAt, q.new.disabledAt, old.disabledAt)
  BY <1>1, MergedRow
<1>4. /\ q.op \in AdminOps => new.mfa = old.mfa /\ new.secret = old.secret
      /\ q.op \notin AdminOps =>
           new.mfa = q.new.mfa /\ new.secret = q.new.secret
  BY <1>2, CommitSecret
<1>5. new = [active |-> new.active, disabledAt |-> new.disabledAt,
             mfa |-> new.mfa, secret |-> new.secret]
  BY DEF Merged
<1>6. old = [active |-> old.active, disabledAt |-> old.disabledAt,
             mfa |-> old.mfa, secret |-> old.secret]
  BY <1>1 DEF UserRow
<1> HIDE DEF new
<1>7. CASE q.op = "disable"
  <2>1. new = [old EXCEPT !.active = FALSE, !.disabledAt = TRUE]
    <3>1. ~new.active /\ new.disabledAt
      BY <1>1, <1>3, <1>7 DEF ReqOK, Changed
    <3>2. new.active = FALSE /\ new.disabledAt = TRUE
      BY <1>1, <1>3, <3>1 DEF UserRow, Changed
    <3> QED BY <1>4, <1>5, <1>6, <1>7, <3>2 DEF AdminOps
  <2>2. Rows!Disable(u)
    BY <1>1, <1>2, <2>1 DEF Rows!Disable, Rows!Exists, Exists, Inv, TypeOK
  <2> QED BY <1>1, <2>2 DEF Rows!Next
<1>8. CASE q.op = "enable"
  <2>1. new = [old EXCEPT !.active = TRUE, !.disabledAt = FALSE]
    <3>1. new.active /\ ~new.disabledAt
      BY <1>1, <1>3, <1>8 DEF ReqOK, Changed
    <3>2. new.active = TRUE /\ new.disabledAt = FALSE
      BY <1>1, <1>3, <3>1 DEF UserRow, Changed
    <3> QED BY <1>4, <1>5, <1>6, <1>8, <3>2 DEF AdminOps
  <2>2. Rows!Enable(u)
    BY <1>1, <1>2, <2>1 DEF Rows!Enable, Rows!Exists, Exists, Inv, TypeOK
  <2> QED BY <1>1, <2>2 DEF Rows!Next
<1>9. ASSUME q.op \notin AdminOps
      PROVE  /\ new.active = old.active /\ new.disabledAt = old.disabledAt
             /\ new.mfa = q.new.mfa /\ new.secret = q.new.secret
  BY <1>1, <1>3, <1>4, <1>9 DEF ReqOK, Changed, AdminOps
<1>10. CASE q.op = "setup"
  <2>1. /\ ~old.mfa /\ ~q.new.mfa /\ q.new.secret \in Secrets
    BY <1>1, <1>10 DEF OwnOK, UserRow, AdminOps
  <2>2. new.mfa = old.mfa
    BY <1>1, <1>9, <1>10, <2>1 DEF UserRow, AdminOps
  <2>3. new = [old EXCEPT !.secret = q.new.secret]
    BY <1>5, <1>6, <1>9, <1>10, <2>2 DEF AdminOps
  <2>4. Rows!SetUpMfa(u, q.new.secret)
    BY <1>1, <1>2, <2>1, <2>3 DEF Rows!SetUpMfa, Rows!Exists, Exists
  <2> QED BY <1>1, <2>1, <2>4 DEF Rows!Next
<1>11. CASE q.op = "enable_mfa"
  <2>1. ~old.mfa /\ q.new.secret = old.secret /\ old.secret # None
    BY <1>1, <1>11 DEF OwnOK, AdminOps
  <2>2. new.mfa = TRUE \/ new.mfa = old.mfa
    BY <1>1, <1>9, <1>11, <2>1 DEF UserRow, AdminOps
  <2>3. CASE new.mfa = TRUE
    <3>1. new = [old EXCEPT !.mfa = TRUE]
      BY <1>5, <1>6, <1>9, <1>11, <2>1, <2>3 DEF AdminOps
    <3>2. Rows!EnableMfa(u)
      BY <1>1, <1>2, <2>1, <3>1 DEF Rows!EnableMfa, Rows!Exists, Exists
    <3> QED BY <1>1, <3>2 DEF Rows!Next
  <2>4. CASE new.mfa = old.mfa
    <3>1. new = old
      BY <1>5, <1>6, <1>9, <1>11, <2>1, <2>4 DEF AdminOps
    <3> QED BY <1>1, <1>2, <3>1 DEF Inv, TypeOK
  <2> QED BY <2>2, <2>3, <2>4
<1>12. CASE q.op = "disable_mfa"
  <2>1. ~q.new.mfa /\ q.new.secret = None /\ old.secret # None
    BY <1>1, <1>12 DEF OwnOK, AdminOps
  <2>2. new.mfa = FALSE
    BY <1>1, <1>9, <1>12, <2>1 DEF UserRow, AdminOps
  <2>3. new = [old EXCEPT !.mfa = FALSE, !.secret = None]
    BY <1>5, <1>6, <1>9, <1>12, <2>1, <2>2 DEF AdminOps
  <2>4. Rows!DisableMfa(u)
    BY <1>1, <1>2, <2>1, <2>3 DEF Rows!DisableMfa, Rows!Exists, Exists
  <2> QED BY <1>1, <2>4 DEF Rows!Next
<1>13. CASE q.op \in {"login", "new_pat", "drop_pat"}
  <2>1. q.new.mfa = old.mfa /\ q.new.secret = old.secret
    BY <1>1, <1>13 DEF OwnOK, AdminOps
  <2>2. new = old
    BY <1>5, <1>6, <1>9, <1>13, <2>1 DEF AdminOps
  <2> QED BY <1>1, <1>2, <2>2 DEF Inv, TypeOK
<1> QED
  BY <1>1, <1>7, <1>8, <1>10, <1>11, <1>12, <1>13 DEF ReqVars, Ops

\* When users wait for the response before they send the next request, each
\* request is as good as one that reads and writes its row in a single step:
\* no update is lost, and what was checked at the read is true at the commit.
THEOREM RequestsLookAtomic ==
  ASSUME OneRequestEach
  PROVE  Spec => RequestsAtomic
<1>1. Init => Rows!Init
  BY DEF Init, Rows!Init, NewUser, Rows!NewRow
<1>2. ASSUME Inv, SecretInv, [Next]_vars PROVE [Rows!Next]_account
  <2>1. ASSUME NEW u \in Users, Register(u) PROVE Rows!Register(u)
    BY <2>1 DEF Register, Rows!Register, Exists, Rows!Exists, NewUser, Rows!NewRow
  <2>2. CASE \E u \in Users : Register(u)
    BY <2>1, <2>2 DEF Rows!Next
  <2>3. CASE \E r \in Requests : Commit(r)
    BY <1>2, <2>3, CommitEffect
  <2>4. CASE UNCHANGED vars
    BY <2>4 DEF vars
  <2> QED BY <1>2, <2>2, <2>3, <2>4, OthersKeepRows
<1>3. Init => Inv /\ SecretInv
  BY InitInv, InitSecret
<1>4. Inv /\ SecretInv /\ [Next]_vars => (Inv /\ SecretInv)'
  BY InvStep, SecretStep
<1>5. Inv /\ SecretInv /\ [Next]_vars => [Rows!Next]_account
  BY <1>2
<1> QED BY <1>1, <1>3, <1>4, <1>5, PTL DEF Spec, RequestsAtomic, Rows!Spec
=============================================================================
