------------------------------ MODULE ShareGate ------------------------------
(***************************************************************************)
(* Who gets through a share link and what is kept of it: the four gates of *)
(* app/shares/routes.py (access, verify-password, download, preview), the  *)
(* share side of the thumbnail endpoint, the access log, the notification  *)
(* of the owner and the receipts derived from the log, while the owner     *)
(* patches or revokes the share, an admin disables the owner, times run    *)
(* out and the file is purged.                                             *)
(*                                                                         *)
(* What is behind the gate is left to module Sharing: here a blob opens or *)
(* does not. A PATCH or DELETE is one step: its UPDATE names only columns  *)
(* the request changes (Sharing), so its commit is that of a PATCH that    *)
(* was loaded at that moment and changes just these.  A log row takes its  *)
(* timestamp when it is flushed and is seen by others when it is committed;*)
(* two requests may do the one in this and the other in that order.  The   *)
(* requests are taken to read one clock that does not go back.             *)
(***************************************************************************)
EXTENDS Naturals, FiniteSets, Sequences

CONSTANTS
  Shares,      \* share ids
  Users,       \* user ids
  Owner,       \* the owner of a share
  Visitors,    \* requests that use a link
  Caller,      \* the user who sends a request, or None
  None,
  Created,     \* the forms in which create_share issues links
  MaxLog,      \* bound: how many rows are written to the log of a share
  MaxEdits,    \* bound: how often a share or an account is edited
  Faults       \* whether workers may die

ASSUME GateAssumption ==
  /\ None \notin Users
  /\ Owner \in [Shares -> Users]
  /\ Caller \in [Visitors -> Users \cup {None}]
  /\ Created \subseteq
       [to : Users \cup {None}, locked : BOOLEAN, view : BOOLEAN,
        download : BOOLEAN, expired : {FALSE},
        revoked : {FALSE}]
  /\ MaxLog \in Nat /\ MaxEdits \in Nat /\ Faults \in BOOLEAN

VARIABLES
  share,     \* table shares; a row goes when its file is purged
  active,    \* users.is_active
  grants,    \* the unexpired grant tokens a caller holds, by share
  log,       \* table access_logs, by share in the order of timestamp, with the
             \* rows that are not committed, or never will be
  notices,   \* table notifications, counted by share
  visit,     \* local variables of the requests
  edits,     \* edits so far
  proven,    \* history: who has given which share's password
  since,     \* history: which rights a request has had since it began
  shown      \* history: the receipts of a share, as they were when there first
             \* was one while its recipient had no request under way

gateVars ==
  <<share, active, grants, log, notices, visit, edits, proven, since, shown>>

-----------------------------------------------------------------------------
Kinds == {"access", "verify", "download", "preview", "thumbnail"}
Callers == Users \cup {None}

\* to: recipient_id, None for an open link; locked: there is a password_hash;
\* expired: expires_at has passed (an expiry still to come may or may not pass)
ShareRow ==
  [to : Callers, locked : BOOLEAN, view : BOOLEAN, download : BOOLEAN,
   expired : BOOLEAN, revoked : BOOLEAN]

Actions == {"view", "download", "password_verify"}

\* done: the row is committed
LogRow ==
  [by : Callers, action : Actions, ok : BOOLEAN, done : BOOLEAN]

\* entry: the place of the row that a request has flushed
VisitVars ==
  [kind : Kinds, share : Shares, row : ShareRow, ok : BOOLEAN,
   at : {"found", "decided", "flushed", "ready"}, entry : 0 .. MaxLog]

\* What a receipt can be about.
Visited == {"view", "download"}

ASSUME NoneIsNoRow == None \notin ShareRow /\ None \notin VisitVars

ActionOf(kind) ==
  CASE kind = "verify" -> "password_verify"
    [] kind = "download" -> "download"
    [] OTHER -> "view"

\* verify-password has no current_user
LoggedCaller(g) == IF visit[g].kind = "verify" THEN None ELSE Caller[g]

\* The links have just been created.
GateInit ==
  /\ share \in [Shares -> Created]
  /\ active = [u \in Users |-> TRUE]
  /\ grants = {} /\ proven = {}
  /\ log = [h \in Shares |-> <<>>]
  /\ notices = [h \in Shares |-> 0]
  /\ visit = [g \in Visitors |-> None]
  /\ edits = 0
  /\ since = [g \in Visitors |-> {}]
  /\ shown = [h \in Shares |-> [a \in Visited |-> 0]]

(********************** what happens around a request **********************)
Edit == edits < MaxEdits /\ edits' = edits + 1

\* PATCH of the permissions, the expiry or the revoked mark, and DELETE
Update(h, row) ==
  /\ share[h] # None /\ share[h] # row /\ Edit
  /\ share' = [share EXCEPT ![h] = row]
  /\ UNCHANGED <<active, grants, log, notices, visit, proven>>

Patch(h) ==
  \/ \E v, d \in BOOLEAN :
       Update(h, [share[h] EXCEPT !.view = v, !.download = d])
  \/ \E b \in BOOLEAN :
       \/ Update(h, [share[h] EXCEPT !.expired = b])
       \/ Update(h, [share[h] EXCEPT !.revoked = b])

\* The share's expires_at passes.
ShareExpires(h) ==
  /\ share[h] # None /\ ~share[h].expired
  /\ share' = [share EXCEPT ![h].expired = TRUE]
  /\ UNCHANGED <<active, grants, log, notices, visit, edits, proven>>

GrantExpires(c, h) ==
  /\ <<c, h>> \in grants
  /\ grants' = grants \ {<<c, h>>}
  /\ UNCHANGED <<share, active, log, notices, visit, edits, proven>>

SetActive(u, b) ==
  /\ active[u] # b /\ Edit
  /\ active' = [active EXCEPT ![u] = b]
  /\ UNCHANGED <<share, grants, log, notices, visit, proven>>

Flushed(g) == visit[g] # None /\ visit[g].at = "flushed"

\* The file goes, and with it, by cascade, the share and its log; the
\* notifications stay (related_share_id is set to NULL).  A log row that was
\* flushed holds the row of its share.
FilePurged(h) ==
  /\ share[h] # None
  /\ \A g \in Visitors : Flushed(g) => visit[g].share # h
  /\ share' = [share EXCEPT ![h] = None]
  /\ log' = [log EXCEPT ![h] = <<>>]
  /\ UNCHANGED <<active, grants, notices, visit, edits, proven>>

(******************************* the gates *********************************)
Find(g, h, kind) ==
  /\ visit[g] = None /\ share[h] # None
  /\ visit' = [visit EXCEPT ![g] =
                 [kind |-> kind, share |-> h, row |-> share[h], ok |-> FALSE,
                  at |-> "found", entry |-> 0]]
  /\ UNCHANGED <<share, active, grants, log, notices, edits, proven>>

\* mutant: is_valid forgets the owner
ValidAlone(h, row) == ~row.revoked /\ ~row.expired

\* is_valid; the row of the owner is read now
ValidFor(h, row) ==
  ~row.revoked /\ ~row.expired /\ active[Owner[h]]

\* mutant: what can be viewed can be previewed
PermittedToView(kind, row) ==
  CASE kind = "download" -> row.download
    [] kind \in {"preview", "thumbnail"} -> row.view
    [] OTHER -> TRUE

Permitted(kind, row) ==
  CASE kind = "download" -> row.download
    [] kind = "preview" -> row.view /\ ~row.download
    [] kind = "thumbnail" -> row.view
    [] OTHER -> TRUE

Addressed(c, row) == row.to # None => row.to = c

GrantFits(c, w) == w.row.locked => <<c, w.share>> \in grants

Admits(g) ==
  LET w == visit[g]
  IN  /\ ValidFor(w.share, w.row)
      /\ Permitted(w.kind, w.row)
      /\ Addressed(Caller[g], w.row)
      /\ GrantFits(Caller[g], w)

End(g) == visit' = [visit EXCEPT ![g] = None]

Decide(g, ok) == visit' = [visit EXCEPT ![g].at = "decided", ![g].ok = ok]

\* The checks, and the decryption if they pass: sent says whether the caller
\* sends its grant, intact whether the blob opens. The outcome is logged.
Gate(g, kind, sent, intact) ==
  LET w == visit[g]
  IN  /\ w # None /\ w.at = "found" /\ w.kind = kind
      /\ Decide(g, Admits(g) /\ (w.row.locked => sent) /\ intact)
      /\ UNCHANGED <<share, active, grants, log, notices, edits, proven>>

CheckAccess(g, sent) == Gate(g, "access", sent, TRUE)

CheckDownload(g, sent, intact) == Gate(g, "download", sent, intact)

CheckPreview(g, sent, intact) == Gate(g, "preview", sent, intact)

\* A thumbnail through a share: refused, not sent the grant, or not a picture
\* that opens; or given. Nothing of it is logged.
CheckThumbnail(g) ==
  LET w == visit[g]
  IN  /\ w # None /\ w.at = "found" /\ w.kind = "thumbnail"
      /\ \/ End(g)
         \/ /\ Admits(g)
            /\ visit' = [visit EXCEPT ![g].at = "ready", ![g].ok = TRUE]
      /\ UNCHANGED <<share, active, grants, log, notices, edits, proven>>

\* A share that is not valid or has no password is refused without a log row.
CheckPassword(g, right) ==
  LET w == visit[g]
      h == w.share
  IN  /\ w # None /\ w.at = "found" /\ w.kind = "verify"
      /\ IF ValidFor(h, w.row) /\ w.row.locked
         THEN /\ Decide(g, right)
              /\ proven' =
                   IF right THEN proven \cup {<<Caller[g], h>>} ELSE proven
         ELSE End(g) /\ UNCHANGED proven
      /\ UNCHANGED <<share, active, grants, log, notices, edits>>

(********************************* _log ************************************)
\* mutant: a refused visit is reported
NotifiesAlways(w) == w.kind # "verify"

Notifies(w) == w.ok /\ w.kind # "verify"

\* The INSERT of the row, with the timestamp of this moment; the foreign key
\* refuses it when the share is gone.
Flush(g) ==
  LET w == visit[g]
      h == w.share
      row == [by |-> LoggedCaller(g), action |-> ActionOf(w.kind), ok |-> w.ok,
              done |-> FALSE]
  IN  /\ w # None /\ w.at = "decided"
      /\ IF share[h] = None THEN End(g) /\ UNCHANGED log
         ELSE /\ Len(log[h]) < MaxLog
              /\ log' = [log EXCEPT ![h] = Append(@, row)]
              /\ visit' = [visit EXCEPT ![g].at = "flushed",
                                        ![g].entry = Len(log[h]) + 1]
      /\ UNCHANGED <<share, active, grants, notices, edits, proven>>

\* The row and the notification of the owner are one commit.
Commit(g) ==
  LET w == visit[g]
      h == w.share
  IN  /\ Flushed(g)
      /\ log' = [log EXCEPT ![h][w.entry].done = TRUE]
      /\ notices' = IF Notifies(w) THEN [notices EXCEPT ![h] = @ + 1] ELSE notices
      /\ IF w.ok THEN visit' = [visit EXCEPT ![g].at = "ready", ![g].entry = 0]
         ELSE End(g)
      /\ UNCHANGED <<share, active, grants, edits, proven>>

\* The worker dies, or the database refuses; a row that was flushed is rolled
\* back, which is to say that it will never be committed.
Die(g) ==
  /\ Faults /\ visit[g] # None
  /\ End(g)
  /\ UNCHANGED <<share, active, grants, log, notices, edits, proven>>

\* The answer. The commit expired the loaded row: access, download and
\* verify-password read it again and fail when it is gone.
Answer(g) ==
  LET w == visit[g]
  IN  /\ w # None /\ w.at = "ready"
      /\ grants' = IF w.kind = "verify" /\ share[w.share] # None
                   THEN grants \cup {<<Caller[g], w.share>>} ELSE grants
      /\ End(g)
      /\ UNCHANGED <<share, active, log, notices, edits, proven>>

(****************************** receipts ***********************************)
\* mutant: refused visits count too
ReceiptRowsAll(h, a) ==
  {i \in DOMAIN log[h] :
     log[h][i].done /\ log[h][i].action = a /\ log[h][i].by = share[h].to}

ReceiptRows(h, a) ==
  {i \in DOMAIN log[h] :
     /\ log[h][i].done /\ log[h][i].ok
     /\ log[h][i].action = a /\ log[h][i].by = share[h].to}

\* mutant: the newest row is taken
Newest(rows) == CHOOSE i \in rows : \A k \in rows : i >= k

Earliest(rows) == CHOOSE i \in rows : \A k \in rows : i <= k

\* first_viewed_at and first_downloaded_at of an existing share; 0 for none
Receipt(h, a) ==
  IF share[h].to = None \/ ReceiptRows(h, a) = {} THEN 0
  ELSE Earliest(ReceiptRows(h, a))

-----------------------------------------------------------------------------
\* What a caller needs for a request of this kind, as API.md lists it.
Rights == {"valid", "owner", "permission", "password"}

Holds(g, right) ==
  LET w == visit[g]
      row == share[w.share]
  IN  CASE right = "valid" -> row # None /\ ~row.revoked /\ ~row.expired
        [] right = "owner" -> active[Owner[w.share]]
        [] right = "permission" ->
             /\ row # None
             /\ w.kind = "download" => row.download
             /\ w.kind = "preview" => row.view /\ ~row.download
             /\ w.kind = "thumbnail" => row.view
        [] right = "password" ->
             visit[g].row.locked => <<Caller[g], w.share>> \in proven

\* A request under way has had a right if it holds now or held at some moment
\* since the request began.
Observe ==
  since' = [g \in Visitors |->
              IF visit'[g] = None THEN {}
              ELSE since[g] \cup {right \in Rights : Holds(g, right)'}]

\* The recipient of a share has got all the answers.
Resting(h) == \A g \in Visitors : Caller[g] = share[h].to => visit[g] = None

Show ==
  shown' = [h \in Shares |->
              [a \in Visited |->
                 IF share'[h] = None THEN 0
                 ELSE IF shown[h][a] = 0 /\ Resting(h)' THEN Receipt(h, a)'
                 ELSE shown[h][a]]]

Visit(g) ==
  \/ \E h \in Shares, kind \in Kinds : Find(g, h, kind)
  \/ \E sent \in BOOLEAN : CheckAccess(g, sent)
  \/ \E sent, intact \in BOOLEAN :
       CheckDownload(g, sent, intact) \/ CheckPreview(g, sent, intact)
  \/ CheckThumbnail(g)
  \/ \E right \in BOOLEAN : CheckPassword(g, right)
  \/ Flush(g) \/ Commit(g) \/ Answer(g) \/ Die(g)

Around ==
  \/ \E h \in Shares : Patch(h) \/ ShareExpires(h) \/ FilePurged(h)
  \/ \E c \in Callers, h \in Shares : GrantExpires(c, h)
  \/ \E h \in Shares, b \in BOOLEAN : SetActive(Owner[h], b)

GateNext == (Around \/ \E g \in Visitors : Visit(g)) /\ Observe /\ Show

GateSpec == GateInit /\ [][GateNext]_gateVars

-----------------------------------------------------------------------------
GateTypeOK ==
  /\ share \in [Shares -> ShareRow \cup {None}]
  /\ active \in [Users -> BOOLEAN]
  /\ grants \subseteq Callers \X Shares /\ proven \subseteq Callers \X Shares
  /\ \A h \in Shares : log[h] \in Seq(LogRow) /\ Len(log[h]) <= MaxLog
  /\ notices \in [Shares -> 0 .. MaxLog]
  /\ visit \in [Visitors -> VisitVars \cup {None}]
  /\ edits \in 0 .. MaxEdits
  /\ since \in [Visitors -> SUBSET Rights]
  /\ shown \in [Shares -> [Visited -> 0 .. MaxLog]]

Answering(g) == visit[g] # None /\ visit[g].at = "ready"

\* Whatever a link gives away, the caller was entitled to: between the start of
\* the request and its answer there was a moment at which the share was live,
\* one at which its owner was enabled, one at which it granted what was asked,
\* and the caller had given the password of this very share. So a request sent
\* after a revocation, an expiry or a disable is refused by all of the separately
\* written gates, and one sent after a change of permissions by those to which
\* permissions matter: download, preview and thumbnail. To learn of the file by
\* /access, API.md asks for no permission, and neither does the code.
RightsHeld ==
  \A g \in Visitors :
    Answering(g) =>
      /\ visit[g].kind # "verify" => since[g] = Rights
      /\ visit[g].kind = "verify" => {"valid", "owner"} \subseteq since[g]
      /\ visit[g].kind # "verify" => Addressed(Caller[g], visit[g].row)

\* The owner has been told of exactly the views and downloads the log holds as
\* successful, although the log may not be written, or the share be gone, when
\* all the checks are passed.
NoticesMatchLog ==
  \A h \in Shares :
    share[h] # None =>
      notices[h] = Cardinality({i \in DOMAIN log[h] :
                      /\ log[h][i].done /\ log[h][i].ok
                      /\ log[h][i].action # "password_verify"})

\* A receipt is evidence: on a share with a password it shows only visits of a
\* recipient who had given the password.
ReceiptsEarned ==
  \A h \in Shares, a \in Visited :
    share[h] # None /\ share[h].locked /\ Receipt(h, a) # 0 =>
      <<share[h].to, h>> \in proven

\* A receipt that stands when the recipient has every answer is never moved
\* again while the share exists, neither by later visits ("Subsequent
\* views/downloads do not overwrite the earliest timestamp",
\* tests/test_shares.py:606) nor by earlier ones that overlapped and committed
\* in another order than their timestamps. Before that it may: see Flush.
ReceiptsFinal ==
  \A h \in Shares, a \in Visited :
    share[h] # None /\ shown[h][a] # 0 => Receipt(h, a) = shown[h][a]
=============================================================================
