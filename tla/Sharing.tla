------------------------------- MODULE Sharing -------------------------------
(***************************************************************************)
(* Share links over the file store: creating, patching and revoking them   *)
(* and serving a file through them (app/shares/routes.py), composed with   *)
(* FileStorage, whose version uploads, trash and purges change what a link *)
(* leads to while it is being served.                                      *)
(*                                                                         *)
(* Who may use a link (recipient, password, permissions, expiry) is left   *)
(* out here: a share is either revoked or not.                             *)
(***************************************************************************)
EXTENDS FileStorage, Sequences

CONSTANTS
  Shares,     \* share ids
  Clerks,     \* requests that manage shares, of the owners of the files
  Visitors,   \* requests that download through a share
  Unrevokes   \* whether owners send PATCH {"is_revoked": false}

ASSUME SharingAssumption ==
  /\ Unrevokes \in BOOLEAN
  /\ None \notin [file : Files, pin : 0 .. MaxVersion, revoked : BOOLEAN]

VARIABLES
  share,    \* table shares
  clerk,    \* local variables of share management requests
  visit,    \* local variables of downloads
  served    \* history: the last download each visitor was served

shareVars == <<share, clerk, visit, served>>

-----------------------------------------------------------------------------
\* pin = 0: no pinned_version, the link follows the latest version
ShareRow == [file : Files, pin : 0 .. MaxVersion, revoked : BOOLEAN]

ClerkVars ==
  [op : {"create", "patch", "delete"}, share : Shares, loaded : ShareRow,
   new : ShareRow]

VisitVars ==
  [at : {"found", "loaded", "pinned"}, share : Shares, row : ShareRow,
   path : Path \cup {None}, dek : Deks \cup {None}, floor : 0 .. MaxVersion]

ServedRow == [pin : 0 .. MaxVersion, floor : 0 .. MaxVersion, num : Nat]

LiveShares(f) ==
  {h \in Shares : share[h] # None /\ share[h].file = f /\ ~share[h].revoked}

\* {v.version_number for v in file.versions} or {1}
Numbers(f) ==
  IF VersionsOf(f) = {} THEN {1} ELSE {v.num : v \in VersionsOf(f)}

PinUnchecked(f, n) == n \in 0 .. MaxVersion     \* mutant: any number will do

CanPin(f, n) == n = 0 \/ n \in Numbers(f)

\* The highest number a reader of the database finds, and the number under
\* which it finds a content.
Latest(f) == Len(History[f])

NumberOf(f, d) == CHOOSE n \in 1 .. Latest(f) : History[f][n] = d

SharingInit ==
  /\ Init
  /\ share = [h \in Shares |-> None]
  /\ clerk = [q \in Clerks |-> None]
  /\ visit = [g \in Visitors |-> None]
  /\ served = [g \in Visitors |-> None]

(******************* POST /api/files/<id>/share ****************************)
\* The file, its trash mark and the pinned number are looked at now, for a row
\* whose id no request holds ...
CreateCheck(q, h, f, n) ==
  LET row == [file |-> f, pin |-> n, revoked |-> FALSE]
  IN  /\ clerk[q] = None
      /\ share[h] = None
      /\ \A p \in Clerks : clerk[p] # None => clerk[p].share # h
      /\ \A g \in Visitors : visit[g] # None => visit[g].share # h
      /\ f \in Stored /\ ~file[f].trashed
      /\ CanPin(f, n)
      /\ clerk' = [clerk EXCEPT ![q] =
                     [op |-> "create", share |-> h, loaded |-> row, new |-> row]]
      /\ UNCHANGED <<vars, share, visit, served>>

\* ... and the row inserted later; only the foreign key is checked again.
CreateCommit(q) ==
  LET c == clerk[q]
  IN  /\ c # None /\ c.op = "create"
      /\ share' = IF c.new.file \in Stored
                  THEN [share EXCEPT ![c.share] = c.new] ELSE share
      /\ clerk' = [clerk EXCEPT ![q] = None]
      /\ UNCHANGED <<vars, visit, served>>

(************** PATCH and DELETE /api/shares/<share_id> ********************)
\* The row is loaded and changed in the session.
EditLoad(q, h, op, new) ==
  /\ clerk[q] = None
  /\ share[h] # None
  /\ clerk' = [clerk EXCEPT ![q] =
                 [op |-> op, share |-> h, loaded |-> share[h], new |-> new]]
  /\ UNCHANGED <<vars, share, visit, served>>

Patch(q, h) ==
  \E n \in 0 .. MaxVersion, b \in BOOLEAN :
    /\ share[h] # None
    /\ CanPin(share[h].file, n)
    /\ b \/ Unrevokes \/ ~share[h].revoked
    /\ EditLoad(q, h, "patch", [share[h] EXCEPT !.pin = n, !.revoked = b])

Revoke(q, h) ==
  /\ share[h] # None
  /\ EditLoad(q, h, "delete", [share[h] EXCEPT !.revoked = TRUE])

\* The UPDATE names the columns that differ from what was loaded.
Changed(loaded, new, stored) == IF new # loaded THEN new ELSE stored

EditCommit(q) ==
  LET c == clerk[q]
  IN  /\ c # None /\ c.op \in {"patch", "delete"}
      /\ share' =
           IF share[c.share] = None THEN share
           ELSE [share EXCEPT
                   ![c.share].pin = Changed(c.loaded.pin, c.new.pin, @),
                   ![c.share].revoked =
                      Changed(c.loaded.revoked, c.new.revoked, @)]
      /\ clerk' = [clerk EXCEPT ![q] = None]
      /\ UNCHANGED <<vars, visit, served>>

(******************* GET /api/shares/<token>/download **********************)
VisitFind(g, h) ==
  /\ visit[g] = None
  /\ share[h] # None /\ ~share[h].revoked
  /\ visit' = [visit EXCEPT ![g] =
                 [at |-> "found", share |-> h, row |-> share[h], path |-> None,
                  dek |-> None, floor |-> Latest(share[h].file)]]
  /\ UNCHANGED <<vars, share, clerk, served>>

VisitEnd(g) == visit' = [visit EXCEPT ![g] = None]

\* share.file is loaded on first use: the latest blob is the default ...
VisitFile(g) ==
  LET f == visit[g].row.file
  IN  /\ visit[g] # None /\ visit[g].at = "found"
      /\ IF f \in Stored
         THEN visit' = [visit EXCEPT ![g].at = "loaded", ![g].path = file[f].blob,
                                     ![g].dek = file[f].dek]
         ELSE VisitEnd(g)
      /\ UNCHANGED <<vars, share, clerk, served>>

\* mutant: without a pin the first row found is taken
PinnedOrFirst(row) ==
  {v \in VersionsOf(row.file) : v.num = IF row.pin = 0 THEN 1 ELSE row.pin}

PinnedRows(row) == {v \in VersionsOf(row.file) : v.num = row.pin}

\* ... which the row of the pinned version replaces, if there is one.
VisitPin(g) ==
  LET w == visit[g]
      pinned == PinnedRows(w.row)
  IN  /\ w # None /\ w.at = "loaded"
      /\ visit' =
           IF pinned = {} THEN [visit EXCEPT ![g].at = "pinned"]
           ELSE [visit EXCEPT ![g].at = "pinned",
                              ![g].path = (CHOOSE v \in pinned : TRUE).path,
                              ![g].dek = (CHOOSE v \in pinned : TRUE).dek]
      /\ UNCHANGED <<vars, share, clerk, served>>

\* Decrypt, log the access (the log row references the share) and answer.
VisitServe(g) ==
  LET w == visit[g]
      f == w.row.file
  IN  /\ w # None /\ w.at = "pinned"
      /\ VisitEnd(g)
      /\ served' =
           IF disk[w.path] = w.dek /\ share[w.share] # None
           THEN [served EXCEPT ![g] =
                   [pin |-> w.row.pin, floor |-> w.floor,
                    num |-> NumberOf(f, w.dek)]]
           ELSE served
      /\ UNCHANGED <<vars, share, clerk>>

(*********************** the file store below ******************************)
RevokedAll(f) ==
  [h \in Shares |->
     IF h \in LiveShares(f) THEN [share[h] EXCEPT !.revoked = TRUE] ELSE share[h]]

\* delete_file revokes the active shares in the same transaction.
SoftDeleteShared(r, f) ==
  /\ SoftDelete(r, f)
  /\ share' = RevokedAll(f)
  /\ UNCHANGED <<clerk, visit, served>>

\* mutant: the shares of a purged file keep their rows
SharesKept(fs) == share

SharesWithout(fs) ==
  [h \in Shares |->
     IF share[h] # None /\ share[h].file \in fs THEN None ELSE share[h]]

\* Purging a file revokes its shares in a transaction that then deletes them.
PurgeCommitShared(r) ==
  /\ share' = SharesWithout(pg[r].gone)
  /\ PurgeCommit(r)
  /\ UNCHANGED <<clerk, visit, served>>

StorageStep(r) ==
  \/ Upload(r) \/ UploadVersion(r) \/ Fail(r)
  \/ \E f \in Files : BackfillFirst(r, f) \/ Restore(r, f)
  \/ \E fs \in SUBSET Files : PurgeBegin(r, fs)
  \/ \E f \in Files : PurgeLoad(r, f) \/ PurgeSkip(r, f)
  \/ \E p \in Path : PurgeUnlink(r, p)

SharingNext ==
  \/ \E r \in Requests :
       \/ StorageStep(r) /\ UNCHANGED shareVars
       \/ \E f \in Files : SoftDeleteShared(r, f)
       \/ PurgeCommitShared(r)
  \/ \E q \in Clerks :
       \/ \E h \in Shares, f \in Files, n \in 0 .. MaxVersion :
            CreateCheck(q, h, f, n)
       \/ \E h \in Shares : Patch(q, h) \/ Revoke(q, h)
       \/ CreateCommit(q) \/ EditCommit(q)
  \/ \E g \in Visitors :
       \/ \E h \in Shares : VisitFind(g, h)
       \/ VisitFile(g) \/ VisitPin(g) \/ VisitServe(g)

SharingSpec == SharingInit /\ [][SharingNext]_<<vars, shareVars>>

-----------------------------------------------------------------------------
SharingTypeOK ==
  /\ TypeOK
  /\ share \in [Shares -> ShareRow \cup {None}]
  /\ clerk \in [Clerks -> ClerkVars \cup {None}]
  /\ visit \in [Visitors -> VisitVars \cup {None}]
  /\ served \in [Visitors -> ServedRow \cup {None}]

\* A download through a pinned share is that version and no other, even on a
\* legacy file whose version rows are inserted, or a file that is purged, while
\* the download is under way and falls back to the files row.
PinnedServesPinned ==
  \A g \in Visitors :
    served[g] # None /\ served[g].pin # 0 => served[g].num = served[g].pin

\* A download through an unpinned share is a version that was the latest when
\* the download began or became so since.
UnpinnedServesLatest ==
  \A g \in Visitors :
    served[g] # None /\ served[g].pin = 0 => served[g].num >= served[g].floor

\* A download that has picked its path and its key can decrypt, whatever happens
\* to the file before it opens the path, until a purge takes the file up.  An
\* upload of a version moves the files row on to a new path meanwhile; two of
\* them at a time may write one path twice.
VisitsReadable ==
  \A g \in Visitors :
    LET w == visit[g]
    IN  w # None /\ w.at # "found" /\ w.row.file \in Stored \ condemned =>
          disk[w.path] = w.dek

\* A share can always be pinned to what its file has: every pinned number is a
\* version of the file, and every share has its file.
PinsExist ==
  \A h \in Shares :
    share[h] # None =>
      /\ share[h].file \in Stored
      /\ CanPin(share[h].file, share[h].pin)

\* A file in the trash has no active share ("soft-deletes the file by setting
\* deleted_at and revoking active shares").
TrashedHasNoLiveShare ==
  \A f \in Stored : file[f].trashed => LiveShares(f) = {}
=============================================================================
