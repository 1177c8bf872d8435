----------------------------- MODULE FileStorage -----------------------------
(***************************************************************************)
(* The encrypted file store: rows of files and file_versions in the        *)
(* database, one ciphertext per path under UPLOAD_FOLDER, and the requests *)
(* that write both (app/files/routes.py) next to the purge job             *)
(* (scripts/cleanup_expired_files.py).                                     *)
(*                                                                         *)
(* The database and the disk are written at different moments of a         *)
(* handler and no lock spans the two, so each handler is cut at the points *)
(* where it reads or writes one of them; pc says how far a request is.  A  *)
(* ciphertext is named by the data-encryption key it was made with: a path *)
(* decrypts for a row exactly when the row's dek is the one on the disk    *)
(* (AES-GCM refuses any other).                                            *)
(***************************************************************************)
EXTENDS Integers, FiniteSets, FiniteSetsExt

CONSTANTS
  Users,        \* account ids
  Requests,     \* requests in service: worker processes, and runs of the purge job
  Owner,        \* the account each request is authenticated as
  Janitors,     \* the requests that are runs of the purge job
  Files,        \* the uuid4 values uploads may draw
  Legacy,       \* files stored before version rows existed
  Expiring,     \* files that carry an auto_delete_at
  Deks,         \* data-encryption keys, one per encrypt_file() call
  LegacyDek,    \* the keys of the legacy files
  LegacyOwner,  \* the owners of the legacy files
  Sizes,        \* plaintext sizes in bytes
  Quota,        \* storage_quota_bytes of each account, or Unlimited
  MaxVersion,   \* BOUND: version numbers considered
  Faults,       \* whether requests may die half-way and unlink may fail
  Unlimited,    \* storage_quota_bytes is NULL
  None          \* no row, no blob, not set

ASSUME FileStorageAssumption ==
  /\ Owner \in [Requests -> Users]
  /\ Janitors \subseteq Requests
  /\ Legacy \subseteq Files
  /\ Expiring \subseteq Files
  /\ LegacyDek \in [Legacy -> Deks]
  /\ \A f, g \in Legacy : LegacyDek[f] = LegacyDek[g] => f = g
  /\ LegacyOwner \in [Legacy -> Users]
  /\ Sizes \subseteq Nat \ {0} /\ Sizes # {}
  /\ Quota \in [Users -> Nat \cup {Unlimited}]
  /\ Unlimited \notin Nat
  /\ MaxVersion \in Nat \ {0}
  /\ Faults \in BOOLEAN
  /\ None \notin Deks \cup Files
  /\ None \notin [owner : Users, size : Sizes, blob : Files \X (0 .. MaxVersion),
                  dek : Deks, trashed : BOOLEAN]

ASSUME NoneIsNoHistory == \A n \in 1 .. MaxVersion : None \notin [1 .. n -> Deks]

\* A database table has finitely many rows.
ASSUME LegacyFinite == IsFiniteSet(Legacy)

VARIABLES
  file,       \* table files, by id
  versions,   \* table file_versions, a set of rows
  disk,       \* UPLOAD_FOLDER: path -> ciphertext
  issued,     \* ids and keys drawn so far (uuid4 and os.urandom never repeat)
  pc,         \* how far each request is
  up,         \* local variables of an upload
  pg,         \* local variables of a purge
  condemned,  \* history: files a purge has begun to unlink
  mishap      \* history: whether a request has failed half-way, or a purge
              \* and the upload of a version have met at one file

vars == <<file, versions, disk, issued, pc, up, pg, condemned, mishap>>

-----------------------------------------------------------------------------
UploadPcs == {"u_checked", "u_written"}
VersionPcs == {"v_loaded", "v_planned", "v_written"}
PurgePcs == {"purging", "unlinking"}
InService == UploadPcs \cup VersionPcs \cup PurgePcs

Path == Files \X (0 .. MaxVersion)

\* {id}.enc
BasePath(f) == <<f, 0>>

VersionPathIsBase(f, n) == BasePath(f)   \* mutant: one name for every version

\* {id}_v{n}.enc, n >= 2
VersionPath(f, n) == <<f, n>>

FileRow ==
  [owner : Users, size : Sizes, blob : Path, dek : Deks, trashed : BOOLEAN]

VersionRow ==
  [file : Files, num : 1 .. MaxVersion, path : Path, dek : Deks, size : Sizes]

UploadVars ==
  [file : Files \cup {None}, size : Sizes \cup {0}, seen : Sizes \cup {0},
   num : 0 .. MaxVersion, dek : Deks \cup {None}, backfill : BOOLEAN]

NoUpload ==
  [file |-> None, size |-> 0, seen |-> 0, num |-> 0, dek |-> None,
   backfill |-> FALSE]

PurgeVars == [todo : SUBSET Files, gone : SUBSET Files, paths : SUBSET Path]

NoPurge == [todo |-> {}, gone |-> {}, paths |-> {}]

Stored == {f \in Files : file[f] # None}

VersionsOf(f) == {v \in versions : v.file = f}

RowNumbers(f) == {v.num : v \in VersionsOf(f)}

\* max(v.version_number for v in file.versions) + 1; the first version of a
\* file without version rows is the one in its files row
NextNumber(f, n) ==
  \/ VersionsOf(f) = {} /\ n = 2
  \/ n - 1 \in RowNumbers(f) /\ \A k \in RowNumbers(f) : k < n

\* mutant: the sum skips the trash
StorageUsedLive(u) ==
  MapThenSumSet(LAMBDA f : file[f].size,
                {f \in Stored : file[f].owner = u /\ ~file[f].trashed})

\* SUM(files.size_bytes) over an owner's rows, the trashed ones included
StorageUsed(u) ==
  MapThenSumSet(LAMBDA f : file[f].size, {f \in Stored : file[f].owner = u})

WithinQuota(u, bytes) == Quota[u] # Unlimited => bytes <= Quota[u]

FirstVersion(f, row) ==
  [file |-> f, num |-> 1, path |-> row.blob, dek |-> row.dek, size |-> row.size]

\* a request holds the unique index entry of version 1 from its flush on
BackfillPending(f) ==
  \E r \in Requests : pc[r] \in {"v_planned", "v_written"}
                      /\ up[r].file = f /\ up[r].backfill

\* For the history only: who else is at work on a file.
BeingWritten(f) ==
  \E q \in Requests : pc[q] \in {"v_planned", "v_written"} /\ up[q].file = f

BeingPurged(f) == \E q \in Requests : pc[q] \in PurgePcs /\ f \in pg[q].gone

-----------------------------------------------------------------------------
Init ==
  /\ \E s \in [Legacy -> Sizes] :
       file = [f \in Files |->
                IF f \in Legacy
                THEN [owner |-> LegacyOwner[f], size |-> s[f],
                      blob |-> BasePath(f), dek |-> LegacyDek[f],
                      trashed |-> FALSE]
                ELSE None]
  /\ versions = {}
  /\ disk = [p \in Path |->
               IF p[1] \in Legacy /\ p[2] = 0 THEN LegacyDek[p[1]] ELSE None]
  /\ issued = [ids |-> Legacy, deks |-> {LegacyDek[f] : f \in Legacy}]
  /\ pc = [r \in Requests |-> "idle"]
  /\ up = [r \in Requests |-> NoUpload]
  /\ pg = [r \in Requests |-> NoPurge]
  /\ condemned = {}
  /\ mishap = FALSE

Begin(r, from, to) == pc[r] = from /\ pc' = [pc EXCEPT ![r] = to]

\* The handler returns; its local variables go out of scope.
End(r, from) ==
  /\ Begin(r, from, "idle")
  /\ up' = [up EXCEPT ![r] = NoUpload]
  /\ pg' = [pg EXCEPT ![r] = NoPurge]

IsUser(r) == r \notin Janitors

Owns(r, f) == f \in Stored /\ file[f].owner = Owner[r]

(*************************** POST /api/files *******************************)
\* Scan and quota check; the sum is read now and not again before the commit.
UploadCheck(r, s) ==
  /\ IsUser(r)
  /\ Begin(r, "idle", "u_checked")
  /\ WithinQuota(Owner[r], StorageUsed(Owner[r]) + s)
  /\ up' = [up EXCEPT ![r].size = s]
  /\ UNCHANGED <<file, versions, disk, issued, pg, condemned, mishap>>

\* Encrypt under a fresh key and write {id}.enc.
UploadWrite(r, f, d) ==
  /\ Begin(r, "u_checked", "u_written")
  /\ f \notin issued.ids /\ d \notin issued.deks
  /\ issued' = [ids |-> issued.ids \cup {f}, deks |-> issued.deks \cup {d}]
  /\ disk' = [disk EXCEPT ![BasePath(f)] = d]
  /\ up' = [up EXCEPT ![r].file = f, ![r].dek = d]
  /\ UNCHANGED <<file, versions, pg, condemned, mishap>>

\* One transaction inserts the files row and its version 1.
UploadCommit(r) ==
  LET f == up[r].file
      row == [owner |-> Owner[r], size |-> up[r].size, blob |-> BasePath(f),
              dek |-> up[r].dek, trashed |-> FALSE]
  IN  /\ End(r, "u_written")
      /\ file' = [file EXCEPT ![f] = row]
      /\ versions' = versions \cup {FirstVersion(f, row)}
      /\ UNCHANGED <<disk, issued, condemned, mishap>>

(******************** POST /api/files/<id>/versions ************************)
\* Load the files row; the session keeps these column values until it commits.
VersionLoad(r, f, s) ==
  /\ IsUser(r)
  /\ Begin(r, "idle", "v_loaded")
  /\ Owns(r, f) /\ ~file[f].trashed
  /\ up' = [up EXCEPT ![r].file = f, ![r].size = s, ![r].seen = file[f].size]
  /\ UNCHANGED <<file, versions, disk, issued, pg, condemned, mishap>>

\* After the body is read and scanned: quota check, then the version rows are
\* loaded and the next number chosen, inserting version 1 if there is none.
VersionPlan(r) ==
  LET f == up[r].file
  IN  /\ Begin(r, "v_loaded", "v_planned")
      /\ f \in Stored
      /\ WithinQuota(Owner[r], StorageUsed(Owner[r]) - up[r].seen + up[r].size)
      /\ VersionsOf(f) = {} => ~BackfillPending(f)
      /\ \E n \in 2 .. MaxVersion :
           /\ NextNumber(f, n)
           /\ up' = [up EXCEPT ![r].num = n,
                              ![r].backfill = (VersionsOf(f) = {})]
      /\ mishap' = (mishap \/ BeingPurged(f))
      /\ UNCHANGED <<file, versions, disk, issued, pg, condemned>>

\* Quota exceeded, or the files row went away since it was loaded.
VersionReject(r) ==
  LET f == up[r].file
  IN  /\ End(r, "v_loaded")
      /\ \/ f \notin Stored
         \/ ~WithinQuota(Owner[r],
                         StorageUsed(Owner[r]) - up[r].seen + up[r].size)
      /\ UNCHANGED <<file, versions, disk, issued, condemned, mishap>>

\* open(..., "wb") on a name made of the file id and the planned number.
VersionWrite(r, d) ==
  /\ Begin(r, "v_planned", "v_written")
  /\ d \notin issued.deks
  /\ issued' = [issued EXCEPT !.deks = @ \cup {d}]
  /\ disk' = [disk EXCEPT ![VersionPath(up[r].file, up[r].num)] = d]
  /\ up' = [up EXCEPT ![r].dek = d]
  /\ UNCHANGED <<file, versions, pg, condemned, mishap>>

NumberNeverTaken(f, n) == FALSE          \* mutant: no unique constraint

\* uq_file_version_number
NumberTaken(f, n) == n \in RowNumbers(f)

\* mutant: the row keeps its old key
LatestRowStaleKey(row, v, seen) == [row EXCEPT !.blob = v.path, !.size = v.size]

\* mutant: the size is left alone
LatestRowOldSize(row, v, seen) == [row EXCEPT !.blob = v.path, !.dek = v.dek]

\* The UPDATE of the files row names a column only if its new value differs
\* from the value the session loaded; path and key always differ.
LatestRow(row, v, seen) ==
  [row EXCEPT !.blob = v.path, !.dek = v.dek,
              !.size = IF v.size # seen THEN v.size ELSE @]

VersionCommit(r) ==
  LET f == up[r].file
      v == [file |-> f, num |-> up[r].num,
            path |-> VersionPath(f, up[r].num), dek |-> up[r].dek,
            size |-> up[r].size]
      first == IF up[r].backfill THEN {FirstVersion(f, file[f])} ELSE {}
  IN  /\ End(r, "v_written")
      /\ f \in Stored /\ ~NumberTaken(f, up[r].num)
      /\ up[r].backfill => ~NumberTaken(f, 1)
      /\ versions' = versions \cup first \cup {v}
      /\ file' = [file EXCEPT ![f] = LatestRow(@, v, up[r].seen)]
      /\ UNCHANGED <<disk, issued, condemned, mishap>>

\* mutant: the loser tidies up the path it wrote
VersionConflictUnlinks(r) ==
  LET f == up[r].file
  IN  /\ End(r, "v_written")
      /\ f \notin Stored \/ NumberTaken(f, up[r].num)
      /\ disk' = [disk EXCEPT ![VersionPath(f, up[r].num)] = None]
      /\ UNCHANGED <<file, versions, issued, condemned, mishap>>

\* The row is gone or the number taken: the transaction rolls back, the blob
\* that was written stays.
VersionConflict(r) ==
  LET f == up[r].file
  IN  /\ End(r, "v_written")
      /\ \/ f \notin Stored
         \/ NumberTaken(f, up[r].num)
         \/ up[r].backfill /\ NumberTaken(f, 1)
      /\ UNCHANGED <<file, versions, disk, issued, condemned, mishap>>

(******************** GET /api/files/<id>/versions *************************)
\* Reading the versions of a legacy file inserts its version 1.
BackfillFirst(r, f) ==
  /\ IsUser(r) /\ pc[r] = "idle"
  /\ Owns(r, f) /\ VersionsOf(f) = {} /\ ~BackfillPending(f)
  /\ versions' = versions \cup {FirstVersion(f, file[f])}
  /\ UNCHANGED <<file, disk, issued, pc, up, pg, condemned, mishap>>

(************** DELETE /api/files/<id>, POST .../restore *******************)
SoftDelete(r, f) ==
  /\ IsUser(r) /\ pc[r] = "idle"
  /\ Owns(r, f)
  /\ file' = [file EXCEPT ![f].trashed = TRUE]
  /\ UNCHANGED <<versions, disk, issued, pc, up, pg, condemned, mishap>>

Restore(r, f) ==
  /\ IsUser(r) /\ pc[r] = "idle"
  /\ Owns(r, f) /\ file[f].trashed
  /\ file' = [file EXCEPT ![f].trashed = FALSE]
  /\ UNCHANGED <<versions, disk, issued, pc, up, pg, condemned, mishap>>

(**** DELETE ?permanent=true, POST .../bulk/delete, the purge job **********)
\* The retention period, or auto_delete_at, is over.
Due(f) == f \in Stored /\ (file[f].trashed \/ f \in Expiring)

\* What a purge may pick: an owner any of her files, the job what is due.
Purgeable(r, f) == IF IsUser(r) THEN Owns(r, f) ELSE Due(f)

PurgeBegin(r, fs) ==
  /\ Begin(r, "idle", "purging")
  /\ fs # {} /\ \A f \in fs : Purgeable(r, f)
  /\ pg' = [pg EXCEPT ![r] = [NoPurge EXCEPT !.todo = fs]]
  /\ UNCHANGED <<file, versions, disk, issued, up, condemned, mishap>>

PurgePathsLatest(f) == {file[f].blob}    \* mutant: older versions forgotten

\* file.encrypted_path and the encrypted_path of every version
PurgePaths(f) == {file[f].blob} \cup {v.path : v \in VersionsOf(f)}

\* Take up the next file: collect the paths its rows name.
PurgeLoad(r, f) ==
  /\ Begin(r, "purging", "unlinking")
  /\ f \in pg[r].todo /\ f \in Stored
  /\ pg' = [pg EXCEPT ![r] =
              [todo |-> @.todo \ {f}, gone |-> @.gone \cup {f},
               paths |-> PurgePaths(f)]]
  /\ condemned' = condemned \cup {f}
  /\ mishap' = (mishap \/ BeingWritten(f))
  /\ UNCHANGED <<file, versions, disk, issued, up>>

\* The file was purged by another request meanwhile.
PurgeSkip(r, f) ==
  /\ pc[r] = "purging"
  /\ f \in pg[r].todo \ Stored
  /\ pg' = [pg EXCEPT ![r].todo = @ \ {f}]
  /\ UNCHANGED <<file, versions, disk, issued, pc, up, condemned, mishap>>

\* mutant: a path without a blob stops the purge
PurgeUnlinkRaises(r, p) ==
  /\ pc[r] = "unlinking" /\ p \in pg[r].paths
  /\ disk[p] # None
  /\ disk' = [disk EXCEPT ![p] = None]
  /\ pg' = [pg EXCEPT ![r].paths = @ \ {p}]
  /\ pc' = IF pg[r].paths = {p} THEN [pc EXCEPT ![r] = "purging"] ELSE pc
  /\ UNCHANGED <<file, versions, issued, up, condemned, mishap>>

\* os.remove of one path, if it is there; an OSError is swallowed and the blob
\* stays.
PurgeUnlink(r, p) ==
  /\ pc[r] = "unlinking" /\ p \in pg[r].paths
  /\ \/ disk' = [disk EXCEPT ![p] = None] /\ mishap' = mishap
     \/ Faults /\ disk' = disk /\ mishap' = TRUE
  /\ pg' = [pg EXCEPT ![r].paths = @ \ {p}]
  /\ pc' = IF pg[r].paths = {p} THEN [pc EXCEPT ![r] = "purging"] ELSE pc
  /\ UNCHANGED <<file, versions, issued, up, condemned>>

\* mutant: only the version rows go
PurgeCommitKeepsRow(r) ==
  /\ End(r, "purging")
  /\ pg[r].todo = {}
  /\ versions' = {v \in versions : v.file \notin pg[r].gone}
  /\ UNCHANGED <<file, disk, issued, condemned, mishap>>

\* The one commit of the purge: rows go, version rows cascade.
PurgeCommit(r) ==
  LET gone == pg[r].gone
  IN  /\ End(r, "purging")
      /\ pg[r].todo = {}
      /\ file' = [f \in Files |-> IF f \in gone THEN None ELSE file[f]]
      /\ versions' = {v \in versions : v.file \notin gone}
      /\ UNCHANGED <<disk, issued, condemned, mishap>>

(***************************************************************************)
(* A worker is killed, the database refuses a statement, the purge job     *)
(* raises: the open transaction is rolled back, the disk keeps what it got.*)
(***************************************************************************)
Fail(r) ==
  /\ Faults
  /\ \E at \in InService : End(r, at)
  /\ mishap' = TRUE
  /\ UNCHANGED <<file, versions, disk, issued, condemned>>

-----------------------------------------------------------------------------
Upload(r) ==
  \/ \E s \in Sizes : UploadCheck(r, s)
  \/ \E f \in Files, d \in Deks : UploadWrite(r, f, d)
  \/ UploadCommit(r)

UploadVersion(r) ==
  \/ \E f \in Files, s \in Sizes : VersionLoad(r, f, s)
  \/ VersionPlan(r)
  \/ VersionReject(r)
  \/ \E d \in Deks : VersionWrite(r, d)
  \/ VersionCommit(r)
  \/ VersionConflict(r)

TrashOrRead(r) ==
  \E f \in Files : BackfillFirst(r, f) \/ SoftDelete(r, f) \/ Restore(r, f)

PurgeStep(r) ==
  \/ \E f \in Files : PurgeLoad(r, f) \/ PurgeSkip(r, f)
  \/ \E p \in Path : PurgeUnlink(r, p)
  \/ PurgeCommit(r)

Purge(r) == (\E fs \in SUBSET Files : PurgeBegin(r, fs)) \/ PurgeStep(r)

Next ==
  \E r \in Requests :
    Upload(r) \/ UploadVersion(r) \/ TrashOrRead(r) \/ Purge(r) \/ Fail(r)

Spec == Init /\ [][Next]_vars

\* A run of the job goes on until it ends or dies; a user's purge need not.
\* The job is started again and again (DEPLOYMENT.md:182), and takes up every
\* file that is due by then: one that stays due is not passed over for ever.
FairSpec ==
  /\ Spec
  /\ \A r \in Janitors : WF_vars(PurgeStep(r))
  /\ \A r \in Janitors, f \in Files :
       SF_vars(\E fs \in SUBSET Files : f \in fs /\ PurgeBegin(r, fs))

-----------------------------------------------------------------------------
\* The history a reader of the database sees; a legacy file without version
\* rows is a history of its one blob.
History ==
  [f \in Files |->
     IF f \notin Stored THEN None
     ELSE IF VersionsOf(f) = {} THEN <<file[f].dek>>
     ELSE [n \in RowNumbers(f) |->
             (CHOOSE v \in VersionsOf(f) : v.num = n).dek]]

Log == INSTANCE VersionLog
         WITH Contents <- Deks, Absent <- None, log <- History

\* The rows implement an append-only log per file: no interleaving of uploads,
\* backfills, purges and crashes rewrites, skips or reorders a version.
ImplementsVersionLog == Log!Spec

TypeOK ==
  /\ file \in [Files -> FileRow \cup {None}]
  /\ versions \subseteq VersionRow
  /\ disk \in [Path -> Deks \cup {None}]
  /\ issued \in [ids : SUBSET Files, deks : SUBSET Deks]
  /\ pc \in [Requests -> {"idle"} \cup InService]
  /\ up \in [Requests -> UploadVars]
  /\ pg \in [Requests -> PurgeVars]
  /\ condemned \subseteq Files
  /\ mishap \in BOOLEAN

\* The version numbers of a file are 1..n without gap or repetition, however
\* uploads of versions race: the number is read long before it is inserted, and
\* only uq_file_version_number stands between two requests that read the same.
VersionsContiguous ==
  /\ \A v, w \in versions : v.file = w.file /\ v.num = w.num => v = w
  /\ \A v \in versions : 1 .. v.num \subseteq RowNumbers(v.file)

\* The files row always names the blob and the key of its highest version, so a
\* download of the file and a download of its latest version are the same bytes.
RowNamesLatest ==
  \A v \in versions :
    /\ v.file \in Stored
    /\ \/ \E w \in VersionsOf(v.file) : w.num > v.num
       \/ file[v.file].blob = v.path /\ file[v.file].dek = v.dek

\* A committed version whose file no purge has touched still has a blob under
\* its path, whatever other requests of the file fail, conflict or crash.
BlobPresent ==
  \A v \in versions : v.file \notin condemned => disk[v.path] # None

\* Version 1 decrypts until a purge: no later upload can reach its path.
FirstVersionReadable ==
  \A v \in versions :
    v.num = 1 /\ v.file \notin condemned => disk[v.path] = v.dek

\* Every committed version decrypts with the key of its row until a purge.
\* Two concurrent uploads of a version write the same path (API.md calls a
\* version a share is pinned to "immutable"), so this needs sequential clients.
VersionsReadable ==
  \A v \in versions : v.file \notin condemned => disk[v.path] = v.dek

\* As long as no request failed half-way, and no purge met the upload of a
\* version, no ciphertext is left without a row: each blob is named by a files or
\* a versions row, or is the one a request has written and not yet committed.
\* Uploads that race for a number, or are refused, two purges of one file, and the
\* job beside its owner leave nothing behind.
NoOrphanBlob ==
  ~mishap => \A p \in Path : disk[p] # None =>
    \/ \E v \in versions : v.path = p
    \/ \E f \in Stored : file[f].blob = p
    \/ \E r \in Requests :
         \/ pc[r] = "u_written" /\ p = BasePath(up[r].file)
         \/ pc[r] = "v_written" /\ p = VersionPath(up[r].file, up[r].num)

\* An account's stored bytes stay within its quota: uploads that would exceed
\* it are refused with 413.
QuotaRespected == \A u \in Users : WithinQuota(u, StorageUsed(u))

\* The size a file is listed and charged with is that of its latest version,
\* although it is written only if it differs from one read before the body.
RowSizeIsLatest ==
  \A v \in versions :
    \/ \E w \in VersionsOf(v.file) : w.num > v.num
    \/ file[v.file].size = v.size

\* A run of the job fails, and its deletes are rolled back.
RunFails ==
  \E r \in Janitors : pg[r].todo \cup pg[r].gone # {} /\ Fail(r)

\* If some run of the job does not fail, a file that is due loses its row or is
\* restored, also when earlier runs and requests, or others at this moment, have
\* unlinked its blobs and failed to delete its row: nothing that a purge leaves
\* behind half-way stops the next.
DuePurged ==
  <>[][~RunFails]_vars => \A f \in Files : Due(f) ~> ~Due(f)

=============================================================================
