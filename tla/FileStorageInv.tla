---------------------------- MODULE FileStorageInv ----------------------------
(***************************************************************************)
(* The inductive invariant of FileStorage: what ties the rows, the disk    *)
(* and the locals of the requests together between two steps.              *)
(***************************************************************************)
EXTENDS FileStorage

Writing == {"u_written"} \cup VersionPcs
Planned == {"v_planned", "v_written"}

\* An id is drawn once: the upload that holds it is the only one that knows it.
IdsInv ==
  /\ Stored \cup condemned \subseteq issued.ids
  /\ \A r \in Requests :
       /\ pc[r] \in Writing => up[r].file \in issued.ids
       /\ pc[r] = "u_written" =>
            /\ up[r].file \notin Stored \cup condemned
            /\ \A q \in Requests \ {r} :
                 pc[q] \in Writing => up[q].file # up[r].file

\* A planned number continues the rows its file still has.
PlansInv ==
  \A r \in Requests :
    pc[r] \in Planned /\ up[r].file \in Stored =>
      IF up[r].backfill THEN up[r].num = 2
      ELSE up[r].num - 1 \in RowNumbers(up[r].file)

RowsInv == VersionsContiguous /\ RowNamesLatest /\ PlansInv

\* A blob's path names its file, and the base path is version 1's alone.
PathsInv ==
  /\ \A f \in Stored : /\ file[f].blob[1] = f
                       /\ VersionsOf(f) = {} => file[f].blob = BasePath(f)
  /\ \A v \in versions :
       v.path = IF v.num = 1 THEN BasePath(v.file) ELSE VersionPath(v.file, v.num)
  /\ \A r \in Requests :
       pc[r] = "unlinking" => \A p \in pg[r].paths : p[1] \in condemned

\* What the disk holds for rows committed and about to be.
DiskInv ==
  /\ \A f \in Stored \ condemned :
       VersionsOf(f) = {} => disk[BasePath(f)] = file[f].dek
  /\ \A r \in Requests :
       /\ pc[r] = "u_written" => disk[BasePath(up[r].file)] = up[r].dek
       /\ pc[r] = "v_written" /\ up[r].file \notin condemned =>
            disk[VersionPath(up[r].file, up[r].num)] # None
  /\ BlobPresent /\ FirstVersionReadable

\* Together with the types of the variables these four are preserved by every
\* step; each safety invariant of FileStorage that survives concurrent requests
\* of one account is a consequence.
StoreInv == IdsInv /\ RowsInv /\ PathsInv /\ DiskInv
-----------------------------------------------------------------------------
(***************************************************************************)
(* What clients may refrain from.  The code enforces none of these; each is *)
(* a hypothesis under which more can be promised.                          *)
(***************************************************************************)
Loading == UploadPcs \cup VersionPcs

\* No file is sent two new versions at the same time.
OneUploader ==
  \A q, r \in Requests :
    pc[q] \in VersionPcs /\ pc[r] \in VersionPcs /\ up[q].file = up[r].file => q = r

\* No account has two uploads under way, of files or of versions.
OneSpender ==
  \A q, r \in Requests :
    pc[q] \in Loading /\ pc[r] \in Loading /\ Owner[q] = Owner[r] => q = r

\* No purge takes up a file that a version is being written for.
NoPurgeWhileWriting ==
  \A q, r \in Requests :
    pc[q] \in Planned /\ pc[r] \in PurgePcs => up[q].file \notin pg[r].gone

\* Every account waits for its response before it sends the next request.
OneRequestEach ==
  \A q, r \in Requests : IsUser(q) /\ IsUser(r) /\ Owner[q] = Owner[r] => q = r

(***************************************************************************)
(* The invariants that hold for any clients, and those that hold for such. *)
(***************************************************************************)
\* The files a request is about.
About(r) ==
  CASE pc[r] \in VersionPcs             -> {up[r].file}
    [] pc[r] \in PurgePcs /\ IsUser(r)  -> pg[r].todo \cup pg[r].gone
    [] OTHER                            -> {}

\* A file that two requests are about has, or had, one owner.
OwnersInv ==
  \A r \in Requests :
    /\ pc[r] \in Loading => IsUser(r)
    /\ \A f \in About(r) :
         /\ f \in issued.ids
         /\ f \in Stored => file[f].owner = Owner[r]
         /\ \A q \in Requests :
              /\ f \in About(q) => Owner[q] = Owner[r]
              /\ pc[q] = "u_written" => up[q].file # f

\* Who is to insert a file's version 1 is the only one to plan a version of it.
PendingInv ==
  \A r \in Requests :
    pc[r] \in Planned /\ up[r].backfill /\ up[r].file \in Stored =>
      /\ VersionsOf(up[r].file) = {}
      /\ \A q \in Requests \ {r} : pc[q] \in Planned => up[q].file # up[r].file

\* With one uploader: a planned number stays free, a written path unharmed.
ReadableInv ==
  /\ VersionsReadable
  /\ \A r \in Requests :
       /\ pc[r] \in Planned /\ up[r].file \in Stored =>
            up[r].num \notin RowNumbers(up[r].file)
       /\ pc[r] = "v_written" /\ up[r].file \notin condemned =>
            disk[VersionPath(up[r].file, up[r].num)] = up[r].dek

\* With one uploader: the size seen at the start is the size at the end.
SizeInv ==
  /\ RowSizeIsLatest
  /\ \A r \in Requests :
       pc[r] \in VersionPcs /\ up[r].file \in Stored =>
         up[r].seen = file[up[r].file].size

\* With one spender: what was checked against the quota still fits.
SpendInv ==
  /\ QuotaRespected
  /\ \A r \in Requests :
       /\ pc[r] \in UploadPcs =>
            WithinQuota(Owner[r], StorageUsed(Owner[r]) + up[r].size)
       /\ pc[r] \in Planned /\ up[r].file \in Stored =>
            WithinQuota(Owner[r], StorageUsed(Owner[r]) - file[up[r].file].size
                                    + up[r].size)

\* Without purges under a writer: a purge has collected every blob of its files.
OrphanInv ==
  /\ NoOrphanBlob
  /\ \A r \in Requests :
       /\ pc[r] \in Planned => up[r].file \in Stored
       /\ pc[r] \in PurgePcs => pg[r].gone \subseteq condemned
       /\ pc[r] = "purging" => pg[r].paths = {}
       /\ pc[r] \in PurgePcs /\ ~mishap =>
            \A p \in Path : p[1] \in pg[r].gone /\ disk[p] # None => p \in pg[r].paths

\* The history tells of every meeting of a purge and the upload of a version.
MishapInv == ~mishap => NoPurgeWhileWriting /\ OrphanInv
=============================================================================
