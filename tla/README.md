# Secure File Share: a TLA+ verification project

The repository is a Flask application (PostgreSQL through SQLAlchemy, blobs on
disk) that stores encrypted files with versions, shares them by link, accepts
resumable uploads and administers its users. This directory models the parts of
it whose correctness depends on the order in which requests run, checks the
models with TLC on small instances and proves the safety properties of eight
modules with TLAPS for every instance.

Two facts shape all the modules. Each request is served by a worker of its own
(gunicorn, DEPLOYMENT.md), the handlers take no row locks and PostgreSQL runs at
READ COMMITTED, so a handler is cut into steps at every point where it reads or
writes the database or the disk. And SQLAlchemy keeps the row a handler loaded
until its commit, when the UPDATE names only the columns that differ from what
was loaded; every module whose handlers edit a loaded row models that rule.

## Inventory

| Component | State | Operations | Interacts with | Hard part | What makes it correct |
|---|---|---|---|---|---|
| Encrypted file store (`app/files/routes.py`, `app/models/file*.py`) | tables `files`, `file_versions`; one ciphertext per path in `UPLOAD_FOLDER` | upload, upload of a version, version-1 backfill, trash, restore, permanent and bulk delete | chunked uploads end in it, shares read it, the retention job purges it | blob and row are written at different moments; the path of a version is planned before its number is taken | gapless versions, the row names the latest, every committed version decrypts, quota, no orphans |
| Retention job (`scripts/cleanup_expired_files.py`) | none of its own | purge what expired or lay in the trash too long | file store | blobs are unlinked file by file before one commit for all | a purged file loses its row too |
| Chunked uploads (`/uploads` in `app/files/routes.py`) | table `upload_sessions`; a staging directory per session | start, chunk, complete, sweep | complete calls the file store's finalize | retries, a second complete, a sweep or crash in the middle | one file per session, from whole chunks; exact count; nothing left behind |
| Share links (`app/shares/routes.py`) | table `shares`, `access_logs` | create, patch, revoke, access, verify password, download, preview, receipts | file store, notifications, webhooks | the file changes under a download; a share is created while its file is trashed | a pinned link serves its version; trash has no live link |
| Accounts and login (`app/auth/routes.py`) | table `users` | register, login by password and TOTP, Google or passkey, TOTP setup, enable, disable, change password | tokens, administration | several requests edit one row | MFA that is on is usable; a disable is not undone by accident |
| Tokens (`app/auth/decorators.py`, `personal_access_tokens`) | signed JWTs, PAT rows | authenticate, issue, revoke, expire | every endpoint | a token outlives a change of its account | a disabled account is rejected |
| Administration (`app/admin/routes.py`) | `users.is_active`, `disabled_at`, quota; audit rows | disable, enable, quota, listings, CSV | accounts | two admins at once; action and audit row are two commits | someone can always administer |
| Folders (`app/folders/routes.py`) | tree of `folders`, `files.folder_id` | create, list, delete with detach | bulk move | the ORM's cascade over a loaded tree and the database's own meet | no file is lost with its folder |
| Thumbnail cache (`app/files/thumbnail.py`) | ordered map of at most 128 entries with times | get, set, invalidate | thumbnail endpoint | LRU, bound and time to live under threads | a hit is a picture of the content asked for |
| Webhooks (`app/webhooks`) | table `webhooks`, threads | register, dispatch, send | shares | dispatch before commit, daemon threads | an event reports something that was committed |
| Notifications, tags, pagination, scanner, encryption, configuration, API docs, front end, scripts | see PROJECT.json | | | no behaviour over several steps of their own | |

PROJECT.json lists each with its status, and under `hazards` each place in the
code where order, failure or staleness bites, with the property that covers it
or the reason none does.

## Modules

| Module | Models |
|---|---|
| `VersionLog` | The abstract promise of the file store: per file an append-only log of contents that disappears as a whole. |
| `FileStorage` | The file store and the retention job. |
| `FileStorageInv` | Its inductive invariant, in named parts. |
| `FileStorage_proofs` | The theorems about it. |
| `Sharing`, `Sharing_proofs` | Share links, extending `FileStorage`: the requests of both interleave, and trash and purge act on both. |
| `ChunkedUpload`, `ChunkedUpload_proofs` | Resumable uploads, and the theorems about them. |
| `ShareGate`, `ShareGate_proofs` | Who passes a link's gates, the access log, notifications and receipts. |
| `AccountRows` | The abstract promise of the accounts: each request reads and writes its row in one step. |
| `Accounts` | Accounts, tokens, TOTP and administration. |
| `Accounts_proofs` | The theorems about it. |
| `Folders`, `Folders_proofs` | The tree of folders and where files lie in it. |
| `ThumbnailCache`, `ThumbnailCache_proofs` | The cache of thumbnails and the endpoint that fills it. |
| `Webhooks`, `Webhooks_proofs` | Webhooks, and the events of share requests. |
| `MC...` | Values of the constants for TLC, and symmetry. |

### FileStorage

`file`, `versions` and `disk` are the two tables and the upload folder. A
ciphertext is identified by the data-encryption key it was made with: AES-GCM
opens a blob with that key or not at all, so a version is readable exactly when
the key in its row is the one on the disk under its path. `pc`, `up` and `pg` are
how far each request is and its locals; `condemned` and `mishap` are
history: the files a purge has taken up, and whether a request has failed half-way
or a purge and the upload of a version have met at one file.

An upload is `UploadCheck` (scan, quota sum), `UploadWrite` (encrypt, open and
write), `UploadCommit` (one transaction for both rows). An upload of a version
is `VersionLoad` (the files row is read and stays in the session), `VersionPlan`
(quota again, version rows read, number chosen, version 1 inserted and flushed
if there is none), `VersionWrite`, then `VersionCommit` or, if
`uq_file_version_number` refuses, `VersionConflict`. A purge is `PurgeBegin`,
then for each file `PurgeLoad`, one `PurgeUnlink` per path, and one
`PurgeCommit`; the retention job is the same with other candidates. `Fail` ends a
request anywhere: the transaction is rolled back and the disk keeps what it got.

Abstractions: trash and restore are one step (read and commit of one column); a
blob is written in one step, as no reader knows its path before the commit,
except in the race that `VersionsReadable` is about, where the outcome is the
same; a file that is unlinked while a reader has it open is not modelled; names,
MIME types, tags and folders are left out. `Legacy` are files from before
version rows existed, which both backfills in the code are for.

### Sharing

A share is a file, a pinned version (0 for none) and a revoked mark. `CreateCheck`
and `CreateCommit` are the two ends of `create_share`; `EditLoad` and `EditCommit`
those of PATCH and DELETE, with the column rule. A download is `VisitFind`,
`VisitFile` (the files row), `VisitPin` (the pinned version's row, if there is
one) and `VisitServe` (decrypt, log, answer). `SoftDeleteShared` and
`PurgeCommitShared` add to two steps of `FileStorage` what they do to shares. The
foreign keys of `shares` are modelled as the database enforces them: an insert
on a file that is gone fails, a purge cascades. The revocation that a purge
flushes before it deletes the rows is invisible to others and left out. A new row
gets an id that no request holds, as a uuid4 is never drawn again. Who may
pass (recipient, permission, password, expiry) is in `ShareGate`.

### ShareGate

The other half of the share endpoints, without the file store behind them: a blob
opens or does not. A request is `Find` (the row), one of `CheckAccess`,
`CheckDownload`, `CheckPreview`, `CheckThumbnail`, `CheckPassword` (the owner's
row, the checks, the decryption), `Flush` (the log row gets its timestamp, the
foreign key is checked and holds the share's row), `Commit` (log row and
notification) and `Answer` (which reads the row again, as the commit expired it); a
worker may die anywhere (`Die`, if `Faults`). Rows stand in the log in the order of
their timestamps and count when they are committed (`done`), which two requests may
do in the other order: then a receipt (`app/shares/routes.py:144`) that was already
shown moves back. `shown` remembers the receipts as they were when there first was
one while no request of the recipient was under way, and `ReceiptsFinal` says that
these stay. Timestamps are those of one clock that does not go back. Around it
the owner patches, an admin disables the owner, expiries pass and the file is
purged. An expiry is before or after, not a date; a PATCH is one step and changes
one of permissions, expiry and revoked mark, which loses nothing, as the UPDATE
of a staler PATCH names only columns it changes too. `proven` remembers who has
given the password, and `since` which rights a request has had at some moment
since it began: `RightsHeld` is stated on these, not on the tests in the code. What
`/access` tells needs no permission, in `API.md` as in the code (`README.md:95`
differs, see the findings), so a change of permissions is seen by the other gates
only. The runs take links addressed to a recipient, where every check counts.
Custom slugs, the QR code and the rate limit are left out.

### ChunkedUpload

`session` is the table, `staging` the chunk files, each missing, torn (truncated
by `open(..., "wb")` and not yet written) or whole. A chunk request is `PutLoad`,
`PutOpen`, `PutWrite`, `PutCount`, `PutCommit`; completion is `CompleteLoad`,
`CompleteCheck`, one `CompleteRead` per chunk, `CompleteSave` (the finalize of the
file store, one commit), `CompleteMark` (a second commit) and `CompleteClean`, or
one of `CompleteMissing`, `CompleteLost`, `CompleteRefuse`, `CompleteError`. The
sweep is `SweepScan`, `SweepRemove` per session and `SweepCommit`. Removing a
directory while a chunk file is open makes the writer write to a file without a
name (`p_unlinked`). `rmtree` is one step. Staleness is a set, `aged`, not a date.

What may happen to a session depends on how its clients behave, so that is part
of the initial state: a `habit` says which sessions are used, whether the client
waits for each response before it sends the next request of a session, and
whether workers die. `Calm` is the habit of a client that waits, whose workers
live. The properties that need it say `Calm =>`; the others hold for every habit.

### Accounts

An account is `is_active`, `disabled_at` (set or not), `mfa_enabled` and
`totp_secret`. A request loads a row, decides, and `Commit`s with `Merged`, the
column rule. `live` says which kinds of token a user holds that would be
accepted; a JWT dies only by expiry, a PAT also by revocation. `proven` records
the last secret a user has shown a code of. Passwords, names and the ceremonies
of Google and WebAuthn are abstracted to whether the caller passes them.
`AccountRows` is the abstraction: the same rows, each of them read, decided upon
and written in one step. The code keeps to it for the requests of one user that
follow each other, whatever the administrators do meanwhile (`RequestsAtomic`).

### Folders

`folder` and `file` are the two tables, reduced to owner and place; `job` holds the
locals of each request in service. A request looks up the folder it is given
(`CreateLookup`, `UploadLookup`, `MoveLookup`, `DeleteLookup`), a move loads its files
(`MovePick`), a delete visits its tree one folder at a time (`Detach`), and each ends
in one commit, or in `Fail`. PATCH of a file is a bulk move of one file that looks
up in the other order; nothing is lost by that, as the id of a deleted folder
never returns. `Complete` takes any folder at all, as the code never looks its
`folder_id` up; the files it puts somewhere unseen are remembered as `strays`.

The database's part is in the commits: an insert or UPDATE that names a folder
which is gone is refused (`Referable`, `Writable`), and a folder that goes takes
what was created below it since it was visited (`Cascade`) and lets go of what was
moved there since (`Released`).

Abstractions: the ORM flushes a delete in several statements whose row locks
other requests wait for, so their effect appears at the commit, and a deadlock
that the database breaks is `Fail`; the order in which a tree is visited is any; the
trash mark is left out, as only PATCH looks at it, and it refuses; the
`folder_id` column of upload sessions is not kept, as `Complete` takes any folder.
Listings are not modelled.

### ThumbnailCache

`cache` is the `OrderedDict`, least recently used first. `get` and `set` hold the
lock, so each is a step (`GetHit`, `GetExpired` or `GetMiss`; `Store`); between them the
request reads, decrypts and shrinks (`Render`). Around it versions are added, files
trashed, blobs unlinked and rows purged. A picture is the nonce that its
ciphertext was made with, which is also part of the key; `.age` is the entry's
`created_at`, and `.since` and `uses` are history. Time is ticks, and an age above the
time to live is all the same. Every worker process has a cache of its own, and
loses it when it is replaced (`Restart`). `invalidate` and `clear` exist and no route
calls them, so a purged file's pictures stay until they expire or are evicted;
no request can reach them, as `Ask` needs the row. Who may ask is `ShareGate`'s
subject.

### Webhooks

A request that patches, revokes or downloads a share is `Load`, its commit
(`CommitEdit`), the look at the row afterwards (`Reread` or `Skip`), `Dispatch` (the matching
webhooks are read), one `StartThread` per webhook, and `Answer`. A download is
`DispatchDownload`, the same threads, and only then the commit of its log row, in
`Answer`. The query in `DispatchDownload` has flushed that row, whose foreign key holds the
share until the commit (`Flushed`); a log row flushed later would leave an event about
a download that a purge keeps out of the log, as the mutant of `DownloadedIsLogged`
shows. Each sender is one step, `Send`, after which nothing of it is left. Between
any two steps users edit webhooks, the share is trashed or purged, and workers
die (`Die`), which takes their daemon threads along.

The history variables say what a request could have seen: the webhooks that
matched at some moment of it (`ever`) and at all of them (`always`), whether its share
was ever revoked meanwhile (`seen`), and whether a revocation of its own still
stands (`owed`). `missed` records a request that answered and did not report one.
All rows belong to one owner, and a request id stands for one request for ever.
The check of a webhook's URL against private networks, the secret and the
signature are string work and left out, as is what the receiver answers, which
changes nothing.

## Runs

| Run | Instance | Shows |
|---|---|---|
| `storage_sequential` | one account with one request at a time beside the purge job, which is started again and again; one legacy file and one new, 3 keys, sizes 1 and 2 with 2 bytes of quota, versions up to 3, failures on | An account that waits for its responses is enough for every committed version to decrypt, the quota to hold and the size on the row to be right, whatever dies; a file that is due is purged or restored in the end, whatever earlier purges have unlinked without deleting the row |
| `storage_races` | two requests of one account and a run of the job, 3 keys, one size, no failures | What holds under races: gapless numbers, the row names the latest, a blob under every committed path, version 1 readable, no blob without a row unless a purge met the upload of a version, and refinement of `VersionLog` |
| `storage_breaks_versionsreadable` | two requests of one account | Two racing uploads of a version write one path; the committed one is unreadable for good |
| `chunks_races` | two sessions of two chunks used by a client that waits, or one used by two concurrent requests whose workers may die; a sweep in both cases | For a client that waits one file per session, whole chunks, exact count, clean staging; in both cases completed means a file exists, and is final |
| `chunks_break_atmostonefile` | two concurrent requests, no failure | Two completes make two files |
| `sharing_races` | an owner, a share request and a download, all concurrent, one link | A pinned link serves its version, an unpinned one nothing older than the latest at its start, what a download has picked decrypts, and no link outlives its file |
| `sharing_breaks_trashedhasnoliveshare` | an owner and a share request | A share is inserted on a file trashed meanwhile |
| `gate_races` | two concurrent requests of one user on a link addressed to that user, with or without a password, or to somebody else; one edit, two log rows, workers may die | Whatever is answered was granted at some moment of the request; owners are told what the log says; receipts are earned, and final once the recipient has every answer |
| `accounts_sequential` | two admins, each with one request, and a user they manage; two secrets | Some admin stays active, MFA that is on is usable, a disable sticks, and each request acts as if atomic: refinement of `AccountRows` |
| `folders_races` | two users, who all wait for responses or do not, three folders, two files, two requests | Whatever runs while a tree is deleted, nothing dangles, trees stay their owner's, no file is lost, and files are where the last answer says |
| `thumbnails` | two threads, three pictures of two files, room for two, a time to live of one tick | Bound and uniqueness, the right picture, fresh hits, and eviction of the least recently used and of nothing else |
| `webhooks` | two requests about one share, two webhooks, one edit | Events go to the right webhooks and report what happened; no revocation by PATCH or DELETE is forgotten (trashing a file revokes too, and sends nothing: see the findings); requests and senders come to rest |

Types are stated in each module (`TypeOK`, `GateTypeOK`, `SharingTypeOK`) and proved,
so the runs do not spend themselves on them.

**Why the bounds are enough.** Each race needs two requests on one row and a
third party (purge, sweep, reader); more requests repeat the same conflicts.
Versions up to 3 give a first, a planned and a conflicting number; two chunks
give a first and a last; two sizes and two bytes of quota give one request
that fits and a pair that does not; two files give a bulk purge a middle, which
is where a failure matters. Three folders give a tree with a middle, and a
folder that is created below it while it is visited; two pictures of one file
and one of another, with room for two, give a hit, an overwrite and an eviction
in every order. Two requests of one recipient and two log rows let the rows be
committed in the other order, or one come after the other was shown. Two webhooks and one edit let one match throughout while the
other starts or stops to. `MaxVersion`, `MaxFiles`, `MaxLog`, `MaxEdits`, `MaxSize`, `Ttl`,
`Settings`, `Patience`, `Habits` and the finite sets of ids, keys and secrets are the only
bounds (of these `MaxSize` and `Ttl` are parameters of the code, made small); a
request that needs more than they offer stays where it is, so `CHECK_DEADLOCK`
is off, and a server with no request in service is idle rather than stuck.

**Symmetry** is used for interchangeable keys, secrets, ids and requests, and in no
run with a liveness property.

**Fairness.** `DuePurged` needs weak fairness of the steps of the job's run and strong
fairness of the start of a run with each file that is due: cron starts the job
every hour (`DEPLOYMENT.md:182`), and the job takes every candidate it reads. It
supposes that from some time on the job's runs do not fail (`RunFails`); user
requests, and earlier runs, may die or stop as they like. `ComesToRest` needs weak fairness of
the steps of requests and senders taken together: a worker that executes
straight-line code between two system calls goes on, and a POST ends. The 5
seconds in `dispatcher.py` bound each wait for the network, not the POST as a whole,
so a receiver that sends its answer byte by byte keeps a sender, and only that,
for as long as it does; the assumption is that it stops. Clients are never
assumed to send anything, and a worker may die instead (`mishap`, `Die`).

**Clients who wait.** Several invariants suppose clients, or administrators, who
wait for one response before they send the next request (`OneRequestEach` in the
proofs, `Calm`, `patient`, `AdminsWait`). They are what the code keeps to such clients;
the race that breaks each of them without the hypothesis is excluded by it and
not examined, except where a violation run shows it. PROJECT.json lists these
races as hazards that no property covers and names in a note the property that
excludes them.

## Findings

1. `app/files/routes.py:1616` — two concurrent uploads of a version write the same
   path; the loser is refused by the unique constraint only after overwriting
   the winner's ciphertext. (`VersionsReadable`)
2. `app/files/routes.py:466` — complete tests and sets the status in different
   transactions, with a third in between that creates the file.
   (`AtMostOneFile`)
3. `app/shares/routes.py:226` — a share can be inserted on a file that was trashed,
   and had its shares revoked, since the check. (`TrashedHasNoLiveShare`)

Without a run, as they take no interleaving to see:

- `access_share` does not test `can_view`, which `README.md:95` calls the right to
  "view file metadata and access the share link", and logs such an access as a
  view.
- A thumbnail through a share is not logged (`app/files/routes.py:1412`), while
  `README.md:109` says every access attempt is.
- `MODULE_6_ADMIN.md:225` says a disabled user's JWT is rejected on the next request;
  the decorator does not look at `is_active` (`app/auth/decorators.py:113`).
- Trashing a file revokes its shares and sends no `share.revoked`
  (`app/files/routes.py:1018`), while `API.md:1689` says it is dispatched whenever a
  share is revoked.

Further races, which no run exhibits. PROJECT.json has these as hazards with
a note: quota overrun by parallel uploads, a stale size on the files row, torn
chunks under a retry during complete, a late chunk after completion, a count
committed out of order, TOTP enable racing setup or disable, the folder that
complete does not look up, two admins who disable each other at once (the self-check
"prevents accidental lockout", `docs/reports/MODULE_6_DELIVERY.md:129`, of one's own
account only), a file restored while the retention job works down its
list or after a purge of it failed half-way, a receipt that moves back while
another request of the recipient commits. Noted only here: PATCH can un-revoke
what trashing a file revoked (`app/shares/routes.py:716`), two requests with one
custom slug meet only in the unique index and the second fails with 500
(`app/shares/routes.py:253`), pictures outlive their file in the cache, and the
list of sender threads only grows.

## Proofs

`FileStorage_proofs` proves, for all files, accounts, requests, keys, sizes and
bounds that satisfy `FileStorageAssumption`, with or without failures:

| Theorem | Property |
|---|---|
| `TypeCorrect` | `TypeOK` |
| `VersionNumbersContiguous` | `VersionsContiguous` |
| `RowAlwaysLatest` | `RowNamesLatest` |
| `BlobAlwaysPresent` | `BlobPresent` |
| `FirstVersionAlwaysReadable` | `FirstVersionReadable` |
| `LogImplemented` | `ImplementsVersionLog` |
| `VersionsReadableToOneUploader` | `VersionsReadable`, assuming `[]OneUploader` |
| `RowSizeLatestToOneUploader` | `RowSizeIsLatest`, assuming `[]OneUploader` |
| `QuotaKeptByOneSpender` | `QuotaRespected`, assuming it at the start and `[]OneSpender` |
| `NoOrphanUnlessMishap` | `NoOrphanBlob` |
| `WaitingClientsKeepPromises` | `VersionsReadable` and `RowSizeIsLatest`, assuming `OneRequestEach` |
| `WaitingClientsKeepQuota` | `QuotaRespected`, assuming it at the start and `OneRequestEach` |
| `WaitingClientsNeverMeet` | `NoPurgeWhileWriting`, assuming `OneRequestEach` and that no job runs |

Of the first five invariants, which hold for any clients, none is inductive. That a new
version continues the numbering depends on what a request planned long before:
`PlansInv` says that a planned number is one more than a number its file still
has, which survives other uploads because rows are only added, and survives a
purge because the file's rows go together (the plan is then void). A commit is
refused if the number is taken; since the numbers are `1..n` and `n` is
planned-minus-one or more, a number that is not taken is `n + 1`, so the row
appended is the latest and the files row may be made to name it. That a path
still holds a blob needs `PathsInv`: a path names its file and the base path
belongs to version 1 alone, so no version upload touches it and a purge unlinks
only what belongs to condemned files; `DiskInv` carries the blob of a request
from its write to its commit. `IdsInv` says that an id under way is known to one
upload only, so nobody purges a file that is being created. `StoreInv` is the
conjunction.

The proof goes in three layers, each using the ones before: types
(`TypeInvariant`), rows (`IdsStep`, `RowsStep`, with one lemma per kind of step) and
disk. Assumed are only the constants' assumptions: that ids and keys are never
drawn twice is part of the model (`issued`), as `uuid4` and `os.urandom` provide, and
that `None` is neither a row nor a history.

For the refinement, `Holds` says what the rows give a reader as version `n` of a
file, and `HistoryReads` that the sequence `History` is just that: the numbers are an
interval (`NumbersAreInterval`, by counting), so they index a sequence.
`HistoryStep` then maps each kind of step: the commit of an upload to `Create`, of a
version to `AppendVersion`, of a purge to `Remove`, and the insertion of version 1 of
a legacy file, like all others, to a stutter.

Three of the others fail under races (the findings show the first), and the fourth
says itself which race ends it. The code has nothing that prevents these races: no
lock, no version counter. So the theorems name what clients must refrain from, as
narrowly as the proof allows: sending one file two versions at a time (`OneUploader`),
having two uploads of one account under way (`OneSpender`), purging a file that a
version is being written for (`NoPurgeWhileWriting`; `mishap` is false only as long
as that holds, `MeetStep`). All other concurrency stays: trash, restore, backfill, purges,
the job, uploads to other files, and failures at every step. An account that waits
for one response before it sends its next request (`OneRequestEach`) refrains
from all three; that this follows is not obvious, as it needs that a file is only
ever worked on by its owner (`OwnersInv`, an invariant for any clients), and the
job, which is nobody's request, must be excluded for the last. The runs
`storage_sequential` and `sharing_races` have such clients.

`ReadableInv` says that a planned number stays free and a written path unharmed
until the commit. `PendingInv`, for any clients, says that who is to insert version
1 of a legacy file is alone in planning a version of it: the unique index entry
of the flushed row keeps others out. `SizeInv` says that the size the session read
at the start is still the row's, so that leaving the column out of the UPDATE is
right. `SpendInv` carries the sum that was checked to the commit: while one spender
is at it, the account's sum changes by nothing but trash, backfills and purges,
which do not raise it. `OrphanInv` says that a purge has collected all blobs
of the files it has taken up.

SUM(size_bytes) is a fold over a set (`StorageUsed`), which could only be reasoned about
by induction. The proof turns it into a count instead: `SumIsBytes` shows that the
sum over finitely many rows is the cardinality of the set of their bytes, pairs of
a row and an index below its size (`Bytes`), by looking at a smallest set of which that would be
false (`SmallestSubset`, from the well-foundedness of strict inclusion of finite sets); what one
row adds or takes then follows from `FiniteSetTheorems` (`TotalOfRest`, `TotalSame`,
`TotalOfFewer`). Assumed for it is `LegacyFinite`, that the table starts with finitely
many rows.

`Sharing_proofs` builds on this, for all shares, clerks and visitors as well:

| Theorem | Property |
|---|---|
| `SharingTypeCorrect` | `SharingTypeOK` |
| `PinnedAlwaysPinned` | `PinnedServesPinned` |
| `UnpinnedNeverOld` | `UnpinnedServesLatest` |
| `PinsAlwaysExist` | `PinsExist` |
| `SharingIsAStore` | `SharingSpec => Spec`: the composition refines `FileStorage` |
| `DownloadsDecrypt` | `VisitsReadable`, assuming `[]OneUploader` |
| `WaitingOwnersServeVisitors` | `VisitsReadable`, assuming `OneRequestEach` |

Every step of `SharingNext` is a step of the store or leaves it alone, so the
store's invariants carry over. Two of its facts do the work: what a reader finds in
a stored file it finds as long as the file is stored (`HistoryKept`), and an id that
was drawn and is not stored never is again (`GoneForGood`). A share request holds a
pin that was good when it was checked (`ClerkKnows`), so it is good at the commit, or
the file is gone and the foreign key refuses. A download holds a key that is that
of a version of its file (`VisitKnows`): for a pinned link it may be the one on the
files row only while there are no version rows, and then that is version 1. That
the key of one version is never another's (`DekInv`) makes the number of what was
served well defined. `PicksInv` adds the path: what a download has picked is path and
key of one version that readers still find, even if the files row has moved on.
That it decrypts needs no more proof about the disk, as `SharingIsAStore` brings every
theorem about `FileStorage` along, `VersionsReadable` among them.

`Accounts_proofs` proves, for all users, admins, requests and secrets that satisfy
`AccountsAssumption` and `NoneIsNoRow`:

| Theorem | Property |
|---|---|
| `TypeCorrect` | `TypeOK` |
| `StampFollowsFlag` | `DisabledStamped` (stated with the proof) |
| `DisableAlwaysSticks` | `DisableSticks` |
| `SomebodyAdministers` | `SomeAdminActive`, assuming `AdminsWait` |
| `WaitingUsersKnowTheirSecret` | `EnabledSecretProven`, assuming `OneRequestEach` |
| `RequestsLookAtomic` | `RequestsAtomic`, assuming `OneRequestEach` |

Here the question is what a request may still write that read its row long ago.
`ReqsOK` says it: a disable or an enable under way changes both columns of the row
it read, any other request neither, so under the column rule a commit sets both
or leaves both, and only an enable sets `is_active`. The last theorem adds that the
client of a disable under way is another admin, active until it commits
(`DisablerStays`), which needs that no second admin request is under way; the
first three hold without it. The last two are about users who wait for one response
before they send the next request, and any number of administrators. `OwnOK` says
that a user's request then has secret and flag as they are still stored, as no
admin's request writes them, so an enable commits with the secret it has seen a
code of. From that `CommitEffect` reads off, op by op, which single step of `AccountRows` a
commit is. Without the hypothesis both fail: enable racing setup turns on a secret
nobody has shown a code of.

`Folders_proofs` proves, for all users, ids, requests and sets of patient users that
satisfy `FoldersAssumption`:

| Theorem | Property |
|---|---|
| `TypeCorrect` | `TypeOK` |
| `NothingEverDangles` | `NothingDangles` |
| `TreesStayOwn` | `TreesAreOwn` |
| `DeleteAlwaysGentle` | `DeleteIsGentle` |
| `FilesStayWherePut` | `PlacementKept` |

A request commits on the strength of a look at a folder that may be gone by then.
What makes that safe is that ids are never reissued (`Ids`): a folder that is
there at the commit is the one that was looked up, so what a job knows stays true
(`JobOwn`, `RowsKept`). For a delete the matter is the cascade: it is the least set
that holds the loaded part of the tree and is closed under subfolders
(`CascadeIsLeast`), hence whatever lies in a folder that goes, goes or is let go
(`NothingDangles`), it stays within one owner (`GoneIsOwn`), and every folder that goes
lies in one that goes, up to the one deleted (`GoneHangsTogether`). For placement, a
patient user has one job (`PatientJob`), so what other users do leaves its files
alone (`Untouched`).

`ChunkedUpload_proofs` proves, for all sessions, chunk counts, requests, sweepers
and habits:

| Theorem | Property |
|---|---|
| `TypeCorrect` | `TypeOK` |
| `CompletedFinal` | `CompletedIsFinal` |
| `CompletedMeansFile` | `CompletedHasFile` |
| `OneFileForPatient` | `OneFileIfCalm` |
| `PatientFilesWhole` | `NoTornFile` |
| `PatientLeaveNothing` | `CompletedLeavesNoStaging` |
| `PatientCountExact` | `ReceivedIsCount` |

The first three need no assumption on the client: the column rule never lets a
stale row take back a status that it did not set, and a complete marks only what
it saved. The others start from `Turns`: under `Calm` a session has one request at a
time, so only the sweep can interfere. `Saving` relates the files made to where the
one request is; `Whole` says that a torn chunk has its only writer at it, so a
complete, being the session's request, reads none; `Marking` says what is staged
while a session is marked and cleaned; `Exact`, `Settled` and `PutKnows` carry the count
from the listing to the commit, and `Swept` accounts for the sweep, whose sessions
lose their chunks first and then their row.

`ThumbnailCache_proofs` proves, for all files, nonces, threads, sizes and times to
live:

| Theorem | Property |
|---|---|
| `TypeCorrect` | `TypeOK` |
| `CacheBounded` | `Bounded` |
| `PicturesMatch` | `PictureMatches` |
| `HitsFresh` | `HitsAreFresh` |
| `EvictionsRight` | `LeastRecentlyUsed` |

`Entries` says that an entry's key is that of its picture and its age the time since
it was stored. The last theorem needs `Recency`: the entries stand in the order of
the last uses of their keys. When the first of a full cache goes, the others are
`MaxSize` keys used later, and a counting lemma (by an injection, with
`FiniteSetTheorems`) turns that into a distance in `uses`.

`Webhooks_proofs` proves, for all webhooks, shares, requests, settings and numbers of
edits:

| Theorem | Property |
|---|---|
| `TypeCorrect` | `TypeOK` |
| `EventsGoRight` | `RightHooks` |
| `RevokedTrue` | `RevokedIsTrue` |
| `DownloadsLogged` | `DownloadedIsLogged` |
| `RevocationsReported` | `RevocationReported` |

One invariant, `Told`, says what each running request knows of the rows as they are
now (`Knows`, of which `Held` is the lock on the share of a download) and what was
posted for it (`Posts`). It is kept by a change of the rows,
because every running request sees it (`OthersSee`), and by a request's own step. The
last theorem rests on one line of it: while a revocation is owed the share is
revoked and was live when it was loaded, so the look after the commit cannot
take it for none.

`ShareGate_proofs` proves, for all shares, users, callers, links and requests and any
number of edits and log rows:

| Theorem | Property |
|---|---|
| `TypeCorrect` | `GateTypeOK` |
| `RightsAlwaysHeld` | `RightsHeld` |
| `NoticesTrue` | `NoticesMatchLog` |
| `ReceiptsAlwaysEarned` | `ReceiptsEarned` |
| `ReceiptsNeverChange` | `ReceiptsFinal` |

A gate decides on a row it read earlier. `Earned` says what that row, and a decision
made on it, are evidence of: rights the caller has had since its request began. It
is monotone in those rights, so what owners, admins, clocks and purges do around a
request (`Quiet`) cannot take it away, and the recipient and password of a link never
change (`SameLink`), so a grant stays one of the link it was given for. `LogEarned`
carries the evidence into the log. That notices agree with the log is a count of
the entries that notify (`Reported`): a flush adds an entry that does not count yet,
a commit makes it count. For that an entry must stay where its request has put
it, and its share too, until the commit (`Entries`). For the receipts, `Final` says
that one which was shown is the first of the rows that count (`Least`), and that
whatever the recipient has flushed stands behind it. The second is why the first
stays so: only rows of the recipient count, they can only be committed where they
were flushed (`RowsStep`), and a new one is flushed at the end. When a receipt is first
shown the recipient has nothing flushed, so it holds; `HasFirst` says that there is a
first row to show. Assumed is `NoneIsNoRow`.

Only model-checked is liveness (`DuePurged`, `ComesToRest`), which with ENABLED is
outside what TLAPS proves. Every other property of a passing run is stated by a
theorem; those that hold only for clients who refrain from something say so in
their hypotheses, and the violation runs show that such a hypothesis is needed.
No module that is proved about declares a RECURSIVE operator.

## Plan

1. Proofs: the gate of `ShareGate` and the store of `Sharing` as one composition, so
   that what is served was both allowed and decrypted.
2. The audit rows of `Administration`, as a second commit after each action; the
   read marks of notifications.
3. Tags, as labels under a uniqueness constraint.

## Not modelled

The malware scanner's socket protocol, HTML, SQL migrations, the demo and
validation scripts, CSV export, statistics, search, pagination and configuration:
no state over several steps, or generated and third-party code. The ceremonies
of WebAuthn and Google, password hashing, AES-GCM, image resizing and HTTP
delivery belong to libraries and appear only as what they tell the code.
