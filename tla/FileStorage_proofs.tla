-------------------------- MODULE FileStorage_proofs --------------------------
(***************************************************************************)
(* What FileStorage keeps for every set of requests, files, keys, sizes    *)
(* and quotas, and with failures at every step.                            *)
(***************************************************************************)
EXTENDS FileStorageInv, Sequences, FiniteSetTheorems, SequenceTheorems, TLAPS

-----------------------------------------------------------------------------
\* The locals a handler has set by the time it reaches a point of its body.
LocalsOK(r) ==
  /\ pc[r] \in {"u_checked", "u_written"} \cup VersionPcs => up[r].size \in Sizes
  /\ pc[r] \in {"u_written"} \cup VersionPcs => up[r].file \in Files
  /\ pc[r] \in {"u_written", "v_written"} => up[r].dek \in Deks
  /\ pc[r] \in VersionPcs => up[r].seen \in Sizes
  /\ pc[r] \in {"v_planned", "v_written"} => up[r].num \in 2 .. MaxVersion

TypeInv == TypeOK /\ \A r \in Requests : LocalsOK(r)

\* The bound on version numbers, the paths it gives and the row a file has in
\* version 1 are well formed.
LEMMA PathTypes ==
  /\ \A f \in Files : BasePath(f) \in Path
  /\ \A f \in Files, n \in 0 .. MaxVersion : VersionPath(f, n) \in Path
  /\ \A f \in Files, row \in FileRow : FirstVersion(f, row) \in VersionRow
BY FileStorageAssumption
   DEF BasePath, VersionPath, Path, FirstVersion, FileRow, VersionRow

LEMMA NoneIsNoRow == None \notin FileRow
BY FileStorageAssumption DEF FileRow, Path

\* The database starts with the legacy files, which are well formed.
LEMMA TypeInit == Init => TypeInv
<1> SUFFICES ASSUME Init PROVE TypeInv
  OBVIOUS
<1> USE FileStorageAssumption
<1>1. file \in [Files -> FileRow \cup {None}]
  BY PathTypes DEF Init, FileRow, BasePath
<1>2. disk \in [Path -> Deks \cup {None}]
  BY DEF Init, Path
<1>3. issued \in [ids : SUBSET Files, deks : SUBSET Deks]
  BY DEF Init
<1>7. /\ versions \subseteq VersionRow
      /\ pc \in [Requests -> {"idle"} \cup InService]
      /\ condemned \subseteq Files
      /\ mishap \in BOOLEAN
  BY DEF Init
<1>4. up \in [Requests -> UploadVars]
  BY DEF Init, NoUpload, UploadVars
<1>5. pg \in [Requests -> PurgeVars]
  BY DEF Init, NoPurge, PurgeVars
<1>6. \A r \in Requests : LocalsOK(r)
  BY DEF Init, LocalsOK, VersionPcs
<1> QED
  BY <1>1, <1>2, <1>3, <1>4, <1>5, <1>6, <1>7 DEF TypeInv, TypeOK

\* A handler that returns leaves every other request as it was.
LEMMA EndTypes ==
  ASSUME TypeInv, NEW r \in Requests, NEW at, End(r, at)
  PROVE  /\ pc' \in [Requests -> {"idle"} \cup InService]
         /\ up' \in [Requests -> UploadVars]
         /\ pg' \in [Requests -> PurgeVars]
         /\ \A q \in Requests : LocalsOK(q)'
<1>1. NoUpload \in UploadVars /\ NoPurge \in PurgeVars
  BY FileStorageAssumption DEF NoUpload, UploadVars, NoPurge, PurgeVars
<1>2. /\ pc' = [pc EXCEPT ![r] = "idle"]
      /\ up' = [up EXCEPT ![r] = NoUpload]
      /\ pg' = [pg EXCEPT ![r] = NoPurge]
  BY DEF End, Begin
<1>3. /\ pc \in [Requests -> {"idle"} \cup InService]
      /\ up \in [Requests -> UploadVars]
      /\ pg \in [Requests -> PurgeVars]
      /\ \A q \in Requests : LocalsOK(q)
  BY DEF TypeInv, TypeOK
<1>4. ASSUME NEW q \in Requests PROVE LocalsOK(q)'
  <2>1. CASE q = r
    BY <1>2, <1>3, <2>1 DEF LocalsOK, VersionPcs
  <2>2. CASE q # r
    BY <1>2, <1>3, <2>2 DEF LocalsOK
  <2> QED
    BY <2>1, <2>2
<1> QED
  BY <1>1, <1>2, <1>3, <1>4

LEMMA UploadTypes ==
  ASSUME TypeInv, NEW r \in Requests, Upload(r)
  PROVE  TypeInv'
<1>t. TypeOK /\ \A q \in Requests : LocalsOK(q)
  BY DEF TypeInv
<1>u. /\ up \in [Requests -> UploadVars]
      /\ pc \in [Requests -> {"idle"} \cup InService]
  BY <1>t DEF TypeOK
<1>1. ASSUME NEW s \in Sizes, UploadCheck(r, s) PROVE TypeInv'
  <2>1. up' \in [Requests -> UploadVars]
    BY <1>u, <1>1 DEF UploadCheck, UploadVars
  <2>2. \A q \in Requests : LocalsOK(q)'
    BY <1>t, <1>u, <1>1, <2>1 DEF UploadCheck, Begin, LocalsOK, VersionPcs, UploadVars
  <2> QED
    BY <1>t, <1>1, <2>1, <2>2 DEF TypeInv, TypeOK, UploadCheck, Begin, InService, UploadPcs
<1>2. ASSUME NEW f \in Files, NEW d \in Deks, UploadWrite(r, f, d) PROVE TypeInv'
  <2>4. up' = [up EXCEPT ![r].file = f, ![r].dek = d]
    BY <1>2 DEF UploadWrite
  <2>1. up' \in [Requests -> UploadVars]
    BY <1>u, <2>4 DEF UploadVars
  <2>2. \A q \in Requests : LocalsOK(q)'
    BY <1>t, <1>u, <1>2, <2>1 DEF UploadWrite, Begin, LocalsOK, VersionPcs, UploadVars
  <2>3. disk' \in [Path -> Deks \cup {None}]
    BY <1>t, <1>2 DEF UploadWrite, TypeOK
  <2> QED
    BY <1>t, <1>2, <2>1, <2>2, <2>3 DEF TypeInv, TypeOK, UploadWrite, Begin, InService, UploadPcs
<1>3. CASE UploadCommit(r)
  <2> DEFINE row == [owner |-> Owner[r], size |-> up[r].size,
                     blob |-> BasePath(up[r].file), dek |-> up[r].dek,
                     trashed |-> FALSE]
  <2>1. up[r].file \in Files /\ up[r].size \in Sizes /\ up[r].dek \in Deks
    BY <1>t, <1>3 DEF UploadCommit, End, Begin, LocalsOK
  <2>2. row \in FileRow
    BY <2>1, PathTypes, FileStorageAssumption DEF FileRow
  <2>3. /\ file' \in [Files -> FileRow \cup {None}]
        /\ versions' \subseteq VersionRow
    BY <1>t, <1>3, <2>1, <2>2, PathTypes DEF UploadCommit, TypeOK
  <2> QED
    BY <1>t, <1>3, <2>3, EndTypes DEF TypeInv, TypeOK, UploadCommit
<1> QED
  BY <1>1, <1>2, <1>3 DEF Upload

LEMMA UploadVersionTypes ==
  ASSUME TypeInv, NEW r \in Requests, UploadVersion(r)
  PROVE  TypeInv'
<1>t. TypeOK /\ \A q \in Requests : LocalsOK(q)
  BY DEF TypeInv
<1>u. /\ up \in [Requests -> UploadVars]
      /\ pc \in [Requests -> {"idle"} \cup InService]
  BY <1>t DEF TypeOK
<1>1. ASSUME NEW f \in Files, NEW s \in Sizes, VersionLoad(r, f, s) PROVE TypeInv'
  <2>1. file[f].size \in Sizes
    BY <1>t, <1>1 DEF VersionLoad, Owns, Stored, FileRow, TypeOK
  <2>4. up' = [up EXCEPT ![r].file = f, ![r].size = s, ![r].seen = file[f].size]
    BY <1>1 DEF VersionLoad
  <2>2. up' \in [Requests -> UploadVars]
    <3> DEFINE w == file[f].size
               u == [up[r] EXCEPT !.file = f, !.size = s, !.seen = w]
    <3>1. w \in Sizes /\ up[r] \in UploadVars
      BY <1>u, <2>1
    <3>2. up' = [up EXCEPT ![r] = u]
      BY <1>u, <2>4
    <3> HIDE DEF w
    <3>3. u \in UploadVars
      BY <3>1 DEF UploadVars
    <3> QED
      BY <1>u, <3>2, <3>3
  <2>3. \A q \in Requests : LocalsOK(q)'
    BY <1>t, <1>u, <1>1, <2>1, <2>2 DEF VersionLoad, Begin, LocalsOK, VersionPcs, UploadVars
  <2> QED
    BY <1>t, <1>1, <2>2, <2>3 DEF TypeInv, TypeOK, VersionLoad, Begin, InService, VersionPcs
<1>2. CASE VersionPlan(r)
  <2>1. PICK n \in 2 .. MaxVersion :
          up' = [up EXCEPT ![r].num = n,
                           ![r].backfill = (VersionsOf(up[r].file) = {})]
    BY <1>2 DEF VersionPlan
  <2>2. up' \in [Requests -> UploadVars]
    <3> DEFINE b == VersionsOf(up[r].file) = {}
    <3>1. b \in BOOLEAN
      OBVIOUS
    <3>2. up' = [up EXCEPT ![r].num = n, ![r].backfill = b]
      BY <2>1
    <3>3. n \in 0 .. MaxVersion
      BY FileStorageAssumption
    <3> HIDE DEF b
    <3> QED
      BY <1>u, <3>1, <3>2, <3>3 DEF UploadVars
  <2>3. \A q \in Requests : LocalsOK(q)'
    BY <1>t, <1>u, <1>2, <2>1, <2>2 DEF VersionPlan, Begin, LocalsOK, VersionPcs, UploadVars
  <2>4. mishap' \in BOOLEAN
    BY <1>2 DEF VersionPlan
  <2> QED
    BY <1>t, <1>2, <2>2, <2>3, <2>4 DEF TypeInv, TypeOK, VersionPlan, Begin, InService, VersionPcs
<1>3. CASE VersionReject(r)
  BY <1>t, <1>3, EndTypes DEF TypeInv, TypeOK, VersionReject
<1>4. ASSUME NEW d \in Deks, VersionWrite(r, d) PROVE TypeInv'
  <2>1. up' \in [Requests -> UploadVars]
    BY <1>u, <1>4 DEF VersionWrite, UploadVars
  <2>2. \A q \in Requests : LocalsOK(q)'
    BY <1>t, <1>u, <1>4, <2>1 DEF VersionWrite, Begin, LocalsOK, VersionPcs, UploadVars
  <2>3. disk' \in [Path -> Deks \cup {None}]
    BY <1>t, <1>4 DEF VersionWrite, TypeOK
  <2> QED
    BY <1>t, <1>4, <2>1, <2>2, <2>3 DEF TypeInv, TypeOK, VersionWrite, Begin, InService, VersionPcs
<1>5. CASE VersionCommit(r)
  <2> DEFINE f == up[r].file
             v == [file |-> f, num |-> up[r].num,
                   path |-> VersionPath(f, up[r].num), dek |-> up[r].dek,
                   size |-> up[r].size]
  <2>1. /\ f \in Files /\ up[r].size \in Sizes /\ up[r].dek \in Deks
        /\ up[r].num \in 2 .. MaxVersion
    BY <1>t, <1>5 DEF VersionCommit, End, Begin, LocalsOK, VersionPcs
  <2>2. file[f] \in FileRow
    BY <1>t, <1>5 DEF VersionCommit, Stored, TypeOK
  <2>3. v \in VersionRow
    BY <2>1, PathTypes DEF VersionRow
  <2>4. FirstVersion(f, file[f]) \in VersionRow
    BY <2>1, <2>2, PathTypes
  <2>5. LatestRow(file[f], v, up[r].seen) \in FileRow
    BY <2>2, <2>3 DEF LatestRow, FileRow, VersionRow
  <2>6. /\ versions' \subseteq versions \cup {FirstVersion(f, file[f]), v}
        /\ file' = [file EXCEPT ![f] = LatestRow(file[f], v, up[r].seen)]
    BY <1>5 DEF VersionCommit
  <2>7. file' \in [Files -> FileRow \cup {None}]
    BY <1>t, <2>1, <2>5, <2>6 DEF TypeOK
  <2>8. versions' \subseteq VersionRow
    BY <1>t, <2>3, <2>4, <2>6 DEF TypeOK
  <2> QED
    BY <1>t, <1>5, <2>7, <2>8, EndTypes DEF TypeInv, TypeOK, VersionCommit
<1>6. CASE VersionConflict(r)
  BY <1>t, <1>6, EndTypes DEF TypeInv, TypeOK, VersionConflict
<1> QED
  BY <1>1, <1>2, <1>3, <1>4, <1>5, <1>6 DEF UploadVersion

\* Requests that are at no point of an upload keep their locals.
LEMMA TrashTypes ==
  ASSUME TypeInv, NEW r \in Requests, TrashOrRead(r)
  PROVE  TypeInv'
<1>t. TypeOK /\ \A q \in Requests : LocalsOK(q)
  BY DEF TypeInv
<1>1. /\ UNCHANGED <<disk, issued, pc, up, pg, condemned, mishap>>
      /\ \A q \in Requests : LocalsOK(q)'
  BY <1>t DEF TrashOrRead, BackfillFirst, SoftDelete, Restore, LocalsOK
<1>2. PICK f \in Files : BackfillFirst(r, f) \/ SoftDelete(r, f) \/ Restore(r, f)
  BY DEF TrashOrRead
<1>3. file[f] \in FileRow
  BY <1>t, <1>2 DEF TypeOK, BackfillFirst, SoftDelete, Restore, Owns, Stored
<1>4. CASE BackfillFirst(r, f)
  BY <1>t, <1>1, <1>3, <1>4, PathTypes DEF BackfillFirst, TypeInv, TypeOK
<1>5. ASSUME NEW b \in BOOLEAN,
             file' = [file EXCEPT ![f].trashed = b], versions' = versions
      PROVE  TypeInv'
  <2>1. file' \in [Files -> FileRow \cup {None}]
    BY <1>t, <1>3, <1>5 DEF TypeOK, FileRow
  <2> QED
    BY <1>t, <1>1, <1>5, <2>1 DEF TypeInv, TypeOK
<1> QED
  BY <1>2, <1>4, <1>5 DEF SoftDelete, Restore

LEMMA PurgeTypes ==
  ASSUME TypeInv, NEW r \in Requests, Purge(r)
  PROVE  TypeInv'
<1>t. TypeOK /\ \A q \in Requests : LocalsOK(q)
  BY DEF TypeInv
<1>p. /\ pg \in [Requests -> PurgeVars]
      /\ pc \in [Requests -> {"idle"} \cup InService]
  BY <1>t DEF TypeOK
<1>1. ASSUME NEW fs \in SUBSET Files, PurgeBegin(r, fs) PROVE TypeInv'
  <2>1. pg' \in [Requests -> PurgeVars]
    BY <1>p, <1>1 DEF PurgeBegin, PurgeVars, NoPurge
  <2>2. \A q \in Requests : LocalsOK(q)'
    BY <1>t, <1>p, <1>1 DEF PurgeBegin, Begin, LocalsOK, VersionPcs
  <2> QED
    BY <1>t, <1>1, <2>1, <2>2
       DEF PurgeBegin, Begin, TypeInv, TypeOK, InService, PurgePcs
<1>2. ASSUME NEW f \in Files, PurgeLoad(r, f) PROVE TypeInv'
  <2>1. file[f] \in FileRow
    BY <1>t, <1>2 DEF PurgeLoad, Stored, TypeOK
  <2>2. PurgePaths(f) \subseteq Path
    BY <1>t, <2>1 DEF PurgePaths, VersionsOf, FileRow, VersionRow, TypeOK
  <2>3. pg' \in [Requests -> PurgeVars]
    BY <1>p, <1>2, <2>2 DEF PurgeLoad, PurgeVars
  <2>4. \A q \in Requests : LocalsOK(q)'
    BY <1>t, <1>p, <1>2 DEF PurgeLoad, Begin, LocalsOK, VersionPcs
  <2>5. mishap' \in BOOLEAN
    BY <1>2 DEF PurgeLoad
  <2> QED
    BY <1>t, <1>2, <2>3, <2>4, <2>5
       DEF PurgeLoad, Begin, TypeInv, TypeOK, InService, PurgePcs
<1>3. ASSUME NEW f \in Files, PurgeSkip(r, f) PROVE TypeInv'
  <2>1. pg' \in [Requests -> PurgeVars]
    BY <1>p, <1>3 DEF PurgeSkip, PurgeVars
  <2>2. \A q \in Requests : LocalsOK(q)'
    BY <1>t, <1>3 DEF PurgeSkip, LocalsOK
  <2> QED
    BY <1>t, <1>3, <2>1, <2>2 DEF PurgeSkip, TypeInv, TypeOK
<1>4. ASSUME NEW p \in Path, PurgeUnlink(r, p) PROVE TypeInv'
  <2>1. pg' \in [Requests -> PurgeVars]
    BY <1>p, <1>4 DEF PurgeUnlink, PurgeVars
  <2>2. disk' \in [Path -> Deks \cup {None}] /\ mishap' \in BOOLEAN
    BY <1>t, <1>4 DEF PurgeUnlink, TypeOK
  <2>3. pc' = pc \/ pc' = [pc EXCEPT ![r] = "purging"]
    BY <1>4 DEF PurgeUnlink
  <2>4. \A q \in Requests : LocalsOK(q)'
    BY <1>t, <1>p, <1>4, <2>3 DEF PurgeUnlink, LocalsOK, VersionPcs
  <2> QED
    BY <1>t, <1>4, <2>1, <2>2, <2>3, <2>4
       DEF PurgeUnlink, TypeInv, TypeOK, InService, PurgePcs
<1>5. CASE PurgeCommit(r)
  <2>1. file' \in [Files -> FileRow \cup {None}] /\ versions' \subseteq VersionRow
    BY <1>t, <1>5 DEF PurgeCommit, TypeOK
  <2> QED
    BY <1>t, <1>5, <2>1, EndTypes DEF PurgeCommit, TypeInv, TypeOK
<1> QED
  BY <1>1, <1>2, <1>3, <1>4, <1>5 DEF Purge, PurgeStep

LEMMA TypeStep == TypeInv /\ [Next]_vars => TypeInv'
<1> SUFFICES ASSUME TypeInv, [Next]_vars PROVE TypeInv'
  OBVIOUS
<1>1. ASSUME NEW r \in Requests, Fail(r) PROVE TypeInv'
  BY <1>1, EndTypes DEF Fail, TypeInv, TypeOK
<1>2. CASE UNCHANGED vars
  BY <1>2 DEF vars, TypeInv, TypeOK, LocalsOK
<1> QED
  BY <1>1, <1>2, UploadTypes, UploadVersionTypes, TrashTypes, PurgeTypes DEF Next

LEMMA TypeInvariant == Spec => []TypeInv
  BY TypeInit, TypeStep, PTL DEF Spec

\* Whatever requests do and wherever they die, the tables, the disk and the
\* locals of app/files/routes.py hold values of their columns' types; an upload
\* never commits with an id, a key or a number it has not drawn.
THEOREM TypeCorrect == Spec => []TypeOK
  BY TypeInvariant, PTL DEF TypeInv

-----------------------------------------------------------------------------
\* A request that ends without touching rows or blobs: refused, in conflict, or
\* dead.
Quit(r) ==
  /\ \E at \in InService : End(r, at)
  /\ UNCHANGED <<file, versions, disk, issued, condemned>>

\* The steps that matter to ids, rows and blobs, one by one.
LEMMA StepCases ==
  ASSUME [Next]_vars
  PROVE  \/ UNCHANGED vars
         \/ \E r \in Requests :
              \/ Quit(r)
              \/ \E s \in Sizes : UploadCheck(r, s)
              \/ \E f \in Files, d \in Deks : UploadWrite(r, f, d)
              \/ UploadCommit(r)
              \/ \E f \in Files, s \in Sizes : VersionLoad(r, f, s)
              \/ VersionPlan(r)
              \/ \E d \in Deks : VersionWrite(r, d)
              \/ VersionCommit(r)
              \/ \E f \in Files :
                   \/ BackfillFirst(r, f) \/ SoftDelete(r, f) \/ Restore(r, f)
                   \/ PurgeLoad(r, f) \/ PurgeSkip(r, f)
              \/ \E fs \in SUBSET Files : PurgeBegin(r, fs)
              \/ \E p \in Path : PurgeUnlink(r, p)
              \/ PurgeCommit(r)
<1>1. ASSUME NEW r \in Requests, UploadVersion(r) \/ Fail(r)
      PROVE  \/ Quit(r)
             \/ \E f \in Files, s \in Sizes : VersionLoad(r, f, s)
             \/ VersionPlan(r)
             \/ \E d \in Deks : VersionWrite(r, d)
             \/ VersionCommit(r)
  BY <1>1 DEF UploadVersion, Fail, Quit, VersionReject, VersionConflict,
              InService, VersionPcs
<1> QED
  BY <1>1 DEF Next, Upload, TrashOrRead, Purge, PurgeStep

\* Ids: only UploadWrite draws one, and it draws a new one.
LEMMA IdsStep ==
  ASSUME TypeInv, IdsInv, [Next]_vars
  PROVE  IdsInv'
<1>t. /\ file \in [Files -> FileRow \cup {None}]
      /\ issued \in [ids : SUBSET Files, deks : SUBSET Deks]
      /\ pc \in [Requests -> {"idle"} \cup InService]
      /\ up \in [Requests -> UploadVars]
      /\ \A q \in Requests : pc[q] \in Writing => up[q].file \in Files
  BY DEF TypeInv, TypeOK, LocalsOK, Writing
<1>1. CASE UNCHANGED vars
  BY <1>1 DEF vars, IdsInv, Stored
<1>2. ASSUME NEW r \in Requests, pc[r] \in {"idle"} \cup InService,
             pc' = [pc EXCEPT ![r] = "idle"], Stored' \subseteq Stored,
             \A q \in Requests \ {r} : up'[q] = up[q],
             UNCHANGED <<issued, condemned>>
      PROVE  IdsInv'
  BY <1>t, <1>2 DEF IdsInv, Writing, VersionPcs
<1>3. ASSUME NEW r \in Requests, NEW at \in PurgePcs \cup {"u_checked"},
             pc' = [pc EXCEPT ![r] = at], Stored' \subseteq Stored,
             \A q \in Requests \ {r} : up'[q] = up[q],
             condemned' \subseteq condemned \cup Stored, UNCHANGED issued
      PROVE  IdsInv'
  BY <1>t, <1>3 DEF IdsInv, Writing, VersionPcs, PurgePcs
<1>4. ASSUME NEW r \in Requests, NEW at \in VersionPcs,
             pc' = [pc EXCEPT ![r] = at],
             up'[r].file \in issued.ids,
             \A q \in Requests : pc[q] = "u_written" => up[q].file # up'[r].file,
             \A q \in Requests \ {r} : up'[q] = up[q],
             UNCHANGED <<file, issued, condemned>>
      PROVE  IdsInv'
  BY <1>t, <1>4 DEF IdsInv, Writing, VersionPcs, Stored
<1>5. ASSUME UNCHANGED <<pc, up, issued, condemned>>, Stored' \subseteq Stored
      PROVE  IdsInv'
  BY <1>t, <1>5 DEF IdsInv
<1>6. ASSUME NEW r \in Requests, NEW f \in Files, NEW d \in Deks,
             UploadWrite(r, f, d)
      PROVE  IdsInv'
  <2>1. /\ pc' = [pc EXCEPT ![r] = "u_written"]
        /\ up' = [up EXCEPT ![r].file = f, ![r].dek = d]
        /\ f \notin issued.ids
        /\ issued'.ids = issued.ids \cup {f}
        /\ UNCHANGED <<file, condemned>>
    BY <1>6 DEF UploadWrite, Begin
  <2>2. /\ up'[r].file = f
        /\ \A q \in Requests \ {r} : up'[q] = up[q]
    BY <1>t, <2>1 DEF UploadVars
  <2> QED
    BY <1>t, <2>1, <2>2 DEF IdsInv, Writing, VersionPcs, Stored
<1>7. ASSUME NEW r \in Requests, UploadCommit(r) PROVE IdsInv'
  <2>1. /\ pc[r] = "u_written" /\ pc' = [pc EXCEPT ![r] = "idle"]
        /\ \A q \in Requests \ {r} : up'[q] = up[q]
        /\ Stored' \subseteq Stored \cup {up[r].file}
        /\ UNCHANGED <<issued, condemned>>
    BY <1>t, <1>7 DEF UploadCommit, End, Begin, Stored
  <2> QED
    BY <1>t, <2>1 DEF IdsInv, Writing, VersionPcs
<1>8. ASSUME NEW r \in Requests, NEW f \in Files, NEW s \in Sizes,
             VersionLoad(r, f, s)
      PROVE  IdsInv'
  <2>1. /\ up'[r].file = f /\ f \in Stored
        /\ pc' = [pc EXCEPT ![r] = "v_loaded"]
        /\ \A q \in Requests \ {r} : up'[q] = up[q]
        /\ UNCHANGED <<file, issued, condemned>>
    BY <1>t, <1>8 DEF VersionLoad, Begin, Owns, UploadVars
  <2> QED
    BY <1>4, <2>1 DEF IdsInv, VersionPcs
<1>9. ASSUME NEW r \in Requests,
             VersionPlan(r) \/ \E d \in Deks : VersionWrite(r, d)
      PROVE  IdsInv'
  <2>1. PICK at \in VersionPcs : pc' = [pc EXCEPT ![r] = at]
    BY <1>9 DEF VersionPlan, VersionWrite, Begin, VersionPcs
  <2>2. /\ pc[r] \in VersionPcs
        /\ up'[r].file = up[r].file
        /\ \A q \in Requests \ {r} : up'[q] = up[q]
        /\ UNCHANGED <<file, condemned>> /\ issued'.ids = issued.ids
    <3>1. CASE VersionPlan(r)
      <4>1. PICK n \in 2 .. MaxVersion :
              up' = [up EXCEPT ![r].num = n,
                               ![r].backfill = (VersionsOf(up[r].file) = {})]
        BY <3>1 DEF VersionPlan
      <4>2. /\ up'[r].file = up[r].file
            /\ \A q \in Requests \ {r} : up'[q] = up[q]
        BY <1>t, <4>1 DEF UploadVars
      <4> QED
        BY <3>1, <4>2 DEF VersionPlan, Begin, VersionPcs
    <3>2. ASSUME NEW d \in Deks, VersionWrite(r, d)
          PROVE  /\ pc[r] \in VersionPcs
                 /\ up'[r].file = up[r].file
                 /\ \A q \in Requests \ {r} : up'[q] = up[q]
                 /\ UNCHANGED <<file, condemned>> /\ issued'.ids = issued.ids
      BY <1>t, <3>2 DEF VersionWrite, Begin, VersionPcs, UploadVars
    <3> QED
      BY <1>9, <3>1, <3>2
  <2> QED
    BY <1>t, <2>1, <2>2 DEF IdsInv, Writing, VersionPcs, Stored
<1>10. ASSUME NEW r \in Requests,
              Quit(r) \/ VersionCommit(r) \/ PurgeCommit(r)
       PROVE  IdsInv'
  <2>1. /\ pc' = [pc EXCEPT ![r] = "idle"]
        /\ \A q \in Requests \ {r} : up'[q] = up[q]
        /\ UNCHANGED <<issued, condemned>>
    BY <1>t, <1>10 DEF Quit, VersionCommit, PurgeCommit, End, Begin
  <2>2. Stored' \subseteq Stored
    BY <1>t, <1>10 DEF Quit, VersionCommit, PurgeCommit, Stored
  <2> QED
    BY <1>t, <1>2, <2>1, <2>2
<1>11. ASSUME NEW r \in Requests, NEW f \in Files,
              \/ BackfillFirst(r, f) \/ SoftDelete(r, f)
              \/ Restore(r, f) \/ PurgeSkip(r, f)
       PROVE  IdsInv'
  <2>1. Stored' \subseteq Stored /\ UNCHANGED <<pc, up, issued, condemned>>
    BY <1>t, <1>11 DEF BackfillFirst, SoftDelete, Restore, PurgeSkip, Stored, Owns
  <2> QED
    BY <1>5, <2>1
<1>12. ASSUME NEW r \in Requests,
              \/ \E s \in Sizes : UploadCheck(r, s)
              \/ \E f \in Files : PurgeLoad(r, f)
              \/ \E fs \in SUBSET Files : PurgeBegin(r, fs)
       PROVE  IdsInv'
  <2>1. \E at \in PurgePcs \cup {"u_checked"} : pc' = [pc EXCEPT ![r] = at]
    BY <1>12 DEF UploadCheck, PurgeLoad, PurgeBegin, Begin, PurgePcs
  <2>2. /\ \A q \in Requests \ {r} : up'[q] = up[q]
        /\ UNCHANGED <<file, issued>>
    BY <1>t, <1>12 DEF UploadCheck, PurgeLoad, PurgeBegin
  <2>3. condemned' \subseteq condemned \cup Stored
    BY <1>12 DEF UploadCheck, PurgeLoad, PurgeBegin
  <2> QED
    BY <1>3, <2>1, <2>2, <2>3 DEF Stored
<1>13. ASSUME NEW r \in Requests, NEW p \in Path, PurgeUnlink(r, p) PROVE IdsInv'
  <2>1. /\ pc' = [pc EXCEPT ![r] = "purging"] \/ pc' = pc
        /\ UNCHANGED <<up, file, issued, condemned>>
    BY <1>13 DEF PurgeUnlink
  <2>2. Stored' = Stored
    BY <2>1 DEF Stored
  <2> QED
    BY <1>3, <1>5, <2>1, <2>2 DEF PurgePcs
<1> QED
  BY <1>1, <1>6, <1>7, <1>8, <1>9, <1>10, <1>11, <1>12, <1>13, StepCases

\* A number no row has yet, above one that some row has, tops all rows.
LEMMA FreshNumberIsTop ==
  ASSUME TypeOK, VersionsContiguous, NEW f \in Files, NEW n \in Nat \ {0},
         n \notin RowNumbers(f)
  PROVE  \A w \in versions : w.file = f => w.num < n
<1> SUFFICES ASSUME NEW w \in versions, w.file = f, ~(w.num < n) PROVE FALSE
  OBVIOUS
<1>1. w.num \in Nat
  BY FileStorageAssumption DEF TypeOK, VersionRow
<1>2. n \in 1 .. w.num
  BY <1>1
<1> QED
  BY <1>2 DEF VersionsContiguous

\* Steps that leave rows, current blobs and planned numbers as they are.
LEMMA RowsKept ==
  ASSUME TypeInv, RowsInv,
         versions' = versions, Stored' = Stored,
         \A f \in Stored : file'[f].blob = file[f].blob /\ file'[f].dek = file[f].dek,
         \A q \in Requests : pc'[q] \in Planned =>
           /\ pc[q] \in Planned
           /\ up'[q].file = up[q].file /\ up'[q].num = up[q].num
           /\ up'[q].backfill = up[q].backfill
  PROVE  RowsInv'
<1>1. \A f : VersionsOf(f)' = VersionsOf(f) /\ RowNumbers(f)' = RowNumbers(f)
  BY DEF VersionsOf, RowNumbers
<1>2. VersionsContiguous'
  BY <1>1 DEF RowsInv, VersionsContiguous
<1>3. RowNamesLatest'
  BY <1>1 DEF RowsInv, RowNamesLatest
<1>4. PlansInv'
  BY <1>1 DEF RowsInv, PlansInv
<1> QED
  BY <1>2, <1>3, <1>4 DEF RowsInv

\* Steps that change no version row and plan nothing.
LEMMA QuietRows ==
  ASSUME TypeInv, RowsInv, NEW r \in Requests,
         \/ Quit(r)
         \/ \E s \in Sizes : UploadCheck(r, s)
         \/ \E f \in Files, d \in Deks : UploadWrite(r, f, d)
         \/ \E f \in Files, s \in Sizes : VersionLoad(r, f, s)
         \/ \E d \in Deks : VersionWrite(r, d)
         \/ \E f \in Files : PurgeLoad(r, f) \/ PurgeSkip(r, f)
         \/ \E fs \in SUBSET Files : PurgeBegin(r, fs)
         \/ \E p \in Path : PurgeUnlink(r, p)
  PROVE  RowsInv'
<1>t. /\ pc \in [Requests -> {"idle"} \cup InService]
      /\ up \in [Requests -> UploadVars]
  BY DEF TypeInv, TypeOK
<1>1. UNCHANGED <<file, versions>>
  BY DEF Quit, UploadCheck, UploadWrite, VersionLoad, VersionWrite, PurgeLoad,
         PurgeSkip, PurgeBegin, PurgeUnlink
<1>2. Stored' = Stored
  BY <1>1 DEF Stored
<1>3. \A q \in Requests \ {r} : pc'[q] = pc[q] /\ up'[q] = up[q]
  BY <1>t DEF Quit, UploadCheck, UploadWrite, VersionLoad, VersionWrite, PurgeLoad,
              PurgeSkip, PurgeBegin, PurgeUnlink, Begin, End
<1>4. ASSUME pc'[r] \in Planned
      PROVE  /\ pc[r] \in Planned
             /\ up'[r].file = up[r].file /\ up'[r].num = up[r].num
             /\ up'[r].backfill = up[r].backfill
  <2>1. \/ pc'[r] = pc[r] /\ up'[r] = up[r]
        \/ \E d \in Deks : VersionWrite(r, d)
    BY <1>t, <1>4 DEF Quit, UploadCheck, UploadWrite, VersionLoad, PurgeLoad,
         PurgeSkip, PurgeBegin, PurgeUnlink, Begin, End, Planned
  <2>2. ASSUME NEW d \in Deks, VersionWrite(r, d)
        PROVE  /\ pc[r] = "v_planned"
               /\ up'[r] = [up[r] EXCEPT !.dek = d]
    BY <1>t, <2>2 DEF VersionWrite, Begin
  <2>3. up[r] \in UploadVars
    BY <1>t
  <2> QED
    BY <1>4, <2>1, <2>2, <2>3 DEF Planned, UploadVars
<1>5. \A q \in Requests : pc'[q] \in Planned =>
           /\ pc[q] \in Planned
           /\ up'[q].file = up[q].file /\ up'[q].num = up[q].num
           /\ up'[q].backfill = up[q].backfill
  BY <1>3, <1>4
<1> QED
  BY <1>1, <1>2, <1>5, RowsKept

\* Moving a file to the trash and back touches neither its blob nor its key.
LEMMA TrashRows ==
  ASSUME TypeInv, RowsInv, NEW r \in Requests, NEW f \in Files,
         SoftDelete(r, f) \/ Restore(r, f)
  PROVE  RowsInv'
<1>1. PICK b \in BOOLEAN : file' = [file EXCEPT ![f].trashed = b]
  BY DEF SoftDelete, Restore
<1>2. f \in Stored /\ UNCHANGED <<versions, pc, up>>
  BY DEF SoftDelete, Restore, Owns
<1>3. file \in [Files -> FileRow \cup {None}] /\ file[f] \in FileRow
  BY <1>2 DEF TypeInv, TypeOK, Stored
<1>4. file'[f] = [file[f] EXCEPT !.trashed = b]
  BY <1>1, <1>3
<1>5. /\ file'[f] \in FileRow
      /\ file'[f].blob = file[f].blob /\ file'[f].dek = file[f].dek
  BY <1>3, <1>4 DEF FileRow
<1>6. \A g \in Files \ {f} : file'[g] = file[g]
  BY <1>1, <1>3
<1>7. Stored' = Stored
  BY <1>2, <1>5, <1>6, NoneIsNoRow DEF Stored
<1> QED
  BY <1>2, <1>5, <1>6, <1>7, RowsKept DEF Stored

\* The planned number is 2 or follows a number the file has.
LEMMA PlanRows ==
  ASSUME TypeInv, RowsInv, NEW r \in Requests, VersionPlan(r)
  PROVE  RowsInv'
<1> DEFINE f == up[r].file
<1>t. /\ pc \in [Requests -> {"idle"} \cup InService]
      /\ up \in [Requests -> UploadVars]
  BY DEF TypeInv, TypeOK
<1>1. PICK n \in 2 .. MaxVersion :
        /\ NextNumber(f, n)
        /\ up' = [up EXCEPT ![r].num = n, ![r].backfill = (VersionsOf(f) = {})]
  BY DEF VersionPlan
<1>2. /\ UNCHANGED <<file, versions>>
      /\ \A q \in Requests \ {r} : pc'[q] = pc[q] /\ up'[q] = up[q]
  BY <1>t, <1>1 DEF VersionPlan, Begin
<1>3. /\ up'[r].file = f /\ up'[r].num = n
      /\ up'[r].backfill = (VersionsOf(f) = {})
  BY <1>t, <1>1 DEF UploadVars
<1>4. IF up'[r].backfill THEN n = 2 ELSE n - 1 \in RowNumbers(f)
  BY <1>1, <1>3 DEF NextNumber, RowNumbers
<1>5. \A g : VersionsOf(g)' = VersionsOf(g) /\ RowNumbers(g)' = RowNumbers(g)
  BY <1>2 DEF VersionsOf, RowNumbers
<1>6. PlansInv'
  BY <1>2, <1>3, <1>4, <1>5 DEF RowsInv, PlansInv, Stored
<1>7. VersionsContiguous' /\ RowNamesLatest'
  BY <1>2, <1>5 DEF RowsInv, VersionsContiguous, RowNamesLatest, Stored
<1> QED
  BY <1>6, <1>7 DEF RowsInv

\* The first row of a file that has none: uploaded or backfilled.
LEMMA FirstRow ==
  ASSUME TypeInv, RowsInv, NEW f \in Files, VersionsOf(f) = {},
         NEW row \in FileRow, versions' = versions \cup {FirstVersion(f, row)},
         file' = [file EXCEPT ![f] = row],
         \A q \in Requests : pc'[q] \in Planned =>
            pc[q] \in Planned /\ up'[q] = up[q]
            /\ (f \in Stored \/ up[q].file # f)
  PROVE  RowsInv'
<1> DEFINE v == FirstVersion(f, row)
<1>t. file \in [Files -> FileRow \cup {None}] /\ versions \subseteq VersionRow
  BY DEF TypeInv, TypeOK
<1>1. v.file = f /\ v.num = 1 /\ v.path = row.blob /\ v.dek = row.dek
  BY DEF FirstVersion
<1>2. \A g \in Files \ {f} : file'[g] = file[g]
  BY <1>t
<1>3. file'[f] = row /\ Stored' = Stored \cup {f}
  BY <1>t, <1>2, NoneIsNoRow DEF Stored
<1>4. \A w \in versions : w.file # f
  BY DEF VersionsOf
<1> HIDE DEF v
<1>5. \A g : RowNumbers(g) \subseteq RowNumbers(g)'
  BY DEF RowNumbers, VersionsOf
<1>6. 1 \in RowNumbers(f)'
  BY <1>1 DEF RowNumbers, VersionsOf, v
<1>7. VersionsContiguous'
  <2>1. \A w \in versions' : 1 .. w.num \subseteq RowNumbers(w.file)'
    BY <1>1, <1>5, <1>6 DEF RowsInv, VersionsContiguous, v
  <2>2. \A w, x \in versions' : w.file = x.file /\ w.num = x.num => w = x
    BY <1>1, <1>4 DEF RowsInv, VersionsContiguous, v
  <2> QED
    BY <2>1, <2>2 DEF VersionsContiguous
<1>8. RowNamesLatest'
  <2> SUFFICES ASSUME NEW w \in versions'
               PROVE  /\ w.file \in Stored'
                      /\ \/ \E x \in VersionsOf(w.file)' : x.num > w.num
                         \/ file'[w.file].blob = w.path /\ file'[w.file].dek = w.dek
    BY DEF RowNamesLatest
  <2>1. CASE w = v
    BY <1>1, <1>3, <2>1
  <2>2. CASE w \in versions
    <3>1. VersionsOf(w.file) \subseteq VersionsOf(w.file)'
      BY DEF VersionsOf
    <3>2. w.file \in Files \ {f}
      BY <1>t, <1>4, <2>2 DEF VersionRow
    <3> QED
      BY <1>2, <1>3, <2>2, <3>1, <3>2 DEF RowsInv, RowNamesLatest
  <2> QED
    BY <2>1, <2>2 DEF v
<1>9. PlansInv'
  BY <1>3, <1>5 DEF RowsInv, PlansInv
<1> QED
  BY <1>7, <1>8, <1>9 DEF RowsInv

\* A version that commits becomes its file's last row and its current blob.
LEMMA NextRow ==
  ASSUME TypeInv, RowsInv, NEW r \in Requests, VersionCommit(r)
  PROVE  RowsInv'
<1>0. PICK f \in Files : f = up[r].file
  BY DEF VersionCommit, Stored
<1> DEFINE v == [file |-> f, num |-> up[r].num,
                 path |-> VersionPath(f, up[r].num), dek |-> up[r].dek,
                 size |-> up[r].size]
           first == FirstVersion(f, file[f])
<1>t. /\ TypeOK
      /\ file \in [Files -> FileRow \cup {None}] /\ versions \subseteq VersionRow
      /\ pc \in [Requests -> {"idle"} \cup InService]
      /\ up \in [Requests -> UploadVars]
  BY DEF TypeInv, TypeOK
<1>c. VersionsContiguous /\ RowNamesLatest /\ PlansInv
  BY DEF RowsInv
<1>1. /\ pc[r] = "v_written" /\ pc' = [pc EXCEPT ![r] = "idle"]
      /\ \A q \in Requests \ {r} : up'[q] = up[q]
      /\ f \in Files /\ f \in Stored /\ up[r].num \in 2 .. MaxVersion
      /\ up[r].num \notin RowNumbers(f)
  BY <1>0, <1>t DEF VersionCommit, End, Begin, TypeInv, LocalsOK, NumberTaken, Stored,
              VersionPcs
<1>2. /\ v.file = f /\ v.num = up[r].num /\ v.dek = up[r].dek
      /\ first.file = f /\ first.num = 1
  BY DEF FirstVersion
<1>3. \A w \in versions : w.file = f => w.num < v.num
  BY <1>t, <1>c, <1>1, <1>2, FreshNumberIsTop
<1>4. /\ file' = [file EXCEPT ![f] = LatestRow(file[f], v, up[r].seen)]
      /\ versions' = versions \cup (IF up[r].backfill THEN {first} ELSE {}) \cup {v}
      /\ up[r].backfill => 1 \notin RowNumbers(f)
  BY <1>0 DEF VersionCommit, NumberTaken
<1>5. /\ file[f] \in FileRow
      /\ LatestRow(file[f], v, up[r].seen) # None
      /\ LatestRow(file[f], v, up[r].seen).blob = v.path
      /\ LatestRow(file[f], v, up[r].seen).dek = v.dek
  <2>1. file[f] \in FileRow
    BY <1>t, <1>1 DEF Stored
  <2>2. v \in VersionRow
    BY <1>0, <1>1, PathTypes DEF VersionRow, TypeInv, LocalsOK, VersionPcs
  <2>3. LatestRow(file[f], v, up[r].seen) \in FileRow
    BY <2>1, <2>2 DEF LatestRow, FileRow, VersionRow
  <2> HIDE DEF v
  <2> QED
    BY <2>1, <2>3, NoneIsNoRow DEF LatestRow, FileRow
<1>6. /\ Stored' = Stored
      /\ \A g \in Files \ {f} : file'[g] = file[g]
      /\ file'[f].blob = v.path /\ file'[f].dek = v.dek
  BY <1>t, <1>1, <1>4, <1>5 DEF Stored
<1>7. /\ up[r].backfill => up[r].num = 2 /\ \A w \in versions : w.file # f
      /\ ~up[r].backfill => up[r].num - 1 \in RowNumbers(f)
  <2>1. /\ up[r].backfill => up[r].num = 2
        /\ ~up[r].backfill => up[r].num - 1 \in RowNumbers(f)
    BY <1>0, <1>c, <1>1 DEF PlansInv, Planned
  <2>2. ASSUME up[r].backfill, NEW w \in versions, w.file = f PROVE FALSE
    <3>1. w.num \in Nat /\ w.num > 0
      BY <1>t, FileStorageAssumption DEF VersionRow
    <3>2. 1 \in 1 .. w.num
      BY <3>1
    <3> QED
      BY <1>c, <1>4, <2>2, <3>2 DEF VersionsContiguous
  <2> QED
    BY <2>1, <2>2
<1> HIDE DEF v, first
<1>8. \A g : /\ RowNumbers(g) \subseteq RowNumbers(g)'
             /\ VersionsOf(g) \subseteq VersionsOf(g)'
  BY <1>4 DEF RowNumbers, VersionsOf
<1>9. /\ v.num \in RowNumbers(f)'
      /\ up[r].backfill => 1 \in RowNumbers(f)'
  BY <1>2, <1>4 DEF RowNumbers, VersionsOf
<1>10. VersionsContiguous'
  <2>1. 1 .. v.num \subseteq RowNumbers(f)'
    <3>1. CASE up[r].backfill
      BY <1>2, <1>7, <1>9, <3>1
    <3>2. CASE ~up[r].backfill
      <4>1. PICK w \in versions : w.file = f /\ w.num = v.num - 1
        BY <1>2, <1>7, <3>2 DEF RowNumbers, VersionsOf
      <4>2. 1 .. (v.num - 1) \subseteq RowNumbers(f)'
        BY <1>c, <1>8, <4>1 DEF VersionsContiguous
      <4> QED
        BY <1>1, <1>2, <1>9, <4>2, FileStorageAssumption
    <3> QED
      BY <3>1, <3>2
  <2>2. \A w \in versions' : 1 .. w.num \subseteq RowNumbers(w.file)'
    <3>1. \A w \in versions : 1 .. w.num \subseteq RowNumbers(w.file)'
      BY <1>c, <1>8 DEF VersionsContiguous
    <3>2. up[r].backfill => 1 .. 1 \subseteq RowNumbers(f)'
      BY <1>2, <1>9
    <3> QED
      BY <1>2, <1>4, <2>1, <3>1, <3>2
  <2>3. \A w, x \in versions' : w.file = x.file /\ w.num = x.num => w = x
    <3>1. \A w \in versions' \ {v} : w.file = f => w.num < v.num
      BY <1>1, <1>2, <1>3, <1>4, <1>7
    <3>2. \A w, x \in versions' \ {v} :
            w.file = x.file /\ w.num = x.num => w = x
      BY <1>c, <1>2, <1>4, <1>7 DEF VersionsContiguous
    <3>3. v.num \in Nat
      BY <1>1, <1>2
    <3> QED
      BY <1>2, <3>1, <3>2, <3>3
  <2> QED
    BY <2>2, <2>3 DEF VersionsContiguous
<1>11. RowNamesLatest'
  <2> SUFFICES ASSUME NEW w \in versions'
               PROVE  /\ w.file \in Stored'
                      /\ \/ \E x \in VersionsOf(w.file)' : x.num > w.num
                         \/ file'[w.file].blob = w.path /\ file'[w.file].dek = w.dek
    BY DEF RowNamesLatest
  <2>1. CASE w = v
    BY <1>1, <1>2, <1>6, <2>1
  <2>2. CASE w # v /\ w.file = f
    <3>1. v \in VersionsOf(f)'
      BY <1>2, <1>4 DEF VersionsOf
    <3>2. w.num < v.num /\ w.num \in Int /\ v.num \in Int
      BY <1>t, <1>1, <1>2, <1>3, <1>4, <2>2, FileStorageAssumption DEF VersionRow
    <3> QED
      BY <1>1, <1>6, <2>2, <3>1, <3>2
  <2>3. CASE w.file # f
    <3>1. w \in versions
      BY <1>2, <1>4, <2>3
    <3>2. w.file \in Files \ {f}
      BY <1>t, <2>3, <3>1 DEF VersionRow
    <3> QED
      BY <1>c, <1>6, <1>8, <3>1, <3>2 DEF RowNamesLatest
  <2> QED
    BY <2>1, <2>2, <2>3
<1>12. PlansInv'
  BY <1>t, <1>c, <1>1, <1>6, <1>8 DEF PlansInv, Planned
<1> QED
  BY <1>10, <1>11, <1>12 DEF RowsInv

\* A purge takes all rows of a file at once.
LEMMA PurgedRows ==
  ASSUME TypeInv, RowsInv, NEW r \in Requests, PurgeCommit(r)
  PROVE  RowsInv'
<1>0. PICK gone \in SUBSET Files : gone = pg[r].gone
  BY DEF TypeInv, TypeOK, PurgeVars
<1>t. /\ file \in [Files -> FileRow \cup {None}] /\ versions \subseteq VersionRow
      /\ pc \in [Requests -> {"idle"} \cup InService]
      /\ up \in [Requests -> UploadVars]
  BY DEF TypeInv, TypeOK
<1>1. /\ file' = [f \in Files |-> IF f \in gone THEN None ELSE file[f]]
      /\ versions' = {v \in versions : v.file \notin gone}
      /\ pc' = [pc EXCEPT ![r] = "idle"]
      /\ \A q \in Requests \ {r} : up'[q] = up[q]
  BY <1>0, <1>t DEF PurgeCommit, End, Begin
<1>2. Stored' = Stored \ gone
  BY <1>1 DEF Stored
<1>3. \A f : f \notin gone =>
        RowNumbers(f)' = RowNumbers(f) /\ VersionsOf(f)' = VersionsOf(f)
  BY <1>1 DEF RowNumbers, VersionsOf
<1>4. VersionsContiguous'
  BY <1>1, <1>3 DEF RowsInv, VersionsContiguous
<1>5. RowNamesLatest'
  <2>1. \A v \in versions' : v.file \in Stored' /\ file'[v.file] = file[v.file]
    BY <1>1, <1>2 DEF RowsInv, RowNamesLatest, Stored
  <2> QED
    BY <1>1, <1>3, <2>1 DEF RowsInv, RowNamesLatest
<1>6. PlansInv'
  BY <1>t, <1>1, <1>2, <1>3 DEF RowsInv, PlansInv, Planned
<1> QED
  BY <1>4, <1>5, <1>6 DEF RowsInv

LEMMA RowsStep ==
  ASSUME TypeInv, IdsInv, RowsInv, [Next]_vars
  PROVE  RowsInv'
<1>1. CASE UNCHANGED vars
  BY <1>1, RowsKept DEF vars, Stored
<1>2. ASSUME NEW r \in Requests, UploadCommit(r) PROVE RowsInv'
  <2>1. PICK f \in Files : f = up[r].file /\ pc[r] = "u_written"
    BY <1>2 DEF UploadCommit, End, Begin, TypeInv, LocalsOK
  <2> DEFINE row == [owner |-> Owner[r], size |-> up[r].size,
                     blob |-> BasePath(f), dek |-> up[r].dek, trashed |-> FALSE]
  <2>2. row \in FileRow
    BY <2>1, PathTypes, FileStorageAssumption DEF FileRow, TypeInv, LocalsOK
  <2>3. /\ file' = [file EXCEPT ![f] = row]
        /\ versions' = versions \cup {FirstVersion(f, row)}
    BY <1>2, <2>1 DEF UploadCommit
  <2>4. VersionsOf(f) = {}
    BY <2>1 DEF IdsInv, RowsInv, RowNamesLatest, VersionsOf
  <2>5. \A q \in Requests : pc'[q] \in Planned =>
          pc[q] \in Planned /\ up'[q] = up[q] /\ up[q].file # f
    BY <1>2, <2>1
       DEF UploadCommit, End, Begin, Planned, Writing, VersionPcs, IdsInv, TypeInv,
           TypeOK
  <2> HIDE DEF row
  <2> QED
    BY <2>2, <2>3, <2>4, <2>5, FirstRow
<1>3. ASSUME NEW r \in Requests, NEW f \in Files, BackfillFirst(r, f) PROVE RowsInv'
  <2>1. file[f] \in FileRow /\ f \in Stored /\ VersionsOf(f) = {}
    BY <1>3 DEF BackfillFirst, Owns, Stored, TypeInv, TypeOK
  <2>2. file' = [file EXCEPT ![f] = file[f]]
    BY <1>3 DEF BackfillFirst, TypeInv, TypeOK
  <2>3. PICK row \in FileRow : row = file[f]
    BY <2>1
  <2> QED
    BY <1>3, <2>1, <2>2, <2>3, FirstRow DEF BackfillFirst
<1> QED
  BY <1>1, <1>2, <1>3, StepCases, QuietRows, TrashRows, PlanRows, NextRow, PurgedRows

LEMMA RowsInit == Init => IdsInv /\ RowsInv
<1> SUFFICES ASSUME Init PROVE IdsInv /\ RowsInv
  OBVIOUS
<1>1. /\ versions = {} /\ condemned = {} /\ issued.ids = Legacy
      /\ \A r \in Requests : pc[r] = "idle"
  BY DEF Init
<1>2. Stored \subseteq Legacy
  BY FileStorageAssumption DEF Init, Stored
<1>3. IdsInv
  BY <1>1, <1>2 DEF IdsInv, Writing, VersionPcs
<1>4. RowsInv
  BY <1>1 DEF RowsInv, VersionsContiguous, RowNamesLatest, PlansInv, Planned
<1> QED
  BY <1>3, <1>4

LEMMA RowsInvariant == Spec => [](IdsInv /\ RowsInv)
<1>1. TypeInv /\ (IdsInv /\ RowsInv) /\ [Next]_vars => (IdsInv /\ RowsInv)'
  BY IdsStep, RowsStep
<1> QED
  BY <1>1, RowsInit, TypeInvariant, PTL DEF Spec

\* The version numbers of a file stay 1..n however version uploads race and
\* wherever they die: nothing but uq_file_version_number orders them.
THEOREM VersionNumbersContiguous == Spec => []VersionsContiguous
  BY RowsInvariant, PTL DEF RowsInv

\* The files row always carries the path and the key of the last version, so
\* GET .../download and GET .../versions/<n> agree on it.
THEOREM RowAlwaysLatest == Spec => []RowNamesLatest
  BY RowsInvariant, PTL DEF RowsInv

-----------------------------------------------------------------------------
\* No two files and no two versions of a file share a path, but for what two
\* requests plan under one number.
LEMMA PathFacts ==
  /\ \A f : BasePath(f)[1] = f
  /\ \A f, n : VersionPath(f, n)[1] = f
  /\ \A f, g : BasePath(f) = BasePath(g) => f = g
  /\ \A f, g, n : n # 0 => BasePath(f) # VersionPath(g, n)
BY DEF BasePath, VersionPath

\* Steps that change neither rows nor blobs' names.
LEMMA PathsKept ==
  ASSUME TypeInv, PathsInv, versions' = versions, Stored' = Stored,
         \A f \in Stored : file'[f].blob = file[f].blob,
         condemned \subseteq condemned',
         \A q \in Requests : pc'[q] = "unlinking" =>
           pc[q] = "unlinking" /\ pg'[q].paths \subseteq pg[q].paths
  PROVE  PathsInv'
<1>1. \A f : VersionsOf(f)' = VersionsOf(f)
  BY DEF VersionsOf
<1> QED
  BY <1>1 DEF PathsInv, BasePath, VersionPath

\* Every path a purge collects for a file starts with the file's id.
LEMMA LoadPaths ==
  ASSUME TypeInv, PathsInv, NEW r \in Requests, NEW f \in Files, PurgeLoad(r, f)
  PROVE  PathsInv'
<1>1. /\ UNCHANGED <<file, versions>> /\ f \in Stored
      /\ condemned' = condemned \cup {f}
      /\ pg'[r].paths = PurgePaths(f)
      /\ \A q \in Requests \ {r} : pc'[q] = pc[q] /\ pg'[q] = pg[q]
  BY DEF PurgeLoad, Begin, TypeInv, TypeOK, PurgeVars
<1>2. \A p \in PurgePaths(f) : p[1] = f
  BY <1>1, PathFacts DEF PurgePaths, PathsInv, VersionsOf
<1>3. \A g : VersionsOf(g)' = VersionsOf(g)
  BY <1>1 DEF VersionsOf
<1> QED
  BY <1>1, <1>2, <1>3 DEF PathsInv, BasePath, VersionPath, Stored

LEMMA PathsStep ==
  ASSUME TypeInv, IdsInv, RowsInv, PathsInv, [Next]_vars
  PROVE  PathsInv'
<1>t. /\ file \in [Files -> FileRow \cup {None}] /\ versions \subseteq VersionRow
      /\ pc \in [Requests -> {"idle"} \cup InService]
      /\ up \in [Requests -> UploadVars]
      /\ pg \in [Requests -> PurgeVars]
  BY DEF TypeInv, TypeOK
<1>1. CASE UNCHANGED vars
  BY <1>1, PathsKept DEF vars, Stored
<1>2. ASSUME NEW r \in Requests,
             \/ Quit(r) \/ VersionPlan(r)
             \/ \E s \in Sizes : UploadCheck(r, s)
             \/ \E f \in Files, d \in Deks : UploadWrite(r, f, d)
             \/ \E f \in Files, s \in Sizes : VersionLoad(r, f, s)
             \/ \E d \in Deks : VersionWrite(r, d)
             \/ \E f \in Files : PurgeSkip(r, f)
             \/ \E fs \in SUBSET Files : PurgeBegin(r, fs)
             \/ \E p \in Path : PurgeUnlink(r, p)
      PROVE  PathsInv'
  <2>1. UNCHANGED <<file, versions, condemned>>
    BY <1>2 DEF Quit, UploadCheck, UploadWrite, VersionLoad, VersionPlan,
                VersionWrite, PurgeSkip, PurgeBegin, PurgeUnlink
  <2>2. \A q \in Requests \ {r} : pc'[q] = pc[q] /\ pg'[q] = pg[q]
    BY <1>t, <1>2 DEF Quit, UploadCheck, UploadWrite, VersionLoad, VersionPlan,
         VersionWrite, PurgeSkip, PurgeBegin, PurgeUnlink, Begin, End
  <2>3. pc'[r] = "unlinking" =>
          pc[r] = "unlinking" /\ pg'[r].paths \subseteq pg[r].paths
    <3>1. ASSUME NEW p \in Path, PurgeUnlink(r, p)
          PROVE  pc[r] = "unlinking" /\ pg'[r].paths = pg[r].paths \ {p}
      BY <1>t, <3>1 DEF PurgeUnlink, PurgeVars
    <3>2. ASSUME NEW f \in Files, PurgeSkip(r, f)
          PROVE  pc'[r] = "purging"
      BY <1>t, <3>2 DEF PurgeSkip
    <3> QED
      BY <1>t, <1>2, <3>1, <3>2
         DEF Quit, UploadCheck, UploadWrite, VersionLoad, VersionPlan, VersionWrite,
             PurgeBegin, Begin, End
  <2> QED
    BY <2>1, <2>2, <2>3, PathsKept DEF Stored
<1>3. ASSUME NEW r \in Requests, NEW f \in Files, SoftDelete(r, f) \/ Restore(r, f)
      PROVE  PathsInv'
  <2>1. PICK b \in BOOLEAN : file' = [file EXCEPT ![f].trashed = b]
    BY <1>3 DEF SoftDelete, Restore
  <2>2. f \in Stored /\ UNCHANGED <<versions, condemned, pc, pg>>
    BY <1>3 DEF SoftDelete, Restore, Owns
  <2>3. file[f] \in FileRow /\ file'[f] = [file[f] EXCEPT !.trashed = b]
    BY <1>t, <2>1, <2>2 DEF Stored
  <2>4. file'[f] \in FileRow /\ file'[f].blob = file[f].blob
    BY <2>3 DEF FileRow
  <2>5. \A g \in Files \ {f} : file'[g] = file[g]
    BY <1>t, <2>1
  <2>6. Stored' = Stored
    BY <2>2, <2>4, <2>5, NoneIsNoRow DEF Stored
  <2> QED
    BY <2>2, <2>4, <2>5, <2>6, PathsKept DEF Stored
<1>4. ASSUME NEW f \in Files, NEW row \in FileRow, row.blob = BasePath(f),
             file' = [file EXCEPT ![f] = row],
             versions' = versions \cup {FirstVersion(f, row)}, condemned' = condemned,
             \A q \in Requests : pc'[q] = "unlinking" =>
               pc[q] = "unlinking" /\ pg'[q] = pg[q]
      PROVE  PathsInv'
  <2>1. /\ \A g \in Files \ {f} : file'[g] = file[g]
        /\ file'[f] = row /\ Stored' = Stored \cup {f}
    BY <1>t, <1>4, NoneIsNoRow DEF Stored
  <2>2. /\ FirstVersion(f, row).path = BasePath(f)
        /\ FirstVersion(f, row).num = 1 /\ FirstVersion(f, row).file = f
    BY <1>4 DEF FirstVersion
  <2>3. \A g : VersionsOf(g) \subseteq VersionsOf(g)'
    BY <1>4 DEF VersionsOf
  <2>4. \A g \in Stored' : /\ file'[g].blob[1] = g
                           /\ VersionsOf(g)' = {} => file'[g].blob = BasePath(g)
    BY <1>4, <2>1, <2>3, PathFacts DEF PathsInv, Stored
  <2>5. \A w \in versions' :
          w.path = IF w.num = 1 THEN BasePath(w.file) ELSE VersionPath(w.file, w.num)
    BY <1>4, <2>2 DEF PathsInv
  <2> QED
    BY <1>4, <2>4, <2>5 DEF PathsInv, BasePath, VersionPath
<1>5. ASSUME NEW r \in Requests, UploadCommit(r) PROVE PathsInv'
  <2>1. PICK f \in Files : f = up[r].file /\ pc[r] = "u_written"
    BY <1>5 DEF UploadCommit, End, Begin, TypeInv, LocalsOK
  <2> DEFINE row == [owner |-> Owner[r], size |-> up[r].size,
                     blob |-> BasePath(f), dek |-> up[r].dek, trashed |-> FALSE]
  <2>2. row \in FileRow /\ row.blob = BasePath(f)
    BY <2>1, PathTypes, FileStorageAssumption DEF FileRow, TypeInv, LocalsOK
  <2>3. /\ file' = [file EXCEPT ![f] = row]
        /\ versions' = versions \cup {FirstVersion(f, row)}
        /\ condemned' = condemned
    BY <1>5, <2>1 DEF UploadCommit
  <2>4. \A q \in Requests : pc'[q] = "unlinking" =>
          pc[q] = "unlinking" /\ pg'[q] = pg[q]
    BY <1>t, <1>5 DEF UploadCommit, End, Begin
  <2> HIDE DEF row
  <2> QED
    BY <1>4, <2>2, <2>3, <2>4
<1>6. ASSUME NEW r \in Requests, NEW f \in Files, BackfillFirst(r, f) PROVE PathsInv'
  <2>1. file[f] \in FileRow /\ f \in Stored /\ VersionsOf(f) = {}
    BY <1>t, <1>6 DEF BackfillFirst, Owns, Stored
  <2>2. file' = [file EXCEPT ![f] = file[f]] /\ file[f].blob = BasePath(f)
    BY <1>t, <1>6, <2>1 DEF BackfillFirst, PathsInv
  <2>3. PICK row \in FileRow : row = file[f]
    BY <2>1
  <2> QED
    BY <1>4, <1>6, <2>2, <2>3 DEF BackfillFirst
<1>7. ASSUME NEW r \in Requests, VersionCommit(r) PROVE PathsInv'
  <2>0. PICK f \in Files, n \in 2 .. MaxVersion :
          f = up[r].file /\ n = up[r].num
    BY <1>7 DEF VersionCommit, End, Begin, TypeInv, LocalsOK, VersionPcs
  <2> DEFINE v == [file |-> f, num |-> n, path |-> VersionPath(f, n),
                   dek |-> up[r].dek, size |-> up[r].size]
             first == FirstVersion(f, file[f])
             top == LatestRow(file[f], v, up[r].seen)
  <2>1. /\ f \in Stored /\ file[f] \in FileRow
        /\ file' = [file EXCEPT ![f] = top]
        /\ versions' = versions \cup (IF up[r].backfill THEN {first} ELSE {}) \cup {v}
        /\ up[r].backfill => 1 \notin RowNumbers(f)
        /\ condemned' = condemned
    BY <1>t, <1>7, <2>0 DEF VersionCommit, NumberTaken, Stored
  <2>2. /\ v.path = VersionPath(f, n) /\ v.num = n /\ n # 1 /\ v.file = f
        /\ first.path = file[f].blob /\ first.num = 1 /\ first.file = f
    BY <2>0 DEF FirstVersion
  <2>3. top # None /\ top.blob = v.path
    <3>1. v \in VersionRow
      BY <1>7, <2>0, PathTypes
         DEF VersionRow, VersionCommit, End, Begin, TypeInv, LocalsOK, VersionPcs
    <3>2. top \in FileRow
      BY <2>1, <3>1 DEF LatestRow, FileRow, VersionRow
    <3> HIDE DEF v
    <3> QED
      BY <2>1, <3>2, NoneIsNoRow DEF LatestRow, FileRow
  <2>4. up[r].backfill => file[f].blob = BasePath(f)
    <3>1. ASSUME up[r].backfill, NEW w \in versions, w.file = f PROVE FALSE
      <4>1. 1 \in 1 .. w.num
        BY <1>t, FileStorageAssumption DEF VersionRow
      <4> QED
        BY <2>1, <3>1, <4>1 DEF RowsInv, VersionsContiguous
    <3> QED
      BY <2>1, <3>1 DEF PathsInv, VersionsOf
  <2> HIDE DEF v, first, top
  <2>5. /\ \A g \in Files \ {f} : file'[g] = file[g]
        /\ file'[f] = top /\ Stored' = Stored
    BY <1>t, <2>1, <2>3 DEF Stored
  <2>6. \A q \in Requests : pc'[q] = "unlinking" =>
          pc[q] = "unlinking" /\ pg'[q] = pg[q]
    BY <1>t, <1>7 DEF VersionCommit, End, Begin
  <2>7. \A g : VersionsOf(g) \subseteq VersionsOf(g)'
    BY <2>1 DEF VersionsOf
  <2>8. v \in VersionsOf(f)'
    BY <2>1, <2>2 DEF VersionsOf
  <2>9. \A g \in Stored' : /\ file'[g].blob[1] = g
                           /\ VersionsOf(g)' = {} => file'[g].blob = BasePath(g)
    BY <2>2, <2>3, <2>5, <2>7, <2>8, PathFacts DEF PathsInv, Stored
  <2>10. \A w \in versions' :
          w.path = IF w.num = 1 THEN BasePath(w.file) ELSE VersionPath(w.file, w.num)
    BY <2>1, <2>2, <2>4 DEF PathsInv
  <2> QED
    BY <2>1, <2>6, <2>9, <2>10 DEF PathsInv, BasePath, VersionPath
<1>8. ASSUME NEW r \in Requests, PurgeCommit(r) PROVE PathsInv'
  <2>0. PICK gone \in SUBSET Files : gone = pg[r].gone
    BY <1>t DEF PurgeVars
  <2>1. /\ file' = [f \in Files |-> IF f \in gone THEN None ELSE file[f]]
        /\ versions' = {v \in versions : v.file \notin gone}
        /\ condemned' = condemned
        /\ \A q \in Requests : pc'[q] = "unlinking" =>
             pc[q] = "unlinking" /\ pg'[q] = pg[q]
    BY <1>t, <1>8, <2>0 DEF PurgeCommit, End, Begin
  <2>2. Stored' = Stored \ gone
    BY <2>1 DEF Stored
  <2>3. \A f : f \notin gone => VersionsOf(f)' = VersionsOf(f)
    BY <2>1 DEF VersionsOf
  <2> QED
    BY <2>1, <2>2, <2>3 DEF PathsInv, BasePath, VersionPath, Stored
<1> QED
  BY <1>1, <1>2, <1>3, <1>5, <1>6, <1>7, <1>8, StepCases, LoadPaths

\* Steps that leave the disk as it is and add no row.
LEMMA DiskKept ==
  ASSUME TypeInv, DiskInv, disk' = disk, versions' \subseteq versions,
         Stored' \subseteq Stored, condemned \subseteq condemned',
         \A f \in Stored' : /\ file'[f].dek = file[f].dek
                            /\ VersionsOf(f)' = VersionsOf(f),
         \A q \in Requests : pc'[q] \in {"u_written", "v_written"} =>
           pc'[q] = pc[q] /\ up'[q] = up[q]
  PROVE  DiskInv'
<1>1. /\ \A f \in Stored' \ condemned' :
           VersionsOf(f)' = {} => disk'[BasePath(f)] = file'[f].dek
      /\ BlobPresent' /\ FirstVersionReadable'
  BY DEF DiskInv, BlobPresent, FirstVersionReadable
<1>2. \A q \in Requests :
       /\ pc'[q] = "u_written" => disk'[BasePath(up'[q].file)] = up'[q].dek
       /\ pc'[q] = "v_written" /\ up'[q].file \notin condemned' =>
            disk'[VersionPath(up'[q].file, up'[q].num)] # None
  BY DEF DiskInv
<1> QED
  BY <1>1, <1>2 DEF DiskInv, BasePath, VersionPath

\* Steps that write one path: of a file that has just been drawn, of a version
\* after the first, or of a file that a purge has condemned.
LEMMA DiskWritten ==
  ASSUME TypeInv, IdsInv, RowsInv, PathsInv, DiskInv,
         NEW p \in Path, NEW c \in Deks \cup {None},
         disk' = [disk EXCEPT ![p] = c], UNCHANGED <<file, versions, condemned>>,
         \/ p[1] \in condemned
         \/ c # None /\ p[1] \notin issued.ids
         \/ c # None /\ \A f : p # BasePath(f),
         NEW r \in Requests,
         pc'[r] = "u_written" => disk'[BasePath(up'[r].file)] = up'[r].dek,
         pc'[r] = "v_written" =>
           disk'[VersionPath(up'[r].file, up'[r].num)] # None,
         \A q \in Requests \ {r} : pc'[q] = pc[q] /\ up'[q] = up[q]
  PROVE  DiskInv'
<1>t. /\ disk \in [Path -> Deks \cup {None}]
      /\ \A q \in Requests : LocalsOK(q)
      /\ versions \subseteq VersionRow
  BY DEF TypeInv, TypeOK
<1>1. \A o \in Path : o # p => disk'[o] = disk[o]
  BY <1>t
<1>2. disk'[p] = c
  BY <1>t
<1>3. \A f : VersionsOf(f)' = VersionsOf(f) /\ Stored' = Stored
  BY DEF VersionsOf, Stored
<1>4. \A f \in Stored \ condemned : f \in Files /\ BasePath(f) \in Path /\ BasePath(f) # p
  BY PathTypes, PathFacts DEF IdsInv, Stored
<1>5. \A v \in versions : v.file \in Stored /\ v.path \in Path /\ v.path[1] = v.file
  BY <1>t, PathFacts DEF RowsInv, RowNamesLatest, PathsInv, VersionRow
<1>6. BlobPresent'
  BY <1>1, <1>2, <1>5 DEF DiskInv, BlobPresent, IdsInv
<1>7. FirstVersionReadable'
  <2>1. \A v \in versions : v.num = 1 => v.path = BasePath(v.file)
    BY DEF PathsInv
  <2> QED
    BY <1>1, <1>4, <1>5, <2>1 DEF DiskInv, FirstVersionReadable
<1>8. \A f \in Stored' \ condemned' :
        VersionsOf(f)' = {} => disk'[BasePath(f)] = file'[f].dek
  BY <1>1, <1>3, <1>4 DEF DiskInv
<1>9. ASSUME NEW q \in Requests \ {r}
      PROVE  /\ pc'[q] = "u_written" => disk'[BasePath(up'[q].file)] = up'[q].dek
             /\ pc'[q] = "v_written" /\ up'[q].file \notin condemned' =>
                  disk'[VersionPath(up'[q].file, up'[q].num)] # None
  <2>1. ASSUME pc[q] = "u_written" PROVE disk'[BasePath(up[q].file)] = up[q].dek
    <3>1. /\ up[q].file \in issued.ids \ condemned
          /\ BasePath(up[q].file) \in Path
      BY <1>t, <2>1, PathTypes DEF IdsInv, Writing, LocalsOK
    <3>2. BasePath(up[q].file) # p
      BY <3>1, PathFacts
    <3> QED
      BY <1>1, <2>1, <3>1, <3>2 DEF DiskInv
  <2>2. ASSUME pc[q] = "v_written", up[q].file \notin condemned
        PROVE  disk'[VersionPath(up[q].file, up[q].num)] # None
    <3>1. /\ up[q].file \in Files /\ up[q].num \in 0 .. MaxVersion
      BY <1>t, <2>2 DEF LocalsOK, VersionPcs
    <3>2. VersionPath(up[q].file, up[q].num) \in Path
      BY <3>1, PathTypes
    <3>3. CASE VersionPath(up[q].file, up[q].num) = p
      BY <1>2, <2>2, <3>3, PathFacts DEF IdsInv, Writing, VersionPcs
    <3> QED
      BY <1>1, <2>2, <3>2, <3>3 DEF DiskInv
  <2> QED
    BY <2>1, <2>2
<1>10. \A q \in Requests :
       /\ pc'[q] = "u_written" => disk'[BasePath(up'[q].file)] = up'[q].dek
       /\ pc'[q] = "v_written" /\ up'[q].file \notin condemned' =>
            disk'[VersionPath(up'[q].file, up'[q].num)] # None
  BY <1>9
<1> QED
  BY <1>6, <1>7, <1>8, <1>10 DEF DiskInv, BasePath, VersionPath

\* Steps that commit rows: the ciphertext was written before.
LEMMA DiskCommitted ==
  ASSUME TypeInv, DiskInv, NEW new, disk' = disk, condemned' = condemned,
         versions' = versions \cup new, NEW f \in Files,
         \A g \in Files \ {f} : file'[g] = file[g],
         \A v \in new : v.file = f, new # {},
         f \notin condemned =>
           \A v \in new : /\ disk[v.path] # None
                          /\ v.num = 1 => disk[v.path] = v.dek,
         \A q \in Requests : pc'[q] \in {"u_written", "v_written"} =>
           pc'[q] = pc[q] /\ up'[q] = up[q]
  PROVE  DiskInv'
<1>1. VersionsOf(f)' # {} /\ \A g : VersionsOf(g) \subseteq VersionsOf(g)'
  BY DEF VersionsOf
<1>2. \A g \in Stored' \ {f} : g \in Stored /\ file'[g] = file[g]
  BY DEF Stored
<1>3. \A g \in Stored' \ condemned' :
        VersionsOf(g)' = {} => disk'[BasePath(g)] = file'[g].dek
  BY <1>1, <1>2 DEF DiskInv
<1>4. BlobPresent' /\ FirstVersionReadable'
  <2> SUFFICES ASSUME NEW v \in versions', v.file \notin condemned'
               PROVE  /\ disk'[v.path] # None
                      /\ v.num = 1 => disk'[v.path] = v.dek
    BY DEF BlobPresent, FirstVersionReadable
  <2>1. CASE v \in versions
    BY <2>1 DEF DiskInv, BlobPresent, FirstVersionReadable
  <2>2. CASE v \in new
    BY <2>2
  <2> QED
    BY <2>1, <2>2
<1>5. \A q \in Requests :
       /\ pc'[q] = "u_written" => disk'[BasePath(up'[q].file)] = up'[q].dek
       /\ pc'[q] = "v_written" /\ up'[q].file \notin condemned' =>
            disk'[VersionPath(up'[q].file, up'[q].num)] # None
  BY DEF DiskInv
<1> QED
  BY <1>3, <1>4, <1>5 DEF DiskInv, BasePath, VersionPath

LEMMA DiskStep ==
  ASSUME TypeInv, IdsInv, RowsInv, PathsInv, DiskInv, [Next]_vars
  PROVE  DiskInv'
<1>t. /\ file \in [Files -> FileRow \cup {None}] /\ versions \subseteq VersionRow
      /\ pc \in [Requests -> {"idle"} \cup InService]
      /\ up \in [Requests -> UploadVars]
      /\ disk \in [Path -> Deks \cup {None}]
  BY DEF TypeInv, TypeOK
<1>1. CASE UNCHANGED vars
  BY <1>1, DiskKept DEF vars, Stored, VersionsOf
<1>2. ASSUME NEW r \in Requests,
             \/ Quit(r) \/ VersionPlan(r)
             \/ \E s \in Sizes : UploadCheck(r, s)
             \/ \E f \in Files, s \in Sizes : VersionLoad(r, f, s)
             \/ \E f \in Files : PurgeLoad(r, f) \/ PurgeSkip(r, f)
             \/ \E fs \in SUBSET Files : PurgeBegin(r, fs)
      PROVE  DiskInv'
  <2>1. UNCHANGED <<file, versions, disk>> /\ condemned \subseteq condemned'
    BY <1>2 DEF Quit, UploadCheck, VersionLoad, VersionPlan, PurgeLoad, PurgeSkip,
                PurgeBegin
  <2>2. \A q \in Requests \ {r} : pc'[q] = pc[q] /\ up'[q] = up[q]
    BY <1>t, <1>2 DEF Quit, UploadCheck, VersionLoad, VersionPlan, PurgeLoad,
         PurgeSkip, PurgeBegin, Begin, End
  <2>3. pc'[r] \notin {"u_written", "v_written"}
    BY <1>t, <1>2 DEF Quit, UploadCheck, VersionLoad, VersionPlan, PurgeLoad,
         PurgeSkip, PurgeBegin, Begin, End
  <2> QED
    BY <2>1, <2>2, <2>3, DiskKept DEF Stored, VersionsOf
<1>3. ASSUME NEW r \in Requests, NEW f \in Files, SoftDelete(r, f) \/ Restore(r, f)
      PROVE  DiskInv'
  <2>1. PICK b \in BOOLEAN : file' = [file EXCEPT ![f].trashed = b]
    BY <1>3 DEF SoftDelete, Restore
  <2>2. f \in Stored /\ UNCHANGED <<versions, disk, condemned, pc, up>>
    BY <1>3 DEF SoftDelete, Restore, Owns
  <2>3. file[f] \in FileRow /\ file'[f] = [file[f] EXCEPT !.trashed = b]
    BY <1>t, <2>1, <2>2 DEF Stored
  <2>4. file'[f].dek = file[f].dek
    BY <2>3 DEF FileRow
  <2>5. \A g \in Files \ {f} : file'[g] = file[g]
    BY <1>t, <2>1
  <2>6. Stored' \subseteq Stored
    BY <2>2, <2>5 DEF Stored
  <2> QED
    BY <2>2, <2>4, <2>5, <2>6, DiskKept DEF Stored, VersionsOf
<1>4. ASSUME NEW r \in Requests, PurgeCommit(r) PROVE DiskInv'
  <2>0. PICK gone \in SUBSET Files : gone = pg[r].gone
    BY DEF TypeInv, TypeOK, PurgeVars
  <2>1. /\ file' = [f \in Files |-> IF f \in gone THEN None ELSE file[f]]
        /\ versions' = {v \in versions : v.file \notin gone}
        /\ UNCHANGED <<disk, condemned>>
        /\ \A q \in Requests : pc'[q] \in {"u_written", "v_written"} =>
             pc'[q] = pc[q] /\ up'[q] = up[q]
    BY <1>t, <1>4, <2>0 DEF PurgeCommit, End, Begin
  <2>2. Stored' = Stored \ gone
    BY <2>1 DEF Stored
  <2>3. \A f : f \notin gone => VersionsOf(f)' = VersionsOf(f)
    BY <2>1 DEF VersionsOf
  <2> QED
    BY <2>1, <2>2, <2>3, DiskKept DEF Stored
<1>5. ASSUME NEW r \in Requests, NEW f \in Files, NEW d \in Deks, UploadWrite(r, f, d)
      PROVE  DiskInv'
  <2>1. /\ disk' = [disk EXCEPT ![BasePath(f)] = d] /\ f \notin issued.ids
        /\ UNCHANGED <<file, versions, condemned>>
        /\ pc' = [pc EXCEPT ![r] = "u_written"]
        /\ up' = [up EXCEPT ![r].file = f, ![r].dek = d]
    BY <1>5 DEF UploadWrite, Begin
  <2>2. up'[r].file = f /\ up'[r].dek = d
    BY <1>t, <2>1 DEF UploadVars
  <2>3. BasePath(f) \in Path /\ d # None
    BY PathTypes, FileStorageAssumption
  <2>4. disk'[BasePath(up'[r].file)] = up'[r].dek
    BY <1>t, <2>1, <2>2, <2>3 DEF BasePath
  <2>5. \A q \in Requests \ {r} : pc'[q] = pc[q] /\ up'[q] = up[q]
    BY <1>t, <2>1
  <2>6. pc'[r] # "v_written" /\ BasePath(f)[1] = f
    BY <1>t, <2>1, PathFacts
  <2> QED
    BY <2>1, <2>3, <2>4, <2>5, <2>6, DiskWritten
<1>6. ASSUME NEW r \in Requests, NEW d \in Deks, VersionWrite(r, d) PROVE DiskInv'
  <2>0. PICK f \in Files, n \in 2 .. MaxVersion : f = up[r].file /\ n = up[r].num
    BY <1>6 DEF VersionWrite, Begin, TypeInv, LocalsOK, VersionPcs
  <2>1. /\ disk' = [disk EXCEPT ![VersionPath(f, n)] = d]
        /\ UNCHANGED <<file, versions, condemned>>
        /\ pc' = [pc EXCEPT ![r] = "v_written"]
        /\ up' = [up EXCEPT ![r].dek = d]
    BY <1>6, <2>0 DEF VersionWrite, Begin
  <2>2. up'[r].file = f /\ up'[r].num = n
    BY <1>t, <2>0, <2>1 DEF UploadVars
  <2>3. VersionPath(f, n) \in Path /\ d # None /\ n # 0
    BY PathTypes, FileStorageAssumption
  <2>4. disk'[VersionPath(up'[r].file, up'[r].num)] # None
    BY <1>t, <2>1, <2>2, <2>3 DEF VersionPath
  <2>5. \A q \in Requests \ {r} : pc'[q] = pc[q] /\ up'[q] = up[q]
    BY <1>t, <2>1
  <2>6. pc'[r] # "u_written" /\ \A g : VersionPath(f, n) # BasePath(g)
    BY <1>t, <2>1, <2>3, PathFacts
  <2> QED
    BY <2>1, <2>3, <2>4, <2>5, <2>6, DiskWritten
<1>7. ASSUME NEW r \in Requests, NEW p \in Path, PurgeUnlink(r, p) PROVE DiskInv'
  <2>1. /\ pc[r] = "unlinking" /\ p \in pg[r].paths
        /\ UNCHANGED <<file, versions, condemned, up>>
        /\ disk' = [disk EXCEPT ![p] = None] \/ disk' = disk
        /\ pc' = [pc EXCEPT ![r] = "purging"] \/ pc' = pc
    BY <1>7 DEF PurgeUnlink
  <2>2. p[1] \in condemned
    BY <2>1 DEF PathsInv
  <2>3. /\ pc'[r] \notin {"u_written", "v_written"}
        /\ \A q \in Requests \ {r} : pc'[q] = pc[q] /\ up'[q] = up[q]
    BY <1>t, <2>1
  <2>4. CASE disk' = disk
    BY <2>1, <2>3, <2>4, DiskKept DEF Stored, VersionsOf
  <2>5. CASE disk' = [disk EXCEPT ![p] = None]
    BY <2>1, <2>2, <2>3, <2>5, DiskWritten
  <2> QED
    BY <2>1, <2>4, <2>5
<1>8. ASSUME NEW r \in Requests, UploadCommit(r) PROVE DiskInv'
  <2>1. PICK f \in Files : f = up[r].file /\ pc[r] = "u_written"
    BY <1>8 DEF UploadCommit, End, Begin, TypeInv, LocalsOK
  <2>2. PICK row : row = [owner |-> Owner[r], size |-> up[r].size,
                          blob |-> BasePath(f), dek |-> up[r].dek,
                          trashed |-> FALSE]
    OBVIOUS
  <2>3. PICK v : v = FirstVersion(f, row)
    OBVIOUS
  <2>4. /\ file' = [file EXCEPT ![f] = row] /\ versions' = versions \cup {v}
        /\ UNCHANGED <<disk, condemned>>
        /\ \A q \in Requests : pc'[q] \in {"u_written", "v_written"} =>
             pc'[q] = pc[q] /\ up'[q] = up[q]
    BY <1>t, <1>8, <2>1, <2>2, <2>3 DEF UploadCommit, End, Begin
  <2>5. v.file = f /\ v.path = BasePath(f) /\ v.dek = up[r].dek
    BY <2>2, <2>3 DEF FirstVersion
  <2>6. disk[v.path] = v.dek /\ v.dek # None
    BY <2>1, <2>5, FileStorageAssumption DEF DiskInv, TypeInv, LocalsOK
  <2>7. PICK new : new = {v}
    OBVIOUS
  <2>8. /\ new # {} /\ versions' = versions \cup new
        /\ \A w \in new : /\ w.file = f /\ disk[w.path] # None
                          /\ disk[w.path] = w.dek
    BY <2>4, <2>5, <2>6, <2>7
  <2>9. \A g \in Files \ {f} : file'[g] = file[g]
    BY <1>t, <2>4
  <2> QED
    BY <2>4, <2>8, <2>9, DiskCommitted
<1>9. ASSUME NEW r \in Requests, NEW f \in Files, BackfillFirst(r, f) PROVE DiskInv'
  <2>1. PICK v : v = FirstVersion(f, file[f])
    OBVIOUS
  <2>2. /\ UNCHANGED <<file, disk, condemned, pc, up>>
        /\ versions' = versions \cup {v} /\ f \in Stored /\ VersionsOf(f) = {}
    BY <1>9, <2>1 DEF BackfillFirst, Owns
  <2>3. /\ v.file = f /\ v.dek = file[f].dek /\ v.path = BasePath(f)
        /\ v.dek \in Deks
    BY <1>t, <2>1, <2>2 DEF FirstVersion, PathsInv, Stored, FileRow
  <2>4. f \notin condemned => disk[v.path] = v.dek /\ v.dek # None
    BY <2>2, <2>3, FileStorageAssumption DEF DiskInv
  <2>5. PICK new : new = {v}
    OBVIOUS
  <2>6. /\ new # {} /\ versions' = versions \cup new
        /\ \A w \in new : w.file = f
        /\ f \notin condemned =>
             \A w \in new : disk[w.path] # None /\ disk[w.path] = w.dek
    BY <2>2, <2>3, <2>4, <2>5
  <2> QED
    BY <2>2, <2>6, DiskCommitted
<1>10. ASSUME NEW r \in Requests, VersionCommit(r) PROVE DiskInv'
  <2>1. PICK f \in Files, n \in 2 .. MaxVersion :
          f = up[r].file /\ n = up[r].num /\ pc[r] = "v_written"
    BY <1>10 DEF VersionCommit, End, Begin, TypeInv, LocalsOK, VersionPcs
  <2>2. PICK v : v = [file |-> f, num |-> n, path |-> VersionPath(f, n),
                      dek |-> up[r].dek, size |-> up[r].size]
    OBVIOUS
  <2>3. PICK first : first = IF up[r].backfill THEN {FirstVersion(f, file[f])} ELSE {}
    OBVIOUS
  <2>4. PICK row : row = LatestRow(file[f], v, up[r].seen)
    OBVIOUS
  <2>5. /\ file' = [file EXCEPT ![f] = row]
        /\ versions' = versions \cup (first \cup {v})
        /\ f \in Stored /\ UNCHANGED <<disk, condemned>>
        /\ up[r].backfill => 1 \notin RowNumbers(f)
    BY <1>10, <2>1, <2>2, <2>3, <2>4 DEF VersionCommit, NumberTaken
  <2>6. \A q \in Requests : pc'[q] \in {"u_written", "v_written"} =>
           pc'[q] = pc[q] /\ up'[q] = up[q]
    BY <1>t, <1>10 DEF VersionCommit, End, Begin
  <2>7. v.file = f /\ v.num # 1 /\ (f \notin condemned => disk[v.path] # None)
    BY <2>1, <2>2 DEF DiskInv
  <2>8. ASSUME NEW w \in first
        PROVE  /\ w.file = f
               /\ f \notin condemned => disk[w.path] # None /\ disk[w.path] = w.dek
    <3>1. VersionsOf(f) = {}
      <4>1. ASSUME NEW x \in versions, x.file = f PROVE FALSE
        <5>1. 1 \in 1 .. x.num
          BY <1>t, FileStorageAssumption DEF VersionRow
        <5> QED
          BY <2>3, <2>5, <2>8, <4>1, <5>1 DEF RowsInv, VersionsContiguous
      <4> QED
        BY <4>1 DEF VersionsOf
    <3>2. w.file = f /\ w.path = BasePath(f) /\ w.dek = file[f].dek
      BY <2>3, <2>5, <2>8, <3>1 DEF FirstVersion, PathsInv
    <3>3. file[f].dek # None
      BY <1>t, <2>5, FileStorageAssumption DEF FileRow, Stored
    <3> QED
      BY <2>5, <3>1, <3>2, <3>3 DEF DiskInv
  <2>9. \A g \in Files \ {f} : file'[g] = file[g]
    BY <1>t, <2>5
  <2>10. PICK new : new = first \cup {v}
    OBVIOUS
  <2>11. /\ new # {} /\ versions' = versions \cup new
         /\ \A w \in new : w.file = f
         /\ f \notin condemned =>
              \A w \in new : /\ disk[w.path] # None
                             /\ w.num = 1 => disk[w.path] = w.dek
    BY <2>5, <2>7, <2>8, <2>10
  <2> QED
    BY <2>5, <2>6, <2>9, <2>11, DiskCommitted
<1> QED
  BY <1>1, <1>2, <1>3, <1>4, <1>5, <1>6, <1>7, <1>8, <1>9, <1>10, StepCases

LEMMA DiskInit == Init => PathsInv /\ DiskInv
<1> SUFFICES ASSUME Init PROVE PathsInv /\ DiskInv
  OBVIOUS
<1>1. /\ versions = {} /\ condemned = {}
      /\ \A r \in Requests : pc[r] = "idle"
  BY DEF Init
<1>2. \A f \in Stored : /\ f \in Legacy /\ file[f].blob = BasePath(f)
                        /\ file[f].dek = LegacyDek[f]
  BY FileStorageAssumption DEF Init, Stored
<1>3. \A f \in Legacy : disk[BasePath(f)] = LegacyDek[f]
  BY PathTypes, FileStorageAssumption DEF Init, BasePath, Path
<1>4. PathsInv
  BY <1>1, <1>2, PathFacts DEF PathsInv
<1>5. DiskInv
  BY <1>1, <1>2, <1>3 DEF DiskInv, BlobPresent, FirstVersionReadable
<1> QED
  BY <1>4, <1>5

LEMMA DiskInvariant == Spec => [](PathsInv /\ DiskInv)
<1>1. /\ TypeInv /\ (IdsInv /\ RowsInv) /\ (PathsInv /\ DiskInv)
      /\ [Next]_vars
      => (PathsInv /\ DiskInv)'
  BY PathsStep, DiskStep
<1> QED
  BY <1>1, DiskInit, TypeInvariant, RowsInvariant, PTL DEF Spec

\* A committed version keeps a blob until a purge of its file begins: neither a
\* conflict nor a crash of another request takes it away.
THEOREM BlobAlwaysPresent == Spec => []BlobPresent
  BY DiskInvariant, PTL DEF DiskInv

\* Version 1 decrypts until a purge of its file begins, whatever is uploaded:
\* {id}.enc is never written twice.
THEOREM FirstVersionAlwaysReadable == Spec => []FirstVersionReadable
  BY DiskInvariant, PTL DEF DiskInv

-----------------------------------------------------------------------------
\* A reader of the files and file_versions rows finds content d as version n of f.
Holds(f, n, d) ==
  \/ VersionsOf(f) = {} /\ n = 1 /\ d = file[f].dek
  \/ \E v \in VersionsOf(f) : v.num = n /\ v.dek = d

\* The numbers of a file's rows are those up to their count.
LEMMA NumbersAreInterval ==
  ASSUME TypeOK, VersionsContiguous, NEW f \in Files
  PROVE  \E k \in 0 .. MaxVersion :
           RowNumbers(f) = 1 .. k /\ (k = 0 <=> VersionsOf(f) = {})
<1> DEFINE S == RowNumbers(f)
           k == Cardinality(S)
<1>1. S \subseteq 1 .. MaxVersion /\ \A n \in S : 1 .. n \subseteq S
  BY DEF TypeOK, VersionRow, VersionsOf, RowNumbers, VersionsContiguous
<1>2. /\ IsFiniteSet(1 .. MaxVersion) /\ Cardinality(1 .. MaxVersion) = MaxVersion
      /\ IsFiniteSet(S) /\ k \in Nat /\ k <= MaxVersion
  <2>1. MaxVersion \in Int /\ MaxVersion > 0
    BY FileStorageAssumption
  <2>2. IsFiniteSet(1 .. MaxVersion) /\ Cardinality(1 .. MaxVersion) = MaxVersion
    BY <2>1, FS_Interval
  <2> QED
    BY <1>1, <2>2, FS_Subset, FS_CardinalityType
<1>3. \A n \in S : n <= k
  <2> SUFFICES ASSUME NEW n \in S PROVE n <= k
    OBVIOUS
  <2>1. n \in Nat /\ 1 .. n \in SUBSET S
    BY <1>1
  <2>2. Cardinality(1 .. n) = n
    BY <1>1, <2>1, FS_Interval
  <2> QED
    BY <1>2, <2>1, <2>2, FS_Subset
<1>4. S = 1 .. k
  <2>1. S \in SUBSET (1 .. k)
    BY <1>1, <1>2, <1>3
  <2>2. IsFiniteSet(1 .. k) /\ Cardinality(1 .. k) = k
    BY <1>2, FS_Interval
  <2> QED
    BY <2>1, <2>2, FS_Subset
<1>5. k = 0 <=> VersionsOf(f) = {}
  <2>1. S = {} <=> VersionsOf(f) = {}
    BY DEF RowNumbers
  <2>2. k = 0 <=> 1 .. k = {}
    BY <1>2
  <2> QED
    BY <1>4, <2>1, <2>2
<1> QED
  BY <1>2, <1>4, <1>5

LEMMA FunctionIsSequence ==
  ASSUME NEW X, NEW k \in Nat, NEW h \in [1 .. k -> X]
  PROVE  h \in Seq(X) /\ Len(h) = k
<1>1. h \in UNION {[1 .. n -> X] : n \in Nat}
  OBVIOUS
<1>2. h \in Seq(X)
  BY <1>1, SeqDef
<1> QED
  BY <1>2

\* A reader finds a sequence, and in it what the rows hold.
LEMMA HistoryReads ==
  ASSUME TypeInv, RowsInv, NEW f \in Stored
  PROVE  /\ History[f] \in Seq(Deks) /\ Len(History[f]) \in 1 .. MaxVersion
         /\ Holds(f, Len(History[f]), file[f].dek)
         /\ \A n \in 1 .. Len(History[f]) : Holds(f, n, History[f][n])
         /\ \A n, d : Holds(f, n, d) => n \in 1 .. Len(History[f]) /\ History[f][n] = d
<1>t. /\ versions \subseteq VersionRow /\ f \in Files /\ file[f] \in FileRow
      /\ MaxVersion \in Nat \ {0} /\ file[f].dek \in Deks
  BY FileStorageAssumption DEF TypeInv, TypeOK, Stored, FileRow
<1>1. PICK k \in 0 .. MaxVersion :
        RowNumbers(f) = 1 .. k /\ (k = 0 <=> VersionsOf(f) = {})
  BY NumbersAreInterval DEF TypeInv, RowsInv, Stored
<1>2. CASE VersionsOf(f) = {}
  <2>1. History[f] = <<file[f].dek>>
    BY <1>t, <1>2 DEF History
  <2>2. /\ History[f] \in Seq(Deks)
        /\ Len(History[f]) = 1 /\ History[f][1] = file[f].dek
    BY <1>t, <2>1
  <2> QED
    BY <1>t, <1>2, <2>2 DEF Holds
<1>3. CASE VersionsOf(f) # {}
  <2> DEFINE at(n) == CHOOSE v \in VersionsOf(f) : v.num = n
             hist == [n \in 1 .. k |-> at(n).dek]
  <2>1. k \in 1 .. MaxVersion /\ k \in Nat
    BY <1>1, <1>3
  <2>2. History[f] = hist
    BY <1>t, <1>1, <1>3 DEF History
  <2>3. \A n \in 1 .. k : at(n) \in VersionsOf(f) /\ at(n).num = n
    BY <1>1 DEF RowNumbers
  <2>4. \A v \in VersionsOf(f) : v.num \in 1 .. k /\ at(v.num) = v
    <3> SUFFICES ASSUME NEW v \in VersionsOf(f) PROVE v.num \in 1 .. k /\ at(v.num) = v
      OBVIOUS
    <3>1. v.num \in 1 .. k
      BY <1>1 DEF RowNumbers
    <3>2. at(v.num) \in VersionsOf(f) /\ at(v.num).num = v.num
      BY <2>3, <3>1
    <3> HIDE DEF at
    <3> QED
      BY <3>1, <3>2 DEF VersionsOf, RowsInv, VersionsContiguous
  <2>5. \A n \in 1 .. k : hist[n] = at(n).dek
    OBVIOUS
  <2>6. \A n \in 1 .. k : at(n).dek \in Deks
    <3> HIDE DEF at
    <3> QED
      BY <1>t, <2>3 DEF VersionsOf, VersionRow
  <2>7. hist \in [1 .. k -> Deks]
    BY <2>6
  <2> HIDE DEF at, hist
  <2>8. hist \in Seq(Deks) /\ Len(hist) = k
    BY <2>1, <2>7, FunctionIsSequence
  <2>9. \E v \in VersionsOf(f) : v.num = k /\ v.dek = file[f].dek
    <3>1. PICK v \in VersionsOf(f) : v.num = k
      BY <2>1, <2>3
    <3>2. \A w \in VersionsOf(f) : ~(w.num > v.num)
      BY <2>4, <3>1
    <3> QED
      BY <3>1, <3>2 DEF RowsInv, RowNamesLatest, VersionsOf
  <2> QED
    BY <1>3, <2>1, <2>2, <2>3, <2>4, <2>5, <2>8, <2>9 DEF Holds
<1> QED
  BY <1>2, <1>3

Reads ==
  \A f \in Stored :
    /\ History[f] \in Seq(Deks) /\ Len(History[f]) \in 1 .. MaxVersion
    /\ \A n \in 1 .. Len(History[f]) : Holds(f, n, History[f][n])
    /\ \A n, d : Holds(f, n, d) => n \in 1 .. Len(History[f]) /\ History[f][n] = d

LEMMA AllRead == TypeInv /\ RowsInv => Reads
  BY HistoryReads DEF Reads

LEMMA AllReadNext == (TypeInv /\ RowsInv => Reads)'
  BY AllRead, PTL

LEMMA HistoryIsNotNone == Reads => \A f \in Stored : History[f] # None
<1> SUFFICES ASSUME Reads, NEW f \in Stored PROVE History[f] # None
  OBVIOUS
<1>1. PICK h \in Seq(Deks) : h = History[f]
  BY DEF Reads
<1>2. Len(h) \in 1 .. MaxVersion
  BY <1>1 DEF Reads
<1>3. h \in [1 .. Len(h) -> Deks]
  BY <1>1, LenProperties, SeqDef
<1> QED
  BY <1>1, <1>2, <1>3, NoneIsNoHistory

\* A file of which readers find what they found has the same history.
LEMMA SameReads ==
  ASSUME Reads, Reads', NEW f \in Stored, f \in Stored',
         \A n, d : Holds(f, n, d)' <=> Holds(f, n, d)
  PROVE  History'[f] = History[f]
<1>1. PICK h, k : h = History[f] /\ k = History'[f]
  OBVIOUS
<1>2. /\ h \in Seq(Deks) /\ Len(h) \in Nat /\ Len(h) >= 1
      /\ \A n \in 1 .. Len(h) : Holds(f, n, h[n])
      /\ \A n, d : Holds(f, n, d) => n \in 1 .. Len(h) /\ h[n] = d
  BY <1>1, FileStorageAssumption DEF Reads
<1>3. /\ k \in Seq(Deks) /\ Len(k) \in Nat /\ Len(k) >= 1
      /\ \A n \in 1 .. Len(k) : Holds(f, n, k[n])'
      /\ \A n, d : Holds(f, n, d)' => n \in 1 .. Len(k) /\ k[n] = d
  BY <1>1, FileStorageAssumption DEF Reads
<1>4. Len(h) = Len(k)
  <2>1. Len(h) \in 1 .. Len(h) /\ Len(k) \in 1 .. Len(k)
    BY <1>2, <1>3
  <2>2. Len(h) \in 1 .. Len(k) /\ Len(k) \in 1 .. Len(h)
    BY <1>2, <1>3, <2>1
  <2> QED
    BY <1>2, <1>3, <2>2
<1>5. \A n \in 1 .. Len(h) : h[n] = k[n]
  BY <1>2, <1>3, <1>4
<1> QED
  BY <1>1, <1>2, <1>3, <1>4, <1>5, SeqEqual

LEMMA HistoryFunction ==
  /\ History = [f \in Files |-> History[f]]
  /\ \A f \in Files : f \notin Stored => History[f] = None
BY DEF History

LEMMA HistoryStep ==
  ASSUME TypeInv, IdsInv, RowsInv, TypeInv', RowsInv', [Next]_vars
  PROVE  [Log!Next]_History
<1>t. /\ file \in [Files -> FileRow \cup {None}] /\ versions \subseteq VersionRow
      /\ Stored \subseteq Files
  BY DEF TypeInv, TypeOK, Stored
<1>r. Reads /\ Reads'
  BY AllRead, AllReadNext
<1>h. /\ History = [f \in Files |-> History[f]]
      /\ History' = [f \in Files |-> History'[f]]
      /\ \A f \in Files : f \notin Stored => History[f] = None
      /\ \A f \in Files : f \notin Stored' => History'[f] = None
  BY HistoryFunction DEF History
<1>1. ASSUME Stored' = Stored,
             \A f \in Stored : \A n, d : Holds(f, n, d)' <=> Holds(f, n, d)
      PROVE  History' = History
  <2>1. \A f \in Stored : History'[f] = History[f]
    BY <1>r, <1>1, SameReads
  <2>2. \A f \in Files : History'[f] = History[f]
    BY <1>h, <1>1, <2>1
  <2> QED
    BY <1>h, <2>2
<1>2. ASSUME UNCHANGED <<file, versions>> PROVE History' = History
  BY <1>2 DEF History, Stored, VersionsOf, RowNumbers
<1>3. ASSUME NEW r \in Requests, NEW g \in Files, SoftDelete(r, g) \/ Restore(r, g)
      PROVE  History' = History
  <2>1. PICK row \in FileRow, b \in BOOLEAN :
          /\ row = file[g] /\ file' = [file EXCEPT ![g] = [row EXCEPT !.trashed = b]]
    BY <1>t, <1>3 DEF SoftDelete, Restore, Owns, Stored
  <2>2. [row EXCEPT !.trashed = b] \in FileRow /\ [row EXCEPT !.trashed = b].dek = row.dek
    BY DEF FileRow
  <2>3. versions' = versions
    BY <1>3 DEF SoftDelete, Restore
  <2>4. Stored' = Stored /\ \A f \in Files : f \in Stored => file'[f].dek = file[f].dek
    BY <1>t, <2>1, <2>2, NoneIsNoRow DEF Stored
  <2>5. \A f \in Stored : \A n, d : Holds(f, n, d)' <=> Holds(f, n, d)
    BY <1>t, <2>3, <2>4 DEF Holds, VersionsOf
  <2> QED
    BY <1>1, <2>4, <2>5
\* Version 1 of a legacy file is inserted as readers found it.
<1>4. ASSUME NEW r \in Requests, NEW g \in Files, BackfillFirst(r, g)
      PROVE  History' = History
  <2> DEFINE v == FirstVersion(g, file[g])
  <2>1. v.file = g /\ v.num = 1 /\ v.dek = file[g].dek
    BY DEF FirstVersion
  <2>2. file' = file /\ versions' = versions \cup {v} /\ VersionsOf(g) = {}
    BY <1>4 DEF BackfillFirst
  <2> HIDE DEF v
  <2>3. \A n, d : Holds(g, n, d)' <=> Holds(g, n, d)
    <3>1. \A x : x \in VersionsOf(g)' <=> x = v
      BY <2>1, <2>2 DEF VersionsOf
    <3> QED
      BY <2>1, <2>2, <3>1 DEF Holds
  <2>4. \A f \in Stored : \A n, d : f # g => (Holds(f, n, d)' <=> Holds(f, n, d))
    <3>1. \A f : f # g => VersionsOf(f)' = VersionsOf(f)
      BY <2>1, <2>2 DEF VersionsOf
    <3> QED
      BY <2>2, <3>1 DEF Holds
  <2>5. Stored' = Stored
    BY <2>2 DEF Stored
  <2> QED
    BY <1>1, <2>3, <2>4, <2>5
<1>5. ASSUME NEW r \in Requests, UploadCommit(r) PROVE Log!Next
  <2>0. PICK g \in Files, d \in Deks : g = up[r].file /\ d = up[r].dek /\ pc[r] = "u_written"
    BY <1>5 DEF UploadCommit, End, Begin, TypeInv, LocalsOK
  <2> DEFINE row == [owner |-> Owner[r], size |-> up[r].size, blob |-> BasePath(g),
                     dek |-> up[r].dek, trashed |-> FALSE]
             v == FirstVersion(g, row)
  <2>1. v.file = g /\ v.num = 1 /\ v.dek = d
    BY <2>0 DEF FirstVersion
  <2>2. file' = [file EXCEPT ![g] = row] /\ versions' = versions \cup {v}
    BY <1>5, <2>0 DEF UploadCommit
  <2> HIDE DEF v, row
  <2>3. g \notin Stored /\ VersionsOf(g) = {}
    BY <2>0 DEF IdsInv, RowsInv, RowNamesLatest, VersionsOf
  <2>4. /\ v \in versions' /\ g \in Stored' /\ Stored' = Stored \cup {g}
        /\ \A f \in Stored : f # g /\ file'[f] = file[f]
    <3>1. v \in versions' /\ g \in Stored'
      BY <2>1, <2>2 DEF RowsInv, RowNamesLatest
    <3> QED
      BY <1>t, <2>2, <2>3, <3>1 DEF Stored
  <2>5. History'[g] = <<d>>
    <3>1. \A x : x \in VersionsOf(g)' <=> x = v
      BY <2>1, <2>2, <2>3 DEF VersionsOf
    <3>2. \A n, c : Holds(g, n, c)' <=> n = 1 /\ c = d
      BY <2>1, <3>1 DEF Holds
    <3>3. PICK k : k = History'[g]
      OBVIOUS
    <3>4. /\ k \in Seq(Deks) /\ Len(k) \in Nat /\ Len(k) >= 1
          /\ \A n \in 1 .. Len(k) : Holds(g, n, k[n])'
      BY <1>r, <2>4, <3>3, FileStorageAssumption DEF Reads
    <3>5. Len(k) = 1 /\ k[1] = d
      <4>1. \A n \in 1 .. Len(k) : n = 1 /\ k[n] = d
        BY <3>2, <3>4
      <4>2. Len(k) \in 1 .. Len(k) /\ 1 \in 1 .. Len(k)
        BY <3>4
      <4> QED
        BY <4>1, <4>2
    <3>6. <<d>> \in Seq(Deks) /\ Len(<<d>>) = 1 /\ <<d>>[1] = d
      OBVIOUS
    <3>7. k = <<d>>
      BY <3>4, <3>5, <3>6, SeqEqual
    <3> QED
      BY <3>3, <3>7
  <2>6. \A f \in Stored : History'[f] = History[f]
    <3> SUFFICES ASSUME NEW f \in Stored PROVE History'[f] = History[f]
      OBVIOUS
    <3>1. VersionsOf(f)' = VersionsOf(f) /\ file'[f] = file[f] /\ f \in Stored'
      BY <2>1, <2>2, <2>4 DEF VersionsOf
    <3>2. \A n, c : Holds(f, n, c)' <=> Holds(f, n, c)
      BY <3>1 DEF Holds
    <3> QED
      BY <1>r, <3>1, <3>2, SameReads
  <2>7. \A f \in Files : History'[f] = IF f = g THEN <<d>> ELSE History[f]
    BY <1>h, <2>4, <2>5, <2>6
  <2>8. History' = [History EXCEPT ![g] = <<d>>]
    BY <1>h, <2>7
  <2>9. History[g] = None
    BY <1>h, <2>3
  <2> QED
    BY <2>8, <2>9 DEF Log!Next, Log!Create
<1>6. ASSUME NEW r \in Requests, VersionCommit(r) PROVE Log!Next
  <2>0. PICK g \in Files, d \in Deks, num \in 2 .. MaxVersion :
          /\ g = up[r].file /\ d = up[r].dek /\ num = up[r].num
          /\ pc[r] = "v_written" /\ g \in Stored
    BY <1>6 DEF VersionCommit, End, Begin, TypeInv, LocalsOK, VersionPcs
  <2> DEFINE v == [file |-> g, num |-> up[r].num, path |-> VersionPath(g, up[r].num),
                   dek |-> up[r].dek, size |-> up[r].size]
             first == FirstVersion(g, file[g])
             old == IF up[r].backfill THEN {first} ELSE {}
  <2>1. /\ v.file = g /\ v.num = num /\ v.dek = d
        /\ first.file = g /\ first.num = 1 /\ first.dek = file[g].dek
    BY <2>0 DEF FirstVersion
  <2>2. /\ file' = [file EXCEPT ![g] = LatestRow(@, v, up[r].seen)]
        /\ versions' = versions \cup old \cup {v}
        /\ num \notin RowNumbers(g)
        /\ up[r].backfill => 1 \notin RowNumbers(g)
    BY <1>6, <2>0 DEF VersionCommit, NumberTaken
  <2>3. /\ VersionsOf(g) = {} => old = {first} /\ num = 2
        /\ VersionsOf(g) # {} => old = {} /\ num - 1 \in RowNumbers(g)
    <3>1. up[r].backfill => VersionsOf(g) = {}
      <4> SUFFICES ASSUME up[r].backfill, NEW w \in VersionsOf(g) PROVE FALSE
        OBVIOUS
      <4>1. 1 \in 1 .. w.num /\ w \in versions /\ w.file = g
        BY <1>t, FileStorageAssumption DEF VersionRow, VersionsOf
      <4> QED
        BY <2>2, <4>1 DEF RowsInv, VersionsContiguous
    <3> QED
      BY <2>0, <3>1 DEF RowsInv, PlansInv, Planned, RowNumbers
  <2> HIDE DEF v, first, old
  <2>4. /\ v \in versions' /\ Stored' = Stored
        /\ \A f \in Stored \ {g} : file'[f] = file[f]
    <3>1. v \in versions' /\ g \in Stored'
      BY <2>1, <2>2 DEF RowsInv, RowNamesLatest
    <3> QED
      BY <1>t, <2>0, <2>2, <3>1 DEF Stored
  <2>5. PICK h, k : h = History[g] /\ k = History'[g]
    OBVIOUS
  <2>6. /\ h \in Seq(Deks) /\ Len(h) \in Nat /\ Len(h) >= 1
        /\ \A n \in 1 .. Len(h) : Holds(g, n, h[n])
        /\ \A n, c : Holds(g, n, c) => n \in 1 .. Len(h) /\ h[n] = c
    BY <1>r, <2>0, <2>5, FileStorageAssumption DEF Reads
  <2>7. /\ k \in Seq(Deks) /\ Len(k) \in Nat /\ Len(k) >= 1
        /\ \A n \in 1 .. Len(k) : Holds(g, n, k[n])'
        /\ \A n, c : Holds(g, n, c)' => n \in 1 .. Len(k) /\ k[n] = c
    BY <1>r, <2>0, <2>4, <2>5, FileStorageAssumption DEF Reads
  <2>8. \A n, c : Holds(g, n, c)' <=> Holds(g, n, c) \/ (n = num /\ c = d)
    <3>1. \A x : x \in VersionsOf(g)' <=> x \in VersionsOf(g) \/ x \in old \/ x = v
      <4>1. \A x \in old : x.file = g
        BY <2>1 DEF old
      <4> QED
        BY <2>1, <2>2, <4>1 DEF VersionsOf
    <3> QED
      BY <2>1, <2>3, <3>1 DEF Holds
  <2>9. num = Len(h) + 1
    <3>1. CASE VersionsOf(g) = {}
      <4>1. Len(h) \in 1 .. Len(h)
        BY <2>6
      <4>2. Len(h) = 1
        BY <2>6, <3>1, <4>1 DEF Holds
      <4> QED
        BY <2>3, <3>1, <4>2
    <3>2. CASE VersionsOf(g) # {}
      <4>1. \A n : n \in RowNumbers(g) <=> n \in 1 .. Len(h)
        <5>1. \A n : n \in RowNumbers(g) <=> \E c : Holds(g, n, c)
          BY <3>2 DEF Holds, RowNumbers
        <5> QED
          BY <2>6, <5>1
      <4>2. num - 1 \in 1 .. Len(h) /\ num \notin 1 .. Len(h)
        BY <2>2, <2>3, <3>2, <4>1
      <4> QED
        BY <2>6, <4>2
    <3> QED
      BY <3>1, <3>2
  <2>10. Len(k) = Len(h) + 1
    <3>1. \A n : n \in 1 .. Len(k) <=> n \in 1 .. Len(h) \/ n = Len(h) + 1
      BY <2>6, <2>7, <2>8, <2>9
    <3>2. Len(k) \in 1 .. Len(k) /\ Len(h) + 1 \in 1 .. Len(k)
      BY <2>7, <3>1
    <3>3. Len(k) \in 1 .. Len(h) \/ Len(k) = Len(h) + 1
      BY <3>1, <3>2
    <3> QED
      BY <2>6, <2>7, <3>2, <3>3
  <2>11. /\ \A n \in 1 .. Len(h) : k[n] = h[n]
         /\ k[Len(h) + 1] = d
    BY <2>6, <2>7, <2>8, <2>9
  <2>12. k = Append(h, d)
    <3>1. /\ Append(h, d) \in Seq(Deks) /\ Len(Append(h, d)) = Len(h) + 1
          /\ \A n \in 1 .. Len(h) : Append(h, d)[n] = h[n]
          /\ Append(h, d)[Len(h) + 1] = d
      BY <2>0, <2>6, AppendProperties
    <3>2. \A n \in 1 .. Len(k) : k[n] = Append(h, d)[n]
      BY <2>6, <2>10, <2>11, <3>1
    <3> QED
      BY <2>7, <2>10, <3>1, <3>2, SeqEqual
  <2>13. \A f \in Stored \ {g} : History'[f] = History[f]
    <3> SUFFICES ASSUME NEW f \in Stored \ {g} PROVE History'[f] = History[f]
      OBVIOUS
    <3>1. VersionsOf(f)' = VersionsOf(f) /\ file'[f] = file[f] /\ f \in Stored'
      <4>1. \A x \in old : x.file = g
        BY <2>1 DEF old
      <4> QED
        BY <2>1, <2>2, <2>4, <4>1 DEF VersionsOf
    <3>2. \A n, c : Holds(f, n, c)' <=> Holds(f, n, c)
      BY <3>1 DEF Holds
    <3> QED
      BY <1>r, <3>1, <3>2, SameReads
  <2>14. \A f \in Files : History'[f] = IF f = g THEN Append(h, d) ELSE History[f]
    BY <1>h, <2>4, <2>5, <2>12, <2>13
  <2>15. History' = [History EXCEPT ![g] = Append(@, d)]
    BY <1>h, <2>5, <2>14
  <2>16. History[g] # None
    BY <1>r, <2>0, HistoryIsNotNone
  <2> QED
    BY <2>15, <2>16 DEF Log!Next, Log!AppendVersion
<1>7. ASSUME NEW r \in Requests, PurgeCommit(r) PROVE Log!Next
  <2>0. PICK gone \in SUBSET Files : gone = pg[r].gone
    BY DEF TypeInv, TypeOK, PurgeVars
  <2>1. /\ file' = [f \in Files |-> IF f \in gone THEN None ELSE file[f]]
        /\ versions' = {v \in versions : v.file \notin gone}
    BY <1>7, <2>0 DEF PurgeCommit
  <2>2. Stored' = Stored \ gone
    BY <2>1 DEF Stored
  <2>3. \A f \in Stored' : History'[f] = History[f]
    <3> SUFFICES ASSUME NEW f \in Stored' PROVE History'[f] = History[f]
      OBVIOUS
    <3>1. VersionsOf(f)' = VersionsOf(f) /\ file'[f] = file[f] /\ f \in Stored
      BY <1>t, <2>1, <2>2 DEF VersionsOf, Stored
    <3>2. \A n, c : Holds(f, n, c)' <=> Holds(f, n, c)
      BY <3>1 DEF Holds
    <3> QED
      BY <1>r, <3>1, <3>2, SameReads
  <2>4. \A f \in Files : History'[f] = IF f \in gone THEN None ELSE History[f]
    BY <1>h, <2>2, <2>3
  <2>5. History' = [f \in Files |-> IF f \in gone THEN None ELSE History[f]]
    BY <1>h, <2>4
  <2> QED
    BY <2>5 DEF Log!Next, Log!Remove
<1>8. ASSUME NEW r \in Requests,
             \/ Quit(r) \/ VersionPlan(r)
             \/ \E s \in Sizes : UploadCheck(r, s)
             \/ \E g \in Files, d \in Deks : UploadWrite(r, g, d)
             \/ \E g \in Files, s \in Sizes : VersionLoad(r, g, s)
             \/ \E d \in Deks : VersionWrite(r, d)
             \/ \E g \in Files : PurgeLoad(r, g) \/ PurgeSkip(r, g)
             \/ \E fs \in SUBSET Files : PurgeBegin(r, fs)
             \/ \E p \in Path : PurgeUnlink(r, p)
      PROVE  UNCHANGED <<file, versions>>
  BY <1>8 DEF Quit, VersionPlan, UploadCheck, UploadWrite, VersionLoad, VersionWrite,
              PurgeLoad, PurgeSkip, PurgeBegin, PurgeUnlink
<1>9. CASE UNCHANGED vars
  BY <1>2, <1>9 DEF vars
<1> QED
  BY <1>2, <1>3, <1>4, <1>5, <1>6, <1>7, <1>8, <1>9, StepCases

LEMMA HistoryInit == Init => Log!Init
<1> SUFFICES ASSUME Init PROVE Log!Init
  OBVIOUS
<1>1. TypeInv /\ versions = {}
  BY TypeInit DEF Init
<1>2. \A f \in Files : History[f] \in {<<c>> : c \in Deks} \cup {None}
  <2> SUFFICES ASSUME NEW f \in Files PROVE History[f] \in {<<c>> : c \in Deks} \cup {None}
    OBVIOUS
  <2>1. CASE f \in Stored
    <3>1. file[f].dek \in Deks
      BY <1>1, <2>1 DEF TypeInv, TypeOK, Stored, FileRow
    <3>2. History[f] = <<file[f].dek>>
      BY <1>1, <2>1 DEF History, VersionsOf
    <3> QED
      BY <3>1, <3>2
  <2>2. CASE f \notin Stored
    BY <2>2, HistoryFunction
  <2> QED
    BY <2>1, <2>2
<1>3. History \in [Files -> {<<c>> : c \in Deks} \cup {None}]
  BY <1>2, HistoryFunction
<1> QED
  BY <1>3 DEF Log!Init

\* The tables implement an append-only log of contents per file: every step of a
\* handler appends one version to one file, creates or removes files as a whole,
\* or changes nothing a reader sees.
THEOREM LogImplemented == Spec => ImplementsVersionLog
<1>1. TypeInv /\ (IdsInv /\ RowsInv) /\ TypeInv' /\ (IdsInv /\ RowsInv)' /\ [Next]_vars
        => [Log!Next]_History
  BY HistoryStep
<1> QED
  BY <1>1, HistoryInit, TypeInvariant, RowsInvariant, PTL
     DEF Spec, ImplementsVersionLog, Log!Spec

-----------------------------------------------------------------------------
(***************************************************************************)
(* What each step writes, in terms of the values after it.                 *)
(***************************************************************************)
OthersSame(r) ==
  \A q \in Requests \ {r} : pc'[q] = pc[q] /\ up'[q] = up[q] /\ pg'[q] = pg[q]

LEMMA EndWrites ==
  ASSUME TypeInv, NEW r \in Requests, NEW at, End(r, at)
  PROVE  /\ pc[r] = at /\ pc'[r] = "idle" /\ OthersSame(r)
         /\ pg'[r] = NoPurge
BY DEF TypeInv, TypeOK, End, Begin, OthersSame

LEMMA CheckWrites ==
  ASSUME TypeInv, NEW r \in Requests, NEW s \in Sizes, UploadCheck(r, s)
  PROVE  /\ pc[r] = "idle" /\ pc'[r] = "u_checked" /\ OthersSame(r)
         /\ up'[r].size = s
         /\ UNCHANGED <<file, versions, disk, issued, condemned, mishap, pg>>
BY DEF TypeInv, TypeOK, UploadVars, UploadCheck, Begin, OthersSame

LEMMA WriteWrites ==
  ASSUME TypeInv, NEW r \in Requests, NEW f \in Files, NEW d \in Deks,
         UploadWrite(r, f, d)
  PROVE  /\ pc[r] = "u_checked" /\ pc'[r] = "u_written" /\ OthersSame(r)
         /\ up'[r].file = f /\ up'[r].dek = d /\ up'[r].size = up[r].size
         /\ f \notin issued.ids /\ issued'.ids = issued.ids \cup {f}
         /\ disk' = [disk EXCEPT ![BasePath(f)] = d]
         /\ UNCHANGED <<file, versions, condemned, mishap, pg>>
BY DEF TypeInv, TypeOK, UploadVars, UploadWrite, Begin, OthersSame

\* The row that an upload inserts.
NewRow(r) ==
  [owner |-> Owner[r], size |-> up[r].size, blob |-> BasePath(up[r].file),
   dek |-> up[r].dek, trashed |-> FALSE]

LEMMA CommitWrites ==
  ASSUME TypeInv, NEW r \in Requests, UploadCommit(r)
  PROVE  /\ pc[r] = "u_written" /\ pc'[r] = "idle" /\ OthersSame(r)
         /\ up[r].file \in Files /\ NewRow(r) \in FileRow
         /\ file' = [file EXCEPT ![up[r].file] = NewRow(r)]
         /\ versions' = versions \cup {FirstVersion(up[r].file, NewRow(r))}
         /\ UNCHANGED <<disk, issued, condemned, mishap>>
<1>1. pc[r] = "u_written" /\ pc'[r] = "idle" /\ OthersSame(r)
  BY EndWrites DEF UploadCommit
<1>2. /\ up[r].file \in Files /\ up[r].size \in Sizes /\ up[r].dek \in Deks
  BY <1>1 DEF TypeInv, LocalsOK
<1>3. NewRow(r) \in FileRow
  BY <1>2, PathTypes, FileStorageAssumption DEF NewRow, FileRow
<1> QED
  BY <1>1, <1>2, <1>3 DEF UploadCommit, NewRow

LEMMA LoadWrites ==
  ASSUME TypeInv, NEW r \in Requests, NEW f \in Files, NEW s \in Sizes,
         VersionLoad(r, f, s)
  PROVE  /\ IsUser(r) /\ f \in Stored /\ file[f].owner = Owner[r]
         /\ pc[r] = "idle" /\ pc'[r] = "v_loaded" /\ OthersSame(r)
         /\ up'[r].file = f /\ up'[r].size = s /\ up'[r].seen = file[f].size
         /\ UNCHANGED <<file, versions, disk, issued, condemned, mishap, pg>>
BY DEF TypeInv, TypeOK, UploadVars, VersionLoad, Begin, OthersSame, Owns

LEMMA PlanWrites ==
  ASSUME TypeInv, NEW r \in Requests, VersionPlan(r)
  PROVE  /\ pc[r] = "v_loaded" /\ pc'[r] = "v_planned" /\ OthersSame(r)
         /\ up[r].file \in Stored
         /\ WithinQuota(Owner[r], StorageUsed(Owner[r]) - up[r].seen + up[r].size)
         /\ VersionsOf(up[r].file) = {} => ~BackfillPending(up[r].file)
         /\ up'[r].num \in 2 .. MaxVersion
         /\ NextNumber(up[r].file, up'[r].num)
         /\ up'[r].backfill = (VersionsOf(up[r].file) = {})
         /\ up'[r].file = up[r].file /\ up'[r].size = up[r].size
         /\ up'[r].seen = up[r].seen
         /\ mishap => mishap'
         /\ ~mishap' => ~BeingPurged(up[r].file)
         /\ UNCHANGED <<file, versions, disk, issued, condemned, pg>>
<1>t. up \in [Requests -> UploadVars] /\ pc \in [Requests -> {"idle"} \cup InService]
  BY DEF TypeInv, TypeOK
<1>1. PICK n \in 2 .. MaxVersion :
        /\ NextNumber(up[r].file, n)
        /\ up' = [up EXCEPT ![r].num = n,
                            ![r].backfill = (VersionsOf(up[r].file) = {})]
  BY DEF VersionPlan
<1>2. /\ up'[r].num = n /\ up'[r].backfill = (VersionsOf(up[r].file) = {})
      /\ up'[r].file = up[r].file /\ up'[r].size = up[r].size
      /\ up'[r].seen = up[r].seen
      /\ \A q \in Requests \ {r} : up'[q] = up[q]
  BY <1>t, <1>1 DEF UploadVars
<1>3. /\ pc[r] = "v_loaded" /\ pc' = [pc EXCEPT ![r] = "v_planned"]
      /\ up[r].file \in Stored
      /\ WithinQuota(Owner[r], StorageUsed(Owner[r]) - up[r].seen + up[r].size)
      /\ VersionsOf(up[r].file) = {} => ~BackfillPending(up[r].file)
      /\ mishap' = (mishap \/ BeingPurged(up[r].file))
      /\ UNCHANGED <<file, versions, disk, issued, condemned, pg>>
  BY DEF VersionPlan, Begin
<1> QED
  BY <1>t, <1>1, <1>2, <1>3 DEF OthersSame

LEMMA VersionWrites ==
  ASSUME TypeInv, NEW r \in Requests, NEW d \in Deks, VersionWrite(r, d)
  PROVE  /\ pc[r] = "v_planned" /\ pc'[r] = "v_written" /\ OthersSame(r)
         /\ up'[r] = [up[r] EXCEPT !.dek = d]
         /\ up'[r].dek = d /\ up'[r].file = up[r].file /\ up'[r].num = up[r].num
         /\ up'[r].size = up[r].size /\ up'[r].seen = up[r].seen
         /\ up'[r].backfill = up[r].backfill
         /\ up[r].file \in Files /\ up[r].num \in 2 .. MaxVersion
         /\ disk' = [disk EXCEPT ![VersionPath(up[r].file, up[r].num)] = d]
         /\ issued'.ids = issued.ids
         /\ UNCHANGED <<file, versions, condemned, mishap, pg>>
BY DEF TypeInv, TypeOK, UploadVars, VersionWrite, Begin, OthersSame, LocalsOK,
       VersionPcs

\* The row of the version that a request commits.
NewVersion(r) ==
  [file |-> up[r].file, num |-> up[r].num,
   path |-> VersionPath(up[r].file, up[r].num), dek |-> up[r].dek,
   size |-> up[r].size]

LEMMA VersionCommitWrites ==
  ASSUME TypeInv, NEW r \in Requests, VersionCommit(r)
  PROVE  LET f == up[r].file
             new == LatestRow(file[f], NewVersion(r), up[r].seen)
         IN  /\ pc[r] = "v_written" /\ pc'[r] = "idle" /\ OthersSame(r)
             /\ f \in Files /\ f \in Stored /\ up[r].num \in 2 .. MaxVersion
             /\ up[r].num \notin RowNumbers(f)
             /\ file[f] \in FileRow /\ new \in FileRow
             /\ NewVersion(r) \in VersionRow
             /\ file' = [file EXCEPT ![f] = new]
             /\ Stored' = Stored
             /\ versions' = versions
                  \cup (IF up[r].backfill THEN {FirstVersion(f, file[f])} ELSE {})
                  \cup {NewVersion(r)}
             /\ UNCHANGED <<disk, issued, condemned, mishap>>
<1> DEFINE f == up[r].file
           new == LatestRow(file[f], NewVersion(r), up[r].seen)
<1>1. pc[r] = "v_written" /\ pc'[r] = "idle" /\ OthersSame(r)
  BY EndWrites DEF VersionCommit
<1>2. /\ f \in Files /\ up[r].num \in 2 .. MaxVersion
      /\ up[r].size \in Sizes /\ up[r].dek \in Deks
  BY <1>1 DEF TypeInv, LocalsOK, VersionPcs
<1>3. f \in Stored /\ up[r].num \notin RowNumbers(f)
  BY DEF VersionCommit, NumberTaken
<1>4. NewVersion(r) \in VersionRow
  BY <1>2, PathTypes DEF NewVersion, VersionRow
<1>5. file[f] \in FileRow
  BY <1>2, <1>3 DEF Stored, TypeInv, TypeOK
<1>6. new \in FileRow
  BY <1>4, <1>5 DEF LatestRow, FileRow, VersionRow
<1>7. file' = [file EXCEPT ![f] = new]
  BY DEF VersionCommit, NewVersion
<1>8. Stored' = Stored
  <2>1. new # None
    BY <1>6, NoneIsNoRow
  <2> HIDE DEF new
  <2> QED
    BY <1>2, <1>3, <1>7, <2>1 DEF Stored, TypeInv, TypeOK
<1>9. versions' = versions
        \cup (IF up[r].backfill THEN {FirstVersion(f, file[f])} ELSE {})
        \cup {NewVersion(r)}
  BY DEF VersionCommit, NewVersion
<1> QED
  BY <1>1, <1>2, <1>3, <1>4, <1>5, <1>6, <1>7, <1>8, <1>9 DEF VersionCommit

LEMMA BackfillWrites ==
  ASSUME TypeInv, NEW r \in Requests, NEW f \in Files, BackfillFirst(r, f)
  PROVE  /\ f \in Stored /\ file[f] \in FileRow
         /\ VersionsOf(f) = {} /\ ~BackfillPending(f)
         /\ versions' = versions \cup {FirstVersion(f, file[f])}
         /\ UNCHANGED <<file, disk, issued, pc, up, pg, condemned, mishap>>
BY DEF BackfillFirst, Owns, Stored, TypeInv, TypeOK

LEMMA TrashWrites ==
  ASSUME TypeInv, NEW r \in Requests, NEW f \in Files,
         SoftDelete(r, f) \/ Restore(r, f)
  PROVE  /\ \A g \in Files : /\ file'[g] = None <=> file[g] = None
                             /\ file[g] # None =>
                                  /\ file'[g].owner = file[g].owner
                                  /\ file'[g].size = file[g].size
                                  /\ file'[g].blob = file[g].blob
                                  /\ file'[g].dek = file[g].dek
         /\ Stored' = Stored
         /\ UNCHANGED <<versions, disk, issued, pc, up, pg, condemned, mishap>>
<1>1. f \in Stored /\ \E b \in BOOLEAN : file' = [file EXCEPT ![f].trashed = b]
  BY DEF SoftDelete, Restore, Owns
<1>2. file \in [Files -> FileRow \cup {None}] /\ file[f] \in FileRow
  BY <1>1 DEF Stored, TypeInv, TypeOK
<1>3. /\ file'[f] \in FileRow
      /\ file'[f].owner = file[f].owner /\ file'[f].size = file[f].size
      /\ file'[f].blob = file[f].blob /\ file'[f].dek = file[f].dek
  BY <1>1, <1>2 DEF FileRow
<1>4. \A g \in Files \ {f} : file'[g] = file[g]
  BY <1>1, <1>2
<1>5. Stored' = Stored
  BY <1>2, <1>3, <1>4, NoneIsNoRow DEF Stored
<1> QED
  BY <1>2, <1>3, <1>4, <1>5, NoneIsNoRow DEF SoftDelete, Restore

LEMMA PurgeBeginWrites ==
  ASSUME TypeInv, NEW r \in Requests, NEW fs \in SUBSET Files, PurgeBegin(r, fs)
  PROVE  /\ pc[r] = "idle" /\ pc'[r] = "purging" /\ OthersSame(r)
         /\ pg'[r] = [todo |-> fs, gone |-> {}, paths |-> {}]
         /\ \A f \in fs : f \in Stored /\ (IsUser(r) => file[f].owner = Owner[r])
         /\ UNCHANGED <<file, versions, disk, issued, condemned, mishap, up>>
BY DEF TypeInv, TypeOK, PurgeBegin, Begin, OthersSame, Purgeable, Due, Owns, NoPurge

LEMMA PurgeLoadWrites ==
  ASSUME TypeInv, NEW r \in Requests, NEW f \in Files, PurgeLoad(r, f)
  PROVE  /\ pc[r] = "purging" /\ pc'[r] = "unlinking" /\ OthersSame(r)
         /\ f \in pg[r].todo /\ f \in Stored
         /\ pg'[r].todo = pg[r].todo \ {f} /\ pg'[r].gone = pg[r].gone \cup {f}
         /\ pg'[r].paths = PurgePaths(f)
         /\ condemned' = condemned \cup {f}
         /\ mishap => mishap'
         /\ ~mishap' => ~BeingWritten(f)
         /\ UNCHANGED <<file, versions, disk, issued, up>>
BY DEF TypeInv, TypeOK, PurgeVars, PurgeLoad, Begin, OthersSame

LEMMA PurgeSkipWrites ==
  ASSUME TypeInv, NEW r \in Requests, NEW f \in Files, PurgeSkip(r, f)
  PROVE  /\ pc[r] = "purging" /\ pc' = pc /\ OthersSame(r)
         /\ pg'[r].todo = pg[r].todo \ {f} /\ pg'[r].gone = pg[r].gone
         /\ pg'[r].paths = pg[r].paths
         /\ UNCHANGED <<file, versions, disk, issued, condemned, mishap, up>>
BY DEF TypeInv, TypeOK, PurgeVars, PurgeSkip, OthersSame

LEMMA UnlinkWrites ==
  ASSUME TypeInv, NEW r \in Requests, NEW p \in Path, PurgeUnlink(r, p)
  PROVE  /\ pc[r] = "unlinking" /\ p \in pg[r].paths /\ OthersSame(r)
         /\ pc'[r] = IF pg[r].paths = {p} THEN "purging" ELSE "unlinking"
         /\ pg'[r].todo = pg[r].todo /\ pg'[r].gone = pg[r].gone
         /\ pg'[r].paths = pg[r].paths \ {p}
         /\ \/ disk' = [disk EXCEPT ![p] = None] /\ mishap' = mishap
            \/ disk' = disk /\ mishap' = TRUE
         /\ UNCHANGED <<file, versions, issued, condemned, up>>
BY DEF TypeInv, TypeOK, PurgeVars, PurgeUnlink, OthersSame

LEMMA PurgeCommitWrites ==
  ASSUME TypeInv, NEW r \in Requests, PurgeCommit(r)
  PROVE  /\ pc[r] = "purging" /\ pc'[r] = "idle" /\ OthersSame(r)
         /\ Stored' = Stored \ pg[r].gone
         /\ \A f \in Stored' : file'[f] = file[f]
         /\ versions' = {v \in versions : v.file \notin pg[r].gone}
         /\ UNCHANGED <<disk, issued, condemned, mishap>>
<1>1. pc[r] = "purging" /\ pc'[r] = "idle" /\ OthersSame(r)
  BY EndWrites DEF PurgeCommit
<1>2. /\ file' = [f \in Files |-> IF f \in pg[r].gone THEN None ELSE file[f]]
      /\ versions' = {v \in versions : v.file \notin pg[r].gone}
      /\ UNCHANGED <<disk, issued, condemned, mishap>>
  BY DEF PurgeCommit
<1> QED
  BY <1>1, <1>2 DEF Stored

-----------------------------------------------------------------------------
\* A request that takes up nothing but files of its own account.
LEMMA OwnersKept ==
  ASSUME OwnersInv, IdsInv, NEW r \in Requests, OthersSame(r),
         pc'[r] \in Loading => IsUser(r),
         pc'[r] = "u_written" => pc[r] = "u_written" /\ up'[r] = up[r],
         \A f \in About(r)' :
           f \in About(r) \/ (f \in Stored /\ file[f].owner = Owner[r]),
         \A f \in Stored' : f \in Stored /\ file'[f].owner = file[f].owner,
         issued'.ids = issued.ids
  PROVE  OwnersInv'
<1>1. \A q \in Requests \ {r} : About(q)' = About(q)
  BY DEF OthersSame, About
<1>2. \A q \in Requests : pc[q] = "u_written" => up[q].file \notin Stored
  BY DEF IdsInv
<1>3. ASSUME NEW q \in Requests, NEW f \in About(q)'
      PROVE  /\ f \in issued.ids
             /\ f \in Stored => file[f].owner = Owner[q]
             /\ \A p \in Requests :
                  /\ f \in About(p) => Owner[p] = Owner[q]
                  /\ pc[p] = "u_written" => up[p].file # f
  <2>1. f \in About(q) \/ (f \in Stored /\ file[f].owner = Owner[q])
    BY <1>1, <1>3
  <2>2. CASE f \in About(q)
    BY <2>2 DEF OwnersInv
  <2>3. CASE f \in Stored /\ file[f].owner = Owner[q]
    <3>1. f \in issued.ids
      BY <2>3 DEF IdsInv
    <3>2. \A p \in Requests : f \in About(p) => Owner[p] = Owner[q]
      BY <2>3 DEF OwnersInv
    <3> QED
      BY <1>2, <2>3, <3>1, <3>2
  <2> QED
    BY <2>1, <2>2, <2>3
<1>4. ASSUME NEW q \in Requests, NEW f \in About(q)', NEW p \in Requests,
             f \in About(p)'
      PROVE  Owner[p] = Owner[q]
  <2>1. f \in About(p) \/ (f \in Stored /\ file[f].owner = Owner[p])
    BY <1>1, <1>4
  <2> QED
    BY <1>3, <2>1
<1>5. \A q \in Requests : pc'[q] = "u_written" =>
        pc[q] = "u_written" /\ up'[q] = up[q]
  BY DEF OthersSame
<1>6. \A q \in Requests : pc'[q] \in Loading => IsUser(q)
  BY DEF OthersSame, OwnersInv
<1> QED
  BY <1>3, <1>4, <1>5, <1>6 DEF OwnersInv

\* Every step keeps owners apart.
LEMMA OwnersStep ==
  ASSUME TypeInv, IdsInv, OwnersInv, [Next]_vars
  PROVE  OwnersInv'
<1> USE DEF Loading, UploadPcs, VersionPcs, PurgePcs
<1>1. CASE UNCHANGED vars
  BY <1>1 DEF vars, OwnersInv, About, Stored
<1>2. ASSUME NEW r \in Requests, Quit(r) PROVE OwnersInv'
  <2>1. pc'[r] = "idle" /\ OthersSame(r)
    BY <1>2, EndWrites DEF Quit
  <2>2. Stored' = Stored /\ UNCHANGED <<file, issued>>
    BY <1>2 DEF Quit, Stored
  <2>3. About(r)' = {}
    BY <2>1 DEF About
  <2> QED
    BY <2>1, <2>2, <2>3, OwnersKept
<1>3. ASSUME NEW r \in Requests, NEW s \in Sizes, UploadCheck(r, s) PROVE OwnersInv'
  <2>1. pc'[r] = "u_checked" /\ OthersSame(r) /\ UNCHANGED <<file, issued>>
    BY <1>3, CheckWrites
  <2>2. About(r)' = {} /\ IsUser(r) /\ Stored' = Stored
    BY <1>3, <2>1 DEF About, UploadCheck, Stored
  <2> QED
    BY <2>1, <2>2, OwnersKept
<1>4. ASSUME NEW r \in Requests, NEW f \in Files, NEW d \in Deks,
             UploadWrite(r, f, d)
      PROVE  OwnersInv'
  <2>1. /\ pc[r] = "u_checked" /\ pc'[r] = "u_written" /\ OthersSame(r)
        /\ up'[r].file = f /\ f \notin issued.ids
        /\ issued'.ids = issued.ids \cup {f} /\ file' = file
    BY <1>4, WriteWrites
  <2>2. About(r)' = {} /\ \A q \in Requests \ {r} : About(q)' = About(q)
    BY <2>1 DEF About, OthersSame
  <2>3. Stored' = Stored
    BY <2>1 DEF Stored
  <2>4. \A q \in Requests : f \notin About(q)
    BY <2>1 DEF OwnersInv
  <2>5. \A q \in Requests \ {r} : pc'[q] = pc[q] /\ up'[q] = up[q]
    BY <2>1 DEF OthersSame
  <2> QED
    BY <2>1, <2>2, <2>3, <2>4, <2>5 DEF OwnersInv
<1>5. ASSUME NEW r \in Requests, UploadCommit(r) PROVE OwnersInv'
  <2> DEFINE f == up[r].file
  <2>1. /\ pc[r] = "u_written" /\ pc'[r] = "idle" /\ OthersSame(r)
        /\ f \in Files /\ file' = [file EXCEPT ![f] = NewRow(r)]
        /\ issued' = issued
    BY <1>5, CommitWrites
  <2>2. About(r)' = {} /\ \A q \in Requests \ {r} : About(q)' = About(q)
    BY <2>1 DEF About, OthersSame
  <2>3. \A q \in Requests : f \notin About(q)
    BY <2>1 DEF OwnersInv
  <2>4. \A g \in Stored' : g # f => g \in Stored /\ file'[g] = file[g]
    BY <2>1 DEF Stored, TypeInv, TypeOK
  <2>5. \A q \in Requests \ {r} : pc'[q] = pc[q] /\ up'[q] = up[q]
    BY <2>1 DEF OthersSame
  <2> QED
    BY <2>1, <2>2, <2>3, <2>4, <2>5 DEF OwnersInv
<1>6. ASSUME NEW r \in Requests, NEW f \in Files, NEW s \in Sizes,
             VersionLoad(r, f, s)
      PROVE  OwnersInv'
  <2>1. /\ IsUser(r) /\ f \in Stored /\ file[f].owner = Owner[r]
        /\ pc'[r] = "v_loaded" /\ OthersSame(r) /\ up'[r].file = f
        /\ UNCHANGED <<file, issued>>
    BY <1>6, LoadWrites
  <2>2. About(r)' = {f} /\ Stored' = Stored
    BY <2>1 DEF About, Stored
  <2> QED
    BY <2>1, <2>2, OwnersKept
<1>7. ASSUME NEW r \in Requests,
             VersionPlan(r) \/ \E d \in Deks : VersionWrite(r, d)
      PROVE  OwnersInv'
  <2>1. /\ pc[r] \in VersionPcs /\ pc'[r] \in VersionPcs /\ OthersSame(r)
        /\ up'[r].file = up[r].file /\ file' = file /\ issued'.ids = issued.ids
    BY <1>7, PlanWrites, VersionWrites
  <2>2. About(r)' = About(r) /\ Stored' = Stored /\ IsUser(r)
    BY <2>1 DEF About, Stored, OwnersInv
  <2>3. pc'[r] # "u_written"
    BY <2>1
  <2> QED
    BY <2>1, <2>2, <2>3, OwnersKept
<1>8. ASSUME NEW r \in Requests, VersionCommit(r) PROVE OwnersInv'
  <2> DEFINE f == up[r].file
             new == LatestRow(file[f], NewVersion(r), up[r].seen)
  <2>1. /\ pc'[r] = "idle" /\ OthersSame(r) /\ issued' = issued
        /\ f \in Files /\ file[f] \in FileRow /\ file' = [file EXCEPT ![f] = new]
        /\ Stored' = Stored
    BY <1>8, VersionCommitWrites
  <2>2. new.owner = file[f].owner
    BY <2>1 DEF LatestRow, FileRow
  <2> HIDE DEF new
  <2>3. \A g \in Stored' : g \in Stored /\ file'[g].owner = file[g].owner
    BY <2>1, <2>2 DEF Stored, TypeInv, TypeOK
  <2>4. About(r)' = {}
    BY <2>1 DEF About
  <2> QED
    BY <2>1, <2>3, <2>4, OwnersKept
<1>9. ASSUME NEW r \in Requests, NEW f \in Files,
             BackfillFirst(r, f) \/ SoftDelete(r, f) \/ Restore(r, f)
      PROVE  OwnersInv'
  <2>1. /\ UNCHANGED <<pc, up, pg, issued>> /\ Stored' = Stored
        /\ \A g \in Stored : file'[g].owner = file[g].owner
    BY <1>9, BackfillWrites, TrashWrites DEF Stored
  <2>2. OthersSame(r) /\ About(r)' = About(r)
    BY <2>1 DEF OthersSame, About
  <2>3. pc'[r] \in Loading => IsUser(r)
    BY <2>1 DEF OwnersInv
  <2> QED
    BY <2>1, <2>2, <2>3, OwnersKept
<1>10. ASSUME NEW r \in Requests, NEW fs \in SUBSET Files, PurgeBegin(r, fs)
       PROVE  OwnersInv'
  <2>1. /\ pc'[r] = "purging" /\ OthersSame(r)
        /\ pg'[r] = [todo |-> fs, gone |-> {}, paths |-> {}]
        /\ \A f \in fs : f \in Stored /\ (IsUser(r) => file[f].owner = Owner[r])
        /\ UNCHANGED <<file, issued>>
    BY <1>10, PurgeBeginWrites
  <2>2. /\ \A f \in About(r)' : f \in fs /\ IsUser(r)
        /\ Stored' = Stored
    BY <2>1 DEF About, Stored
  <2> QED
    BY <2>1, <2>2, OwnersKept
<1>11. ASSUME NEW r \in Requests,
              \/ \E f \in Files : PurgeLoad(r, f) \/ PurgeSkip(r, f)
              \/ \E p \in Path : PurgeUnlink(r, p)
       PROVE  OwnersInv'
  <2>1. /\ pc[r] \in PurgePcs /\ pc'[r] \in PurgePcs /\ OthersSame(r)
        /\ pg'[r].todo \cup pg'[r].gone \subseteq pg[r].todo \cup pg[r].gone
        /\ UNCHANGED <<file, issued>>
    <3>1. CASE \E f \in Files : PurgeLoad(r, f)
      <4>1. PICK f \in Files : PurgeLoad(r, f)
        BY <3>1
      <4>2. /\ pg'[r].todo = pg[r].todo \ {f} /\ pg'[r].gone = pg[r].gone \cup {f}
            /\ f \in pg[r].todo
        BY <4>1, PurgeLoadWrites
      <4> QED
        BY <4>1, <4>2, PurgeLoadWrites
    <3>2. CASE \E f \in Files : PurgeSkip(r, f)
      <4>1. PICK f \in Files : PurgeSkip(r, f)
        BY <3>2
      <4> QED
        BY <4>1, PurgeSkipWrites
    <3>3. CASE \E p \in Path : PurgeUnlink(r, p)
      <4>1. PICK p \in Path : PurgeUnlink(r, p)
        BY <3>3
      <4> QED
        BY <4>1, UnlinkWrites
    <3> QED
      BY <1>11, <3>1, <3>2, <3>3
  <2>2. About(r)' \subseteq About(r) /\ Stored' = Stored
    BY <2>1 DEF About, Stored
  <2>3. pc'[r] \notin Loading
    BY <2>1
  <2> QED
    BY <2>1, <2>2, <2>3, OwnersKept
<1>12. ASSUME NEW r \in Requests, PurgeCommit(r) PROVE OwnersInv'
  <2>1. /\ pc'[r] = "idle" /\ OthersSame(r) /\ issued' = issued
        /\ \A g \in Stored' : g \in Stored /\ file'[g] = file[g]
    BY <1>12, PurgeCommitWrites
  <2>2. About(r)' = {}
    BY <2>1 DEF About
  <2> QED
    BY <2>1, <2>2, OwnersKept
<1> QED
  BY <1>1, <1>2, <1>3, <1>4, <1>5, <1>6, <1>7, <1>8, <1>9, <1>10, <1>11, <1>12,
     StepCases

-----------------------------------------------------------------------------
LEMMA OwnersInit == Init => OwnersInv
BY DEF Init, OwnersInv, About, Loading, UploadPcs, VersionPcs, PurgePcs

\* For any clients: one owner per file that is worked on.
LEMMA OwnersInvariant == Spec => []OwnersInv
<1>1. TypeInv /\ IdsInv /\ OwnersInv /\ [Next]_vars => OwnersInv'
  BY OwnersStep
<1> QED
  BY <1>1, OwnersInit, TypeInvariant, RowsInvariant, PTL DEF Spec

-----------------------------------------------------------------------------
\* Steps that give no rows to a file whose version 1 somebody is to insert.
LEMMA PendingKept ==
  ASSUME PendingInv,
         \A q \in Requests : pc'[q] \in Planned =>
           /\ pc[q] \in Planned
           /\ up'[q].file = up[q].file /\ up'[q].backfill = up[q].backfill,
         \A q \in Requests :
           pc'[q] \in Planned /\ up[q].backfill /\ up[q].file \in Stored' =>
             /\ up[q].file \in Stored
             /\ VersionsOf(up[q].file)' \subseteq VersionsOf(up[q].file)
  PROVE  PendingInv'
<1> SUFFICES ASSUME NEW r \in Requests, pc'[r] \in Planned, up'[r].backfill,
                    up'[r].file \in Stored'
             PROVE  /\ VersionsOf(up[r].file)' = {}
                    /\ \A q \in Requests \ {r} : pc'[q] \in Planned =>
                         up'[q].file # up'[r].file
  BY DEF PendingInv, VersionsOf
<1>1. /\ VersionsOf(up[r].file) = {}
      /\ \A q \in Requests \ {r} : pc[q] \in Planned => up[q].file # up[r].file
  BY DEF PendingInv
<1> QED
  BY <1>1

\* A plan to insert version 1 is made where no plan of the file is.
LEMMA PendingPlan ==
  ASSUME TypeInv, RowsInv, PendingInv, NEW r \in Requests, VersionPlan(r)
  PROVE  PendingInv'
<1> DEFINE f == up[r].file
<1>1. /\ pc[r] = "v_loaded" /\ pc'[r] = "v_planned" /\ OthersSame(r)
      /\ f \in Stored
      /\ VersionsOf(f) = {} => ~BackfillPending(f)
      /\ up'[r].backfill = (VersionsOf(f) = {}) /\ up'[r].file = f
      /\ UNCHANGED <<file, versions>>
  BY PlanWrites
<1>2. Stored' = Stored /\ \A g : VersionsOf(g)' = VersionsOf(g)
  BY <1>1 DEF Stored, VersionsOf
<1>3. ASSUME VersionsOf(f) = {}, NEW q \in Requests, pc[q] \in Planned,
             up[q].file = f
      PROVE  FALSE
  <2>1. ~up[q].backfill
    BY <1>1, <1>3 DEF BackfillPending, Planned
  <2>2. up[q].num - 1 \in RowNumbers(f)
    BY <1>1, <1>3, <2>1 DEF RowsInv, PlansInv
  <2> QED
    BY <1>3, <2>2 DEF RowNumbers
<1>4. ASSUME NEW q \in Requests \ {r}, pc[q] \in Planned, up[q].file = f,
             up[q].backfill
      PROVE  FALSE
  BY <1>1, <1>3, <1>4 DEF PendingInv
<1>5. ASSUME NEW q \in Requests, pc'[q] \in Planned, up'[q].backfill,
             up'[q].file \in Stored'
      PROVE  /\ VersionsOf(up[q].file)' = {}
             /\ \A p \in Requests \ {q} : pc'[p] \in Planned =>
                  up'[p].file # up'[q].file
  <2>1. CASE q = r
    <3>1. VersionsOf(f) = {}
      BY <1>1, <1>5, <2>1
    <3>2. \A p \in Requests \ {r} : pc'[p] \in Planned => up'[p].file # f
      BY <1>1, <1>3, <3>1 DEF OthersSame
    <3>3. VersionsOf(up[q].file)' = VersionsOf(f)
      BY <1>1, <2>1 DEF VersionsOf
    <3> QED
      BY <1>1, <2>1, <3>1, <3>2, <3>3
  <2>2. CASE q # r
    <3>1. pc[q] \in Planned /\ up'[q] = up[q] /\ up[q].file \in Stored
      BY <1>1, <1>2, <1>5, <2>2 DEF OthersSame
    <3>2. /\ VersionsOf(up[q].file) = {}
          /\ \A p \in Requests \ {q} : pc[p] \in Planned => up[p].file # up[q].file
      BY <1>5, <3>1 DEF PendingInv
    <3>3. up[q].file # f
      BY <1>4, <1>5, <2>2, <3>1
    <3>4. VersionsOf(up[q].file)' = VersionsOf(up[q].file)
      BY <1>1, <3>1 DEF VersionsOf
    <3>5. \A p \in Requests \ {q} : pc'[p] \in Planned => up'[p].file # up[q].file
      BY <1>1, <3>2, <3>3 DEF OthersSame
    <3> QED
      BY <3>1, <3>2, <3>4, <3>5
  <2> QED
    BY <2>1, <2>2
<1>6. PendingInv'
  BY <1>5 DEF PendingInv
<1> QED
  BY <1>6

\* Every step keeps one inserter of version 1 per file.
LEMMA PendingStep ==
  ASSUME TypeInv, IdsInv, RowsInv, PendingInv, [Next]_vars
  PROVE  PendingInv'
<1>1. CASE UNCHANGED vars
  BY <1>1 DEF vars, PendingInv, Stored, VersionsOf
<1>2. ASSUME NEW r \in Requests, OthersSame(r), pc'[r] \notin Planned,
             versions' \subseteq versions, Stored' \subseteq Stored
      PROVE  PendingInv'
  BY <1>2, PendingKept DEF OthersSame, VersionsOf
<1>3. ASSUME NEW r \in Requests,
             \/ Quit(r)
             \/ \E s \in Sizes : UploadCheck(r, s)
             \/ \E f \in Files, d \in Deks : UploadWrite(r, f, d)
             \/ \E f \in Files, s \in Sizes : VersionLoad(r, f, s)
             \/ \E fs \in SUBSET Files : PurgeBegin(r, fs)
             \/ \E f \in Files : PurgeLoad(r, f) \/ PurgeSkip(r, f)
             \/ \E p \in Path : PurgeUnlink(r, p)
             \/ PurgeCommit(r)
      PROVE  PendingInv'
  <2>1. /\ OthersSame(r) /\ pc'[r] \notin Planned
        /\ versions' \subseteq versions /\ Stored' \subseteq Stored
    <3>1. CASE Quit(r)
      BY <3>1, EndWrites DEF Quit, Planned, Stored
    <3>2. CASE \E s \in Sizes : UploadCheck(r, s)
      BY <3>2, CheckWrites DEF Planned, Stored
    <3>3. CASE \E f \in Files, d \in Deks : UploadWrite(r, f, d)
      BY <3>3, WriteWrites DEF Planned, Stored
    <3>4. CASE \E f \in Files, s \in Sizes : VersionLoad(r, f, s)
      BY <3>4, LoadWrites DEF Planned, Stored
    <3>5. CASE \E fs \in SUBSET Files : PurgeBegin(r, fs)
      BY <3>5, PurgeBeginWrites DEF Planned, Stored
    <3>6. CASE \E f \in Files : PurgeLoad(r, f)
      BY <3>6, PurgeLoadWrites DEF Planned, Stored
    <3>7. CASE \E f \in Files : PurgeSkip(r, f)
      BY <3>7, PurgeSkipWrites DEF Planned, Stored
    <3>8. CASE \E p \in Path : PurgeUnlink(r, p)
      BY <3>8, UnlinkWrites DEF Planned, Stored
    <3>9. CASE PurgeCommit(r)
      BY <3>9, PurgeCommitWrites DEF Planned
    <3> QED
      BY <1>3, <3>1, <3>2, <3>3, <3>4, <3>5, <3>6, <3>7, <3>8, <3>9
  <2> QED
    BY <1>2, <2>1
<1>4. ASSUME NEW r \in Requests, UploadCommit(r) PROVE PendingInv'
  <2> DEFINE f == up[r].file
  <2>1. /\ pc[r] = "u_written" /\ pc'[r] = "idle" /\ OthersSame(r)
        /\ f \in Files /\ file' = [file EXCEPT ![f] = NewRow(r)]
        /\ versions' = versions \cup {FirstVersion(f, NewRow(r))}
    BY <1>4, CommitWrites
  <2>2. \A q \in Requests : pc'[q] \in Planned =>
          pc[q] \in Planned /\ up'[q] = up[q] /\ up[q].file # f
    BY <2>1 DEF OthersSame, Planned, Writing, VersionPcs, IdsInv
  <2>3. \A g \in Files \ {f} :
          (g \in Stored' => g \in Stored) /\ VersionsOf(g)' = VersionsOf(g)
    BY <2>1 DEF Stored, VersionsOf, FirstVersion, TypeInv, TypeOK
  <2>4. \A q \in Requests : pc'[q] \in Planned /\ up[q].file \in Stored' =>
          up[q].file \in Files \ {f}
    BY <2>2 DEF Stored
  <2> QED
    BY <2>2, <2>3, <2>4, PendingKept
<1>5. ASSUME NEW r \in Requests, NEW f \in Files, BackfillFirst(r, f)
      PROVE  PendingInv'
  <2>1. /\ ~BackfillPending(f) /\ UNCHANGED <<file, pc, up>>
        /\ versions' = versions \cup {FirstVersion(f, file[f])}
    BY <1>5, BackfillWrites
  <2>2. /\ Stored' = Stored
        /\ \A g : g # f => VersionsOf(g)' = VersionsOf(g)
    BY <2>1 DEF Stored, VersionsOf, FirstVersion
  <2>3. \A q \in Requests : pc[q] \in Planned /\ up[q].backfill => up[q].file # f
    BY <2>1 DEF BackfillPending, Planned
  <2> QED
    BY <2>1, <2>2, <2>3, PendingKept
<1>6. ASSUME NEW r \in Requests, VersionCommit(r) PROVE PendingInv'
  <2> DEFINE f == up[r].file
  <2>1. /\ pc[r] = "v_written" /\ pc'[r] = "idle" /\ OthersSame(r)
        /\ Stored' = Stored /\ f \in Stored
        /\ versions' = versions
             \cup (IF up[r].backfill THEN {FirstVersion(f, file[f])} ELSE {})
             \cup {NewVersion(r)}
    BY <1>6, VersionCommitWrites
  <2>2. \A g : g # f => VersionsOf(g)' = VersionsOf(g)
    BY <2>1 DEF VersionsOf, FirstVersion, NewVersion
  <2>3. \A q \in Requests : pc'[q] \in Planned =>
          pc[q] \in Planned /\ up'[q] = up[q] /\ q # r
    BY <2>1 DEF OthersSame, Planned
  <2>4. \A q \in Requests : pc'[q] \in Planned /\ up[q].backfill => up[q].file # f
    BY <2>1, <2>3 DEF PendingInv, Planned
  <2> QED
    BY <2>1, <2>2, <2>3, <2>4, PendingKept
<1>7. ASSUME NEW r \in Requests, NEW d \in Deks, VersionWrite(r, d)
      PROVE  PendingInv'
  <2>1. /\ pc[r] \in Planned /\ OthersSame(r)
        /\ up'[r].file = up[r].file /\ up'[r].backfill = up[r].backfill
        /\ UNCHANGED <<file, versions>>
    BY <1>7, VersionWrites DEF Planned
  <2>2. Stored' = Stored /\ \A g : VersionsOf(g)' = VersionsOf(g)
    BY <2>1 DEF Stored, VersionsOf
  <2> QED
    BY <2>1, <2>2, PendingKept DEF OthersSame
<1>8. ASSUME NEW r \in Requests, NEW f \in Files, SoftDelete(r, f) \/ Restore(r, f)
      PROVE  PendingInv'
  <2>1. Stored' = Stored /\ UNCHANGED <<versions, pc, up>>
    BY <1>8, TrashWrites
  <2> QED
    BY <2>1, PendingKept DEF VersionsOf
<1> QED
  BY <1>1, <1>3, <1>4, <1>5, <1>6, <1>7, <1>8, PendingPlan, StepCases

\* For any clients: nobody else plans a version while version 1 is to be inserted.
LEMMA PendingInvariant == Spec => []PendingInv
<1>1. TypeInv /\ (IdsInv /\ RowsInv) /\ PendingInv /\ [Next]_vars => PendingInv'
  BY PendingStep
<1>2. Init => PendingInv
  BY DEF Init, PendingInv, Planned
<1> QED
  BY <1>1, <1>2, TypeInvariant, RowsInvariant, PTL DEF Spec

-----------------------------------------------------------------------------
(***************************************************************************)
(* No file is sent two versions at once: what the last version's row says   *)
(* is what its blob holds and what the files row charges.                   *)
(***************************************************************************)
\* Steps that write no blob and add no row.
LEMMA ReadableKept ==
  ASSUME ReadableInv, disk' = disk, versions' \subseteq versions,
         Stored' \subseteq Stored, condemned \subseteq condemned',
         \A q \in Requests : pc'[q] \in Planned =>
           pc'[q] = pc[q] /\ up'[q] = up[q]
  PROVE  ReadableInv'
<1>1. \A f : RowNumbers(f)' \subseteq RowNumbers(f)
  BY DEF RowNumbers, VersionsOf
<1>2. VersionsReadable'
  BY DEF ReadableInv, VersionsReadable
<1>3. ASSUME NEW r \in Requests, pc'[r] \in Planned, up'[r].file \in Stored'
      PROVE  up'[r].num \notin RowNumbers(up[r].file)'
  <2>1. up[r].num \notin RowNumbers(up[r].file)
    BY <1>3 DEF ReadableInv
  <2> QED
    BY <1>1, <1>3, <2>1
<1>4. ASSUME NEW r \in Requests, pc'[r] = "v_written",
             up'[r].file \notin condemned'
      PROVE  disk'[VersionPath(up'[r].file, up'[r].num)] = up'[r].dek
  BY <1>4 DEF ReadableInv, Planned
<1>5. \A r \in Requests : pc'[r] \in Planned => up'[r] = up[r]
  OBVIOUS
<1> QED
  BY <1>2, <1>3, <1>4, <1>5 DEF ReadableInv, RowNumbers, VersionsOf

\* A blob is written or removed where no committed version is.
LEMMA ReadableDisk ==
  ASSUME TypeInv, ReadableInv, NEW r \in Requests, OthersSame(r),
         NEW p \in Path, NEW c, disk' = [disk EXCEPT ![p] = c],
         UNCHANGED <<file, versions, condemned>>,
         \A v \in versions : v.file \notin condemned => v.path # p,
         \A q \in Requests \ {r} :
           pc[q] = "v_written" /\ up[q].file \notin condemned =>
             VersionPath(up[q].file, up[q].num) # p,
         pc'[r] \in Planned =>
           /\ pc[r] = "v_planned" /\ pc'[r] = "v_written"
           /\ up'[r].file = up[r].file /\ up'[r].num = up[r].num
           /\ VersionPath(up[r].file, up[r].num) = p /\ up'[r].dek = c
  PROVE  ReadableInv'
<1>1. /\ disk \in [Path -> Deks \cup {None}] /\ versions \subseteq VersionRow
      /\ \A q \in Path : q # p => disk'[q] = disk[q]
      /\ disk'[p] = c
  BY DEF TypeInv, TypeOK
<1>2. VersionsReadable'
  BY <1>1 DEF ReadableInv, VersionsReadable, VersionRow
<1>3. /\ Stored' = Stored
      /\ \A f : RowNumbers(f)' = RowNumbers(f)
  BY DEF Stored, RowNumbers, VersionsOf
<1>4. ASSUME NEW q \in Requests, pc'[q] \in Planned
      PROVE  /\ pc[q] \in Planned
             /\ up'[q].file = up[q].file /\ up'[q].num = up[q].num
  BY <1>4 DEF OthersSame, Planned
<1>5. ASSUME NEW q \in Requests, pc'[q] \in Planned, up'[q].file \in Stored'
      PROVE  up'[q].num \notin RowNumbers(up[q].file)'
  <2>1. up[q].num \notin RowNumbers(up[q].file)
    BY <1>3, <1>4, <1>5 DEF ReadableInv
  <2> QED
    BY <1>3, <1>4, <1>5, <2>1
<1>6. ASSUME NEW q \in Requests, pc'[q] = "v_written",
             up'[q].file \notin condemned'
      PROVE  disk'[VersionPath(up'[q].file, up'[q].num)] = up'[q].dek
  <2>1. CASE q = r
    BY <1>1, <1>6, <2>1 DEF Planned
  <2>2. CASE q # r
    <3>1. pc[q] = "v_written" /\ up'[q] = up[q]
      BY <1>6, <2>2 DEF OthersSame
    <3>2. VersionPath(up[q].file, up[q].num) \in Path
      BY <3>1, PathTypes DEF TypeInv, LocalsOK, VersionPcs
    <3> QED
      BY <1>1, <1>6, <2>2, <3>1, <3>2 DEF ReadableInv
  <2> QED
    BY <2>1, <2>2
<1>7. \A q \in Requests : pc'[q] \in Planned => up'[q].file = up[q].file
  BY <1>4
<1>8. \A q \in Requests : pc'[q] \in Planned /\ up'[q].file \in Stored' =>
        up'[q].num \notin {v.num : v \in {w \in versions' : w.file = up'[q].file}}
  BY <1>5, <1>7 DEF RowNumbers, VersionsOf
<1> QED
  BY <1>2, <1>6, <1>8 DEF ReadableInv, RowNumbers, VersionsOf

\* Rows of one file are committed, each with its blob in place.
LEMMA ReadableCommit ==
  ASSUME ReadableInv, NEW f, NEW new, versions' = versions \cup new,
         UNCHANGED <<disk, condemned>>,
         \A v \in new : v.file = f /\ (f \notin condemned => disk[v.path] = v.dek),
         Stored' \subseteq Stored \cup {f},
         \A q \in Requests : pc'[q] \in Planned =>
           pc'[q] = pc[q] /\ up'[q] = up[q] /\ up[q].file # f
  PROVE  ReadableInv'
<1>1. VersionsReadable'
  BY DEF ReadableInv, VersionsReadable
<1>2. \A g : g # f => RowNumbers(g)' = RowNumbers(g)
  BY DEF RowNumbers, VersionsOf
<1>3. ASSUME NEW q \in Requests, pc'[q] \in Planned, up'[q].file \in Stored'
      PROVE  up'[q].num \notin RowNumbers(up[q].file)'
  <2>1. up[q].num \notin RowNumbers(up[q].file)
    BY <1>3 DEF ReadableInv
  <2> QED
    BY <1>2, <1>3, <2>1
<1>4. \A q \in Requests : pc'[q] \in Planned /\ up'[q].file \in Stored' =>
        up'[q].num \notin {v.num : v \in {w \in versions' : w.file = up'[q].file}}
  BY <1>3 DEF RowNumbers, VersionsOf
<1>5. ASSUME NEW q \in Requests, pc'[q] = "v_written",
             up'[q].file \notin condemned'
      PROVE  disk'[VersionPath(up'[q].file, up'[q].num)] = up'[q].dek
  BY <1>5 DEF ReadableInv, Planned
<1> QED
  BY <1>1, <1>4, <1>5 DEF ReadableInv, RowNumbers, VersionsOf

\* A planned number is above all numbers that have rows.
LEMMA ReadablePlan ==
  ASSUME TypeInv, ReadableInv, NEW r \in Requests, VersionPlan(r)
  PROVE  ReadableInv'
<1> DEFINE f == up[r].file
<1>1. /\ pc'[r] = "v_planned" /\ OthersSame(r)
      /\ NextNumber(f, up'[r].num) /\ up'[r].num \in 2 .. MaxVersion
      /\ up'[r].file = f
      /\ UNCHANGED <<file, versions, disk, condemned>>
  BY PlanWrites
<1>2. up'[r].num \notin RowNumbers(f)
  <2>1. PICK n \in 2 .. MaxVersion : n = up'[r].num
    BY <1>1
  <2>2. ASSUME n \in RowNumbers(f) PROVE FALSE
    <3>1. n < n
      BY <1>1, <2>1, <2>2 DEF NextNumber, RowNumbers
    <3> QED
      BY <3>1, FileStorageAssumption
  <2> QED
    BY <2>1, <2>2
<1>3. Stored' = Stored /\ \A g : RowNumbers(g)' = RowNumbers(g)
  BY <1>1 DEF Stored, RowNumbers, VersionsOf
<1>4. ASSUME NEW q \in Requests, pc'[q] \in Planned, up'[q].file \in Stored'
      PROVE  up'[q].num \notin {v.num : v \in {w \in versions' : w.file = up'[q].file}}
  <2>1. CASE q = r
    BY <1>1, <1>2, <2>1 DEF RowNumbers, VersionsOf
  <2>2. CASE q # r
    BY <1>1, <1>3, <1>4, <2>2 DEF OthersSame, ReadableInv, RowNumbers, VersionsOf
  <2> QED
    BY <2>1, <2>2
<1>5. ASSUME NEW q \in Requests, pc'[q] = "v_written",
             up'[q].file \notin condemned'
      PROVE  disk'[VersionPath(up'[q].file, up'[q].num)] = up'[q].dek
  BY <1>1, <1>5 DEF OthersSame, ReadableInv
<1>6. VersionsReadable'
  BY <1>1 DEF ReadableInv, VersionsReadable
<1> QED
  BY <1>4, <1>5, <1>6 DEF ReadableInv, RowNumbers, VersionsOf

\* One uploader per file: every step keeps committed versions readable.
LEMMA ReadableStep ==
  ASSUME TypeInv, IdsInv, RowsInv, PathsInv, DiskInv, PendingInv, OneUploader,
         ReadableInv, [Next]_vars
  PROVE  ReadableInv'
<1>1. CASE UNCHANGED vars
  BY <1>1, ReadableKept DEF vars, Stored
<1>2. ASSUME NEW r \in Requests, OthersSame(r), pc'[r] \notin Planned,
             disk' = disk, versions' \subseteq versions, Stored' \subseteq Stored,
             condemned \subseteq condemned'
      PROVE  ReadableInv'
  BY <1>2, ReadableKept DEF OthersSame
<1>3. ASSUME NEW r \in Requests,
             \/ Quit(r)
             \/ \E s \in Sizes : UploadCheck(r, s)
             \/ \E f \in Files, s \in Sizes : VersionLoad(r, f, s)
             \/ \E fs \in SUBSET Files : PurgeBegin(r, fs)
             \/ \E f \in Files : PurgeLoad(r, f) \/ PurgeSkip(r, f)
             \/ PurgeCommit(r)
      PROVE  ReadableInv'
  <2>1. /\ OthersSame(r) /\ pc'[r] \notin Planned /\ disk' = disk
        /\ versions' \subseteq versions /\ Stored' \subseteq Stored
        /\ condemned \subseteq condemned'
    <3>1. CASE Quit(r)
      BY <3>1, EndWrites DEF Quit, Planned, Stored
    <3>2. CASE \E s \in Sizes : UploadCheck(r, s)
      BY <3>2, CheckWrites DEF Planned, Stored
    <3>4. CASE \E f \in Files, s \in Sizes : VersionLoad(r, f, s)
      BY <3>4, LoadWrites DEF Planned, Stored
    <3>5. CASE \E fs \in SUBSET Files : PurgeBegin(r, fs)
      BY <3>5, PurgeBeginWrites DEF Planned, Stored
    <3>6. CASE \E f \in Files : PurgeLoad(r, f)
      BY <3>6, PurgeLoadWrites DEF Planned, Stored
    <3>7. CASE \E f \in Files : PurgeSkip(r, f)
      BY <3>7, PurgeSkipWrites DEF Planned, Stored
    <3>9. CASE PurgeCommit(r)
      BY <3>9, PurgeCommitWrites DEF Planned
    <3> QED
      BY <1>3, <3>1, <3>2, <3>4, <3>5, <3>6, <3>7, <3>9
  <2> QED
    BY <1>2, <2>1
<1>4. ASSUME NEW r \in Requests, NEW f \in Files, NEW d \in Deks,
             UploadWrite(r, f, d)
      PROVE  ReadableInv'
  <2>1. /\ pc'[r] = "u_written" /\ OthersSame(r) /\ f \notin issued.ids
        /\ disk' = [disk EXCEPT ![BasePath(f)] = d]
        /\ UNCHANGED <<file, versions, condemned>>
    BY <1>4, WriteWrites
  <2>2. \A v \in versions : v.path # BasePath(f)
    <3>1. \A v \in versions : v.path[1] = v.file /\ v.file \in Stored
      BY PathFacts DEF PathsInv, RowsInv, RowNamesLatest
    <3> QED
      BY <2>1, <3>1, PathFacts DEF IdsInv
  <2>3. \A q \in Requests : pc[q] = "v_written" =>
          VersionPath(up[q].file, up[q].num) # BasePath(f)
    <3>1. \A q \in Requests : pc[q] = "v_written" => up[q].num # 0
      BY FileStorageAssumption DEF TypeInv, LocalsOK
    <3> QED
      BY <3>1, PathFacts
  <2>4. BasePath(f) \in Path
    BY PathTypes
  <2> QED
    BY <2>1, <2>2, <2>3, <2>4, ReadableDisk DEF Planned
<1>5. ASSUME NEW r \in Requests, UploadCommit(r) PROVE ReadableInv'
  <2> DEFINE f == up[r].file
             v == FirstVersion(f, NewRow(r))
  <2>1. /\ pc[r] = "u_written" /\ pc'[r] = "idle" /\ OthersSame(r)
        /\ f \in Files /\ file' = [file EXCEPT ![f] = NewRow(r)]
        /\ versions' = versions \cup {v}
        /\ UNCHANGED <<disk, condemned>>
    BY <1>5, CommitWrites
  <2>2. v.file = f /\ v.path = BasePath(f) /\ v.dek = up[r].dek
    BY DEF FirstVersion, NewRow
  <2>3. disk[BasePath(f)] = up[r].dek
    BY <2>1 DEF DiskInv
  <2>4. \A q \in Requests : pc'[q] \in Planned =>
          pc'[q] = pc[q] /\ up'[q] = up[q] /\ up[q].file # f
    BY <2>1 DEF OthersSame, Planned, Writing, VersionPcs, IdsInv
  <2>5. Stored' \subseteq Stored \cup {f}
    BY <2>1 DEF Stored, TypeInv, TypeOK
  <2> DEFINE new == {v}
  <2> HIDE DEF v
  <2>6. \A w \in new : w.file = f /\ (f \notin condemned => disk[w.path] = w.dek)
    BY <2>2, <2>3
  <2>7. versions' = versions \cup new
    BY <2>1
  <2> HIDE DEF new
  <2> QED
    BY <2>1, <2>4, <2>5, <2>6, <2>7, ReadableCommit
<1>6. ASSUME NEW r \in Requests, NEW d \in Deks, VersionWrite(r, d)
      PROVE  ReadableInv'
  <2> DEFINE f == up[r].file
             p == VersionPath(f, up[r].num)
  <2>1. /\ pc[r] = "v_planned" /\ pc'[r] = "v_written" /\ OthersSame(r)
        /\ up'[r].dek = d /\ up'[r].file = f /\ up'[r].num = up[r].num
        /\ f \in Files /\ up[r].num \in 2 .. MaxVersion
        /\ disk' = [disk EXCEPT ![p] = d]
        /\ UNCHANGED <<file, versions, condemned>>
    BY <1>6, VersionWrites
  <2>2. p \in Path
    BY <2>1, PathTypes, FileStorageAssumption
  <2>3. ASSUME NEW v \in versions, v.path = p PROVE FALSE
    <3>1. v.path = IF v.num = 1 THEN BasePath(v.file) ELSE VersionPath(v.file, v.num)
      BY DEF PathsInv
    <3>2. up[r].num # 0
      BY <2>1, FileStorageAssumption
    <3>3. v.file = f /\ v.num = up[r].num
      BY <2>3, <3>1, <3>2 DEF BasePath, VersionPath
    <3>4. up[r].num \in RowNumbers(f) /\ f \in Stored
      BY <3>3 DEF RowNumbers, VersionsOf, RowsInv, RowNamesLatest
    <3> QED
      BY <2>1, <3>4 DEF ReadableInv, Planned
  <2>4. ASSUME NEW q \in Requests \ {r}, pc[q] = "v_written"
        PROVE  VersionPath(up[q].file, up[q].num) # p
    <3>1. up[q].file # f
      BY <2>1, <2>4 DEF OneUploader, VersionPcs
    <3> QED
      BY <3>1 DEF VersionPath
  <2>5. pc'[r] \in Planned =>
          /\ pc[r] = "v_planned" /\ pc'[r] = "v_written"
          /\ up'[r].file = up[r].file /\ up'[r].num = up[r].num
          /\ VersionPath(up[r].file, up[r].num) = p /\ up'[r].dek = d
    BY <2>1
  <2>6. /\ OthersSame(r) /\ disk' = [disk EXCEPT ![p] = d]
        /\ UNCHANGED <<file, versions, condemned>>
    BY <2>1
  <2> HIDE DEF p
  <2> QED
    BY <2>2, <2>3, <2>4, <2>5, <2>6, ReadableDisk
<1>7. ASSUME NEW r \in Requests, VersionCommit(r) PROVE ReadableInv'
  <2> DEFINE f == up[r].file
             v == NewVersion(r)
             first == FirstVersion(f, file[f])
             new == (IF up[r].backfill THEN {first} ELSE {}) \cup {v}
  <2>1. /\ pc[r] = "v_written" /\ pc'[r] = "idle" /\ OthersSame(r)
        /\ f \in Stored /\ Stored' = Stored
        /\ versions' = versions \cup (IF up[r].backfill THEN {first} ELSE {})
             \cup {v}
        /\ UNCHANGED <<disk, condemned>>
    BY <1>7, VersionCommitWrites
  <2>2. /\ v.file = f /\ v.path = VersionPath(f, up[r].num) /\ v.dek = up[r].dek
        /\ first.file = f /\ first.path = file[f].blob /\ first.dek = file[f].dek
    BY DEF NewVersion, FirstVersion
  <2>3. f \notin condemned => disk[v.path] = v.dek
    BY <2>1, <2>2 DEF ReadableInv
  <2>4. up[r].backfill /\ f \notin condemned => disk[first.path] = first.dek
    BY <2>1, <2>2 DEF PendingInv, Planned, PathsInv, DiskInv
  <2>5. \A q \in Requests : pc'[q] \in Planned =>
          pc'[q] = pc[q] /\ up'[q] = up[q] /\ up[q].file # f
    BY <2>1 DEF OthersSame, Planned, OneUploader, VersionPcs
  <2> HIDE DEF v, first
  <2>6. \A w \in new : w.file = f /\ (f \notin condemned => disk[w.path] = w.dek)
    BY <2>2, <2>3, <2>4
  <2>7. versions' = versions \cup new
    BY <2>1
  <2> HIDE DEF new
  <2> QED
    BY <2>1, <2>5, <2>6, <2>7, ReadableCommit
<1>8. ASSUME NEW r \in Requests, NEW f \in Files, BackfillFirst(r, f)
      PROVE  ReadableInv'
  <2> DEFINE first == FirstVersion(f, file[f])
  <2>1. /\ f \in Stored /\ VersionsOf(f) = {} /\ ~BackfillPending(f)
        /\ versions' = versions \cup {first}
        /\ UNCHANGED <<file, disk, pc, up, condemned>>
    BY <1>8, BackfillWrites
  <2>2. first.file = f /\ first.path = file[f].blob /\ first.dek = file[f].dek
    BY DEF FirstVersion
  <2>3. f \notin condemned => disk[first.path] = first.dek
    BY <2>1, <2>2 DEF PathsInv, DiskInv
  <2>4. ASSUME NEW q \in Requests, pc[q] \in Planned, up[q].file = f PROVE FALSE
    <3>1. ~up[q].backfill
      BY <2>1, <2>4 DEF BackfillPending, Planned
    <3>2. up[q].num - 1 \in RowNumbers(f)
      BY <2>1, <2>4, <3>1 DEF RowsInv, PlansInv
    <3> QED
      BY <2>1, <3>2 DEF RowNumbers
  <2>5. Stored' = Stored
    BY <2>1 DEF Stored
  <2> DEFINE new == {first}
  <2> HIDE DEF first
  <2>6. \A w \in new : w.file = f /\ (f \notin condemned => disk[w.path] = w.dek)
    BY <2>2, <2>3
  <2>7. versions' = versions \cup new
    BY <2>1
  <2>8. \A q \in Requests : pc'[q] \in Planned =>
          pc'[q] = pc[q] /\ up'[q] = up[q] /\ up[q].file # f
    BY <2>1, <2>4
  <2> HIDE DEF new
  <2> QED
    BY <2>1, <2>5, <2>6, <2>7, <2>8, ReadableCommit
<1>9. ASSUME NEW r \in Requests, NEW f \in Files, SoftDelete(r, f) \/ Restore(r, f)
      PROVE  ReadableInv'
  <2>1. Stored' = Stored /\ UNCHANGED <<versions, disk, pc, up, condemned>>
    BY <1>9, TrashWrites
  <2> QED
    BY <2>1, ReadableKept
<1>10. ASSUME NEW r \in Requests, NEW p \in Path, PurgeUnlink(r, p)
       PROVE  ReadableInv'
  <2>1. /\ pc[r] = "unlinking" /\ pc'[r] \notin Planned /\ OthersSame(r)
        /\ p \in pg[r].paths
        /\ disk' = [disk EXCEPT ![p] = None] \/ disk' = disk
        /\ UNCHANGED <<file, versions, condemned>>
    BY <1>10, UnlinkWrites DEF Planned
  <2>2. p[1] \in condemned
    BY <2>1 DEF PathsInv
  <2>3. \A v \in versions : v.file \notin condemned => v.path # p
    BY <2>2, PathFacts DEF PathsInv
  <2>4. \A q \in Requests : up[q].file \notin condemned =>
          VersionPath(up[q].file, up[q].num) # p
    BY <2>2, PathFacts
  <2>5. Stored' = Stored
    BY <2>1 DEF Stored
  <2>6. CASE disk' = disk
    BY <1>2, <2>1, <2>5, <2>6
  <2>7. CASE disk' = [disk EXCEPT ![p] = None]
    BY <2>1, <2>3, <2>4, <2>7, ReadableDisk
  <2> QED
    BY <2>1, <2>6, <2>7
<1>11. ASSUME NEW r \in Requests, VersionPlan(r) PROVE ReadableInv'
  BY <1>11, ReadablePlan
<1> QED
  BY <1>1, <1>3, <1>4, <1>5, <1>6, <1>7, <1>8, <1>9, <1>10, <1>11, StepCases

-----------------------------------------------------------------------------
\* Steps that add no version and change the size of no file.
LEMMA SizeKept ==
  ASSUME SizeInv, RowNamesLatest',
         \A v \in versions' :
           v \in versions /\ VersionsOf(v.file)' = VersionsOf(v.file),
         \A f \in Stored' : f \in Stored /\ file'[f].size = file[f].size,
         \A q \in Requests : pc'[q] \in VersionPcs =>
           \/ /\ pc[q] \in VersionPcs
              /\ up'[q].file = up[q].file /\ up'[q].seen = up[q].seen
           \/ up'[q].seen = file[up'[q].file].size
  PROVE  SizeInv'
<1>1. RowSizeIsLatest'
  <2> SUFFICES ASSUME NEW v \in versions'
               PROVE  \/ \E w \in VersionsOf(v.file)' : w.num > v.num
                      \/ file'[v.file].size = v.size
    BY DEF RowSizeIsLatest, VersionsOf
  <2>1. v.file \in Stored'
    BY DEF RowNamesLatest
  <2> QED
    BY <2>1 DEF SizeInv, RowSizeIsLatest
<1>2. ASSUME NEW q \in Requests, pc'[q] \in VersionPcs, up'[q].file \in Stored'
      PROVE  up'[q].seen = file'[up'[q].file].size
  BY <1>2 DEF SizeInv
<1> QED
  BY <1>1, <1>2 DEF SizeInv

\* The new last version of a file is committed and the file row names it.
LEMMA SizeCommit ==
  ASSUME SizeInv, NEW f, NEW v, NEW old, versions' = versions \cup old \cup {v},
         v.file = f, file'[f].size = v.size,
         \A w \in old : w.file = f /\ v.num > w.num,
         \A w \in VersionsOf(f) : v.num > w.num,
         \A g : g # f => (g \in Stored' => g \in Stored) /\ file'[g] = file[g],
         \A q \in Requests : pc'[q] \in VersionPcs =>
           /\ pc'[q] = pc[q] /\ up'[q] = up[q]
           /\ up[q].file # f \/ (Stored' = Stored /\ file' = file)
  PROVE  SizeInv'
<1>1. RowSizeIsLatest'
  <2> SUFFICES ASSUME NEW w \in versions'
               PROVE  \/ \E x \in VersionsOf(w.file)' : x.num > w.num
                      \/ file'[w.file].size = w.size
    BY DEF RowSizeIsLatest, VersionsOf
  <2>1. CASE w = v
    BY <2>1
  <2>2. CASE w # v /\ w.file = f
    <3>1. v \in VersionsOf(w.file)' /\ v.num > w.num
      BY <2>2 DEF VersionsOf
    <3> QED
      BY <3>1
  <2>3. CASE w.file # f
    <3>1. w \in versions /\ VersionsOf(w.file)' = VersionsOf(w.file)
      BY <2>3 DEF VersionsOf
    <3> QED
      BY <2>3, <3>1 DEF SizeInv, RowSizeIsLatest
  <2> QED
    BY <2>1, <2>2, <2>3
<1>2. ASSUME NEW q \in Requests, pc'[q] \in VersionPcs, up'[q].file \in Stored'
      PROVE  up'[q].seen = file'[up'[q].file].size
  BY <1>2 DEF SizeInv
<1> QED
  BY <1>1, <1>2 DEF SizeInv

\* One uploader per file: every step keeps the size that of the last version.
LEMMA SizeStep ==
  ASSUME TypeInv, IdsInv, RowsInv, OneUploader, SizeInv, RowNamesLatest',
         [Next]_vars
  PROVE  SizeInv'
<1>1. CASE UNCHANGED vars
  BY <1>1, SizeKept DEF vars, Stored, VersionsOf
<1>2. ASSUME NEW r \in Requests,
             pc'[r] \in VersionPcs =>
               \/ /\ pc[r] \in VersionPcs
                  /\ up'[r].file = up[r].file /\ up'[r].seen = up[r].seen
               \/ up'[r].seen = file[up'[r].file].size,
             OthersSame(r), UNCHANGED <<file, versions>>
      PROVE  SizeInv'
  BY <1>2, SizeKept DEF OthersSame, Stored, VersionsOf
<1>3. ASSUME NEW r \in Requests,
             \/ Quit(r)
             \/ \E s \in Sizes : UploadCheck(r, s)
             \/ \E f \in Files, d \in Deks : UploadWrite(r, f, d)
             \/ \E f \in Files, s \in Sizes : VersionLoad(r, f, s)
             \/ VersionPlan(r)
             \/ \E d \in Deks : VersionWrite(r, d)
             \/ \E fs \in SUBSET Files : PurgeBegin(r, fs)
             \/ \E f \in Files : PurgeLoad(r, f) \/ PurgeSkip(r, f)
             \/ \E p \in Path : PurgeUnlink(r, p)
      PROVE  SizeInv'
  <2>1. /\ OthersSame(r) /\ UNCHANGED <<file, versions>>
        /\ pc'[r] \in VersionPcs =>
             \/ /\ pc[r] \in VersionPcs
                /\ up'[r].file = up[r].file /\ up'[r].seen = up[r].seen
             \/ up'[r].seen = file[up'[r].file].size
    <3>1. CASE Quit(r)
      BY <3>1, EndWrites DEF Quit, VersionPcs
    <3>2. CASE \E s \in Sizes : UploadCheck(r, s)
      BY <3>2, CheckWrites DEF VersionPcs
    <3>3. CASE \E f \in Files, d \in Deks : UploadWrite(r, f, d)
      BY <3>3, WriteWrites DEF VersionPcs
    <3>4. CASE \E f \in Files, s \in Sizes : VersionLoad(r, f, s)
      BY <3>4, LoadWrites
    <3>5. CASE VersionPlan(r)
      BY <3>5, PlanWrites DEF VersionPcs
    <3>6. CASE \E d \in Deks : VersionWrite(r, d)
      BY <3>6, VersionWrites DEF VersionPcs
    <3>7. CASE \E fs \in SUBSET Files : PurgeBegin(r, fs)
      BY <3>7, PurgeBeginWrites DEF VersionPcs
    <3>8. CASE \E f \in Files : PurgeLoad(r, f)
      BY <3>8, PurgeLoadWrites DEF VersionPcs
    <3>9. CASE \E f \in Files : PurgeSkip(r, f)
      BY <3>9, PurgeSkipWrites DEF VersionPcs
    <3>10. CASE \E p \in Path : PurgeUnlink(r, p)
      BY <3>10, UnlinkWrites DEF VersionPcs
    <3> QED
      BY <1>3, <3>1, <3>2, <3>3, <3>4, <3>5, <3>6, <3>7, <3>8, <3>9, <3>10
  <2> QED
    BY <1>2, <2>1
<1>4. ASSUME NEW r \in Requests, UploadCommit(r) PROVE SizeInv'
  <2> DEFINE f == up[r].file
             v == FirstVersion(f, NewRow(r))
             old == {}
  <2>1. /\ pc[r] = "u_written" /\ pc'[r] = "idle" /\ OthersSame(r)
        /\ f \in Files /\ file' = [file EXCEPT ![f] = NewRow(r)]
        /\ versions' = versions \cup old \cup {v}
    BY <1>4, CommitWrites
  <2>2. v.file = f /\ file'[f].size = v.size
    BY <2>1 DEF FirstVersion, NewRow, TypeInv, TypeOK
  <2>3. VersionsOf(f) = {}
    BY <2>1 DEF IdsInv, RowsInv, RowNamesLatest, VersionsOf
  <2>4. \A q \in Requests : pc'[q] \in VersionPcs =>
          pc'[q] = pc[q] /\ up'[q] = up[q] /\ up[q].file # f
    BY <2>1 DEF OthersSame, VersionPcs, Writing, IdsInv
  <2>5. \A g : g # f => (g \in Stored' => g \in Stored) /\ file'[g] = file[g]
    BY <2>1 DEF Stored, TypeInv, TypeOK
  <2> HIDE DEF v
  <2>6. \A w \in old : w.file = f /\ v.num > w.num
    OBVIOUS
  <2> HIDE DEF old
  <2> QED
    BY <2>1, <2>2, <2>3, <2>4, <2>5, <2>6, SizeCommit
<1>5. ASSUME NEW r \in Requests, VersionCommit(r) PROVE SizeInv'
  <2> DEFINE f == up[r].file
             v == NewVersion(r)
             new == LatestRow(file[f], v, up[r].seen)
             old == IF up[r].backfill THEN {FirstVersion(f, file[f])} ELSE {}
  <2>1. /\ pc[r] = "v_written" /\ pc'[r] = "idle" /\ OthersSame(r)
        /\ f \in Files /\ f \in Stored /\ up[r].num \in 2 .. MaxVersion
        /\ up[r].num \notin RowNumbers(f) /\ file[f] \in FileRow
        /\ file' = [file EXCEPT ![f] = new] /\ Stored' = Stored
        /\ versions' = versions \cup old \cup {v}
    BY <1>5, VersionCommitWrites
  <2>2. v.file = f /\ v.num = up[r].num
    BY DEF NewVersion
  <2>3. file'[f].size = v.size
    <3>1. up[r].seen = file[f].size
      BY <2>1 DEF SizeInv, VersionPcs
    <3>2. new.size = v.size
      BY <2>1, <3>1 DEF LatestRow, FileRow
    <3> QED
      BY <2>1, <3>2 DEF TypeInv, TypeOK
  <2>4. \A w \in old : w.file = f /\ v.num > w.num
    BY <2>1, <2>2, FileStorageAssumption DEF FirstVersion
  <2>5. \A w \in VersionsOf(f) : v.num > w.num
    <3>1. up[r].num \in Nat \ {0}
      BY <2>1, FileStorageAssumption
    <3>2. \A w \in versions : w.file = f => w.num < up[r].num
      BY <2>1, <3>1, FreshNumberIsTop DEF RowsInv, TypeInv
    <3>3. \A w \in versions : w.num \in Nat
      BY FileStorageAssumption DEF TypeInv, TypeOK, VersionRow
    <3> QED
      BY <2>2, <3>1, <3>2, <3>3 DEF VersionsOf
  <2>6. \A q \in Requests : pc'[q] \in VersionPcs =>
          pc'[q] = pc[q] /\ up'[q] = up[q] /\ up[q].file # f
    BY <2>1 DEF OthersSame, OneUploader, VersionPcs
  <2>7. \A g : g # f => (g \in Stored' => g \in Stored) /\ file'[g] = file[g]
    BY <2>1 DEF Stored, TypeInv, TypeOK
  <2>8. versions' = versions \cup old \cup {v}
    BY <2>1
  <2>9. v.file = f
    BY <2>2
  <2> HIDE DEF v, old, f
  <2> QED
    BY <2>3, <2>4, <2>5, <2>6, <2>7, <2>8, <2>9, SizeCommit
<1>6. ASSUME NEW r \in Requests, NEW f \in Files, BackfillFirst(r, f)
      PROVE  SizeInv'
  <2> DEFINE v == FirstVersion(f, file[f])
             old == {}
  <2>1. /\ VersionsOf(f) = {} /\ versions' = versions \cup old \cup {v}
        /\ UNCHANGED <<file, pc, up>>
    BY <1>6, BackfillWrites
  <2>2. v.file = f /\ file'[f].size = v.size
    BY <2>1 DEF FirstVersion
  <2>3. Stored' = Stored
    BY <2>1 DEF Stored
  <2> HIDE DEF v
  <2>4. \A w \in old : w.file = f /\ v.num > w.num
    OBVIOUS
  <2> HIDE DEF old
  <2> QED
    BY <2>1, <2>2, <2>3, <2>4, SizeCommit
<1>7. ASSUME NEW r \in Requests, NEW f \in Files, SoftDelete(r, f) \/ Restore(r, f)
      PROVE  SizeInv'
  <2>1. /\ Stored' = Stored /\ UNCHANGED <<versions, pc, up>>
        /\ \A g \in Stored : file'[g].size = file[g].size
    BY <1>7, TrashWrites DEF Stored
  <2> QED
    BY <2>1, SizeKept DEF VersionsOf
<1>8. ASSUME NEW r \in Requests, PurgeCommit(r) PROVE SizeInv'
  <2>1. /\ pc'[r] \notin VersionPcs /\ OthersSame(r)
        /\ Stored' = Stored \ pg[r].gone
        /\ \A f \in Stored' : file'[f] = file[f]
        /\ versions' = {v \in versions : v.file \notin pg[r].gone}
    BY <1>8, PurgeCommitWrites DEF VersionPcs
  <2>2. \A v \in versions' :
          v \in versions /\ VersionsOf(v.file)' = VersionsOf(v.file)
    BY <2>1 DEF VersionsOf
  <2> QED
    BY <2>1, <2>2, SizeKept DEF OthersSame
<1> QED
  BY <1>1, <1>3, <1>4, <1>5, <1>6, <1>7, <1>8, StepCases

-----------------------------------------------------------------------------
LEMMA SequentialInit == Init => ReadableInv /\ SizeInv
BY DEF Init, ReadableInv, VersionsReadable, SizeInv, RowSizeIsLatest, Planned,
       VersionPcs

\* The two together, for files that get one version at a time.
LEMMA SequentialInvariant == Spec /\ []OneUploader => [](ReadableInv /\ SizeInv)
<1>1. ASSUME TypeInv, IdsInv, RowsInv, PathsInv, DiskInv, PendingInv,
             OneUploader, RowsInv', ReadableInv, SizeInv, [Next]_vars
      PROVE  (ReadableInv /\ SizeInv)'
  <2>1. ReadableInv'
    BY <1>1, ReadableStep
  <2>2. RowNamesLatest'
    BY <1>1 DEF RowsInv
  <2>3. SizeInv'
    BY <1>1, <2>2, SizeStep
  <2> QED
    BY <2>1, <2>3
<1> QED
  BY <1>1, SequentialInit, TypeInvariant, RowsInvariant, DiskInvariant,
     PendingInvariant, PTL DEF Spec

\* If no file is ever sent two versions at the same time, every committed version
\* decrypts under the key of its row until a purge takes up its file: trash, restore,
\* backfill, purges of other files, and failures anywhere do no harm.  Without the
\* hypothesis TLC finds the opposite.
THEOREM VersionsReadableToOneUploader == Spec /\ []OneUploader => []VersionsReadable
BY SequentialInvariant, PTL DEF ReadableInv

\* Under the same hypothesis the files row, and with it the quota, charges the size
\* of the latest version, although the UPDATE of upload_version names size_bytes
\* only if it differs from what the session loaded before the body was read.
THEOREM RowSizeLatestToOneUploader == Spec /\ []OneUploader => []RowSizeIsLatest
BY SequentialInvariant, PTL DEF SizeInv

-----------------------------------------------------------------------------
(***************************************************************************)
(* Sums of sizes.  SUM(size_bytes) over a set of rows is the number of      *)
(* their bytes, so that what is known of cardinalities tells how a sum      *)
(* changes with a row.                                                      *)
(***************************************************************************)
\* One pair per byte of the files in S.
Bytes(S, t) == {b \in S \X Nat : b[2] \in 1 .. t[b[1]].size}

\* g adds up sizes the way MapThenSumSet does.
Adds(g, S, t) ==
  g = [s \in SUBSET S |->
         IF s = {} THEN 0
         ELSE LET x == CHOOSE y \in s : TRUE IN t[x].size + g[s \ {x}]]

\* One row more adds the bytes of that row.
LEMMA BytesOfOneMore ==
  ASSUME NEW t, NEW S, NEW x \in S, IsFiniteSet(Bytes(S \ {x}, t)),
         t[x].size \in Nat
  PROVE  /\ IsFiniteSet(Bytes(S, t))
         /\ Cardinality(Bytes(S, t)) = t[x].size + Cardinality(Bytes(S \ {x}, t))
<1>0. PICK n \in Nat : n = t[x].size
  OBVIOUS
<1> DEFINE old == Bytes(S \ {x}, t)
           new == {x} \X (1 .. n)
<1>1. IsFiniteSet(1 .. n) /\ Cardinality(1 .. n) = n
  BY FS_Interval
<1>2. IsFiniteSet({x}) /\ Cardinality({x}) = 1
  BY FS_Singleton
<1>3. IsFiniteSet(new) /\ Cardinality(new) = n
  <2> DEFINE one == {x}
             span == 1 .. n
  <2>1. IsFiniteSet(one) /\ IsFiniteSet(span)
    BY <1>1, <1>2
  <2>2. Cardinality(one) = 1 /\ Cardinality(span) = n
    BY <1>1, <1>2
  <2> HIDE DEF one, span
  <2>3. /\ IsFiniteSet(one \X span)
        /\ Cardinality(one \X span) = Cardinality(one) * Cardinality(span)
    BY <2>1, FS_Product
  <2>4. Cardinality(one \X span) = n
    BY <2>2, <2>3
  <2> QED
    BY <2>3, <2>4 DEF one, span
<1>4. Bytes(S, t) = old \cup new
  <2>1. ASSUME NEW f \in S, NEW k \in Nat
        PROVE  <<f, k>> \in Bytes(S, t) <=> <<f, k>> \in old \cup new
    BY <1>0 DEF Bytes
  <2>2. Bytes(S, t) \subseteq S \X Nat /\ old \cup new \subseteq S \X Nat
    BY DEF Bytes
  <2> HIDE DEF old, new
  <2> QED
    BY <2>1, <2>2
<1>5. old \cap new = {}
  BY DEF Bytes
<1>6. Cardinality({}) = 0
  BY FS_EmptySet
<1>7. Cardinality(old) \in Nat
  BY FS_CardinalityType
<1> HIDE DEF old, new
<1>8. /\ IsFiniteSet(old \cup new)
      /\ Cardinality(old \cup new) =
           Cardinality(old) + Cardinality(new) - Cardinality(old \cap new)
  BY <1>3, FS_Union DEF old
<1>9. Cardinality(Bytes(S, t)) = n + Cardinality(old)
  BY <1>3, <1>4, <1>5, <1>6, <1>7, <1>8
<1> QED
  BY <1>0, <1>4, <1>8, <1>9 DEF old

\* A set of subsets of a finite set has a member without smaller ones.
LEMMA SmallestSubset ==
  ASSUME NEW S, IsFiniteSet(S), NEW bad \in SUBSET SUBSET S, bad # {}
  PROVE  \E T \in bad : \A x \in T : T \ {x} \notin bad
<1>1. bad \subseteq FiniteSubsetsOf(S)
  BY FS_Subset DEF FiniteSubsetsOf
<1>2. PICK T \in bad : \A U \in bad : <<U, T>> \notin StrictSubsetOrdering(S)
  BY <1>1, FS_StrictSubsetOrderingWellFounded, WFMin
<1>3. ASSUME NEW x \in T, T \ {x} \in bad PROVE FALSE
  <2>1. <<T \ {x}, T>> \in (SUBSET S) \X (SUBSET S)
    BY <1>2
  <2>2. T \ {x} \subseteq T /\ T \ {x} # T
    BY <1>3
  <2> QED
    BY <1>2, <1>3, <2>1, <2>2 DEF StrictSubsetOrdering
<1> QED
  BY <1>3

\* Finitely many rows have finitely many bytes.
LEMMA BytesFinite ==
  ASSUME NEW t, NEW S, IsFiniteSet(S), \A f \in S : t[f].size \in Nat
  PROVE  IsFiniteSet(Bytes(S, t))
<1> DEFINE bad == {T \in SUBSET S : ~IsFiniteSet(Bytes(T, t))}
<1> SUFFICES ASSUME bad # {} PROVE FALSE
  OBVIOUS
<1>1. PICK T \in bad : \A x \in T : T \ {x} \notin bad
  BY SmallestSubset
<1>2. Bytes({}, t) = {}
  BY DEF Bytes
<1>3. PICK x \in T : TRUE
  BY <1>1, <1>2, FS_EmptySet
<1>4. IsFiniteSet(Bytes(T \ {x}, t)) /\ x \in S
  BY <1>1, <1>3
<1> QED
  BY <1>1, <1>3, <1>4, BytesOfOneMore

\* The fold by which MapThenSumSet is defined counts bytes.
LEMMA SumIsBytes ==
  ASSUME NEW t, NEW S, IsFiniteSet(S), \A f \in S : t[f].size \in Nat
  PROVE  MapThenSumSet(LAMBDA f : t[f].size, S) = Cardinality(Bytes(S, t))
<1> DEFINE c == [s \in SUBSET S |-> Cardinality(Bytes(s, t))]
           g == CHOOSE h : Adds(h, S, t)
           bad == {T \in SUBSET S : g[T] # c[T]}
<1>1. MapThenSumSet(LAMBDA f : t[f].size, S) = g[S]
  BY DEF MapThenSumSet, MapThenFoldSet, Adds
<1>2. Adds(c, S, t)
  <2>1. ASSUME NEW s \in SUBSET S, s # {}, NEW x \in s
        PROVE  c[s] = t[x].size + c[s \ {x}]
    <3>1. IsFiniteSet(s \ {x}) /\ s \ {x} \in SUBSET S
      BY FS_Subset
    <3>2. \A f \in s \ {x} : t[f].size \in Nat
      OBVIOUS
    <3>3. IsFiniteSet(Bytes(s \ {x}, t))
      BY <3>1, <3>2, BytesFinite
    <3> QED
      BY <3>1, <3>3, BytesOfOneMore
  <2>2. c[{}] = 0
    BY FS_EmptySet DEF Bytes
  <2>3. ASSUME NEW s \in SUBSET S, s # {} PROVE (CHOOSE y \in s : TRUE) \in s
    BY <2>3
  <2>4. c = [s \in SUBSET S |-> c[s]]
    OBVIOUS
  <2> HIDE DEF c
  <2> QED
    BY <2>1, <2>2, <2>3, <2>4 DEF Adds
<1>3. Adds(g, S, t)
  BY <1>2
<1> HIDE DEF c, g
<1>4. ASSUME bad # {} PROVE FALSE
  <2>2. PICK T \in bad : \A x \in T : T \ {x} \notin bad
    BY <1>4, SmallestSubset
  <2>3. T # {}
    BY <1>2, <1>3, <2>2 DEF Adds
  <2>4. PICK x : x = CHOOSE y \in T : TRUE
    OBVIOUS
  <2>5. x \in T
    BY <2>3, <2>4
  <2>6. g[T \ {x}] = c[T \ {x}]
    BY <2>2, <2>5
  <2>7. g[T] = t[x].size + g[T \ {x}] /\ c[T] = t[x].size + c[T \ {x}]
    <3>1. T \in SUBSET S
      BY <2>2
    <3>2. g[T] = IF T = {} THEN 0
                 ELSE LET y == CHOOSE z \in T : TRUE IN t[y].size + g[T \ {y}]
      BY <1>3, <3>1 DEF Adds
    <3>3. c[T] = IF T = {} THEN 0
                 ELSE LET y == CHOOSE z \in T : TRUE IN t[y].size + c[T \ {y}]
      BY <1>2, <3>1 DEF Adds
    <3> QED
      BY <2>3, <2>4, <3>1, <3>2, <3>3
  <2> QED
    BY <2>2, <2>6, <2>7
<1>5. g[S] = c[S]
  BY <1>4
<1> QED
  BY <1>1, <1>5 DEF c

-----------------------------------------------------------------------------
Total(S, t) == MapThenSumSet(LAMBDA f : t[f].size, S)

LEMMA TotalIsNat ==
  ASSUME NEW t, NEW S, IsFiniteSet(S), \A f \in S : t[f].size \in Nat
  PROVE  Total(S, t) \in Nat
<1>1. Total(S, t) = Cardinality(Bytes(S, t))
  BY SumIsBytes DEF Total
<1> QED
  BY <1>1, BytesFinite, FS_CardinalityType

\* A sum is one row and the sum of the others.
LEMMA TotalOfRest ==
  ASSUME NEW t, NEW S, IsFiniteSet(S), \A f \in S : t[f].size \in Nat, NEW x \in S
  PROVE  Total(S, t) = t[x].size + Total(S \ {x}, t)
<1>1. IsFiniteSet(S \ {x}) /\ \A f \in S \ {x} : t[f].size \in Nat
  BY FS_Subset
<1>2. IsFiniteSet(Bytes(S \ {x}, t))
  BY <1>1, BytesFinite
<1>3. Total(S, t) = Cardinality(Bytes(S, t))
  BY SumIsBytes DEF Total
<1>4. Total(S \ {x}, t) = Cardinality(Bytes(S \ {x}, t))
  BY <1>1, SumIsBytes DEF Total
<1> QED
  BY <1>2, <1>3, <1>4, BytesOfOneMore

\* A sum depends on the sizes of its rows alone.
LEMMA TotalSame ==
  ASSUME NEW t, NEW u, NEW S, IsFiniteSet(S), \A f \in S : t[f].size \in Nat,
         \A f \in S : u[f].size = t[f].size
  PROVE  Total(S, u) = Total(S, t)
<1>1. Total(S, t) = Cardinality(Bytes(S, t))
  BY SumIsBytes DEF Total
<1>2. Total(S, u) = Cardinality(Bytes(S, u))
  BY SumIsBytes DEF Total
<1>3. Bytes(S, u) = Bytes(S, t)
  BY DEF Bytes
<1> QED
  BY <1>1, <1>2, <1>3

\* Fewer rows, no larger a sum.
LEMMA TotalOfFewer ==
  ASSUME NEW t, NEW S, IsFiniteSet(S), \A f \in S : t[f].size \in Nat,
         NEW T \in SUBSET S
  PROVE  Total(T, t) <= Total(S, t)
<1>1. IsFiniteSet(T) /\ \A f \in T : t[f].size \in Nat
  BY FS_Subset
<1>2. Total(S, t) = Cardinality(Bytes(S, t))
  BY SumIsBytes DEF Total
<1>3. Total(T, t) = Cardinality(Bytes(T, t))
  BY <1>1, SumIsBytes DEF Total
<1>4. Bytes(T, t) \subseteq Bytes(S, t)
  BY DEF Bytes
<1> QED
  BY <1>2, <1>3, <1>4, BytesFinite, FS_Subset

-----------------------------------------------------------------------------
\* The files an account is charged with.
Held(u) == {f \in Stored : file[f].owner = u}

\* Only finitely many ids have been drawn.
LEMMA IdsFinite == Spec => []IsFiniteSet(issued.ids)
<1>1. Init => IsFiniteSet(issued.ids)
  BY LegacyFinite DEF Init
<1>2. ASSUME TypeInv, IsFiniteSet(issued.ids), [Next]_vars
      PROVE  IsFiniteSet(issued'.ids)
  <2>1. CASE \E r \in Requests, f \in Files, d \in Deks : UploadWrite(r, f, d)
    <3>1. PICK r \in Requests, f \in Files, d \in Deks : UploadWrite(r, f, d)
      BY <2>1
    <3>2. issued'.ids = issued.ids \cup {f}
      BY <1>2, <3>1, WriteWrites
    <3> QED
      BY <1>2, <3>2, FS_AddElement
  <2>2. ASSUME ~\E r \in Requests, f \in Files, d \in Deks : UploadWrite(r, f, d)
        PROVE  issued'.ids = issued.ids
    <3>1. CASE UNCHANGED vars
      BY <3>1 DEF vars
    <3>2. CASE \E r \in Requests, d \in Deks : VersionWrite(r, d)
      BY <1>2, <3>2, VersionWrites
    <3>3. CASE \E r \in Requests :
                 \/ Quit(r) \/ UploadCommit(r) \/ VersionPlan(r) \/ VersionCommit(r)
                 \/ PurgeCommit(r)
      BY <3>3 DEF Quit, UploadCommit, VersionPlan, VersionCommit, PurgeCommit
    <3>4. CASE \E r \in Requests :
                 \/ \E s \in Sizes : UploadCheck(r, s)
                 \/ \E f \in Files, s \in Sizes : VersionLoad(r, f, s)
                 \/ \E fs \in SUBSET Files : PurgeBegin(r, fs)
                 \/ \E p \in Path : PurgeUnlink(r, p)
      BY <3>4 DEF UploadCheck, VersionLoad, PurgeBegin, PurgeUnlink
    <3>5. CASE \E r \in Requests, f \in Files :
                 \/ BackfillFirst(r, f) \/ SoftDelete(r, f) \/ Restore(r, f)
                 \/ PurgeLoad(r, f) \/ PurgeSkip(r, f)
      BY <3>5 DEF BackfillFirst, SoftDelete, Restore, PurgeLoad, PurgeSkip
    <3> QED
      BY <1>2, <2>2, <3>1, <3>2, <3>3, <3>4, <3>5, StepCases
  <2> QED
    BY <1>2, <2>1, <2>2
<1>3. TypeInv /\ IsFiniteSet(issued.ids) /\ [Next]_vars => IsFiniteSet(issued.ids)'
  BY <1>2
<1> QED
  BY <1>1, <1>3, TypeInvariant, PTL DEF Spec

\* What an account is charged with is a sum over finitely many files.
LEMMA HeldFacts ==
  ASSUME TypeInv, IdsInv, IsFiniteSet(issued.ids), NEW u
  PROVE  /\ IsFiniteSet(Held(u))
         /\ \A f \in Held(u) : file[f].size \in Nat
         /\ StorageUsed(u) = Total(Held(u), file)
         /\ StorageUsed(u) \in Nat
         /\ \A f \in Held(u) :
              /\ Total(Held(u) \ {f}, file) \in Nat
              /\ StorageUsed(u) = file[f].size + Total(Held(u) \ {f}, file)
<1>1. Held(u) \in SUBSET issued.ids
  BY DEF Held, IdsInv
<1>2. IsFiniteSet(Held(u))
  BY <1>1, FS_Subset
<1>3. \A f \in Held(u) : file[f].size \in Nat
  BY FileStorageAssumption DEF Held, Stored, TypeInv, TypeOK, FileRow
<1>4. StorageUsed(u) = Total(Held(u), file)
  BY DEF StorageUsed, Total, Held
<1>5. StorageUsed(u) \in Nat
  BY <1>2, <1>3, <1>4, TotalIsNat
<1>6. ASSUME NEW f \in Held(u)
      PROVE  /\ Total(Held(u) \ {f}, file) \in Nat
             /\ StorageUsed(u) = file[f].size + Total(Held(u) \ {f}, file)
  <2>1. IsFiniteSet(Held(u) \ {f}) /\ \A g \in Held(u) \ {f} : file[g].size \in Nat
    BY <1>2, <1>3, FS_Subset
  <2> QED
    BY <1>2, <1>3, <1>4, <2>1, TotalIsNat, TotalOfRest
<1> QED
  BY <1>2, <1>3, <1>4, <1>5, <1>6

\* What is stored, before and after a step.
Account(u) ==
  /\ IsFiniteSet(Held(u))
  /\ \A f \in Held(u) : file[f].size \in Nat
  /\ StorageUsed(u) = Total(Held(u), file)
  /\ StorageUsed(u) \in Nat
  /\ \A f \in Held(u) :
       /\ Total(Held(u) \ {f}, file) \in Nat
       /\ StorageUsed(u) = file[f].size + Total(Held(u) \ {f}, file)

LEMMA AccountHolds == TypeInv /\ IdsInv /\ IsFiniteSet(issued.ids) => \A u : Account(u)
BY HeldFacts DEF Account

LEMMA AccountHoldsNext ==
  (TypeInv /\ IdsInv /\ IsFiniteSet(issued.ids) => \A u : Account(u))'
BY AccountHolds, PTL

LEMMA AccountAfter ==
  ASSUME TypeInv', IdsInv', IsFiniteSet(issued'.ids), NEW u
  PROVE  /\ IsFiniteSet(Held(u)')
         /\ \A f \in Held(u)' : file'[f].size \in Nat
         /\ StorageUsed(u)' = Total(Held(u)', file')
         /\ StorageUsed(u)' \in Nat
         /\ \A f \in Held(u)' :
              /\ Total(Held(u)' \ {f}, file') \in Nat
              /\ StorageUsed(u)' = file'[f].size + Total(Held(u)' \ {f}, file')
<1>1. Account(u)'
  BY AccountHoldsNext
<1> QED
  BY <1>1 DEF Account

-----------------------------------------------------------------------------
\* Fewer bytes fit wherever more do.
LEMMA LessFits ==
  ASSUME NEW u \in Users, NEW m \in Int, NEW n \in Int, n <= m, WithinQuota(u, m)
  PROVE  WithinQuota(u, n)
<1>1. Quota[u] \in Nat \cup {Unlimited}
  BY FileStorageAssumption
<1> QED
  BY <1>1 DEF WithinQuota

\* Steps that neither add a row nor change an owner or a size.
LEMMA SpendKept ==
  ASSUME TypeInv, IdsInv, IsFiniteSet(issued.ids),
         TypeInv', IdsInv', IsFiniteSet(issued'.ids), SpendInv,
         \A f \in Stored' : /\ f \in Stored
                            /\ file'[f].owner = file[f].owner
                            /\ file'[f].size = file[f].size,
         \A q \in Requests : pc'[q] \in UploadPcs =>
           WithinQuota(Owner[q], StorageUsed(Owner[q]) + up'[q].size),
         \A q \in Requests : pc'[q] \in Planned /\ up'[q].file \in Stored' =>
           /\ file[up'[q].file].owner = Owner[q]
           /\ WithinQuota(Owner[q], StorageUsed(Owner[q]) - file[up'[q].file].size
                                      + up'[q].size)
  PROVE  SpendInv'
<1>1. \A u : Account(u)
  BY AccountHolds
<1>2. ASSUME NEW u
      PROVE  /\ Held(u)' \subseteq Held(u)
             /\ \A f \in Held(u)' : file'[f].size = file[f].size
             /\ IsFiniteSet(Held(u)')
             /\ \A f \in Held(u)' : file[f].size \in Nat
             /\ StorageUsed(u)' \in Nat
             /\ StorageUsed(u)' = Total(Held(u)', file')
             /\ \A f \in Held(u)' :
                  /\ Total(Held(u)' \ {f}, file') \in Nat
                  /\ StorageUsed(u)' = file'[f].size + Total(Held(u)' \ {f}, file')
  <2>1. Held(u)' \subseteq Held(u) /\ \A f \in Held(u)' : file'[f].size = file[f].size
    BY DEF Held
  <2>2. \A f \in Held(u)' : file[f].size \in Nat
    BY <1>1, <2>1 DEF Account
  <2> QED
    BY <2>1, <2>2, AccountAfter
<1>3. ASSUME NEW u PROVE StorageUsed(u)' <= StorageUsed(u)
  <2>1. Total(Held(u)', file') = Total(Held(u)', file)
    BY <1>2, TotalSame
  <2>2. Total(Held(u)', file) <= Total(Held(u), file)
    BY <1>1, <1>2, TotalOfFewer DEF Account
  <2> QED
    BY <1>1, <1>2, <2>1, <2>2 DEF Account
<1>4. ASSUME NEW u, NEW f \in Held(u)'
      PROVE  Total(Held(u)' \ {f}, file') <= Total(Held(u) \ {f}, file)
  <2> DEFINE S == Held(u)' \ {f}
             T == Held(u) \ {f}
  <2>1. IsFiniteSet(Held(u)) /\ \A g \in Held(u) : file[g].size \in Nat
    BY <1>1 DEF Account
  <2>2. IsFiniteSet(T) /\ \A g \in T : file[g].size \in Nat
    BY <2>1, FS_Subset
  <2>3. S \in SUBSET T /\ \A g \in S : file'[g].size = file[g].size
    BY <1>2
  <2>4. IsFiniteSet(S)
    BY <2>2, <2>3, FS_Subset
  <2> HIDE DEF S, T
  <2>5. Total(S, file') = Total(S, file)
    BY <2>2, <2>3, <2>4, TotalSame
  <2>6. Total(S, file) <= Total(T, file)
    BY <2>2, <2>3, TotalOfFewer
  <2> QED
    BY <2>5, <2>6 DEF S, T
<1>5. \A q \in Requests : Owner[q] \in Users /\ up'[q].size \in Nat
  <2>1. \A q \in Requests : up'[q] \in UploadVars
    BY DEF TypeInv, TypeOK
  <2>2. \A q \in Requests : up'[q].size \in Sizes \cup {0}
    BY <2>1 DEF UploadVars
  <2>3. Sizes \subseteq Nat
    BY FileStorageAssumption
  <2>4. Sizes \cup {0} \subseteq Nat
    BY <2>3
  <2>5. \A q \in Requests : Owner[q] \in Users
    BY FileStorageAssumption
  <2> QED
    BY <2>2, <2>4, <2>5
<1>6. QuotaRespected'
  <2> SUFFICES ASSUME NEW u \in Users PROVE WithinQuota(u, StorageUsed(u)')
    BY DEF QuotaRespected, WithinQuota
  <2>1. WithinQuota(u, StorageUsed(u))
    BY DEF SpendInv, QuotaRespected
  <2> QED
    BY <1>1, <1>2, <1>3, <2>1, LessFits DEF Account
<1>7. ASSUME NEW q \in Requests, pc'[q] \in UploadPcs
      PROVE  WithinQuota(Owner[q], StorageUsed(Owner[q])' + up'[q].size)
  <2> DEFINE m == StorageUsed(Owner[q]) + up'[q].size
             n == StorageUsed(Owner[q])' + up'[q].size
  <2>1. m \in Int /\ n \in Int /\ n <= m
    BY <1>1, <1>2, <1>3, <1>5 DEF Account
  <2>2. WithinQuota(Owner[q], m)
    BY <1>7
  <2> HIDE DEF m, n
  <2>3. WithinQuota(Owner[q], n)
    BY <1>5, <2>1, <2>2, LessFits
  <2> QED
    BY <2>3 DEF n
<1>8. ASSUME NEW q \in Requests, pc'[q] \in Planned, up'[q].file \in Stored'
      PROVE  WithinQuota(Owner[q], StorageUsed(Owner[q])'
                                     - file'[up'[q].file].size + up'[q].size)
  <2> DEFINE u == Owner[q]
             f == up'[q].file
             m == StorageUsed(u) - file[f].size + up'[q].size
             n == StorageUsed(u)' - file'[f].size + up'[q].size
  <2>1. f \in Held(u) /\ f \in Held(u)'
    BY <1>8 DEF Held
  <2>2. /\ m = Total(Held(u) \ {f}, file) + up'[q].size
        /\ Total(Held(u) \ {f}, file) \in Nat
    BY <1>1, <1>5, <2>1 DEF Account
  <2>3. /\ n = Total(Held(u)' \ {f}, file') + up'[q].size
        /\ Total(Held(u)' \ {f}, file') \in Nat
    BY <1>1, <1>2, <1>5, <2>1
  <2>4. Total(Held(u)' \ {f}, file') <= Total(Held(u) \ {f}, file)
    BY <1>4, <2>1
  <2>5. WithinQuota(u, m)
    BY <1>8
  <2> HIDE DEF m, n
  <2>6. m \in Int /\ n \in Int /\ n <= m
    BY <1>5, <2>2, <2>3, <2>4
  <2>7. WithinQuota(u, n)
    BY <1>5, <2>5, <2>6, LessFits
  <2> QED
    BY <2>7 DEF n
<1> QED
  BY <1>6, <1>7, <1>8 DEF SpendInv, WithinQuota

\* One file of account u comes or changes, and what u stores then still fits.
LEMMA SpendGrow ==
  ASSUME TypeInv, IdsInv, IsFiniteSet(issued.ids),
         TypeInv', IdsInv', IsFiniteSet(issued'.ids), SpendInv,
         NEW u \in Users, NEW f \in Stored',
         file'[f].owner = u, f \in Stored => file[f].owner = u,
         Stored' = Stored \cup {f},
         \A g \in Stored \ {f} : file'[g] = file[g],
         WithinQuota(u, StorageUsed(u)'),
         \A q \in Requests : pc'[q] \in UploadPcs =>
           Owner[q] # u /\ pc[q] \in UploadPcs /\ up'[q] = up[q],
         \A q \in Requests : pc'[q] \in Planned /\ up'[q].file \in Stored' =>
           /\ Owner[q] # u /\ pc[q] \in Planned /\ up'[q] = up[q]
           /\ up[q].file \in Stored \ {f}
  PROVE  SpendInv'
<1>1. \A v : Account(v)
  BY AccountHolds
<1>2. ASSUME NEW v, v # u PROVE StorageUsed(v)' = StorageUsed(v)
  <2>1. Held(v)' = Held(v) /\ \A g \in Held(v) : file'[g] = file[g]
    BY <1>2 DEF Held
  <2>2. StorageUsed(v)' = Total(Held(v), file')
    BY <2>1, AccountAfter
  <2>3. Total(Held(v), file') = Total(Held(v), file)
    BY <1>1, <2>1, TotalSame DEF Account
  <2> QED
    BY <1>1, <2>2, <2>3 DEF Account
<1>3. QuotaRespected'
  <2> SUFFICES ASSUME NEW v \in Users PROVE WithinQuota(v, StorageUsed(v)')
    BY DEF QuotaRespected, WithinQuota
  <2> QED
    BY <1>2 DEF SpendInv, QuotaRespected
<1>4. ASSUME NEW q \in Requests, pc'[q] \in UploadPcs
      PROVE  WithinQuota(Owner[q], StorageUsed(Owner[q])' + up'[q].size)
  BY <1>2, <1>4 DEF SpendInv
<1>5. ASSUME NEW q \in Requests, pc'[q] \in Planned, up'[q].file \in Stored'
      PROVE  WithinQuota(Owner[q], StorageUsed(Owner[q])'
                                     - file'[up'[q].file].size + up'[q].size)
  BY <1>2, <1>5 DEF SpendInv
<1> QED
  BY <1>3, <1>4, <1>5 DEF SpendInv, WithinQuota

-----------------------------------------------------------------------------
\* A new version is sent to a file of one's own account.
LEMMA VersionOwner ==
  ASSUME OwnersInv, NEW r \in Requests, pc[r] \in VersionPcs
  PROVE  /\ up[r].file \in About(r)
         /\ up[r].file \in Stored => file[up[r].file].owner = Owner[r]
<1>1. About(r) = {up[r].file}
  BY DEF About, VersionPcs, PurgePcs
<1> QED
  BY <1>1 DEF OwnersInv

\* Two versions for one file are two uploads of one account.
LEMMA OneSpenderUploads == OwnersInv /\ OneSpender => OneUploader
<1> SUFFICES ASSUME OwnersInv, OneSpender, NEW q \in Requests, NEW r \in Requests,
                    pc[q] \in VersionPcs, pc[r] \in VersionPcs,
                    up[q].file = up[r].file
             PROVE  q = r
  BY DEF OneUploader
<1>1. up[q].file \in About(q) /\ up[q].file \in About(r)
  BY VersionOwner
<1>2. Owner[q] = Owner[r]
  BY <1>1 DEF OwnersInv
<1> QED
  BY <1>2 DEF OneSpender, Loading

\* The commit of an upload: the sum that was checked is still that of the table.
LEMMA SpendUpload ==
  ASSUME TypeInv, IdsInv, IsFiniteSet(issued.ids), OwnersInv,
         TypeInv', IdsInv', IsFiniteSet(issued'.ids), SpendInv, OneSpender,
         NEW r \in Requests, UploadCommit(r)
  PROVE  SpendInv'
<1> DEFINE f == up[r].file
           u == Owner[r]
<1>1. /\ pc[r] = "u_written" /\ pc'[r] = "idle" /\ OthersSame(r)
      /\ f \in Files /\ NewRow(r) \in FileRow
      /\ file' = [file EXCEPT ![f] = NewRow(r)]
  BY CommitWrites
<1>2. /\ file'[f] = NewRow(r) /\ \A g \in Files \ {f} : file'[g] = file[g]
      /\ f \notin Stored
  BY <1>1 DEF TypeInv, TypeOK, IdsInv
<1>3. Stored' = Stored \cup {f}
  BY <1>1, <1>2, NoneIsNoRow DEF Stored
<1>4. file'[f].owner = u /\ file'[f].size = up[r].size
  BY <1>2 DEF NewRow
<1>5. u \in Users
  BY FileStorageAssumption
<1>6. ASSUME NEW q \in Requests, pc'[q] \in Loading
      PROVE  Owner[q] # u /\ pc'[q] = pc[q] /\ up'[q] = up[q]
  BY <1>1, <1>6 DEF OthersSame, OneSpender, Loading, UploadPcs, VersionPcs
<1>7. ASSUME NEW q \in Requests, pc'[q] \in Planned, up'[q].file \in Stored'
      PROVE  up[q].file \in Stored \ {f}
  <2>1. pc[q] \in VersionPcs /\ up'[q] = up[q] /\ q # r
    BY <1>1, <1>6, <1>7 DEF Planned, Loading, VersionPcs
  <2>2. up[q].file # f
    BY <1>1, <2>1 DEF IdsInv, Writing
  <2> QED
    BY <1>3, <1>7, <2>1, <2>2
<1>8. WithinQuota(u, StorageUsed(u)')
  <2>1. Account(u)
    BY AccountHolds
  <2>2. Held(u)' \ {f} = Held(u) /\ \A g \in Held(u) : file'[g].size = file[g].size
    BY <1>2, <1>3 DEF Held, Stored
  <2>3. f \in Held(u)'
    BY <1>3, <1>4 DEF Held
  <2>4. Total(Held(u), file') = Total(Held(u), file)
    BY <2>1, <2>2, TotalSame DEF Account
  <2>5. StorageUsed(u)' = up[r].size + StorageUsed(u)
    BY <1>4, <2>1, <2>2, <2>3, <2>4, AccountAfter DEF Account
  <2>6. WithinQuota(u, StorageUsed(u) + up[r].size)
    BY <1>1 DEF SpendInv, UploadPcs
  <2>7. up[r].size \in Nat
    BY <1>1, FileStorageAssumption DEF TypeInv, LocalsOK
  <2> QED
    BY <2>1, <2>5, <2>6, <2>7 DEF Account
<1> HIDE DEF u, f
<1> QED
  BY <1>2, <1>3, <1>4, <1>5, <1>6, <1>7, <1>8, SpendGrow
     DEF Loading, Planned, VersionPcs, Stored

\* The commit of a version: the size that goes is the one that was subtracted.
LEMMA SpendVersion ==
  ASSUME TypeInv, IdsInv, IsFiniteSet(issued.ids), OwnersInv, SizeInv,
         TypeInv', IdsInv', IsFiniteSet(issued'.ids), SpendInv, OneSpender,
         NEW r \in Requests, VersionCommit(r)
  PROVE  SpendInv'
<1> DEFINE f == up[r].file
           u == Owner[r]
           new == LatestRow(file[f], NewVersion(r), up[r].seen)
<1>1. /\ pc[r] = "v_written" /\ pc'[r] = "idle" /\ OthersSame(r)
      /\ f \in Files /\ f \in Stored /\ file[f] \in FileRow
      /\ file' = [file EXCEPT ![f] = new] /\ Stored' = Stored
  BY VersionCommitWrites
<1>2. file'[f] = new /\ \A g \in Files \ {f} : file'[g] = file[g]
  BY <1>1 DEF TypeInv, TypeOK
<1>3. file[f].owner = u
  BY <1>1, VersionOwner DEF VersionPcs
<1>4. file'[f].owner = u /\ file'[f].size = up[r].size
  <2>1. up[r].seen = file[f].size
    BY <1>1 DEF SizeInv, VersionPcs
  <2>2. new.owner = file[f].owner /\ new.size = NewVersion(r).size
    BY <1>1, <2>1 DEF LatestRow, FileRow
  <2> QED
    BY <1>2, <1>3, <2>2 DEF NewVersion
<1>5. u \in Users
  BY FileStorageAssumption
<1>6. ASSUME NEW q \in Requests, pc'[q] \in Loading
      PROVE  Owner[q] # u /\ pc'[q] = pc[q] /\ up'[q] = up[q]
  BY <1>1, <1>6 DEF OthersSame, OneSpender, Loading, UploadPcs, VersionPcs
<1>7. ASSUME NEW q \in Requests, pc'[q] \in Planned, up'[q].file \in Stored'
      PROVE  up[q].file \in Stored \ {f}
  <2>1. /\ pc[q] \in VersionPcs /\ up'[q] = up[q] /\ Owner[q] # u
        /\ up[q].file \in Stored
    BY <1>1, <1>6, <1>7 DEF Planned, Loading, VersionPcs
  <2>2. file[up[q].file].owner = Owner[q]
    BY <2>1, VersionOwner
  <2> QED
    BY <1>3, <2>1, <2>2
<1>8. WithinQuota(u, StorageUsed(u)')
  <2> DEFINE rest == Held(u) \ {f}
  <2>1. Account(u)
    BY AccountHolds
  <2>2. Held(u)' \ {f} = rest /\ \A g \in rest : file'[g].size = file[g].size
    BY <1>1, <1>2 DEF Held, Stored
  <2>3. f \in Held(u)' /\ f \in Held(u)
    BY <1>1, <1>3, <1>4 DEF Held
  <2>4. IsFiniteSet(rest) /\ \A g \in rest : file[g].size \in Nat
    BY <2>1, FS_Subset DEF Account
  <2>5. /\ Total(rest, file) \in Nat
        /\ StorageUsed(u) = file[f].size + Total(rest, file)
    BY <2>1, <2>3 DEF Account
  <2>6. StorageUsed(u)' = up[r].size + Total(rest, file')
    BY <1>4, <2>2, <2>3, AccountAfter
  <2> HIDE DEF rest
  <2>7. Total(rest, file') = Total(rest, file)
    BY <2>2, <2>4, TotalSame
  <2>8. WithinQuota(u, StorageUsed(u) - file[f].size + up[r].size)
    BY <1>1 DEF SpendInv, Planned
  <2>9. up[r].size \in Nat /\ file[f].size \in Nat
    BY <1>1, FileStorageAssumption DEF TypeInv, LocalsOK, VersionPcs, FileRow
  <2>10. StorageUsed(u)' = StorageUsed(u) - file[f].size + up[r].size
    BY <2>5, <2>6, <2>7, <2>9
  <2> QED
    BY <2>8, <2>10
<1>9. Stored' = Stored \cup {f}
  BY <1>1
<1> HIDE DEF u, f, new
<1> QED
  BY <1>1, <1>2, <1>3, <1>4, <1>5, <1>6, <1>7, <1>8, <1>9, SpendGrow
     DEF Loading, Planned, VersionPcs, Stored

\* One upload per account: every step keeps the quota.
LEMMA SpendStep ==
  ASSUME TypeInv, IdsInv, IsFiniteSet(issued.ids), OwnersInv, SizeInv,
         TypeInv', IdsInv', IsFiniteSet(issued'.ids), SpendInv, OneSpender,
         [Next]_vars
  PROVE  SpendInv'
<1>1. ASSUME \A f \in Stored' : /\ f \in Stored
                                /\ file'[f].owner = file[f].owner
                                /\ file'[f].size = file[f].size,
             NEW r \in Requests, OthersSame(r),
             pc'[r] \in UploadPcs =>
               WithinQuota(Owner[r], StorageUsed(Owner[r]) + up'[r].size),
             pc'[r] \in Planned /\ up'[r].file \in Stored' =>
               /\ file[up'[r].file].owner = Owner[r]
               /\ WithinQuota(Owner[r], StorageUsed(Owner[r])
                                          - file[up'[r].file].size + up'[r].size)
      PROVE  SpendInv'
  <2>1. ASSUME NEW q \in Requests, pc'[q] \in UploadPcs
        PROVE  WithinQuota(Owner[q], StorageUsed(Owner[q]) + up'[q].size)
    BY <1>1, <2>1 DEF OthersSame, SpendInv
  <2>2. ASSUME NEW q \in Requests, pc'[q] \in Planned, up'[q].file \in Stored'
        PROVE  /\ file[up'[q].file].owner = Owner[q]
               /\ WithinQuota(Owner[q], StorageUsed(Owner[q])
                                          - file[up'[q].file].size + up'[q].size)
    <3>1. CASE q = r
      BY <1>1, <2>2, <3>1
    <3>2. CASE q # r
      <4>1. pc[q] \in Planned /\ up'[q] = up[q] /\ up[q].file \in Stored
        BY <1>1, <2>2, <3>2 DEF OthersSame
      <4>2. file[up[q].file].owner = Owner[q]
        BY <4>1, VersionOwner DEF Planned, VersionPcs
      <4> QED
        BY <4>1, <4>2 DEF SpendInv
    <3> QED
      BY <3>1, <3>2
  <2> QED
    BY <1>1, <2>1, <2>2, SpendKept
<1>2. CASE UNCHANGED vars
  <2>1. \A f \in Stored' : f \in Stored
    BY <1>2 DEF vars, Stored
  <2>2. \A q \in Requests : pc[q] \in Planned /\ up[q].file \in Stored =>
          file[up[q].file].owner = Owner[q]
    BY VersionOwner DEF Planned, VersionPcs
  <2> QED
    BY <1>2, <2>1, <2>2, SpendKept DEF vars, SpendInv
<1>3. ASSUME NEW r \in Requests,
             \/ Quit(r)
             \/ \E f \in Files, s \in Sizes : VersionLoad(r, f, s)
             \/ \E fs \in SUBSET Files : PurgeBegin(r, fs)
             \/ \E f \in Files : PurgeLoad(r, f) \/ PurgeSkip(r, f)
             \/ \E p \in Path : PurgeUnlink(r, p)
      PROVE  SpendInv'
  <2>1. /\ OthersSame(r) /\ pc'[r] \notin UploadPcs /\ pc'[r] \notin Planned
        /\ file' = file
    <3> USE DEF UploadPcs, Planned
    <3>1. CASE Quit(r)
      BY <3>1, EndWrites DEF Quit
    <3>2. CASE \E f \in Files, s \in Sizes : VersionLoad(r, f, s)
      BY <3>2, LoadWrites
    <3>3. CASE \E fs \in SUBSET Files : PurgeBegin(r, fs)
      BY <3>3, PurgeBeginWrites
    <3>4. CASE \E f \in Files : PurgeLoad(r, f)
      BY <3>4, PurgeLoadWrites
    <3>5. CASE \E f \in Files : PurgeSkip(r, f)
      BY <3>5, PurgeSkipWrites
    <3>6. CASE \E p \in Path : PurgeUnlink(r, p)
      BY <3>6, UnlinkWrites
    <3> QED
      BY <1>3, <3>1, <3>2, <3>3, <3>4, <3>5, <3>6
  <2> QED
    BY <1>1, <2>1 DEF Stored
<1>4. ASSUME NEW r \in Requests, NEW s \in Sizes, UploadCheck(r, s)
      PROVE  SpendInv'
  <2>1. /\ OthersSame(r) /\ pc'[r] = "u_checked" /\ up'[r].size = s /\ file' = file
    BY <1>4, CheckWrites
  <2>2. WithinQuota(Owner[r], StorageUsed(Owner[r]) + s)
    BY <1>4 DEF UploadCheck
  <2> QED
    BY <1>1, <2>1, <2>2 DEF Stored, Planned
<1>5. ASSUME NEW r \in Requests, NEW f \in Files, NEW d \in Deks,
             UploadWrite(r, f, d)
      PROVE  SpendInv'
  <2>1. /\ OthersSame(r) /\ pc[r] = "u_checked" /\ pc'[r] = "u_written"
        /\ up'[r].size = up[r].size /\ file' = file
    BY <1>5, WriteWrites
  <2>2. WithinQuota(Owner[r], StorageUsed(Owner[r]) + up[r].size)
    BY <2>1 DEF SpendInv, UploadPcs
  <2> QED
    BY <1>1, <2>1, <2>2 DEF Stored, Planned
<1>6. ASSUME NEW r \in Requests, VersionPlan(r) PROVE SpendInv'
  <2>1. /\ OthersSame(r) /\ pc[r] = "v_loaded" /\ pc'[r] = "v_planned"
        /\ up[r].file \in Stored
        /\ WithinQuota(Owner[r], StorageUsed(Owner[r]) - up[r].seen + up[r].size)
        /\ up'[r].file = up[r].file /\ up'[r].size = up[r].size /\ file' = file
    BY <1>6, PlanWrites
  <2>2. up[r].seen = file[up[r].file].size /\ file[up[r].file].owner = Owner[r]
    BY <2>1, VersionOwner DEF SizeInv, VersionPcs
  <2> QED
    BY <1>1, <2>1, <2>2 DEF Stored, UploadPcs
<1>7. ASSUME NEW r \in Requests, NEW d \in Deks, VersionWrite(r, d)
      PROVE  SpendInv'
  <2>1. /\ OthersSame(r) /\ pc[r] = "v_planned" /\ pc'[r] = "v_written"
        /\ up'[r].file = up[r].file /\ up'[r].size = up[r].size /\ file' = file
    BY <1>7, VersionWrites
  <2>2. up[r].file \in Stored =>
          /\ file[up[r].file].owner = Owner[r]
          /\ WithinQuota(Owner[r], StorageUsed(Owner[r]) - file[up[r].file].size
                                     + up[r].size)
    BY <2>1, VersionOwner DEF SpendInv, Planned, VersionPcs
  <2> QED
    BY <1>1, <2>1, <2>2 DEF Stored, UploadPcs
<1>8. ASSUME NEW r \in Requests, NEW f \in Files,
             BackfillFirst(r, f) \/ SoftDelete(r, f) \/ Restore(r, f)
      PROVE  SpendInv'
  <2>1. /\ UNCHANGED <<pc, up, pg>>
        /\ \A g \in Stored' : /\ g \in Stored
                              /\ file'[g].owner = file[g].owner
                              /\ file'[g].size = file[g].size
    BY <1>8, BackfillWrites, TrashWrites DEF Stored
  <2>2. pc[r] \in Planned /\ up[r].file \in Stored => file[up[r].file].owner = Owner[r]
    BY VersionOwner DEF Planned, VersionPcs
  <2>3. up[r].file \in Stored' => up[r].file \in Stored
    BY <2>1
  <2> QED
    BY <1>1, <2>1, <2>2, <2>3 DEF OthersSame, SpendInv
<1>9. ASSUME NEW r \in Requests, PurgeCommit(r) PROVE SpendInv'
  <2>1. /\ pc'[r] = "idle" /\ OthersSame(r)
        /\ \A f \in Stored' : f \in Stored /\ file'[f] = file[f]
    BY <1>9, PurgeCommitWrites
  <2> QED
    BY <1>1, <2>1 DEF UploadPcs, Planned
<1> QED
  BY <1>2, <1>3, <1>4, <1>5, <1>6, <1>7, <1>8, <1>9, SpendUpload, SpendVersion,
     StepCases

LEMMA SpendInit == Init /\ QuotaRespected => SpendInv
BY DEF Init, SpendInv, UploadPcs, Planned

\* An account that starts within its quota and never has two uploads under way
\* stays within it: the check of upload_file and upload_version is then on the sum
\* that the commit finds.  An account may start above its quota, as an admin may
\* lower it; then nothing is promised, and the theorem starts from the others.
THEOREM QuotaKeptByOneSpender ==
  Spec /\ QuotaRespected /\ []OneSpender => []QuotaRespected
<1>1. ASSUME TypeInv, IdsInv, IsFiniteSet(issued.ids), OwnersInv, SizeInv,
             TypeInv', IdsInv', IsFiniteSet(issued.ids)', SpendInv, OneSpender,
             [Next]_vars
      PROVE  SpendInv'
  BY <1>1, SpendStep
<1>2. SpendInv => QuotaRespected
  BY DEF SpendInv
<1> QED
  BY <1>1, <1>2, SpendInit, OneSpenderUploads, SequentialInvariant, OwnersInvariant,
     IdsFinite, TypeInvariant, RowsInvariant, PTL DEF Spec

-----------------------------------------------------------------------------
(***************************************************************************)
(* Blobs without a row.  What a purge has collected when it takes up a file *)
(* is all there is of it, if no version of the file is being written.       *)
(***************************************************************************)
\* A path that a row names, or a request that has yet to commit one.
Named(p) ==
  \/ \E v \in versions : v.path = p
  \/ \E f \in Stored : file[f].blob = p
  \/ \E r \in Requests :
       \/ pc[r] = "u_written" /\ p = BasePath(up[r].file)
       \/ pc[r] = "v_written" /\ p = VersionPath(up[r].file, up[r].num)

\* What a writer and a purger may count on.
Purging(r) ==
  /\ pc[r] \in Planned => up[r].file \in Stored
  /\ pc[r] \in PurgePcs => pg[r].gone \subseteq condemned
  /\ pc[r] = "purging" => pg[r].paths = {}
  /\ pc[r] \in PurgePcs /\ ~mishap =>
       \A p \in Path : p[1] \in pg[r].gone /\ disk[p] # None => p \in pg[r].paths

LEMMA OrphanParts ==
  OrphanInv <=> /\ ~mishap => \A p \in Path : disk[p] # None => Named(p)
                /\ \A r \in Requests : Purging(r)
BY DEF OrphanInv, NoOrphanBlob, Named, Purging

LEMMA OrphanPartsNext ==
  (OrphanInv <=> /\ ~mishap => \A p \in Path : disk[p] # None => Named(p)
                 /\ \A r \in Requests : Purging(r))'
BY OrphanParts, PTL

\* Steps after which every row and every writer still names its path.
LEMMA NamesKept ==
  ASSUME versions \subseteq versions',
         \A f \in Stored : \/ f \in Stored' /\ file'[f].blob = file[f].blob
                           \/ \E v \in versions' : v.path = file[f].blob,
         \A q \in Requests : pc[q] \in {"u_written", "v_written"} =>
           pc'[q] = pc[q] /\ up'[q] = up[q],
         NEW p, Named(p)
  PROVE  Named(p)'
BY DEF Named

\* Steps that put no blob into a file a purge is removing, nor take a file from
\* under a writer.
LEMMA PurgesKept ==
  ASSUME \A q \in Requests : Purging(q), NEW r \in Requests, OthersSame(r),
         condemned \subseteq condemned', mishap => mishap',
         \A q \in Requests \ {r} : pc[q] \in Planned => up[q].file \in Stored',
         \A p \in Path : disk'[p] # None =>
           \/ disk[p] # None
           \/ \A q \in Requests : pc[q] \in PurgePcs => p[1] \notin pg[q].gone,
         Purging(r)'
  PROVE  \A q \in Requests : Purging(q)'
<1> SUFFICES ASSUME NEW q \in Requests, q # r PROVE Purging(q)'
  OBVIOUS
<1>1. pc'[q] = pc[q] /\ up'[q] = up[q] /\ pg'[q] = pg[q] /\ Purging(q)
  BY DEF OthersSame
<1>2. pc'[q] \in Planned => up'[q].file \in Stored'
  BY <1>1
<1>3. pc'[q] \in PurgePcs => pg'[q].gone \subseteq condemned'
  BY <1>1 DEF Purging
<1>4. pc'[q] = "purging" => pg'[q].paths = {}
  BY <1>1 DEF Purging
<1>5. ASSUME pc'[q] \in PurgePcs, ~mishap', NEW p \in Path,
             p[1] \in pg'[q].gone, disk'[p] # None
      PROVE  p \in pg'[q].paths
  BY <1>1, <1>5 DEF Purging
<1> QED
  BY <1>2, <1>3, <1>4, <1>5 DEF Purging

\* A step that changes no row, no blob and no name.
LEMMA OrphanQuiet ==
  ASSUME OrphanInv, NEW r \in Requests, OthersSame(r),
         UNCHANGED <<file, versions, disk, condemned>>, mishap => mishap',
         pc[r] \notin {"u_written", "v_written"},
         pc'[r] \in Planned => up'[r].file \in Stored,
         pc'[r] \in PurgePcs => pg'[r].gone = {} /\ pg'[r].paths = {}
  PROVE  OrphanInv'
<1>1. Stored' = Stored
  BY DEF Stored
<1>2. \A q \in Requests : Purging(q)
  BY OrphanParts
<1>3. Purging(r)'
  BY <1>1 DEF Purging, PurgePcs
<1>4. \A q \in Requests \ {r} : pc[q] \in Planned => up[q].file \in Stored'
  BY <1>1, <1>2 DEF Purging
<1>5. \A q \in Requests : Purging(q)'
  BY <1>2, <1>3, <1>4, PurgesKept
<1>6. \A p : Named(p) => Named(p)'
  BY <1>1, NamesKept DEF OthersSame
<1> QED
  BY <1>5, <1>6, OrphanParts, OrphanPartsNext

-----------------------------------------------------------------------------
\* A new ciphertext is named by the upload that wrote it.
LEMMA OrphanWrite ==
  ASSUME TypeInv, IdsInv, OrphanInv, NEW r \in Requests, NEW f \in Files,
         NEW d \in Deks, UploadWrite(r, f, d)
  PROVE  OrphanInv'
<1>1. /\ pc[r] = "u_checked" /\ pc'[r] = "u_written" /\ OthersSame(r)
      /\ up'[r].file = f /\ f \notin issued.ids
      /\ disk' = [disk EXCEPT ![BasePath(f)] = d]
      /\ UNCHANGED <<file, versions, condemned, mishap>>
  BY WriteWrites
<1>2. Stored' = Stored
  BY <1>1 DEF Stored
<1>3. \A q \in Requests : Purging(q)
  BY OrphanParts
<1>4. \A p \in Path : p # BasePath(f) => disk'[p] = disk[p]
  BY <1>1 DEF TypeInv, TypeOK
<1>5. \A q \in Requests : pc[q] \in PurgePcs => f \notin pg[q].gone
  BY <1>1, <1>3 DEF Purging, IdsInv
<1>6. Purging(r)'
  BY <1>1 DEF Purging, PurgePcs, Planned
<1>7. \A q \in Requests \ {r} : pc[q] \in Planned => up[q].file \in Stored'
  BY <1>2, <1>3 DEF Purging
<1>8. \A p \in Path : disk'[p] # None =>
        \/ disk[p] # None
        \/ \A q \in Requests : pc[q] \in PurgePcs => p[1] \notin pg[q].gone
  BY <1>4, <1>5, PathFacts
<1>9. \A q \in Requests : Purging(q)'
  BY <1>1, <1>3, <1>6, <1>7, <1>8, PurgesKept
<1>10. \A p : Named(p) => Named(p)'
  BY <1>1, <1>2, NamesKept DEF OthersSame
<1>11. Named(BasePath(f))'
  BY <1>1 DEF Named
<1> QED
  BY <1>1, <1>4, <1>9, <1>10, <1>11, OrphanParts, OrphanPartsNext

\* The row of an upload takes over its name.
LEMMA OrphanCommit ==
  ASSUME TypeInv, IdsInv, OrphanInv, NEW r \in Requests, UploadCommit(r)
  PROVE  OrphanInv'
<1> DEFINE f == up[r].file
           row == NewRow(r)
<1>1. /\ pc[r] = "u_written" /\ pc'[r] = "idle" /\ OthersSame(r)
      /\ f \in Files /\ row \in FileRow
      /\ file' = [file EXCEPT ![f] = row]
      /\ versions' = versions \cup {FirstVersion(f, row)}
      /\ UNCHANGED <<disk, condemned, mishap>>
  BY CommitWrites
<1>2. /\ file'[f] = row /\ f \notin Stored
      /\ \A g \in Files \ {f} : file'[g] = file[g]
  BY <1>1 DEF TypeInv, TypeOK, IdsInv
<1>3. Stored' = Stored \cup {f}
  BY <1>1, <1>2, NoneIsNoRow DEF Stored
<1>4. \A q \in Requests : Purging(q)
  BY OrphanParts
<1>5. Purging(r)'
  BY <1>1 DEF Purging, PurgePcs, Planned
<1>6. \A q \in Requests \ {r} : pc[q] \in Planned => up[q].file \in Stored'
  BY <1>3, <1>4 DEF Purging
<1>7. \A q \in Requests : Purging(q)'
  BY <1>1, <1>4, <1>5, <1>6, PurgesKept
<1>8. ASSUME NEW p, Named(p) PROVE Named(p)'
  <2>1. CASE \E v \in versions : v.path = p
    BY <1>1, <2>1 DEF Named
  <2>2. CASE \E g \in Stored : file[g].blob = p
    BY <1>2, <1>3, <2>2 DEF Named, Stored
  <2>3. CASE p = BasePath(f)
    <3>1. f \in Stored' /\ file'[f].blob = p
      BY <1>2, <1>3, <2>3 DEF NewRow
    <3> QED
      BY <3>1 DEF Named
  <2>4. CASE \E q \in Requests \ {r} :
               \/ pc[q] = "u_written" /\ p = BasePath(up[q].file)
               \/ pc[q] = "v_written" /\ p = VersionPath(up[q].file, up[q].num)
    BY <1>1, <2>4 DEF Named, OthersSame
  <2> QED
    BY <1>1, <1>8, <2>1, <2>2, <2>3, <2>4 DEF Named
<1> QED
  BY <1>1, <1>7, <1>8, OrphanParts, OrphanPartsNext

\* A version is written into no file that a purge has taken up.
LEMMA OrphanVersionWrite ==
  ASSUME TypeInv, OrphanInv, NoPurgeWhileWriting, NEW r \in Requests,
         NEW d \in Deks, VersionWrite(r, d)
  PROVE  OrphanInv'
<1> DEFINE f == up[r].file
           path == VersionPath(f, up[r].num)
<1>1. /\ pc[r] = "v_planned" /\ pc'[r] = "v_written" /\ OthersSame(r)
      /\ up'[r].file = f /\ up'[r].num = up[r].num
      /\ disk' = [disk EXCEPT ![path] = d]
      /\ UNCHANGED <<file, versions, condemned, mishap>>
  BY VersionWrites
<1>2. Stored' = Stored
  BY <1>1 DEF Stored
<1>3. \A q \in Requests : Purging(q)
  BY OrphanParts
<1>4. \A p \in Path : p # path => disk'[p] = disk[p]
  BY <1>1 DEF TypeInv, TypeOK
<1>5. \A q \in Requests : pc[q] \in PurgePcs => f \notin pg[q].gone
  BY <1>1 DEF NoPurgeWhileWriting, Planned
<1>6. Purging(r)'
  BY <1>1, <1>2, <1>3 DEF Purging, PurgePcs, Planned
<1>7. \A q \in Requests \ {r} : pc[q] \in Planned => up[q].file \in Stored'
  BY <1>2, <1>3 DEF Purging
<1>8. \A p \in Path : disk'[p] # None =>
        \/ disk[p] # None
        \/ \A q \in Requests : pc[q] \in PurgePcs => p[1] \notin pg[q].gone
  BY <1>4, <1>5, PathFacts
<1>9. \A q \in Requests : Purging(q)'
  BY <1>1, <1>3, <1>6, <1>7, <1>8, PurgesKept
<1>10. \A p : Named(p) => Named(p)'
  BY <1>1, <1>2, NamesKept DEF OthersSame
<1>11. Named(path)'
  BY <1>1 DEF Named
<1> QED
  BY <1>1, <1>4, <1>9, <1>10, <1>11, OrphanParts, OrphanPartsNext

\* Version rows go on naming what a file's row named before its new version.
LEMMA OldBlobNamed ==
  ASSUME TypeInv, RowsInv, PathsInv, PendingInv, NEW r \in Requests,
         VersionCommit(r)
  PROVE  \E v \in versions' : v.path = file[up[r].file].blob
<1> DEFINE f == up[r].file
<1>1. /\ pc[r] = "v_written" /\ f \in Files /\ f \in Stored
      /\ up[r].num \in 2 .. MaxVersion /\ up[r].num \notin RowNumbers(f)
      /\ versions' = versions
           \cup (IF up[r].backfill THEN {FirstVersion(f, file[f])} ELSE {})
           \cup {NewVersion(r)}
  BY VersionCommitWrites
<1>2. CASE up[r].backfill
  <2>1. FirstVersion(f, file[f]) \in versions'
    BY <1>1, <1>2
  <2>2. FirstVersion(f, file[f]).path = file[f].blob
    BY DEF FirstVersion
  <2> QED
    BY <2>1, <2>2
<1>3. CASE ~up[r].backfill
  <2>1. PICK v \in versions : v.file = f /\ v.num = up[r].num - 1
    BY <1>1, <1>3 DEF RowsInv, PlansInv, Planned, RowNumbers, VersionsOf
  <2>2. up[r].num \in Nat \ {0}
    BY <1>1, FileStorageAssumption
  <2>3. \A w \in versions : w.file = f => w.num < up[r].num
    BY <1>1, <2>2, FreshNumberIsTop DEF RowsInv, TypeInv
  <2>4. \A w \in versions : w.num \in Nat
    BY FileStorageAssumption DEF TypeInv, TypeOK, VersionRow
  <2>5. ~\E w \in VersionsOf(f) : w.num > v.num
    BY <2>1, <2>2, <2>3, <2>4 DEF VersionsOf
  <2>6. file[f].blob = v.path
    BY <2>1, <2>5 DEF RowsInv, RowNamesLatest
  <2> QED
    BY <1>1, <2>1, <2>6
<1> QED
  BY <1>2, <1>3

\* The row of a version takes over its name.
LEMMA OrphanVersionCommit ==
  ASSUME TypeInv, RowsInv, PathsInv, PendingInv, OrphanInv, NEW r \in Requests,
         VersionCommit(r)
  PROVE  OrphanInv'
<1> DEFINE f == up[r].file
           new == LatestRow(file[f], NewVersion(r), up[r].seen)
<1>1. /\ pc[r] = "v_written" /\ pc'[r] = "idle" /\ OthersSame(r)
      /\ f \in Files /\ f \in Stored /\ file' = [file EXCEPT ![f] = new]
      /\ Stored' = Stored
      /\ versions' = versions
           \cup (IF up[r].backfill THEN {FirstVersion(f, file[f])} ELSE {})
           \cup {NewVersion(r)}
      /\ UNCHANGED <<disk, condemned, mishap>>
  BY VersionCommitWrites
<1>2. \A g \in Files \ {f} : file'[g] = file[g]
  BY <1>1 DEF TypeInv, TypeOK
<1>3. versions \subseteq versions' /\ NewVersion(r) \in versions'
  BY <1>1
<1>4. \A q \in Requests : Purging(q)
  BY OrphanParts
<1>5. Purging(r)'
  BY <1>1 DEF Purging, PurgePcs, Planned
<1>6. \A q \in Requests \ {r} : pc[q] \in Planned => up[q].file \in Stored'
  BY <1>1, <1>4 DEF Purging
<1>7. \A q \in Requests : Purging(q)'
  BY <1>1, <1>4, <1>5, <1>6, PurgesKept
<1>8. \E v \in versions' : v.path = file[f].blob
  BY OldBlobNamed
<1> HIDE DEF new
<1>9. ASSUME NEW p, Named(p) PROVE Named(p)'
  <2>1. CASE \E v \in versions : v.path = p
    BY <1>3, <2>1 DEF Named
  <2>2. CASE \E g \in Stored : file[g].blob = p
    <3>1. PICK g \in Stored : file[g].blob = p
      BY <2>2
    <3>2. CASE g = f
      BY <1>8, <3>1, <3>2 DEF Named
    <3>3. CASE g # f
      BY <1>1, <1>2, <3>1, <3>3 DEF Named, Stored
    <3> QED
      BY <3>2, <3>3
  <2>3. CASE p = VersionPath(f, up[r].num)
    <3>1. NewVersion(r).path = p
      BY <2>3 DEF NewVersion
    <3> QED
      BY <1>3, <3>1 DEF Named
  <2>4. CASE \E q \in Requests \ {r} :
               \/ pc[q] = "u_written" /\ p = BasePath(up[q].file)
               \/ pc[q] = "v_written" /\ p = VersionPath(up[q].file, up[q].num)
    BY <1>1, <2>4 DEF Named, OthersSame
  <2> QED
    BY <1>1, <1>9, <2>1, <2>2, <2>3, <2>4 DEF Named
<1> QED
  BY <1>1, <1>7, <1>9, OrphanParts, OrphanPartsNext

\* A version that lost the race leaves a blob that the winner names.
LEMMA OrphanConflict ==
  ASSUME TypeInv, PathsInv, PendingInv, OrphanInv, NEW r \in Requests,
         VersionConflict(r)
  PROVE  OrphanInv'
<1> DEFINE f == up[r].file
           path == VersionPath(f, up[r].num)
<1>1. /\ pc[r] = "v_written" /\ pc'[r] = "idle" /\ OthersSame(r)
      /\ UNCHANGED <<file, versions, disk, condemned, mishap>>
  BY EndWrites DEF VersionConflict
<1>2. Stored' = Stored
  BY <1>1 DEF Stored
<1>3. \A q \in Requests : Purging(q)
  BY OrphanParts
<1>4. f \in Stored
  BY <1>1, <1>3 DEF Purging, Planned
<1>5. up[r].num \in RowNumbers(f)
  BY <1>1, <1>4 DEF VersionConflict, NumberTaken, PendingInv, Planned, RowNumbers
<1>6. \E v \in versions : v.path = path
  <2>1. PICK v \in versions : v.file = f /\ v.num = up[r].num
    BY <1>5 DEF RowNumbers, VersionsOf
  <2>2. up[r].num # 1
    BY <1>1, FileStorageAssumption DEF TypeInv, LocalsOK, VersionPcs
  <2> QED
    BY <2>1, <2>2 DEF PathsInv
<1>7. Purging(r)'
  BY <1>1 DEF Purging, PurgePcs, Planned
<1>8. \A q \in Requests \ {r} : pc[q] \in Planned => up[q].file \in Stored'
  BY <1>2, <1>3 DEF Purging
<1>9. \A q \in Requests : Purging(q)'
  BY <1>1, <1>3, <1>7, <1>8, PurgesKept
<1>10. ASSUME NEW p, Named(p) PROVE Named(p)'
  <2>1. CASE p = path
    BY <1>1, <1>6, <2>1 DEF Named
  <2>2. CASE p # path
    BY <1>1, <1>2, <1>10, <2>2 DEF Named, OthersSame
  <2> QED
    BY <2>1, <2>2
<1> QED
  BY <1>1, <1>9, <1>10, OrphanParts, OrphanPartsNext

\* A failure promises nothing more.
LEMMA OrphanFail ==
  ASSUME TypeInv, OrphanInv, NEW r \in Requests, Fail(r)
  PROVE  OrphanInv'
<1>1. /\ pc'[r] = "idle" /\ OthersSame(r) /\ mishap'
      /\ UNCHANGED <<file, versions, disk, condemned>>
  BY EndWrites DEF Fail
<1>2. \A q \in Requests : Purging(q)
  BY OrphanParts
<1>3. Purging(r)'
  BY <1>1 DEF Purging, PurgePcs, Planned
<1>4. \A q \in Requests \ {r} : pc[q] \in Planned => up[q].file \in Stored'
  BY <1>1, <1>2 DEF Purging, Stored
<1>5. \A q \in Requests : Purging(q)'
  BY <1>1, <1>2, <1>3, <1>4, PurgesKept
<1> QED
  BY <1>1, <1>5, OrphanPartsNext

\* A purge that takes up a file collects every blob there is of it.
LEMMA OrphanPurgeLoad ==
  ASSUME TypeInv, IdsInv, PathsInv, OrphanInv, NoPurgeWhileWriting',
         NEW r \in Requests, NEW f \in Files, PurgeLoad(r, f)
  PROVE  OrphanInv'
<1>1. /\ pc[r] = "purging" /\ pc'[r] = "unlinking" /\ OthersSame(r)
      /\ f \in Stored
      /\ pg'[r].gone = pg[r].gone \cup {f} /\ pg'[r].paths = PurgePaths(f)
      /\ condemned' = condemned \cup {f}
      /\ mishap => mishap'
      /\ UNCHANGED <<file, versions, disk, up>>
  BY PurgeLoadWrites
<1>2. Stored' = Stored
  BY <1>1 DEF Stored
<1>3. \A q \in Requests : Purging(q)
  BY OrphanParts
<1>4. ASSUME ~mishap, NEW p \in Path, p[1] = f, disk[p] # None
      PROVE  p \in PurgePaths(f)
  <2>1. Named(p)
    BY <1>4, OrphanParts
  <2>2. CASE \E v \in versions : v.path = p
    <3>1. PICK v \in versions : v.path = p
      BY <2>2
    <3>2. v.file = f
      BY <1>4, <3>1, PathFacts DEF PathsInv
    <3> QED
      BY <3>1, <3>2 DEF PurgePaths, VersionsOf
  <2>3. CASE \E g \in Stored : file[g].blob = p
    BY <1>4, <2>3 DEF PathsInv, PurgePaths
  <2>4. ASSUME NEW q \in Requests, pc[q] = "u_written", p = BasePath(up[q].file)
        PROVE  FALSE
    BY <1>1, <1>4, <2>4, PathFacts DEF IdsInv
  <2>5. ASSUME NEW q \in Requests, pc[q] = "v_written",
               p = VersionPath(up[q].file, up[q].num)
        PROVE  FALSE
    <3>1. up[q].file = f
      BY <1>4, <2>5, PathFacts
    <3>2. pc'[q] \in Planned /\ up'[q].file = f
      BY <1>1, <2>5, <3>1 DEF OthersSame, Planned
    <3>3. pc'[r] \in PurgePcs /\ f \in pg'[r].gone
      BY <1>1 DEF PurgePcs
    <3> QED
      BY <3>2, <3>3 DEF NoPurgeWhileWriting
  <2> QED
    BY <2>1, <2>2, <2>3, <2>4, <2>5 DEF Named
<1>5. pc'[r] \notin Planned /\ pc'[r] # "purging"
  BY <1>1 DEF Planned
<1>6. pg'[r].gone \subseteq condemned'
  BY <1>1, <1>3 DEF Purging, PurgePcs
<1>7. ASSUME ~mishap', NEW p \in Path, p[1] \in pg'[r].gone, disk'[p] # None
      PROVE  p \in pg'[r].paths
  <2>1. CASE p[1] = f
    BY <1>1, <1>4, <1>7, <2>1
  <2>2. CASE p[1] # f
    BY <1>1, <1>3, <1>7, <2>2 DEF Purging, PurgePcs
  <2> QED
    BY <2>1, <2>2
<1>8. Purging(r)'
  BY <1>5, <1>6, <1>7 DEF Purging
<1>9. \A q \in Requests \ {r} : pc[q] \in Planned => up[q].file \in Stored'
  BY <1>2, <1>3 DEF Purging
<1>10. \A q \in Requests : Purging(q)'
  BY <1>1, <1>3, <1>8, <1>9, PurgesKept
<1>11. \A p : Named(p) => Named(p)'
  BY <1>1, <1>2, NamesKept DEF OthersSame
<1> QED
  BY <1>1, <1>10, <1>11, OrphanParts, OrphanPartsNext

\* A purge that unlinks a blob has one blob less to unlink.
LEMMA OrphanUnlink ==
  ASSUME TypeInv, OrphanInv, NEW r \in Requests,
         \/ \E f \in Files : PurgeSkip(r, f)
         \/ \E p \in Path : PurgeUnlink(r, p)
  PROVE  OrphanInv'
<1>1. ASSUME OthersSame(r), pc[r] \in PurgePcs, pc'[r] \in PurgePcs,
             pg'[r].gone = pg[r].gone, pc'[r] = "purging" => pg'[r].paths = {},
             mishap => mishap',
             \A p \in Path : disk'[p] # None =>
               disk[p] # None /\ (p \in pg[r].paths => p \in pg'[r].paths \/ mishap'),
             UNCHANGED <<file, versions, condemned, up>>
      PROVE  OrphanInv'
  <2>1. Stored' = Stored
    BY <1>1 DEF Stored
  <2>2. \A q \in Requests : Purging(q)
    BY OrphanParts
  <2>3. Purging(r)'
    <3>1. pc'[r] \notin Planned
      BY <1>1 DEF Planned, PurgePcs
    <3>2. pg'[r].gone \subseteq condemned'
      BY <1>1, <2>2 DEF Purging
    <3>3. ASSUME ~mishap', NEW p \in Path, p[1] \in pg'[r].gone, disk'[p] # None
          PROVE  p \in pg'[r].paths
      BY <1>1, <2>2, <3>3 DEF Purging
    <3> QED
      BY <1>1, <3>1, <3>2, <3>3 DEF Purging
  <2>4. \A q \in Requests \ {r} : pc[q] \in Planned => up[q].file \in Stored'
    BY <2>1, <2>2 DEF Purging
  <2>5. \A q \in Requests : Purging(q)'
    BY <1>1, <2>2, <2>3, <2>4, PurgesKept
  <2>6. \A p : Named(p) => Named(p)'
    BY <1>1, <2>1, NamesKept DEF OthersSame, PurgePcs
  <2> QED
    BY <1>1, <2>5, <2>6, OrphanParts, OrphanPartsNext
<1>2. ASSUME NEW f \in Files, PurgeSkip(r, f) PROVE OrphanInv'
  <2>1. pc[r] = "purging" => pg[r].paths = {}
    BY OrphanParts DEF Purging
  <2> QED
    BY <1>1, <1>2, <2>1, PurgeSkipWrites DEF PurgePcs
<1>3. ASSUME NEW p \in Path, PurgeUnlink(r, p) PROVE OrphanInv'
  <2>1. /\ pc[r] = "unlinking" /\ p \in pg[r].paths /\ OthersSame(r)
        /\ pc'[r] = IF pg[r].paths = {p} THEN "purging" ELSE "unlinking"
        /\ pg'[r].gone = pg[r].gone /\ pg'[r].paths = pg[r].paths \ {p}
        /\ \/ disk' = [disk EXCEPT ![p] = None] /\ mishap' = mishap
           \/ disk' = disk /\ mishap' = TRUE
        /\ UNCHANGED <<file, versions, condemned, up>>
    BY <1>3, UnlinkWrites
  <2>2. mishap => mishap'
    BY <2>1
  <2>3. \A q \in Path : disk'[q] # None =>
          disk[q] # None /\ (q \in pg[r].paths => q \in pg'[r].paths \/ mishap')
    <3>1. disk \in [Path -> Deks \cup {None}]
      BY DEF TypeInv, TypeOK
    <3>2. CASE disk' = [disk EXCEPT ![p] = None]
      BY <2>1, <3>1, <3>2
    <3>3. CASE disk' = disk /\ mishap' = TRUE
      BY <3>3
    <3> QED
      BY <2>1, <3>2, <3>3
  <2>4. /\ pc[r] \in PurgePcs /\ pc'[r] \in PurgePcs
        /\ pc'[r] = "purging" => pg'[r].paths = {}
    BY <2>1 DEF PurgePcs
  <2> QED
    BY <1>1, <2>1, <2>2, <2>3, <2>4
<1> QED
  BY <1>2, <1>3

\* A purge takes the rows of files that have no blob left.
LEMMA OrphanPurgeCommit ==
  ASSUME TypeInv, PathsInv, OrphanInv, NoPurgeWhileWriting, NEW r \in Requests,
         PurgeCommit(r)
  PROVE  OrphanInv'
<1> DEFINE gone == pg[r].gone
<1>1. /\ pc[r] = "purging" /\ pc'[r] = "idle" /\ OthersSame(r)
      /\ Stored' = Stored \ gone
      /\ \A f \in Stored' : file'[f] = file[f]
      /\ versions' = {v \in versions : v.file \notin gone}
      /\ UNCHANGED <<disk, condemned, mishap>>
  BY PurgeCommitWrites
<1>2. \A q \in Requests : Purging(q)
  BY OrphanParts
<1>3. ASSUME ~mishap, NEW p \in Path, p[1] \in gone PROVE disk[p] = None
  BY <1>1, <1>2, <1>3 DEF Purging, PurgePcs
<1>4. Purging(r)'
  BY <1>1 DEF Purging, PurgePcs, Planned
<1>5. \A q \in Requests \ {r} : pc[q] \in Planned => up[q].file \in Stored'
  BY <1>1, <1>2 DEF Purging, NoPurgeWhileWriting, PurgePcs
<1>6. \A q \in Requests : Purging(q)'
  BY <1>1, <1>2, <1>4, <1>5, PurgesKept
<1>7. ASSUME NEW p \in Path, p[1] \notin gone, Named(p) PROVE Named(p)'
  <2>1. CASE \E v \in versions : v.path = p
    <3>1. PICK v \in versions : v.path = p
      BY <2>1
    <3>2. v.file \notin gone
      BY <1>7, <3>1, PathFacts DEF PathsInv
    <3> QED
      BY <1>1, <3>1, <3>2 DEF Named
  <2>2. CASE \E g \in Stored : file[g].blob = p
    BY <1>1, <1>7, <2>2 DEF Named, PathsInv
  <2>3. CASE \E q \in Requests :
               \/ pc[q] = "u_written" /\ p = BasePath(up[q].file)
               \/ pc[q] = "v_written" /\ p = VersionPath(up[q].file, up[q].num)
    BY <1>1, <2>3 DEF Named, OthersSame
  <2> QED
    BY <1>7, <2>1, <2>2, <2>3 DEF Named
<1> QED
  BY <1>1, <1>3, <1>6, <1>7, OrphanParts, OrphanPartsNext

-----------------------------------------------------------------------------
\* No purge of a file that is being written: every step keeps blobs named.
LEMMA OrphanStep ==
  ASSUME TypeInv, IdsInv, RowsInv, PathsInv, PendingInv, OrphanInv,
         NoPurgeWhileWriting, NoPurgeWhileWriting', [Next]_vars
  PROVE  OrphanInv'
<1>1. CASE UNCHANGED vars
  BY <1>1, OrphanParts, OrphanPartsNext DEF vars, Named, Purging, Stored
<1>2. ASSUME NEW r \in Requests, Upload(r) PROVE OrphanInv'
  <2>1. CASE \E s \in Sizes : UploadCheck(r, s)
    BY <2>1, CheckWrites, OrphanQuiet DEF Planned, PurgePcs
  <2> QED
    BY <1>2, <2>1, OrphanWrite, OrphanCommit DEF Upload
<1>3. ASSUME NEW r \in Requests, UploadVersion(r) PROVE OrphanInv'
  <2>1. CASE \E f \in Files, s \in Sizes : VersionLoad(r, f, s)
    BY <2>1, LoadWrites, OrphanQuiet DEF Planned, PurgePcs
  <2>2. CASE VersionPlan(r)
    BY <2>2, PlanWrites, OrphanQuiet DEF PurgePcs
  <2>3. CASE VersionReject(r)
    <3>1. pc[r] = "v_loaded" /\ pc'[r] = "idle" /\ OthersSame(r)
      BY <2>3, EndWrites DEF VersionReject
    <3>2. UNCHANGED <<file, versions, disk, condemned, mishap>>
      BY <2>3 DEF VersionReject
    <3> QED
      BY <3>1, <3>2, OrphanQuiet DEF Planned, PurgePcs
  <2> QED
    BY <1>3, <2>1, <2>2, <2>3, OrphanVersionWrite, OrphanVersionCommit,
       OrphanConflict DEF UploadVersion
<1>4. ASSUME NEW r \in Requests, NEW f \in Files,
             BackfillFirst(r, f) \/ SoftDelete(r, f) \/ Restore(r, f)
      PROVE  OrphanInv'
  <2>1. /\ versions \subseteq versions' /\ Stored' = Stored
        /\ \A g \in Stored : file'[g].blob = file[g].blob
        /\ UNCHANGED <<disk, pc, up, pg, condemned, mishap>>
    BY <1>4, BackfillWrites, TrashWrites DEF Stored
  <2>2. \A p : Named(p) => Named(p)'
    BY <2>1, NamesKept
  <2>3. \A q \in Requests : Purging(q)'
    BY <2>1, OrphanParts DEF Purging
  <2> QED
    BY <2>1, <2>2, <2>3, OrphanParts, OrphanPartsNext
<1>5. ASSUME NEW r \in Requests, Purge(r) PROVE OrphanInv'
  <2>1. CASE \E fs \in SUBSET Files : PurgeBegin(r, fs)
    <3>1. PICK fs \in SUBSET Files : PurgeBegin(r, fs)
      BY <2>1
    <3>2. /\ pc[r] = "idle" /\ pc'[r] = "purging" /\ OthersSame(r)
          /\ pg'[r] = [todo |-> fs, gone |-> {}, paths |-> {}]
      BY <3>1, PurgeBeginWrites
    <3>3. UNCHANGED <<file, versions, disk, condemned, mishap>>
      BY <3>1 DEF PurgeBegin
    <3>4. pg'[r].gone = {} /\ pg'[r].paths = {}
      BY <3>2
    <3> QED
      BY <3>2, <3>3, <3>4, OrphanQuiet DEF Planned
  <2> QED
    BY <1>5, <2>1, OrphanPurgeLoad, OrphanUnlink, OrphanPurgeCommit
       DEF Purge, PurgeStep
<1> QED
  BY <1>1, <1>2, <1>3, <1>4, <1>5, OrphanFail DEF Next, TrashOrRead

LEMMA OrphanInit == Init => OrphanInv
<1> SUFFICES ASSUME Init PROVE OrphanInv
  OBVIOUS
<1>1. \A r \in Requests : Purging(r)
  BY DEF Init, Purging, Planned, PurgePcs
<1>2. ASSUME NEW p \in Path, disk[p] # None PROVE Named(p)
  <2>1. p[1] \in Legacy /\ p[2] = 0
    BY <1>2 DEF Init
  <2>2. p = BasePath(p[1])
    BY <2>1 DEF Path, BasePath
  <2>3. p[1] \in Stored /\ file[p[1]].blob = BasePath(p[1])
    <3>1. PICK f \in Legacy : f = p[1]
      BY <2>1
    <3>2. f \in Files /\ file[f] \in FileRow
      BY FileStorageAssumption, PathTypes DEF Init, FileRow
    <3>3. file[f].blob = BasePath(f)
      BY <3>2 DEF Init
    <3> QED
      BY <3>1, <3>2, <3>3, NoneIsNoRow DEF Stored
  <2> QED
    BY <2>2, <2>3 DEF Named
<1> QED
  BY <1>1, <1>2, OrphanParts

-----------------------------------------------------------------------------
\* Steps by which no request begins to write a version or to purge a file.
LEMMA MeetKept ==
  ASSUME NoPurgeWhileWriting, NEW r \in Requests, OthersSame(r),
         pc'[r] \in Planned => pc[r] \in Planned /\ up'[r].file = up[r].file,
         pc'[r] \in PurgePcs =>
           \/ pg'[r].gone = {}
           \/ pc[r] \in PurgePcs /\ pg'[r].gone = pg[r].gone
  PROVE  NoPurgeWhileWriting'
BY DEF NoPurgeWhileWriting, OthersSame

\* The history variable tells of every meeting of a purge and an upload.
LEMMA MeetStep ==
  ASSUME TypeInv, [Next]_vars, ~mishap'
  PROVE  ~mishap /\ (NoPurgeWhileWriting => NoPurgeWhileWriting')
<1> DEFINE Goal == ~mishap /\ (NoPurgeWhileWriting => NoPurgeWhileWriting')
<1> USE DEF Planned, PurgePcs
<1>1. CASE UNCHANGED vars
  BY <1>1 DEF vars, NoPurgeWhileWriting
<1>2. ASSUME NEW r \in Requests, Upload(r) PROVE Goal
  <2>1. CASE \E s \in Sizes : UploadCheck(r, s)
    BY <2>1, CheckWrites, MeetKept
  <2>2. CASE \E f \in Files, d \in Deks : UploadWrite(r, f, d)
    BY <2>2, WriteWrites, MeetKept
  <2>3. CASE UploadCommit(r)
    BY <2>3, CommitWrites, MeetKept
  <2> QED
    BY <1>2, <2>1, <2>2, <2>3 DEF Upload
<1>3. ASSUME NEW r \in Requests, UploadVersion(r) PROVE Goal
  <2>1. CASE \E f \in Files, s \in Sizes : VersionLoad(r, f, s)
    BY <2>1, LoadWrites, MeetKept
  <2>2. CASE VersionPlan(r)
    <3>1. /\ pc'[r] = "v_planned" /\ OthersSame(r) /\ up'[r].file = up[r].file
          /\ ~mishap /\ ~BeingPurged(up[r].file)
      BY <2>2, PlanWrites
    <3>2. ASSUME NoPurgeWhileWriting, NEW p \in Requests, NEW q \in Requests,
                 pc'[p] \in Planned, pc'[q] \in PurgePcs
          PROVE  up'[p].file \notin pg'[q].gone
      <4>1. q # r /\ pc[q] \in PurgePcs /\ pg'[q] = pg[q]
        BY <3>1, <3>2 DEF OthersSame
      <4>2. CASE p = r
        BY <3>1, <4>1, <4>2 DEF BeingPurged
      <4>3. CASE p # r
        BY <3>1, <3>2, <4>1, <4>3 DEF OthersSame, NoPurgeWhileWriting
      <4> QED
        BY <4>2, <4>3
    <3> QED
      BY <3>1, <3>2 DEF NoPurgeWhileWriting
  <2>3. CASE VersionReject(r) \/ VersionConflict(r)
    BY <2>3, EndWrites, MeetKept DEF VersionReject, VersionConflict
  <2>4. CASE \E d \in Deks : VersionWrite(r, d)
    BY <2>4, VersionWrites, MeetKept
  <2>5. CASE VersionCommit(r)
    BY <2>5, VersionCommitWrites, MeetKept
  <2> QED
    BY <1>3, <2>1, <2>2, <2>3, <2>4, <2>5 DEF UploadVersion
<1>4. ASSUME NEW r \in Requests, NEW f \in Files,
             BackfillFirst(r, f) \/ SoftDelete(r, f) \/ Restore(r, f)
      PROVE  Goal
  <2>1. UNCHANGED <<pc, up, pg, mishap>>
    BY <1>4, BackfillWrites, TrashWrites
  <2> QED
    BY <2>1 DEF NoPurgeWhileWriting
<1>5. ASSUME NEW r \in Requests, Purge(r) PROVE Goal
  <2>1. CASE \E fs \in SUBSET Files : PurgeBegin(r, fs)
    <3>1. PICK fs \in SUBSET Files : PurgeBegin(r, fs)
      BY <2>1
    <3>2. /\ pc'[r] = "purging" /\ OthersSame(r)
          /\ pg'[r] = [todo |-> fs, gone |-> {}, paths |-> {}]
      BY <3>1, PurgeBeginWrites
    <3>3. pc'[r] \notin Planned /\ pg'[r].gone = {}
      BY <3>2
    <3>4. NoPurgeWhileWriting => NoPurgeWhileWriting'
      BY <3>2, <3>3 DEF NoPurgeWhileWriting, OthersSame
    <3>5. ~mishap
      BY <3>1 DEF PurgeBegin
    <3> QED
      BY <3>4, <3>5
  <2>2. ASSUME NEW f \in Files, PurgeLoad(r, f) PROVE Goal
    <3>1. /\ pc[r] = "purging" /\ pc'[r] = "unlinking" /\ OthersSame(r)
          /\ pg'[r].gone = pg[r].gone \cup {f}
          /\ ~mishap /\ ~BeingWritten(f)
      BY <2>2, PurgeLoadWrites
    <3>2. ASSUME NoPurgeWhileWriting, NEW p \in Requests, NEW q \in Requests,
                 pc'[p] \in Planned, pc'[q] \in PurgePcs
          PROVE  up'[p].file \notin pg'[q].gone
      <4>1. p # r /\ pc[p] \in Planned /\ up'[p] = up[p] /\ up[p].file # f
        BY <3>1, <3>2 DEF OthersSame, BeingWritten
      <4>2. pc[q] \in PurgePcs /\ pg'[q].gone \subseteq pg[q].gone \cup {f}
        BY <3>1, <3>2 DEF OthersSame
      <4> QED
        BY <3>2, <4>1, <4>2 DEF NoPurgeWhileWriting
    <3> QED
      BY <3>1, <3>2 DEF NoPurgeWhileWriting
  <2>3. CASE \E f \in Files : PurgeSkip(r, f)
    BY <2>3, PurgeSkipWrites, MeetKept
  <2>4. CASE \E p \in Path : PurgeUnlink(r, p)
    BY <2>4, UnlinkWrites, MeetKept
  <2>5. CASE PurgeCommit(r)
    BY <2>5, PurgeCommitWrites, MeetKept
  <2> QED
    BY <1>5, <2>1, <2>2, <2>3, <2>4, <2>5 DEF Purge, PurgeStep
<1>6. ASSUME NEW r \in Requests, Fail(r) PROVE Goal
  BY <1>6 DEF Fail
<1> QED
  BY <1>1, <1>2, <1>3, <1>4, <1>5, <1>6 DEF Next, TrashOrRead

\* If no purge met the upload of a version, and no request failed half-way, every
\* ciphertext on the disk has a row or a request that is about to commit one,
\* however uploads, refusals, conflicts and purges interleave.
THEOREM NoOrphanUnlessMishap == Spec => []NoOrphanBlob
<1>1. Init => MishapInv
  BY OrphanInit DEF MishapInv, NoPurgeWhileWriting, Init, Planned
<1>2. ASSUME TypeInv, IdsInv, RowsInv, PathsInv, PendingInv, MishapInv, [Next]_vars
      PROVE  MishapInv'
  <2> SUFFICES ASSUME ~mishap' PROVE NoPurgeWhileWriting' /\ OrphanInv'
    BY DEF MishapInv
  <2>1. ~mishap /\ NoPurgeWhileWriting /\ OrphanInv /\ NoPurgeWhileWriting'
    BY <1>2, MeetStep DEF MishapInv
  <2> QED
    BY <1>2, <2>1, OrphanStep
<1>3. MishapInv => NoOrphanBlob
  BY DEF MishapInv, OrphanInv, NoOrphanBlob
<1> QED
  BY <1>1, <1>2, <1>3, TypeInvariant, RowsInvariant, DiskInvariant,
     PendingInvariant, PTL DEF Spec

-----------------------------------------------------------------------------
\* An account that waits has one upload under way at most.
LEMMA WaitingClients ==
  ASSUME OneRequestEach, OwnersInv
  PROVE  OneSpender /\ OneUploader
<1>1. OneSpender
  BY DEF OneRequestEach, OwnersInv, OneSpender
<1> QED
  BY <1>1, OneSpenderUploads

\* Nor does it purge what it uploads; the job may, so it is left out here.
LEMMA WaitingWithoutJob ==
  ASSUME OneRequestEach, Janitors = {}, OwnersInv
  PROVE  NoPurgeWhileWriting
<1> SUFFICES ASSUME NEW q \in Requests, NEW r \in Requests, pc[q] \in Planned,
                    pc[r] \in PurgePcs, up[q].file \in pg[r].gone
             PROVE  FALSE
  BY DEF NoPurgeWhileWriting
<1>1. up[q].file \in About(q)
  BY VersionOwner DEF Planned, VersionPcs
<1>2. up[q].file \in About(r)
  BY DEF About, PurgePcs, VersionPcs, IsUser
<1>3. Owner[q] = Owner[r]
  BY <1>1, <1>2 DEF OwnersInv
<1>4. q = r
  BY <1>3 DEF OneRequestEach, IsUser
<1> QED
  BY <1>4 DEF Planned, PurgePcs

\* If every account waits for its response before it sends its next request, all
\* committed versions stay readable and every size is that of the latest version.
THEOREM WaitingClientsKeepPromises ==
  ASSUME OneRequestEach
  PROVE  Spec => [](VersionsReadable /\ RowSizeIsLatest)
<1>1. OwnersInv => OneUploader
  BY WaitingClients
<1> QED
  BY <1>1, OwnersInvariant, VersionsReadableToOneUploader,
     RowSizeLatestToOneUploader, PTL

\* Under the same discipline of the clients the quota holds once it holds.
THEOREM WaitingClientsKeepQuota ==
  ASSUME OneRequestEach
  PROVE  Spec /\ QuotaRespected => []QuotaRespected
<1>1. OwnersInv => OneSpender
  BY WaitingClients
<1> QED
  BY <1>1, OwnersInvariant, QuotaKeptByOneSpender, PTL

\* Under the same discipline, and while the purge job does not run, no purge meets
\* the upload of a version: a blob without a row is the work of a failed request.
THEOREM WaitingClientsNeverMeet ==
  ASSUME OneRequestEach, Janitors = {}
  PROVE  Spec => []NoPurgeWhileWriting
<1>1. OwnersInv => NoPurgeWhileWriting
  BY WaitingWithoutJob
<1> QED
  BY <1>1, OwnersInvariant, PTL
=============================================================================
