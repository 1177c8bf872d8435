---------------------------- MODULE Folders_proofs ----------------------------
(***************************************************************************)
(* Theorems about Folders, for every set of users, folders, files and      *)
(* requests, and whoever of the users waits for responses.                 *)
(*                                                                         *)
(* Three layers, each on the ones before: types and ids, the trees, and    *)
(* where the files of a patient user are.  The question is always what a   *)
(* request may rely on at its commit that it has looked up long before.    *)
(***************************************************************************)
EXTENDS Folders, TLAPS

Ops == {"create", "upload", "move", "delete"}

others == <<folder, file, issued, placed, strays, patient>>

\* What all the lookups have in common.
Looking(r, op, u, g) ==
  /\ MayUse(u, g)
  /\ Begin(r, op, u, g)
  /\ op = "delete" => g # None
  /\ UNCHANGED others

NewJob(op, u, g) ==
  [op |-> op, user |-> u, folder |-> g, files |-> {}, dirty |-> {},
   todo |-> IF op = "delete" THEN {g} ELSE {},
   seen |-> IF op = "delete" THEN {g} ELSE {}]

PickedJob(r, f) ==
  [job[r] EXCEPT !.files = @ \cup {f},
                 !.dirty = IF file[f].folder = job[r].folder THEN @ ELSE @ \cup {f}]

DetachedJob(r, g) ==
  [job[r] EXCEPT !.files = @ \cup FilesIn(g),
                 !.dirty = @ \cup FilesIn(g),
                 !.todo = (@ \ {g}) \cup Subfolders(g),
                 !.seen = @ \cup Subfolders(g)]

LEMMA Lookups ==
  ASSUME NEW r \in Requests, NEW u \in Users, NEW g \in Place,
         \/ CreateLookup(r, u, g) \/ UploadLookup(r, u, g)
         \/ MoveLookup(r, u, g) \/ DeleteLookup(r, u, g)
  PROVE  \E op \in Ops : Looking(r, op, u, g)
<1>1. CASE CreateLookup(r, u, g)
  <2>1. Looking(r, "create", u, g)
    BY <1>1 DEF CreateLookup, Looking, others
  <2> QED BY <2>1 DEF Ops
<1>2. CASE UploadLookup(r, u, g)
  <2>1. Looking(r, "upload", u, g)
    BY <1>2 DEF UploadLookup, Looking, others
  <2> QED BY <2>1 DEF Ops
<1>3. CASE MoveLookup(r, u, g)
  <2>1. Looking(r, "move", u, g)
    BY <1>3 DEF MoveLookup, Looking, others
  <2> QED BY <2>1 DEF Ops
<1>4. CASE DeleteLookup(r, u, g)
  <2>1. Looking(r, "delete", u, g)
    BY <1>4 DEF DeleteLookup, Looking, others
  <2> QED BY <2>1 DEF Ops
<1> QED BY <1>1, <1>2, <1>3, <1>4

-----------------------------------------------------------------------------
\* Ids are never drawn again, so what a request knows by its id, however long
\* ago, is still that folder or file, or is gone.
Ids ==
  /\ \A g \in FolderIds : folder[g] # None => g \in issued
  /\ \A f \in FileIds : file[f] # None => f \in issued
  /\ \A f \in FileIds : placed[f] \in issued \cup {None}
  /\ \A r \in Requests : job[r] # None =>
       /\ job[r].folder \in issued \cup {None}
       /\ job[r].seen \subseteq issued
       /\ job[r].files \subseteq issued
       /\ job[r].dirty \subseteq job[r].files
       /\ job[r].todo \subseteq job[r].seen
       /\ job[r].op = "delete" => job[r].folder \in job[r].seen

Base == TypeOK /\ Ids

\* A step that begins, continues or ends the job of r, and whose new job, if
\* there is one, is well formed, keeps what is said of jobs.
LEMMA JobStep ==
  ASSUME Base, NEW r \in Requests, NEW j,
         job' = [job EXCEPT ![r] = j],
         \/ j = None
         \/ /\ j \in Job
            /\ j.folder \in issued \cup {None}
            /\ j.seen \subseteq issued
            /\ j.files \subseteq issued
            /\ j.dirty \subseteq j.files
            /\ j.todo \subseteq j.seen
            /\ j.op = "delete" => j.folder \in j.seen,
         issued \subseteq issued',
         issued' \subseteq FolderIds \cup FileIds,
         folder' \in [FolderIds -> FolderRow \cup {None}],
         file' \in [FileIds -> FileRow \cup {None}],
         placed' \in [FileIds -> Place],
         strays' = strays, patient' = patient,
         \A g \in FolderIds : folder'[g] # None => g \in issued',
         \A f \in FileIds : file'[f] # None => f \in issued',
         \A f \in FileIds : placed'[f] \in issued' \cup {None}
  PROVE  Base'
<1>1. TypeOK'
  BY DEF Base, TypeOK
<1>2. ASSUME NEW q \in Requests, job'[q] # None
      PROVE  /\ job'[q].folder \in issued' \cup {None}
             /\ job'[q].seen \subseteq issued'
             /\ job'[q].files \subseteq issued'
             /\ job'[q].dirty \subseteq job'[q].files
             /\ job'[q].todo \subseteq job'[q].seen
             /\ job'[q].op = "delete" => job'[q].folder \in job'[q].seen
  <2>1. CASE q = r
    <3>1. job'[q] = j
      BY <2>1 DEF Base, TypeOK
    <3> QED BY <1>2, <3>1
  <2>2. CASE q # r
    <3>1. job'[q] = job[q]
      BY <2>2 DEF Base, TypeOK
    <3> QED BY <1>2, <3>1 DEF Base, Ids
  <2> QED BY <2>1, <2>2
<1> QED BY <1>1, <1>2 DEF Base, Ids

LEMMA JobTyped ==
  ASSUME Base, NEW r \in Requests, job[r] # None
  PROVE  /\ job[r] \in Job
         /\ job[r].folder \in issued \cup {None}
         /\ job[r].seen \subseteq issued
         /\ job[r].files \subseteq issued
         /\ job[r].dirty \subseteq job[r].files
         /\ job[r].todo \subseteq job[r].seen
         /\ job[r].op = "delete" => job[r].folder \in job[r].seen
BY DEF Base, TypeOK, Ids

\* The jobs after a lookup, a pick and a visit of a folder.
LEMMA NewJobTyped ==
  ASSUME Base, NEW r \in Requests, NEW op \in Ops, NEW u \in Users,
         NEW g \in Place, Looking(r, op, u, g)
  PROVE  LET j == NewJob(op, u, g)
         IN  /\ job' = [job EXCEPT ![r] = j]
             /\ j \in Job
             /\ j.folder \in issued \cup {None}
             /\ j.seen \subseteq issued /\ j.files \subseteq issued
             /\ j.dirty \subseteq j.files /\ j.todo \subseteq j.seen
             /\ j.op = "delete" => j.folder \in j.seen
<1>1. job' = [job EXCEPT ![r] = NewJob(op, u, g)]
  BY DEF Looking, Begin, NewJob
<1>2. g # None => g \in issued /\ g \in FolderIds
  BY DEF Looking, MayUse, Base, Ids, Place
<1>3. op = "delete" => g \in issued /\ g \in FolderIds
  BY <1>2 DEF Looking
<1>4. NewJob(op, u, g) \in Job
  BY <1>3 DEF NewJob, Job, Ops
<1> QED BY <1>1, <1>2, <1>3, <1>4 DEF NewJob

LEMMA PickedJobTyped ==
  ASSUME Base, NEW r \in Requests, NEW f \in FileIds, MovePick(r, f)
  PROVE  LET j == PickedJob(r, f)
         IN  /\ job' = [job EXCEPT ![r] = j]
             /\ j \in Job
             /\ j.op = "move" /\ j.user = job[r].user
             /\ j.folder = job[r].folder
             /\ j.files = job[r].files \cup {f}
             /\ j.dirty = IF file[f].folder = job[r].folder THEN job[r].dirty
                          ELSE job[r].dirty \cup {f}
             /\ j.todo = job[r].todo /\ j.seen = job[r].seen
<1>1. job[r] \in Job /\ job[r].op = "move"
  BY JobTyped DEF MovePick, Doing
<1>2. job' = [job EXCEPT ![r] = PickedJob(r, f)]
  BY DEF MovePick, PickedJob
<1> QED BY <1>1, <1>2 DEF PickedJob, Job

LEMMA DetachedJobTyped ==
  ASSUME Base, NEW r \in Requests, NEW g \in FolderIds, Detach(r, g)
  PROVE  LET j == DetachedJob(r, g)
         IN  /\ job' = [job EXCEPT ![r] = j]
             /\ j \in Job
             /\ j.op = "delete" /\ j.user = job[r].user
             /\ j.folder = job[r].folder
             /\ j.files = job[r].files \cup FilesIn(g)
             /\ j.dirty = job[r].dirty \cup FilesIn(g)
             /\ j.todo = (job[r].todo \ {g}) \cup Subfolders(g)
             /\ j.seen = job[r].seen \cup Subfolders(g)
<1>1. job[r] \in Job /\ job[r].op = "delete"
  BY JobTyped DEF Detach, Doing
<1>2. FilesIn(g) \subseteq FileIds /\ Subfolders(g) \subseteq FolderIds
  BY DEF FilesIn, Subfolders
<1>3. job' = [job EXCEPT ![r] = DetachedJob(r, g)]
  BY DEF Detach, DetachedJob
<1> QED BY <1>1, <1>2, <1>3 DEF DetachedJob, Job

-----------------------------------------------------------------------------
\* What a transaction that the database accepts leaves of the two tables.
LEMMA MovedTyped ==
  ASSUME Base, NEW r \in Requests, MoveCommit(r)
  PROVE  /\ job[r] \in Job /\ job[r].op = "move"
         /\ file' \in [FileIds -> FileRow \cup {None}]
         /\ \A f \in FileIds : file'[f] # None => file[f] # None
         /\ \A f \in FileIds :
              IF f \in job[r].dirty
              THEN /\ file[f] # None /\ Referable(job[r].folder)
                   /\ file'[f].owner = file[f].owner
                   /\ file'[f].folder = job[r].folder
              ELSE file'[f] = file[f]
<1>1. job[r] \in Job /\ job[r].op = "move"
  BY JobTyped DEF MoveCommit, Doing
<1>2. file' = Moved(job[r]) /\ Writable(job[r])
  BY DEF MoveCommit
<1>3. \A f \in FileIds :
        file'[f] = IF f \in job[r].dirty
                   THEN [file[f] EXCEPT !.folder = job[r].folder] ELSE file[f]
  BY <1>2 DEF Moved
<1>4. \A f \in job[r].dirty : f \in FileIds /\ file[f] \in FileRow /\ file[f] # None
  BY <1>1, <1>2 DEF Writable, Base, TypeOK, Job
<1>5. job[r].dirty # {} => Referable(job[r].folder)
  BY <1>1, <1>2 DEF Writable
<1>6. job[r].folder \in Place
  BY <1>1 DEF Job
<1>7. \A f \in job[r].dirty :
        /\ [file[f] EXCEPT !.folder = job[r].folder] \in FileRow
        /\ [file[f] EXCEPT !.folder = job[r].folder].owner = file[f].owner
        /\ [file[f] EXCEPT !.folder = job[r].folder].folder = job[r].folder
  BY <1>4, <1>6 DEF FileRow
<1>8. file' = [f \in FileIds |-> file'[f]]
  BY <1>2 DEF Moved
<1>9. \A f \in FileIds : file'[f] \in FileRow \cup {None}
  BY <1>3, <1>7 DEF Base, TypeOK
<1> QED BY <1>1, <1>3, <1>4, <1>5, <1>7, <1>8, <1>9

LEMMA ReleasedTyped ==
  ASSUME Base, NEW r \in Requests, DeleteCommit(r)
  PROVE  LET gone == Cascade(job[r].seen)
         IN  /\ job[r] \in Job /\ job[r].op = "delete"
             /\ file' \in [FileIds -> FileRow \cup {None}]
             /\ folder' \in [FolderIds -> FolderRow \cup {None}]
             /\ \A g \in FolderIds :
                  folder'[g] = IF g \in gone THEN None ELSE folder[g]
             /\ \A f \in FileIds : file'[f] # None => file[f] # None
             /\ \A f \in FileIds :
                  IF f \in job[r].dirty \/ (file[f] # None /\ file[f].folder \in gone)
                  THEN /\ file[f] # None
                       /\ file'[f] = [file[f] EXCEPT !.folder = None]
                       /\ file'[f].owner = file[f].owner
                       /\ file'[f].folder = None
                  ELSE file'[f] = file[f]
<1> DEFINE gone == Cascade(job[r].seen)
<1> DEFINE freed(f) == f \in job[r].dirty \/ (file[f] # None /\ file[f].folder \in gone)
<1>1. job[r] \in Job /\ job[r].op = "delete"
  BY JobTyped DEF DeleteCommit, Doing
<1>2. file' = Released(job[r], gone) /\ Writable(job[r])
  BY DEF DeleteCommit
<1>3. \A f \in FileIds :
        file'[f] = IF freed(f) THEN [file[f] EXCEPT !.folder = None] ELSE file[f]
  BY <1>2 DEF Released
<1>4. \A f \in FileIds : freed(f) => file[f] \in FileRow /\ file[f] # None
  BY <1>1, <1>2 DEF Writable, Base, TypeOK, Job
<1>5. \A f \in FileIds : freed(f) =>
        /\ [file[f] EXCEPT !.folder = None] \in FileRow
        /\ [file[f] EXCEPT !.folder = None].owner = file[f].owner
        /\ [file[f] EXCEPT !.folder = None].folder = None
  BY <1>4 DEF FileRow, Place
<1>6. file' = [f \in FileIds |-> file'[f]]
  BY <1>2 DEF Released
<1>7. \A f \in FileIds : file'[f] \in FileRow \cup {None}
  BY <1>3, <1>5 DEF Base, TypeOK
<1>8. folder' = [g \in FolderIds |-> IF g \in gone THEN None ELSE folder[g]]
  BY DEF DeleteCommit
<1>9. folder' \in [FolderIds -> FolderRow \cup {None}]
  BY <1>8 DEF Base, TypeOK
<1>10. \A g \in FolderIds : folder'[g] = IF g \in gone THEN None ELSE folder[g]
  BY <1>8
<1>11. ASSUME NEW f \in FileIds
       PROVE  /\ file'[f] # None => file[f] # None
              /\ IF f \in job[r].dirty \/ (file[f] # None /\ file[f].folder \in gone)
                 THEN /\ file[f] # None
                      /\ file'[f] = [file[f] EXCEPT !.folder = None]
                      /\ file'[f].owner = file[f].owner
                      /\ file'[f].folder = None
                 ELSE file'[f] = file[f]
  BY <1>3, <1>4, <1>5
<1> QED BY <1>1, <1>6, <1>7, <1>9, <1>10, <1>11

LEMMA AnsweredTyped ==
  ASSUME Base, NEW u \in Users, NEW fs \in SUBSET FileIds, NEW g \in Place,
         Answered(u, fs, g), g \in issued \cup {None}
  PROVE  /\ placed' \in [FileIds -> Place]
         /\ \A f \in FileIds : placed'[f] \in issued \cup {None}
         /\ u \in patient => \A f \in FileIds :
              placed'[f] = IF f \in fs THEN g ELSE placed[f]
         /\ u \notin patient => placed' = placed
BY DEF Answered, Base, TypeOK, Ids

LEMMA InsertTyped ==
  ASSUME Base, NEW f \in FileIds, NEW u \in Users, NEW g \in Place,
         Insert(f, u, g)
  PROVE  /\ file[f] = None /\ f \notin issued
         /\ file' = [file EXCEPT ![f] = [owner |-> u, folder |-> g]]
         /\ file' \in [FileIds -> FileRow \cup {None}]
         /\ issued' = issued \cup {f}
         /\ placed' \in [FileIds -> Place]
         /\ \A e \in FileIds : file'[e] # None => e \in issued'
         /\ \A e \in FileIds : placed'[e] \in issued' \cup {None}
         /\ u \in patient => \A e \in FileIds :
              placed'[e] = IF e = f THEN g ELSE placed[e]
         /\ u \notin patient => placed' = placed
<1>1. file[f] = None /\ f \notin issued
  BY DEF Insert, Base, Ids
<1>2. g \in issued \cup {None}
  BY DEF Insert, Referable, Base, Ids, Place
<1>3. [owner |-> u, folder |-> g] \in FileRow
  BY DEF FileRow
<1>4. /\ file' = [file EXCEPT ![f] = [owner |-> u, folder |-> g]]
      /\ issued' = issued \cup {f}
      /\ Answered(u, {f}, g)
  BY DEF Insert
<1>5. file' \in [FileIds -> FileRow \cup {None}]
  BY <1>3, <1>4 DEF Base, TypeOK
<1>6. \A e \in FileIds : file'[e] # None => e \in issued'
  BY <1>4 DEF Base, TypeOK, Ids
<1>7. /\ placed' \in [FileIds -> Place]
      /\ \A e \in FileIds : placed'[e] \in issued \cup {None}
      /\ u \in patient => \A e \in FileIds :
           placed'[e] = IF e \in {f} THEN g ELSE placed[e]
      /\ u \notin patient => placed' = placed
  BY <1>2, <1>4, AnsweredTyped
<1> QED BY <1>1, <1>4, <1>5, <1>6, <1>7

-----------------------------------------------------------------------------
LEMMA BaseStep ==
  ASSUME Base, [Next]_vars
  PROVE  Base'
<1> USE DEF Base
<1>u. UNCHANGED others => /\ folder' \in [FolderIds -> FolderRow \cup {None}]
                          /\ file' \in [FileIds -> FileRow \cup {None}]
                          /\ placed' \in [FileIds -> Place]
                          /\ issued' = issued /\ issued \subseteq FolderIds \cup FileIds
                          /\ strays' = strays /\ patient' = patient
                          /\ \A g \in FolderIds : folder'[g] # None => g \in issued'
                          /\ \A f \in FileIds : file'[f] # None => f \in issued'
                          /\ \A f \in FileIds : placed'[f] \in issued' \cup {None}
  BY DEF others, TypeOK, Ids
<1>t. /\ folder \in [FolderIds -> FolderRow \cup {None}]
      /\ file \in [FileIds -> FileRow \cup {None}]
      /\ placed \in [FileIds -> Place]
      /\ issued \subseteq FolderIds \cup FileIds
      /\ \A g \in FolderIds : folder[g] # None => g \in issued
      /\ \A f \in FileIds : file[f] # None => f \in issued
      /\ \A f \in FileIds : placed[f] \in issued \cup {None}
  BY DEF TypeOK, Ids
<1>1. ASSUME NEW r \in Requests, NEW u \in Users, NEW g \in Place,
             \/ CreateLookup(r, u, g) \/ UploadLookup(r, u, g)
             \/ MoveLookup(r, u, g) \/ DeleteLookup(r, u, g)
      PROVE  Base'
  <2>1. PICK op \in Ops : Looking(r, op, u, g)
    BY <1>1, Lookups
  <2>2. UNCHANGED others
    BY <2>1 DEF Looking
  <2> DEFINE j == NewJob(op, u, g)
  <2>3. /\ job' = [job EXCEPT ![r] = j]
        /\ j \in Job
        /\ j.folder \in issued \cup {None}
        /\ j.seen \subseteq issued /\ j.files \subseteq issued
        /\ j.dirty \subseteq j.files /\ j.todo \subseteq j.seen
        /\ j.op = "delete" => j.folder \in j.seen
    BY <2>1, NewJobTyped
  <2> HIDE DEF j
  <2> QED BY <1>u, <2>2, <2>3, JobStep
<1>2. ASSUME NEW r \in Requests, NEW g \in FolderIds, CreateCommit(r, g)
      PROVE  Base'
  <2>1. job[r] \in Job
    BY <1>2, JobTyped DEF CreateCommit, Doing
  <2>2. [owner |-> job[r].user, parent |-> job[r].folder] \in FolderRow
    BY <2>1 DEF FolderRow, Job
  <2>3. /\ job' = [job EXCEPT ![r] = None]
        /\ folder' = [folder EXCEPT ![g] =
                        [owner |-> job[r].user, parent |-> job[r].folder]]
        /\ issued' = issued \cup {g}
        /\ UNCHANGED <<file, placed, strays, patient>>
    BY <1>2 DEF CreateCommit, End
  <2>4. /\ folder' \in [FolderIds -> FolderRow \cup {None}]
        /\ \A h \in FolderIds : folder'[h] # None => h \in issued'
    BY <1>t, <2>2, <2>3
  <2> QED BY <1>t, <2>3, <2>4, JobStep
<1>3. ASSUME NEW r \in Requests, NEW f \in FileIds, UploadCommit(r, f)
      PROVE  Base'
  <2>1. job[r] \in Job
    BY <1>3, JobTyped DEF UploadCommit, Doing
  <2>2. job[r].user \in Users /\ job[r].folder \in Place
    BY <2>1 DEF Job
  <2>3. /\ Insert(f, job[r].user, job[r].folder)
        /\ job' = [job EXCEPT ![r] = None]
        /\ UNCHANGED <<folder, strays, patient>>
    BY <1>3 DEF UploadCommit, End
  <2>4. /\ file' \in [FileIds -> FileRow \cup {None}]
        /\ issued' = issued \cup {f}
        /\ placed' \in [FileIds -> Place]
        /\ \A e \in FileIds : file'[e] # None => e \in issued'
        /\ \A e \in FileIds : placed'[e] \in issued' \cup {None}
    BY <2>2, <2>3, InsertTyped
  <2> QED BY <1>t, <2>3, <2>4, JobStep
<1>4. ASSUME NEW u \in Users, NEW f \in FileIds, NEW g \in Place, Complete(u, f, g)
      PROVE  Base'
  <2>1. Insert(f, u, g) /\ UNCHANGED <<folder, job, patient>>
    BY <1>4 DEF Complete
  <2>2. strays' \subseteq FileIds
    BY <1>4 DEF Complete, TypeOK
  <2>3. TypeOK'
    BY <1>t, <2>1, <2>2, InsertTyped DEF TypeOK
  <2>4. Ids'
    BY <1>t, <2>1, InsertTyped DEF Ids
  <2> QED BY <2>3, <2>4
<1>5. ASSUME NEW r \in Requests, NEW f \in FileIds, MovePick(r, f)
      PROVE  Base'
  <2> DEFINE j == PickedJob(r, f)
  <2>1. /\ job' = [job EXCEPT ![r] = j]
        /\ j \in Job
        /\ j.op = "move"
        /\ j.folder = job[r].folder
        /\ j.files = job[r].files \cup {f}
        /\ j.dirty = IF file[f].folder = job[r].folder THEN job[r].dirty
                     ELSE job[r].dirty \cup {f}
        /\ j.todo = job[r].todo /\ j.seen = job[r].seen
    BY <1>5, PickedJobTyped
  <2>2. UNCHANGED others /\ file[f] # None /\ job[r] # None
    BY <1>5 DEF MovePick, others, Doing
  <2> HIDE DEF j
  <2>3. /\ j.folder \in issued \cup {None}
        /\ j.seen \subseteq issued /\ j.files \subseteq issued
        /\ j.dirty \subseteq j.files /\ j.todo \subseteq j.seen
    BY <1>t, <2>1, <2>2, JobTyped
  <2> QED BY <1>u, <2>1, <2>2, <2>3, JobStep
<1>6. ASSUME NEW r \in Requests, NEW g \in FolderIds, Detach(r, g)
      PROVE  Base'
  <2> DEFINE j == DetachedJob(r, g)
  <2>1. /\ job' = [job EXCEPT ![r] = j]
        /\ j \in Job
        /\ j.op = "delete"
        /\ j.folder = job[r].folder
        /\ j.files = job[r].files \cup FilesIn(g)
        /\ j.dirty = job[r].dirty \cup FilesIn(g)
        /\ j.todo = (job[r].todo \ {g}) \cup Subfolders(g)
        /\ j.seen = job[r].seen \cup Subfolders(g)
    BY <1>6, DetachedJobTyped
  <2>2. UNCHANGED others /\ job[r] # None /\ job[r].op = "delete"
    BY <1>6 DEF Detach, others, Doing
  <2> HIDE DEF j
  <2>3. FilesIn(g) \subseteq issued /\ Subfolders(g) \subseteq issued
    BY <1>t DEF FilesIn, Subfolders
  <2>4. /\ j.folder \in issued \cup {None}
        /\ j.seen \subseteq issued /\ j.files \subseteq issued
        /\ j.dirty \subseteq j.files /\ j.todo \subseteq j.seen
        /\ j.folder \in j.seen
    BY <2>1, <2>2, <2>3, JobTyped
  <2> QED BY <1>u, <2>1, <2>2, <2>4, JobStep
<1>7. ASSUME NEW r \in Requests, MoveCommit(r)
      PROVE  Base'
  <2>1. job[r] # None /\ job[r] \in Job
    BY <1>7, JobTyped DEF MoveCommit, Doing
  <2>2. /\ file' \in [FileIds -> FileRow \cup {None}]
        /\ \A f \in FileIds : file'[f] # None => file[f] # None
    BY <1>7, MovedTyped
  <2>3. /\ Answered(job[r].user, job[r].files, job[r].folder)
        /\ job' = [job EXCEPT ![r] = None]
        /\ UNCHANGED <<folder, issued, strays, patient>>
    BY <1>7 DEF MoveCommit, End
  <2>4. /\ job[r].user \in Users /\ job[r].files \in SUBSET FileIds
        /\ job[r].folder \in Place /\ job[r].folder \in issued \cup {None}
    BY <2>1, JobTyped DEF Job
  <2>5. /\ placed' \in [FileIds -> Place]
        /\ \A f \in FileIds : placed'[f] \in issued \cup {None}
    BY <2>3, <2>4, AnsweredTyped
  <2> QED BY <1>t, <2>2, <2>3, <2>5, JobStep
<1>8. ASSUME NEW r \in Requests, DeleteCommit(r)
      PROVE  Base'
  <2>1. /\ file' \in [FileIds -> FileRow \cup {None}]
        /\ folder' \in [FolderIds -> FolderRow \cup {None}]
        /\ \A g \in FolderIds : folder'[g] # None => folder[g] # None
        /\ \A f \in FileIds : file'[f] # None => file[f] # None
    BY <1>8, ReleasedTyped
  <2>2. /\ job' = [job EXCEPT ![r] = None]
        /\ UNCHANGED <<issued, placed, strays, patient>>
    BY <1>8 DEF DeleteCommit, End
  <2> QED BY <1>t, <2>1, <2>2, JobStep
<1>9. ASSUME NEW r \in Requests, Fail(r)
      PROVE  Base'
  <2>1. job' = [job EXCEPT ![r] = None] /\ UNCHANGED others
    BY <1>9 DEF Fail, End, others
  <2> QED BY <1>u, <2>1, JobStep
<1>10. ASSUME NEW f \in FileIds, Purge(f)
       PROVE  Base'
  <2>1. TypeOK'
    BY <1>10 DEF Purge, TypeOK
  <2>2. Ids'
    BY <1>10 DEF Purge, Ids, TypeOK
  <2> QED BY <2>1, <2>2
<1>11. CASE UNCHANGED vars
  BY <1>11 DEF vars, TypeOK, Ids
<1> QED BY <1>1, <1>2, <1>3, <1>4, <1>5, <1>6, <1>7, <1>8, <1>9, <1>10, <1>11
     DEF Next

LEMMA BaseInit == Init => Base
<1> SUFFICES ASSUME Init PROVE Base
  OBVIOUS
<1> QED BY FoldersAssumption DEF Init, Base, TypeOK, Ids, Place

\* The tables, the ids and the locals of every request keep their types.
THEOREM TypeCorrect == Spec => []TypeOK
<1>1. Spec => []Base
  BY BaseInit, BaseStep, PTL DEF Spec
<1> QED BY <1>1, PTL DEF Base

-----------------------------------------------------------------------------
\* The database's cascade is the least set of folders that has those deleted and,
\* with a folder, its subfolders.
LEMMA CascadeIsLeast ==
  ASSUME NEW gs \in SUBSET FolderIds
  PROVE  /\ gs \subseteq Cascade(gs) /\ Cascade(gs) \subseteq FolderIds
         /\ \A g \in Cascade(gs) : Subfolders(g) \subseteq Cascade(gs)
         /\ \A hs \in SUBSET FolderIds :
              gs \subseteq hs /\ (\A h \in hs : Subfolders(h) \subseteq hs)
                => Cascade(gs) \subseteq hs
<1> DEFINE Under(hs) == hs \cup UNION {Subfolders(g) : g \in hs}
<1> DEFINE closed == {hs \in SUBSET FolderIds : gs \subseteq hs /\ Under(hs) = hs}
<1>1. Cascade(gs) = {g \in FolderIds : \A hs \in closed : g \in hs}
  BY DEF Cascade
<1>2. ASSUME NEW hs \in closed, NEW g \in hs
      PROVE  Subfolders(g) \subseteq hs
  BY <1>2
<1>3. ASSUME NEW hs \in SUBSET FolderIds, gs \subseteq hs,
             \A h \in hs : Subfolders(h) \subseteq hs
      PROVE  hs \in closed
  BY <1>3
<1>4. \A g : Subfolders(g) \subseteq FolderIds
  BY DEF Subfolders
<1> HIDE DEF closed
<1>5. \A hs \in closed : gs \subseteq hs
  BY DEF closed
<1>6. ASSUME NEW g \in Cascade(gs), NEW s \in Subfolders(g)
      PROVE  s \in Cascade(gs)
  <2>1. s \in FolderIds
    BY <1>4
  <2>2. \A hs \in closed : s \in hs
    BY <1>1, <1>2
  <2> QED BY <1>1, <2>1, <2>2
<1> QED BY <1>1, <1>3, <1>5, <1>6

-----------------------------------------------------------------------------
\* What a job knows: its folder, and what it has seen of a tree, belong to its
\* user as far as they are still there; what it has seen hangs together; the
\* files it has loaded belong to its user, but for strays in a deleted tree.
JobOwn(j) ==
  /\ j.folder # None /\ folder[j.folder] # None => folder[j.folder].owner = j.user
  /\ \A s \in j.seen : folder[s] # None =>
       /\ folder[s].owner = j.user
       /\ s = j.folder \/ folder[s].parent \in j.seen
  /\ \A f \in j.files : file[f] # None =>
       file[f].owner = j.user \/ (j.op = "delete" /\ f \in strays)

JobsOwn == \A r \in Requests : job[r] # None => JobOwn(job[r])

Trees == NothingDangles /\ TreesAreOwn /\ JobsOwn

\* No row changes its owner or its parent, and none comes back.
RowsKept ==
  /\ \A g \in FolderIds : folder'[g] = folder[g] \/ folder'[g] = None \/ g \notin issued
  /\ \A f \in FileIds :
       \/ file'[f] = None
       \/ f \notin issued
       \/ file[f] # None /\ file'[f].owner = file[f].owner
  /\ strays \subseteq strays'

LEMMA RowsAreKept ==
  ASSUME Base, [Next]_vars
  PROVE  RowsKept
<1>t. /\ folder \in [FolderIds -> FolderRow \cup {None}]
      /\ file \in [FileIds -> FileRow \cup {None}]
  BY DEF Base, TypeOK
<1>1. UNCHANGED others => RowsKept
  BY DEF others, RowsKept
<1>2. ASSUME NEW r \in Requests, NEW g \in FolderIds, CreateCommit(r, g)
      PROVE  RowsKept
  BY <1>2, <1>t DEF CreateCommit, RowsKept
<1>3. ASSUME NEW u \in Users, NEW f \in FileIds, NEW g \in Place, Insert(f, u, g),
             UNCHANGED folder, strays \subseteq strays'
      PROVE  RowsKept
  BY <1>3, <1>t DEF Insert, RowsKept
<1>4. ASSUME NEW r \in Requests, NEW f \in FileIds, UploadCommit(r, f)
      PROVE  RowsKept
  <2>1. job[r].user \in Users /\ job[r].folder \in Place
    BY <1>4, JobTyped DEF UploadCommit, Doing, Job
  <2> QED BY <1>3, <1>4, <2>1 DEF UploadCommit
<1>5. ASSUME NEW u \in Users, NEW f \in FileIds, NEW g \in Place, Complete(u, f, g)
      PROVE  RowsKept
  BY <1>3, <1>5 DEF Complete
<1>6. ASSUME NEW r \in Requests, MoveCommit(r)
      PROVE  RowsKept
  BY <1>6, MovedTyped DEF MoveCommit, RowsKept
<1>7. ASSUME NEW r \in Requests, DeleteCommit(r)
      PROVE  RowsKept
  BY <1>7, ReleasedTyped DEF DeleteCommit, RowsKept
<1>8. ASSUME NEW f \in FileIds, Purge(f)
      PROVE  RowsKept
  BY <1>8, <1>t DEF Purge, RowsKept
<1>9. ASSUME NEW r \in Requests, NEW u \in Users, NEW g \in Place,
             \/ CreateLookup(r, u, g) \/ UploadLookup(r, u, g)
             \/ MoveLookup(r, u, g) \/ DeleteLookup(r, u, g)
      PROVE  RowsKept
  BY <1>1, <1>9, Lookups DEF Looking
<1>10. ASSUME NEW r \in Requests, NEW f \in FileIds, MovePick(r, f)
       PROVE  RowsKept
  BY <1>1, <1>10 DEF MovePick, others
<1>11. ASSUME NEW r \in Requests, NEW g \in FolderIds, Detach(r, g)
       PROVE  RowsKept
  BY <1>1, <1>11 DEF Detach, others
<1>12. ASSUME NEW r \in Requests, Fail(r)
       PROVE  RowsKept
  BY <1>1, <1>12 DEF Fail, others
<1>13. CASE UNCHANGED vars
  BY <1>1, <1>13 DEF vars, others
<1> QED BY <1>2, <1>4, <1>5, <1>6, <1>7, <1>8, <1>9, <1>10, <1>11, <1>12, <1>13
     DEF Next

\* So what a request knows, and is not told anew, remains true.
LEMMA KnowledgeKept ==
  ASSUME Base, RowsKept, NEW q \in Requests, job[q] # None, JobOwn(job[q]),
         job'[q] = job[q]
  PROVE  JobOwn(job[q])'
<1>1. /\ job[q] \in Job
      /\ job[q].folder \in issued \cup {None}
      /\ job[q].seen \subseteq issued
      /\ job[q].files \subseteq issued
  BY JobTyped
<1>2. job[q].folder # None /\ folder'[job[q].folder] # None
        => folder'[job[q].folder].owner = job[q].user
  BY <1>1 DEF JobOwn, RowsKept, Job, Place
<1>3. ASSUME NEW s \in job[q].seen, folder'[s] # None
      PROVE  /\ folder'[s].owner = job[q].user
             /\ s = job[q].folder \/ folder'[s].parent \in job[q].seen
  <2>1. folder'[s] = folder[s]
    BY <1>1, <1>3 DEF RowsKept, Job
  <2> QED BY <1>3, <2>1 DEF JobOwn
<1>4. ASSUME NEW f \in job[q].files, file'[f] # None
      PROVE  file'[f].owner = job[q].user \/ (job[q].op = "delete" /\ f \in strays')
  <2>1. file[f] # None /\ file'[f].owner = file[f].owner
    BY <1>1, <1>4 DEF RowsKept, Job
  <2> QED BY <2>1 DEF JobOwn, RowsKept
<1> QED BY <1>2, <1>3, <1>4 DEF JobOwn

\* It is enough to look at the job of the request that steps.
LEMMA JobsOwnStep ==
  ASSUME Base, JobsOwn, RowsKept, NEW r \in Requests,
         \A q \in Requests \ {r} : job'[q] = job[q],
         job'[r] # None => JobOwn(job[r])'
  PROVE  JobsOwn'
<1> SUFFICES ASSUME NEW q \in Requests, job'[q] # None
             PROVE  JobOwn(job[q])'
  BY DEF JobsOwn
<1>1. CASE q = r
  BY <1>1
<1>2. CASE q # r
  BY <1>2, KnowledgeKept DEF JobsOwn
<1> QED BY <1>1, <1>2

-----------------------------------------------------------------------------
\* A delete takes folders of its user only.
LEMMA GoneIsOwn ==
  ASSUME Base, Trees, NEW r \in Requests, job[r] # None
  PROVE  \A g \in Cascade(job[r].seen) :
           folder[g] # None => folder[g].owner = job[r].user
<1> DEFINE gone == Cascade(job[r].seen)
<1> DEFINE hs == {g \in gone : folder[g] # None => folder[g].owner = job[r].user}
<1>1. job[r].seen \in SUBSET FolderIds
  BY JobTyped DEF Job
<1>2. /\ job[r].seen \subseteq gone /\ gone \subseteq FolderIds
      /\ \A g \in gone : Subfolders(g) \subseteq gone
      /\ \A is \in SUBSET FolderIds :
           job[r].seen \subseteq is /\ (\A h \in is : Subfolders(h) \subseteq is)
             => gone \subseteq is
  BY <1>1, CascadeIsLeast
<1> HIDE DEF gone
<1>3. job[r].seen \subseteq hs
  BY <1>2 DEF Trees, JobsOwn, JobOwn
<1>4. ASSUME NEW h \in hs, NEW s \in Subfolders(h)
      PROVE  s \in hs
  <2>1. s \in gone /\ h \in FolderIds
    BY <1>2, <1>4
  <2>2. s \in FolderIds /\ folder[s] # None /\ folder[s].parent = h
    BY <1>4 DEF Subfolders
  <2>3. MayUse(folder[s].owner, h)
    BY <2>2 DEF Trees, TreesAreOwn
  <2>4. folder[h] # None /\ folder[h].owner = folder[s].owner
    BY <2>1, <2>3, FoldersAssumption DEF MayUse
  <2> QED BY <1>4, <2>1, <2>4
<1>5. gone \subseteq hs
  BY <1>2, <1>3, <1>4
<1> QED BY <1>5 DEF gone

\* A delete leaves no folder without its parent, and no file without its folder.
LEMMA DeleteStep ==
  ASSUME Base, Trees, NEW r \in Requests, DeleteCommit(r)
  PROVE  NothingDangles' /\ TreesAreOwn'
<1> DEFINE gone == Cascade(job[r].seen)
<1>1. job[r].seen \in SUBSET FolderIds
  BY JobTyped DEF DeleteCommit, Doing, Job
<1>2. /\ gone \subseteq FolderIds
      /\ \A g \in gone : Subfolders(g) \subseteq gone
  BY <1>1, CascadeIsLeast
<1>3. /\ \A g \in FolderIds : folder'[g] = IF g \in gone THEN None ELSE folder[g]
      /\ \A f \in FileIds :
           \/ file'[f].folder = None /\ file[f] # None
           \/ /\ file'[f] = file[f]
              /\ file[f] # None => file[f].folder \notin gone
  BY ReleasedTyped
<1>4. strays' = strays
  BY DEF DeleteCommit
<1> HIDE DEF gone
<1>5. ASSUME NEW g \in FolderIds, folder'[g] # None
      PROVE  /\ folder'[g] = folder[g] /\ folder[g] \in FolderRow
             /\ folder[g].parent # None =>
                  /\ folder[g].parent \in FolderIds
                  /\ folder'[folder[g].parent] = folder[folder[g].parent]
  <2>1. g \notin gone /\ folder'[g] = folder[g] /\ folder[g] # None
    BY <1>3, <1>5
  <2>2. folder[g] \in FolderRow
    BY <2>1 DEF Base, TypeOK
  <2>3. folder[g].parent # None => folder[g].parent \in FolderIds
    BY <2>2 DEF FolderRow, Place
  <2>4. g \in Subfolders(folder[g].parent)
    BY <2>1 DEF Subfolders
  <2>5. folder[g].parent \notin gone
    BY <1>2, <2>1, <2>4
  <2> QED BY <1>3, <2>1, <2>2, <2>3, <2>5
<1>6. ASSUME NEW f \in FileIds, file'[f] # None, file'[f].folder # None
      PROVE  /\ file'[f] = file[f] /\ file[f] # None
             /\ file[f].folder \in FolderIds
             /\ folder'[file[f].folder] = folder[file[f].folder]
  <2>1. file'[f] = file[f] /\ file[f] # None /\ file[f].folder \notin gone
    BY <1>3, <1>6
  <2>2. file[f] \in FileRow
    BY <2>1 DEF Base, TypeOK
  <2>3. file[f].folder \in FolderIds
    BY <1>6, <2>1, <2>2 DEF FileRow, Place
  <2> QED BY <1>3, <2>1, <2>3
<1>7. NothingDangles'
  <2>1. ASSUME NEW g \in FolderIds, folder'[g] # None, folder'[g].parent # None
        PROVE  folder'[folder'[g].parent] # None
    BY <1>5, <2>1 DEF Trees, NothingDangles, Referable
  <2>2. ASSUME NEW f \in FileIds, file'[f] # None, file'[f].folder # None
        PROVE  folder'[file'[f].folder] # None
    BY <1>6, <2>2 DEF Trees, NothingDangles, Referable
  <2> QED BY <2>1, <2>2 DEF NothingDangles, Referable
<1>8. TreesAreOwn'
  <2>1. ASSUME NEW g \in FolderIds, folder'[g] # None, folder'[g].parent # None
        PROVE  /\ folder'[folder'[g].parent] # None
               /\ folder'[folder'[g].parent].owner = folder'[g].owner
    BY <1>5, <2>1 DEF Trees, TreesAreOwn, MayUse
  <2>2. ASSUME NEW f \in FileIds \ strays', file'[f] # None, file'[f].folder # None
        PROVE  /\ folder'[file'[f].folder] # None
               /\ folder'[file'[f].folder].owner = file'[f].owner
    BY <1>4, <1>6, <2>2 DEF Trees, TreesAreOwn, MayUse
  <2> QED BY <2>1, <2>2 DEF TreesAreOwn, MayUse
<1> QED BY <1>7, <1>8

LEMMA InsertStep ==
  ASSUME Base, Trees, NEW f \in FileIds, NEW u \in Users, NEW g \in Place,
         Insert(f, u, g), folder' = folder, strays \subseteq strays',
         MayUse(u, g) \/ f \in strays'
  PROVE  NothingDangles' /\ TreesAreOwn'
<1>1. file' = [file EXCEPT ![f] = [owner |-> u, folder |-> g]] /\ Referable(g)
  BY DEF Insert
<1>2. \A e \in FileIds : file'[e] = IF e = f THEN [owner |-> u, folder |-> g]
                                    ELSE file[e]
  BY <1>1 DEF Base, TypeOK
<1>3. NothingDangles'
  BY <1>1, <1>2 DEF Trees, NothingDangles, Referable
<1>4. TreesAreOwn'
  BY <1>2 DEF Trees, TreesAreOwn, MayUse
<1> QED BY <1>3, <1>4

LEMMA TreesStep ==
  ASSUME Base, Trees, [Next]_vars
  PROVE  Trees'
<1>k. RowsKept
  BY RowsAreKept
<1>u. UNCHANGED others => NothingDangles' /\ TreesAreOwn'
  BY DEF others, Trees, NothingDangles, TreesAreOwn, Referable, MayUse
<1>e. ASSUME NEW r \in Requests, job' = [job EXCEPT ![r] = None]
      PROVE  JobsOwn'
  BY <1>e, <1>k, JobsOwnStep DEF Base, TypeOK, Trees
<1>1. ASSUME NEW r \in Requests, NEW u \in Users, NEW g \in Place,
             \/ CreateLookup(r, u, g) \/ UploadLookup(r, u, g)
             \/ MoveLookup(r, u, g) \/ DeleteLookup(r, u, g)
      PROVE  Trees'
  <2>1. PICK op \in Ops : Looking(r, op, u, g)
    BY <1>1, Lookups
  <2>2. UNCHANGED others /\ MayUse(u, g)
    BY <2>1 DEF Looking
  <2>3. job' = [job EXCEPT ![r] = NewJob(op, u, g)]
    BY <2>1, NewJobTyped
  <2>4. \A q \in Requests : job'[q] = IF q = r THEN NewJob(op, u, g) ELSE job[q]
    BY <2>3 DEF Base, TypeOK
  <2>5. /\ job'[r].user = u /\ job'[r].folder = g /\ job'[r].files = {}
        /\ \A s \in job'[r].seen : s = g /\ g # None
    BY <2>1, <2>4 DEF NewJob, Looking
  <2>6. JobOwn(job[r])'
    BY <2>2, <2>5 DEF JobOwn, MayUse, others
  <2>7. JobsOwn'
    BY <1>k, <2>4, <2>6, JobsOwnStep DEF Trees
  <2> QED BY <1>u, <2>2, <2>7 DEF Trees
<1>2. ASSUME NEW r \in Requests, NEW g \in FolderIds, CreateCommit(r, g)
      PROVE  Trees'
  <2> DEFINE j == job[r]
  <2>1. job[r] # None /\ JobOwn(job[r]) /\ job[r] \in Job
    BY <1>2, JobTyped DEF CreateCommit, Doing, Trees, JobsOwn
  <2>2. /\ Referable(j.folder) /\ g \notin issued
        /\ folder' = [folder EXCEPT ![g] = [owner |-> j.user, parent |-> j.folder]]
        /\ UNCHANGED <<file, strays>>
        /\ job' = [job EXCEPT ![r] = None]
    BY <1>2 DEF CreateCommit, End
  <2>3. \A h \in FolderIds :
          folder'[h] = IF h = g THEN [owner |-> j.user, parent |-> j.folder]
                       ELSE folder[h]
    BY <2>2 DEF Base, TypeOK
  <2>4. folder[g] = None /\ j.folder # g
    <3>1. folder[g] = None
      BY <2>2 DEF Base, Ids
    <3>2. g # None
      BY FoldersAssumption
    <3> QED BY <2>2, <3>1, <3>2 DEF Referable
  <2>5. [owner |-> j.user, parent |-> j.folder] # None
    BY <2>1, FoldersAssumption DEF Job, Place
  <2>t. /\ \A h \in FolderIds : folder[h] # None => folder[h].parent \in Place
        /\ \A f \in FileIds : file[f] # None => file[f].folder \in Place
    BY DEF Base, TypeOK, FolderRow, FileRow
  <2>6. \A h \in Place : h # None /\ folder[h] # None => folder'[h] = folder[h]
    BY <2>3, <2>4 DEF Place
  <2>j. j.folder \in Place
    BY <2>1 DEF Job
  <2>7. NothingDangles'
    BY <2>2, <2>3, <2>5, <2>6, <2>t, <2>j DEF Trees, NothingDangles, Referable
  <2>8. MayUse(j.user, j.folder)
    BY <2>1, <2>2 DEF JobOwn, MayUse, Referable
  <2>9. TreesAreOwn'
    BY <2>2, <2>3, <2>5, <2>6, <2>8, <2>t, <2>j DEF Trees, TreesAreOwn, MayUse
  <2> QED BY <1>e, <2>2, <2>7, <2>9 DEF Trees
<1>3. ASSUME NEW r \in Requests, NEW f \in FileIds, UploadCommit(r, f)
      PROVE  Trees'
  <2>1. job[r] # None /\ JobOwn(job[r]) /\ job[r] \in Job
    BY <1>3, JobTyped DEF UploadCommit, Doing, Trees, JobsOwn
  <2>2. /\ Insert(f, job[r].user, job[r].folder) /\ UNCHANGED <<folder, strays>>
        /\ job' = [job EXCEPT ![r] = None]
    BY <1>3 DEF UploadCommit, End
  <2>3. MayUse(job[r].user, job[r].folder)
    BY <2>1, <2>2 DEF JobOwn, MayUse, Insert, Referable
  <2>4. job[r].user \in Users /\ job[r].folder \in Place
    BY <2>1 DEF Job
  <2>5. NothingDangles' /\ TreesAreOwn'
    BY <2>2, <2>3, <2>4, InsertStep
  <2> QED BY <1>e, <2>2, <2>5 DEF Trees
<1>4. ASSUME NEW u \in Users, NEW f \in FileIds, NEW g \in Place, Complete(u, f, g)
      PROVE  Trees'
  <2>1. /\ Insert(f, u, g) /\ UNCHANGED <<folder, job>>
        /\ strays \subseteq strays' /\ (MayUse(u, g) \/ f \in strays')
    BY <1>4 DEF Complete
  <2>2. NothingDangles' /\ TreesAreOwn'
    BY <2>1, InsertStep
  <2>3. JobsOwn'
    <3> SUFFICES ASSUME NEW q \in Requests, job'[q] # None
                 PROVE  JobOwn(job[q])'
      BY DEF JobsOwn
    <3> QED BY <1>k, <2>1, KnowledgeKept DEF Trees, JobsOwn
  <2> QED BY <2>2, <2>3 DEF Trees
<1>5. ASSUME NEW r \in Requests, NEW f \in FileIds, MovePick(r, f)
      PROVE  Trees'
  <2>1. /\ UNCHANGED others /\ job[r] # None /\ job[r].op = "move"
        /\ file[f] # None /\ file[f].owner = job[r].user
    BY <1>5 DEF MovePick, others, Doing
  <2>2. LET j == PickedJob(r, f)
        IN  /\ job' = [job EXCEPT ![r] = j]
            /\ j \in Job
            /\ j.op = "move" /\ j.user = job[r].user
            /\ j.folder = job[r].folder
            /\ j.files = job[r].files \cup {f}
            /\ j.dirty = IF file[f].folder = job[r].folder THEN job[r].dirty
                         ELSE job[r].dirty \cup {f}
            /\ j.todo = job[r].todo /\ j.seen = job[r].seen
    BY <1>5, PickedJobTyped
  <2>3. \A q \in Requests : job'[q] = IF q = r THEN PickedJob(r, f) ELSE job[q]
    BY <2>2 DEF Base, TypeOK
  <2>4. JobOwn(job[r])
    BY <2>1 DEF Trees, JobsOwn
  <2>5. /\ job'[r].op = "move" /\ job'[r].user = job[r].user
        /\ job'[r].folder = job[r].folder
        /\ job'[r].files = job[r].files \cup {f}
        /\ job'[r].seen = job[r].seen
    BY <2>2, <2>3
  <2>6. JobOwn(job[r])'
    BY <2>1, <2>4, <2>5 DEF JobOwn, others
  <2>7. JobsOwn'
    BY <1>k, <2>3, <2>6, JobsOwnStep DEF Trees
  <2> QED BY <1>u, <2>1, <2>7 DEF Trees
<1>6. ASSUME NEW r \in Requests, NEW g \in FolderIds, Detach(r, g)
      PROVE  Trees'
  <2>1. /\ UNCHANGED others /\ job[r] # None /\ job[r].op = "delete"
        /\ g \in job[r].todo /\ g # None
    BY <1>6, FoldersAssumption DEF Detach, others, Doing
  <2>2. /\ job' = [job EXCEPT ![r] = DetachedJob(r, g)]
        /\ DetachedJob(r, g).op = "delete"
        /\ DetachedJob(r, g).user = job[r].user
        /\ DetachedJob(r, g).folder = job[r].folder
        /\ DetachedJob(r, g).files = job[r].files \cup FilesIn(g)
        /\ DetachedJob(r, g).seen = job[r].seen \cup Subfolders(g)
    BY <1>6, DetachedJobTyped
  <2>3. \A q \in Requests : job'[q] = IF q = r THEN DetachedJob(r, g) ELSE job[q]
    BY <2>2 DEF Base, TypeOK
  <2>4. /\ JobOwn(job[r]) /\ g \in job[r].seen
    BY <2>1, JobTyped DEF Trees, JobsOwn
  <2>5. /\ job'[r].op = "delete" /\ job'[r].user = job[r].user
        /\ job'[r].folder = job[r].folder
        /\ job'[r].files = job[r].files \cup FilesIn(g)
        /\ job'[r].seen = job[r].seen \cup Subfolders(g)
    BY <2>2, <2>3
  <2>6. ASSUME NEW s \in Subfolders(g)
        PROVE  folder[s].owner = job[r].user /\ folder[s].parent = g
    <3>1. s \in FolderIds /\ folder[s] # None /\ folder[s].parent = g
      BY <2>6 DEF Subfolders
    <3>2. folder[g] # None /\ folder[g].owner = folder[s].owner
      BY <2>1, <3>1 DEF Trees, TreesAreOwn, MayUse
    <3> QED BY <2>4, <3>1, <3>2 DEF JobOwn
  <2>7. ASSUME NEW f \in FilesIn(g), f \notin strays
        PROVE  file[f].owner = job[r].user
    <3>1. f \in FileIds /\ file[f] # None /\ file[f].folder = g
      BY <2>7 DEF FilesIn
    <3>2. folder[g] # None /\ folder[g].owner = file[f].owner
      BY <2>1, <2>7, <3>1 DEF Trees, TreesAreOwn, MayUse
    <3> QED BY <2>4, <3>2 DEF JobOwn
  <2>8. JobOwn(job[r])'
    <3>1. /\ folder' = folder /\ file' = file /\ strays' = strays
      BY <2>1 DEF others
    <3>2. \A s \in job'[r].seen : folder[s] # None =>
            /\ folder[s].owner = job[r].user
            /\ s = job[r].folder \/ folder[s].parent \in job'[r].seen
      BY <2>4, <2>5, <2>6 DEF JobOwn
    <3>3. \A f \in job'[r].files : file[f] # None =>
            file[f].owner = job[r].user \/ f \in strays
      BY <2>1, <2>4, <2>5, <2>7 DEF JobOwn
    <3> QED BY <2>4, <2>5, <3>1, <3>2, <3>3 DEF JobOwn
  <2>9. JobsOwn'
    BY <1>k, <2>3, <2>8, JobsOwnStep DEF Trees
  <2> QED BY <1>u, <2>1, <2>9 DEF Trees
<1>7. ASSUME NEW r \in Requests, MoveCommit(r)
      PROVE  Trees'
  <2>1. job[r] # None /\ JobOwn(job[r])
    BY <1>7 DEF MoveCommit, Doing, Trees, JobsOwn
  <2>2. /\ UNCHANGED <<folder, strays>> /\ job' = [job EXCEPT ![r] = None]
    BY <1>7 DEF MoveCommit, End
  <2>3. /\ job[r].op = "move" /\ job[r].dirty \subseteq job[r].files
        /\ \A f \in FileIds : file'[f] # None => file[f] # None
        /\ \A f \in FileIds :
             IF f \in job[r].dirty
             THEN /\ file[f] # None /\ Referable(job[r].folder)
                  /\ file'[f].owner = file[f].owner
                  /\ file'[f].folder = job[r].folder
             ELSE file'[f] = file[f]
    BY <1>7, <2>1, MovedTyped, JobTyped
  <2>4. NothingDangles'
    BY <2>2, <2>3 DEF Trees, NothingDangles, Referable
  <2>5. ASSUME NEW f \in FileIds, f \in job[r].dirty
        PROVE  MayUse(file'[f].owner, file'[f].folder)
    BY <2>1, <2>3, <2>5 DEF JobOwn, MayUse, Referable
  <2>6. TreesAreOwn'
    BY <2>2, <2>3, <2>5 DEF Trees, TreesAreOwn, MayUse
  <2> QED BY <1>e, <2>2, <2>4, <2>6 DEF Trees
<1>8. ASSUME NEW r \in Requests, DeleteCommit(r)
      PROVE  Trees'
  <2>1. job' = [job EXCEPT ![r] = None]
    BY <1>8 DEF DeleteCommit, End
  <2> QED BY <1>8, <1>e, <2>1, DeleteStep DEF Trees
<1>9. ASSUME NEW r \in Requests, Fail(r)
      PROVE  Trees'
  BY <1>9, <1>e, <1>u DEF Fail, End, others, Trees
<1>10. ASSUME NEW f \in FileIds, Purge(f)
       PROVE  Trees'
  <2>1. UNCHANGED <<folder, job, strays>>
    BY <1>10 DEF Purge
  <2>2. \A e \in FileIds : file'[e] = IF e = f THEN None ELSE file[e]
    BY <1>10 DEF Purge, Base, TypeOK
  <2>3. NothingDangles' /\ TreesAreOwn'
    BY <2>1, <2>2 DEF Trees, NothingDangles, TreesAreOwn, Referable, MayUse
  <2>4. JobsOwn'
    BY <1>k, <2>1, KnowledgeKept DEF Trees, JobsOwn
  <2> QED BY <2>3, <2>4 DEF Trees
<1>11. CASE UNCHANGED vars
  <2>1. UNCHANGED others /\ job' = job
    BY <1>11 DEF vars, others
  <2>2. JobsOwn'
    BY <1>k, <2>1, KnowledgeKept DEF Trees, JobsOwn
  <2> QED BY <1>u, <2>1, <2>2 DEF Trees
<1> QED BY <1>1, <1>2, <1>3, <1>4, <1>5, <1>6, <1>7, <1>8, <1>9, <1>10, <1>11
     DEF Next

LEMMA TreesInit == Init => Trees
BY DEF Init, Trees, NothingDangles, TreesAreOwn, JobsOwn

LEMMA TreesInvariant == Spec => [](Base /\ Trees)
<1>1. Init => Base /\ Trees
  BY BaseInit, TreesInit
<1>2. Base /\ Trees /\ [Next]_vars => (Base /\ Trees)'
  BY BaseStep, TreesStep
<1> QED BY <1>1, <1>2, PTL DEF Spec

\* Whatever runs while a folder is deleted, nothing is left that lies in a folder
\* which is gone.
THEOREM NothingEverDangles == Spec => []NothingDangles
BY TreesInvariant, PTL DEF Trees

\* A user's tree is their own, but for files that a complete put elsewhere.
THEOREM TreesStayOwn == Spec => []TreesAreOwn
BY TreesInvariant, PTL DEF Trees

-----------------------------------------------------------------------------
\* A folder that a delete takes is the one deleted, or lay in one it takes: a
\* folder of the visited part does because the visit came there through its
\* parent, and the rest of the cascade is the least that follows.
LEMMA GoneHangsTogether ==
  ASSUME Base, Trees, NEW r \in Requests, job[r] # None,
         NEW g \in Cascade(job[r].seen), folder[g] # None, g # job[r].folder
  PROVE  folder[g].parent \in Cascade(job[r].seen)
<1> DEFINE gone == Cascade(job[r].seen)
<1>1. job[r].seen \in SUBSET FolderIds /\ JobOwn(job[r])
  BY JobTyped DEF Job, Trees, JobsOwn
<1>2. /\ job[r].seen \subseteq gone /\ gone \subseteq FolderIds
      /\ \A h \in gone : Subfolders(h) \subseteq gone
      /\ \A hs \in SUBSET FolderIds :
           job[r].seen \subseteq hs /\ (\A h \in hs : Subfolders(h) \subseteq hs)
             => gone \subseteq hs
  BY <1>1, CascadeIsLeast
<1>3. g \in gone
  OBVIOUS
<1> HIDE DEF gone
<1>4. CASE g \in job[r].seen
  BY <1>1, <1>2, <1>4 DEF JobOwn, gone
<1>5. CASE g \notin job[r].seen
  <2> SUFFICES ASSUME folder[g].parent \notin gone
               PROVE  FALSE
    BY DEF gone
  <2> DEFINE hs == gone \ {g}
  <2>1. job[r].seen \subseteq hs /\ hs \in SUBSET FolderIds
    BY <1>2, <1>5
  <2>2. ASSUME NEW h \in hs, NEW s \in Subfolders(h)
        PROVE  s \in hs
    <3>1. s \in gone /\ folder[s].parent \in gone
      BY <1>2, <2>2 DEF Subfolders
    <3> QED BY <3>1
  <2>3. gone \subseteq hs
    BY <1>2, <2>1, <2>2
  <2> QED BY <1>3, <2>3
<1> QED BY <1>4, <1>5

Gentle ==
  folder' # folder =>
    /\ \A f \in FileIds : file[f] # None =>
         file'[f] \in {file[f], [file[f] EXCEPT !.folder = None]}
    /\ \A g \in FolderIds : folder[g] # None /\ folder'[g] = None =>
         \/ \E r \in Requests : Doing(r, "delete") /\ g = job[r].folder
         \/ Referable(folder[g].parent) /\ folder'[folder[g].parent] = None

LEMMA GentleStep ==
  ASSUME Base, Trees, [Next]_vars
  PROVE  Gentle
<1>1. folder' = folder => Gentle
  BY DEF Gentle
<1>2. ASSUME NEW r \in Requests, NEW g \in FolderIds, CreateCommit(r, g)
      PROVE  Gentle
  <2>1. file' = file /\ g \notin issued
    BY <1>2 DEF CreateCommit
  <2>2. folder[g] = None /\ \A h \in FolderIds \ {g} : folder'[h] = folder[h]
    BY <1>2, <2>1 DEF CreateCommit, Base, TypeOK, Ids
  <2> QED BY <2>1, <2>2 DEF Gentle
<1>3. ASSUME NEW r \in Requests, DeleteCommit(r)
      PROVE  Gentle
  <2> DEFINE gone == Cascade(job[r].seen)
  <2>1. job[r] # None /\ Doing(r, "delete") /\ job[r].seen \in SUBSET FolderIds
    BY <1>3, JobTyped DEF DeleteCommit, Doing, Job
  <2>2. gone \subseteq FolderIds
    BY <2>1, CascadeIsLeast
  <2>3. \A g \in gone : folder[g] # None /\ g # job[r].folder
                          => folder[g].parent \in gone
    BY <2>1, GoneHangsTogether
  <2>4. /\ \A g \in FolderIds : folder'[g] = IF g \in gone THEN None ELSE folder[g]
        /\ \A f \in FileIds : file'[f] \in {file[f], [file[f] EXCEPT !.folder = None]}
    BY <1>3, ReleasedTyped
  <2> HIDE DEF gone
  <2>5. ASSUME NEW g \in FolderIds, folder[g] # None, folder'[g] = None,
               g # job[r].folder
        PROVE  Referable(folder[g].parent) /\ folder'[folder[g].parent] = None
    <3>1. folder[g].parent \in gone
      BY <2>3, <2>4, <2>5
    <3>2. Referable(folder[g].parent)
      BY <2>5 DEF Trees, NothingDangles
    <3> QED BY <2>2, <2>4, <3>1, <3>2
  <2> QED BY <2>1, <2>4, <2>5 DEF Gentle
<1>4. ASSUME NEW r \in Requests, NEW u \in Users, NEW g \in Place,
             \/ CreateLookup(r, u, g) \/ UploadLookup(r, u, g)
             \/ MoveLookup(r, u, g) \/ DeleteLookup(r, u, g)
      PROVE  Gentle
  BY <1>1, <1>4 DEF CreateLookup, UploadLookup, MoveLookup, DeleteLookup
<1> QED BY <1>1, <1>2, <1>3, <1>4
     DEF Next, vars, Detach, UploadCommit, MovePick, MoveCommit, Fail, Complete, Purge

\* Deleting a folder loses no file, and takes no folder from outside its tree.
THEOREM DeleteAlwaysGentle == Spec => DeleteIsGentle
<1>1. Base /\ Trees /\ [Next]_vars => [Gentle]_vars
  BY GentleStep
<1>2. Spec => [][Gentle]_vars
  BY <1>1, TreesInvariant, PTL DEF Spec
<1> QED BY <1>2 DEF DeleteIsGentle, Gentle

-----------------------------------------------------------------------------
\* What the one job of a patient user may rely on: the folder it was given is
\* there until it commits; files it has detached lie in what it will delete; files
\* that it found where it would move them are still there.
PatientJob(r) ==
  /\ \A q \in Requests : job[q] # None /\ job[q].user = job[r].user => q = r
  /\ job[r].op # "delete" => Referable(job[r].folder)
  /\ job[r].op = "delete" =>
       \A f \in job[r].dirty \ strays : file[f] # None => file[f].folder \in job[r].seen
  /\ job[r].op = "move" =>
       \A f \in job[r].files \ (job[r].dirty \cup strays) :
         file[f] # None => file[f].folder = job[r].folder

PatientJobs ==
  \A r \in Requests : job[r] # None /\ job[r].user \in patient => PatientJob(r)

\* Of a user whose job does not step, folders stay, and so does what lies where.
Untouched(u) ==
  /\ \A g \in FolderIds :
       folder[g] # None /\ folder[g].owner = u => folder'[g] = folder[g]
  /\ \A f \in FileIds \ strays :
       file[f] # None /\ file[f].owner = u /\ file'[f] # None
         => file'[f].folder = file[f].folder

LEMMA PatientFixed == [Next]_vars => patient' = patient
BY DEF Next, vars, CreateLookup, UploadLookup, MoveLookup, DeleteLookup,
       CreateCommit, Detach, UploadCommit, MovePick, MoveCommit, DeleteCommit,
       Fail, Complete, Purge

LEMMA OthersLeaveAlone ==
  ASSUME Base, Trees, [Next]_vars, NEW q \in Requests, job[q] # None,
         job'[q] = job[q], PatientJob(q)
  PROVE  Untouched(job[q].user)
<1> DEFINE u == job[q].user
<1>1. folder' = folder /\ file' = file => Untouched(u)
  BY DEF Untouched
<1>2. ASSUME NEW r \in Requests, NEW g \in FolderIds, CreateCommit(r, g)
      PROVE  Untouched(u)
  <2>1. folder[g] = None /\ file' = file
    BY <1>2 DEF CreateCommit, Base, Ids
  <2>2. \A h \in FolderIds \ {g} : folder'[h] = folder[h]
    BY <1>2 DEF CreateCommit, Base, TypeOK
  <2> QED BY <2>1, <2>2 DEF Untouched
<1>3. ASSUME NEW v \in Users, NEW f \in FileIds, NEW g \in Place, Insert(f, v, g),
             folder' = folder
      PROVE  Untouched(u)
  <2>1. \A e \in FileIds \ {f} : file'[e] = file[e]
    BY <1>3 DEF Insert, Base, TypeOK
  <2>2. file[f] = None
    BY <1>3, InsertTyped
  <2> QED BY <1>3, <2>1, <2>2 DEF Untouched
<1>4. ASSUME NEW r \in Requests, NEW f \in FileIds, UploadCommit(r, f)
      PROVE  Untouched(u)
  <2>1. job[r].user \in Users /\ job[r].folder \in Place
    BY <1>4, JobTyped DEF UploadCommit, Doing, Job
  <2> QED BY <1>3, <1>4, <2>1 DEF UploadCommit
<1>5. ASSUME NEW v \in Users, NEW f \in FileIds, NEW g \in Place, Complete(v, f, g)
      PROVE  Untouched(u)
  BY <1>3, <1>5 DEF Complete
<1>6. ASSUME NEW r \in Requests, MoveCommit(r)
      PROVE  Untouched(u)
  <2>1. job[r] # None /\ job'[r] = None /\ folder' = folder
    BY <1>6 DEF MoveCommit, Doing, End, Base, TypeOK
  <2>2. r # q /\ job[r].user # u
    BY <2>1 DEF PatientJob
  <2>3. \A f \in job[r].dirty : file[f] # None => file[f].owner = job[r].user
    <3>1. JobOwn(job[r]) /\ job[r].op = "move" /\ job[r].dirty \subseteq job[r].files
      BY <1>6, <2>1, JobTyped DEF MoveCommit, Doing, Trees, JobsOwn
    <3> QED BY <3>1 DEF JobOwn
  <2>4. \A f \in FileIds : f \notin job[r].dirty => file'[f] = file[f]
    BY <1>6, MovedTyped
  <2> QED BY <2>1, <2>2, <2>3, <2>4 DEF Untouched
<1>7. ASSUME NEW r \in Requests, DeleteCommit(r)
      PROVE  Untouched(u)
  <2> DEFINE gone == Cascade(job[r].seen)
  <2>1. job[r] # None /\ job'[r] = None
    BY <1>7 DEF DeleteCommit, Doing, End, Base, TypeOK
  <2>2. r # q /\ job[r].user # u
    BY <2>1 DEF PatientJob
  <2>3. \A g \in gone : folder[g] # None => folder[g].owner = job[r].user
    BY <2>1, GoneIsOwn
  <2>4. gone \subseteq FolderIds
    BY <2>1, JobTyped, CascadeIsLeast DEF Job
  <2>5. /\ \A g \in FolderIds : folder'[g] = IF g \in gone THEN None ELSE folder[g]
        /\ \A f \in FileIds : f \notin job[r].dirty
             /\ (file[f] # None => file[f].folder \notin gone) => file'[f] = file[f]
    BY <1>7, ReleasedTyped
  <2> HIDE DEF gone
  <2>6. ASSUME NEW f \in FileIds \ strays, file[f] # None, file[f].owner = u
        PROVE  file'[f] = file[f]
    <3>1. f \notin job[r].dirty
      <4>1. JobOwn(job[r]) /\ job[r].dirty \subseteq job[r].files
        BY <2>1, JobTyped DEF Trees, JobsOwn
      <4> QED BY <2>2, <2>6, <4>1 DEF JobOwn
    <3>2. file[f].folder \notin gone
      <4>1. MayUse(u, file[f].folder)
        BY <2>6 DEF Trees, TreesAreOwn
      <4> QED BY <2>2, <2>3, <2>4, <4>1, FoldersAssumption DEF MayUse
    <3> QED BY <2>5, <3>1, <3>2
  <2> QED BY <2>2, <2>3, <2>5, <2>6 DEF Untouched
<1>8. ASSUME NEW f \in FileIds, Purge(f)
      PROVE  Untouched(u)
  BY <1>8 DEF Purge, Untouched, Base, TypeOK
<1>9. ASSUME NEW r \in Requests, NEW v \in Users, NEW g \in Place,
             \/ CreateLookup(r, v, g) \/ UploadLookup(r, v, g)
             \/ MoveLookup(r, v, g) \/ DeleteLookup(r, v, g)
      PROVE  Untouched(u)
  BY <1>1, <1>9 DEF CreateLookup, UploadLookup, MoveLookup, DeleteLookup
<1>10. ASSUME NEW r \in Requests, NEW f \in FileIds, MovePick(r, f)
       PROVE  Untouched(u)
  BY <1>1, <1>10 DEF MovePick
<1>11. ASSUME NEW r \in Requests, NEW g \in FolderIds, Detach(r, g)
       PROVE  Untouched(u)
  BY <1>1, <1>11 DEF Detach
<1>12. ASSUME NEW r \in Requests, Fail(r)
       PROVE  Untouched(u)
  BY <1>1, <1>12 DEF Fail
<1>13. CASE UNCHANGED vars
  BY <1>1, <1>13 DEF vars
<1> QED BY <1>2, <1>4, <1>5, <1>6, <1>7, <1>8, <1>9, <1>10, <1>11, <1>12, <1>13
     DEF Next

\* A job is new, and then no job of a patient user was under way, or is still its
\* user's.
LEMMA JobsOfUsers ==
  ASSUME Base, [Next]_vars, NEW p \in Requests, job'[p] # None
  PROVE  \/ job[p] # None /\ job'[p].user = job[p].user
         \/ /\ job'[p].user \in patient =>
                 \A q \in Requests : job[q] # None => job[q].user # job'[p].user
            /\ \A q \in Requests \ {p} : job'[q] = job[q]
<1>1. ASSUME NEW r \in Requests, NEW u \in Users, NEW g \in Place,
             \/ CreateLookup(r, u, g) \/ UploadLookup(r, u, g)
             \/ MoveLookup(r, u, g) \/ DeleteLookup(r, u, g),
             p = r
      PROVE  /\ job'[p].user \in patient =>
                  \A q \in Requests : job[q] # None => job[q].user # job'[p].user
             /\ \A q \in Requests \ {p} : job'[q] = job[q]
  <2>1. PICK op \in Ops : Looking(r, op, u, g)
    BY <1>1, Lookups
  <2>a. job' = [job EXCEPT ![r] = NewJob(op, u, g)]
    BY <2>1, NewJobTyped
  <2>b. u \in patient => \A q \in Requests : job[q] # None => job[q].user # u
    BY <2>1 DEF Looking, Begin
  <2>2. /\ job' = [job EXCEPT ![r] = NewJob(op, u, g)]
        /\ u \in patient => \A q \in Requests : job[q] # None => job[q].user # u
    BY <2>a, <2>b
  <2>3. job'[r] = NewJob(op, u, g) /\ \A q \in Requests \ {r} : job'[q] = job[q]
    BY <2>2 DEF Base, TypeOK
  <2>4. job'[r].user = u
    BY <2>3 DEF NewJob
  <2> QED BY <1>1, <2>2, <2>3, <2>4
<1>2. ASSUME NEW r \in Requests, NEW u \in Users, NEW g \in Place,
             \/ CreateLookup(r, u, g) \/ UploadLookup(r, u, g)
             \/ MoveLookup(r, u, g) \/ DeleteLookup(r, u, g),
             p # r
      PROVE  job'[p] = job[p]
  BY <1>2 DEF CreateLookup, UploadLookup, MoveLookup, DeleteLookup, Begin, Base,
              TypeOK
<1>3. ASSUME NEW r \in Requests, NEW f \in FileIds, MovePick(r, f)
      PROVE  job[p] # None /\ job'[p].user = job[p].user
  <2>1. LET j == PickedJob(r, f)
        IN  /\ job' = [job EXCEPT ![r] = j]
            /\ j \in Job
            /\ j.op = "move" /\ j.user = job[r].user
            /\ j.folder = job[r].folder
            /\ j.files = job[r].files \cup {f}
            /\ j.dirty = IF file[f].folder = job[r].folder THEN job[r].dirty
                         ELSE job[r].dirty \cup {f}
            /\ j.todo = job[r].todo /\ j.seen = job[r].seen
    BY <1>3, PickedJobTyped
  <2> QED BY <1>3, <2>1 DEF MovePick, Doing, Base, TypeOK
<1>4. ASSUME NEW r \in Requests, NEW g \in FolderIds, Detach(r, g)
      PROVE  job[p] # None /\ job'[p].user = job[p].user
  <2>1. LET j == DetachedJob(r, g)
        IN  /\ job' = [job EXCEPT ![r] = j]
            /\ j \in Job
            /\ j.op = "delete" /\ j.user = job[r].user
            /\ j.folder = job[r].folder
            /\ j.files = job[r].files \cup FilesIn(g)
            /\ j.dirty = job[r].dirty \cup FilesIn(g)
            /\ j.todo = (job[r].todo \ {g}) \cup Subfolders(g)
            /\ j.seen = job[r].seen \cup Subfolders(g)
    BY <1>4, DetachedJobTyped
  <2> QED BY <1>4, <2>1 DEF Detach, Doing, Base, TypeOK
<1>5. ASSUME NEW r \in Requests, job' = [job EXCEPT ![r] = None]
      PROVE  job'[p] = job[p]
  BY <1>5 DEF Base, TypeOK
<1>6. CASE UNCHANGED vars
  BY <1>6 DEF vars
<1> QED BY <1>1, <1>2, <1>3, <1>4, <1>5, <1>6
     DEF Next, CreateCommit, UploadCommit, MoveCommit, DeleteCommit, Fail, End,
         Complete, Purge

\* A patient user's job that does not step may go on relying on what it did.
LEMMA PatientJobKept ==
  ASSUME Base, Trees, [Next]_vars, NEW q \in Requests, job[q] # None,
         job'[q] = job[q], job[q].user \in patient, PatientJob(q)
  PROVE  PatientJob(q)'
<1>1. Untouched(job[q].user) /\ RowsKept /\ patient' = patient
  BY OthersLeaveAlone, RowsAreKept, PatientFixed
<1>2. /\ JobOwn(job[q]) /\ job[q] \in Job
      /\ job[q].files \subseteq issued /\ job[q].dirty \subseteq job[q].files
  BY JobTyped DEF Trees, JobsOwn
<1>3. ASSUME NEW p \in Requests, job'[p] # None, job'[p].user = job[q].user
      PROVE  p = q
  <2>1. CASE job[p] # None /\ job'[p].user = job[p].user
    BY <1>3, <2>1 DEF PatientJob
  <2>2. CASE /\ job'[p].user \in patient =>
                  \A r \in Requests : job[r] # None => job[r].user # job'[p].user
    BY <1>3, <2>2
  <2> QED BY <1>3, <2>1, <2>2, JobsOfUsers
<1>4. ASSUME job[q].op # "delete", job[q].folder # None
      PROVE  folder'[job[q].folder] # None
  <2>1. job[q].folder \in FolderIds /\ folder[job[q].folder] # None
    BY <1>2, <1>4 DEF PatientJob, Referable, Job, Place
  <2> QED BY <1>1, <1>2, <1>4, <2>1 DEF JobOwn, Untouched
<1>5. ASSUME NEW f \in job[q].files \ strays', file'[f] # None
      PROVE  file[f] # None /\ f \notin strays
             /\ (f \notin strays /\ file[f].owner = job[q].user
                   => file'[f].folder = file[f].folder)
  <2>1. f \in FileIds /\ f \in issued /\ f \notin strays
    BY <1>1, <1>2, <1>5 DEF Job, RowsKept
  <2>2. file[f] # None
    BY <1>1, <1>5, <2>1 DEF RowsKept
  <2> QED BY <1>1, <1>5, <2>1, <2>2 DEF Untouched
<1>6. ASSUME NEW f \in job[q].files \ strays', file'[f] # None
      PROVE  file[f] # None /\ f \notin strays /\ file'[f].folder = file[f].folder
  BY <1>2, <1>5, <1>6 DEF JobOwn
<1>7. ASSUME job[q].op = "delete", NEW f \in job[q].dirty \ strays', file'[f] # None
      PROVE  file'[f].folder \in job[q].seen
  BY <1>2, <1>6, <1>7 DEF PatientJob
<1>8. ASSUME job[q].op = "move",
             NEW f \in job[q].files \ (job[q].dirty \cup strays'), file'[f] # None
      PROVE  file'[f].folder = job[q].folder
  BY <1>6, <1>8 DEF PatientJob
<1> QED BY <1>3, <1>4, <1>7, <1>8 DEF PatientJob, Referable

LEMMA PatientJobsStep ==
  ASSUME Base, Trees, PatientJobs, [Next]_vars
  PROVE  PatientJobs'
<1>p. patient' = patient
  BY PatientFixed
<1>o. ASSUME NEW r \in Requests, \A q \in Requests \ {r} : job'[q] = job[q],
             job'[r] # None /\ job'[r].user \in patient => PatientJob(r)'
      PROVE  PatientJobs'
  <2> SUFFICES ASSUME NEW q \in Requests, job'[q] # None, job'[q].user \in patient
               PROVE  PatientJob(q)'
    BY <1>p DEF PatientJobs
  <2>1. CASE q = r
    BY <1>o, <2>1
  <2>2. CASE q # r
    BY <1>o, <2>2, PatientJobKept DEF PatientJobs
  <2> QED BY <2>1, <2>2
<1>e. ASSUME NEW r \in Requests, job' = [job EXCEPT ![r] = None]
      PROVE  PatientJobs'
  BY <1>e, <1>o DEF Base, TypeOK
<1>s. ASSUME job' = job
      PROVE  PatientJobs'
  <2> SUFFICES ASSUME NEW q \in Requests, job'[q] # None, job'[q].user \in patient
               PROVE  PatientJob(q)'
    BY <1>p DEF PatientJobs
  <2> QED BY <1>s, PatientJobKept DEF PatientJobs
<1>1. ASSUME NEW r \in Requests, NEW u \in Users, NEW g \in Place,
             \/ CreateLookup(r, u, g) \/ UploadLookup(r, u, g)
             \/ MoveLookup(r, u, g) \/ DeleteLookup(r, u, g)
      PROVE  PatientJobs'
  <2>1. PICK op \in Ops : Looking(r, op, u, g)
    BY <1>1, Lookups
  <2>2. job' = [job EXCEPT ![r] = NewJob(op, u, g)]
    BY <2>1, NewJobTyped
  <2>3. /\ u \in patient => \A q \in Requests : job[q] # None => job[q].user # u
        /\ MayUse(u, g) /\ UNCHANGED others
    BY <2>1 DEF Looking, Begin
  <2>4. job'[r] = NewJob(op, u, g) /\ \A q \in Requests \ {r} : job'[q] = job[q]
    BY <2>2 DEF Base, TypeOK
  <2>5. /\ job'[r].user = u /\ job'[r].folder = g
        /\ job'[r].files = {} /\ job'[r].dirty = {}
    BY <2>4 DEF NewJob
  <2>6. ASSUME u \in patient
        PROVE  PatientJob(r)'
    BY <2>3, <2>4, <2>5, <2>6 DEF PatientJob, Referable, MayUse, others
  <2> QED BY <1>o, <2>4, <2>5, <2>6
<1>2. ASSUME NEW r \in Requests, NEW f \in FileIds, MovePick(r, f)
      PROVE  PatientJobs'
  <2>1. LET j == PickedJob(r, f)
        IN  /\ job' = [job EXCEPT ![r] = j]
            /\ j \in Job
            /\ j.op = "move" /\ j.user = job[r].user
            /\ j.folder = job[r].folder
            /\ j.files = job[r].files \cup {f}
            /\ j.dirty = IF file[f].folder = job[r].folder THEN job[r].dirty
                         ELSE job[r].dirty \cup {f}
            /\ j.todo = job[r].todo /\ j.seen = job[r].seen
    BY <1>2, PickedJobTyped
  <2>2. /\ job[r] # None /\ job[r].op = "move" /\ UNCHANGED others
    BY <1>2 DEF MovePick, Doing, others
  <2>3. \A q \in Requests : job'[q] = IF q = r THEN PickedJob(r, f) ELSE job[q]
    BY <2>1 DEF Base, TypeOK
  <2>4. /\ job'[r].op = "move" /\ job'[r].user = job[r].user
        /\ job'[r].folder = job[r].folder
        /\ job'[r].files = job[r].files \cup {f}
        /\ job'[r].dirty = IF file[f].folder = job[r].folder THEN job[r].dirty
                           ELSE job[r].dirty \cup {f}
    BY <2>1, <2>3
  <2>5. ASSUME job[r].user \in patient
        PROVE  PatientJob(r)'
    <3>1. PatientJob(r)
      BY <2>2, <2>5 DEF PatientJobs
    <3>2. \A q \in Requests : job'[q] # None /\ job'[q].user = job'[r].user => q = r
      BY <2>3, <2>4, <3>1 DEF PatientJob
    <3>3. \A e \in job'[r].files \ (job'[r].dirty \cup strays) :
            file[e] # None => file[e].folder = job[r].folder
      BY <2>2, <2>4, <3>1 DEF PatientJob
    <3>4. Referable(job[r].folder)
      BY <2>2, <3>1 DEF PatientJob
    <3> QED BY <2>2, <2>4, <3>2, <3>3, <3>4 DEF PatientJob, Referable, others
  <2> QED BY <1>o, <2>3, <2>4, <2>5
<1>3. ASSUME NEW r \in Requests, NEW g \in FolderIds, Detach(r, g)
      PROVE  PatientJobs'
  <2>1. LET j == DetachedJob(r, g)
        IN  /\ job' = [job EXCEPT ![r] = j]
            /\ j \in Job
            /\ j.op = "delete" /\ j.user = job[r].user
            /\ j.folder = job[r].folder
            /\ j.files = job[r].files \cup FilesIn(g)
            /\ j.dirty = job[r].dirty \cup FilesIn(g)
            /\ j.todo = (job[r].todo \ {g}) \cup Subfolders(g)
            /\ j.seen = job[r].seen \cup Subfolders(g)
    BY <1>3, DetachedJobTyped
  <2>2. /\ job[r] # None /\ job[r].op = "delete" /\ UNCHANGED others
        /\ g \in job[r].todo
    BY <1>3 DEF Detach, Doing, others
  <2>3. \A q \in Requests : job'[q] = IF q = r THEN DetachedJob(r, g) ELSE job[q]
    BY <2>1 DEF Base, TypeOK
  <2>4. /\ job'[r].op = "delete" /\ job'[r].user = job[r].user
        /\ job'[r].folder = job[r].folder
        /\ job'[r].dirty = job[r].dirty \cup FilesIn(g)
        /\ job'[r].seen = job[r].seen \cup Subfolders(g)
    BY <2>1, <2>3
  <2>5. ASSUME job[r].user \in patient
        PROVE  PatientJob(r)'
    <3>1. PatientJob(r) /\ g \in job[r].seen
      BY <2>2, <2>5, JobTyped DEF PatientJobs
    <3>2. \A q \in Requests : job'[q] # None /\ job'[q].user = job'[r].user => q = r
      BY <2>3, <2>4, <3>1 DEF PatientJob
    <3>3. \A e \in job'[r].dirty \ strays :
            file[e] # None => file[e].folder \in job'[r].seen
      BY <2>2, <2>4, <3>1 DEF PatientJob, FilesIn
    <3> QED BY <2>2, <2>4, <3>2, <3>3 DEF PatientJob, others
  <2> QED BY <1>o, <2>3, <2>4, <2>5
<1>4. CASE UNCHANGED vars
  BY <1>4, <1>s DEF vars
<1> QED BY <1>e, <1>s, <1>1, <1>2, <1>3, <1>4
     DEF Next, CreateCommit, UploadCommit, MoveCommit, DeleteCommit, Fail, End,
         Complete, Purge

-----------------------------------------------------------------------------
\* A file that stays in a folder that stays is where it was put.
LEMMA PlacedStays ==
  ASSUME Base, PlacementKept, RowsKept,
         NEW f \in FileIds \ strays, file[f] # None, file[f].owner \in patient,
         file'[f].folder = file[f].folder, placed'[f] = placed[f],
         file[f].folder # None => folder'[file[f].folder] # None
  PROVE  file'[f].folder =
           IF placed'[f] # None => folder'[placed'[f]] # None
           THEN placed'[f] ELSE None
<1>1. /\ placed[f] \in Place /\ placed[f] \in issued \cup {None}
      /\ file[f].folder = IF Referable(placed[f]) THEN placed[f] ELSE None
  BY DEF Base, TypeOK, Ids, PlacementKept
<1>2. CASE placed[f] = None
  BY <1>1, <1>2
<1>3. CASE placed[f] # None /\ folder[placed[f]] # None
  BY <1>1, <1>3 DEF Referable
<1>4. CASE placed[f] # None /\ folder[placed[f]] = None
  <2>1. folder'[placed[f]] = None
    BY <1>1, <1>4 DEF RowsKept, Place
  <2> QED BY <1>1, <1>4, <2>1 DEF Referable
<1> QED BY <1>2, <1>3, <1>4

LEMMA PlacementStep ==
  ASSUME Base, Trees, PatientJobs, PlacementKept, [Next]_vars
  PROVE  PlacementKept'
<1>k. RowsKept /\ patient' = patient
  BY RowsAreKept, PatientFixed
<1>g. ASSUME \A f \in FileIds \ strays' :
               file'[f] # None /\ file'[f].owner \in patient =>
                 file'[f].folder =
                   IF placed'[f] # None => folder'[placed'[f]] # None
                   THEN placed'[f] ELSE None
      PROVE  PlacementKept'
  BY <1>g, <1>k DEF PlacementKept, Referable
\* Where a file is that is neither new nor moved.
<1>s. ASSUME NEW f \in FileIds \ strays', file[f] # None, file[f].owner \in patient,
             file'[f] = file[f], placed'[f] = placed[f],
             folder' = folder
      PROVE  file'[f].folder =
               IF placed'[f] # None => folder'[placed'[f]] # None
               THEN placed'[f] ELSE None
  <2>1. f \notin strays
    BY <1>k DEF RowsKept
  <2>2. file[f].folder # None => folder'[file[f].folder] # None
    BY <1>s DEF Trees, NothingDangles, Referable
  <2> QED BY <1>k, <1>s, <2>1, <2>2, PlacedStays
<1>u. UNCHANGED others => PlacementKept'
  BY DEF others, PlacementKept, Referable
<1>1. ASSUME NEW r \in Requests, NEW g \in FolderIds, CreateCommit(r, g)
      PROVE  PlacementKept'
  <2>1. UNCHANGED <<file, placed, strays>> /\ g \notin issued
    BY <1>1 DEF CreateCommit
  <2>2. \A h \in FolderIds \ {g} : folder'[h] = folder[h]
    BY <1>1 DEF CreateCommit, Base, TypeOK
  <2>3. folder[g] = None
    BY <2>1 DEF Base, Ids
  <2> SUFFICES ASSUME NEW f \in FileIds \ strays, file[f] # None,
                      file[f].owner \in patient
               PROVE  file[f].folder =
                        IF placed[f] # None => folder'[placed[f]] # None
                        THEN placed[f] ELSE None
    BY <1>g, <2>1
  <2>4. file[f].folder # None => folder'[file[f].folder] # None
    <3>1. file[f].folder \in Place
      BY DEF Base, TypeOK, FileRow
    <3>2. file[f].folder # None => folder[file[f].folder] # None
      BY DEF Trees, NothingDangles, Referable
    <3> QED BY <2>2, <2>3, <3>1, <3>2 DEF Place
  <2> QED BY <1>k, <2>1, <2>4, PlacedStays
<1>2. ASSUME NEW f \in FileIds, NEW u \in Users, NEW g \in Place, Insert(f, u, g),
             folder' = folder, strays \subseteq strays'
      PROVE  PlacementKept'
  <2>1. /\ file[f] = None
        /\ file' = [file EXCEPT ![f] = [owner |-> u, folder |-> g]]
        /\ u \in patient => \A e \in FileIds :
             placed'[e] = IF e = f THEN g ELSE placed[e]
        /\ u \notin patient => placed' = placed
    BY <1>2, InsertTyped
  <2>2. \A e \in FileIds : file'[e] = IF e = f THEN [owner |-> u, folder |-> g]
                                      ELSE file[e]
    BY <2>1 DEF Base, TypeOK
  <2>3. Referable(g)
    BY <1>2 DEF Insert
  <2> SUFFICES ASSUME NEW e \in FileIds \ strays', file'[e] # None,
                      file'[e].owner \in patient
               PROVE  file'[e].folder =
                        IF placed'[e] # None => folder'[placed'[e]] # None
                        THEN placed'[e] ELSE None
    BY <1>g
  <2>4. CASE e = f
    <3>1. file'[e].owner = u /\ file'[e].folder = g
      BY <2>2, <2>4
    <3>2. placed'[e] = g
      BY <2>1, <2>4, <3>1
    <3> QED BY <1>2, <2>3, <3>1, <3>2 DEF Referable
  <2>5. CASE e # f
    <3>1. file'[e] = file[e] /\ placed'[e] = placed[e]
      BY <2>1, <2>2, <2>5
    <3> QED BY <1>2, <1>s, <3>1
  <2> QED BY <2>4, <2>5
<1>3. ASSUME NEW r \in Requests, NEW f \in FileIds, UploadCommit(r, f)
      PROVE  PlacementKept'
  <2>1. job[r].user \in Users /\ job[r].folder \in Place
    BY <1>3, JobTyped DEF UploadCommit, Doing, Job
  <2> QED BY <1>2, <1>3, <2>1 DEF UploadCommit
<1>4. ASSUME NEW u \in Users, NEW f \in FileIds, NEW g \in Place, Complete(u, f, g)
      PROVE  PlacementKept'
  BY <1>2, <1>4 DEF Complete
<1>5. ASSUME NEW r \in Requests, MoveCommit(r)
      PROVE  PlacementKept'
  <2> DEFINE j == job[r]
  <2>1. /\ j # None /\ j \in Job /\ j.op = "move" /\ JobOwn(j)
        /\ j.dirty \subseteq j.files
    BY <1>5, JobTyped DEF MoveCommit, Doing, Trees, JobsOwn
  <2>2. /\ \A f \in FileIds : file'[f] # None => file[f] # None
        /\ \A f \in FileIds :
             IF f \in j.dirty
             THEN /\ file[f] # None /\ Referable(j.folder)
                  /\ file'[f].owner = file[f].owner
                  /\ file'[f].folder = j.folder
             ELSE file'[f] = file[f]
    BY <1>5, MovedTyped
  <2>3. /\ Answered(j.user, j.files, j.folder) /\ UNCHANGED <<folder, strays>>
    BY <1>5 DEF MoveCommit
  <2>4. \A f \in FileIds : placed'[f] =
          IF j.user \in patient /\ f \in j.files THEN j.folder ELSE placed[f]
    BY <2>3 DEF Answered
  <2> SUFFICES ASSUME NEW f \in FileIds \ strays', file'[f] # None,
                      file'[f].owner \in patient
               PROVE  file'[f].folder =
                        IF placed'[f] # None => folder'[placed'[f]] # None
                        THEN placed'[f] ELSE None
    BY <1>g
  <2>5. file[f] # None /\ file[f].owner = file'[f].owner /\ f \notin strays
    BY <2>2, <2>3
  <2>6. CASE f \in j.files
    <3>1. file[f].owner = j.user
      BY <2>1, <2>5, <2>6 DEF JobOwn
    <3>2. placed'[f] = j.folder /\ PatientJob(r)
      BY <2>1, <2>4, <2>5, <2>6, <3>1 DEF PatientJobs
    <3>3. Referable(j.folder) /\ file'[f].folder = j.folder
      BY <2>1, <2>2, <2>5, <2>6, <3>2 DEF PatientJob
    <3> QED BY <2>3, <3>2, <3>3 DEF Referable
  <2>7. CASE f \notin j.files
    <3>1. file'[f] = file[f] /\ placed'[f] = placed[f]
      BY <2>1, <2>2, <2>4, <2>7
    <3> QED BY <1>s, <2>3, <2>5, <3>1
  <2> QED BY <2>6, <2>7
<1>6. ASSUME NEW r \in Requests, DeleteCommit(r)
      PROVE  PlacementKept'
  <2> DEFINE j == job[r]
  <2> DEFINE gone == Cascade(j.seen)
  <2>1. /\ j # None /\ j \in Job /\ j.op = "delete" /\ JobOwn(j)
        /\ j.dirty \subseteq j.files /\ j.seen \in SUBSET FolderIds
    BY <1>6, JobTyped DEF DeleteCommit, Doing, Trees, JobsOwn, Job
  <2>2. j.seen \subseteq gone /\ gone \subseteq FolderIds
    BY <2>1, CascadeIsLeast
  <2>3. /\ \A g \in FolderIds : folder'[g] = IF g \in gone THEN None ELSE folder[g]
        /\ \A f \in FileIds : file'[f] # None => file[f] # None
        /\ \A f \in FileIds :
             IF f \in j.dirty \/ (file[f] # None /\ file[f].folder \in gone)
             THEN /\ file[f] # None
                  /\ file'[f] = [file[f] EXCEPT !.folder = None]
                  /\ file'[f].owner = file[f].owner
                  /\ file'[f].folder = None
             ELSE file'[f] = file[f]
    BY <1>6, ReleasedTyped
  <2>4. UNCHANGED <<placed, strays>>
    BY <1>6 DEF DeleteCommit
  <2> HIDE DEF gone
  <2> SUFFICES ASSUME NEW f \in FileIds \ strays', file'[f] # None,
                      file'[f].owner \in patient
               PROVE  file'[f].folder =
                        IF placed'[f] # None => folder'[placed'[f]] # None
                        THEN placed'[f] ELSE None
    BY <1>g
  <2>5. file[f] # None /\ file[f].owner = file'[f].owner /\ f \notin strays
    BY <2>3, <2>4
  <2>6. f \in j.dirty => file[f].folder \in gone
    <3> SUFFICES ASSUME f \in j.dirty
                 PROVE  file[f].folder \in gone
      OBVIOUS
    <3>1. file[f].owner = j.user
      BY <2>1, <2>5 DEF JobOwn
    <3>2. PatientJob(r)
      BY <2>1, <2>5, <3>1 DEF PatientJobs
    <3> QED BY <2>1, <2>2, <2>5, <3>2 DEF PatientJob
  <2>7. CASE file[f].folder \in gone
    <3>1. file'[f].folder = None /\ file[f].folder # None
      BY <2>2, <2>3, <2>5, <2>7, FoldersAssumption
    <3>2. placed[f] = file[f].folder
      BY <2>5, <3>1 DEF PlacementKept
    <3>3. folder'[placed'[f]] = None /\ placed'[f] # None
      BY <2>2, <2>3, <2>4, <2>7, <3>1, <3>2
    <3> QED BY <3>1, <3>3
  <2>8. CASE file[f].folder \notin gone
    <3>1. file'[f] = file[f] /\ placed'[f] = placed[f]
      BY <2>3, <2>4, <2>5, <2>6, <2>8
    <3>2. file[f].folder # None => folder'[file[f].folder] # None
      <4>1. file[f].folder \in Place
        BY <2>5 DEF Base, TypeOK, FileRow
      <4>2. file[f].folder # None => folder[file[f].folder] # None
        BY <2>5 DEF Trees, NothingDangles, Referable
      <4> QED BY <2>3, <2>8, <4>1, <4>2 DEF Place
    <3> QED BY <1>k, <2>5, <3>1, <3>2, PlacedStays
  <2> QED BY <2>7, <2>8
<1>7. ASSUME NEW f \in FileIds, Purge(f)
      PROVE  PlacementKept'
  <2>1. UNCHANGED <<folder, placed, strays>>
    BY <1>7 DEF Purge
  <2>2. \A e \in FileIds : file'[e] = IF e = f THEN None ELSE file[e]
    BY <1>7 DEF Purge, Base, TypeOK
  <2> QED BY <1>g, <1>s, <2>1, <2>2
<1>8. ASSUME NEW r \in Requests, NEW u \in Users, NEW g \in Place,
             \/ CreateLookup(r, u, g) \/ UploadLookup(r, u, g)
             \/ MoveLookup(r, u, g) \/ DeleteLookup(r, u, g)
      PROVE  PlacementKept'
  BY <1>u, <1>8 DEF CreateLookup, UploadLookup, MoveLookup, DeleteLookup, others
<1>9. CASE UNCHANGED vars
  BY <1>9, <1>u DEF vars, others
<1>10. ASSUME NEW r \in Requests,
              \/ Fail(r) \/ (\E f \in FileIds : MovePick(r, f))
              \/ (\E g \in FolderIds : Detach(r, g))
       PROVE  PlacementKept'
  BY <1>u, <1>10 DEF Fail, MovePick, Detach, others
<1> QED BY <1>1, <1>3, <1>4, <1>5, <1>6, <1>7, <1>8, <1>9, <1>10 DEF Next

\* A user who waits for responses finds each file where it was last put.
THEOREM FilesStayWherePut == Spec => []PlacementKept
<1> DEFINE Inv == Base /\ Trees /\ PatientJobs /\ PlacementKept
<1>1. Init => Inv
  <2>1. Init => PatientJobs /\ PlacementKept
    BY DEF Init, PatientJobs, PlacementKept
  <2> QED BY <2>1, BaseInit, TreesInit
<1>2. Inv /\ [Next]_vars => Inv'
  BY BaseStep, TreesStep, PatientJobsStep, PlacementStep
<1> QED BY <1>1, <1>2, PTL DEF Spec
=============================================================================
