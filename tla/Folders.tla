-------------------------------- MODULE Folders --------------------------------
(***************************************************************************)
(* The folder tree and where files lie in it: app/folders/routes.py, and   *)
(* the requests of app/files/routes.py that put a file somewhere (upload,  *)
(* complete, bulk move, and PATCH, which is a bulk move of one file).      *)
(*                                                                         *)
(* A request looks up the folder it is given, loads files, and commits     *)
(* later.  Between, only the database watches the references: an insert or *)
(* an UPDATE that names a folder which is gone is refused, a folder that   *)
(* goes takes its subfolders (ON DELETE CASCADE) and lets go of its files  *)
(* (ON DELETE SET NULL).                                                   *)
(***************************************************************************)
EXTENDS FiniteSets

CONSTANTS
  Users,
  FolderIds,  \* drawn by uuid4, none of them twice
  FileIds,
  Requests,   \* requests in service
  Patience,   \* sets of users who wait for a response before the next request
  None        \* no row, the top level, or no job

ASSUME FoldersAssumption ==
  /\ Patience \subseteq SUBSET Users
  /\ None \notin FolderIds
  /\ None \notin [owner : Users, parent : FolderIds \cup {None}]
  /\ None \notin [owner : Users, folder : FolderIds \cup {None}]

VARIABLES
  folder,   \* table folders
  file,     \* table files: owner and folder_id
  issued,   \* ids ever drawn
  job,      \* local variables of each request
  placed,   \* history: the folder the last answered request put a file in,
            \* kept for users who wait for their responses
  strays,   \* history: files that a complete put in another user's folder
  patient   \* users who wait for their responses, for the whole behaviour

vars == <<folder, file, issued, job, placed, strays, patient>>

-----------------------------------------------------------------------------
Place == FolderIds \cup {None}

FolderRow == [owner : Users, parent : Place]

FileRow == [owner : Users, folder : Place]

Job ==
  [op : {"create", "upload", "move", "delete"},
   user : Users,
   folder : Place,           \* parent, destination, or the folder to delete
   files : SUBSET FileIds,   \* files loaded
   dirty : SUBSET FileIds,   \* those whose folder_id the commit will UPDATE
   todo : SUBSET FolderIds,  \* delete: loaded, files not yet detached
   seen : SUBSET FolderIds]  \* delete: the part of the subtree that is loaded

\* The folder a request names is there and its own; the top level needs no look.
MayUse(u, g) == g # None => folder[g] # None /\ folder[g].owner = u

\* What the foreign keys accept.
Referable(g) == g # None => folder[g] # None

Subfolders(g) == {s \in FolderIds : folder[s] # None /\ folder[s].parent = g}

FilesIn(g) == {f \in FileIds : file[f] # None /\ file[f].folder = g}

Init ==
  /\ folder = [g \in FolderIds |-> None]
  /\ file = [f \in FileIds |-> None]
  /\ issued = {}
  /\ job = [r \in Requests |-> None]
  /\ placed = [f \in FileIds |-> None]
  /\ strays = {}
  /\ patient \in Patience

Begin(r, op, u, g) ==
  /\ job[r] = None
  /\ u \in patient => \A q \in Requests : job[q] # None => job[q].user # u
  /\ job' = [job EXCEPT ![r] =
               [op |-> op, user |-> u, folder |-> g, files |-> {}, dirty |-> {},
                todo |-> IF op = "delete" THEN {g} ELSE {},
                seen |-> IF op = "delete" THEN {g} ELSE {}]]

Doing(r, op) == job[r] # None /\ job[r].op = op

End(r) == job' = [job EXCEPT ![r] = None]

\* u is told that the files fs are in g now.
Answered(u, fs, g) ==
  placed' = IF u \in patient
            THEN [f \in FileIds |-> IF f \in fs THEN g ELSE placed[f]] ELSE placed

-----------------------------------------------------------------------------
(*************************** POST /api/folders *****************************)
CreateLookup(r, u, g) ==
  /\ MayUse(u, g)
  /\ Begin(r, "create", u, g)
  /\ UNCHANGED <<folder, file, issued, placed, strays, patient>>

CreateCommit(r, g) ==
  LET j == job[r]
  IN  /\ Doing(r, "create")
      /\ g \notin issued
      /\ Referable(j.folder)
      /\ folder' = [folder EXCEPT ![g] = [owner |-> j.user, parent |-> j.folder]]
      /\ issued' = issued \cup {g}
      /\ End(r)
      /\ UNCHANGED <<file, placed, strays, patient>>

(***************************** POST /api/files *****************************)
\* mutant: the owner of the folder is not compared
UploadLookupAny(r, u, g) ==
  /\ Referable(g)
  /\ Begin(r, "upload", u, g)
  /\ UNCHANGED <<folder, file, issued, placed, strays, patient>>

UploadLookup(r, u, g) ==
  /\ MayUse(u, g)
  /\ Begin(r, "upload", u, g)
  /\ UNCHANGED <<folder, file, issued, placed, strays, patient>>

Insert(f, u, g) ==
  /\ f \notin issued
  /\ Referable(g)
  /\ file' = [file EXCEPT ![f] = [owner |-> u, folder |-> g]]
  /\ issued' = issued \cup {f}
  /\ Answered(u, {f}, g)

UploadCommit(r, f) ==
  /\ Doing(r, "upload")
  /\ Insert(f, job[r].user, job[r].folder)
  /\ End(r)
  /\ UNCHANGED <<folder, strays, patient>>

\* POST /uploads/<id>/complete: the folder_id of its body is not looked up.
Complete(u, f, g) ==
  /\ Insert(f, u, g)
  /\ strays' = IF MayUse(u, g) THEN strays ELSE strays \cup {f}
  /\ UNCHANGED <<folder, job, patient>>

(*********** POST /api/files/bulk/move, PATCH /api/files/<id> **************)
MoveLookup(r, u, g) ==
  /\ MayUse(u, g)
  /\ Begin(r, "move", u, g)
  /\ UNCHANGED <<folder, file, issued, placed, strays, patient>>

\* The id of a file of somebody else, or of none, goes to "failed".
MovePick(r, f) ==
  /\ Doing(r, "move")
  /\ file[f] # None /\ file[f].owner = job[r].user
  /\ f \notin job[r].files
  /\ job' = [job EXCEPT
               ![r].files = @ \cup {f},
               ![r].dirty = IF file[f].folder = job[r].folder THEN @ ELSE @ \cup {f}]
  /\ UNCHANGED <<folder, file, issued, placed, strays, patient>>

\* The UPDATEs succeed: each row is there, and so is the folder they name.
Writable(j) ==
  /\ \A f \in j.dirty : file[f] # None
  /\ j.op = "move" /\ j.dirty # {} => Referable(j.folder)

\* mutant: only the first of the files is written
MovedOne(j) ==
  LET first == CHOOSE f \in j.dirty : TRUE
  IN  IF j.dirty = {} THEN file ELSE [file EXCEPT ![first].folder = j.folder]

Moved(j) ==
  [f \in FileIds |->
     IF f \in j.dirty THEN [file[f] EXCEPT !.folder = j.folder] ELSE file[f]]

MoveCommit(r) ==
  LET j == job[r]
  IN  /\ Doing(r, "move")
      /\ Writable(j)
      /\ file' = Moved(j)
      /\ Answered(j.user, j.files, j.folder)
      /\ End(r)
      /\ UNCHANGED <<folder, issued, strays, patient>>

(********************* DELETE /api/folders/<id> ****************************)
DeleteLookup(r, u, g) ==
  /\ g # None
  /\ MayUse(u, g)
  /\ Begin(r, "delete", u, g)
  /\ UNCHANGED <<folder, file, issued, placed, strays, patient>>

\* _detach_files of one folder of the tree: the files in it now will be set to
\* NULL, the subfolders in it now are visited next.
Detach(r, g) ==
  /\ Doing(r, "delete")
  /\ g \in job[r].todo
  /\ job' = [job EXCEPT
               ![r].files = @ \cup FilesIn(g),
               ![r].dirty = @ \cup FilesIn(g),
               ![r].todo = (@ \ {g}) \cup Subfolders(g),
               ![r].seen = @ \cup Subfolders(g)]
  /\ UNCHANGED <<folder, file, issued, placed, strays, patient>>

\* mutants: only what was loaded goes; the folders' files go with them
LoadedOnly(gs) == gs

\* ON DELETE CASCADE: folders below gs that were created since they were loaded.
Cascade(gs) ==
  LET Under(hs) == hs \cup UNION {Subfolders(g) : g \in hs}
      closed == {hs \in SUBSET FolderIds : gs \subseteq hs /\ Under(hs) = hs}
  IN  {g \in FolderIds : \A hs \in closed : g \in hs}

TakenAlong(j, gs) ==
  [f \in FileIds |->
     IF file[f] # None /\ file[f].folder \in gs THEN None ELSE file[f]]

\* Files that were detached, and, ON DELETE SET NULL, those that came since.
Released(j, gs) ==
  [f \in FileIds |->
     IF f \in j.dirty \/ (file[f] # None /\ file[f].folder \in gs)
     THEN [file[f] EXCEPT !.folder = None] ELSE file[f]]

DeleteCommit(r) ==
  LET j == job[r]
      gone == Cascade(j.seen)
  IN  /\ Doing(r, "delete")
      /\ j.todo = {}
      /\ Writable(j)
      /\ file' = Released(j, gone)
      /\ folder' = [g \in FolderIds |-> IF g \in gone THEN None ELSE folder[g]]
      /\ End(r)
      /\ UNCHANGED <<issued, placed, strays, patient>>

-----------------------------------------------------------------------------
\* A statement is refused, a deadlock is broken or the worker dies: the
\* transaction is rolled back.
Fail(r) ==
  /\ job[r] # None
  /\ End(r)
  /\ UNCHANGED <<folder, file, issued, placed, strays, patient>>

\* The owner, or the retention job, purges a file for good.
Purge(f) ==
  /\ file[f] # None
  /\ file' = [file EXCEPT ![f] = None]
  /\ UNCHANGED <<folder, issued, job, placed, strays, patient>>

Next ==
  \/ \E r \in Requests, u \in Users, g \in Place :
       \/ CreateLookup(r, u, g) \/ UploadLookup(r, u, g)
       \/ MoveLookup(r, u, g) \/ DeleteLookup(r, u, g)
  \/ \E r \in Requests, g \in FolderIds : CreateCommit(r, g) \/ Detach(r, g)
  \/ \E r \in Requests, f \in FileIds : UploadCommit(r, f) \/ MovePick(r, f)
  \/ \E r \in Requests : MoveCommit(r) \/ DeleteCommit(r) \/ Fail(r)
  \/ \E u \in Users, f \in FileIds, g \in Place : Complete(u, f, g)
  \/ \E f \in FileIds : Purge(f)

Spec == Init /\ [][Next]_vars

-----------------------------------------------------------------------------
TypeOK ==
  /\ folder \in [FolderIds -> FolderRow \cup {None}]
  /\ file \in [FileIds -> FileRow \cup {None}]
  /\ issued \subseteq FolderIds \cup FileIds
  /\ job \in [Requests -> Job \cup {None}]
  /\ placed \in [FileIds -> Place]
  /\ strays \subseteq FileIds
  /\ patient \in Patience

\* Whatever runs while a folder is deleted (a subfolder created in it, a file
\* uploaded or moved into a part of the tree that was already visited), nothing
\* is left that lies in a folder which is gone.
NothingDangles ==
  /\ \A g \in FolderIds : folder[g] # None => Referable(folder[g].parent)
  /\ \A f \in FileIds : file[f] # None => Referable(file[f].folder)

\* A user's tree is their own: a folder lies in a folder of the same owner, and
\* so does a file, unless a complete put it somewhere else.
TreesAreOwn ==
  /\ \A g \in FolderIds :
       folder[g] # None => MayUse(folder[g].owner, folder[g].parent)
  /\ \A f \in FileIds \ strays :
       file[f] # None => MayUse(file[f].owner, file[f].folder)

\* A file of a user who waits for responses is where the last answered request
\* put it, or at the top level if that folder has been deleted since.
PlacementKept ==
  \A f \in FileIds \ strays :
    file[f] # None /\ file[f].owner \in patient =>
      file[f].folder = IF Referable(placed[f]) THEN placed[f] ELSE None

\* Deleting a folder loses no file ("so no user files are lost"): a step that
\* removes folders moves files to the top level and changes nothing else of them,
\* and takes no folder but the one deleted and those that lay in one it takes.
DeleteIsGentle ==
  [][folder' # folder =>
       /\ \A f \in FileIds : file[f] # None =>
            file'[f] \in {file[f], [file[f] EXCEPT !.folder = None]}
       /\ \A g \in FolderIds : folder[g] # None /\ folder'[g] = None =>
            \/ \E r \in Requests : Doing(r, "delete") /\ g = job[r].folder
            \/ Referable(folder[g].parent) /\ folder'[folder[g].parent] = None]_vars
=============================================================================
