---------------------------- MODULE ChunkedUpload ----------------------------
(***************************************************************************)
(* Resumable uploads (app/files/routes.py, the /uploads endpoints): a row  *)
(* of upload_sessions, a staging directory with one file per chunk, and    *)
(* the requests that start, feed, complete and sweep them.                 *)
(*                                                                         *)
(* No handler locks the row it loaded, so a handler is cut wherever it     *)
(* reads or writes the row or a chunk file.  The bytes of a chunk are      *)
(* whatever the client sends for its index, the same on every retry; what  *)
(* is told apart is whether a chunk file is missing, whole, or torn (its   *)
(* open(..., "wb") has truncated it and the bytes are not all back).       *)
(***************************************************************************)
EXTENDS Integers, FiniteSets

CONSTANTS
  Sessions,    \* upload ids
  Expected,    \* expected_chunks of each session
  Requests,    \* requests in service
  Sweepers,    \* those that are POST /uploads/cleanup by an admin
  Habits,      \* ways the clients and the workers of a behaviour may conduct
               \* themselves: .sessions is what they start, .waits whether a
               \* client waits for a response before its next request, .faults
               \* whether a worker may die in the middle of a request
  MaxFiles,    \* BOUND: files finalised from one session
  None

ASSUME ChunkedUploadAssumption ==
  /\ Expected \in [Sessions -> Nat \ {0}]
  /\ Sweepers \subseteq Requests
  /\ Habits \subseteq [sessions : SUBSET Sessions, waits : BOOLEAN, faults : BOOLEAN]
  /\ MaxFiles \in Nat \ {0}
  /\ None \notin Sessions
  /\ None \notin [status : {"in_progress", "completed"}, received : Nat]

VARIABLES
  session,   \* table upload_sessions
  started,   \* ids that were ever handed out
  aged,      \* sessions older than max_age_hours
  staging,   \* the chunk files under UPLOAD_STAGING_DIR/<id>
  made,      \* number of files finalised from each session
  acked,     \* history: chunks answered with 200 since the last refusal
  torn,      \* history: sessions a torn file was finalised from, by a
             \* complete sent after every chunk was acknowledged
  pc, job,   \* control and local variables of each request
  habit      \* one of Habits, for the whole behaviour

vars == <<session, started, aged, staging, made, acked, torn, pc, job, habit>>

-----------------------------------------------------------------------------
Chunks(s) == 0 .. Expected[s] - 1

Row == [status : {"in_progress", "completed"}, received : Nat]

ChunkFile == {"missing", "torn", "whole"}

PutPcs == {"p_loaded", "p_opened", "p_unlinked", "p_written", "p_counted"}
CompletePcs == {"c_loaded", "c_reading", "c_read", "c_saved", "c_marked"}
ClientPcs == PutPcs \cup CompletePcs
Pcs == {"idle", "k_sweeping"} \cup ClientPcs

Job ==
  [sess : Sessions \cup {None},  \* the session the request is about
   chunk : Nat,                  \* chunk being written, or next one to read
   count : Nat,                  \* received_chunks as loaded, then as counted
   loaded : Nat,                 \* received_chunks as loaded
   acked : BOOLEAN,              \* every chunk was acknowledged at its start
   torn : BOOLEAN,               \* a torn chunk was read
   todo : SUBSET Sessions,       \* sweep: still to remove
   gone : SUBSET Sessions]       \* sweep: rows to delete at the commit

NoJob == [sess |-> None, chunk |-> 0, count |-> 0, loaded |-> 0,
          acked |-> FALSE, torn |-> FALSE, todo |-> {}, gone |-> {}]

InProgress(s) == session[s] # None /\ session[s].status = "in_progress"

Present(s) == {i \in Chunks(s) : staging[s][i] # "missing"}

Busy(s) == \E r \in Requests : pc[r] \in ClientPcs /\ job[r].sess = s

-----------------------------------------------------------------------------
Init ==
  /\ session = [s \in Sessions |-> None]
  /\ started = {}
  /\ aged = {}
  /\ staging = [s \in Sessions |-> [i \in Chunks(s) |-> "missing"]]
  /\ made = [s \in Sessions |-> 0]
  /\ acked = [s \in Sessions |-> {}]
  /\ torn = {}
  /\ pc = [r \in Requests |-> "idle"]
  /\ job = [r \in Requests |-> NoJob]
  /\ habit \in Habits

Goto(r, from, to) == pc[r] = from /\ pc' = [pc EXCEPT ![r] = to]

End(r, from) == Goto(r, from, "idle") /\ job' = [job EXCEPT ![r] = NoJob]

\* A client's request on a session it finds in progress.
Begin(r, s, to) ==
  /\ r \notin Sweepers
  /\ Goto(r, "idle", to)
  /\ InProgress(s)
  /\ habit.waits => ~Busy(s)

\* shutil.rmtree of the staging directory: a handler that has a chunk file open
\* goes on writing to a file that no longer has a name.
RemoveStaging(s) ==
  staging' = [staging EXCEPT ![s] = [i \in Chunks(s) |-> "missing"]]

Unlinked(s, f) ==
  [r \in Requests |->
     IF f[r] = "p_opened" /\ job[r].sess = s THEN "p_unlinked" ELSE f[r]]

(************************ POST /uploads ************************************)
Start(s) ==
  /\ s \in habit.sessions \ started
  /\ started' = started \cup {s}
  /\ session' = [session EXCEPT ![s] = [status |-> "in_progress", received |-> 0]]
  /\ UNCHANGED <<aged, staging, made, acked, torn, pc, job>>

\* max_age_hours go by.
Age(s) ==
  /\ InProgress(s) /\ s \notin aged
  /\ aged' = aged \cup {s}
  /\ UNCHANGED <<session, started, staging, made, acked, torn, pc, job>>

(****************** PUT /uploads/<id>/chunks/<index> ***********************)
PutLoad(r, s, i) ==
  /\ Begin(r, s, "p_loaded")
  /\ i \in Chunks(s)
  /\ job' = [job EXCEPT ![r].sess = s, ![r].chunk = i,
                        ![r].loaded = session[s].received]
  /\ UNCHANGED <<session, started, aged, staging, made, acked, torn>>

\* mutant: the bytes never reach the file
PutWriteLost(r) ==
  /\ Goto(r, "p_opened", "p_written")
  /\ UNCHANGED <<session, started, aged, staging, made, acked, torn, job>>

\* makedirs (the directory may have been swept) and open(..., "wb")
PutOpen(r) ==
  /\ Goto(r, "p_loaded", "p_opened")
  /\ staging' = [staging EXCEPT ![job[r].sess][job[r].chunk] = "torn"]
  /\ UNCHANGED <<session, started, aged, made, acked, torn, job>>

PutWrite(r) ==
  /\ \/ /\ Goto(r, "p_opened", "p_written")
        /\ staging' = [staging EXCEPT ![job[r].sess][job[r].chunk] = "whole"]
     \/ /\ Goto(r, "p_unlinked", "p_written")
        /\ staging' = staging
  /\ UNCHANGED <<session, started, aged, made, acked, torn, job>>

\* os.path.exists for every index
PutCount(r) ==
  /\ Goto(r, "p_written", "p_counted")
  /\ job' = [job EXCEPT ![r].count = Cardinality(Present(job[r].sess))]
  /\ UNCHANGED <<session, started, aged, staging, made, acked, torn>>

\* The response is 200 if the row is still there.
Acknowledged(s, i) ==
  IF session[s] = None THEN acked ELSE [acked EXCEPT ![s] = @ \cup {i}]

\* mutants: a retried chunk counts twice; the row is written back whole
PutCommitIncrements(r) ==
  LET s == job[r].sess
  IN  /\ End(r, "p_counted")
      /\ session' = IF session[s] = None THEN session
                    ELSE [session EXCEPT ![s].received = job[r].loaded + 1]
      /\ acked' = Acknowledged(s, job[r].chunk)
      /\ UNCHANGED <<started, aged, staging, made, torn>>

PutCommitWritesBack(r) ==
  LET s == job[r].sess
  IN  /\ End(r, "p_counted")
      /\ session' = IF session[s] = None THEN session
                    ELSE [session EXCEPT ![s] = [status |-> "in_progress",
                                                 received |-> job[r].count]]
      /\ acked' = Acknowledged(s, job[r].chunk)
      /\ UNCHANGED <<started, aged, staging, made, torn>>

\* The UPDATE names received_chunks only if it differs from the value loaded;
\* on a row that was swept meanwhile it fails.
PutCommit(r) ==
  LET s == job[r].sess
  IN  /\ End(r, "p_counted")
      /\ session' =
           IF session[s] # None /\ job[r].count # job[r].loaded
           THEN [session EXCEPT ![s].received = job[r].count] ELSE session
      /\ acked' = Acknowledged(s, job[r].chunk)
      /\ UNCHANGED <<started, aged, staging, made, torn>>

(********************* POST /uploads/<id>/complete *************************)
CompleteLoad(r, s) ==
  /\ Begin(r, s, "c_loaded")
  /\ job' = [job EXCEPT ![r].sess = s, ![r].acked = (acked[s] = Chunks(s))]
  /\ UNCHANGED <<session, started, aged, staging, made, acked, torn>>

CompleteCheck(r) ==
  /\ Goto(r, "c_loaded", "c_reading")
  /\ Present(job[r].sess) = Chunks(job[r].sess)
  /\ UNCHANGED <<session, started, aged, staging, made, acked, torn, job>>

\* 400 with the indices that are missing
CompleteMissing(r) ==
  /\ End(r, "c_loaded")
  /\ Present(job[r].sess) # Chunks(job[r].sess)
  /\ UNCHANGED <<session, started, aged, staging, made, acked, torn>>

CompleteRead(r) ==
  LET s == job[r].sess
      i == job[r].chunk
  IN  /\ pc[r] = "c_reading"
      /\ staging[s][i] # "missing"
      /\ job' = [job EXCEPT ![r].chunk = i + 1,
                            ![r].torn = @ \/ staging[s][i] = "torn"]
      /\ pc' = IF i + 1 = Expected[s] THEN [pc EXCEPT ![r] = "c_read"] ELSE pc
      /\ UNCHANGED <<session, started, aged, staging, made, acked, torn>>

\* open(..., "rb") raises: the directory was removed between check and read
CompleteLost(r) ==
  /\ End(r, "c_reading")
  /\ staging[job[r].sess][job[r].chunk] = "missing"
  /\ UNCHANGED <<session, started, aged, staging, made, acked, torn>>

\* mutant: the mark is set before the verdict is known
CompleteRefuseMarks(r) ==
  LET s == job[r].sess
  IN  /\ End(r, "c_read")
      /\ session' = IF session[s] = None THEN session
                    ELSE [session EXCEPT ![s].status = "completed"]
      /\ UNCHANGED <<started, aged, staging, made, acked, torn>>

\* Malware, quota, or no bytes at all: the staged chunks are thrown away and
\* the row stays in progress.
CompleteRefuse(r) ==
  LET s == job[r].sess
  IN  /\ pc[r] = "c_read"
      /\ RemoveStaging(s)
      /\ pc' = Unlinked(s, [pc EXCEPT ![r] = "idle"])
      /\ job' = [job EXCEPT ![r] = NoJob]
      /\ acked' = [acked EXCEPT ![s] = {}]
      /\ UNCHANGED <<session, started, aged, made, torn>>

\* The insert fails (a folder_id that does not exist, a tag inserted twice).
CompleteError(r) ==
  /\ End(r, "c_read")
  /\ UNCHANGED <<session, started, aged, staging, made, acked, torn>>

\* _finalize_file_upload commits the file ...
CompleteSave(r) ==
  LET s == job[r].sess
  IN  /\ Goto(r, "c_read", "c_saved")
      /\ made[s] < MaxFiles
      /\ made' = [made EXCEPT ![s] = @ + 1]
      /\ torn' = IF job[r].torn /\ job[r].acked THEN torn \cup {s} ELSE torn
      /\ UNCHANGED <<session, started, aged, staging, acked, job>>

\* mutant: no mark at all
Unmarked(row) == row

Marked(row) == [row EXCEPT !.status = "completed"]

\* ... and a second commit marks the session; the row may have been swept.
CompleteMark(r) ==
  LET s == job[r].sess
  IN  \/ /\ Goto(r, "c_saved", "c_marked")
         /\ session[s] # None
         /\ session' = [session EXCEPT ![s] = Marked(@)]
         /\ UNCHANGED <<started, aged, staging, made, acked, torn, job>>
      \/ /\ End(r, "c_saved")
         /\ session[s] = None
         /\ UNCHANGED <<session, started, aged, staging, made, acked, torn>>

\* mutant: the staged chunks are kept
CompleteCleanSkipped(r) ==
  /\ End(r, "c_marked")
  /\ UNCHANGED <<session, started, aged, staging, made, acked, torn>>

CompleteClean(r) ==
  LET s == job[r].sess
  IN  /\ pc[r] = "c_marked"
      /\ RemoveStaging(s)
      /\ pc' = Unlinked(s, [pc EXCEPT ![r] = "idle"])
      /\ job' = [job EXCEPT ![r] = NoJob]
      /\ UNCHANGED <<session, started, aged, made, acked, torn>>

(************************ POST /uploads/cleanup ****************************)
Orphans == {s \in aged : InProgress(s)}

SweepScan(r) ==
  /\ r \in Sweepers
  /\ Goto(r, "idle", "k_sweeping")
  /\ Orphans # {}
  /\ job' = [job EXCEPT ![r].todo = Orphans]
  /\ UNCHANGED <<session, started, aged, staging, made, acked, torn>>

SweepRemove(r, s) ==
  /\ pc[r] = "k_sweeping"
  /\ s \in job[r].todo
  /\ RemoveStaging(s)
  /\ pc' = Unlinked(s, pc)
  /\ job' = [job EXCEPT ![r].todo = @ \ {s}, ![r].gone = @ \cup {s}]
  /\ UNCHANGED <<session, started, aged, made, acked, torn>>

SweepCommit(r) ==
  /\ End(r, "k_sweeping")
  /\ job[r].todo = {}
  /\ session' = [s \in Sessions |-> IF s \in job[r].gone THEN None ELSE session[s]]
  /\ UNCHANGED <<started, aged, staging, made, acked, torn>>

\* The worker dies, or a file operation raises because the directory it was
\* about to use was removed: what was written to disk and committed stays.
Crash(r) ==
  /\ habit.faults
  /\ pc[r] # "idle"
  /\ End(r, pc[r])
  /\ UNCHANGED <<session, started, aged, staging, made, acked, torn>>

-----------------------------------------------------------------------------
Put(r) ==
  \/ \E s \in Sessions : \E i \in Chunks(s) : PutLoad(r, s, i)
  \/ PutOpen(r) \/ PutWrite(r) \/ PutCount(r) \/ PutCommit(r)

CompleteStep(r) ==
  \/ CompleteCheck(r) \/ CompleteMissing(r) \/ CompleteRead(r)
  \/ CompleteLost(r) \/ CompleteRefuse(r) \/ CompleteError(r)
  \/ CompleteSave(r) \/ CompleteMark(r) \/ CompleteClean(r)

Complete(r) == (\E s \in Sessions : CompleteLoad(r, s)) \/ CompleteStep(r)

SweepStep(r) == (\E s \in Sessions : SweepRemove(r, s)) \/ SweepCommit(r)

Next ==
  /\ \/ \E s \in Sessions : Start(s) \/ Age(s)
     \/ \E r \in Requests :
          Put(r) \/ Complete(r) \/ SweepScan(r) \/ SweepStep(r) \/ Crash(r)
  /\ UNCHANGED habit

Spec == Init /\ [][Next]_vars

-----------------------------------------------------------------------------
TypeOK ==
  /\ session \in [Sessions -> Row \cup {None}]
  /\ started \subseteq Sessions
  /\ aged \subseteq Sessions
  /\ staging \in [Sessions -> UNION {[Chunks(s) -> ChunkFile] : s \in Sessions}]
  /\ \A s \in Sessions : staging[s] \in [Chunks(s) -> ChunkFile]
  /\ made \in [Sessions -> Nat]
  /\ acked \in [Sessions -> SUBSET Nat]
  /\ torn \subseteq Sessions
  /\ pc \in [Requests -> Pcs]
  /\ job \in [Requests -> Job]
  /\ habit \in Habits

\* Every client waits for its responses and no worker dies.
Calm == habit.waits /\ ~habit.faults

\* A session marked completed has produced a file: the mark is never set for an
\* upload that failed, was swept away or lost its worker before the file was in.
CompletedHasFile ==
  \A s \in Sessions :
    session[s] # None /\ session[s].status = "completed" => made[s] > 0

\* A session gives at most one file ("session already completed" is a 400).
AtMostOneFile == \A s \in Sessions : made[s] <= 1

\* A client that waits for its responses gets at most one file per session,
\* whatever a sweep does in the middle of its complete.
OneFileIfCalm == Calm => AtMostOneFile

\* No file is assembled from a chunk that a retry was rewriting, if the client
\* had an acknowledgement for every chunk before it asked for completion and
\* waits for its responses.
NoTornFile == Calm => torn = {}

\* received_chunks is the number of chunk files on disk whenever no request of
\* the session and no sweep is running, unless a refused complete emptied it.
ReceivedIsCount ==
  Calm => \A s \in Sessions :
    InProgress(s) /\ ~Busy(s) /\ Present(s) # {}
      /\ ~(\E r \in Sweepers : pc[r] # "idle")
      => session[s].received = Cardinality(Present(s))

\* A completed session leaves nothing behind in the staging area once its
\* requests are over; the sweep never looks at completed sessions again.
CompletedLeavesNoStaging ==
  Calm => \A s \in Sessions :
    session[s] # None /\ session[s].status = "completed" /\ ~Busy(s)
      => Present(s) = {}

\* completed is final: a late chunk or a second complete that read the row
\* before cannot put a session back in progress.
CompletedIsFinal ==
  [][\A s \in Sessions :
       session[s] # None /\ session[s].status = "completed"
         => session'[s] = None \/ session'[s].status = "completed"]_vars
=============================================================================
