------------------------- MODULE ChunkedUpload_proofs -------------------------
(***************************************************************************)
(* Theorems about ChunkedUpload, for every set of sessions, requests and   *)
(* sweepers, any number of chunks and every habit of the clients.          *)
(*                                                                         *)
(* First what holds whoever sends what and whichever worker dies: types,   *)
(* what a request knows of its session, and the two promises about         *)
(* completed sessions.  Then what a client has that waits for responses:   *)
(* it is alone on its session, apart from the sweep.                       *)
(***************************************************************************)
EXTENDS ChunkedUpload, FiniteSetTheorems, TLAPS

\* What a request knows of its session.
JobsOK ==
  \A r \in Requests :
    /\ pc[r] \in ClientPcs => job[r].sess \in started
    /\ pc[r] \in PutPcs \cup {"c_reading"} => job[r].chunk \in Chunks(job[r].sess)
    /\ pc[r] \in {"idle", "c_loaded"} => job[r].chunk = 0
    /\ pc[r] = "k_sweeping" => r \in Sweepers

\* Ids are handed out once.
IdsOK ==
  \A s \in Sessions :
    /\ session[s] # None => s \in started
    /\ made[s] > 0 => s \in started

Base == TypeOK /\ JobsOK /\ IdsOK

-----------------------------------------------------------------------------
LEMMA ChunksTyped ==
  ASSUME NEW s \in Sessions
  PROVE  /\ Expected[s] \in Nat \ {0}
         /\ 0 \in Chunks(s)
         /\ Chunks(s) \subseteq Nat
         /\ \A i \in Chunks(s) : i + 1 = Expected[s] \/ i + 1 \in Chunks(s)
BY ChunkedUploadAssumption DEF Chunks

LEMMA PresentFinite ==
  ASSUME NEW s \in Sessions
  PROVE  /\ IsFiniteSet(Present(s))
         /\ Cardinality(Present(s)) \in Nat
         /\ Present(s) = {} => Cardinality(Present(s)) = 0
<1>1. IsFiniteSet(Chunks(s))
  BY ChunksTyped, FS_Interval DEF Chunks
<1>2. Present(s) \in SUBSET Chunks(s)
  BY DEF Present
<1>3. IsFiniteSet(Present(s))
  BY <1>1, <1>2, FS_Subset
<1> QED BY <1>3, FS_CardinalityType, FS_EmptySet

\* The type of the staging area, session by session.
LEMMA StagingTyped ==
  ASSUME NEW f, NEW g, f = [s \in Sessions |-> g[s]],
         \A s \in Sessions : g[s] \in [Chunks(s) -> ChunkFile]
  PROVE  /\ f \in [Sessions -> UNION {[Chunks(s) -> ChunkFile] : s \in Sessions}]
         /\ \A s \in Sessions : f[s] \in [Chunks(s) -> ChunkFile]
OBVIOUS

LEMMA EmptyTyped ==
  ASSUME Base, NEW s \in Sessions, RemoveStaging(s)
  PROVE  /\ staging' \in [Sessions -> UNION {[Chunks(t) -> ChunkFile] : t \in Sessions}]
         /\ \A t \in Sessions : staging'[t] \in [Chunks(t) -> ChunkFile]
<1> DEFINE g == [t \in Sessions |->
                  IF t = s THEN [i \in Chunks(s) |-> "missing"] ELSE staging[t]]
<1>1. staging' = g
  BY DEF RemoveStaging, Base, TypeOK
<1>2. \A t \in Sessions : g[t] \in [Chunks(t) -> ChunkFile]
  BY DEF Base, TypeOK, ChunkFile
<1>3. g = [t \in Sessions |-> g[t]]
  OBVIOUS
<1> HIDE DEF g
<1> QED BY <1>1, <1>2, <1>3, StagingTyped

LEMMA WriteTyped ==
  ASSUME Base, NEW s \in Sessions, NEW i \in Chunks(s), NEW c \in ChunkFile,
         staging' = [staging EXCEPT ![s][i] = c]
  PROVE  /\ staging' \in [Sessions -> UNION {[Chunks(t) -> ChunkFile] : t \in Sessions}]
         /\ \A t \in Sessions : staging'[t] \in [Chunks(t) -> ChunkFile]
<1> DEFINE g == [t \in Sessions |->
                  IF t = s THEN [staging[s] EXCEPT ![i] = c] ELSE staging[t]]
<1>1. staging' = g
  BY DEF Base, TypeOK
<1>2. \A t \in Sessions : g[t] \in [Chunks(t) -> ChunkFile]
  BY DEF Base, TypeOK
<1>3. g = [t \in Sessions |-> g[t]]
  OBVIOUS
<1> HIDE DEF g
<1> QED BY <1>1, <1>2, <1>3, StagingTyped

LEMMA UnlinkedTyped ==
  ASSUME NEW s \in Sessions, NEW f \in [Requests -> Pcs]
  PROVE  /\ Unlinked(s, f) \in [Requests -> Pcs]
         /\ \A q \in Requests :
              Unlinked(s, f)[q] =
                IF f[q] = "p_opened" /\ job[q].sess = s THEN "p_unlinked" ELSE f[q]
BY DEF Unlinked, Pcs, ClientPcs, PutPcs

LEMMA BaseInit == Init => Base
<1> SUFFICES ASSUME Init PROVE Base
  OBVIOUS
<1>1. staging = [s \in Sessions |-> [i \in Chunks(s) |-> "missing"]]
  BY DEF Init
<1>2. /\ staging \in [Sessions -> UNION {[Chunks(s) -> ChunkFile] : s \in Sessions}]
      /\ \A s \in Sessions : staging[s] \in [Chunks(s) -> ChunkFile]
  <2> DEFINE g == [s \in Sessions |-> [i \in Chunks(s) |-> "missing"]]
  <2>1. \A s \in Sessions : g[s] \in [Chunks(s) -> ChunkFile]
    BY DEF ChunkFile
  <2>2. staging = [s \in Sessions |-> g[s]]
    BY <1>1
  <2> HIDE DEF g
  <2> QED BY <2>1, <2>2, StagingTyped
<1>3. TypeOK
  BY <1>2 DEF Init, TypeOK, NoJob, Job, Pcs
<1>4. JobsOK /\ IdsOK
  BY DEF Init, JobsOK, IdsOK, NoJob, ClientPcs, PutPcs, CompletePcs
<1> QED BY <1>3, <1>4 DEF Base

\* A step of r alone, that leaves the staging area as it is typed.
LEMMA StepOfOne ==
  ASSUME Base, NEW r \in Requests, NEW p \in Pcs, NEW j \in Job,
         \A q \in Requests \ {r} :
           pc'[q] = pc[q] \/ (pc[q] = "p_opened" /\ pc'[q] = "p_unlinked"),
         pc' \in [Requests -> Pcs], pc'[r] = p,
         job' = [job EXCEPT ![r] = j],
         p \in ClientPcs => j.sess \in started,
         p \in PutPcs \cup {"c_reading"} => j.chunk \in Chunks(j.sess),
         p \in {"idle", "c_loaded"} => j.chunk = 0,
         p = "k_sweeping" => r \in Sweepers,
         started' = started
  PROVE  JobsOK' /\ job' \in [Requests -> Job] /\ job'[r] = j
<1>1. job' \in [Requests -> Job] /\ job'[r] = j
  BY DEF Base, TypeOK
<1>2. ASSUME NEW q \in Requests
      PROVE  /\ pc'[q] \in ClientPcs => job'[q].sess \in started'
             /\ pc'[q] \in PutPcs \cup {"c_reading"} =>
                  job'[q].chunk \in Chunks(job'[q].sess)
             /\ pc'[q] \in {"idle", "c_loaded"} => job'[q].chunk = 0
             /\ pc'[q] = "k_sweeping" => q \in Sweepers
  <2>1. CASE q = r
    BY <1>1, <2>1
  <2>2. CASE q # r
    <3>1. job'[q] = job[q]
      BY <2>2 DEF Base, TypeOK
    <3> QED BY <2>2, <3>1 DEF Base, JobsOK, ClientPcs, PutPcs
  <2> QED BY <2>1, <2>2
<1> QED BY <1>1, <1>2 DEF JobsOK, Chunks

LEMMA SessionTyped ==
  ASSUME Base, NEW s \in Sessions, session[s] # None
  PROVE  /\ session[s] \in Row /\ s \in started
         /\ session[s].received \in Nat
         /\ session[s].status \in {"in_progress", "completed"}
BY DEF Base, TypeOK, IdsOK, Row

LEMMA JobTyped ==
  ASSUME Base, NEW r \in Requests
  PROVE  /\ job[r] \in Job
         /\ pc[r] \in ClientPcs => job[r].sess \in started /\ job[r].sess \in Sessions
         /\ pc[r] \in PutPcs \cup {"c_reading"} => job[r].chunk \in Chunks(job[r].sess)
         /\ pc[r] = "c_loaded" => job[r].chunk = 0
BY DEF Base, TypeOK, JobsOK

LEMMA BaseStep == Base /\ [Next]_vars => Base'
<1> SUFFICES ASSUME Base, [Next]_vars PROVE Base'
  OBVIOUS
<1> USE DEF ClientPcs, PutPcs, CompletePcs
<1>p. ASSUME NEW r \in Requests, NEW p \in Pcs
      PROVE  [pc EXCEPT ![r] = p] \in [Requests -> Pcs]
  BY DEF Base, TypeOK
<1>j. NoJob \in Job
  BY DEF NoJob, Job
<1>1. ASSUME NEW s \in Sessions, Start(s), habit' = habit
      PROVE  Base'
  BY <1>1 DEF Start, Base, TypeOK, JobsOK, IdsOK, Row, Chunks
<1>2. ASSUME NEW s \in Sessions, Age(s), habit' = habit
      PROVE  Base'
  BY <1>2 DEF Age, Base, TypeOK, JobsOK, IdsOK, Chunks
<1>3. ASSUME NEW r \in Requests, NEW s \in Sessions, NEW i \in Chunks(s),
             PutLoad(r, s, i), habit' = habit
      PROVE  Base'
  <2> DEFINE j == [job[r] EXCEPT !.sess = s, !.chunk = i, !.loaded = session[s].received]
  <2>1. session[s] # None
    BY <1>3 DEF PutLoad, Begin, InProgress
  <2>2. j \in Job /\ j.sess = s /\ j.chunk = i
    BY <2>1, SessionTyped, JobTyped, ChunksTyped DEF Job
  <2>3. JobsOK' /\ job' \in [Requests -> Job]
    <3>1. job' = [job EXCEPT ![r] = j] /\ started' = started
      BY <1>3 DEF PutLoad
    <3>2. pc' = [pc EXCEPT ![r] = "p_loaded"] /\ "p_loaded" \in Pcs
      BY <1>3 DEF PutLoad, Begin, Goto, Pcs
    <3>3. s \in started
      BY <2>1, SessionTyped
    <3>4. pc' \in [Requests -> Pcs] /\ pc'[r] = "p_loaded"
          /\ \A q \in Requests \ {r} : pc'[q] = pc[q]
      BY <3>2, <1>p DEF Base, TypeOK
    <3> HIDE DEF j
    <3> QED BY <2>2, <3>1, <3>2, <3>3, <3>4, StepOfOne
  <2>4. TypeOK' /\ IdsOK'
    BY <1>3, <1>p, <2>3 DEF PutLoad, Begin, Goto, Base, TypeOK, IdsOK, Pcs
  <2> QED BY <2>3, <2>4 DEF Base
<1>4. ASSUME NEW r \in Requests, NEW s \in Sessions,
             CompleteLoad(r, s), habit' = habit
      PROVE  Base'
  <2> DEFINE j == [job[r] EXCEPT !.sess = s, !.acked = (acked[s] = Chunks(s))]
  <2>1. session[s] # None
    BY <1>4 DEF CompleteLoad, Begin, InProgress
  <2>2. j \in Job /\ j.sess = s /\ j.chunk = job[r].chunk
    BY <2>1, SessionTyped, JobTyped DEF Job
  <2>c. pc[r] = "idle"
    BY <1>4 DEF CompleteLoad, Begin, Goto
  <2>3. JobsOK' /\ job' \in [Requests -> Job]
    <3>1. job' = [job EXCEPT ![r] = j] /\ started' = started
      BY <1>4 DEF CompleteLoad
    <3>2. pc' = [pc EXCEPT ![r] = "c_loaded"] /\ "c_loaded" \in Pcs
      BY <1>4 DEF CompleteLoad, Begin, Goto, Pcs
    <3>3. s \in started
      BY <2>1, SessionTyped
    <3>4. pc' \in [Requests -> Pcs] /\ pc'[r] = "c_loaded"
          /\ \A q \in Requests \ {r} : pc'[q] = pc[q]
      BY <3>2, <1>p DEF Base, TypeOK
    <3>5. job[r].chunk = 0
      BY <2>c DEF Base, JobsOK
    <3> HIDE DEF j
    <3> QED BY <2>2, <3>1, <3>2, <3>3, <3>4, <3>5, StepOfOne
  <2>4. TypeOK' /\ IdsOK'
    BY <1>4, <1>p, <2>3 DEF CompleteLoad, Begin, Goto, Base, TypeOK, IdsOK, Pcs
  <2> QED BY <2>3, <2>4 DEF Base
<1>e. ASSUME NEW r \in Requests, pc' = [pc EXCEPT ![r] = "idle"],
             job' = [job EXCEPT ![r] = NoJob], started' = started
      PROVE  JobsOK' /\ job' \in [Requests -> Job] /\ pc' \in [Requests -> Pcs]
  <2>1. "idle" \in Pcs /\ NoJob.chunk = 0
    BY DEF Pcs, NoJob
  <2>2. pc' \in [Requests -> Pcs] /\ pc'[r] = "idle"
        /\ \A q \in Requests \ {r} : pc'[q] = pc[q]
    BY <1>e, <1>p, <2>1 DEF Base, TypeOK
  <2> QED BY <1>e, <1>j, <2>1, <2>2, StepOfOne
<1>5. ASSUME NEW r \in Requests, CompleteMissing(r), habit' = habit
      PROVE  Base'
  <2>1. pc' = [pc EXCEPT ![r] = "idle"] /\ job' = [job EXCEPT ![r] = NoJob]
    BY <1>5 DEF CompleteMissing, End, Goto
  <2>2. JobsOK' /\ job' \in [Requests -> Job] /\ pc' \in [Requests -> Pcs]
    BY <1>e, <1>5, <2>1 DEF CompleteMissing
  <2>3. TypeOK' /\ IdsOK'
    BY <1>5, <2>2 DEF CompleteMissing, Base, TypeOK, IdsOK
  <2> QED BY <2>2, <2>3 DEF Base
<1>6. ASSUME NEW r \in Requests, CompleteLost(r), habit' = habit
      PROVE  Base'
  <2>1. pc' = [pc EXCEPT ![r] = "idle"] /\ job' = [job EXCEPT ![r] = NoJob]
    BY <1>6 DEF CompleteLost, End, Goto
  <2>2. JobsOK' /\ job' \in [Requests -> Job] /\ pc' \in [Requests -> Pcs]
    BY <1>e, <1>6, <2>1 DEF CompleteLost
  <2>3. TypeOK' /\ IdsOK'
    BY <1>6, <2>2 DEF CompleteLost, Base, TypeOK, IdsOK
  <2> QED BY <2>2, <2>3 DEF Base
<1>7. ASSUME NEW r \in Requests, CompleteError(r), habit' = habit
      PROVE  Base'
  <2>1. pc' = [pc EXCEPT ![r] = "idle"] /\ job' = [job EXCEPT ![r] = NoJob]
    BY <1>7 DEF CompleteError, End, Goto
  <2>2. JobsOK' /\ job' \in [Requests -> Job] /\ pc' \in [Requests -> Pcs]
    BY <1>e, <1>7, <2>1 DEF CompleteError
  <2>3. TypeOK' /\ IdsOK'
    BY <1>7, <2>2 DEF CompleteError, Base, TypeOK, IdsOK
  <2> QED BY <2>2, <2>3 DEF Base
<1>8. ASSUME NEW r \in Requests, Crash(r), habit' = habit
      PROVE  Base'
  <2>1. pc' = [pc EXCEPT ![r] = "idle"] /\ job' = [job EXCEPT ![r] = NoJob]
    BY <1>8 DEF Crash, End, Goto
  <2>2. JobsOK' /\ job' \in [Requests -> Job] /\ pc' \in [Requests -> Pcs]
    BY <1>e, <1>8, <2>1 DEF Crash
  <2>3. TypeOK' /\ IdsOK'
    BY <1>8, <2>2 DEF Crash, Base, TypeOK, IdsOK
  <2> QED BY <2>2, <2>3 DEF Base
<1>9. ASSUME NEW r \in Requests, SweepCommit(r), habit' = habit
      PROVE  Base'
  <2>1. pc' = [pc EXCEPT ![r] = "idle"] /\ job' = [job EXCEPT ![r] = NoJob]
    BY <1>9 DEF SweepCommit, End, Goto
  <2>2. JobsOK' /\ job' \in [Requests -> Job] /\ pc' \in [Requests -> Pcs]
    BY <1>e, <1>9, <2>1 DEF SweepCommit
  <2>3. TypeOK' /\ IdsOK'
    BY <1>9, <2>2 DEF SweepCommit, Base, TypeOK, IdsOK
  <2> QED BY <2>2, <2>3 DEF Base
<1>10. ASSUME NEW r \in Requests, PutCommit(r), habit' = habit
      PROVE  Base'
  <2> DEFINE s == job[r].sess
  <2>1. pc' = [pc EXCEPT ![r] = "idle"] /\ job' = [job EXCEPT ![r] = NoJob]
        /\ pc[r] = "p_counted"
    BY <1>10 DEF PutCommit, End, Goto
  <2>2. JobsOK' /\ job' \in [Requests -> Job] /\ pc' \in [Requests -> Pcs]
    BY <1>e, <1>10, <2>1 DEF PutCommit
  <2>3. s \in Sessions /\ job[r].count \in Nat /\ job[r].chunk \in Nat
    BY <2>1, JobTyped DEF Job
  <2>4. session' \in [Sessions -> Row \cup {None}]
        /\ \A t \in Sessions : session'[t] # None => session[t] # None
    <3>1. session[s] # None => [session[s] EXCEPT !.received = job[r].count] \in Row
      BY <2>3, SessionTyped DEF Row
    <3> QED BY <1>10, <2>3, <3>1 DEF PutCommit, Base, TypeOK
  <2>5. acked' \in [Sessions -> SUBSET Nat]
    BY <1>10, <2>3 DEF PutCommit, Acknowledged, Base, TypeOK
  <2>6. TypeOK' /\ IdsOK'
    BY <1>10, <2>2, <2>4, <2>5 DEF PutCommit, Base, TypeOK, IdsOK
  <2> QED BY <2>2, <2>6 DEF Base
<1>m. ASSUME NEW r \in Requests, NEW p \in Pcs \ {"idle", "k_sweeping", "c_loaded"},
             pc' = [pc EXCEPT ![r] = p], job' = job, started' = started,
             pc[r] \in ClientPcs,
             p \in PutPcs \cup {"c_reading"} => job[r].chunk \in Chunks(job[r].sess)
      PROVE  JobsOK' /\ job' \in [Requests -> Job] /\ pc' \in [Requests -> Pcs]
  <2>1. job' = [job EXCEPT ![r] = job[r]] /\ job[r] \in Job /\ job[r].sess \in started
    BY <1>m, JobTyped DEF Base, TypeOK
  <2>2. pc' \in [Requests -> Pcs] /\ pc'[r] = p
        /\ \A q \in Requests \ {r} : pc'[q] = pc[q]
    BY <1>m, <1>p DEF Base, TypeOK
  <2> QED BY <1>m, <2>1, <2>2, StepOfOne
<1>11. ASSUME NEW r \in Requests, PutOpen(r), habit' = habit
      PROVE  Base'
  <2>1. pc' = [pc EXCEPT ![r] = "p_opened"] /\ job' = job /\ started' = started
        /\ pc[r] = "p_loaded"
    BY <1>11 DEF PutOpen, Goto
  <2>2. "p_opened" \in Pcs \ {"idle", "k_sweeping", "c_loaded"} /\ pc[r] \in ClientPcs
    BY <2>1 DEF Pcs
  <2>3. "p_opened" \in PutPcs \cup {"c_reading"} => job[r].chunk \in Chunks(job[r].sess)
    BY <2>1, JobTyped, ChunksTyped
  <2>4. JobsOK' /\ job' \in [Requests -> Job] /\ pc' \in [Requests -> Pcs]
    BY <1>m, <2>1, <2>2, <2>3
  <2>5. job[r].sess \in Sessions
    BY <2>2, JobTyped
  <2>6. /\ staging' \in [Sessions -> UNION {[Chunks(t) -> ChunkFile] : t \in Sessions}]
        /\ \A t \in Sessions : staging'[t] \in [Chunks(t) -> ChunkFile]
    <3>1. staging' = [staging EXCEPT ![job[r].sess][job[r].chunk] = "torn"]
      BY <1>11, <2>1 DEF PutOpen, Goto
    <3>2. "torn" \in ChunkFile /\ job[r].chunk \in Chunks(job[r].sess)
      BY <2>1, JobTyped DEF ChunkFile
    <3> QED BY <2>5, <3>1, <3>2, WriteTyped
  <2>7. TypeOK' /\ IdsOK'
    BY <1>11, <2>4, <2>6 DEF PutOpen, Base, TypeOK, IdsOK
  <2> QED BY <2>4, <2>7 DEF Base
<1>12. ASSUME NEW r \in Requests, PutWrite(r), habit' = habit
      PROVE  Base'
  <2>1. pc' = [pc EXCEPT ![r] = "p_written"] /\ job' = job /\ started' = started
        /\ pc[r] \in {"p_opened", "p_unlinked"}
    BY <1>12 DEF PutWrite, Goto
  <2>2. "p_written" \in Pcs \ {"idle", "k_sweeping", "c_loaded"} /\ pc[r] \in ClientPcs
    BY <2>1 DEF Pcs
  <2>3. "p_written" \in PutPcs \cup {"c_reading"} => job[r].chunk \in Chunks(job[r].sess)
    BY <2>1, JobTyped, ChunksTyped
  <2>4. JobsOK' /\ job' \in [Requests -> Job] /\ pc' \in [Requests -> Pcs]
    BY <1>m, <2>1, <2>2, <2>3
  <2>5. job[r].sess \in Sessions
    BY <2>2, JobTyped
  <2>6. /\ staging' \in [Sessions -> UNION {[Chunks(t) -> ChunkFile] : t \in Sessions}]
        /\ \A t \in Sessions : staging'[t] \in [Chunks(t) -> ChunkFile]
    <3>1. CASE staging' = [staging EXCEPT ![job[r].sess][job[r].chunk] = "whole"]
      <4>1. "whole" \in ChunkFile /\ job[r].chunk \in Chunks(job[r].sess)
        BY <2>1, JobTyped DEF ChunkFile
      <4> QED BY <2>5, <3>1, <4>1, WriteTyped
    <3>2. CASE staging' = staging
      BY <3>2 DEF Base, TypeOK
    <3> QED BY <1>12, <3>1, <3>2 DEF PutWrite
  <2>7. TypeOK' /\ IdsOK'
    BY <1>12, <2>4, <2>6 DEF PutWrite, Base, TypeOK, IdsOK
  <2> QED BY <2>4, <2>7 DEF Base
<1>13. ASSUME NEW r \in Requests, CompleteCheck(r), habit' = habit
      PROVE  Base'
  <2>1. pc' = [pc EXCEPT ![r] = "c_reading"] /\ job' = job /\ started' = started
        /\ pc[r] = "c_loaded"
    BY <1>13 DEF CompleteCheck, Goto
  <2>2. "c_reading" \in Pcs \ {"idle", "k_sweeping", "c_loaded"} /\ pc[r] \in ClientPcs
    BY <2>1 DEF Pcs
  <2>3. "c_reading" \in PutPcs \cup {"c_reading"} => job[r].chunk \in Chunks(job[r].sess)
    BY <2>1, JobTyped, ChunksTyped
  <2>4. JobsOK' /\ job' \in [Requests -> Job] /\ pc' \in [Requests -> Pcs]
    BY <1>m, <2>1, <2>2, <2>3
  <2>5. job[r].sess \in Sessions
    BY <2>2, JobTyped
  <2>7. TypeOK' /\ IdsOK'
    BY <1>13, <2>4 DEF CompleteCheck, Base, TypeOK, IdsOK
  <2> QED BY <2>4, <2>7 DEF Base
<1>14. ASSUME NEW r \in Requests, CompleteSave(r), habit' = habit
      PROVE  Base'
  <2>1. pc' = [pc EXCEPT ![r] = "c_saved"] /\ job' = job /\ started' = started
        /\ pc[r] = "c_read"
    BY <1>14 DEF CompleteSave, Goto
  <2>2. "c_saved" \in Pcs \ {"idle", "k_sweeping", "c_loaded"} /\ pc[r] \in ClientPcs
    BY <2>1 DEF Pcs
  <2>3. "c_saved" \in PutPcs \cup {"c_reading"} => job[r].chunk \in Chunks(job[r].sess)
    BY <2>1, JobTyped, ChunksTyped
  <2>4. JobsOK' /\ job' \in [Requests -> Job] /\ pc' \in [Requests -> Pcs]
    BY <1>m, <2>1, <2>2, <2>3
  <2>5. job[r].sess \in Sessions
    BY <2>2, JobTyped
  <2>6. job[r].sess \in started
    BY <2>2, JobTyped
  <2>7. TypeOK' /\ IdsOK'
    BY <1>14, <2>4, <2>5, <2>6 DEF CompleteSave, Base, TypeOK, IdsOK
  <2> QED BY <2>4, <2>7 DEF Base
<1>15. ASSUME NEW r \in Requests, PutCount(r), habit' = habit
      PROVE  Base'
  <2> DEFINE j == [job[r] EXCEPT !.count = Cardinality(Present(job[r].sess))]
  <2>1. pc' = [pc EXCEPT ![r] = "p_counted"] /\ job' = [job EXCEPT ![r] = j]
        /\ started' = started /\ pc[r] = "p_written"
    BY <1>15 DEF PutCount, Goto
  <2>2. /\ j \in Job /\ j.sess = job[r].sess /\ j.chunk = job[r].chunk
        /\ j.sess \in started /\ j.chunk \in Chunks(j.sess)
    BY <2>1, JobTyped, PresentFinite DEF Job
  <2>3. JobsOK' /\ job' \in [Requests -> Job] /\ pc' \in [Requests -> Pcs]
    <3>1. "p_counted" \in Pcs
      BY DEF Pcs
    <3>2. pc' \in [Requests -> Pcs] /\ pc'[r] = "p_counted"
          /\ \A q \in Requests \ {r} : pc'[q] = pc[q]
      BY <2>1, <3>1, <1>p DEF Base, TypeOK
    <3> HIDE DEF j
    <3> QED BY <2>1, <2>2, <3>1, <3>2, StepOfOne
  <2>4. TypeOK' /\ IdsOK'
    BY <1>15, <2>3 DEF PutCount, Base, TypeOK, IdsOK
  <2> QED BY <2>3, <2>4 DEF Base
<1>16. ASSUME NEW r \in Requests, CompleteRead(r), habit' = habit
      PROVE  Base'
  <2> DEFINE s == job[r].sess
             i == job[r].chunk
             j == [job[r] EXCEPT !.chunk = i + 1, !.torn = @ \/ staging[s][i] = "torn"]
             p == IF i + 1 = Expected[s] THEN "c_read" ELSE "c_reading"
  <2>1. /\ job' = [job EXCEPT ![r] = j]
        /\ started' = started /\ pc[r] = "c_reading"
        /\ pc' = IF i + 1 = Expected[s] THEN [pc EXCEPT ![r] = "c_read"] ELSE pc
    BY <1>16 DEF CompleteRead
  <2>2. s \in Sessions /\ s \in started /\ i \in Chunks(s) /\ job[r] \in Job
    BY <2>1, JobTyped
  <2>3. j \in Job /\ j.sess = s /\ j.chunk = i + 1
    BY <2>2, ChunksTyped DEF Job
  <2>4. p = "c_reading" => i + 1 \in Chunks(s)
    BY <2>2, ChunksTyped
  <2>5. JobsOK' /\ job' \in [Requests -> Job] /\ pc' \in [Requests -> Pcs]
    <3>1. p \in Pcs /\ p \in {"c_read", "c_reading"}
      BY DEF Pcs
    <3>2. pc' \in [Requests -> Pcs] /\ pc'[r] = p
          /\ \A q \in Requests \ {r} : pc'[q] = pc[q]
      BY <2>1, <3>1 DEF Base, TypeOK
    <3> HIDE DEF j, p, s, i
    <3>3. /\ p \in ClientPcs => j.sess \in started
          /\ p \in PutPcs \cup {"c_reading"} => j.chunk \in Chunks(j.sess)
          /\ p \notin {"idle", "c_loaded", "k_sweeping"}
      BY <2>2, <2>3, <2>4, <3>1
    <3> QED BY <2>1, <2>3, <3>1, <3>2, <3>3, StepOfOne
  <2>6. TypeOK' /\ IdsOK'
    BY <1>16, <2>5 DEF CompleteRead, Base, TypeOK, IdsOK
  <2> QED BY <2>5, <2>6 DEF Base
<1>17. ASSUME NEW r \in Requests, CompleteRefuse(r), habit' = habit
      PROVE  Base'
  <2> DEFINE s == job[r].sess
             f == [pc EXCEPT ![r] = "idle"]
  <2>1. /\ pc' = Unlinked(s, f) /\ job' = [job EXCEPT ![r] = NoJob]
        /\ started' = started /\ pc[r] = "c_read" /\ RemoveStaging(s)
    BY <1>17 DEF CompleteRefuse
  <2>2. s \in Sessions
    BY <2>1, JobTyped
  <2>3. f \in [Requests -> Pcs] /\ f[r] = "idle" /\ \A q \in Requests \ {r} : f[q] = pc[q]
    BY <1>p DEF Pcs, Base, TypeOK
  <2>4. /\ pc' \in [Requests -> Pcs] /\ pc'[r] = "idle"
        /\ \A q \in Requests \ {r} :
             pc'[q] = pc[q] \/ (pc[q] = "p_opened" /\ pc'[q] = "p_unlinked")
    <3> HIDE DEF s, f
    <3> QED BY <2>1, <2>2, <2>3, UnlinkedTyped
  <2>5. JobsOK' /\ job' \in [Requests -> Job]
    <3>1. "idle" \in Pcs /\ NoJob.chunk = 0
      BY DEF Pcs, NoJob
    <3> QED BY <1>j, <2>1, <2>4, <3>1, StepOfOne
  <2>6. /\ staging' \in [Sessions -> UNION {[Chunks(t) -> ChunkFile] : t \in Sessions}]
        /\ \A t \in Sessions : staging'[t] \in [Chunks(t) -> ChunkFile]
    BY <2>1, <2>2, EmptyTyped
  <2>7. TypeOK' /\ IdsOK'
    BY <1>17, <2>2, <2>4, <2>5, <2>6 DEF CompleteRefuse, Base, TypeOK, IdsOK
  <2> QED BY <2>5, <2>7 DEF Base
<1>18. ASSUME NEW r \in Requests, CompleteClean(r), habit' = habit
      PROVE  Base'
  <2> DEFINE s == job[r].sess
             f == [pc EXCEPT ![r] = "idle"]
  <2>1. /\ pc' = Unlinked(s, f) /\ job' = [job EXCEPT ![r] = NoJob]
        /\ started' = started /\ pc[r] = "c_marked" /\ RemoveStaging(s)
    BY <1>18 DEF CompleteClean
  <2>2. s \in Sessions
    BY <2>1, JobTyped
  <2>3. f \in [Requests -> Pcs] /\ f[r] = "idle" /\ \A q \in Requests \ {r} : f[q] = pc[q]
    BY <1>p DEF Pcs, Base, TypeOK
  <2>4. /\ pc' \in [Requests -> Pcs] /\ pc'[r] = "idle"
        /\ \A q \in Requests \ {r} :
             pc'[q] = pc[q] \/ (pc[q] = "p_opened" /\ pc'[q] = "p_unlinked")
    <3> HIDE DEF s, f
    <3> QED BY <2>1, <2>2, <2>3, UnlinkedTyped
  <2>5. JobsOK' /\ job' \in [Requests -> Job]
    <3>1. "idle" \in Pcs /\ NoJob.chunk = 0
      BY DEF Pcs, NoJob
    <3> QED BY <1>j, <2>1, <2>4, <3>1, StepOfOne
  <2>6. /\ staging' \in [Sessions -> UNION {[Chunks(t) -> ChunkFile] : t \in Sessions}]
        /\ \A t \in Sessions : staging'[t] \in [Chunks(t) -> ChunkFile]
    BY <2>1, <2>2, EmptyTyped
  <2>7. TypeOK' /\ IdsOK'
    BY <1>18, <2>2, <2>4, <2>5, <2>6 DEF CompleteClean, Base, TypeOK, IdsOK
  <2> QED BY <2>5, <2>7 DEF Base
<1>19. ASSUME NEW r \in Requests, CompleteMark(r), habit' = habit
      PROVE  Base'
  <2> DEFINE s == job[r].sess
  <2>1. pc[r] = "c_saved" /\ started' = started
    BY <1>19 DEF CompleteMark, Goto, End
  <2>2. s \in Sessions
    BY <2>1, JobTyped
  <2>3. CASE session[s] # None
    <3>1. /\ pc' = [pc EXCEPT ![r] = "c_marked"] /\ job' = job
          /\ session' = [session EXCEPT ![s] = [@ EXCEPT !.status = "completed"]]
          /\ UNCHANGED <<aged, staging, made, acked, torn>>
      BY <1>19, <2>3 DEF CompleteMark, Goto, Marked
    <3>2. "c_marked" \in Pcs \ {"idle", "k_sweeping", "c_loaded"}
      BY DEF Pcs
    <3>3. JobsOK' /\ job' \in [Requests -> Job] /\ pc' \in [Requests -> Pcs]
      BY <1>m, <2>1, <3>1, <3>2
    <3>4. [session[s] EXCEPT !.status = "completed"] \in Row
      BY <2>2, <2>3, SessionTyped DEF Row
    <3>5. TypeOK' /\ IdsOK'
      BY <1>19, <2>1, <2>2, <2>3, <3>1, <3>3, <3>4 DEF Base, TypeOK, IdsOK
    <3> QED BY <3>3, <3>5 DEF Base
  <2>4. CASE session[s] = None
    <3>1. /\ pc' = [pc EXCEPT ![r] = "idle"] /\ job' = [job EXCEPT ![r] = NoJob]
          /\ UNCHANGED <<session, aged, staging, made, acked, torn>>
      BY <1>19, <2>4 DEF CompleteMark, End, Goto
    <3>2. JobsOK' /\ job' \in [Requests -> Job] /\ pc' \in [Requests -> Pcs]
      BY <1>e, <2>1, <3>1
    <3>3. TypeOK' /\ IdsOK'
      BY <1>19, <2>1, <3>1, <3>2 DEF Base, TypeOK, IdsOK
    <3> QED BY <3>2, <3>3 DEF Base
  <2> QED BY <2>3, <2>4
<1>20. ASSUME NEW r \in Requests, SweepScan(r), habit' = habit
      PROVE  Base'
  <2> DEFINE j == [job[r] EXCEPT !.todo = Orphans]
  <2>1. /\ pc' = [pc EXCEPT ![r] = "k_sweeping"] /\ job' = [job EXCEPT ![r] = j]
        /\ started' = started /\ r \in Sweepers
    BY <1>20 DEF SweepScan, Goto
  <2>2. j \in Job
    BY JobTyped DEF Job, Orphans, Base, TypeOK
  <2>3. JobsOK' /\ job' \in [Requests -> Job] /\ pc' \in [Requests -> Pcs]
    <3>1. "k_sweeping" \in Pcs
      BY DEF Pcs
    <3>2. pc' \in [Requests -> Pcs] /\ pc'[r] = "k_sweeping"
          /\ \A q \in Requests \ {r} : pc'[q] = pc[q]
      BY <2>1, <3>1, <1>p DEF Base, TypeOK
    <3> HIDE DEF j
    <3> QED BY <2>1, <2>2, <3>1, <3>2, StepOfOne
  <2>4. TypeOK' /\ IdsOK'
    BY <1>20, <2>3 DEF SweepScan, Base, TypeOK, IdsOK
  <2> QED BY <2>3, <2>4 DEF Base
<1>21. ASSUME NEW r \in Requests, NEW s \in Sessions, SweepRemove(r, s), habit' = habit
      PROVE  Base'
  <2> DEFINE j == [job[r] EXCEPT !.todo = @ \ {s}, !.gone = @ \cup {s}]
  <2>1. /\ pc' = Unlinked(s, pc) /\ job' = [job EXCEPT ![r] = j]
        /\ started' = started /\ pc[r] = "k_sweeping" /\ RemoveStaging(s)
    BY <1>21 DEF SweepRemove
  <2>2. j \in Job
    BY JobTyped DEF Job
  <2>3. /\ pc' \in [Requests -> Pcs] /\ pc'[r] = "k_sweeping"
        /\ \A q \in Requests \ {r} :
             pc'[q] = pc[q] \/ (pc[q] = "p_opened" /\ pc'[q] = "p_unlinked")
    <3>1. pc \in [Requests -> Pcs]
      BY DEF Base, TypeOK
    <3> QED BY <2>1, <3>1, UnlinkedTyped
  <2>4. JobsOK' /\ job' \in [Requests -> Job]
    <3>1. "k_sweeping" \in Pcs /\ r \in Sweepers
      BY <2>1 DEF Pcs, Base, JobsOK
    <3> HIDE DEF j
    <3> QED BY <2>1, <2>2, <2>3, <3>1, StepOfOne
  <2>5. /\ staging' \in [Sessions -> UNION {[Chunks(t) -> ChunkFile] : t \in Sessions}]
        /\ \A t \in Sessions : staging'[t] \in [Chunks(t) -> ChunkFile]
    BY <2>1, EmptyTyped
  <2>6. TypeOK' /\ IdsOK'
    BY <1>21, <2>3, <2>4, <2>5 DEF SweepRemove, Base, TypeOK, IdsOK
  <2> QED BY <2>4, <2>6 DEF Base
<1>22. CASE UNCHANGED vars
  BY <1>22 DEF vars, Base, TypeOK, JobsOK, IdsOK, Chunks
<1> QED
  BY <1>1, <1>2, <1>3, <1>4, <1>5, <1>6, <1>7, <1>8, <1>9, <1>10, <1>11, <1>12,
     <1>13, <1>14, <1>15, <1>16, <1>17, <1>18, <1>19, <1>20, <1>21, <1>22
  DEF Next, Put, Complete, CompleteStep, SweepStep

\* Every state is well typed.
THEOREM TypeCorrect == Spec => []TypeOK
<1>1. Base => TypeOK
  BY DEF Base
<1> QED BY <1>1, BaseInit, BaseStep, PTL DEF Spec

\* completed is final, whoever sends what and whichever worker dies: a session
\* is started once, and only the mark names its status.
THEOREM CompletedFinal == Spec => CompletedIsFinal
<1>1. Base /\ [Next]_vars =>
        \A s \in Sessions :
          session[s] # None /\ session[s].status = "completed"
            => session'[s] = None \/ session'[s].status = "completed"
  <2> SUFFICES ASSUME Base, [Next]_vars, NEW s \in Sessions, session[s] # None,
                      session[s].status = "completed"
               PROVE  session'[s] = None \/ session'[s].status = "completed"
    OBVIOUS
  <2>1. session \in [Sessions -> Row \cup {None}] /\ session[s] \in Row
    BY SessionTyped DEF Base, TypeOK
  <2>2. ASSUME NEW t \in Sessions, Start(t)
        PROVE  session'[s] = session[s]
    BY <2>1, <2>2, SessionTyped DEF Start
  <2>3. ASSUME NEW r \in Requests, PutCommit(r)
        PROVE  session'[s].status = "completed"
    <3>1. CASE job[r].sess = s
      BY <2>1, <2>3, <3>1 DEF PutCommit, Row
    <3>2. CASE job[r].sess # s
      BY <2>1, <2>3, <3>2 DEF PutCommit
    <3> QED BY <3>1, <3>2
  <2>4. ASSUME NEW r \in Requests, CompleteMark(r)
        PROVE  session'[s].status = "completed"
    <3>1. CASE job[r].sess = s
      BY <2>1, <2>4, <3>1 DEF CompleteMark, Marked, Row
    <3>2. CASE job[r].sess # s
      BY <2>1, <2>4, <3>2 DEF CompleteMark
    <3> QED BY <3>1, <3>2
  <2>5. ASSUME NEW r \in Requests, SweepCommit(r)
        PROVE  session'[s] = None \/ session'[s] = session[s]
    BY <2>5 DEF SweepCommit
  <2>6. CASE UNCHANGED session
    BY <2>6
  <2> QED BY <2>2, <2>3, <2>4, <2>5, <2>6
      DEF Next, Put, Complete, CompleteStep, SweepStep, vars, Age, PutLoad, PutOpen,
          PutWrite, PutCount, CompleteLoad, CompleteCheck, CompleteMissing,
          CompleteRead, CompleteLost, CompleteRefuse, CompleteError, CompleteSave,
          CompleteClean, SweepScan, SweepRemove, Crash
<1>2. Base /\ [Next]_vars =>
        [\A s \in Sessions :
           session[s] # None /\ session[s].status = "completed"
             => session'[s] = None \/ session'[s].status = "completed"]_vars
  BY <1>1
<1> QED BY <1>2, BaseInit, BaseStep, PTL DEF Spec, CompletedIsFinal

-----------------------------------------------------------------------------
\* Most steps create no file, set no status, begin no request and take none
\* past the creation of its file.  Without faults none is dropped there either.
Kept ==
  /\ made' = made
  /\ habit' = habit
  /\ \A s \in Sessions : session'[s] # None =>
       /\ session[s] # None
       /\ session'[s].status = session[s].status
  /\ \A q \in Requests :
       /\ pc'[q] \in ClientPcs => pc[q] \in ClientPcs /\ job'[q].sess = job[q].sess
       /\ pc'[q] \in {"c_saved", "c_marked"} => pc'[q] = pc[q]
       /\ pc'[q] \in ClientPcs \ {"c_saved", "c_marked"} =>
            pc[q] \in ClientPcs \ {"c_saved", "c_marked"}
       /\ \/ habit.faults
          \/ pc[q] \notin {"c_saved", "c_marked"}
          \/ pc'[q] = pc[q] /\ job'[q] = job[q]
          \/ pc[q] = "c_marked" /\ CompleteClean(q)

LEMMA KeptSteps ==
  ASSUME Base, [Next]_vars
  PROVE  \/ Kept
         \/ habit' = habit /\ \E s \in Sessions : Start(s)
         \/ /\ habit' = habit
            /\ \E r \in Requests :
                 \/ \E s \in Sessions : \/ CompleteLoad(r, s)
                                        \/ \E i \in Chunks(s) : PutLoad(r, s, i)
                 \/ CompleteSave(r) \/ CompleteMark(r)
<1> USE DEF ClientPcs, PutPcs, CompletePcs
<1>t. /\ session \in [Sessions -> Row \cup {None}] /\ made \in [Sessions -> Nat]
      /\ pc \in [Requests -> Pcs] /\ job \in [Requests -> Job]
  BY DEF Base, TypeOK
<1>1. ASSUME NEW s \in Sessions, Age(s), habit' = habit
      PROVE  Kept
  BY <1>1 DEF Age, Kept
<1>2. ASSUME NEW r \in Requests, PutOpen(r), habit' = habit
      PROVE  Kept
  BY <1>t, <1>2 DEF PutOpen, Goto, Kept
<1>3. ASSUME NEW r \in Requests, PutWrite(r), habit' = habit
      PROVE  Kept
  BY <1>t, <1>3 DEF PutWrite, Goto, Kept
<1>4. ASSUME NEW r \in Requests, PutCount(r), habit' = habit
      PROVE  Kept
  <2>1. \A q \in Requests : job'[q].sess = job[q].sess
    BY <1>t, <1>4 DEF PutCount, Job
  <2>2. \A q \in Requests : q # r => job'[q] = job[q]
    BY <1>t, <1>4 DEF PutCount
  <2> QED BY <1>t, <1>4, <2>1, <2>2 DEF PutCount, Goto, Kept
<1>5. ASSUME NEW r \in Requests, PutCommit(r), habit' = habit
      PROVE  Kept
  <2>1. \A s \in Sessions : session'[s] # None =>
          session[s] # None /\ session'[s].status = session[s].status
    <3> SUFFICES ASSUME NEW s \in Sessions, session'[s] # None
                 PROVE  session[s] # None /\ session'[s].status = session[s].status
      OBVIOUS
    <3>1. CASE job[r].sess = s
      BY <1>t, <1>5, <3>1, SessionTyped DEF PutCommit, Row
    <3>2. CASE job[r].sess # s
      BY <1>t, <1>5, <3>2 DEF PutCommit
    <3> QED BY <3>1, <3>2
  <2> QED BY <1>t, <1>5, <2>1 DEF PutCommit, End, Goto, Kept
<1>6. ASSUME NEW r \in Requests, CompleteCheck(r), habit' = habit
      PROVE  Kept
  BY <1>t, <1>6 DEF CompleteCheck, Goto, Kept
<1>7. ASSUME NEW r \in Requests, CompleteMissing(r), habit' = habit
      PROVE  Kept
  BY <1>t, <1>7 DEF CompleteMissing, End, Goto, Kept
<1>8. ASSUME NEW r \in Requests, CompleteRead(r), habit' = habit
      PROVE  Kept
  <2>1. \A q \in Requests : job'[q].sess = job[q].sess
    BY <1>t, <1>8 DEF CompleteRead, Job
  <2>2. \A q \in Requests : q # r => job'[q] = job[q]
    BY <1>t, <1>8 DEF CompleteRead
  <2>3. pc[r] = "c_reading" /\ pc'[r] \in {"c_reading", "c_read"}
        /\ \A q \in Requests : q # r => pc'[q] = pc[q]
    BY <1>t, <1>8 DEF CompleteRead
  <2> QED BY <1>t, <1>8, <2>1, <2>2, <2>3 DEF CompleteRead, Kept
<1>9. ASSUME NEW r \in Requests, CompleteLost(r), habit' = habit
      PROVE  Kept
  BY <1>t, <1>9 DEF CompleteLost, End, Goto, Kept
<1>10. ASSUME NEW r \in Requests, CompleteRefuse(r), habit' = habit
       PROVE  Kept
  <2>1. /\ pc'[r] = "idle" /\ pc[r] = "c_read"
        /\ \A q \in Requests : q # r => pc'[q] = pc[q]
                               \/ (pc[q] = "p_opened" /\ pc'[q] = "p_unlinked")
    BY <1>t, <1>10 DEF CompleteRefuse, Unlinked
  <2>2. \A q \in Requests : q # r => job'[q] = job[q]
    BY <1>t, <1>10 DEF CompleteRefuse
  <2> QED BY <1>10, <2>1, <2>2 DEF CompleteRefuse, Kept
<1>11. ASSUME NEW r \in Requests, CompleteError(r), habit' = habit
       PROVE  Kept
  BY <1>t, <1>11 DEF CompleteError, End, Goto, Kept
<1>12. ASSUME NEW r \in Requests, CompleteClean(r), habit' = habit
       PROVE  Kept
  <2>1. /\ pc'[r] = "idle" /\ pc[r] = "c_marked"
        /\ \A q \in Requests : q # r => pc'[q] = pc[q]
                               \/ (pc[q] = "p_opened" /\ pc'[q] = "p_unlinked")
    BY <1>t, <1>12 DEF CompleteClean, Unlinked
  <2>2. \A q \in Requests : q # r => job'[q] = job[q]
    BY <1>t, <1>12 DEF CompleteClean
  <2>3. UNCHANGED <<made, session>> /\ job'[r] = NoJob
    BY <1>t, <1>12 DEF CompleteClean
  <2> QED BY <1>12, <2>1, <2>2, <2>3 DEF Kept
<1>13. ASSUME NEW r \in Requests, SweepScan(r), habit' = habit
       PROVE  Kept
  BY <1>t, <1>13 DEF SweepScan, Goto, Kept
<1>14. ASSUME NEW r \in Requests, NEW s \in Sessions, SweepRemove(r, s), habit' = habit
       PROVE  Kept
  <2>1. /\ pc[r] = "k_sweeping"
        /\ \A q \in Requests : pc'[q] = pc[q]
                               \/ (pc[q] = "p_opened" /\ pc'[q] = "p_unlinked")
    BY <1>t, <1>14 DEF SweepRemove, Unlinked
  <2>2. \A q \in Requests : q # r => job'[q] = job[q]
    BY <1>t, <1>14 DEF SweepRemove
  <2> QED BY <1>14, <2>1, <2>2 DEF SweepRemove, Kept
<1>15. ASSUME NEW r \in Requests, SweepCommit(r), habit' = habit
       PROVE  Kept
  BY <1>t, <1>15 DEF SweepCommit, End, Goto, Kept
<1>16. ASSUME NEW r \in Requests, Crash(r), habit' = habit
       PROVE  Kept
  BY <1>t, <1>16 DEF Crash, End, Goto, Kept
<1>17. CASE UNCHANGED vars
  BY <1>17 DEF vars, Kept
<1> QED
  BY <1>1, <1>2, <1>3, <1>4, <1>5, <1>6, <1>7, <1>8, <1>9, <1>10, <1>11, <1>12,
     <1>13, <1>14, <1>15, <1>16, <1>17
  DEF Next, Put, Complete, CompleteStep, SweepStep

\* A request that is past the creation of its file has created one.
Saved ==
  \A r \in Requests : pc[r] \in {"c_saved", "c_marked"} => made[job[r].sess] > 0

LEMMA SavedStep ==
  ASSUME Base, Saved, CompletedHasFile, [Next]_vars
  PROVE  Saved' /\ CompletedHasFile'
<1> USE DEF ClientPcs, PutPcs, CompletePcs
<1>t. /\ session \in [Sessions -> Row \cup {None}] /\ made \in [Sessions -> Nat]
      /\ pc \in [Requests -> Pcs] /\ job \in [Requests -> Job]
  BY DEF Base, TypeOK
<1>1. CASE Kept
  BY <1>1 DEF Kept, Saved, CompletedHasFile
<1>2. ASSUME NEW s \in Sessions, Start(s)
      PROVE  Saved' /\ CompletedHasFile'
  BY <1>t, <1>2 DEF Start, Saved, CompletedHasFile
<1>3. ASSUME NEW r \in Requests, NEW s \in Sessions,
             CompleteLoad(r, s) \/ \E i \in Chunks(s) : PutLoad(r, s, i)
      PROVE  Saved' /\ CompletedHasFile'
  <2>1. /\ pc'[r] \notin {"c_saved", "c_marked"}
        /\ \A q \in Requests : q # r => pc'[q] = pc[q] /\ job'[q] = job[q]
        /\ UNCHANGED <<session, made>>
    BY <1>t, <1>3 DEF CompleteLoad, PutLoad, Begin, Goto
  <2> QED BY <2>1 DEF Saved, CompletedHasFile
<1>4. ASSUME NEW r \in Requests, CompleteSave(r)
      PROVE  Saved' /\ CompletedHasFile'
  <2>1. /\ \A s \in Sessions : made'[s] >= made[s]
        /\ made'[job[r].sess] > 0 /\ job[r].sess \in Sessions
        /\ \A q \in Requests : q # r => pc'[q] = pc[q]
        /\ UNCHANGED <<session, job>>
    BY <1>t, <1>4, JobTyped DEF CompleteSave, Goto
  <2>2. \A q \in Requests : pc[q] \in ClientPcs => job[q].sess \in Sessions
    BY JobTyped
  <2> QED BY <1>t, <1>4, <2>1, <2>2 DEF Saved, CompletedHasFile, CompleteSave
<1>5. ASSUME NEW r \in Requests, CompleteMark(r)
      PROVE  Saved' /\ CompletedHasFile'
  <2>1. /\ pc[r] = "c_saved" /\ made' = made
        /\ pc'[r] = "c_marked" => job'[r] = job[r]
        /\ \A q \in Requests : q # r => pc'[q] = pc[q] /\ job'[q] = job[q]
        /\ \A s \in Sessions : s # job[r].sess => session'[s] = session[s]
        /\ session'[job[r].sess] # None => made[job[r].sess] > 0
    BY <1>t, <1>5, JobTyped DEF CompleteMark, End, Goto, Saved
  <2>2. pc'[r] \in {"c_marked", "idle"}
    BY <1>t, <1>5 DEF CompleteMark, End, Goto
  <2> QED BY <2>1, <2>2 DEF Saved, CompletedHasFile
<1> QED BY <1>1, <1>2, <1>3, <1>4, <1>5, KeptSteps

\* Whoever sends what and whichever worker dies: a session marked completed has
\* produced a file.
THEOREM CompletedMeansFile == Spec => []CompletedHasFile
<1> DEFINE Inv == Base /\ Saved /\ CompletedHasFile
<1>1. Init => Inv
  <2>1. Init => Saved /\ CompletedHasFile
    BY DEF Init, Saved, CompletedHasFile
  <2> QED BY <2>1, BaseInit
<1>2. Inv /\ [Next]_vars => Inv'
  BY BaseStep, SavedStep
<1> QED BY <1>1, <1>2, PTL DEF Spec

-----------------------------------------------------------------------------
\* From here on, clients wait for their responses and no worker dies.

Completed(s) == session[s] # None /\ session[s].status = "completed"

\* Each request has its session to itself, so what it read of it is still so.
Turns ==
  /\ \A r, q \in Requests :
       pc[r] \in ClientPcs /\ pc[q] \in ClientPcs /\ job[r].sess = job[q].sess => r = q
  /\ \A r \in Requests :
       /\ pc[r] \in ClientPcs \ {"c_saved", "c_marked"} => made[job[r].sess] = 0
       /\ pc[r] \in ClientPcs \ {"c_marked"} => ~Completed(job[r].sess)

Saving(s) == \E r \in Requests : pc[r] = "c_saved" /\ job[r].sess = s

\* A file of a session in progress is being marked.
Files ==
  \A s \in Sessions :
    /\ made[s] <= 1
    /\ made[s] = 1 /\ InProgress(s) => Saving(s)

LEMMA TurnsStep ==
  ASSUME Base, Calm, Turns, Files, [Next]_vars
  PROVE  Calm' /\ Turns' /\ Files'
<1> USE DEF ClientPcs, PutPcs, CompletePcs
<1>t. /\ session \in [Sessions -> Row \cup {None}] /\ made \in [Sessions -> Nat]
      /\ pc \in [Requests -> Pcs] /\ job \in [Requests -> Job]
  BY DEF Base, TypeOK
<1>u. \A q \in Requests : pc[q] \in ClientPcs => job[q].sess \in Sessions
  BY JobTyped
<1>1. CASE Kept
  <2>1. Calm' /\ Turns'
    BY <1>1, <1>u DEF Kept, Turns, Completed, Calm
  <2>2. ASSUME NEW s \in Sessions, made'[s] = 1, InProgress(s)'
        PROVE  Saving(s)'
    <3>1. Saving(s)
      BY <1>1, <2>2 DEF Kept, InProgress, Files
    <3> QED BY <1>1, <3>1 DEF Kept, Saving, Calm
  <2> QED BY <1>1, <2>1, <2>2 DEF Kept, Files
<1>2. ASSUME NEW s \in Sessions, Start(s), habit' = habit
      PROVE  Calm' /\ Turns' /\ Files'
  <2>1. made[s] = 0 /\ \A r \in Requests : pc[r] \in ClientPcs => job[r].sess # s
    BY <1>t, <1>2 DEF Start, Base, IdsOK, JobsOK
  <2>2. Calm' /\ Turns'
    BY <1>t, <1>2, <2>1 DEF Start, Turns, Completed, Calm
  <2>3. Files'
    BY <1>t, <1>2, <2>1 DEF Start, Files, InProgress, Saving
  <2> QED BY <2>2, <2>3
<1>3. ASSUME NEW r \in Requests, NEW s \in Sessions, habit' = habit,
             CompleteLoad(r, s) \/ \E i \in Chunks(s) : PutLoad(r, s, i)
      PROVE  Calm' /\ Turns' /\ Files'
  <2>1. /\ pc[r] = "idle" /\ InProgress(s) /\ ~Busy(s)
        /\ pc'[r] \in {"c_loaded", "p_loaded"} /\ job'[r].sess = s
        /\ \A q \in Requests : q # r => pc'[q] = pc[q] /\ job'[q] = job[q]
        /\ UNCHANGED <<session, made>>
    <3>1. CASE CompleteLoad(r, s)
      BY <1>t, <3>1 DEF CompleteLoad, Begin, Goto, Job, Calm
    <3>2. ASSUME NEW i \in Chunks(s), PutLoad(r, s, i)
          PROVE  job'[r].sess = s
      BY <1>t, <3>2 DEF PutLoad, Job
    <3>3. ASSUME NEW i \in Chunks(s), PutLoad(r, s, i)
          PROVE  /\ pc[r] = "idle" /\ InProgress(s) /\ ~Busy(s) /\ pc'[r] = "p_loaded"
                 /\ \A q \in Requests : q # r => pc'[q] = pc[q] /\ job'[q] = job[q]
                 /\ UNCHANGED <<session, made>>
      BY <1>t, <3>3 DEF PutLoad, Begin, Goto, Calm
    <3> QED BY <1>3, <3>1, <3>2, <3>3
  <2>2. ~Saving(s)
    BY <2>1 DEF Saving, Busy
  <2>3. made[s] = 0
    BY <1>t, <2>1, <2>2 DEF Files
  <2>4. ~Completed(s)
    BY <2>1 DEF InProgress, Completed
  <2>5. \A q \in Requests : pc[q] \in ClientPcs => job[q].sess # s
    BY <2>1 DEF Busy
  <2>6. Turns'
    BY <2>1, <2>3, <2>4, <2>5 DEF Turns, Completed
  <2>7. Files'
    BY <2>1 DEF Files, InProgress, Saving
  <2> QED BY <1>3, <2>6, <2>7 DEF Calm
<1>4. ASSUME NEW r \in Requests, CompleteSave(r), habit' = habit
      PROVE  Calm' /\ Turns' /\ Files'
  <2> DEFINE s == job[r].sess
  <2>1. /\ pc[r] = "c_read" /\ pc'[r] = "c_saved" /\ s \in Sessions
        /\ \A q \in Requests : q # r => pc'[q] = pc[q]
        /\ made' = [made EXCEPT ![s] = @ + 1]
        /\ UNCHANGED <<session, job>>
    BY <1>t, <1>4, <1>u DEF CompleteSave, Goto
  <2>2. made[s] = 0 /\ \A q \in Requests : q # r /\ pc[q] \in ClientPcs => job[q].sess # s
    BY <2>1 DEF Turns
  <2>3. Turns'
    BY <1>t, <1>u, <2>1, <2>2 DEF Turns, Completed
  <2>4. Files'
    BY <1>t, <2>1, <2>2 DEF Files, InProgress, Saving
  <2> QED BY <1>4, <2>3, <2>4 DEF Calm
<1>5. ASSUME NEW r \in Requests, CompleteMark(r), habit' = habit
      PROVE  Calm' /\ Turns' /\ Files'
  <2> DEFINE s == job[r].sess
  <2>1. /\ pc[r] = "c_saved" /\ made' = made /\ s \in Sessions
        /\ pc'[r] = "idle" \/ (pc'[r] = "c_marked" /\ job'[r] = job[r])
        /\ \A q \in Requests : q # r => pc'[q] = pc[q] /\ job'[q] = job[q]
        /\ \A t \in Sessions : t # s => session'[t] = session[t]
        /\ session'[s] = None \/ session'[s].status = "completed"
    <3>1. session[s] # None =>
            [session[s] EXCEPT !.status = "completed"].status = "completed"
      BY <1>5, <1>t, <1>u, SessionTyped DEF CompleteMark, Goto, End, Row
    <3> QED BY <1>t, <1>5, <1>u, <3>1 DEF CompleteMark, End, Goto, Marked
  <2>2. \A q \in Requests : q # r /\ pc[q] \in ClientPcs => job[q].sess # s
    BY <2>1 DEF Turns
  <2>3. Turns'
    BY <1>u, <2>1, <2>2 DEF Turns, Completed
  <2>4. Files'
    BY <1>t, <2>1, <2>2 DEF Files, InProgress, Saving
  <2> QED BY <1>5, <2>3, <2>4 DEF Calm
<1> QED BY <1>1, <1>2, <1>3, <1>4, <1>5, KeptSteps

Waiting == Calm => Turns /\ Files

LEMMA WaitingStep == Base /\ Waiting /\ [Next]_vars => Waiting'
<1> SUFFICES ASSUME Base, Waiting, [Next]_vars, Calm'
             PROVE  Turns' /\ Files'
  BY DEF Waiting
<1>1. habit' = habit
  BY DEF Next, vars
<1>2. Calm
  BY <1>1 DEF Calm
<1> QED BY <1>2, TurnsStep DEF Waiting

LEMMA WaitingInit == Init => Waiting
BY DEF Init, Waiting, Turns, Files, ClientPcs, PutPcs, CompletePcs

\* A client that waits for its responses gets at most one file per session,
\* whatever the sweep does in the middle of its complete.
THEOREM OneFileForPatient == Spec => []OneFileIfCalm
<1> DEFINE Inv == Base /\ Waiting
<1>1. Init => Inv
  BY BaseInit, WaitingInit
<1>2. Inv /\ [Next]_vars => Inv'
  BY BaseStep, WaitingStep
<1>3. Inv => OneFileIfCalm
  BY DEF Waiting, Files, OneFileIfCalm, AtMostOneFile
<1> QED BY <1>1, <1>2, <1>3, PTL DEF Spec

-----------------------------------------------------------------------------
\* A torn chunk is one that its only request is about to write.
Whole ==
  /\ torn = {}
  /\ \A r \in Requests : ~job[r].torn
  /\ \A s \in Sessions : \A i \in Chunks(s) : staging[s][i] = "torn" =>
       \E r \in Requests :
         pc[r] = "p_opened" /\ job[r].sess = s /\ job[r].chunk = i

\* The steps that touch no chunk file.
Apart ==
  /\ UNCHANGED <<torn, staging>>
  /\ \A q \in Requests :
       /\ job'[q].torn => job[q].torn
       /\ pc[q] = "p_opened" => pc'[q] = "p_opened" /\ job'[q] = job[q]

\* The steps that remove a staging area.
Removing(s) ==
  /\ RemoveStaging(s)
  /\ torn' = torn
  /\ \A q \in Requests :
       /\ job'[q].torn => job[q].torn
       /\ pc[q] = "p_opened" =>
            /\ job'[q] = job[q]
            /\ job[q].sess # s => pc'[q] = "p_opened"

LEMMA WholeSteps ==
  ASSUME Base, ~habit.faults, [Next]_vars
  PROVE  \/ Apart
         \/ \E s \in Sessions : Removing(s)
         \/ \E r \in Requests : \/ PutOpen(r) \/ PutWrite(r)
                                \/ CompleteRead(r) \/ CompleteSave(r)
<1>t. pc \in [Requests -> Pcs] /\ job \in [Requests -> Job] /\ ~NoJob.torn
  BY DEF Base, TypeOK, NoJob
<1>1. ASSUME NEW s \in Sessions, Start(s) \/ Age(s)
      PROVE  Apart
  BY <1>1 DEF Start, Age, Apart
<1>2. ASSUME NEW r \in Requests, NEW s \in Sessions, NEW i \in Chunks(s), PutLoad(r, s, i)
      PROVE  Apart
  <2>1. \A q \in Requests : job'[q].torn = job[q].torn
    BY <1>t, <1>2 DEF PutLoad, Job
  <2> QED BY <1>t, <1>2, <2>1 DEF PutLoad, Begin, Goto, Apart
<1>3. ASSUME NEW r \in Requests, NEW s \in Sessions, CompleteLoad(r, s)
      PROVE  Apart
  <2>1. \A q \in Requests : job'[q].torn = job[q].torn
    BY <1>t, <1>3 DEF CompleteLoad, Job
  <2> QED BY <1>t, <1>3, <2>1 DEF CompleteLoad, Begin, Goto, Apart
<1>4. ASSUME NEW r \in Requests, PutCount(r)
      PROVE  Apart
  <2>1. \A q \in Requests : job'[q].torn = job[q].torn
    BY <1>t, <1>4 DEF PutCount, Job
  <2> QED BY <1>t, <1>4, <2>1 DEF PutCount, Goto, Apart
<1>5. ASSUME NEW r \in Requests,
             \/ PutCommit(r) \/ CompleteCheck(r) \/ CompleteMissing(r)
             \/ CompleteLost(r) \/ CompleteError(r) \/ CompleteMark(r)
             \/ SweepCommit(r)
      PROVE  Apart
  BY <1>t, <1>5 DEF PutCommit, CompleteCheck, CompleteMissing, CompleteLost,
     CompleteError, CompleteMark, SweepCommit, End, Goto, Apart
<1>6. ASSUME NEW r \in Requests, SweepScan(r)
      PROVE  Apart
  <2>1. \A q \in Requests : job'[q].torn = job[q].torn
    BY <1>t, <1>6 DEF SweepScan, Job
  <2> QED BY <1>t, <1>6, <2>1 DEF SweepScan, Goto, Apart
<1>7. ASSUME NEW r \in Requests, CompleteRefuse(r) \/ CompleteClean(r)
      PROVE  \E s \in Sessions : Removing(s)
  <2>1. /\ pc[r] \in {"c_read", "c_marked"}
        /\ \A q \in Requests : q # r => job'[q] = job[q]
        /\ job'[r] = NoJob
        /\ RemoveStaging(job[r].sess) /\ torn' = torn
    BY <1>t, <1>7 DEF CompleteRefuse, CompleteClean
  <2>2. \A q \in Requests : pc[q] = "p_opened" /\ job[q].sess # job[r].sess
                              => pc'[q] = "p_opened"
    BY <1>t, <1>7, <2>1 DEF CompleteRefuse, CompleteClean, Unlinked
  <2>3. job[r].sess \in Sessions
    BY <2>1, JobTyped DEF ClientPcs, CompletePcs
  <2> QED BY <1>t, <2>1, <2>2, <2>3 DEF Removing
<1>8. ASSUME NEW r \in Requests, NEW s \in Sessions, SweepRemove(r, s)
      PROVE  Removing(s)
  <2>1. \A q \in Requests : job'[q].torn = job[q].torn
    BY <1>t, <1>8 DEF SweepRemove, Job
  <2>2. pc[r] = "k_sweeping" /\ \A q \in Requests : q # r => job'[q] = job[q]
    BY <1>t, <1>8 DEF SweepRemove
  <2>3. \A q \in Requests : pc[q] = "p_opened" /\ job[q].sess # s => pc'[q] = "p_opened"
    BY <1>t, <1>8 DEF SweepRemove, Unlinked
  <2> QED BY <1>8, <2>1, <2>2, <2>3 DEF SweepRemove, Removing
<1>9. CASE UNCHANGED vars
  BY <1>9 DEF vars, Apart
<1> QED
  BY <1>1, <1>2, <1>3, <1>4, <1>5, <1>6, <1>7, <1>8, <1>9
  DEF Next, Put, Complete, CompleteStep, SweepStep, Crash

LEMMA WholeStep ==
  ASSUME Base, Calm, Turns, Whole, [Next]_vars
  PROVE  Whole'
<1>t. /\ pc \in [Requests -> Pcs] /\ job \in [Requests -> Job]
      /\ \A s \in Sessions : staging[s] \in [Chunks(s) -> ChunkFile]
      /\ DOMAIN staging = Sessions
  BY DEF Base, TypeOK
<1>1. CASE Apart
  <2>1. ASSUME NEW s \in Sessions, NEW i \in Chunks(s), staging'[s][i] = "torn"
        PROVE  \E r \in Requests :
                 pc'[r] = "p_opened" /\ job'[r].sess = s /\ job'[r].chunk = i
    BY <1>1, <2>1 DEF Apart, Whole
  <2> QED BY <1>1, <2>1 DEF Apart, Whole, Chunks
<1>2. ASSUME NEW s \in Sessions, Removing(s)
      PROVE  Whole'
  <2>1. ASSUME NEW t \in Sessions, NEW i \in Chunks(t), staging'[t][i] = "torn"
        PROVE  \E r \in Requests :
                 pc'[r] = "p_opened" /\ job'[r].sess = t /\ job'[r].chunk = i
    <3>1. t # s /\ staging'[t] = staging[t]
      BY <1>t, <1>2, <2>1 DEF Removing, RemoveStaging
    <3> QED BY <1>2, <2>1, <3>1 DEF Removing, Whole
  <2> QED BY <1>2, <2>1 DEF Removing, Whole, Chunks
<1>3. ASSUME NEW r \in Requests, PutOpen(r) \/ PutWrite(r)
      PROVE  Whole'
  <2> DEFINE s == job[r].sess
             i == job[r].chunk
  <2>1. /\ UNCHANGED <<job, torn>>
        /\ pc[r] \in {"p_loaded", "p_opened", "p_unlinked"}
        /\ \A q \in Requests : q # r => pc'[q] = pc[q]
    BY <1>t, <1>3 DEF PutOpen, PutWrite, Goto
  <2>2. s \in Sessions /\ i \in Chunks(s)
    BY <2>1, JobTyped DEF ClientPcs, PutPcs
  <2>3. ASSUME NEW t \in Sessions, NEW k \in Chunks(t), staging'[t][k] = "torn"
        PROVE  \E q \in Requests :
                 pc'[q] = "p_opened" /\ job'[q].sess = t /\ job'[q].chunk = k
    <3>1. CASE PutOpen(r)
      <4>1. pc'[r] = "p_opened" /\ pc[r] = "p_loaded"
        BY <1>t, <3>1 DEF PutOpen, Goto
      <4>2. CASE t = s /\ k = i
        BY <2>1, <4>1, <4>2
      <4>3. CASE ~(t = s /\ k = i)
        <5>1. staging'[t][k] = staging[t][k]
          BY <1>t, <2>2, <2>3, <3>1, <4>3 DEF PutOpen
        <5>2. PICK q \in Requests : pc[q] = "p_opened" /\ job[q].sess = t /\ job[q].chunk = k
          BY <2>3, <5>1 DEF Whole
        <5> QED BY <2>1, <4>1, <5>2
      <4> QED BY <4>2, <4>3
    <3>2. CASE PutWrite(r) /\ pc[r] = "p_opened"
      <4>1. staging' = [staging EXCEPT ![s][i] = "whole"]
        BY <3>2 DEF PutWrite, Goto
      <4>2. staging'[t][k] = staging[t][k] /\ ~(t = s /\ k = i)
        BY <1>t, <2>2, <2>3, <4>1
      <4>3. PICK q \in Requests : pc[q] = "p_opened" /\ job[q].sess = t /\ job[q].chunk = k
        BY <2>3, <4>2 DEF Whole
      <4> QED BY <2>1, <4>2, <4>3
    <3>3. CASE PutWrite(r) /\ pc[r] # "p_opened"
      <4>1. staging' = staging
        BY <3>3 DEF PutWrite, Goto
      <4>2. PICK q \in Requests : pc[q] = "p_opened" /\ job[q].sess = t /\ job[q].chunk = k
        BY <2>3, <4>1 DEF Whole
      <4> QED BY <2>1, <3>3, <4>2
    <3> QED BY <1>3, <3>1, <3>2, <3>3
  <2> QED BY <2>1, <2>3 DEF Whole, Chunks
<1>4. ASSUME NEW r \in Requests, CompleteRead(r)
      PROVE  Whole'
  <2> DEFINE s == job[r].sess
             i == job[r].chunk
  <2>1. pc[r] = "c_reading" /\ UNCHANGED <<staging, torn>>
    BY <1>4 DEF CompleteRead
  <2>2. s \in Sessions /\ i \in Chunks(s)
    BY <2>1, JobTyped DEF ClientPcs, CompletePcs
  <2>3. staging[s][i] # "torn"
    BY <2>1, <2>2 DEF Whole, Turns, ClientPcs, CompletePcs, PutPcs
  <2>4. \A q \in Requests : /\ ~job'[q].torn
                            /\ q # r => pc'[q] = pc[q] /\ job'[q] = job[q]
    BY <1>t, <1>4, <2>3 DEF CompleteRead, Job, Whole
  <2>5. ASSUME NEW t \in Sessions, NEW k \in Chunks(t), staging'[t][k] = "torn"
        PROVE  \E q \in Requests :
                 pc'[q] = "p_opened" /\ job'[q].sess = t /\ job'[q].chunk = k
    <3>1. PICK q \in Requests : pc[q] = "p_opened" /\ job[q].sess = t /\ job[q].chunk = k
      BY <2>1, <2>5 DEF Whole
    <3> QED BY <2>1, <2>4, <3>1
  <2> QED BY <2>1, <2>4, <2>5 DEF Whole, Chunks
<1>5. ASSUME NEW r \in Requests, CompleteSave(r)
      PROVE  Whole'
  <2>1. /\ UNCHANGED <<job, staging>> /\ torn' = torn
        /\ \A q \in Requests : pc[q] = "p_opened" => pc'[q] = pc[q]
    BY <1>t, <1>5 DEF CompleteSave, Goto, Whole
  <2>2. ASSUME NEW t \in Sessions, NEW k \in Chunks(t), staging'[t][k] = "torn"
        PROVE  \E q \in Requests :
                 pc'[q] = "p_opened" /\ job'[q].sess = t /\ job'[q].chunk = k
    BY <2>1, <2>2 DEF Whole
  <2> QED BY <2>1, <2>2 DEF Whole, Chunks
<1> QED BY <1>1, <1>2, <1>3, <1>4, <1>5, WholeSteps DEF Calm

WaitingWhole == Waiting /\ (Calm => Whole)

\* A client that waits for its responses never gets a file that was assembled
\* from a chunk another request was rewriting.
THEOREM PatientFilesWhole == Spec => []NoTornFile
<1> DEFINE Inv == Base /\ WaitingWhole
<1>1. Init => Inv
  <2>1. Init => Whole
    BY DEF Init, Whole, NoJob
  <2> QED BY <2>1, BaseInit, WaitingInit DEF WaitingWhole
<1>2. Inv /\ [Next]_vars => Inv'
  <2> SUFFICES ASSUME Inv, [Next]_vars
               PROVE  Inv'
    OBVIOUS
  <2>1. Calm' => Calm
    BY DEF Next, vars, Calm
  <2>2. Calm => Turns
    BY DEF Waiting, WaitingWhole
  <2>3. Calm' => Whole'
    BY <2>1, <2>2, WholeStep DEF WaitingWhole
  <2> QED BY <2>3, BaseStep, WaitingStep DEF WaitingWhole
<1>3. Inv => NoTornFile
  BY DEF WaitingWhole, Whole, NoTornFile
<1> QED BY <1>1, <1>2, <1>3, PTL DEF Spec

-----------------------------------------------------------------------------
\* What is left of a completed session is about to be removed.
Marking(s) == \E r \in Requests : pc[r] = "c_marked" /\ job[r].sess = s

Staged == \A s \in Sessions : Completed(s) => Present(s) = {} \/ Marking(s)

LEMMA PresentAfter ==
  ASSUME Base, NEW s \in Sessions
  PROVE  /\ RemoveStaging(s) =>
              /\ Present(s)' = {}
              /\ \A t \in Sessions \ {s} : Present(t)' = Present(t)
         /\ \A i \in Chunks(s), c \in ChunkFile \ {"missing"} :
              staging' = [staging EXCEPT ![s][i] = c] =>
                /\ Present(s)' = Present(s) \cup {i}
                /\ \A t \in Sessions \ {s} : Present(t)' = Present(t)
         /\ staging' = staging => \A t \in Sessions : Present(t)' = Present(t)
<1>t. /\ \A t \in Sessions : staging[t] \in [Chunks(t) -> ChunkFile]
      /\ DOMAIN staging = Sessions
  BY DEF Base, TypeOK
<1>1. ASSUME RemoveStaging(s)
      PROVE  /\ Present(s)' = {}
             /\ \A t \in Sessions \ {s} : Present(t)' = Present(t)
  BY <1>t, <1>1 DEF RemoveStaging, Present, Chunks
<1>2. ASSUME NEW i \in Chunks(s), NEW c \in ChunkFile \ {"missing"},
             staging' = [staging EXCEPT ![s][i] = c]
      PROVE  /\ Present(s)' = Present(s) \cup {i}
             /\ \A t \in Sessions \ {s} : Present(t)' = Present(t)
  <2>1. staging'[s] = [staging[s] EXCEPT ![i] = c]
        /\ \A t \in Sessions \ {s} : staging'[t] = staging[t]
    BY <1>t, <1>2
  <2>2. \A k \in Chunks(s) : staging'[s][k] = IF k = i THEN c ELSE staging[s][k]
    BY <1>t, <2>1
  <2> QED BY <1>2, <2>1, <2>2 DEF Present, Chunks
<1>3. ASSUME staging' = staging
      PROVE  \A t \in Sessions : Present(t)' = Present(t)
  BY <1>3 DEF Present, Chunks
<1> QED BY <1>1, <1>2, <1>3

\* The steps of a request that opens or writes a chunk file.
LEMMA Writing ==
  ASSUME Base, NEW r \in Requests, PutOpen(r) \/ PutWrite(r)
  PROVE  /\ pc[r] \in {"p_loaded", "p_opened", "p_unlinked"}
         /\ pc'[r] = (IF pc[r] = "p_loaded" THEN "p_opened" ELSE "p_written")
         /\ \A q \in Requests : q # r => pc'[q] = pc[q]
         /\ UNCHANGED <<session, started, job>>
         /\ job[r].sess \in Sessions
         /\ \A t \in Sessions :
              \/ Present(t)' = Present(t)
              \/ t = job[r].sess /\ pc[r] # "p_unlinked"
<1>t. pc \in [Requests -> Pcs] /\ job \in [Requests -> Job]
  BY DEF Base, TypeOK
<1>1. /\ pc[r] \in {"p_loaded", "p_opened", "p_unlinked"}
      /\ pc'[r] = (IF pc[r] = "p_loaded" THEN "p_opened" ELSE "p_written")
      /\ \A q \in Requests : q # r => pc'[q] = pc[q]
      /\ UNCHANGED <<session, started, job>>
  BY <1>t DEF PutOpen, PutWrite, Goto
<1>2. job[r].sess \in Sessions /\ job[r].chunk \in Chunks(job[r].sess)
  BY <1>1, JobTyped DEF ClientPcs, PutPcs
<1>3. \/ staging' = staging
      \/ /\ pc[r] # "p_unlinked"
         /\ \E c \in ChunkFile \ {"missing"} :
              staging' = [staging EXCEPT ![job[r].sess][job[r].chunk] = c]
  BY DEF PutOpen, PutWrite, Goto, ChunkFile
<1>4. CASE staging' = staging
  BY <1>1, <1>2, <1>4, PresentAfter
<1>5. CASE /\ pc[r] # "p_unlinked"
           /\ \E c \in ChunkFile \ {"missing"} :
                staging' = [staging EXCEPT ![job[r].sess][job[r].chunk] = c]
  <2>1. PICK c \in ChunkFile \ {"missing"} :
                staging' = [staging EXCEPT ![job[r].sess][job[r].chunk] = c]
    BY <1>5
  <2>2. \A t \in Sessions \ {job[r].sess} : Present(t)' = Present(t)
    BY <1>2, <2>1, PresentAfter
  <2> QED BY <1>1, <1>2, <1>5, <2>2
<1> QED BY <1>3, <1>4, <1>5

\* Every other step leaves the staged chunks of a session or removes them all.
LEMMA Leaving ==
  ASSUME Base, [Next]_vars, NEW s \in Sessions,
         ~\E r \in Requests : PutOpen(r) \/ PutWrite(r)
  PROVE  Present(s)' = {} \/ Present(s)' = Present(s)
<1>1. ASSUME NEW r \in Requests, CompleteRefuse(r) \/ CompleteClean(r)
      PROVE  Present(s)' = {} \/ Present(s)' = Present(s)
  <2>1. RemoveStaging(job[r].sess) /\ job[r].sess \in Sessions
    BY <1>1, JobTyped DEF CompleteRefuse, CompleteClean, ClientPcs, CompletePcs
  <2> QED BY <2>1, PresentAfter
<1>2. ASSUME NEW r \in Requests, NEW t \in Sessions, SweepRemove(r, t)
      PROVE  Present(s)' = {} \/ Present(s)' = Present(s)
  <2>1. RemoveStaging(t)
    BY <1>2 DEF SweepRemove
  <2> QED BY <2>1, PresentAfter
<1>3. CASE staging' = staging
  BY <1>3, PresentAfter
<1> QED
  BY <1>1, <1>2, <1>3
  DEF Next, Put, Complete, CompleteStep, SweepStep, vars, Start, Age, PutLoad,
      PutCount, PutCommit, CompleteLoad, CompleteCheck, CompleteMissing,
      CompleteRead, CompleteLost, CompleteError, CompleteSave, CompleteMark,
      SweepScan, SweepCommit, Crash

LEMMA StagedStep ==
  ASSUME Base, Calm, Turns, Staged, [Next]_vars
  PROVE  Staged'
<1> USE DEF ClientPcs, PutPcs, CompletePcs
<1>t. /\ session \in [Sessions -> Row \cup {None}]
      /\ pc \in [Requests -> Pcs] /\ job \in [Requests -> Job]
  BY DEF Base, TypeOK
<1> SUFFICES ASSUME NEW s \in Sessions, Completed(s)', Present(s)' # {}
             PROVE  Marking(s)'
  BY DEF Staged
<1>1. CASE \E r \in Requests : PutOpen(r) \/ PutWrite(r)
  <2>1. PICK r \in Requests : PutOpen(r) \/ PutWrite(r)
    BY <1>1
  <2>2. Completed(s)
    BY <2>1, Writing DEF Completed
  <2>3. s # job[r].sess
    BY <2>1, <2>2, Writing DEF Turns
  <2>4. Marking(s)
    BY <2>1, <2>2, <2>3, Writing DEF Staged
  <2> QED BY <2>1, <2>4, Writing DEF Marking
<1>2. CASE ~\E r \in Requests : PutOpen(r) \/ PutWrite(r)
  <2>1. Present(s) # {}
    BY <1>2, Leaving
  <2>2. ASSUME NEW r \in Requests, CompleteMark(r), s = job[r].sess
        PROVE  Marking(s)'
    BY <1>t, <2>2 DEF CompleteMark, Goto, End, Marking, Completed
  <2>3. ASSUME ~\E r \in Requests : CompleteMark(r) /\ s = job[r].sess
        PROVE  Completed(s)
    <3>1. CASE Kept
      BY <3>1 DEF Kept, Completed
    <3>2. ASSUME NEW t \in Sessions, Start(t)
          PROVE  Completed(s)
      BY <1>t, <3>2 DEF Start, Completed
    <3>3. ASSUME NEW r \in Requests, CompleteMark(r)
          PROVE  Completed(s)
      BY <1>t, <2>3, <3>3 DEF CompleteMark, Completed
    <3>4. CASE session' = session
      BY <3>4 DEF Completed
    <3> QED BY <3>1, <3>2, <3>3, <3>4, KeptSteps
        DEF CompleteLoad, PutLoad, CompleteSave
  <2>4. ASSUME Completed(s)
        PROVE  Marking(s)'
    <3>1. PICK r \in Requests : pc[r] = "c_marked" /\ job[r].sess = s
      BY <2>1, <2>4 DEF Staged, Marking
    <3>2. ASSUME CompleteClean(r)
          PROVE  FALSE
      BY <3>1, <3>2, PresentAfter DEF CompleteClean
    <3>3. pc'[r] = "c_marked" /\ job'[r] = job[r]
      <4>1. CASE Kept
        BY <3>1, <3>2, <4>1 DEF Kept, Calm
      <4>2. ASSUME NEW t \in Sessions, Start(t)
            PROVE  pc'[r] = "c_marked" /\ job'[r] = job[r]
        BY <3>1, <4>2 DEF Start
      <4>3. ASSUME NEW q \in Requests, NEW t \in Sessions,
                   CompleteLoad(q, t) \/ \E i \in Chunks(t) : PutLoad(q, t, i)
            PROVE  pc'[r] = "c_marked" /\ job'[r] = job[r]
        BY <1>t, <3>1, <4>3 DEF CompleteLoad, PutLoad, Begin, Goto
      <4>4. ASSUME NEW q \in Requests, CompleteSave(q) \/ CompleteMark(q)
            PROVE  pc'[r] = "c_marked" /\ job'[r] = job[r]
        BY <1>t, <3>1, <4>4 DEF CompleteSave, CompleteMark, End, Goto
      <4> QED BY <4>1, <4>2, <4>3, <4>4, KeptSteps
    <3> QED BY <3>1, <3>3 DEF Marking
  <2> QED BY <2>2, <2>3, <2>4
<1> QED BY <1>1, <1>2

\* A completed session leaves nothing in the staging area, if its client waits.
THEOREM PatientLeaveNothing == Spec => []CompletedLeavesNoStaging
<1> DEFINE Inv == Base /\ Waiting /\ (Calm => Staged)
<1>1. Init => Inv
  <2>1. Init => Staged
    BY DEF Init, Staged, Completed
  <2> QED BY <2>1, BaseInit, WaitingInit
<1>2. Inv /\ [Next]_vars => Inv'
  <2> SUFFICES ASSUME Inv, [Next]_vars
               PROVE  Inv'
    OBVIOUS
  <2>1. Calm' => Calm
    BY DEF Next, vars, Calm
  <2>2. Calm => Turns
    BY DEF Waiting
  <2>3. Calm' => Staged'
    BY <2>1, <2>2, StagedStep
  <2> QED BY <2>3, BaseStep, WaitingStep
<1>3. Inv => CompletedLeavesNoStaging
  BY DEF Staged, Marking, Completed, Busy, ClientPcs, CompletePcs, CompletedLeavesNoStaging
<1> QED BY <1>1, <1>2, <1>3, PTL DEF Spec

-----------------------------------------------------------------------------
\* The number on the row, the number a request has counted, and the files.
Swept(s) == \E q \in Requests : pc[q] = "k_sweeping" /\ s \in job[q].gone

Exact(s) == Present(s) = {} \/ session[s].received = Cardinality(Present(s))

Settled(s) ==
  \A r \in Requests :
    pc[r] \in PutPcs \ {"p_loaded"} => job[r].sess # s

PutKnows(r, s) ==
  /\ job[r].loaded = session[s].received
  /\ pc[r] # "p_unlinked"
  /\ pc[r] = "p_counted" => job[r].count = Cardinality(Present(s))

Counted ==
  \A s \in Sessions :
    /\ s \notin started => Present(s) = {}
    /\ InProgress(s) /\ ~Swept(s) =>
         /\ Settled(s) => Exact(s)
         /\ \A r \in Requests : pc[r] \in PutPcs /\ job[r].sess = s => PutKnows(r, s)

\* A sweep that has removed a session's files ends by deleting its row.
LEMMA SweptStep ==
  ASSUME Base, Calm, [Next]_vars, NEW s \in Sessions,
         InProgress(s)', ~Swept(s)'
  PROVE  \/ Start(s)
         \/ InProgress(s) /\ ~Swept(s)
<1>t. /\ session \in [Sessions -> Row \cup {None}]
      /\ pc \in [Requests -> Pcs] /\ job \in [Requests -> Job]
  BY DEF Base, TypeOK
<1>1. Start(s) \/ InProgress(s)
  <2>1. CASE Kept
    BY <2>1 DEF Kept, InProgress
  <2>2. ASSUME NEW t \in Sessions, Start(t), t # s
        PROVE  InProgress(s)
    BY <1>t, <2>2 DEF Start, InProgress
  <2>3. ASSUME NEW r \in Requests, CompleteMark(r)
        PROVE  InProgress(s)
    <3>1. CASE job[r].sess = s
      BY <1>t, <2>3, <3>1, SessionTyped DEF CompleteMark, Marked, InProgress, Row
    <3>2. CASE job[r].sess # s
      BY <1>t, <2>3, <3>2 DEF CompleteMark, InProgress
    <3> QED BY <3>1, <3>2
  <2>4. CASE session' = session
    BY <2>4 DEF InProgress
  <2> QED BY <2>1, <2>2, <2>3, <2>4, KeptSteps
      DEF CompleteLoad, PutLoad, CompleteSave
<1>2. ASSUME NEW q \in Requests, pc[q] = "k_sweeping", s \in job[q].gone
      PROVE  FALSE
  <2>1. ~SweepCommit(q)
    BY <1>t, <1>2 DEF SweepCommit, InProgress
  <2>2. ASSUME NEW t \in Sessions, SweepRemove(q, t)
        PROVE  FALSE
    BY <1>t, <1>2, <2>2 DEF SweepRemove, Unlinked, Swept, Job
  <2>3. ASSUME pc'[q] = pc[q], job'[q] = job[q]
        PROVE  FALSE
    BY <1>2, <2>3 DEF Swept
  <2>4. ASSUME NEW r \in Requests, NEW t \in Sessions,
               CompleteLoad(r, t) \/ (\E i \in Chunks(t) : PutLoad(r, t, i))
        PROVE  FALSE
    BY <1>t, <1>2, <2>3, <2>4 DEF CompleteLoad, PutLoad, Begin, Goto
  <2>5. ASSUME NEW r \in Requests,
               \/ PutOpen(r) \/ PutWrite(r) \/ PutCount(r) \/ PutCommit(r)
               \/ CompleteCheck(r) \/ CompleteMissing(r) \/ CompleteLost(r)
               \/ CompleteError(r) \/ CompleteSave(r)
        PROVE  FALSE
    BY <1>t, <1>2, <2>3, <2>5
    DEF PutOpen, PutWrite, PutCount, PutCommit, CompleteCheck, CompleteMissing,
        CompleteLost, CompleteError, CompleteSave, Goto, End
  <2>6. ASSUME NEW r \in Requests, CompleteRead(r) \/ CompleteMark(r)
        PROVE  FALSE
    BY <1>t, <1>2, <2>3, <2>6 DEF CompleteRead, CompleteMark, Goto, End
  <2>7. ASSUME NEW r \in Requests, CompleteRefuse(r) \/ CompleteClean(r)
        PROVE  FALSE
    BY <1>t, <1>2, <2>3, <2>7 DEF CompleteRefuse, CompleteClean, Unlinked
  <2>8. ASSUME NEW r \in Requests, r # q, SweepScan(r) \/ SweepCommit(r)
        PROVE  FALSE
    BY <1>t, <1>2, <2>3, <2>8 DEF SweepScan, SweepCommit, Goto, End
  <2>9. ASSUME NEW r \in Requests, r # q, NEW t \in Sessions, SweepRemove(r, t)
        PROVE  FALSE
    BY <1>t, <1>2, <2>3, <2>9 DEF SweepRemove, Unlinked
  <2>10. ~SweepScan(q)
    BY <1>2 DEF SweepScan, Goto
  <2>11. ASSUME NEW t \in Sessions, Start(t) \/ Age(t)
         PROVE  FALSE
    BY <2>3, <2>11 DEF Start, Age
  <2>12. CASE UNCHANGED vars
    BY <2>3, <2>12 DEF vars
  <2> QED
    BY <2>1, <2>2, <2>4, <2>5, <2>6, <2>7, <2>8, <2>9, <2>10, <2>11, <2>12
    DEF Next, Put, Complete, CompleteStep, SweepStep, Crash, Calm
<1> QED BY <1>1, <1>2 DEF Swept

\* A step that changes nothing about a session keeps what is known of it.
LEMMA CountedFrame ==
  ASSUME NEW s \in Sessions, InProgress(s), ~Swept(s), Counted,
         session'[s] = session[s],
         Present(s)' = Present(s),
         \A q \in Requests :
           /\ pc'[q] \in PutPcs /\ job'[q].sess = s =>
                /\ pc'[q] = pc[q] /\ job'[q].sess = job[q].sess
                /\ job'[q].loaded = job[q].loaded /\ job'[q].count = job[q].count
           /\ pc[q] \in PutPcs \ {"p_loaded"} /\ job[q].sess = s =>
                pc'[q] = pc[q] /\ job'[q].sess = s
  PROVE  /\ Settled(s)' => Exact(s)'
         /\ \A r \in Requests : pc'[r] \in PutPcs /\ job'[r].sess = s => PutKnows(r, s)'
<1>1. Settled(s)' => Settled(s)
  BY DEF Settled
<1>2. Exact(s) => Exact(s)'
  BY DEF Exact
<1>3. ASSUME NEW r \in Requests, pc'[r] \in PutPcs, job'[r].sess = s
      PROVE  PutKnows(r, s)'
  <2>1. PutKnows(r, s)
    BY <1>3 DEF Counted
  <2> QED BY <1>3, <2>1 DEF PutKnows
<1> QED BY <1>1, <1>2, <1>3 DEF Counted

LEMMA FreshEmpty ==
  ASSUME Base, Counted, [Next]_vars, NEW s \in Sessions, s \notin started'
  PROVE  Present(s)' = {}
<1>1. s \notin started
  BY DEF Next, Put, Complete, CompleteStep, SweepStep, vars, Start, Age, PutLoad, PutOpen,
      PutWrite, PutCount, PutCommit, CompleteLoad, CompleteCheck, CompleteMissing,
      CompleteRead, CompleteLost, CompleteRefuse, CompleteError, CompleteSave,
      CompleteMark, CompleteClean, SweepScan, SweepRemove, SweepCommit, Crash
<1>2. Present(s) = {}
  BY <1>1 DEF Counted
<1>3. ASSUME NEW r \in Requests, PutOpen(r) \/ PutWrite(r)
      PROVE  Present(s)' = {}
  <2>1. pc[r] \in ClientPcs
    BY <1>3, Writing DEF ClientPcs, PutPcs
  <2>2. job[r].sess # s
    BY <1>1, <2>1, JobTyped
  <2> QED BY <1>2, <1>3, <2>2, Writing
<1> QED BY <1>2, <1>3, Leaving

LEMMA CountedStep ==
  ASSUME Base, Calm, Turns, Counted, [Next]_vars
  PROVE  Counted'
<1> USE DEF ClientPcs, PutPcs, CompletePcs
<1>t. /\ session \in [Sessions -> Row \cup {None}]
      /\ pc \in [Requests -> Pcs] /\ job \in [Requests -> Job]
  BY DEF Base, TypeOK
<1> SUFFICES ASSUME NEW s \in Sessions, InProgress(s)', ~Swept(s)'
             PROVE  /\ Settled(s)' => Exact(s)'
                    /\ \A r \in Requests :
                         pc'[r] \in PutPcs /\ job'[r].sess = s => PutKnows(r, s)'
  BY FreshEmpty DEF Counted
<1>0. CASE Start(s)
  <2>1. Present(s)' = {}
    BY <1>0, PresentAfter DEF Start, Counted
  <2>2. \A r \in Requests : pc[r] \in PutPcs => job[r].sess # s
    BY <1>0, JobTyped DEF Start
  <2>3. pc' = pc /\ job' = job
    BY <1>0 DEF Start
  <2> QED BY <2>1, <2>2, <2>3 DEF Exact
<1>i. CASE ~Start(s)
  <2>i. InProgress(s) /\ ~Swept(s) /\ session[s] # None /\ session'[s] # None
    BY <1>i, SweptStep DEF InProgress
  <2>a. ASSUME NEW r \in Requests, pc[r] \in ClientPcs, job[r].sess = s
        PROVE  \A q \in Requests : q # r /\ pc[q] \in ClientPcs => job[q].sess # s
    BY <2>a DEF Turns
  <2>1. ASSUME staging' = staging, pc' = pc, job' = job, session'[s] = session[s]
        PROVE  /\ Settled(s)' => Exact(s)'
               /\ \A r \in Requests :
                    pc'[r] \in PutPcs /\ job'[r].sess = s => PutKnows(r, s)'
    <3>1. Present(s)' = Present(s)
      BY <2>1, PresentAfter
    <3> HIDE DEF PutPcs
    <3> QED BY <2>i, <2>1, <3>1, CountedFrame
  <2>2. ASSUME NEW r \in Requests, NEW t \in Sessions, NEW i \in Chunks(t), PutLoad(r, t, i)
        PROVE  /\ Settled(s)' => Exact(s)'
               /\ \A q \in Requests :
                    pc'[q] \in PutPcs /\ job'[q].sess = s => PutKnows(q, s)'
    <3>1. /\ pc[r] = "idle" /\ pc'[r] = "p_loaded"
          /\ job'[r].sess = t /\ job'[r].loaded = session[t].received
          /\ \A q \in Requests : q # r => pc'[q] = pc[q] /\ job'[q] = job[q]
          /\ session' = session /\ staging' = staging
      BY <1>t, <2>2 DEF PutLoad, Begin, Goto, Job
    <3>2. Present(s)' = Present(s)
      BY <3>1, PresentAfter
    <3>3. Settled(s)' => Settled(s)
      BY <3>1 DEF Settled
    <3>4. Exact(s) => Exact(s)'
      BY <3>1, <3>2 DEF Exact
    <3>5. ASSUME NEW q \in Requests, pc'[q] \in PutPcs, job'[q].sess = s
          PROVE  PutKnows(q, s)'
      <4>1. CASE q = r
        BY <3>1, <3>5, <4>1 DEF PutKnows
      <4>2. CASE q # r
        <5>1. PutKnows(q, s)
          BY <2>i, <3>1, <3>5, <4>2 DEF Counted
        <5> QED BY <3>1, <3>2, <4>2, <5>1 DEF PutKnows
      <4> QED BY <4>1, <4>2
    <3> QED BY <2>i, <3>3, <3>4, <3>5 DEF Counted
  <2>3. ASSUME NEW r \in Requests, PutOpen(r) \/ PutWrite(r)
        PROVE  /\ Settled(s)' => Exact(s)'
               /\ \A q \in Requests :
                    pc'[q] \in PutPcs /\ job'[q].sess = s => PutKnows(q, s)'
    <3>1. CASE job[r].sess = s
      <4>1. PutKnows(r, s)
        BY <2>i, <2>3, <3>1, Writing DEF Counted
      <4>2. pc'[r] \in {"p_opened", "p_written"}
        BY <2>3, Writing
      <4>3. ~Settled(s)'
        BY <2>3, <3>1, <4>2, Writing DEF Settled
      <4>4. \A q \in Requests : pc'[q] \in PutPcs /\ job'[q].sess = s => q = r
        BY <2>3, <2>a, <3>1, Writing
      <4> QED BY <2>3, <4>1, <4>2, <4>3, <4>4, Writing DEF PutKnows
    <3>2. CASE job[r].sess # s
      <4>1. Present(s)' = Present(s) /\ session'[s] = session[s]
            /\ job' = job /\ \A q \in Requests : q # r => pc'[q] = pc[q]
        BY <2>3, <3>2, Writing
      <4> HIDE DEF PutPcs
      <4> QED BY <2>i, <3>2, <4>1, CountedFrame
    <3> QED BY <3>1, <3>2
  <2>4. ASSUME NEW r \in Requests, PutCount(r)
        PROVE  /\ Settled(s)' => Exact(s)'
               /\ \A q \in Requests :
                    pc'[q] \in PutPcs /\ job'[q].sess = s => PutKnows(q, s)'
    <3>1. /\ pc[r] = "p_written" /\ pc'[r] = "p_counted"
          /\ job'[r].sess = job[r].sess /\ job'[r].loaded = job[r].loaded
          /\ job'[r].count = Cardinality(Present(job[r].sess))
          /\ \A q \in Requests : q # r => pc'[q] = pc[q] /\ job'[q] = job[q]
          /\ session' = session /\ staging' = staging
      BY <1>t, <2>4 DEF PutCount, Goto, Job
    <3>2. Present(s)' = Present(s)
      BY <3>1, PresentAfter
    <3>3. CASE job[r].sess = s
      <4>1. PutKnows(r, s)
        BY <2>i, <3>1, <3>3 DEF Counted
      <4>2. ~Settled(s)'
        BY <3>1, <3>3 DEF Settled
      <4>3. \A q \in Requests : pc'[q] \in PutPcs /\ job'[q].sess = s => q = r
        BY <2>a, <3>1, <3>3
      <4> QED BY <3>1, <3>2, <3>3, <4>1, <4>2, <4>3 DEF PutKnows
    <3>4. CASE job[r].sess # s
      <4>1. \A q \in Requests :
              /\ pc'[q] \in PutPcs /\ job'[q].sess = s => pc'[q] = pc[q] /\ job'[q] = job[q]
              /\ pc[q] \in PutPcs /\ job[q].sess = s => pc'[q] = pc[q] /\ job'[q] = job[q]
        BY <3>1, <3>4
      <4>2. session'[s] = session[s]
        BY <3>1
      <4> HIDE DEF PutPcs
      <4> QED BY <2>i, <3>2, <4>1, <4>2, CountedFrame
    <3> QED BY <3>3, <3>4
  <2>5. ASSUME NEW r \in Requests, PutCommit(r)
        PROVE  /\ Settled(s)' => Exact(s)'
               /\ \A q \in Requests :
                    pc'[q] \in PutPcs /\ job'[q].sess = s => PutKnows(q, s)'
    <3>1. /\ pc[r] = "p_counted" /\ pc'[r] = "idle"
          /\ \A q \in Requests : q # r => pc'[q] = pc[q] /\ job'[q] = job[q]
          /\ staging' = staging
      BY <1>t, <2>5 DEF PutCommit, End, Goto
    <3>2. Present(s)' = Present(s)
      BY <3>1, PresentAfter
    <3>3. CASE job[r].sess = s
      <4>1. PutKnows(r, s)
        BY <2>i, <3>1, <3>3 DEF Counted
      <4>2. session'[s].received = Cardinality(Present(s))
        <5>1. session[s] \in Row
          BY <2>i, SessionTyped
        <5>2. CASE job[r].count # job[r].loaded
          <6>1. session' = [session EXCEPT ![s].received = job[r].count]
            BY <2>5, <2>i, <3>3, <5>2 DEF PutCommit
          <6>2. session'[s].received = job[r].count
            BY <1>t, <5>1, <6>1 DEF Row
          <6> QED BY <3>1, <4>1, <6>2 DEF PutKnows
        <5>3. CASE job[r].count = job[r].loaded
          <6>1. session' = session
            BY <2>5, <3>3, <5>3 DEF PutCommit
          <6> QED BY <3>1, <4>1, <5>3, <6>1 DEF PutKnows
        <5> QED BY <5>2, <5>3
      <4>3. \A q \in Requests : ~(pc'[q] \in PutPcs /\ job'[q].sess = s)
        BY <2>a, <3>1, <3>3
      <4> QED BY <3>2, <4>2, <4>3 DEF Exact
    <3>4. CASE job[r].sess # s
      <4>1. \A q \in Requests :
              /\ pc'[q] \in PutPcs /\ job'[q].sess = s => pc'[q] = pc[q] /\ job'[q] = job[q]
              /\ pc[q] \in PutPcs /\ job[q].sess = s => pc'[q] = pc[q] /\ job'[q] = job[q]
        BY <3>1, <3>4
      <4>2. session'[s] = session[s]
        BY <1>t, <2>5, <3>4 DEF PutCommit
      <4> HIDE DEF PutPcs
      <4> QED BY <2>i, <3>2, <4>1, <4>2, CountedFrame
    <3> QED BY <3>3, <3>4
  <2>6. ASSUME NEW r \in Requests,
               \/ CompleteCheck(r) \/ CompleteMissing(r) \/ CompleteRead(r)
               \/ CompleteLost(r) \/ CompleteError(r) \/ CompleteSave(r)
               \/ CompleteMark(r) \/ SweepScan(r) \/ SweepCommit(r)
               \/ \E t \in Sessions : CompleteLoad(r, t)
        PROVE  /\ Settled(s)' => Exact(s)'
               /\ \A q \in Requests :
                    pc'[q] \in PutPcs /\ job'[q].sess = s => PutKnows(q, s)'
    <3>1. pc[r] \notin PutPcs /\ pc'[r] \notin PutPcs
      BY <1>t, <2>6 DEF CompleteCheck, CompleteMissing, CompleteRead, CompleteLost,
         CompleteError, CompleteSave, CompleteMark, SweepScan, SweepCommit,
         CompleteLoad, Begin, End, Goto
    <3>2. /\ \A q \in Requests : q # r => pc'[q] = pc[q] /\ job'[q] = job[q]
          /\ staging' = staging
      BY <1>t, <2>6 DEF CompleteCheck, CompleteMissing, CompleteRead, CompleteLost,
         CompleteError, CompleteSave, CompleteMark, SweepScan, SweepCommit,
         CompleteLoad, Begin, End, Goto
    <3>3. session'[s] = session[s]
      <4>1. CASE CompleteMark(r)
        <5>1. CASE job[r].sess = s
          BY <1>t, <2>i, <4>1, <5>1, SessionTyped DEF CompleteMark, Marked, InProgress, Row
        <5>2. CASE job[r].sess # s
          BY <1>t, <4>1, <5>2 DEF CompleteMark
        <5> QED BY <5>1, <5>2
      <4>2. CASE SweepCommit(r)
        BY <2>i, <4>2 DEF SweepCommit
      <4>3. CASE ~CompleteMark(r) /\ ~SweepCommit(r)
        BY <2>6, <4>3 DEF CompleteCheck, CompleteMissing, CompleteRead, CompleteLost,
           CompleteError, CompleteSave, SweepScan, CompleteLoad
      <4> QED BY <4>1, <4>2, <4>3
    <3>4. Present(s)' = Present(s)
      BY <3>2, PresentAfter
    <3>5. \A q \in Requests :
            /\ pc'[q] \in PutPcs => pc'[q] = pc[q] /\ job'[q] = job[q]
            /\ pc[q] \in PutPcs => pc'[q] = pc[q] /\ job'[q] = job[q]
      BY <3>1, <3>2
    <3> HIDE DEF PutPcs
    <3> QED BY <2>i, <3>3, <3>4, <3>5, CountedFrame
  <2>7. ASSUME NEW r \in Requests, CompleteRefuse(r) \/ CompleteClean(r)
        PROVE  /\ Settled(s)' => Exact(s)'
               /\ \A q \in Requests :
                    pc'[q] \in PutPcs /\ job'[q].sess = s => PutKnows(q, s)'
    <3>1. /\ pc[r] \in {"c_read", "c_marked"} /\ pc'[r] = "idle"
          /\ \A q \in Requests : q # r =>
               /\ job'[q] = job[q]
               /\ pc'[q] = IF pc[q] = "p_opened" /\ job[q].sess = job[r].sess
                           THEN "p_unlinked" ELSE pc[q]
          /\ session' = session /\ RemoveStaging(job[r].sess)
      BY <1>t, <2>7 DEF CompleteRefuse, CompleteClean, Unlinked
    <3>2. CASE job[r].sess = s
      <4>1. Present(s)' = {}
        BY <3>1, <3>2, PresentAfter
      <4>2. \A q \in Requests : ~(pc'[q] \in PutPcs /\ job'[q].sess = s)
        BY <2>a, <3>1, <3>2
      <4> QED BY <4>1, <4>2 DEF Exact
    <3>3. CASE job[r].sess # s
      <4>1. job[r].sess \in Sessions
        BY <3>1, JobTyped
      <4>2. Present(s)' = Present(s)
        BY <3>1, <3>3, <4>1, PresentAfter
      <4>3. \A q \in Requests :
              /\ pc'[q] \in PutPcs /\ job'[q].sess = s => pc'[q] = pc[q] /\ job'[q] = job[q]
              /\ pc[q] \in PutPcs /\ job[q].sess = s => pc'[q] = pc[q] /\ job'[q] = job[q]
        BY <3>1, <3>3
      <4>4. session'[s] = session[s]
        BY <3>1
      <4> HIDE DEF PutPcs
      <4> QED BY <2>i, <4>2, <4>3, <4>4, CountedFrame
    <3> QED BY <3>2, <3>3
  <2>8. ASSUME NEW r \in Requests, NEW t \in Sessions, SweepRemove(r, t)
        PROVE  /\ Settled(s)' => Exact(s)'
               /\ \A q \in Requests :
                    pc'[q] \in PutPcs /\ job'[q].sess = s => PutKnows(q, s)'
    <3>1. /\ pc[r] = "k_sweeping" /\ pc'[r] = "k_sweeping"
          /\ t \in job'[r].gone
          /\ \A q \in Requests : q # r =>
               /\ job'[q] = job[q]
               /\ pc'[q] = IF pc[q] = "p_opened" /\ job[q].sess = t
                           THEN "p_unlinked" ELSE pc[q]
          /\ session' = session /\ RemoveStaging(t)
      BY <1>t, <2>8 DEF SweepRemove, Unlinked, Job
    <3>2. t # s
      BY <3>1 DEF Swept
    <3>3. Present(s)' = Present(s)
      BY <3>1, <3>2, PresentAfter
    <3>4. \A q \in Requests :
            /\ pc'[q] \in PutPcs /\ job'[q].sess = s => pc'[q] = pc[q] /\ job'[q] = job[q]
            /\ pc[q] \in PutPcs /\ job[q].sess = s => pc'[q] = pc[q] /\ job'[q] = job[q]
      BY <3>1, <3>2
    <3>5. session'[s] = session[s]
      BY <3>1
    <3> HIDE DEF PutPcs
    <3> QED BY <2>i, <3>3, <3>4, <3>5, CountedFrame
  <2>9. ASSUME NEW t \in Sessions, Age(t) \/ Start(t)
        PROVE  /\ Settled(s)' => Exact(s)'
               /\ \A q \in Requests :
                    pc'[q] \in PutPcs /\ job'[q].sess = s => PutKnows(q, s)'
    BY <1>t, <1>i, <2>1, <2>9 DEF Age, Start
  <2>10. CASE UNCHANGED vars
    BY <2>1, <2>10 DEF vars
  <2> QED
    BY <2>2, <2>3, <2>4, <2>5, <2>6, <2>7, <2>8, <2>9, <2>10
    DEF Next, Put, Complete, CompleteStep, SweepStep, Crash, Calm
<1> QED BY <1>0, <1>i

\* The count on the row is the number of chunk files whenever the session's
\* client has its response and no sweep is running.
THEOREM PatientCountExact == Spec => []ReceivedIsCount
<1> DEFINE Inv == Base /\ Waiting /\ (Calm => Counted)
<1>1. Init => Inv
  <2>1. Init => Counted
    BY DEF Init, Counted, Present, InProgress
  <2> QED BY <2>1, BaseInit, WaitingInit
<1>2. Inv /\ [Next]_vars => Inv'
  <2> SUFFICES ASSUME Inv, [Next]_vars
               PROVE  Inv'
    OBVIOUS
  <2>1. Calm' => Calm
    BY DEF Next, vars, Calm
  <2>2. Calm => Turns
    BY DEF Waiting
  <2>3. Calm' => Counted'
    BY <2>1, <2>2, CountedStep
  <2> QED BY <2>3, BaseStep, WaitingStep
<1>3. Inv => ReceivedIsCount
  <2> SUFFICES ASSUME Inv, Calm, NEW s \in Sessions,
                      InProgress(s), ~Busy(s), Present(s) # {},
                      ~(\E r \in Sweepers : pc[r] # "idle")
               PROVE  session[s].received = Cardinality(Present(s))
    BY DEF ReceivedIsCount
  <2>1. ~Swept(s)
    BY DEF Swept, Base, JobsOK
  <2>2. Settled(s)
    BY DEF Settled, Busy, ClientPcs
  <2> QED BY <2>1, <2>2 DEF Counted, Exact
<1> QED BY <1>1, <1>2, <1>3, PTL DEF Spec
=============================================================================
