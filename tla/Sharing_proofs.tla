--------------------------- MODULE Sharing_proofs ---------------------------
(***************************************************************************)
(* What a link serves, for every set of files, requests, links, clerks and *)
(* visitors.  The history of a file only grows until the file goes, and    *)
(* then it is gone for good; a link's pin, a request about the link and a  *)
(* download through it each hold on to a part of that history.             *)
(***************************************************************************)
EXTENDS Sharing, FileStorage_proofs

-----------------------------------------------------------------------------
\* An id that is drawn and that no upload is about to store.
Known(f) ==
  /\ f \in issued.ids
  /\ \A r \in Requests : pc[r] = "u_written" => up[r].file # f

Encrypted == {"u_written", "v_written"}

\* A key encrypts one version, and the keys of requests under way are no row's.
DekInv ==
  /\ \A f \in Stored : file[f].dek \in issued.deks
  /\ \A v \in versions : v.dek \in issued.deks
  /\ \A v, w \in versions : v.file = w.file /\ v.dek = w.dek => v.num = w.num
  /\ \A r \in Requests : pc[r] \in Encrypted =>
       /\ up[r].dek \in issued.deks
       /\ \A f \in Stored : file[f].dek # up[r].dek
       /\ \A v \in versions : v.dek # up[r].dek
       /\ \A q \in Requests \ {r} :
            pc[q] \in Encrypted => up[q].dek # up[r].dek

\* Rows of a file are added, and go only with the file.
LEMMA HistoryKept ==
  ASSUME TypeInv, IdsInv, RowsInv, [Next]_vars, NEW f \in Stored, f \in Stored'
  PROVE  /\ VersionsOf(f)' = {} => VersionsOf(f) = {} /\ file'[f].dek = file[f].dek
         /\ \A n, d : Holds(f, n, d) => Holds(f, n, d)'
<1>t. /\ file \in [Files -> FileRow \cup {None}] /\ versions \subseteq VersionRow
      /\ f \in Files /\ file[f] \in FileRow
  BY DEF TypeInv, TypeOK, Stored
<1>1. ASSUME VersionsOf(f)' = VersionsOf(f), file'[f].dek = file[f].dek
      PROVE  /\ VersionsOf(f)' = {} => VersionsOf(f) = {} /\ file'[f].dek = file[f].dek
             /\ \A n, d : Holds(f, n, d) => Holds(f, n, d)'
  BY <1>1 DEF Holds
<1>2. ASSUME UNCHANGED <<file, versions>>
      PROVE  VersionsOf(f)' = VersionsOf(f) /\ file'[f].dek = file[f].dek
  BY <1>2 DEF VersionsOf
<1>3. ASSUME NEW r \in Requests, UploadCommit(r)
      PROVE  VersionsOf(f)' = VersionsOf(f) /\ file'[f].dek = file[f].dek
  <2>1. pc[r] = "u_written" /\ up[r].file \in Files /\ up[r].file # f
    BY <1>3 DEF UploadCommit, End, Begin, IdsInv, TypeInv, LocalsOK
  <2> DEFINE g == up[r].file
             row == [owner |-> Owner[r], size |-> up[r].size, blob |-> BasePath(g),
                     dek |-> up[r].dek, trashed |-> FALSE]
  <2>2. /\ file' = [file EXCEPT ![g] = row]
        /\ versions' = versions \cup {FirstVersion(g, row)}
    BY <1>3 DEF UploadCommit
  <2>3. FirstVersion(g, row).file = g
    BY DEF FirstVersion
  <2> HIDE DEF row
  <2> QED
    BY <1>t, <2>1, <2>2, <2>3 DEF VersionsOf
<1>4. ASSUME NEW r \in Requests, NEW g \in Files, SoftDelete(r, g) \/ Restore(r, g)
      PROVE  VersionsOf(f)' = VersionsOf(f) /\ file'[f].dek = file[f].dek
  <2>1. versions' = versions
    BY <1>4 DEF SoftDelete, Restore
  <2>2. file'[f].dek = file[f].dek
    BY <1>t, <1>4 DEF SoftDelete, Restore, FileRow
  <2> QED
    BY <2>1, <2>2 DEF VersionsOf
<1>5. ASSUME NEW r \in Requests, PurgeCommit(r)
      PROVE  VersionsOf(f)' = VersionsOf(f) /\ file'[f].dek = file[f].dek
  <2>1. f \notin pg[r].gone
    BY <1>t, <1>5 DEF PurgeCommit, Stored
  <2> QED
    BY <1>t, <1>5, <2>1 DEF PurgeCommit, VersionsOf
<1>6. ASSUME NEW r \in Requests, NEW g \in Files, BackfillFirst(r, g)
      PROVE  /\ VersionsOf(f)' = {} => VersionsOf(f) = {} /\ file'[f].dek = file[f].dek
             /\ \A n, d : Holds(f, n, d) => Holds(f, n, d)'
  <2> DEFINE v == FirstVersion(g, file[g])
  <2>1. v.file = g /\ v.num = 1 /\ v.dek = file[g].dek
    BY DEF FirstVersion
  <2>2. file' = file /\ versions' = versions \cup {v} /\ VersionsOf(g) = {}
    BY <1>6 DEF BackfillFirst
  <2> HIDE DEF v
  <2>3. CASE g = f
    <3>1. v \in VersionsOf(f)'
      BY <2>1, <2>2, <2>3 DEF VersionsOf
    <3> QED
      BY <2>1, <2>2, <2>3, <3>1 DEF Holds
  <2>4. CASE g # f
    <3>1. VersionsOf(f)' = VersionsOf(f)
      BY <2>1, <2>2, <2>4 DEF VersionsOf
    <3> QED
      BY <1>1, <2>2, <3>1
  <2> QED
    BY <2>3, <2>4
<1>7. ASSUME NEW r \in Requests, VersionCommit(r)
      PROVE  /\ VersionsOf(f)' = {} => VersionsOf(f) = {} /\ file'[f].dek = file[f].dek
             /\ \A n, d : Holds(f, n, d) => Holds(f, n, d)'
  <2> DEFINE g == up[r].file
             v == [file |-> g, num |-> up[r].num, path |-> VersionPath(g, up[r].num),
                   dek |-> up[r].dek, size |-> up[r].size]
             first == FirstVersion(g, file[g])
  <2>1. /\ v.file = g /\ first.file = g /\ first.num = 1
        /\ first.dek = file[g].dek
    BY DEF FirstVersion
  <2>2. /\ file' = [file EXCEPT ![g] = LatestRow(file[g], v, up[r].seen)]
        /\ versions' = versions \cup (IF up[r].backfill THEN {first} ELSE {}) \cup {v}
        /\ pc[r] = "v_written" /\ g \in Stored
    BY <1>7 DEF VersionCommit, End, Begin
  <2>3. VersionsOf(g) = {} => up[r].backfill
    BY <2>2 DEF RowsInv, PlansInv, Planned, RowNumbers
  <2> HIDE DEF v, first
  <2>4. CASE g = f
    <3>1. /\ v \in VersionsOf(f)' /\ VersionsOf(f) \subseteq VersionsOf(f)'
          /\ VersionsOf(f) = {} => first \in VersionsOf(f)'
      BY <2>1, <2>2, <2>3, <2>4 DEF VersionsOf
    <3> QED
      BY <2>1, <2>4, <3>1 DEF Holds
  <2>5. CASE g # f
    <3>1. VersionsOf(f)' = VersionsOf(f) /\ file'[f] = file[f]
      BY <1>t, <2>1, <2>2, <2>5 DEF VersionsOf
    <3> QED
      BY <1>1, <3>1
  <2> QED
    BY <2>4, <2>5
<1>8. ASSUME NEW r \in Requests,
             \/ Quit(r) \/ VersionPlan(r)
             \/ \E s \in Sizes : UploadCheck(r, s)
             \/ \E g \in Files, d \in Deks : UploadWrite(r, g, d)
             \/ \E g \in Files, s \in Sizes : VersionLoad(r, g, s)
             \/ \E d \in Deks : VersionWrite(r, d)
             \/ \E g \in Files : PurgeLoad(r, g) \/ PurgeSkip(r, g)
             \/ \E fs \in SUBSET Files : PurgeBegin(r, fs)
             \/ \E p \in Path : PurgeUnlink(r, p)
      PROVE  UNCHANGED <<file, versions>>
  BY <1>8 DEF Quit, VersionPlan, UploadCheck, UploadWrite, VersionLoad, VersionWrite,
              PurgeLoad, PurgeSkip, PurgeBegin, PurgeUnlink
<1>9. CASE UNCHANGED vars
  BY <1>1, <1>2, <1>9 DEF vars
<1> QED
  BY <1>1, <1>2, <1>3, <1>4, <1>5, <1>6, <1>7, <1>8, <1>9, StepCases

\* An id that is drawn and not stored is never stored again.
LEMMA GoneForGood ==
  ASSUME TypeInv, IdsInv, [Next]_vars, NEW f, Known(f)
  PROVE  Known(f)' /\ (f \notin Stored => f \notin Stored')
<1>t. /\ file \in [Files -> FileRow \cup {None}]
      /\ issued \in [ids : SUBSET Files, deks : SUBSET Deks]
      /\ pc \in [Requests -> {"idle"} \cup InService]
      /\ up \in [Requests -> UploadVars]
  BY DEF TypeInv, TypeOK
<1>1. ASSUME NEW r \in Requests, NEW at, at # "u_written",
             pc' = [pc EXCEPT ![r] = at] \/ pc' = pc,
             \A q \in Requests \ {r} : up'[q] = up[q],
             pc' = pc => up' = up,
             issued'.ids = issued.ids, Stored' \subseteq Stored
      PROVE  Known(f)' /\ (f \notin Stored => f \notin Stored')
  <2>1. \A q \in Requests : pc'[q] = "u_written" => up'[q] = up[q] /\ pc[q] = "u_written"
    BY <1>t, <1>1
  <2> QED
    BY <1>1, <2>1 DEF Known
<1>2. ASSUME NEW r \in Requests, NEW g \in Files, NEW d \in Deks, UploadWrite(r, g, d)
      PROVE  Known(f)' /\ (f \notin Stored => f \notin Stored')
  <2>1. /\ pc' = [pc EXCEPT ![r] = "u_written"]
        /\ up' = [up EXCEPT ![r].file = g, ![r].dek = d]
        /\ g \notin issued.ids /\ issued'.ids = issued.ids \cup {g} /\ file' = file
    BY <1>2 DEF UploadWrite, Begin
  <2>2. up'[r].file = g /\ \A q \in Requests \ {r} : up'[q] = up[q]
    BY <1>t, <2>1 DEF UploadVars
  <2> QED
    BY <1>t, <2>1, <2>2 DEF Known, Stored
<1>3. ASSUME NEW r \in Requests, UploadCommit(r)
      PROVE  Known(f)' /\ (f \notin Stored => f \notin Stored')
  <2>1. /\ pc[r] = "u_written" /\ pc' = [pc EXCEPT ![r] = "idle"]
        /\ \A q \in Requests \ {r} : up'[q] = up[q]
        /\ Stored' \subseteq Stored \cup {up[r].file} /\ issued' = issued
    BY <1>t, <1>3 DEF UploadCommit, End, Begin, Stored
  <2> QED
    BY <1>t, <2>1 DEF Known
<1>4. ASSUME NEW r \in Requests, Quit(r) \/ VersionCommit(r) \/ PurgeCommit(r)
      PROVE  Known(f)' /\ (f \notin Stored => f \notin Stored')
  <2>1. /\ pc' = [pc EXCEPT ![r] = "idle"] /\ issued' = issued
        /\ \A q \in Requests \ {r} : up'[q] = up[q]
        /\ \E at \in InService : pc[r] = at
    BY <1>t, <1>4 DEF Quit, VersionCommit, PurgeCommit, End, Begin, InService,
                      VersionPcs, PurgePcs
  <2>2. Stored' \subseteq Stored
    BY <1>t, <1>4 DEF Quit, VersionCommit, PurgeCommit, Stored
  <2>3. pc' # pc
    BY <1>t, <2>1 DEF InService, UploadPcs, VersionPcs, PurgePcs
  <2> QED
    BY <1>1, <2>1, <2>2, <2>3
<1>5. ASSUME NEW r \in Requests,
             \/ VersionPlan(r)
             \/ \E s \in Sizes : UploadCheck(r, s)
             \/ \E g \in Files, s \in Sizes : VersionLoad(r, g, s)
             \/ \E d \in Deks : VersionWrite(r, d)
             \/ \E g \in Files : PurgeLoad(r, g)
             \/ \E fs \in SUBSET Files : PurgeBegin(r, fs)
      PROVE  Known(f)' /\ (f \notin Stored => f \notin Stored')
  <2>1. \E at \in VersionPcs \cup PurgePcs \cup {"u_checked"} :
          pc' = [pc EXCEPT ![r] = at] /\ pc[r] # at
    BY <1>5 DEF VersionPlan, UploadCheck, VersionLoad, VersionWrite, PurgeLoad,
                PurgeBegin, Begin, VersionPcs, PurgePcs
  <2>2. /\ \A q \in Requests \ {r} : up'[q] = up[q]
        /\ issued'.ids = issued.ids /\ file' = file
    BY <1>t, <1>5 DEF VersionPlan, UploadCheck, VersionLoad, VersionWrite, PurgeLoad,
                      PurgeBegin
  <2>3. Stored' = Stored
    BY <2>2 DEF Stored
  <2>4. pc' # pc
    BY <1>t, <2>1
  <2> QED
    BY <1>1, <2>1, <2>2, <2>3, <2>4 DEF VersionPcs, PurgePcs
<1>6. ASSUME NEW r \in Requests,
             \/ \E g \in Files : \/ BackfillFirst(r, g) \/ SoftDelete(r, g)
                                 \/ Restore(r, g) \/ PurgeSkip(r, g)
             \/ \E p \in Path : PurgeUnlink(r, p)
      PROVE  Known(f)' /\ (f \notin Stored => f \notin Stored')
  <2>1. UNCHANGED <<up, issued>> /\ (pc' = [pc EXCEPT ![r] = "purging"] \/ pc' = pc)
    BY <1>6 DEF BackfillFirst, SoftDelete, Restore, PurgeSkip, PurgeUnlink
  <2>2. Stored' \subseteq Stored
    BY <1>t, <1>6 DEF BackfillFirst, SoftDelete, Restore, PurgeSkip, PurgeUnlink,
                      Stored, Owns
  <2> QED
    BY <1>1, <2>1, <2>2
<1>7. CASE UNCHANGED vars
  BY <1>7 DEF vars, Known, Stored
<1> QED
  BY <1>2, <1>3, <1>4, <1>5, <1>6, <1>7, StepCases

\* Keys: a step that draws none moves those it knows from a request to a row.
LEMMA DekStep ==
  ASSUME TypeInv, IdsInv, RowsInv, DekInv, [Next]_vars
  PROVE  DekInv'
<1>t. /\ file \in [Files -> FileRow \cup {None}] /\ versions \subseteq VersionRow
      /\ issued \in [ids : SUBSET Files, deks : SUBSET Deks]
      /\ pc \in [Requests -> {"idle"} \cup InService]
      /\ up \in [Requests -> UploadVars]
  BY DEF TypeInv, TypeOK
<1>1. ASSUME issued'.deks = issued.deks, versions' \subseteq versions,
             Stored' \subseteq Stored, \A f \in Stored' : file'[f].dek = file[f].dek,
             \A q \in Requests : pc'[q] \in Encrypted =>
                pc[q] \in Encrypted /\ up'[q].dek = up[q].dek
      PROVE  DekInv'
  BY <1>1 DEF DekInv
<1>2. ASSUME NEW r \in Requests, NEW d \in Deks, d \notin issued.deks,
             issued'.deks = issued.deks \cup {d}, UNCHANGED <<file, versions>>,
             up'[r].dek = d,
             \A q \in Requests \ {r} : pc'[q] = pc[q] /\ up'[q] = up[q]
      PROVE  DekInv'
  BY <1>2 DEF DekInv, Stored
<1>3. ASSUME NEW r \in Requests,
             (\E f \in Files, d \in Deks : UploadWrite(r, f, d))
               \/ \E d \in Deks : VersionWrite(r, d)
      PROVE  DekInv'
  <2>1. ASSUME NEW f \in Files, NEW d \in Deks, UploadWrite(r, f, d)
        PROVE  /\ d \notin issued.deks /\ issued'.deks = issued.deks \cup {d}
               /\ UNCHANGED <<file, versions>> /\ up'[r].dek = d
               /\ \A q \in Requests \ {r} : pc'[q] = pc[q] /\ up'[q] = up[q]
    BY <1>t, <2>1 DEF UploadWrite, Begin, UploadVars
  <2>2. ASSUME NEW d \in Deks, VersionWrite(r, d)
        PROVE  /\ d \notin issued.deks /\ issued'.deks = issued.deks \cup {d}
               /\ UNCHANGED <<file, versions>> /\ up'[r].dek = d
               /\ \A q \in Requests \ {r} : pc'[q] = pc[q] /\ up'[q] = up[q]
    BY <1>t, <2>2 DEF VersionWrite, Begin, UploadVars
  <2> QED
    BY <1>2, <1>3, <2>1, <2>2
<1>4. ASSUME NEW r \in Requests, UploadCommit(r) PROVE DekInv'
  <2> DEFINE g == up[r].file
             row == [owner |-> Owner[r], size |-> up[r].size, blob |-> BasePath(g),
                     dek |-> up[r].dek, trashed |-> FALSE]
             v == FirstVersion(g, row)
  <2>1. /\ file' = [file EXCEPT ![g] = row] /\ versions' = versions \cup {v}
        /\ pc[r] = "u_written" /\ pc' = [pc EXCEPT ![r] = "idle"]
        /\ issued' = issued /\ \A q \in Requests \ {r} : up'[q] = up[q]
    BY <1>t, <1>4 DEF UploadCommit, End, Begin
  <2>2. g \in Files /\ g \notin Stored /\ \A w \in versions : w.file # g
    BY <2>1 DEF IdsInv, RowsInv, RowNamesLatest, TypeInv, LocalsOK
  <2>3. v.file = g /\ v.dek = up[r].dek /\ row.dek = up[r].dek
    BY DEF FirstVersion
  <2> HIDE DEF v, row
  <2>4. /\ file'[g].dek = up[r].dek
        /\ \A f \in Stored' : f # g => f \in Stored /\ file'[f] = file[f]
    BY <1>t, <2>1, <2>2, <2>3 DEF Stored
  <2>5. \A q \in Requests : pc'[q] \in Encrypted =>
          q # r /\ pc[q] \in Encrypted /\ up'[q] = up[q]
    BY <1>t, <2>1 DEF Encrypted
  <2>6. pc[r] \in Encrypted
    BY <2>1 DEF Encrypted
  <2> QED
    BY <2>1, <2>2, <2>3, <2>4, <2>5, <2>6 DEF DekInv
<1>5. ASSUME NEW r \in Requests, NEW g \in Files, BackfillFirst(r, g) PROVE DekInv'
  <2> DEFINE v == FirstVersion(g, file[g])
  <2>1. v.file = g /\ v.dek = file[g].dek
    BY DEF FirstVersion
  <2>2. /\ versions' = versions \cup {v} /\ g \in Stored
        /\ \A w \in versions : w.file # g
        /\ UNCHANGED <<file, issued, pc, up>>
    BY <1>5 DEF BackfillFirst, Owns, VersionsOf
  <2> HIDE DEF v
  <2> QED
    BY <2>1, <2>2 DEF DekInv, Stored
<1>6. ASSUME NEW r \in Requests, VersionCommit(r) PROVE DekInv'
  <2> DEFINE g == up[r].file
             v == [file |-> g, num |-> up[r].num, path |-> VersionPath(g, up[r].num),
                   dek |-> up[r].dek, size |-> up[r].size]
             first == FirstVersion(g, file[g])
             row == LatestRow(file[g], v, up[r].seen)
             old == IF up[r].backfill THEN {first} ELSE {}
  <2>1. /\ v.file = g /\ v.num = up[r].num /\ v.dek = up[r].dek
        /\ first.file = g /\ first.num = 1 /\ first.dek = file[g].dek
    BY DEF FirstVersion
  <2>2. /\ file' = [file EXCEPT ![g] = row] /\ versions' = versions \cup old \cup {v}
        /\ pc[r] = "v_written" /\ pc' = [pc EXCEPT ![r] = "idle"]
        /\ g \in Stored /\ (1 \notin RowNumbers(g) \/ ~up[r].backfill)
        /\ issued' = issued /\ \A q \in Requests \ {r} : up'[q] = up[q]
    BY <1>t, <1>6 DEF VersionCommit, End, Begin, NumberTaken
  <2>3. g \in Stored /\ file[g] \in FileRow /\ g \in Files
    BY <1>t, <1>6 DEF VersionCommit, Stored
  <2>4. row.dek = v.dek
    <3> HIDE DEF v
    <3> QED
      BY <2>3 DEF LatestRow, FileRow
  <2>5. \A w \in versions : up[r].backfill => w.file # g
    <3> SUFFICES ASSUME NEW w \in versions, up[r].backfill, w.file = g PROVE FALSE
      OBVIOUS
    <3>1. 1 \in 1 .. w.num
      BY <1>t, FileStorageAssumption DEF VersionRow
    <3> QED
      BY <2>2, <3>1 DEF RowsInv, VersionsContiguous
  <2>6. \A w \in old : w = first /\ up[r].backfill
    OBVIOUS
  <2> HIDE DEF v, first, row, old
  <2>7. /\ file'[g].dek = up[r].dek
        /\ \A f \in Stored' : f # g => f \in Stored /\ file'[f] = file[f]
    BY <1>t, <2>1, <2>2, <2>3, <2>4 DEF Stored
  <2>8. \A q \in Requests : pc'[q] \in Encrypted =>
          q # r /\ pc[q] \in Encrypted /\ up'[q] = up[q]
    BY <1>t, <2>2 DEF Encrypted
  <2>9. pc[r] \in Encrypted
    BY <2>2 DEF Encrypted
  <2>10. \A w \in versions' :
           w \in versions \/ w = v \/ (w = first /\ up[r].backfill)
    BY <2>2, <2>6
  <2>11. /\ \A f \in Stored' : file'[f].dek \in issued'.deks
         /\ \A w \in versions' : w.dek \in issued'.deks
    BY <2>1, <2>2, <2>3, <2>7, <2>9, <2>10 DEF DekInv
  <2>12. \A w, x \in versions' : w.file = x.file /\ w.dek = x.dek => w.num = x.num
    BY <2>1, <2>3, <2>5, <2>9, <2>10 DEF DekInv
  <2>13. \A q \in Requests : pc'[q] \in Encrypted =>
           /\ up'[q].dek \in issued'.deks
           /\ \A f \in Stored' : file'[f].dek # up'[q].dek
           /\ \A w \in versions' : w.dek # up'[q].dek
           /\ \A p \in Requests \ {q} : pc'[p] \in Encrypted => up'[p].dek # up'[q].dek
    BY <2>1, <2>2, <2>3, <2>7, <2>8, <2>9, <2>10 DEF DekInv
  <2> QED
    BY <2>11, <2>12, <2>13 DEF DekInv
<1>7. ASSUME NEW r \in Requests,
             \/ Quit(r) \/ VersionPlan(r) \/ PurgeCommit(r)
             \/ \E s \in Sizes : UploadCheck(r, s)
             \/ \E f \in Files, s \in Sizes : VersionLoad(r, f, s)
             \/ \E f \in Files : \/ SoftDelete(r, f) \/ Restore(r, f)
                                 \/ PurgeLoad(r, f) \/ PurgeSkip(r, f)
             \/ \E fs \in SUBSET Files : PurgeBegin(r, fs)
             \/ \E p \in Path : PurgeUnlink(r, p)
      PROVE  DekInv'
  <2>1. issued' = issued /\ versions' \subseteq versions
    BY <1>7 DEF Quit, VersionPlan, PurgeCommit, UploadCheck, VersionLoad, SoftDelete,
                Restore, PurgeLoad, PurgeSkip, PurgeBegin, PurgeUnlink
  <2>2. Stored' \subseteq Stored /\ \A f \in Stored' : file'[f].dek = file[f].dek
    <3>1. ASSUME NEW f \in Files, SoftDelete(r, f) \/ Restore(r, f)
          PROVE  Stored' \subseteq Stored /\ \A g \in Stored' : file'[g].dek = file[g].dek
      BY <1>t, <3>1 DEF SoftDelete, Restore, Owns, Stored, FileRow
    <3>2. CASE PurgeCommit(r)
      BY <1>t, <3>2 DEF PurgeCommit, Stored
    <3>3. CASE file' = file
      BY <3>3 DEF Stored
    <3> QED
      BY <1>7, <3>1, <3>2, <3>3
         DEF Quit, VersionPlan, UploadCheck, VersionLoad, PurgeLoad, PurgeSkip,
             PurgeBegin, PurgeUnlink
  <2>3. \A q \in Requests \ {r} : pc'[q] = pc[q] /\ up'[q] = up[q]
    BY <1>t, <1>7 DEF Quit, VersionPlan, PurgeCommit, UploadCheck, VersionLoad, SoftDelete,
                Restore, PurgeLoad, PurgeSkip, PurgeBegin, PurgeUnlink, End, Begin
  <2>4. pc'[r] \in Encrypted => pc'[r] = pc[r] /\ up'[r] = up[r]
    BY <1>t, <1>7 DEF Quit, VersionPlan, PurgeCommit, UploadCheck, VersionLoad, SoftDelete,
                Restore, PurgeLoad, PurgeSkip, PurgeBegin, PurgeUnlink, End, Begin, Encrypted
  <2> QED
    BY <1>1, <2>1, <2>2, <2>3, <2>4
<1>8. CASE UNCHANGED vars
  BY <1>8 DEF vars, DekInv, Stored
<1> QED
  BY <1>3, <1>4, <1>5, <1>6, <1>7, <1>8, StepCases

LEMMA DekInit == Init => DekInv
  BY FileStorageAssumption DEF Init, DekInv, Encrypted, Stored

-----------------------------------------------------------------------------
\* What NumberOf finds is the number under which a reader finds the content, and
\* Latest is the number of what the files row names.
LEMMA ReadersAgree ==
  ASSUME TypeInv, RowsInv, DekInv, NEW f \in Stored
  PROVE  /\ Latest(f) \in 1 .. MaxVersion
         /\ Holds(f, Latest(f), file[f].dek)
         /\ \A n, d : Holds(f, n, d) => n \in 1 .. Latest(f) /\ NumberOf(f, d) = n
<1>1. \A n, m, d : Holds(f, n, d) /\ Holds(f, m, d) => n = m
  BY DEF Holds, DekInv, VersionsOf
<1>2. ASSUME NEW n, NEW d, Holds(f, n, d) PROVE NumberOf(f, d) = n
  <2>1. n \in 1 .. Latest(f) /\ History[f][n] = d
    BY <1>2, HistoryReads DEF Latest
  <2>2. \A m \in 1 .. Latest(f) : History[f][m] = d => m = n
    BY <1>1, <1>2, HistoryReads DEF Latest
  <2> QED
    BY <2>1, <2>2 DEF NumberOf
<1> QED
  BY <1>2, HistoryReads DEF Latest

\* A share may be pinned to what a reader finds.
LEMMA PinsAreHeld ==
  ASSUME TypeInv, RowsInv, NEW f \in Files, NEW n
  PROVE  n \in Numbers(f) <=> \E d : Holds(f, n, d)
BY DEF Numbers, Holds

\* A pin that a file has, it keeps as long as it is stored.
LEMMA PinKept ==
  ASSUME TypeInv, IdsInv, RowsInv, [Next]_vars, NEW f \in Stored, f \in Stored',
         NEW n, CanPin(f, n)
  PROVE  CanPin(f, n)'
<1>1. f \in Files
  BY DEF Stored
<1>2. \A m : (m \in Numbers(f))' <=> \E d : Holds(f, m, d)'
  BY DEF Numbers, Holds
<1> QED
  BY <1>1, <1>2, HistoryKept, PinsAreHeld DEF CanPin

-----------------------------------------------------------------------------
LinkTypes ==
  /\ share \in [Shares -> ShareRow \cup {None}]
  /\ clerk \in [Clerks -> ClerkVars \cup {None}]
  /\ visit \in [Visitors -> VisitVars \cup {None}]
  /\ served \in [Visitors -> ServedRow \cup {None}]

\* What a request that manages a share holds on to until it commits: the row it
\* will write has a file and a pin as good as when they were checked, or the file
\* is gone for good.  The id of a row to be created is nobody else's.
ClerkKnows(q) ==
  LET c == clerk[q]
  IN  /\ Known(c.new.file) /\ c.loaded.file = c.new.file
      /\ c.new.file \in Stored => CanPin(c.new.file, c.new.pin)
      /\ c.op = "create" =>
           /\ share[c.share] = None
           /\ \A p \in Clerks \ {q} : clerk[p] # None => clerk[p].share # c.share
      /\ c.op # "create" /\ share[c.share] # None =>
           share[c.share].file = c.new.file

\* The number at which a file has a content, at or above another.
HoldsFrom(f, n, d) == \E m \in 1 .. MaxVersion : m >= n /\ Holds(f, m, d)

\* What a download knows of its file at each point: which version the key it
\* holds belongs to.
VisitKnows(g) ==
  LET w == visit[g]
      f == w.row.file
  IN  /\ Known(f)
      /\ share[w.share] # None => share[w.share].file = f
      /\ \A q \in Clerks :
           clerk[q] # None /\ clerk[q].op = "create" => clerk[q].share # w.share
      /\ f \in Stored =>
           /\ CanPin(f, w.row.pin)
           /\ w.at = "found" => \E d \in Deks : HoldsFrom(f, w.floor, d)
           /\ w.at # "found" /\ w.row.pin = 0 => HoldsFrom(f, w.floor, w.dek)
           /\ w.at = "loaded" /\ VersionsOf(f) = {} => w.dek = file[f].dek
           /\ w.at = "pinned" /\ w.row.pin # 0 => Holds(f, w.row.pin, w.dek)

LinksInv ==
  /\ PinsExist
  /\ \A q \in Clerks : clerk[q] # None => ClerkKnows(q)
  /\ \A g \in Visitors : visit[g] # None => VisitKnows(g)

\* Steps of the file store, with what they do to the shares.
LEMMA StoreKeepsLinks ==
  ASSUME TypeInv, IdsInv, RowsInv, LinkTypes, LinksInv, [Next]_vars,
         UNCHANGED <<clerk, visit>>,
         \A h \in Shares : share'[h] # None =>
           /\ share[h] # None /\ share[h].file \in Stored'
           /\ share'[h].file = share[h].file /\ share'[h].pin = share[h].pin
  PROVE  LinksInv'
<1>0. /\ \A f : Known(f) => Known(f)' /\ (f \notin Stored => f \notin Stored')
      /\ \A f \in Stored : f \in Stored' =>
           /\ VersionsOf(f)' = {} => VersionsOf(f) = {} /\ file'[f].dek = file[f].dek
           /\ \A n, d : Holds(f, n, d) => Holds(f, n, d)'
           /\ \A n : CanPin(f, n) => CanPin(f, n)'
  BY GoneForGood, HistoryKept, PinKept
<1>1. PinsExist'
  <2> SUFFICES ASSUME NEW h \in Shares, share'[h] # None
               PROVE  (share[h].file \in Stored /\ CanPin(share[h].file, share[h].pin))'
    BY DEF PinsExist
  <2>1. PICK row : row = share[h]
    OBVIOUS
  <2>2. row.file \in Stored /\ CanPin(row.file, row.pin) /\ row.file \in Stored'
    BY <2>1 DEF LinksInv, PinsExist
  <2>3. CanPin(row.file, row.pin)'
    BY <1>0, <2>2
  <2>4. share'[h].file = row.file /\ share'[h].pin = row.pin
    BY <2>1
  <2> QED
    BY <2>2, <2>3, <2>4
<1>2. ASSUME NEW q \in Clerks, clerk'[q] # None PROVE ClerkKnows(q)'
  <2>0. PICK c : c = clerk[q]
    OBVIOUS
  <2>1. clerk'[q] = c /\ c # None /\ ClerkKnows(q) /\ c.share \in Shares
    BY <1>2, <2>0 DEF LinksInv, LinkTypes, ClerkVars
  <2>2. Known(c.new.file)' /\ c.loaded.file = c.new.file
    BY <1>0, <2>0, <2>1 DEF ClerkKnows
  <2>3. c.new.file \in Stored' => CanPin(c.new.file, c.new.pin)'
    BY <1>0, <2>0, <2>1 DEF ClerkKnows
  <2>4. /\ share[c.share] = None => share'[c.share] = None
        /\ share'[c.share] # None => share'[c.share].file = share[c.share].file
    BY <2>1
  <2> QED
    BY <2>0, <2>1, <2>2, <2>3, <2>4 DEF ClerkKnows
<1>3. ASSUME NEW g \in Visitors, visit'[g] # None PROVE VisitKnows(g)'
  <2>0. PICK w : w = visit[g]
    OBVIOUS
  <2>1. visit'[g] = w /\ w # None /\ VisitKnows(g) /\ w.share \in Shares
    BY <1>3, <2>0 DEF LinksInv, LinkTypes, VisitVars
  <2>2. PICK f : f = w.row.file
    OBVIOUS
  <2>3. Known(f)' /\ (f \in Stored' => f \in Stored)
    BY <1>0, <2>0, <2>1, <2>2 DEF VisitKnows
  <2>4. share'[w.share] # None => share'[w.share].file = f
    BY <2>0, <2>1, <2>2 DEF VisitKnows
  <2>5. ASSUME f \in Stored'
        PROVE  /\ CanPin(f, w.row.pin)'
               /\ w.at = "found" => \E d \in Deks : HoldsFrom(f, w.floor, d)'
               /\ w.at # "found" /\ w.row.pin = 0 => HoldsFrom(f, w.floor, w.dek)'
               /\ w.at = "loaded" /\ VersionsOf(f)' = {} => w.dek = file'[f].dek
               /\ w.at = "pinned" /\ w.row.pin # 0 => Holds(f, w.row.pin, w.dek)'
    <3>1. \A n, d : HoldsFrom(f, n, d) => HoldsFrom(f, n, d)'
      BY <1>0, <2>3, <2>5 DEF HoldsFrom
    <3> QED
      BY <1>0, <2>0, <2>1, <2>2, <2>3, <2>5, <3>1 DEF VisitKnows
  <2> QED
    BY <2>0, <2>1, <2>2, <2>3, <2>4, <2>5 DEF VisitKnows
<1> QED
  BY <1>1, <1>2, <1>3 DEF LinksInv

\* What a reader finds, when the store does not move.
LEMMA StoreSame ==
  ASSUME UNCHANGED vars
  PROVE  /\ Stored' = Stored /\ \A f : VersionsOf(f)' = VersionsOf(f)
         /\ \A f : Known(f)' <=> Known(f)
         /\ \A f, n, d : Holds(f, n, d)' <=> Holds(f, n, d)
         /\ \A f, n, d : HoldsFrom(f, n, d)' <=> HoldsFrom(f, n, d)
         /\ \A f, n : CanPin(f, n)' <=> CanPin(f, n)
<1>1. /\ Stored' = Stored /\ \A f : VersionsOf(f)' = VersionsOf(f)
      /\ \A f : Known(f)' <=> Known(f)
  BY DEF vars, Stored, VersionsOf, Known
<1>2. \A f, n, d : Holds(f, n, d)' <=> Holds(f, n, d)
  BY <1>1 DEF vars, Holds
<1>3. \A f, n, d : HoldsFrom(f, n, d)' <=> HoldsFrom(f, n, d)
  BY <1>2 DEF HoldsFrom
<1>4. \A f, n : CanPin(f, n)' <=> CanPin(f, n)
  BY <1>1 DEF CanPin, Numbers
<1> QED
  BY <1>1, <1>2, <1>3, <1>4

\* Steps of the requests that manage shares.
LEMMA ClerkKeepsLinks ==
  ASSUME TypeInv, IdsInv, RowsInv, LinkTypes, LinksInv, NEW q \in Clerks,
         \/ \E h \in Shares, f \in Files, n \in 0 .. MaxVersion : CreateCheck(q, h, f, n)
         \/ \E h \in Shares : Patch(q, h) \/ Revoke(q, h)
         \/ CreateCommit(q) \/ EditCommit(q)
  PROVE  LinkTypes' /\ LinksInv'
<1>t. /\ share \in [Shares -> ShareRow \cup {None}]
      /\ clerk \in [Clerks -> ClerkVars \cup {None}]
  BY DEF LinkTypes
<1>u. UNCHANGED <<vars, visit, served>>
  BY DEF CreateCheck, Patch, Revoke, EditLoad, CreateCommit, EditCommit
<1>s. /\ Stored' = Stored /\ \A f : VersionsOf(f)' = VersionsOf(f)
      /\ \A f : Known(f)' <=> Known(f)
      /\ \A f, n, d : Holds(f, n, d)' <=> Holds(f, n, d)
      /\ \A f, n, d : HoldsFrom(f, n, d)' <=> HoldsFrom(f, n, d)
      /\ \A f, n : CanPin(f, n)' <=> CanPin(f, n)
      /\ file' = file
  BY <1>u, StoreSame DEF vars
<1>k. \A f \in Stored : Known(f)
  BY DEF IdsInv, Known
\* A request comes to hold a row.
<1>1. ASSUME NEW c \in ClerkVars, clerk[q] = None, share' = share,
             clerk' = [clerk EXCEPT ![q] = c],
             c.new.file \in Stored, c.loaded.file = c.new.file,
             CanPin(c.new.file, c.new.pin),
             c.op = "create" => /\ share[c.share] = None
                                /\ \A p \in Clerks : clerk[p] # None => clerk[p].share # c.share
                                /\ \A g \in Visitors : visit[g] # None => visit[g].share # c.share,
             c.op # "create" => share[c.share] # None /\ share[c.share].file = c.new.file
      PROVE  LinkTypes' /\ LinksInv'
  <2>1. LinkTypes'
    BY <1>t, <1>u, <1>1 DEF LinkTypes
  <2>2. PinsExist'
    BY <1>s, <1>1 DEF LinksInv, PinsExist
  <2>3. clerk'[q] = c /\ \A p \in Clerks \ {q} : clerk'[p] = clerk[p]
    BY <1>t, <1>1
  <2>4. ClerkKnows(q)'
    BY <1>s, <1>k, <1>1, <2>3 DEF ClerkKnows
  <2>5. ASSUME NEW p \in Clerks, p # q, clerk'[p] # None PROVE ClerkKnows(p)'
    <3>1. ClerkKnows(p) /\ clerk'[p] = clerk[p] /\ clerk[p] # None
      BY <2>3, <2>5 DEF LinksInv
    <3>2. clerk[p].op = "create" => clerk[p].share # c.share
      BY <1>1, <3>1 DEF ClerkKnows
    <3> QED
      BY <1>s, <1>1, <2>3, <3>1, <3>2 DEF ClerkKnows
  <2>6. ASSUME NEW g \in Visitors, visit'[g] # None PROVE VisitKnows(g)'
    <3>1. VisitKnows(g) /\ visit'[g] = visit[g] /\ visit[g] # None
      BY <1>u, <2>6 DEF LinksInv
    <3> QED
      BY <1>s, <1>1, <2>3, <3>1 DEF VisitKnows
  <2> QED
    BY <2>1, <2>2, <2>4, <2>5, <2>6 DEF LinksInv
\* A request writes its row, or finds none to write to, and ends.
<1>2. ASSUME clerk[q] # None, clerk' = [clerk EXCEPT ![q] = None],
             NEW h \in Shares, h = clerk[q].share, NEW row \in ShareRow \cup {None},
             share' = [share EXCEPT ![h] = row],
             row # None => /\ row.file \in Stored /\ CanPin(row.file, row.pin)
                           /\ clerk[q].op = "create" \/ share[h] # None
                           /\ share[h] # None => row.file = share[h].file
      PROVE  LinkTypes' /\ LinksInv'
  <2>1. LinkTypes'
    BY <1>t, <1>u, <1>2 DEF LinkTypes
  <2>2. share'[h] = row /\ \A k \in Shares \ {h} : share'[k] = share[k]
    BY <1>t, <1>2
  <2>3. PinsExist'
    BY <1>s, <1>2, <2>2 DEF LinksInv, PinsExist
  <2>4. clerk'[q] = None /\ \A p \in Clerks \ {q} : clerk'[p] = clerk[p]
    BY <1>t, <1>2
  <2>5. ASSUME NEW p \in Clerks, clerk'[p] # None PROVE ClerkKnows(p)'
    <3>1. ClerkKnows(p) /\ clerk'[p] = clerk[p] /\ clerk[p] # None /\ p # q
      BY <2>4, <2>5 DEF LinksInv
    <3>2. clerk[p].share \in Shares
      BY <1>t, <3>1 DEF ClerkVars
    <3>3. clerk[p].op = "create" \/ clerk[q].op = "create" => clerk[p].share # h
      BY <1>2, <3>1 DEF ClerkKnows, LinksInv
    <3> QED
      BY <1>s, <1>2, <2>2, <2>4, <3>1, <3>2, <3>3 DEF ClerkKnows
  <2>6. ASSUME NEW g \in Visitors, visit'[g] # None PROVE VisitKnows(g)'
    <3>1. VisitKnows(g) /\ visit'[g] = visit[g] /\ visit[g] # None
      BY <1>u, <2>6 DEF LinksInv
    <3>2. visit[g].share \in Shares
      BY <3>1 DEF LinkTypes, VisitVars
    <3>3. clerk[q].op = "create" => visit[g].share # h
      BY <1>2, <3>1 DEF VisitKnows
    <3> QED
      BY <1>s, <1>2, <2>2, <2>4, <3>1, <3>2, <3>3 DEF VisitKnows
  <2> QED
    BY <2>1, <2>3, <2>5, <2>6 DEF LinksInv
<1>3. ASSUME NEW h \in Shares, NEW f \in Files, NEW n \in 0 .. MaxVersion,
             CreateCheck(q, h, f, n)
      PROVE  LinkTypes' /\ LinksInv'
  <2> DEFINE row == [file |-> f, pin |-> n, revoked |-> FALSE]
             c == [op |-> "create", share |-> h, loaded |-> row, new |-> row]
  <2>1. c \in ClerkVars
    BY DEF ClerkVars, ShareRow
  <2> QED
    BY <1>1, <1>3, <2>1 DEF CreateCheck
<1>4. ASSUME NEW h \in Shares, Patch(q, h) \/ Revoke(q, h)
      PROVE  LinkTypes' /\ LinksInv'
  <2>1. PICK op \in {"patch", "delete"}, n \in 0 .. MaxVersion, b \in BOOLEAN :
          /\ EditLoad(q, h, op, [share[h] EXCEPT !.pin = n, !.revoked = b])
          /\ share[h] # None /\ CanPin(share[h].file, n)
    <3>1. CASE Patch(q, h)
      BY <3>1 DEF Patch
    <3>2. CASE Revoke(q, h)
      <4>1. share[h] \in ShareRow /\ CanPin(share[h].file, share[h].pin)
        BY <1>t, <3>2 DEF Revoke, LinksInv, PinsExist
      <4>2. [share[h] EXCEPT !.revoked = TRUE]
              = [share[h] EXCEPT !.pin = share[h].pin, !.revoked = TRUE]
        BY <4>1 DEF ShareRow
      <4> QED
        BY <3>2, <4>1, <4>2 DEF Revoke, ShareRow
    <3> QED
      BY <1>4, <3>1, <3>2
  <2>2. PICK row \in ShareRow : row = share[h]
    BY <1>t, <2>1
  <2> DEFINE new == [row EXCEPT !.pin = n, !.revoked = b]
             c == [op |-> op, share |-> h, loaded |-> row, new |-> new]
  <2>3. new \in ShareRow /\ new.file = row.file /\ new.pin = n
    BY <2>2 DEF ShareRow
  <2>4. clerk[q] = None /\ clerk' = [clerk EXCEPT ![q] = c] /\ share' = share
    BY <2>1, <2>2 DEF EditLoad
  <2>5. row.file \in Stored
    BY <2>1, <2>2 DEF LinksInv, PinsExist
  <2> HIDE DEF new
  <2>6. /\ c \in ClerkVars /\ c.op = op /\ c.share = h
        /\ c.new = new /\ c.loaded = row
    BY <2>2, <2>3 DEF ClerkVars
  <2> HIDE DEF c
  <2> QED
    BY <1>1, <2>1, <2>2, <2>3, <2>4, <2>5, <2>6
<1>5. CASE CreateCommit(q)
  <2>1. PICK c \in ClerkVars : c = clerk[q] /\ c.op = "create" /\ clerk[q] # None
    BY <1>t, <1>5 DEF CreateCommit
  <2>2. PICK h \in Shares : h = c.share
    BY <2>1 DEF ClerkVars
  <2>3. c.new \in ShareRow /\ share[h] = None /\ ClerkKnows(q)
    BY <2>1, <2>2 DEF ClerkKnows, LinksInv, ClerkVars
  <2>4. clerk' = [clerk EXCEPT ![q] = None]
    BY <1>5 DEF CreateCommit
  <2>5. CASE c.new.file \in Stored
    <3>1. share' = [share EXCEPT ![h] = c.new]
      BY <1>5, <2>1, <2>2, <2>5 DEF CreateCommit
    <3> QED
      BY <1>2, <2>1, <2>2, <2>3, <2>4, <2>5, <3>1 DEF ClerkKnows
  <2>6. CASE c.new.file \notin Stored
    <3>1. share' = [share EXCEPT ![h] = None]
      BY <1>t, <1>5, <2>1, <2>2, <2>3, <2>6 DEF CreateCommit
    <3> QED
      BY <1>2, <2>1, <2>2, <2>4, <3>1
  <2> QED
    BY <2>5, <2>6
<1>6. CASE EditCommit(q)
  <2>1. PICK c \in ClerkVars : c = clerk[q] /\ c.op # "create" /\ clerk[q] # None
    BY <1>t, <1>6 DEF EditCommit
  <2>2. PICK h \in Shares : h = c.share
    BY <2>1 DEF ClerkVars
  <2>3. c.new \in ShareRow /\ c.loaded \in ShareRow /\ ClerkKnows(q)
    BY <2>1 DEF LinksInv, ClerkVars
  <2>4. clerk' = [clerk EXCEPT ![q] = None]
    BY <1>6 DEF EditCommit
  <2>5. CASE share[h] = None
    <3>1. share' = [share EXCEPT ![h] = None]
      BY <1>t, <1>6, <2>1, <2>2, <2>5 DEF EditCommit
    <3> QED
      BY <1>2, <2>1, <2>2, <2>4, <3>1
  <2>6. CASE share[h] # None
    <3>1. PICK old \in ShareRow : old = share[h]
      BY <1>t, <2>6
    <3> DEFINE p == Changed(c.loaded.pin, c.new.pin, old.pin)
               b == Changed(c.loaded.revoked, c.new.revoked, old.revoked)
               row == [old EXCEPT !.pin = p, !.revoked = b]
    <3>2. share' = [share EXCEPT ![h] = row]
      BY <1>t, <1>6, <2>1, <2>2, <2>6, <3>1 DEF EditCommit
    <3>3. /\ p \in 0 .. MaxVersion /\ b \in BOOLEAN
          /\ p = c.new.pin \/ p = old.pin
      BY <2>3, <3>1 DEF Changed, ShareRow
    <3>4. /\ old.file = c.new.file /\ old.file \in Stored
          /\ CanPin(old.file, old.pin) /\ CanPin(old.file, c.new.pin)
      BY <2>1, <2>2, <2>3, <2>6, <3>1 DEF LinksInv, PinsExist, ClerkKnows
    <3> HIDE DEF p, b
    <3>5. row \in ShareRow /\ row.file = old.file /\ row.pin = p
      BY <3>1, <3>3 DEF ShareRow
    <3> HIDE DEF row
    <3> QED
      BY <1>2, <2>1, <2>2, <2>4, <2>6, <3>1, <3>2, <3>3, <3>4, <3>5
  <2> QED
    BY <2>5, <2>6
<1> QED
  BY <1>3, <1>4, <1>5, <1>6

\* A download picks up what it will serve, in three reads.
LEMMA VisitKeepsLinks ==
  ASSUME TypeInv, IdsInv, RowsInv, DekInv, LinkTypes, LinksInv, NEW g \in Visitors,
         (\E h \in Shares : VisitFind(g, h)) \/ VisitFile(g) \/ VisitPin(g)
  PROVE  LinkTypes' /\ LinksInv'
<1>t. /\ share \in [Shares -> ShareRow \cup {None}]
      /\ visit \in [Visitors -> VisitVars \cup {None}]
      /\ file \in [Files -> FileRow \cup {None}] /\ versions \subseteq VersionRow
  BY DEF LinkTypes, TypeInv, TypeOK
<1>u. UNCHANGED <<vars, share, clerk, served>>
  BY DEF VisitFind, VisitFile, VisitPin
<1>s. /\ Stored' = Stored /\ \A f : VersionsOf(f)' = VersionsOf(f)
      /\ \A f : Known(f)' <=> Known(f)
      /\ \A f, n, d : Holds(f, n, d)' <=> Holds(f, n, d)
      /\ \A f, n, d : HoldsFrom(f, n, d)' <=> HoldsFrom(f, n, d)
      /\ \A f, n : CanPin(f, n)' <=> CanPin(f, n)
      /\ file' = file
  BY <1>u, StoreSame DEF vars
<1>1. ASSUME NEW w \in VisitVars \cup {None}, visit' = [visit EXCEPT ![g] = w],
             VisitKnows(g)' \/ w = None
      PROVE  LinkTypes' /\ LinksInv'
  <2>1. LinkTypes'
    BY <1>t, <1>u, <1>1 DEF LinkTypes
  <2>2. visit'[g] = w /\ \A k \in Visitors \ {g} : visit'[k] = visit[k]
    BY <1>t, <1>1
  <2>3. PinsExist'
    BY <1>s, <1>u DEF LinksInv, PinsExist
  <2>4. ASSUME NEW q \in Clerks, clerk'[q] # None PROVE ClerkKnows(q)'
    BY <1>s, <1>u, <2>4 DEF LinksInv, ClerkKnows
  <2>5. ASSUME NEW k \in Visitors, k # g, visit'[k] # None PROVE VisitKnows(k)'
    <3>1. VisitKnows(k) /\ visit'[k] = visit[k]
      BY <2>2, <2>5 DEF LinksInv
    <3> QED
      BY <1>s, <1>u, <3>1 DEF VisitKnows
  <2> QED
    BY <1>1, <2>1, <2>2, <2>3, <2>4, <2>5 DEF LinksInv
<1>2. ASSUME NEW h \in Shares, VisitFind(g, h) PROVE LinkTypes' /\ LinksInv'
  <2>1. PICK row \in ShareRow : row = share[h]
    BY <1>t, <1>2 DEF VisitFind
  <2>2. PICK f \in Stored : f = row.file
    BY <1>2, <2>1 DEF VisitFind, LinksInv, PinsExist
  <2>3. /\ CanPin(f, row.pin) /\ Known(f)
        /\ Latest(f) \in 1 .. MaxVersion /\ file[f].dek \in Deks
        /\ Holds(f, Latest(f), file[f].dek)
    BY <1>t, <1>2, <2>1, <2>2, ReadersAgree
       DEF VisitFind, LinksInv, PinsExist, IdsInv, Known, FileRow, Stored
  <2>4. PICK top \in 1 .. MaxVersion : top = Latest(f)
    BY <2>3
  <2> DEFINE w == [at |-> "found", share |-> h, row |-> row, path |-> None,
                   dek |-> None, floor |-> top]
  <2>5. visit' = [visit EXCEPT ![g] = w]
    BY <1>2, <2>1, <2>2, <2>4 DEF VisitFind
  <2>6. w \in VisitVars
    BY FileStorageAssumption, <2>1, <2>4 DEF VisitVars
  <2>7. visit'[g] = w
    BY <1>t, <2>5
  <2>8. \A q \in Clerks : clerk[q] # None /\ clerk[q].op = "create" => clerk[q].share # h
    BY <1>2 DEF VisitFind, LinksInv, ClerkKnows
  <2>9. HoldsFrom(f, top, file[f].dek)
    BY <2>3, <2>4 DEF HoldsFrom
  <2>10. VisitKnows(g)'
    BY <1>s, <1>u, <2>1, <2>2, <2>3, <2>7, <2>8, <2>9 DEF VisitKnows
  <2> QED
    BY <1>1, <2>5, <2>6, <2>10
<1>3. CASE VisitFile(g)
  <2>1. PICK w \in VisitVars : w = visit[g] /\ visit[g] # None
    BY <1>t, <1>3 DEF VisitFile
  <2>2. PICK f \in Files : f = w.row.file
    BY <2>1 DEF VisitVars, ShareRow
  <2>3. w.at = "found" /\ VisitKnows(g)
    BY <1>3, <2>1 DEF VisitFile, LinksInv
  <2>4. CASE f \in Stored
    <3>1. PICK row \in FileRow : row = file[f]
      BY <1>t, <2>4 DEF Stored
    <3> DEFINE x == [w EXCEPT !.at = "loaded", !.path = row.blob, !.dek = row.dek]
    <3>2. visit' = [visit EXCEPT ![g] = x]
      BY <1>t, <1>3, <2>1, <2>2, <2>4, <3>1 DEF VisitFile
    <3>3. /\ x \in VisitVars /\ x.at = "loaded" /\ x.dek = row.dek
          /\ x.row = w.row /\ x.share = w.share /\ x.floor = w.floor
      BY <3>1 DEF VisitVars, FileRow
    <3> HIDE DEF x
    <3>4. visit'[g] = x
      BY <1>t, <3>2
    <3>5. HoldsFrom(f, w.floor, row.dek)
      <4>1. PICK d \in Deks, m \in 1 .. MaxVersion : m >= w.floor /\ Holds(f, m, d)
        BY <2>1, <2>2, <2>3, <2>4 DEF VisitKnows, HoldsFrom
      <4>2. /\ Latest(f) \in 1 .. MaxVersion /\ Holds(f, Latest(f), row.dek)
            /\ m <= Latest(f)
        BY <2>4, <3>1, <4>1, ReadersAgree
      <4>3. w.floor \in Int /\ m \in Int /\ Latest(f) \in Int
        BY <4>1, <4>2, FileStorageAssumption DEF VisitVars
      <4> QED
        BY <4>1, <4>2, <4>3 DEF HoldsFrom
    <3>6. VisitKnows(g)'
      BY <1>s, <1>u, <2>1, <2>2, <2>3, <2>4, <3>1, <3>3, <3>4, <3>5 DEF VisitKnows
    <3> QED
      BY <1>1, <3>2, <3>3, <3>6
  <2>5. CASE f \notin Stored
    BY <1>1, <1>3, <2>1, <2>2, <2>5 DEF VisitFile, VisitEnd
  <2> QED
    BY <2>4, <2>5
<1>4. CASE VisitPin(g)
  <2>1. PICK w \in VisitVars : w = visit[g] /\ visit[g] # None
    BY <1>t, <1>4 DEF VisitPin
  <2>2. PICK f \in Files : f = w.row.file
    BY <2>1 DEF VisitVars, ShareRow
  <2>3. w.at = "loaded" /\ VisitKnows(g)
    BY <1>4, <2>1 DEF VisitPin, LinksInv
  <2> DEFINE pinned == PinnedRows(w.row)
  <2>4. CASE pinned = {}
    <3> DEFINE x == [w EXCEPT !.at = "pinned"]
    <3>1. visit' = [visit EXCEPT ![g] = x]
      BY <1>t, <1>4, <2>1, <2>4 DEF VisitPin
    <3>2. /\ x \in VisitVars /\ x.at = "pinned" /\ x.dek = w.dek
          /\ x.row = w.row /\ x.share = w.share /\ x.floor = w.floor
      BY DEF VisitVars
    <3> HIDE DEF x
    <3>3. visit'[g] = x
      BY <1>t, <3>1
    <3>4. f \in Stored /\ w.row.pin # 0 => Holds(f, w.row.pin, w.dek)
      BY <2>1, <2>2, <2>3, <2>4 DEF VisitKnows, CanPin, Numbers, PinnedRows, Holds
    <3>5. VisitKnows(g)'
      BY <1>s, <1>u, <2>1, <2>2, <2>3, <3>2, <3>3, <3>4 DEF VisitKnows
    <3> QED
      BY <1>1, <3>1, <3>2, <3>5
  <2>5. CASE pinned # {}
    <3>1. PICK v \in pinned : v = (CHOOSE x \in pinned : TRUE)
      BY <2>5
    <3>2. /\ v \in VersionRow /\ v \in VersionsOf(f) /\ v.num = w.row.pin
      BY <1>t, <2>2 DEF PinnedRows, VersionsOf
    <3> DEFINE x == [w EXCEPT !.at = "pinned", !.path = v.path, !.dek = v.dek]
    <3>3. visit' = [visit EXCEPT ![g] = x]
      BY <1>t, <1>4, <2>1, <2>5, <3>1 DEF VisitPin
    <3>4. /\ x \in VisitVars /\ x.at = "pinned" /\ x.dek = v.dek
          /\ x.row = w.row /\ x.share = w.share /\ x.floor = w.floor
      BY <3>2 DEF VisitVars, VersionRow
    <3> HIDE DEF x
    <3>5. visit'[g] = x
      BY <1>t, <3>3
    <3>6. Holds(f, w.row.pin, v.dek) /\ w.row.pin # 0
      BY <3>2, FileStorageAssumption DEF Holds, VersionRow
    <3>7. VisitKnows(g)'
      BY <1>s, <1>u, <2>1, <2>2, <2>3, <3>4, <3>5, <3>6 DEF VisitKnows
    <3> QED
      BY <1>1, <3>3, <3>4, <3>7
  <2> QED
    BY <2>4, <2>5
<1> QED
  BY <1>2, <1>3, <1>4

ServesRight == PinnedServesPinned /\ UnpinnedServesLatest

\* What is answered is what the download knew.
LEMMA ServeRight ==
  ASSUME TypeInv, IdsInv, RowsInv, DekInv, LinkTypes, LinksInv, ServesRight,
         NEW g \in Visitors, VisitServe(g)
  PROVE  LinkTypes' /\ LinksInv' /\ ServesRight'
<1>t. /\ visit \in [Visitors -> VisitVars \cup {None}]
      /\ served \in [Visitors -> ServedRow \cup {None}]
  BY DEF LinkTypes
<1>u. UNCHANGED <<vars, share, clerk>> /\ visit' = [visit EXCEPT ![g] = None]
  BY DEF VisitServe, VisitEnd
<1>s. /\ Stored' = Stored /\ \A f : VersionsOf(f)' = VersionsOf(f)
      /\ \A f : Known(f)' <=> Known(f)
      /\ \A f, n, d : Holds(f, n, d)' <=> Holds(f, n, d)
      /\ \A f, n, d : HoldsFrom(f, n, d)' <=> HoldsFrom(f, n, d)
      /\ \A f, n : CanPin(f, n)' <=> CanPin(f, n)
      /\ file' = file
  BY <1>u, StoreSame DEF vars
<1>1. LinksInv'
  <2>1. PinsExist' /\ \A q \in Clerks : clerk'[q] # None => ClerkKnows(q)'
    BY <1>s, <1>u DEF LinksInv, PinsExist, ClerkKnows
  <2>2. ASSUME NEW k \in Visitors, visit'[k] # None PROVE VisitKnows(k)'
    <3>1. VisitKnows(k) /\ visit'[k] = visit[k]
      BY <1>t, <1>u, <2>2 DEF LinksInv
    <3> QED
      BY <1>s, <1>u, <3>1 DEF VisitKnows
  <2> QED
    BY <2>1, <2>2 DEF LinksInv
<1>2. PICK w \in VisitVars : w = visit[g] /\ w.at = "pinned" /\ VisitKnows(g)
  BY <1>t DEF VisitServe, LinksInv
<1>3. PICK f : f = w.row.file
  OBVIOUS
<1>4. CASE served' = served
  <2>1. LinkTypes'
    BY <1>t, <1>u, <1>4 DEF LinkTypes
  <2> QED
    BY <1>1, <1>4, <2>1 DEF ServesRight, PinnedServesPinned, UnpinnedServesLatest
<1>5. CASE share[w.share] # None
           /\ served' = [served EXCEPT ![g] =
                [pin |-> w.row.pin, floor |-> w.floor, num |-> NumberOf(f, w.dek)]]
  <2>1. f \in Stored
    BY <1>2, <1>3, <1>5 DEF VisitKnows, LinksInv, PinsExist, VisitVars
  <2>2. PICK m \in Nat : /\ m = NumberOf(f, w.dek)
                         /\ w.row.pin # 0 => m = w.row.pin
                         /\ w.row.pin = 0 => m >= w.floor
    <3>1. CASE w.row.pin # 0
      <4>1. Holds(f, w.row.pin, w.dek)
        BY <1>2, <1>3, <2>1, <3>1 DEF VisitKnows
      <4>2. /\ NumberOf(f, w.dek) = w.row.pin
            /\ w.row.pin \in 1 .. Latest(f) /\ Latest(f) \in 1 .. MaxVersion
        BY <2>1, <4>1, ReadersAgree
      <4> QED
        BY <3>1, <4>2, FileStorageAssumption
    <3>2. CASE w.row.pin = 0
      <4>1. PICK m \in 1 .. MaxVersion : m >= w.floor /\ Holds(f, m, w.dek)
        BY <1>2, <1>3, <2>1, <3>2 DEF VisitKnows, HoldsFrom
      <4>2. NumberOf(f, w.dek) = m /\ m \in Nat
        BY <2>1, <4>1, ReadersAgree, FileStorageAssumption
      <4> QED
        BY <3>2, <4>1, <4>2
    <3> QED
      BY <3>1, <3>2
  <2> DEFINE row == [pin |-> w.row.pin, floor |-> w.floor, num |-> m]
  <2>3. served' = [served EXCEPT ![g] = row] /\ row \in ServedRow
    BY <1>5, <2>2 DEF ServedRow, VisitVars, ShareRow
  <2>4. served'[g] = row /\ \A k \in Visitors \ {g} : served'[k] = served[k]
    BY <1>t, <2>3
  <2>5. LinkTypes'
    BY <1>t, <1>u, <2>3 DEF LinkTypes
  <2>6. ServesRight'
    BY <2>2, <2>4 DEF ServesRight, PinnedServesPinned, UnpinnedServesLatest
  <2> QED
    BY <1>1, <2>5, <2>6
<1> QED
  BY <1>2, <1>3, <1>4, <1>5 DEF VisitServe

Inv ==
  /\ TypeInv /\ IdsInv /\ RowsInv /\ DekInv
  /\ LinkTypes /\ LinksInv /\ ServesRight

LEMMA InvStep == Inv /\ [SharingNext]_<<vars, shareVars>> => Inv'
<1> SUFFICES ASSUME Inv, [SharingNext]_<<vars, shareVars>> PROVE Inv'
  OBVIOUS
<1>t. /\ share \in [Shares -> ShareRow \cup {None}]
      /\ pg \in [Requests -> PurgeVars]
      /\ file \in [Files -> FileRow \cup {None}]
  BY DEF Inv, LinkTypes, TypeInv, TypeOK
<1>p. PinsExist
  BY DEF Inv, LinksInv
\* The store keeps its own, whatever is done to the shares.
<1>1. ASSUME [Next]_vars PROVE (TypeInv /\ IdsInv /\ RowsInv /\ DekInv)'
  BY <1>1, TypeStep, IdsStep, RowsStep, DekStep DEF Inv
<1>2. ASSUME [Next]_vars, UNCHANGED <<clerk, visit, served>>,
             share' \in [Shares -> ShareRow \cup {None}],
             \A h \in Shares : share'[h] # None =>
               /\ share[h] # None /\ share[h].file \in Stored'
               /\ share'[h].file = share[h].file /\ share'[h].pin = share[h].pin
      PROVE  Inv'
  <2>1. LinksInv'
    BY <1>2, StoreKeepsLinks DEF Inv
  <2>2. LinkTypes' /\ ServesRight'
    BY <1>2 DEF Inv, LinkTypes, ServesRight, PinnedServesPinned, UnpinnedServesLatest
  <2> QED
    BY <1>1, <1>2, <2>1, <2>2 DEF Inv
<1>3. ASSUME NEW r \in Requests, StorageStep(r), UNCHANGED shareVars PROVE Inv'
  <2>1. [Next]_vars
    BY <1>3 DEF StorageStep, Next, TrashOrRead, Purge, PurgeStep
  <2>2. Stored \subseteq Stored'
    <3>1. ASSUME NEW f \in Files, Restore(r, f) PROVE Stored \subseteq Stored'
      <4>1. PICK row \in FileRow : row = file[f]
        BY <1>t, <3>1 DEF Restore, Owns, Stored
      <4>2. [row EXCEPT !.trashed = FALSE] \in FileRow
        BY DEF FileRow
      <4>3. file' = [file EXCEPT ![f] = [row EXCEPT !.trashed = FALSE]]
        BY <1>t, <3>1, <4>1 DEF Restore
      <4> QED
        BY <1>t, <4>2, <4>3, NoneIsNoRow DEF Stored
    <3>2. CASE UploadCommit(r)
      <4>1. up[r].file \notin Stored
        BY <3>2 DEF UploadCommit, End, Begin, Inv, IdsInv
      <4> QED
        BY <1>t, <3>2, <4>1 DEF UploadCommit, Stored
    <3>3. CASE VersionCommit(r)
      <4> DEFINE g == up[r].file
                 v == [file |-> g, num |-> up[r].num,
                       path |-> VersionPath(g, up[r].num), dek |-> up[r].dek,
                       size |-> up[r].size]
      <4>1. /\ v \in versions' /\ v.file = g /\ g \in Stored
            /\ file' = [file EXCEPT ![g] = LatestRow(@, v, up[r].seen)]
        BY <3>3 DEF VersionCommit
      <4>2. RowNamesLatest'
        BY <2>1, RowsStep DEF Inv, RowsInv
      <4> HIDE DEF v
      <4>3. g \in Stored'
        BY <4>1, <4>2 DEF RowNamesLatest
      <4> QED
        BY <1>t, <4>1, <4>3 DEF Stored
    <3>4. CASE file' = file
      BY <3>4 DEF Stored
    <3> QED
      BY <1>3, <3>1, <3>2, <3>3, <3>4
         DEF StorageStep, Upload, UploadVersion, UploadCheck, UploadWrite, VersionLoad,
             VersionPlan, VersionReject, VersionWrite, VersionConflict, Fail,
             BackfillFirst, PurgeBegin, PurgeLoad, PurgeSkip, PurgeUnlink
  <2>3. share' = share /\ \A h \in Shares : share[h] # None => share[h].file \in Stored'
    BY <1>3, <1>p, <2>2 DEF shareVars, PinsExist
  <2> QED
    BY <1>2, <1>3, <1>t, <2>1, <2>3 DEF shareVars
<1>4. ASSUME NEW r \in Requests, NEW f \in Files, SoftDeleteShared(r, f) PROVE Inv'
  <2>1. [Next]_vars
    BY <1>4 DEF SoftDeleteShared, Next, TrashOrRead
  <2>2. Stored \subseteq Stored'
    <3>1. PICK row \in FileRow : row = file[f]
      BY <1>t, <1>4 DEF SoftDeleteShared, SoftDelete, Owns, Stored
    <3>2. [row EXCEPT !.trashed = TRUE] \in FileRow
      BY DEF FileRow
    <3>3. file' = [file EXCEPT ![f] = [row EXCEPT !.trashed = TRUE]]
      BY <1>t, <1>4, <3>1 DEF SoftDeleteShared, SoftDelete
    <3> QED
      BY <1>t, <3>2, <3>3, NoneIsNoRow DEF Stored
  <2>3. ASSUME NEW h \in Shares
        PROVE  /\ share'[h] \in ShareRow \cup {None}
               /\ share'[h] # None =>
                    /\ share[h] # None /\ share[h].file \in Stored'
                    /\ share'[h].file = share[h].file /\ share'[h].pin = share[h].pin
    <3>1. CASE share[h] = None
      BY <1>4, <3>1 DEF SoftDeleteShared, RevokedAll, LiveShares
    <3>2. CASE share[h] # None
      <4>1. PICK row \in ShareRow : row = share[h]
        BY <1>t, <3>2
      <4>2. share'[h] = row \/ share'[h] = [row EXCEPT !.revoked = TRUE]
        BY <1>4, <4>1 DEF SoftDeleteShared, RevokedAll
      <4> QED
        BY <1>p, <2>2, <3>2, <4>1, <4>2 DEF PinsExist, ShareRow
    <3> QED
      BY <3>1, <3>2
  <2>4. share' = [h \in Shares |-> share'[h]] /\ UNCHANGED <<clerk, visit, served>>
    BY <1>4 DEF SoftDeleteShared, RevokedAll
  <2>5. share' \in [Shares -> ShareRow \cup {None}]
    BY <2>3, <2>4
  <2> QED
    BY <1>2, <2>1, <2>3, <2>4, <2>5
<1>5. ASSUME NEW r \in Requests, PurgeCommitShared(r) PROVE Inv'
  <2>1. [Next]_vars
    BY <1>5 DEF PurgeCommitShared, Next, Purge, PurgeStep
  <2>2. Stored' = Stored \ pg[r].gone
    BY <1>t, <1>5 DEF PurgeCommitShared, PurgeCommit, Stored
  <2>3. /\ share' = [h \in Shares |->
                       IF share[h] # None /\ share[h].file \in pg[r].gone
                       THEN None ELSE share[h]]
        /\ UNCHANGED <<clerk, visit, served>>
    BY <1>5 DEF PurgeCommitShared, SharesWithout
  <2>4. \A h \in Shares : share'[h] # None =>
          share'[h] = share[h] /\ share[h].file \in Stored'
    BY <1>p, <2>2, <2>3 DEF PinsExist
  <2>5. share' \in [Shares -> ShareRow \cup {None}]
    BY <1>t, <2>3
  <2> QED
    BY <1>2, <2>1, <2>3, <2>4, <2>5
\* Steps that leave the store alone.
<1>6. ASSUME UNCHANGED <<vars, served>>, LinkTypes' /\ LinksInv' PROVE Inv'
  BY <1>1, <1>6 DEF Inv, ServesRight, PinnedServesPinned, UnpinnedServesLatest
<1>7. ASSUME NEW q \in Clerks,
             \/ \E h \in Shares, f \in Files, n \in 0 .. MaxVersion :
                  CreateCheck(q, h, f, n)
             \/ \E h \in Shares : Patch(q, h) \/ Revoke(q, h)
             \/ CreateCommit(q) \/ EditCommit(q)
      PROVE  Inv'
  <2>1. UNCHANGED <<vars, served>>
    BY <1>7 DEF CreateCheck, Patch, Revoke, EditLoad, CreateCommit, EditCommit
  <2> QED
    BY <1>6, <1>7, <2>1, ClerkKeepsLinks DEF Inv
<1>8. ASSUME NEW g \in Visitors,
             (\E h \in Shares : VisitFind(g, h)) \/ VisitFile(g) \/ VisitPin(g)
      PROVE  Inv'
  <2>1. UNCHANGED <<vars, served>>
    BY <1>8 DEF VisitFind, VisitFile, VisitPin
  <2> QED
    BY <1>6, <1>8, <2>1, VisitKeepsLinks DEF Inv
<1>9. ASSUME NEW g \in Visitors, VisitServe(g) PROVE Inv'
  <2>1. UNCHANGED vars
    BY <1>9 DEF VisitServe
  <2> QED
    BY <1>1, <1>9, <2>1, ServeRight DEF Inv
<1>10. CASE UNCHANGED <<vars, shareVars>>
  BY <1>2, <1>10, <1>t, <1>p DEF shareVars, PinsExist, vars, Stored
<1> QED
  BY <1>3, <1>4, <1>5, <1>7, <1>8, <1>9, <1>10 DEF SharingNext

LEMMA InvInit == SharingInit => Inv
  BY TypeInit, RowsInit, DekInit
     DEF SharingInit, Inv, LinkTypes, LinksInv, ServesRight, PinsExist,
         PinnedServesPinned, UnpinnedServesLatest

LEMMA SharingInvariant == SharingSpec => []Inv
  BY InvInit, InvStep, PTL DEF SharingSpec

\* Whatever a version upload, a trash, a purge and a share request do to a file
\* while it is served, the locals of app/shares/routes.py and what it serves
\* have the types of their columns: the key it serves has a version number.
THEOREM SharingTypeCorrect == SharingSpec => []SharingTypeOK
  BY SharingInvariant, PTL DEF Inv, LinkTypes, TypeInv, SharingTypeOK

\* A pinned link serves the pinned version or nothing, for every interleaving of
\* the download's three reads with uploads, backfills, purges and re-pinning.
THEOREM PinnedAlwaysPinned == SharingSpec => []PinnedServesPinned
  BY SharingInvariant, PTL DEF Inv, ServesRight

\* A link without a pin never serves a version that was superseded before the
\* download began.
THEOREM UnpinnedNeverOld == SharingSpec => []UnpinnedServesLatest
  BY SharingInvariant, PTL DEF Inv, ServesRight

\* No request that checked its pin or its file earlier leaves a link to a file
\* that is gone or to a version it never had.
THEOREM PinsAlwaysExist == SharingSpec => []PinsExist
  BY SharingInvariant, PTL DEF Inv, LinksInv

-----------------------------------------------------------------------------
\* A store whose shares are used is a store: what is proved about FileStorage
\* holds under share links, whatever clerks and visitors do.
LEMMA StepRefines ==
  ASSUME [SharingNext]_<<vars, shareVars>>
  PROVE  [Next]_vars
<1>1. ASSUME NEW r \in Requests,
             \/ StorageStep(r)
             \/ \E f \in Files : SoftDeleteShared(r, f)
             \/ PurgeCommitShared(r)
      PROVE  Next
  BY <1>1 DEF StorageStep, SoftDeleteShared, PurgeCommitShared, Next, TrashOrRead,
              Purge, PurgeStep
<1>2. ASSUME NEW q \in Clerks,
             \/ \E h \in Shares, f \in Files, n \in 0 .. MaxVersion :
                  CreateCheck(q, h, f, n)
             \/ \E h \in Shares : Patch(q, h) \/ Revoke(q, h)
             \/ CreateCommit(q) \/ EditCommit(q)
      PROVE  UNCHANGED vars
  BY <1>2 DEF CreateCheck, Patch, Revoke, EditLoad, CreateCommit, EditCommit
<1>3. ASSUME NEW g \in Visitors,
             \/ \E h \in Shares : VisitFind(g, h)
             \/ VisitFile(g) \/ VisitPin(g) \/ VisitServe(g)
      PROVE  UNCHANGED vars
  BY <1>3 DEF VisitFind, VisitFile, VisitPin, VisitServe
<1>4. CASE UNCHANGED <<vars, shareVars>>
  BY <1>4
<1> QED
  BY <1>1, <1>2, <1>3, <1>4 DEF SharingNext

\* Sharing implements the store alone: no share request and no download does
\* anything to a file that a client of the store could not see done without it.
THEOREM SharingIsAStore == SharingSpec => Spec
<1>1. SharingInit => Init
  BY DEF SharingInit
<1> QED
  BY <1>1, StepRefines, PTL DEF SharingSpec, Spec

\* The path of a version.
PathOf(f, n) == IF n = 1 THEN BasePath(f) ELSE VersionPath(f, n)

\* The path and the key that a download has picked are those of one version that
\* a reader of its file finds.
VisitPicks(g) ==
  LET w == visit[g]
  IN  w.at # "found" /\ w.row.file \in Stored =>
        \E n \in 1 .. MaxVersion :
          Holds(w.row.file, n, w.dek) /\ w.path = PathOf(w.row.file, n)

PicksInv == \A g \in Visitors : visit[g] # None => VisitPicks(g)

\* The files row names the path and the key of one version.
LEMMA RowPick ==
  ASSUME TypeInv, RowsInv, PathsInv, DekInv, NEW f \in Stored
  PROVE  \E n \in 1 .. MaxVersion :
           Holds(f, n, file[f].dek) /\ file[f].blob = PathOf(f, n)
<1>1. PICK n \in 1 .. MaxVersion : n = Latest(f) /\ Holds(f, n, file[f].dek)
  BY ReadersAgree
<1>2. CASE VersionsOf(f) = {}
  <2>1. n = 1 /\ file[f].blob = BasePath(f)
    BY <1>1, <1>2 DEF Holds, PathsInv
  <2> QED
    BY <1>1, <2>1 DEF PathOf
<1>3. CASE VersionsOf(f) # {}
  <2>1. PICK v \in VersionsOf(f) : v.num = n /\ v.dek = file[f].dek
    BY <1>1, <1>3 DEF Holds
  <2>2. v \in versions /\ v.file = f
    BY DEF VersionsOf
  <2>3. ~ \E x \in VersionsOf(f) : x.num > v.num
    <3> SUFFICES ASSUME NEW x \in VersionsOf(f), x.num > v.num PROVE FALSE
      OBVIOUS
    <3>1. x.num \in 1 .. Latest(f)
      BY <1>3, ReadersAgree DEF Holds
    <3> QED
      BY <1>1, <2>1, <3>1, FileStorageAssumption
  <2>4. file[f].blob = v.path
    BY <2>2, <2>3 DEF RowsInv, RowNamesLatest
  <2>5. v.path = PathOf(f, n)
    BY <2>1, <2>2 DEF PathsInv, PathOf
  <2> QED
    BY <1>1, <2>4, <2>5
<1> QED
  BY <1>2, <1>3

\* What a download has picked its file goes on to hold.
LEMMA PicksKept ==
  ASSUME Inv, PicksInv, [Next]_vars, NEW g \in Visitors, visit'[g] = visit[g],
         visit[g] # None
  PROVE  VisitPicks(g)'
<1>1. PICK w : w = visit[g]
  OBVIOUS
<1>2. PICK f : f = w.row.file
  OBVIOUS
<1>3. Known(f)
  BY <1>1, <1>2 DEF Inv, LinksInv, VisitKnows
<1>4. SUFFICES ASSUME w.at # "found", f \in Stored'
               PROVE  \E n \in 1 .. MaxVersion :
                        Holds(f, n, w.dek)' /\ w.path = PathOf(f, n)
  BY <1>1, <1>2 DEF VisitPicks, PathOf, BasePath, VersionPath
<1>5. f \in Stored
  BY <1>3, <1>4, GoneForGood DEF Inv
<1>6. PICK n \in 1 .. MaxVersion : Holds(f, n, w.dek) /\ w.path = PathOf(f, n)
  BY <1>1, <1>2, <1>4, <1>5 DEF PicksInv, VisitPicks
<1>7. Holds(f, n, w.dek)'
  BY <1>4, <1>5, <1>6, HistoryKept DEF Inv
<1> QED
  BY <1>6, <1>7

\* A download picks the blob of the files row, or of the pinned version.
LEMMA VisitPicksRow ==
  ASSUME Inv, PathsInv, PicksInv, NEW g \in Visitors, VisitFile(g) \/ VisitPin(g)
  PROVE  PicksInv'
<1>t. /\ visit \in [Visitors -> VisitVars \cup {None}]
      /\ versions \subseteq VersionRow
  BY DEF Inv, LinkTypes, TypeInv, TypeOK
<1>u. UNCHANGED vars
  BY DEF VisitFile, VisitPin
<1>s. Stored' = Stored /\ \A f, n, d : Holds(f, n, d)' <=> Holds(f, n, d)
  BY <1>u, StoreSame
<1>1. PICK w \in VisitVars : w = visit[g] /\ visit[g] # None
  BY <1>t DEF VisitFile, VisitPin
<1>2. PICK f \in Files : f = w.row.file
  BY <1>1 DEF VisitVars, ShareRow
<1>3. \A k \in Visitors \ {g} : visit'[k] = visit[k]
  BY <1>t DEF VisitFile, VisitPin, VisitEnd
<1>4. ASSUME visit'[g] # None,
             \/ visit'[g] = None
             \/ /\ visit'[g].row = w.row
                /\ f \in Stored => \E n \in 1 .. MaxVersion :
                     Holds(f, n, visit'[g].dek) /\ visit'[g].path = PathOf(f, n)
      PROVE  VisitPicks(g)'
  <2>1. PICK x : x = visit'[g]
    OBVIOUS
  <2> QED
    BY <1>s, <1>2, <1>4, <2>1 DEF VisitPicks, PathOf, BasePath, VersionPath
<1>5. ASSUME visit'[g] # None, VisitFile(g) PROVE VisitPicks(g)'
  <2>1. f \in Stored
    BY <1>t, <1>1, <1>2, <1>5 DEF VisitFile, VisitEnd
  <2>2. PICK n \in 1 .. MaxVersion :
          Holds(f, n, file[f].dek) /\ file[f].blob = PathOf(f, n)
    BY <2>1, RowPick DEF Inv
  <2> DEFINE x == [w EXCEPT !.at = "loaded", !.path = file[f].blob,
                            !.dek = file[f].dek]
  <2>3. visit' = [visit EXCEPT ![g] = x]
    BY <1>t, <1>1, <1>2, <1>5, <2>1 DEF VisitFile
  <2>4. x.row = w.row /\ x.path = file[f].blob /\ x.dek = file[f].dek
    BY DEF VisitVars
  <2> HIDE DEF x
  <2>5. visit'[g] = x
    BY <1>t, <2>3
  <2> QED
    BY <1>4, <1>5, <2>2, <2>4, <2>5
<1>6. ASSUME visit'[g] # None, VisitPin(g) PROVE VisitPicks(g)'
  <2> DEFINE pinned == PinnedRows(w.row)
  <2>1. w.at = "loaded"
    BY <1>1, <1>6 DEF VisitPin
  <2>2. CASE pinned = {}
    <3> DEFINE x == [w EXCEPT !.at = "pinned"]
    <3>1. visit' = [visit EXCEPT ![g] = x]
      BY <1>t, <1>1, <1>6, <2>2 DEF VisitPin
    <3>2. x.row = w.row /\ x.path = w.path /\ x.dek = w.dek
      BY DEF VisitVars
    <3> HIDE DEF x
    <3>3. visit'[g] = x
      BY <1>t, <3>1
    <3>4. f \in Stored => \E n \in 1 .. MaxVersion :
            Holds(f, n, w.dek) /\ w.path = PathOf(f, n)
      BY <1>1, <1>2, <2>1 DEF PicksInv, VisitPicks
    <3> QED
      BY <1>4, <1>6, <3>2, <3>3, <3>4
  <2>3. CASE pinned # {}
    <3>1. PICK v \in pinned : v = (CHOOSE y \in pinned : TRUE)
      BY <2>3
    <3>2. /\ v \in VersionRow /\ v \in versions /\ v \in VersionsOf(f)
          /\ v.file = f
      BY <1>t, <1>2 DEF PinnedRows, VersionsOf
    <3> DEFINE x == [w EXCEPT !.at = "pinned", !.path = v.path, !.dek = v.dek]
    <3>3. visit' = [visit EXCEPT ![g] = x]
      BY <1>t, <1>1, <1>6, <2>3, <3>1 DEF VisitPin
    <3>4. x.row = w.row /\ x.path = v.path /\ x.dek = v.dek
      BY DEF VisitVars
    <3> HIDE DEF x
    <3>5. visit'[g] = x
      BY <1>t, <3>3
    <3>6. /\ v.num \in 1 .. MaxVersion /\ Holds(f, v.num, v.dek)
          /\ v.path = PathOf(f, v.num)
      BY <3>2 DEF Holds, PathsInv, PathOf, VersionRow
    <3> QED
      BY <1>4, <1>6, <3>4, <3>5, <3>6
  <2> QED
    BY <2>2, <2>3
<1>7. ASSUME NEW k \in Visitors \ {g}, visit'[k] # None PROVE VisitPicks(k)'
  BY <1>u, <1>3, <1>7, PicksKept
<1> QED
  BY <1>5, <1>6, <1>7 DEF PicksInv

\* Every step of the store, of the clerks and of the visitors keeps it.
LEMMA PicksStep ==
  ASSUME Inv, PathsInv, PicksInv, [SharingNext]_<<vars, shareVars>>
  PROVE  PicksInv'
<1>t. visit \in [Visitors -> VisitVars \cup {None}]
  BY DEF Inv, LinkTypes
<1>n. [Next]_vars
  BY StepRefines
<1>1. ASSUME \A g \in Visitors : visit'[g] # None =>
               visit'[g] = visit[g] \/ visit'[g].at = "found"
      PROVE  PicksInv'
  <2> SUFFICES ASSUME NEW g \in Visitors, visit'[g] # None PROVE VisitPicks(g)'
    BY DEF PicksInv
  <2>1. CASE visit'[g] = visit[g]
    BY <1>n, <2>1, PicksKept
  <2>2. CASE visit'[g].at = "found"
    BY <2>2 DEF VisitPicks
  <2> QED
    BY <1>1, <2>1, <2>2
<1>2. ASSUME visit' = visit PROVE PicksInv'
  BY <1>1, <1>2
<1>3. ASSUME NEW g \in Visitors,
             (\E h \in Shares : VisitFind(g, h)) \/ VisitServe(g)
      PROVE  PicksInv'
  <2>1. ASSUME NEW h \in Shares, VisitFind(g, h) PROVE PicksInv'
    <3>1. visit'[g].at = "found" /\ \A k \in Visitors \ {g} : visit'[k] = visit[k]
      BY <1>t, <2>1 DEF VisitFind
    <3> QED
      BY <1>1, <3>1
  <2>2. CASE VisitServe(g)
    <3>1. visit'[g] = None /\ \A k \in Visitors \ {g} : visit'[k] = visit[k]
      BY <1>t, <2>2 DEF VisitServe, VisitEnd
    <3> QED
      BY <1>1, <3>1
  <2> QED
    BY <1>3, <2>1, <2>2
<1>4. CASE \E r \in Requests :
             \/ StorageStep(r) /\ UNCHANGED shareVars
             \/ \E f \in Files : SoftDeleteShared(r, f)
             \/ PurgeCommitShared(r)
  BY <1>2, <1>4 DEF SoftDeleteShared, PurgeCommitShared, shareVars
<1>5. CASE \E q \in Clerks :
             \/ \E h \in Shares, f \in Files, n \in 0 .. MaxVersion :
                  CreateCheck(q, h, f, n)
             \/ \E h \in Shares : Patch(q, h) \/ Revoke(q, h)
             \/ CreateCommit(q) \/ EditCommit(q)
  BY <1>2, <1>5 DEF CreateCheck, Patch, Revoke, EditLoad, CreateCommit, EditCommit
<1>6. CASE UNCHANGED <<vars, shareVars>>
  BY <1>2, <1>6 DEF shareVars
<1> QED
  BY <1>3, <1>4, <1>5, <1>6, VisitPicksRow DEF SharingNext

LEMMA PicksInvariant == SharingSpec => [](PathsInv /\ DiskInv /\ PicksInv)
<1>1. SharingInit => PicksInv
  BY DEF SharingInit, PicksInv
<1>2. Inv /\ PathsInv /\ PicksInv /\ [SharingNext]_<<vars, shareVars>> => PicksInv'
  BY PicksStep
<1> QED
  BY <1>1, <1>2, SharingInvariant, SharingIsAStore, DiskInvariant, PTL
     DEF SharingSpec

\* A version that readers find and whose blob is readable decrypts.
LEMMA PicksDecrypt ==
  ASSUME TypeInv, PathsInv, DiskInv, PicksInv, VersionsReadable
  PROVE  VisitsReadable
<1> SUFFICES ASSUME NEW g \in Visitors, visit[g] # None, visit[g].at # "found",
                    visit[g].row.file \in Stored \ condemned
             PROVE  disk[visit[g].path] = visit[g].dek
  BY DEF VisitsReadable
<1>1. PICK w : w = visit[g]
  OBVIOUS
<1>2. PICK f \in Stored \ condemned : f = w.row.file
  BY <1>1
<1>3. PICK n \in 1 .. MaxVersion : Holds(f, n, w.dek) /\ w.path = PathOf(f, n)
  BY <1>1, <1>2 DEF PicksInv, VisitPicks
<1>4. CASE VersionsOf(f) = {}
  BY <1>1, <1>2, <1>3, <1>4 DEF Holds, PathOf, DiskInv
<1>5. CASE VersionsOf(f) # {}
  <2>1. PICK v \in VersionsOf(f) : v.num = n /\ v.dek = w.dek
    BY <1>3, <1>5 DEF Holds
  <2>2. v \in versions /\ v.file = f
    BY DEF VersionsOf
  <2>3. v.path = w.path
    BY <1>3, <2>1, <2>2 DEF PathsInv, PathOf
  <2> QED
    BY <1>1, <1>2, <2>1, <2>2, <2>3 DEF VersionsReadable
<1> QED
  BY <1>4, <1>5

\* If no file is ever sent two versions at the same time, a download through a
\* link decrypts with the key it has picked, be it of the files row or of the
\* pinned version, whatever is uploaded, trashed, restored, backfilled or
\* re-pinned between its reads, until a purge takes the file up.
THEOREM DownloadsDecrypt == SharingSpec /\ []OneUploader => []VisitsReadable
<1>1. SharingSpec /\ []OneUploader => []VersionsReadable
  BY SharingIsAStore, VersionsReadableToOneUploader, PTL
<1>2. Inv /\ PathsInv /\ DiskInv /\ PicksInv /\ VersionsReadable => VisitsReadable
  BY PicksDecrypt DEF Inv
<1> QED
  BY <1>1, <1>2, SharingInvariant, PicksInvariant, PTL

\* That is so when owners wait for the response to one request before they send
\* the next.
THEOREM WaitingOwnersServeVisitors ==
  ASSUME OneRequestEach
  PROVE  SharingSpec => []VisitsReadable
<1>1. SharingSpec => []VersionsReadable
  BY SharingIsAStore, WaitingClientsKeepPromises, PTL
<1>2. Inv /\ PathsInv /\ DiskInv /\ PicksInv /\ VersionsReadable => VisitsReadable
  BY PicksDecrypt DEF Inv
<1> QED
  BY <1>1, <1>2, SharingInvariant, PicksInvariant, PTL
=============================================================================
