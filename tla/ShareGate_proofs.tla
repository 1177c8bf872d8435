---------------------------- MODULE ShareGate_proofs ----------------------------
(***************************************************************************)
(* Theorems about ShareGate, for every set of shares, users, callers,      *)
(* links and requests, and any number of edits and log rows.               *)
(*                                                                         *)
(* A gate decides on the row that Find loaded.  The invariant says what    *)
(* that row, and a decision made on it, are evidence of: rights that the   *)
(* caller had when the row was read, or has now.                           *)
(***************************************************************************)
EXTENDS ShareGate, FiniteSetTheorems, TLAPS

Tables ==
  /\ share \in [Shares -> ShareRow \cup {None}]
  /\ active \in [Users -> BOOLEAN]
  /\ grants \subseteq Callers \X Shares /\ proven \subseteq Callers \X Shares
  /\ log \in [Shares -> Seq(LogRow)]
  /\ \A h \in Shares : Len(log[h]) <= MaxLog
  /\ notices \in [Shares -> 0 .. MaxLog]
  /\ edits \in 0 .. MaxEdits

Types ==
  /\ Tables
  /\ visit \in [Visitors -> VisitVars \cup {None}]
  /\ since \in [Visitors -> SUBSET Rights]

\* What the request w of caller c has had, if held are the rights it has had at
\* some moment and pr the passwords given.
Earned(w, c, held, pr) ==
  /\ ~w.row.revoked /\ ~w.row.expired => "valid" \in held
  /\ Permitted(w.kind, w.row) => "permission" \in held
  /\ w.at # "found" /\ w.kind = "verify" => {"valid", "owner"} \subseteq held
  /\ w.at # "found" /\ w.ok =>
       /\ w.kind # "verify" => held = Rights /\ Addressed(c, w.row)
       /\ w.kind = "verify" \/ w.row.locked => <<c, w.share>> \in pr
  /\ w.at = "ready" => w.ok

\* The recipient and the password of a link are never changed.
SameLink(w) ==
  share[w.share] # None =>
    /\ w.row.locked = share[w.share].locked
    /\ w.row.to = share[w.share].to

Visits ==
  \A g \in Visitors :
    visit[g] # None =>
      SameLink(visit[g]) /\ Earned(visit[g], Caller[g], since[g], proven)

\* A view or download in the log of a locked share is by someone who gave its
\* password.
LogEarned ==
  \A h \in Shares :
    share[h] # None /\ share[h].locked =>
      \A i \in DOMAIN log[h] :
        log[h][i].ok /\ log[h][i].action # "password_verify" =>
          <<log[h][i].by, h>> \in proven

\* The row that the request g inserts.
Entry(g) ==
  [by |-> LoggedCaller(g), action |-> ActionOf(visit[g].kind),
   ok |-> visit[g].ok, done |-> FALSE]

\* A row that was flushed stays where it is until its own request commits it,
\* and its share stays for so long.
Entries ==
  \A g \in Visitors :
    LET h == visit[g].share
    IN  Flushed(g) =>
          /\ share[h] # None
          /\ visit[g].entry \in DOMAIN log[h] /\ log[h][visit[g].entry] = Entry(g)
          /\ \A p \in Visitors :
               Flushed(p) /\ visit[p].share = h /\ visit[p].entry = visit[g].entry
                 => p = g

Inv ==
  /\ Types /\ grants \subseteq proven
  /\ Visits /\ LogEarned /\ NoticesMatchLog /\ Entries

-----------------------------------------------------------------------------
\* What Observe makes of the rights of a request that is under way.
LEMMA Observed ==
  ASSUME Types, Observe
  PROVE  /\ since' \in [Visitors -> SUBSET Rights]
         /\ \A g \in Visitors : visit'[g] # None =>
              /\ since[g] \subseteq since'[g]
              /\ \A right \in Rights : Holds(g, right)' => right \in since'[g]
<1>1. since' = [g \in Visitors |->
                  IF visit'[g] = None THEN {}
                  ELSE since[g] \cup {right \in Rights : Holds(g, right)'}]
  BY DEF Observe
<1>2. \A g \in Visitors : since[g] \subseteq Rights
  BY DEF Types
<1>3. \A g \in Visitors :
        since'[g] = IF visit'[g] = None THEN {}
                    ELSE since[g] \cup {right \in Rights : Holds(g, right)'}
  BY <1>1
<1>4. since' \in [Visitors -> SUBSET Rights]
  BY <1>1, <1>2, <1>3
<1> QED BY <1>3, <1>4

\* What was earned stays earned.
LEMMA Keeps ==
  ASSUME NEW w, NEW c, NEW held \in SUBSET Rights, NEW held2 \in SUBSET Rights,
         NEW pr, NEW pr2,
         Earned(w, c, held, pr), held \subseteq held2, pr \subseteq pr2
  PROVE  Earned(w, c, held2, pr2)
BY DEF Earned

LEMMA OtherVisits ==
  ASSUME Inv, Observe, NEW p \in Visitors, visit'[p] = visit[p], proven \subseteq proven'
  PROVE  visit'[p] # None => Earned(visit'[p], Caller[p], since'[p], proven')
<1> SUFFICES ASSUME visit[p] # None
             PROVE  Earned(visit[p], Caller[p], since'[p], proven')
  OBVIOUS
<1>1. since[p] \in SUBSET Rights /\ since'[p] \in SUBSET Rights /\ since[p] \subseteq since'[p]
  BY Observed DEF Inv, Types
<1> QED BY <1>1, Keeps DEF Inv, Visits

\* The part of the log that notices are about.
Reported(s) ==
  {i \in DOMAIN s : s[i].done /\ s[i].ok /\ s[i].action # "password_verify"}

LEMMA ReportedFinite ==
  ASSUME NEW s \in Seq(LogRow)
  PROVE  /\ IsFiniteSet(Reported(s))
         /\ Cardinality(Reported(s)) \in 0 .. Len(s)
<1>0. Len(s) \in Nat
  OBVIOUS
<1>1. IsFiniteSet(1 .. Len(s)) /\ Cardinality(1 .. Len(s)) = Len(s)
  BY <1>0, FS_Interval
<1>2. Reported(s) \subseteq 1 .. Len(s)
  BY DEF Reported
<1>3. /\ IsFiniteSet(Reported(s))
      /\ Cardinality(Reported(s)) <= Cardinality(1 .. Len(s))
  BY <1>1, <1>2, FS_Subset
<1>4. Cardinality(Reported(s)) \in Nat
  BY <1>3, FS_CardinalityType
<1> QED BY <1>1, <1>3, <1>4

\* A row that is not committed is not part of it yet, ...
LEMMA ReportedAppend ==
  ASSUME NEW s \in Seq(LogRow), NEW row \in LogRow, ~row.done
  PROVE  Reported(Append(s, row)) = Reported(s)
<1> DEFINE t == Append(s, row)
<1>1. /\ DOMAIN t = DOMAIN s \cup {Len(s) + 1} /\ Len(s) + 1 \notin DOMAIN s
      /\ \A i \in DOMAIN s : t[i] = s[i]
      /\ t[Len(s) + 1] = row
  OBVIOUS
<1> HIDE DEF t
<1>2. Reported(t) = Reported(s)
  BY <1>1 DEF Reported
<1> QED BY <1>2 DEF t

\* ... and one that is committed becomes so.
LEMMA ReportedCommit ==
  ASSUME NEW s \in Seq(LogRow), NEW e \in DOMAIN s, ~s[e].done,
         NEW t \in Seq(LogRow), t = [s EXCEPT ![e].done = TRUE]
  PROVE  Cardinality(Reported(t)) =
           IF s[e].ok /\ s[e].action # "password_verify"
           THEN Cardinality(Reported(s)) + 1 ELSE Cardinality(Reported(s))
<1>1. /\ DOMAIN t = DOMAIN s
      /\ \A i \in DOMAIN s : i # e => t[i] = s[i]
  OBVIOUS
<1>2. s[e] \in LogRow /\ t[e] = [s[e] EXCEPT !.done = TRUE]
  OBVIOUS
<1>3. t[e].done /\ t[e].ok = s[e].ok /\ t[e].action = s[e].action
  BY <1>2 DEF LogRow
<1>4. e \notin Reported(s)
  BY DEF Reported
<1>5. CASE s[e].ok /\ s[e].action # "password_verify"
  <2>1. Reported(t) = Reported(s) \cup {e}
    BY <1>1, <1>3, <1>5 DEF Reported
  <2>2. Cardinality(Reported(s) \cup {e}) = Cardinality(Reported(s)) + 1
    BY <1>4, ReportedFinite, FS_AddElement
  <2> QED BY <1>5, <2>1, <2>2
<1>6. CASE ~(s[e].ok /\ s[e].action # "password_verify")
  <2>1. Reported(t) = Reported(s)
    BY <1>1, <1>3, <1>4, <1>6 DEF Reported
  <2> QED BY <1>6, <2>1
<1> QED BY <1>5, <1>6

LEMMA InvInit == GateInit => Inv
<1> SUFFICES ASSUME GateInit PROVE Inv
  OBVIOUS
<1>1. Created \subseteq ShareRow
  BY GateAssumption DEF ShareRow, Callers
<1>2. Types
  BY <1>1, GateAssumption DEF GateInit, Types, Tables
<1>3. NoticesMatchLog
  <2> SUFFICES ASSUME NEW h \in Shares
               PROVE  notices[h] = Cardinality(Reported(log[h]))
    BY DEF NoticesMatchLog, Reported
  <2>1. Reported(log[h]) = {}
    BY DEF GateInit, Reported
  <2> QED BY <2>1, FS_EmptySet DEF GateInit
<1>4. Visits /\ LogEarned /\ grants \subseteq proven /\ Entries
  BY DEF GateInit, Visits, LogEarned, Entries, Flushed
<1> QED BY <1>2, <1>3, <1>4 DEF Inv

-----------------------------------------------------------------------------
\* Whatever happens around the requests.
Quiet ==
  /\ share' \in [Shares -> ShareRow \cup {None}]
  /\ active' \in [Users -> BOOLEAN]
  /\ edits' \in 0 .. MaxEdits
  /\ grants' \subseteq grants
  /\ UNCHANGED <<visit, proven, notices>>
  /\ log' \in [Shares -> Seq(LogRow)]
  /\ \A h \in Shares :
       /\ log'[h] \in {log[h], <<>>}
       /\ share'[h] # None =>
            /\ share[h] # None
            /\ share'[h].to = share[h].to /\ share'[h].locked = share[h].locked
            /\ log'[h] = log[h]
       /\ share[h] # None /\ share'[h] = None =>
            \A g \in Visitors : Flushed(g) => visit[g].share # h

LEMMA UpdateQuiet ==
  ASSUME Inv, NEW h \in Shares, NEW row \in ShareRow, Update(h, row),
         row.to = share[h].to, row.locked = share[h].locked
  PROVE  Quiet
<1>1. share' = [share EXCEPT ![h] = row] /\ share[h] # None
      /\ UNCHANGED <<active, grants, log, notices, visit, proven>>
  BY DEF Update
<1>2. edits' \in 0 .. MaxEdits
  BY GateAssumption DEF Update, Edit, Inv, Types, Tables
<1>3. row # None
  BY NoneIsNoRow
<1> QED BY <1>1, <1>2, <1>3 DEF Inv, Types, Tables, Quiet

LEMMA AroundQuiet == Inv /\ Around => Quiet
<1> SUFFICES ASSUME Inv, Around PROVE Quiet
  OBVIOUS
<1>0. Tables
  BY DEF Inv, Types
<1>1. ASSUME NEW h \in Shares, Patch(h) PROVE Quiet
  <2>1. share[h] # None
    BY <1>1 DEF Patch, Update
  <2>2. share[h] \in ShareRow
    BY <1>0, <2>1 DEF Tables
  <2>3. CASE \E v, d \in BOOLEAN : Update(h, [share[h] EXCEPT !.view = v, !.download = d])
    <3>1. PICK v, d \in BOOLEAN : Update(h, [share[h] EXCEPT !.view = v, !.download = d])
      BY <2>3
    <3> DEFINE row == [share[h] EXCEPT !.view = v, !.download = d]
    <3>2. row \in ShareRow /\ row.to = share[h].to /\ row.locked = share[h].locked
      BY <2>2 DEF ShareRow
    <3> HIDE DEF row
    <3> QED BY <3>1, <3>2, UpdateQuiet DEF row
  <2>4. ASSUME NEW b \in BOOLEAN, Update(h, [share[h] EXCEPT !.expired = b])
        PROVE  Quiet
    <3> DEFINE row == [share[h] EXCEPT !.expired = b]
    <3>1. row \in ShareRow /\ row.to = share[h].to /\ row.locked = share[h].locked
      BY <2>2 DEF ShareRow
    <3> HIDE DEF row
    <3> QED BY <2>4, <3>1, UpdateQuiet DEF row
  <2>5. ASSUME NEW b \in BOOLEAN, Update(h, [share[h] EXCEPT !.revoked = b])
        PROVE  Quiet
    <3> DEFINE row == [share[h] EXCEPT !.revoked = b]
    <3>1. row \in ShareRow /\ row.to = share[h].to /\ row.locked = share[h].locked
      BY <2>2 DEF ShareRow
    <3> HIDE DEF row
    <3> QED BY <2>5, <3>1, UpdateQuiet DEF row
  <2> QED BY <1>1, <2>3, <2>4, <2>5 DEF Patch
<1>2. ASSUME NEW h \in Shares, ShareExpires(h) PROVE Quiet
  <2>1. share[h] \in ShareRow
    BY <1>0, <1>2 DEF Tables, ShareExpires
  <2>2. [share[h] EXCEPT !.expired = TRUE] \in ShareRow
    BY <2>1 DEF ShareRow
  <2>3. share' = [share EXCEPT ![h] = [share[h] EXCEPT !.expired = TRUE]]
    BY <1>2 DEF ShareExpires
  <2>4. [share[h] EXCEPT !.expired = TRUE] # None
    BY <2>2, NoneIsNoRow
  <2> QED BY <1>0, <1>2, <2>1, <2>2, <2>3, <2>4 DEF Tables, ShareExpires, Quiet, ShareRow
<1>3. ASSUME NEW c \in Callers, NEW h \in Shares, GrantExpires(c, h) PROVE Quiet
  BY <1>0, <1>3 DEF Tables, GrantExpires, Quiet
<1>4. ASSUME NEW h \in Shares, NEW b \in BOOLEAN, SetActive(Owner[h], b) PROVE Quiet
  <2>1. edits' \in 0 .. MaxEdits
    BY <1>0, <1>4, GateAssumption DEF Tables, SetActive, Edit
  <2> QED BY <1>0, <1>4, <2>1 DEF Tables, SetActive, Quiet
<1>5. ASSUME NEW h \in Shares, FilePurged(h) PROVE Quiet
  <2>1. <<>> \in Seq(LogRow)
    OBVIOUS
  <2> QED BY <1>0, <1>5, <2>1 DEF Tables, FilePurged, Quiet
<1> QED BY <1>1, <1>2, <1>3, <1>4, <1>5 DEF Around

LEMMA QuietStep == Inv /\ Quiet /\ Observe => Inv'
<1> SUFFICES ASSUME Inv, Quiet, Observe PROVE Inv'
  OBVIOUS
<1>1. Types'
  <2>1. \A h \in Shares : Len(log'[h]) <= MaxLog
    BY GateAssumption DEF Inv, Types, Tables, Quiet
  <2> QED BY <2>1, Observed DEF Inv, Types, Tables, Quiet
<1>2. Visits'
  <2> SUFFICES ASSUME NEW p \in Visitors, visit[p] # None
               PROVE  SameLink(visit[p])' /\ Earned(visit'[p], Caller[p], since'[p], proven')
    BY DEF Visits, Quiet
  <2>1. visit[p].share \in Shares
    BY DEF Inv, Types, VisitVars
  <2>2. SameLink(visit[p])'
    BY <2>1 DEF Inv, Visits, SameLink, Quiet
  <2> QED BY <2>2, OtherVisits DEF Quiet
<1>3. LogEarned' /\ grants' \subseteq proven'
  BY DEF Inv, LogEarned, Quiet
<1>4. NoticesMatchLog'
  <2> SUFFICES ASSUME NEW h \in Shares, share'[h] # None
               PROVE  notices'[h] = Cardinality(Reported(log'[h]))
    BY DEF NoticesMatchLog, Reported
  <2>1. share[h] # None /\ log'[h] = log[h] /\ notices' = notices
    BY DEF Quiet
  <2>2. notices[h] = Cardinality(Reported(log[h]))
    BY <2>1 DEF Inv, NoticesMatchLog, Reported
  <2> QED BY <2>1, <2>2
<1>5. Entries'
  <2> SUFFICES ASSUME NEW g \in Visitors, Flushed(g)
               PROVE  /\ share'[visit[g].share] # None
                      /\ log'[visit[g].share] = log[visit[g].share]
    BY DEF Entries, Quiet, Inv, Flushed, Entry, LoggedCaller
  <2>1. visit[g].share \in Shares /\ share[visit[g].share] # None
    BY DEF Inv, Types, VisitVars, Entries, Flushed
  <2> QED BY <2>1 DEF Quiet
<1> QED BY <1>1, <1>2, <1>3, <1>4, <1>5 DEF Inv

-----------------------------------------------------------------------------
\* A step of the request g leaves the other requests what they are.
LEMMA VisitStep ==
  ASSUME Inv, Observe, NEW g \in Visitors, NEW w \in VisitVars \cup {None},
         visit' = [visit EXCEPT ![g] = w], share' = share, proven \subseteq proven',
         w # None => SameLink(w) /\ Earned(w, Caller[g], since'[g], proven')
  PROVE  /\ visit' \in [Visitors -> VisitVars \cup {None}]
         /\ since' \in [Visitors -> SUBSET Rights]
         /\ Visits'
<1>1. visit' \in [Visitors -> VisitVars \cup {None}] /\ visit'[g] = w
      /\ \A p \in Visitors \ {g} : visit'[p] = visit[p]
  BY DEF Inv, Types
<1>2. ASSUME NEW p \in Visitors, visit'[p] # None
      PROVE  (SameLink(visit[p]) /\ Earned(visit[p], Caller[p], since[p], proven))'
  <2>1. CASE p = g
    BY <1>1, <1>2, <2>1 DEF SameLink
  <2>2. CASE p # g
    <3>1. visit'[p] = visit[p]
      BY <1>1, <2>2
    <3>2. SameLink(visit[p])'
      BY <1>2, <3>1 DEF Inv, Visits, SameLink
    <3> QED BY <1>2, <3>1, <3>2, OtherVisits
  <2> QED BY <2>1, <2>2
<1> QED BY <1>1, <1>2, Observed DEF Visits, Inv

\* Nor does a step of g move the rows that others have flushed.
LEMMA OtherEntries ==
  ASSUME Inv, NEW g \in Visitors, NEW w \in VisitVars \cup {None},
         visit' = [visit EXCEPT ![g] = w], share' = share,
         w # None => w.at # "flushed",
         \A p \in Visitors \ {g} : Flushed(p) =>
           /\ visit[p].entry \in DOMAIN log'[visit[p].share]
           /\ log'[visit[p].share][visit[p].entry] = log[visit[p].share][visit[p].entry]
  PROVE  Entries'
<1>1. visit'[g] = w /\ \A p \in Visitors \ {g} : visit'[p] = visit[p]
  BY DEF Inv, Types
<1>2. ~Flushed(g)' /\ \A p \in Visitors \ {g} : Flushed(p)' <=> Flushed(p)
  BY <1>1 DEF Flushed
<1>3. \A p \in Visitors \ {g} : Entry(p)' = Entry(p)
  BY <1>1 DEF Entry, LoggedCaller
<1> QED BY <1>1, <1>2, <1>3 DEF Inv, Entries

\* A step of g that logs nothing.
LEMMA Unlogged ==
  ASSUME Inv, Observe, NEW g \in Visitors, NEW w \in VisitVars \cup {None},
         visit' = [visit EXCEPT ![g] = w],
         UNCHANGED <<share, active, log, notices, edits>>,
         proven \subseteq proven', proven' \subseteq Callers \X Shares,
         grants' \subseteq proven',
         w # None => w.at # "flushed" /\ SameLink(w)
                     /\ Earned(w, Caller[g], since'[g], proven')
  PROVE  Inv'
<1>1. Types' /\ Visits'
  BY VisitStep DEF Inv, Types, Tables
<1>2. LogEarned'
  BY DEF Inv, LogEarned
<1>3. NoticesMatchLog'
  BY DEF Inv, NoticesMatchLog
<1>4. Entries'
  <2>1. \A p \in Visitors : Flushed(p) =>
           visit[p].entry \in DOMAIN log'[visit[p].share]
    BY DEF Inv, Entries
  <2> QED BY <2>1, OtherEntries
<1> QED BY <1>1, <1>2, <1>3, <1>4 DEF Inv

LEMMA FindStep ==
  ASSUME Inv, Observe, NEW g \in Visitors, NEW h \in Shares, NEW kind \in Kinds,
         Find(g, h, kind)
  PROVE  Inv'
<1> DEFINE w == [kind |-> kind, share |-> h, row |-> share[h], ok |-> FALSE,
                 at |-> "found", entry |-> 0]
<1>1. share[h] \in ShareRow /\ share[h] # None
  BY DEF Find, Inv, Types, Tables
<1>2. w \in VisitVars /\ visit' = [visit EXCEPT ![g] = w] /\ share' = share
  BY <1>1, GateAssumption DEF Find, VisitVars
<1>3. visit'[g] = w
  BY <1>2 DEF Inv, Types
<1>4. visit'[g] # None
  BY <1>2, <1>3, NoneIsNoRow
<1> HIDE DEF w
<1>5. \A right \in Rights : Holds(g, right)' => right \in since'[g]
  BY <1>4, Observed DEF Inv
<1>6. w.kind = kind /\ w.share = h /\ w.row = share[h] /\ w.at = "found" /\ ~w.ok
  BY DEF w
<1>7. ~w.row.revoked /\ ~w.row.expired => "valid" \in since'[g]
  BY <1>1, <1>2, <1>3, <1>5, <1>6 DEF Holds, Rights
<1>8. Permitted(w.kind, w.row) => "permission" \in since'[g]
  BY <1>1, <1>2, <1>3, <1>5, <1>6 DEF Holds, Rights, Permitted, Kinds
<1>9. SameLink(w) /\ Earned(w, Caller[g], since'[g], proven')
  BY <1>6, <1>7, <1>8 DEF SameLink, Earned
<1>10. UNCHANGED <<share, active, log, notices, edits, grants, proven>>
  BY DEF Find
<1> QED BY <1>2, <1>6, <1>9, <1>10, Unlogged DEF Inv, Types, Tables

\* What a request brings along.
LEMMA UnderWay ==
  ASSUME Inv, Observe, NEW g \in Visitors, visit[g] # None
  PROVE  /\ visit[g] \in VisitVars
         /\ SameLink(visit[g]) /\ Earned(visit[g], Caller[g], since[g], proven)
         /\ visit'[g] # None => Earned(visit[g], Caller[g], since'[g], proven)
         /\ Caller[g] \in Callers
<1>1. visit[g] \in VisitVars /\ SameLink(visit[g])
      /\ Earned(visit[g], Caller[g], since[g], proven)
  BY DEF Inv, Types, Visits
<1>2. visit'[g] # None =>
        since[g] \in SUBSET Rights /\ since'[g] \in SUBSET Rights /\ since[g] \subseteq since'[g]
  BY Observed DEF Inv, Types
<1>3. Caller[g] \in Callers
  BY GateAssumption DEF Callers
<1> QED BY <1>1, <1>2, <1>3, Keeps

\* A gate admits only who has all the rights: those that depend on the share were
\* there when the row was read, the others are there now.
LEMMA AdmitsEarns ==
  ASSUME Inv, Observe, NEW g \in Visitors, visit[g] # None, visit'[g] # None,
         visit[g].kind # "verify", Admits(g),
         visit'[g].row = visit[g].row, visit'[g].share = visit[g].share,
         active' = active, proven' = proven
  PROVE  /\ since'[g] = Rights
         /\ Addressed(Caller[g], visit[g].row)
         /\ visit[g].row.locked => <<Caller[g], visit[g].share>> \in proven
<1>1. /\ visit[g].row.locked => <<Caller[g], visit[g].share>> \in proven
      /\ Addressed(Caller[g], visit[g].row)
      /\ Permitted(visit[g].kind, visit[g].row)
      /\ ValidFor(visit[g].share, visit[g].row)
  BY DEF Admits, GrantFits, Inv
<1>2. /\ since'[g] \in SUBSET Rights
      /\ \A right \in Rights : Holds(g, right)' => right \in since'[g]
  BY Observed DEF Inv
<1>3. "valid" \in since'[g] /\ "permission" \in since'[g]
  BY <1>1, UnderWay DEF Earned, ValidFor
<1>4. "owner" \in since'[g]
  <2>1. Holds(g, "owner")'
    BY <1>1 DEF Holds, ValidFor
  <2> QED BY <1>2, <2>1 DEF Rights
<1>5. "password" \in since'[g]
  <2>1. Holds(g, "password")'
    BY <1>1 DEF Holds
  <2> QED BY <1>2, <2>1 DEF Rights
<1> QED BY <1>1, <1>2, <1>3, <1>4, <1>5 DEF Rights

LEMMA EndStep ==
  ASSUME Inv, Observe, NEW g \in Visitors, End(g),
         UNCHANGED <<share, active, log, notices, edits, proven>>,
         grants' \subseteq proven
  PROVE  Inv'
BY Unlogged DEF End, Inv, Types, Tables

LEMMA GateStep ==
  ASSUME Inv, Observe, NEW g \in Visitors, NEW kind \in {"access", "download", "preview"},
         NEW sent \in BOOLEAN, NEW intact \in BOOLEAN, Gate(g, kind, sent, intact)
  PROVE  Inv'
<1> DEFINE i == visit[g]
           ok == Admits(g) /\ (i.row.locked => sent) /\ intact
           w == [i EXCEPT !.at = "decided", !.ok = ok]
<1>1. i # None /\ i.at = "found" /\ i.kind = kind
      /\ UNCHANGED <<share, active, grants, log, notices, edits, proven>>
  BY DEF Gate
<1>2. i \in VisitVars
  BY <1>1, UnderWay
<1>3. ok \in BOOLEAN
  OBVIOUS
<1>4. w \in VisitVars /\ w.kind = kind /\ w.share = i.share /\ w.row = i.row
      /\ w.at = "decided" /\ w.ok = ok
  <2> HIDE DEF ok
  <2> QED BY <1>1, <1>2, <1>3 DEF VisitVars
<1>5. visit' = [visit EXCEPT ![g] = w]
  BY DEF Gate, Decide
<1> HIDE DEF w
<1>6. visit'[g] = w /\ visit'[g] # None
  BY <1>4, <1>5, NoneIsNoRow DEF Inv, Types
<1>7. /\ SameLink(i)
      /\ Earned(i, Caller[g], since'[g], proven)
  BY <1>1, <1>6, UnderWay
<1>8. ok => /\ since'[g] = Rights
            /\ Addressed(Caller[g], i.row)
            /\ i.row.locked => <<Caller[g], i.share>> \in proven
  BY <1>1, <1>4, <1>6, AdmitsEarns
<1>9. Earned(w, Caller[g], since'[g], proven')
  BY <1>1, <1>4, <1>7, <1>8 DEF Earned
<1>10. SameLink(w)
  BY <1>4, <1>7 DEF SameLink
<1> QED BY <1>1, <1>4, <1>5, <1>9, <1>10, Unlogged DEF Inv, Types, Tables

LEMMA ThumbnailStep ==
  ASSUME Inv, Observe, NEW g \in Visitors, CheckThumbnail(g)
  PROVE  Inv'
<1> DEFINE i == visit[g]
           w == [i EXCEPT !.at = "ready", !.ok = TRUE]
<1>1. i # None /\ i.at = "found" /\ i.kind = "thumbnail"
      /\ UNCHANGED <<share, active, grants, log, notices, edits, proven>>
  BY DEF CheckThumbnail
<1>2. CASE End(g)
  BY <1>1, <1>2, EndStep DEF Inv
<1>3. CASE Admits(g) /\ visit' = [visit EXCEPT ![g] = w]
  <2>1. i \in VisitVars
    BY <1>1, UnderWay
  <2>2. w \in VisitVars /\ w.kind = "thumbnail" /\ w.share = i.share /\ w.row = i.row
        /\ w.at = "ready" /\ w.ok = TRUE
    BY <1>1, <2>1 DEF VisitVars
  <2>3. visit' = [visit EXCEPT ![g] = w]
    BY <1>3
  <2> HIDE DEF w
  <2>4. visit'[g] = w /\ visit'[g] # None
    BY <2>2, <2>3, NoneIsNoRow DEF Inv, Types
  <2>5. SameLink(i) /\ Earned(i, Caller[g], since'[g], proven)
    BY <1>1, <2>4, UnderWay
  <2>6. /\ since'[g] = Rights
        /\ Addressed(Caller[g], i.row)
        /\ i.row.locked => <<Caller[g], i.share>> \in proven
    BY <1>1, <1>3, <2>2, <2>4, AdmitsEarns
  <2>7. Earned(w, Caller[g], since'[g], proven') /\ SameLink(w)
    BY <1>1, <2>2, <2>5, <2>6 DEF Earned, SameLink
  <2> QED BY <1>1, <2>2, <2>3, <2>7, Unlogged DEF Inv, Types, Tables
<1> QED BY <1>2, <1>3 DEF CheckThumbnail

LEMMA PasswordStep ==
  ASSUME Inv, Observe, NEW g \in Visitors, NEW right \in BOOLEAN, CheckPassword(g, right)
  PROVE  Inv'
<1> DEFINE i == visit[g]
           w == [i EXCEPT !.at = "decided", !.ok = right]
<1>1. i # None /\ i.at = "found" /\ i.kind = "verify"
      /\ UNCHANGED <<share, active, grants, log, notices, edits>>
  BY DEF CheckPassword
<1>2. i \in VisitVars /\ Caller[g] \in Callers
  BY <1>1, UnderWay
<1>3. CASE ~(ValidFor(i.share, i.row) /\ i.row.locked)
  <2>1. End(g) /\ proven' = proven
    BY <1>3 DEF CheckPassword
  <2> QED BY <1>1, <2>1, EndStep DEF Inv
<1>4. CASE ValidFor(i.share, i.row) /\ i.row.locked
  <2>1. /\ visit' = [visit EXCEPT ![g] = w]
        /\ proven' = IF right THEN proven \cup {<<Caller[g], i.share>>} ELSE proven
    BY <1>4 DEF CheckPassword, Decide
  <2>2. w \in VisitVars /\ w.kind = "verify" /\ w.share = i.share /\ w.row = i.row
        /\ w.at = "decided" /\ w.ok = right
    BY <1>1, <1>2 DEF VisitVars
  <2> HIDE DEF w
  <2>3. visit'[g] = w /\ visit'[g] # None
    BY <2>1, <2>2, NoneIsNoRow DEF Inv, Types
  <2>4. SameLink(i) /\ Earned(i, Caller[g], since'[g], proven)
    BY <1>1, <2>3, UnderWay
  <2>5. "owner" \in since'[g]
    <3>1. Holds(g, "owner")'
      BY <1>1, <1>4, <2>2, <2>3 DEF Holds, ValidFor
    <3> QED BY <2>3, <3>1, Observed DEF Inv, Rights
  <2>6. "valid" \in since'[g]
    BY <1>4, <2>4 DEF Earned, ValidFor
  <2>7. proven \subseteq proven' /\ proven' \subseteq Callers \X Shares
    BY <1>2, <2>1 DEF Inv, Types, Tables, VisitVars
  <2>8. Earned(w, Caller[g], since'[g], proven')
    BY <1>1, <2>1, <2>2, <2>4, <2>5, <2>6 DEF Earned
  <2>9. SameLink(w)
    BY <2>2, <2>4 DEF SameLink
  <2>10. grants' \subseteq proven'
    BY <1>1, <2>7 DEF Inv
  <2> QED BY <1>1, <2>1, <2>2, <2>7, <2>8, <2>9, <2>10, Unlogged
<1> QED BY <1>3, <1>4

LEMMA AnswerStep ==
  ASSUME Inv, Observe, NEW g \in Visitors, Answer(g)
  PROVE  Inv'
<1>1. visit[g] # None /\ visit[g].at = "ready"
      /\ UNCHANGED <<share, active, log, notices, edits, proven>> /\ End(g)
  BY DEF Answer
<1>2. visit[g].kind = "verify" => <<Caller[g], visit[g].share>> \in proven
  BY <1>1, UnderWay DEF Earned
<1>3. grants' \subseteq proven
  BY <1>2 DEF Answer, Inv
<1> QED BY <1>1, <1>3, EndStep

LEMMA EntryTyped ==
  ASSUME NEW g \in Visitors, visit[g] \in VisitVars
  PROVE  /\ Entry(g) \in LogRow /\ ~Entry(g).done
         /\ Entry(g).ok = visit[g].ok
         /\ Entry(g).action # "password_verify" <=> visit[g].kind # "verify"
         /\ Entry(g).by = LoggedCaller(g)
         /\ visit[g].kind # "verify" => Entry(g).by = Caller[g]
<1>1. ActionOf(visit[g].kind) \in Actions
  BY DEF ActionOf, Actions
<1>2. LoggedCaller(g) \in Callers
  BY GateAssumption DEF LoggedCaller, Callers
<1>3. ActionOf(visit[g].kind) # "password_verify" <=> visit[g].kind # "verify"
  BY DEF ActionOf
<1> QED BY <1>1, <1>2, <1>3 DEF Entry, LogRow, VisitVars, LoggedCaller

LEMMA FlushStep ==
  ASSUME Inv, Observe, NEW g \in Visitors, Flush(g)
  PROVE  Inv'
<1> DEFINE i == visit[g]
           h == i.share
           s == log[h]
           w == [i EXCEPT !.at = "flushed", !.entry = Len(s) + 1]
<1>1. i # None /\ i.at = "decided"
      /\ UNCHANGED <<share, active, grants, notices, edits, proven>>
  BY DEF Flush
<1>2. i \in VisitVars /\ h \in Shares /\ SameLink(i)
      /\ Earned(i, Caller[g], since[g], proven)
      /\ (visit'[g] # None => Earned(i, Caller[g], since'[g], proven))
  BY <1>1, UnderWay DEF VisitVars
<1>3. CASE share[h] = None
  <2>1. End(g) /\ log' = log
    BY <1>3 DEF Flush
  <2> QED BY <1>1, <2>1, EndStep DEF Inv
<1>4. CASE share[h] # None
  <2>1. /\ Len(s) < MaxLog
        /\ log' = [log EXCEPT ![h] = Append(s, Entry(g))]
        /\ visit' = [visit EXCEPT ![g] = w]
    BY <1>4 DEF Flush, Entry
  <2>2. s \in Seq(LogRow) /\ log \in [Shares -> Seq(LogRow)] /\ Len(s) \in Nat
        /\ MaxLog \in Nat
    BY <1>2, GateAssumption DEF Inv, Types, Tables
  <2>3. /\ w \in VisitVars /\ w.kind = i.kind /\ w.share = h /\ w.row = i.row
        /\ w.at = "flushed" /\ w.ok = i.ok /\ w.entry = Len(s) + 1
    <3>1. Len(s) + 1 \in 0 .. MaxLog
      BY <2>1, <2>2
    <3> HIDE DEF s
    <3> QED BY <1>2, <3>1 DEF VisitVars
  <2> HIDE DEF w
  <2>4. visit'[g] = w /\ \A p \in Visitors \ {g} : visit'[p] = visit[p]
    BY <2>1 DEF Inv, Types
  <2>5. w # None
    BY <2>3, NoneIsNoRow
  <2>6. SameLink(w) /\ Earned(w, Caller[g], since'[g], proven')
    BY <1>1, <1>2, <2>3, <2>4, <2>5 DEF SameLink, Earned
  <2>7. Visits' /\ visit' \in [Visitors -> VisitVars \cup {None}]
        /\ since' \in [Visitors -> SUBSET Rights]
    BY <1>1, <2>1, <2>3, <2>6, VisitStep
  <2>8. /\ Entry(g) \in LogRow /\ ~Entry(g).done /\ Entry(g).ok = i.ok
        /\ Entry(g).action # "password_verify" <=> i.kind # "verify"
        /\ i.kind # "verify" => Entry(g).by = Caller[g]
    BY <1>2, EntryTyped
  <2>9. log'[h] = Append(s, Entry(g)) /\ \A x \in Shares \ {h} : log'[x] = log[x]
    BY <1>2, <2>1, <2>2
  <2>10. /\ log'[h] \in Seq(LogRow) /\ Len(log'[h]) = Len(s) + 1
         /\ DOMAIN log'[h] = DOMAIN s \cup {Len(s) + 1} /\ Len(s) + 1 \notin DOMAIN s
         /\ \A k \in DOMAIN s : log'[h][k] = s[k]
         /\ log'[h][Len(s) + 1] = Entry(g)
    BY <2>2, <2>8, <2>9
  <2>11. log' \in [Shares -> Seq(LogRow)] /\ \A x \in Shares : Len(log'[x]) <= MaxLog
    <3>1. log' \in [Shares -> Seq(LogRow)]
      BY <1>2, <2>1, <2>2, <2>9, <2>10
    <3>2. \A x \in Shares : Len(log[x]) <= MaxLog
      BY DEF Inv, Types, Tables
    <3>3. Len(log'[h]) <= MaxLog
      BY <2>1, <2>2, <2>10
    <3> QED BY <2>9, <3>1, <3>2, <3>3
  <2>12. Types'
    BY <1>1, <2>7, <2>11 DEF Inv, Types, Tables
  <2>13. NoticesMatchLog'
    <3> SUFFICES ASSUME NEW x \in Shares, share[x] # None
                 PROVE  notices[x] = Cardinality(Reported(log'[x]))
      BY <1>1 DEF NoticesMatchLog, Reported
    <3>1. notices[x] = Cardinality(Reported(log[x]))
      BY DEF Inv, NoticesMatchLog, Reported
    <3>2. Reported(log'[x]) = Reported(log[x])
      BY <2>2, <2>8, <2>9, ReportedAppend
    <3> QED BY <3>1, <3>2
  <2>14. LogEarned'
    <3> SUFFICES ASSUME NEW x \in Shares, share[x] # None, share[x].locked,
                        NEW k \in DOMAIN log'[x],
                        log'[x][k].ok, log'[x][k].action # "password_verify"
                 PROVE  <<log'[x][k].by, x>> \in proven
      BY <1>1 DEF LogEarned
    <3>1. CASE x = h /\ k = Len(s) + 1
      <4>1. i.ok /\ i.kind # "verify" /\ log'[x][k].by = Caller[g]
        BY <2>8, <2>10, <3>1
      <4>2. i.row.locked
        BY <1>2, <3>1 DEF SameLink
      <4> QED BY <1>1, <1>2, <3>1, <4>1, <4>2 DEF Earned
    <3>2. CASE x = h /\ k # Len(s) + 1
      <4>1. k \in DOMAIN s /\ log'[x][k] = s[k]
        BY <2>10, <3>2
      <4> QED BY <3>2, <4>1 DEF Inv, LogEarned
    <3>3. CASE x # h
      BY <2>9, <3>3 DEF Inv, LogEarned
    <3> QED BY <3>1, <3>2, <3>3
  <2>15. Entries'
    <3>1. Flushed(g)' /\ \A p \in Visitors \ {g} : Flushed(p)' <=> Flushed(p)
      BY <2>3, <2>4, <2>5 DEF Flushed
    <3>2. \A p \in Visitors \ {g} : Entry(p)' = Entry(p)
      BY <2>4 DEF Entry, LoggedCaller
    <3>3. Entry(g)' = Entry(g)
      BY <2>3, <2>4 DEF Entry, LoggedCaller
    <3>4. \A p \in Visitors \ {g} : Flushed(p) =>
            /\ visit[p].share \in Shares
            /\ visit[p].entry \in DOMAIN log[visit[p].share]
            /\ log[visit[p].share][visit[p].entry] = Entry(p)
            /\ share[visit[p].share] # None
      BY DEF Inv, Types, VisitVars, Entries, Flushed
    <3>5. \A p \in Visitors \ {g} : Flushed(p) =>
            /\ visit[p].entry \in DOMAIN log'[visit[p].share]
            /\ log'[visit[p].share][visit[p].entry] = Entry(p)
            /\ visit[p].share = h => visit[p].entry # Len(s) + 1
      BY <2>9, <2>10, <3>4
    <3> HIDE DEF s, h
    <3> QED BY <1>1, <1>4, <2>3, <2>4, <2>10, <3>1, <3>2, <3>3, <3>4, <3>5
            DEF Inv, Entries
  <2> QED BY <1>1, <2>7, <2>12, <2>13, <2>14, <2>15 DEF Inv
<1> QED BY <1>3, <1>4

LEMMA CommitStep ==
  ASSUME Inv, Observe, NEW g \in Visitors, Commit(g)
  PROVE  Inv'
<1> DEFINE i == visit[g]
           h == i.share
           s == log[h]
           e == i.entry
           w == IF i.ok THEN [i EXCEPT !.at = "ready", !.entry = 0] ELSE None
<1>1. i # None /\ i.at = "flushed" /\ Flushed(g)
      /\ UNCHANGED <<share, active, grants, edits, proven>>
  BY DEF Commit, Flushed
<1>2. i \in VisitVars /\ h \in Shares /\ SameLink(i)
      /\ Earned(i, Caller[g], since[g], proven)
      /\ (visit'[g] # None => Earned(i, Caller[g], since'[g], proven))
  BY <1>1, UnderWay DEF VisitVars
<1>3. visit' = [visit EXCEPT ![g] = w]
  BY DEF Commit, End
<1>4. w # None =>
        /\ w \in VisitVars /\ w.kind = i.kind /\ w.share = i.share /\ w.row = i.row
        /\ w.at = "ready" /\ w.ok = i.ok /\ i.ok
  <2>1. i.ok => w = [i EXCEPT !.at = "ready", !.entry = 0]
    OBVIOUS
  <2>2. 0 \in 0 .. MaxLog
    BY GateAssumption
  <2>3. [i EXCEPT !.at = "ready", !.entry = 0] \in VisitVars
    BY <1>2, <2>2 DEF VisitVars
  <2> QED BY <1>2, <2>1, <2>3 DEF VisitVars
<1>5. w \in VisitVars \cup {None} /\ (w # None => w.at # "flushed")
  BY <1>4
<1> HIDE DEF w
<1>6. visit'[g] = w
  BY <1>3 DEF Inv, Types
<1>7. w # None => SameLink(w) /\ Earned(w, Caller[g], since'[g], proven')
  BY <1>1, <1>2, <1>4, <1>6 DEF SameLink, Earned
<1>8. Visits' /\ visit' \in [Visitors -> VisitVars \cup {None}]
      /\ since' \in [Visitors -> SUBSET Rights]
  BY <1>1, <1>3, <1>5, <1>7, VisitStep
<1>9. /\ share[h] # None /\ e \in DOMAIN s /\ s[e] = Entry(g)
      /\ \A p \in Visitors : Flushed(p) /\ visit[p].share = h /\ visit[p].entry = e => p = g
  BY <1>1 DEF Inv, Entries
<1>10. /\ Entry(g) \in LogRow /\ ~Entry(g).done /\ Entry(g).ok = i.ok
       /\ Entry(g).action # "password_verify" <=> i.kind # "verify"
  BY <1>2, EntryTyped
<1>11. /\ s \in Seq(LogRow) /\ log \in [Shares -> Seq(LogRow)] /\ notices[h] \in Nat
       /\ notices \in [Shares -> 0 .. MaxLog] /\ Len(s) \in Nat /\ MaxLog \in Nat
       /\ Len(s) <= MaxLog
  BY <1>2, GateAssumption DEF Inv, Types, Tables
<1> DEFINE t == [s EXCEPT ![e].done = TRUE]
<1>12. /\ log' = [log EXCEPT ![h] = t]
       /\ notices' = IF Notifies(i) THEN [notices EXCEPT ![h] = notices[h] + 1] ELSE notices
  BY DEF Commit
<1>13. [s[e] EXCEPT !.done = TRUE] \in LogRow
  BY <1>9, <1>10 DEF LogRow
<1>14. /\ t \in Seq(LogRow) /\ Len(t) = Len(s) /\ DOMAIN t = DOMAIN s
       /\ \A k \in DOMAIN s : k # e => t[k] = s[k]
       /\ t[e] = [s[e] EXCEPT !.done = TRUE]
  BY <1>9, <1>11, <1>13
<1>15. \A k \in DOMAIN s : t[k].ok = s[k].ok /\ t[k].by = s[k].by /\ t[k].action = s[k].action
  BY <1>9, <1>10, <1>14 DEF LogRow
<1>16. Cardinality(Reported(t)) =
         IF s[e].ok /\ s[e].action # "password_verify"
         THEN Cardinality(Reported(s)) + 1 ELSE Cardinality(Reported(s))
  <2>1. ~s[e].done
    BY <1>9, <1>10
  <2> HIDE DEF s, e
  <2> QED BY <1>9, <1>11, <1>14, <2>1, ReportedCommit
<1> HIDE DEF t
<1>17. log'[h] = t /\ \A x \in Shares \ {h} : log'[x] = log[x] /\ notices'[x] = notices[x]
  BY <1>2, <1>11, <1>12
<1>18. notices'[h] = Cardinality(Reported(t))
  <2>1. notices[h] = Cardinality(Reported(s))
    BY <1>2, <1>9 DEF Inv, NoticesMatchLog, Reported
  <2>2. Notifies(i) <=> s[e].ok /\ s[e].action # "password_verify"
    BY <1>9, <1>10 DEF Notifies
  <2>3. notices'[h] = IF Notifies(i) THEN notices[h] + 1 ELSE notices[h]
    BY <1>2, <1>11, <1>12
  <2> QED BY <1>16, <2>1, <2>2, <2>3
<1>19. Types'
  <2>1. log' \in [Shares -> Seq(LogRow)]
    BY <1>2, <1>11, <1>12, <1>14, <1>17
  <2>2. notices'[h] \in 0 .. Len(t)
    BY <1>14, <1>18, ReportedFinite
  <2>3. notices'[h] \in 0 .. MaxLog
    BY <1>11, <1>14, <2>2
  <2>4. notices' \in [Shares -> 0 .. MaxLog]
    <3>1. notices' = [x \in Shares |-> notices'[x]]
      BY <1>11, <1>12
    <3>2. \A x \in Shares : notices'[x] \in 0 .. MaxLog
      BY <1>11, <1>17, <2>3
    <3> QED BY <3>1, <3>2
  <2>5. \A x \in Shares : Len(log'[x]) <= MaxLog
    BY <1>11, <1>14, <1>17 DEF Inv, Types, Tables
  <2> QED BY <1>1, <1>8, <2>1, <2>4, <2>5 DEF Inv, Types, Tables
<1>20. NoticesMatchLog'
  <2> SUFFICES ASSUME NEW x \in Shares, share[x] # None
               PROVE  notices'[x] = Cardinality(Reported(log'[x]))
    BY <1>1 DEF NoticesMatchLog, Reported
  <2>1. CASE x = h
    BY <1>17, <1>18, <2>1
  <2>2. CASE x # h
    <3>1. notices[x] = Cardinality(Reported(log[x]))
      BY DEF Inv, NoticesMatchLog, Reported
    <3> QED BY <1>17, <2>2, <3>1
  <2> QED BY <2>1, <2>2
<1>21. LogEarned'
  <2> SUFFICES ASSUME NEW x \in Shares, share[x] # None, share[x].locked,
                      NEW k \in DOMAIN log'[x],
                      log'[x][k].ok, log'[x][k].action # "password_verify"
               PROVE  <<log'[x][k].by, x>> \in proven
    BY <1>1 DEF LogEarned
  <2>1. CASE x = h
    BY <1>14, <1>15, <1>17, <2>1 DEF Inv, LogEarned
  <2>2. CASE x # h
    BY <1>17, <2>2 DEF Inv, LogEarned
  <2> QED BY <2>1, <2>2
<1>22. Entries'
  <2>1. ASSUME NEW p \in Visitors \ {g}, Flushed(p)
        PROVE  /\ visit[p].entry \in DOMAIN log'[visit[p].share]
               /\ log'[visit[p].share][visit[p].entry] = log[visit[p].share][visit[p].entry]
    <3>1. visit[p].share \in Shares /\ visit[p].entry \in DOMAIN log[visit[p].share]
      BY <2>1 DEF Inv, Types, VisitVars, Entries, Flushed
    <3>2. CASE visit[p].share = h
      <4>1. visit[p].entry # e
        BY <1>9, <2>1, <3>2
      <4> QED BY <1>14, <1>17, <3>1, <3>2, <4>1
    <3>3. CASE visit[p].share # h
      BY <1>17, <3>1, <3>3
    <3> QED BY <3>2, <3>3
  <2> QED BY <1>1, <1>3, <1>5, <2>1, OtherEntries
<1> QED BY <1>1, <1>8, <1>19, <1>20, <1>21, <1>22 DEF Inv

LEMMA DieStep ==
  ASSUME Inv, Observe, NEW g \in Visitors, Die(g)
  PROVE  Inv'
BY EndStep DEF Die, Inv

LEMMA InvStep == Inv /\ [GateNext]_gateVars => Inv'
<1> SUFFICES ASSUME Inv, [GateNext]_gateVars PROVE Inv'
  OBVIOUS
<1>1. CASE Around /\ Observe
  BY <1>1, AroundQuiet, QuietStep
<1>2. ASSUME NEW g \in Visitors, Visit(g), Observe
      PROVE  Inv'
  <2>1. ASSUME NEW sent \in BOOLEAN, CheckAccess(g, sent) PROVE Inv'
    BY <1>2, <2>1, GateStep DEF CheckAccess
  <2>2. ASSUME NEW sent \in BOOLEAN, NEW intact \in BOOLEAN,
               CheckDownload(g, sent, intact) \/ CheckPreview(g, sent, intact)
        PROVE  Inv'
    BY <1>2, <2>2, GateStep DEF CheckDownload, CheckPreview
  <2> QED BY <1>2, <2>1, <2>2, FindStep, ThumbnailStep, PasswordStep, FlushStep, CommitStep,
             AnswerStep, DieStep DEF Visit
<1>3. CASE UNCHANGED gateVars
  <2>1. Types' /\ Visits' /\ grants' \subseteq proven'
    BY <1>3 DEF gateVars, Inv, Types, Tables, Visits, SameLink
  <2>2. LogEarned'
    BY <1>3 DEF gateVars, Inv, LogEarned
  <2>3. NoticesMatchLog'
    BY <1>3 DEF gateVars, Inv, NoticesMatchLog
  <2>4. Entries'
    BY <1>3 DEF gateVars, Inv, Entries, Flushed, Entry, LoggedCaller
  <2> QED BY <2>1, <2>2, <2>3, <2>4 DEF Inv
<1> QED BY <1>1, <1>2, <1>3 DEF GateNext

LEMMA Always == GateSpec => []Inv
<1> QED BY InvInit, InvStep, PTL DEF GateSpec

-----------------------------------------------------------------------------
\* Whoever is answered by a link's endpoints had, at some moment of the request,
\* every right that the request needs, and the password of this very share
\* (shares/routes.py:367 and the gates like it).
THEOREM RightsAlwaysHeld == GateSpec => []RightsHeld
<1>1. Inv => RightsHeld
  BY DEF Inv, Visits, Earned, Answering, RightsHeld
<1> QED BY <1>1, Always, PTL

\* The owner of a share has one notification for each view and download that the
\* access log of the share holds as successful (shares/routes.py:115).
THEOREM NoticesTrue == GateSpec => []NoticesMatchLog
<1>1. Inv => NoticesMatchLog
  BY DEF Inv
<1> QED BY <1>1, Always, PTL

\* The receipt of a share with a password is about a recipient who gave it.
THEOREM ReceiptsAlwaysEarned == GateSpec => []ReceiptsEarned
<1>1. ASSUME Inv, NEW h \in Shares, NEW a \in Visited,
             share[h] # None, share[h].locked, Receipt(h, a) # 0
      PROVE  <<share[h].to, h>> \in proven
  <2>1. ReceiptRows(h, a) # {}
    BY <1>1 DEF Receipt
  <2>2. PICK k \in DOMAIN log[h] :
          log[h][k].action = a /\ log[h][k].by = share[h].to /\ log[h][k].ok
    BY <2>1 DEF ReceiptRows
  <2> QED BY <1>1, <2>2 DEF Inv, LogEarned, Visited
<1>2. Inv => ReceiptsEarned
  BY <1>1 DEF ReceiptsEarned
<1> QED BY <1>2, Always, PTL

-----------------------------------------------------------------------------
\* The first of some rows.
Least(rows, n) == n \in rows /\ \A k \in rows : n <= k

LEMMA LeastIsEarliest ==
  ASSUME NEW rows \in SUBSET Nat, NEW n, Least(rows, n)
  PROVE  Earliest(rows) = n
<1>1. \A i : i \in rows /\ (\A k \in rows : i <= k) => i = n
  BY DEF Least
<1>2. n \in rows /\ \A k \in rows : n <= k
  BY DEF Least
<1> QED BY <1>1, <1>2 DEF Earliest

ShownTypes == shown \in [Shares -> [Visited -> 0 .. MaxLog]]

\* There is a first among the rows of a receipt.
HasFirst ==
  \A h \in Shares, a \in Visited :
    share[h] # None /\ ReceiptRows(h, a) # {} => \E n : Least(ReceiptRows(h, a), n)

\* A receipt that was shown is the first row, and what its recipient has flushed
\* since is behind it.
Final ==
  \A h \in Shares, a \in Visited :
    share[h] # None /\ shown[h][a] # 0 =>
      /\ share[h].to # None
      /\ Least(ReceiptRows(h, a), shown[h][a])
      /\ \A g \in Visitors :
           Flushed(g) /\ visit[g].share = h /\ Caller[g] = share[h].to =>
             shown[h][a] < visit[g].entry

ShownInv == ShownTypes /\ HasFirst /\ Final

LEMMA RowsAreNumbers ==
  ASSUME Inv, NEW h \in Shares, NEW a
  PROVE  ReceiptRows(h, a) \in SUBSET (1 .. Len(log[h])) /\ Len(log[h]) \in 0 .. MaxLog
<1>1. log[h] \in Seq(LogRow) /\ Len(log[h]) <= MaxLog
  BY DEF Inv, Types, Tables
<1> QED BY <1>1, GateAssumption DEF ReceiptRows

LEMMA ShownInit == GateInit => ShownInv
<1> SUFFICES ASSUME GateInit PROVE ShownInv
  OBVIOUS
<1>1. ShownTypes
  BY GateAssumption DEF GateInit, ShownTypes
<1>2. \A h \in Shares, a \in Visited : ReceiptRows(h, a) = {} /\ shown[h][a] = 0
  BY DEF GateInit, ReceiptRows
<1> QED BY <1>1, <1>2 DEF ShownInv, HasFirst, Final

\* g goes on, and has nothing flushed.
FlushesNothing(g) ==
  \E w : visit' = [visit EXCEPT ![g] = w] /\ (w = None \/ w.at # "flushed")

\* What a step may do to the log of a share that is there before and after it.
LEMMA StepForms ==
  ASSUME Inv, [GateNext]_gateVars, NEW h \in Shares, share'[h] # None
  PROVE  /\ share[h] # None /\ share'[h].to = share[h].to
         /\ \/ /\ log'[h] = log[h]
               /\ \A p \in Visitors : Flushed(p)' => Flushed(p) /\ visit'[p] = visit[p]
            \/ \E g \in Visitors : (Flush(g) \/ Commit(g)) /\ UNCHANGED share
<1>1. CASE Around
  BY <1>1, AroundQuiet DEF Quiet, Flushed
<1>2. ASSUME NEW g \in Visitors, Visit(g), ~Flush(g), ~Commit(g)
      PROVE  /\ UNCHANGED <<share, log>>
             /\ \A p \in Visitors : Flushed(p)' => Flushed(p) /\ visit'[p] = visit[p]
  <2>1. ASSUME NEW w, visit' = [visit EXCEPT ![g] = w], w = None \/ w.at # "flushed"
        PROVE  \A p \in Visitors : Flushed(p)' => Flushed(p) /\ visit'[p] = visit[p]
    <3>1. visit'[g] = w /\ \A p \in Visitors \ {g} : visit'[p] = visit[p]
      BY <2>1 DEF Inv, Types
    <3> QED BY <2>1, <3>1 DEF Flushed
  <2>2. ASSUME NEW h1 \in Shares, NEW kind \in Kinds, Find(g, h1, kind)
        PROVE  /\ UNCHANGED <<share, log>>
               /\ FlushesNothing(g)
    <3> DEFINE w == [kind |-> kind, share |-> h1, row |-> share[h1], ok |-> FALSE,
                     at |-> "found", entry |-> 0]
    <3>1. visit' = [visit EXCEPT ![g] = w] /\ UNCHANGED <<share, log>> /\ w.at = "found"
      BY <2>2 DEF Find
    <3> HIDE DEF w
    <3> QED BY <3>1 DEF FlushesNothing
  <2>3. ASSUME End(g)
        PROVE  FlushesNothing(g)
    BY <2>3 DEF End, FlushesNothing
  <2>4. ASSUME visit[g] # None, NEW b \in BOOLEAN, NEW at \in {"decided", "ready"},
               visit' = [visit EXCEPT ![g].at = at, ![g].ok = b]
        PROVE  FlushesNothing(g)
    <3> DEFINE w == [visit[g] EXCEPT !.at = at, !.ok = b]
    <3>1. visit[g] \in VisitVars
      BY <2>4 DEF Inv, Types
    <3>2. w.at = at
      BY <3>1 DEF VisitVars
    <3>3. visit' = [visit EXCEPT ![g] = w]
      BY <2>4 DEF Inv, Types
    <3> HIDE DEF w
    <3> QED BY <2>4, <3>2, <3>3 DEF FlushesNothing
  <2>5. ASSUME NEW ok, Decide(g, ok), ok \in BOOLEAN, visit[g] # None
        PROVE  FlushesNothing(g)
    BY <2>4, <2>5 DEF Decide
  <2>6. ASSUME NEW kind, NEW sent \in BOOLEAN, NEW intact \in BOOLEAN, Gate(g, kind, sent, intact)
        PROVE  FlushesNothing(g)
    <3>1. (Admits(g) /\ (visit[g].row.locked => sent) /\ intact) \in BOOLEAN
      OBVIOUS
    <3> QED BY <2>5, <2>6, <3>1 DEF Gate
  <2>7. ASSUME NEW right \in BOOLEAN, CheckPassword(g, right)
        PROVE  FlushesNothing(g)
    BY <2>3, <2>5, <2>7 DEF CheckPassword
  <2>8. ASSUME CheckThumbnail(g)
        PROVE  FlushesNothing(g)
    BY <2>3, <2>4, <2>8 DEF CheckThumbnail
  <2>9. /\ UNCHANGED <<share, log>>
        /\ FlushesNothing(g)
    <3>1. CASE Answer(g) \/ Die(g)
      <4>1. End(g) /\ UNCHANGED <<share, log>>
        BY <3>1 DEF Answer, Die
      <4> QED BY <2>3, <4>1
    <3>2. CASE \E h1 \in Shares, kind \in Kinds : Find(g, h1, kind)
      <4>1. PICK h1 \in Shares, kind \in Kinds : Find(g, h1, kind)
        BY <3>2
      <4> QED BY <2>2, <4>1
    <3>3. CASE \E sent \in BOOLEAN : CheckAccess(g, sent)
      BY <2>6, <3>3 DEF CheckAccess, Gate
    <3>4. CASE \E sent, intact \in BOOLEAN :
                 CheckDownload(g, sent, intact) \/ CheckPreview(g, sent, intact)
      BY <2>6, <3>4 DEF CheckDownload, CheckPreview, Gate
    <3>5. CASE CheckThumbnail(g)
      BY <2>8, <3>5 DEF CheckThumbnail
    <3>6. CASE \E right \in BOOLEAN : CheckPassword(g, right)
      BY <2>7, <3>6 DEF CheckPassword
    <3> QED BY <1>2, <3>1, <3>2, <3>3, <3>4, <3>5, <3>6 DEF Visit
  <2> QED BY <2>1, <2>9 DEF FlushesNothing
<1>3. ASSUME NEW g \in Visitors, Flush(g) \/ Commit(g)
      PROVE  UNCHANGED share
  BY <1>3 DEF Flush, Commit
<1>4. CASE UNCHANGED gateVars
  BY <1>4 DEF gateVars, Flushed
<1> QED BY <1>1, <1>2, <1>3, <1>4 DEF GateNext

\* A row that is flushed does not count, and when it is committed it may.
LEMMA RowsStep ==
  ASSUME Inv, [GateNext]_gateVars, NEW h \in Shares, share'[h] # None, NEW a \in Visited
  PROVE  \/ ReceiptRows(h, a)' = ReceiptRows(h, a)
         \/ \E g \in Visitors :
              /\ Flushed(g) /\ visit[g].share = h
              /\ LoggedCaller(g) = share[h].to
              /\ ReceiptRows(h, a)' = ReceiptRows(h, a) \cup {visit[g].entry}
<1>1. share[h] # None /\ share'[h].to = share[h].to
  BY StepForms
<1>2. CASE log'[h] = log[h]
  BY <1>1, <1>2 DEF ReceiptRows
<1>3. ASSUME NEW g \in Visitors, Flush(g), log'[h] # log[h]
      PROVE  ReceiptRows(h, a)' = ReceiptRows(h, a)
  <2> DEFINE s == log[h]
             row == Entry(g)
  <2>1. log \in [Shares -> Seq(LogRow)] /\ visit[g].share = h
    BY <1>3 DEF Inv, Types, Tables, Flush
  <2>2. log'[h] = Append(s, row) /\ row.done = FALSE
    BY <1>3, <2>1 DEF Flush, Entry
  <2>3. s \in Seq(LogRow)
    BY <2>1
  <2> HIDE DEF s, row
  <2>4. /\ DOMAIN log'[h] = DOMAIN s \cup {Len(s) + 1} /\ Len(s) + 1 \notin DOMAIN s
        /\ \A i \in DOMAIN s : log'[h][i] = s[i]
        /\ log'[h][Len(s) + 1] = row
    BY <2>2, <2>3
  <2> QED BY <1>1, <2>2, <2>4 DEF ReceiptRows, s
<1>4. ASSUME NEW g \in Visitors, Commit(g), log'[h] # log[h]
      PROVE  \/ ReceiptRows(h, a)' = ReceiptRows(h, a)
             \/ /\ Flushed(g) /\ visit[g].share = h
                /\ LoggedCaller(g) = share[h].to
                /\ ReceiptRows(h, a)' = ReceiptRows(h, a) \cup {visit[g].entry}
  <2> DEFINE s == log[h]
             e == visit[g].entry
             row == Entry(g)
  <2>1. Flushed(g) /\ visit[g].share = h /\ log \in [Shares -> Seq(LogRow)]
    BY <1>4 DEF Inv, Types, Tables, Commit
  <2>2. e \in DOMAIN s /\ s[e] = row /\ row \in LogRow /\ row.by = LoggedCaller(g)
    <3>1. visit[g] \in VisitVars
      BY <2>1 DEF Flushed, Inv, Types
    <3>2. row \in LogRow
      BY <3>1, EntryTyped
    <3> QED BY <2>1, <3>2 DEF Inv, Entries, Entry
  <2>3. log' = [log EXCEPT ![h][e].done = TRUE]
    BY <1>4, <2>1 DEF Commit
  <2>4. s \in Seq(LogRow)
    BY <2>1
  <2>5. log'[h] = [s EXCEPT ![e].done = TRUE]
    BY <2>1, <2>3
  <2> HIDE DEF s, e, row
  <2>6. /\ DOMAIN log'[h] = DOMAIN s
        /\ \A i \in DOMAIN s : i # e => log'[h][i] = s[i]
        /\ log'[h][e] = [row EXCEPT !.done = TRUE]
    BY <2>2, <2>4, <2>5
  <2>7. log'[h][e].by = row.by /\ log'[h][e].ok = row.ok
        /\ log'[h][e].action = row.action
    BY <2>2, <2>6 DEF LogRow
  <2>8. \A i : i # e => (i \in ReceiptRows(h, a)' <=> i \in ReceiptRows(h, a))
    BY <1>1, <2>6 DEF ReceiptRows, s
  <2>9. e \in ReceiptRows(h, a)' => row.by = share[h].to
    BY <1>1, <2>7 DEF ReceiptRows
  <2>10. e \in ReceiptRows(h, a) => e \in ReceiptRows(h, a)'
    <3>1. e \in ReceiptRows(h, a) =>
             row.ok /\ row.action = a /\ row.by = share[h].to
      BY <2>2 DEF ReceiptRows, s
    <3>2. log'[h][e].done
      BY <2>2, <2>6 DEF LogRow
    <3> QED BY <1>1, <2>2, <2>6, <2>7, <3>1, <3>2 DEF ReceiptRows
  <2>11. CASE e \in ReceiptRows(h, a)'
    <3>1. ReceiptRows(h, a)' = ReceiptRows(h, a) \cup {e}
      BY <2>8, <2>11
    <3> QED BY <2>1, <2>2, <2>9, <2>11, <3>1 DEF e
  <2>12. CASE e \notin ReceiptRows(h, a)'
    BY <2>8, <2>10, <2>12
  <2> QED BY <2>11, <2>12
<1> QED BY <1>2, <1>3, <1>4, StepForms

\* One row more leaves a first row, and leaves it the same if it is behind it.
LEMMA LeastGrows ==
  ASSUME NEW rows \in SUBSET Nat, NEW e \in Nat, NEW n, Least(rows, n)
  PROVE  /\ \E m : Least(rows \cup {e}, m)
         /\ n < e => Least(rows \cup {e}, n)
<1>1. n \in Nat /\ n \in rows /\ \A k \in rows : n <= k
  BY DEF Least
<1>2. n <= e => Least(rows \cup {e}, n)
  BY <1>1 DEF Least
<1>3. e < n => Least(rows \cup {e}, e)
  BY <1>1 DEF Least
<1> QED BY <1>1, <1>2, <1>3

LEMMA FirstStep ==
  ASSUME Inv, HasFirst, [GateNext]_gateVars
  PROVE  HasFirst'
<1> SUFFICES ASSUME NEW h \in Shares, NEW a \in Visited, share'[h] # None,
                    ReceiptRows(h, a)' # {}
             PROVE  \E n : Least(ReceiptRows(h, a)', n)
  BY DEF HasFirst, Least
<1>1. share[h] # None
  BY StepForms
<1>2. CASE ReceiptRows(h, a)' = ReceiptRows(h, a)
  BY <1>1, <1>2 DEF HasFirst
<1>3. ASSUME NEW g \in Visitors, Flushed(g),
             ReceiptRows(h, a)' = ReceiptRows(h, a) \cup {visit[g].entry}
      PROVE  \E n : Least(ReceiptRows(h, a)', n)
  <2>1. visit[g].entry \in Nat
    BY <1>3, GateAssumption DEF Flushed, Inv, Types, VisitVars
  <2>2. ReceiptRows(h, a) \in SUBSET Nat
    BY RowsAreNumbers
  <2>3. CASE ReceiptRows(h, a) = {}
    BY <1>3, <2>1, <2>3 DEF Least
  <2>4. CASE ReceiptRows(h, a) # {}
    BY <1>1, <1>3, <2>1, <2>2, <2>4, LeastGrows DEF HasFirst
  <2> QED BY <2>3, <2>4
<1> QED BY <1>2, <1>3, RowsStep

\* A receipt is 0 or the first row.
Receipts ==
  \A h \in Shares, a \in Visited :
    share[h] # None =>
      /\ Receipt(h, a) \in 0 .. MaxLog
      /\ Receipt(h, a) # 0 =>
           share[h].to # None /\ Least(ReceiptRows(h, a), Receipt(h, a))

LEMMA ReceiptIsFirst == Inv /\ HasFirst => Receipts
<1> SUFFICES ASSUME Inv, HasFirst, NEW h \in Shares, NEW a \in Visited, share[h] # None
             PROVE  /\ Receipt(h, a) \in 0 .. MaxLog
                    /\ Receipt(h, a) # 0 =>
                         share[h].to # None /\ Least(ReceiptRows(h, a), Receipt(h, a))
  BY DEF Receipts
<1>1. ReceiptRows(h, a) \in SUBSET (1 .. Len(log[h])) /\ Len(log[h]) \in 0 .. MaxLog
  BY RowsAreNumbers
<1>2. CASE share[h].to = None \/ ReceiptRows(h, a) = {}
  BY <1>2, GateAssumption DEF Receipt
<1>3. CASE share[h].to # None /\ ReceiptRows(h, a) # {}
  <2>1. PICK n : Least(ReceiptRows(h, a), n)
    BY <1>3 DEF HasFirst
  <2>2. Receipt(h, a) = n
    BY <1>1, <1>3, <2>1, LeastIsEarliest DEF Receipt
  <2>3. n \in 0 .. MaxLog
    BY <1>1, <2>1, GateAssumption DEF Least
  <2> QED BY <1>3, <2>1, <2>2, <2>3
<1> QED BY <1>2, <1>3

\* A receipt that was shown stays the first row.
LEMMA ShownStays ==
  ASSUME Inv, Final, [GateNext]_gateVars, NEW h \in Shares, NEW a \in Visited,
         share'[h] # None, shown[h][a] # 0
  PROVE  /\ share'[h].to # None
         /\ Least(ReceiptRows(h, a)', shown[h][a])
         /\ \A p \in Visitors :
              Flushed(p)' /\ visit'[p].share = h /\ Caller[p] = share'[h].to =>
                shown[h][a] < visit'[p].entry
<1> DEFINE n == shown[h][a]
<1>1. share[h] # None /\ share'[h].to = share[h].to
  BY StepForms
<1>2. /\ share[h].to # None /\ Least(ReceiptRows(h, a), n)
      /\ \A p \in Visitors :
           Flushed(p) /\ visit[p].share = h /\ Caller[p] = share[h].to => n < visit[p].entry
  BY <1>1 DEF Final
<1> HIDE DEF n
<1>3. ReceiptRows(h, a) \in SUBSET (1 .. Len(log[h])) /\ Len(log[h]) \in Nat
  BY RowsAreNumbers, GateAssumption
<1>4. Least(ReceiptRows(h, a)', n)
  <2>1. ASSUME NEW g \in Visitors, Flushed(g), visit[g].share = h,
               LoggedCaller(g) = share[h].to,
               ReceiptRows(h, a)' = ReceiptRows(h, a) \cup {visit[g].entry}
        PROVE  Least(ReceiptRows(h, a)', n)
    <3>1. Caller[g] = share[h].to
      BY <1>2, <2>1 DEF LoggedCaller
    <3>2. n < visit[g].entry
      BY <1>2, <2>1, <3>1
    <3>3. visit[g].entry \in Nat /\ ReceiptRows(h, a) \in SUBSET Nat
      BY <1>3, <2>1, GateAssumption DEF Flushed, Inv, Types, VisitVars
    <3> QED BY <1>2, <2>1, <3>2, <3>3, LeastGrows
  <2> QED BY <1>2, <2>1, RowsStep
<1>5. ASSUME NEW p \in Visitors, Flushed(p)', visit'[p].share = h, Caller[p] = share[h].to
      PROVE  n < visit'[p].entry
  <2>1. CASE Flushed(p) /\ visit'[p] = visit[p]
    BY <1>2, <1>5, <2>1
  <2>2. ASSUME NEW g \in Visitors, Commit(g), ~(Flushed(p) /\ visit'[p] = visit[p])
        PROVE  FALSE
    <3>1. p # g => visit'[p] = visit[p]
      BY <2>2 DEF Commit, End, Inv, Types
    <3>2. visit[g] \in VisitVars
      BY <2>2 DEF Commit, Flushed, Inv, Types
    <3>3. visit'[g] = None \/ visit'[g].at = "ready"
      BY <2>2, <3>2 DEF Commit, End, Inv, Types, VisitVars
    <3> QED BY <1>5, <2>2, <3>1, <3>3 DEF Flushed
  <2>3. ASSUME NEW g \in Visitors, Flush(g), ~(Flushed(p) /\ visit'[p] = visit[p])
        PROVE  n < visit'[p].entry
    <3>1. p # g => visit'[p] = visit[p]
      BY <2>3 DEF Flush, End, Inv, Types
    <3>2. p = g
      BY <1>5, <2>3, <3>1 DEF Flushed
    <3>3. visit[g] \in VisitVars
      BY <2>3 DEF Flush, Inv, Types
    <3>4. CASE visit'[g] = None
      BY <1>5, <3>2, <3>4 DEF Flushed
    <3>5. CASE visit'[g] # None
      <4>1. visit' = [visit EXCEPT ![g].at = "flushed",
                                   ![g].entry = Len(log[visit[g].share]) + 1]
        BY <2>3, <3>5 DEF Flush, End, Inv, Types
      <4>2. visit'[g].share = visit[g].share
            /\ visit'[g].entry = Len(log[visit[g].share]) + 1
        BY <3>3, <4>1 DEF Inv, Types, VisitVars
      <4>3. visit'[p].entry = Len(log[h]) + 1
        BY <1>5, <3>2, <4>2
      <4> QED BY <1>2, <1>3, <4>3 DEF Least
    <3> QED BY <3>4, <3>5
  <2> QED BY <1>5, <2>1, <2>2, <2>3, StepForms
<1> QED BY <1>1, <1>2, <1>4, <1>5 DEF n

LEMMA ShownStep == Inv /\ ShownInv /\ [GateNext]_gateVars => ShownInv'
<1> SUFFICES ASSUME Inv, ShownInv, [GateNext]_gateVars PROVE ShownInv'
  OBVIOUS
<1>1. Inv' /\ HasFirst'
  BY InvStep, FirstStep DEF ShownInv
<1>2. ASSUME Show PROVE ShownTypes' /\ Final'
  <2>1. \A h \in Shares, a \in Visited :
          shown'[h][a] = IF share'[h] = None THEN 0
                         ELSE IF shown[h][a] = 0 /\ Resting(h)' THEN Receipt(h, a)'
                         ELSE shown[h][a]
    BY <1>2 DEF Show
  <2>2. \A h \in Shares, a \in Visited :
          share'[h] # None =>
            /\ Receipt(h, a)' \in 0 .. MaxLog
            /\ Receipt(h, a)' # 0 =>
                 share'[h].to # None /\ Least(ReceiptRows(h, a)', Receipt(h, a)')
    <3>1. Receipts'
      BY <1>1, ReceiptIsFirst, PTL
    <3> QED BY <3>1 DEF Receipts, Least
  <2>3. \A h \in Shares, a \in Visited : shown'[h][a] \in 0 .. MaxLog
    BY <2>1, <2>2, GateAssumption DEF ShownInv, ShownTypes
  <2>4. ShownTypes'
    BY <1>2, <2>3 DEF Show, ShownTypes
  <2>5. ASSUME NEW h \in Shares, NEW a \in Visited, share'[h] # None, shown'[h][a] # 0
        PROVE  /\ share'[h].to # None
               /\ Least(ReceiptRows(h, a)', shown'[h][a])
               /\ \A p \in Visitors :
                    Flushed(p)' /\ visit'[p].share = h /\ Caller[p] = share'[h].to =>
                      shown'[h][a] < visit'[p].entry
    <3>1. CASE shown[h][a] # 0
      <4>1. shown'[h][a] = shown[h][a]
        BY <2>1, <2>5, <3>1
      <4> QED BY <2>5, <3>1, <4>1, ShownStays DEF ShownInv
    <3>2. CASE shown[h][a] = 0
      <4>1. shown'[h][a] = Receipt(h, a)' /\ Resting(h)'
        BY <2>1, <2>5, <3>2
      <4>2. \A p \in Visitors : Caller[p] = share'[h].to => ~Flushed(p)'
        BY <4>1 DEF Resting, Flushed
      <4> QED BY <2>2, <2>5, <4>1, <4>2
    <3> QED BY <3>1, <3>2
  <2>6. Final'
    BY <2>5 DEF Final, Least
  <2> QED BY <2>4, <2>6
<1>3. CASE UNCHANGED gateVars
  BY <1>3 DEF gateVars, ShownInv, ShownTypes, HasFirst, Final, ReceiptRows, Flushed, Least
<1> QED BY <1>1, <1>2, <1>3 DEF GateNext, ShownInv

LEMMA AlwaysShown == GateSpec => []ShownInv
<1> QED BY Always, ShownInit, ShownStep, PTL DEF GateSpec

\* Shares, accounts, logs, notices and requests keep their types.
THEOREM TypeCorrect == GateSpec => []GateTypeOK
<1>1. Inv /\ ShownInv => GateTypeOK
  BY DEF Inv, Types, Tables, ShownInv, ShownTypes, GateTypeOK
<1> QED BY <1>1, Always, AlwaysShown, PTL

\* A receipt that stands when the recipient of the share has every answer is
\* never moved, in whatever order requests flush and commit their log rows
\* (shares/routes.py:115 and 144).
THEOREM ReceiptsNeverChange == GateSpec => []ReceiptsFinal
<1>1. ASSUME Inv, ShownInv, NEW h \in Shares, NEW a \in Visited,
             share[h] # None, shown[h][a] # 0
      PROVE  Receipt(h, a) = shown[h][a]
  <2>1. share[h].to # None /\ Least(ReceiptRows(h, a), shown[h][a])
    BY <1>1 DEF ShownInv, Final
  <2>2. ReceiptRows(h, a) \in SUBSET Nat
    BY <1>1, RowsAreNumbers
  <2>3. Earliest(ReceiptRows(h, a)) = shown[h][a]
    BY <2>1, <2>2, LeastIsEarliest
  <2> QED BY <2>1, <2>3 DEF Receipt, Least
<1>2. Inv /\ ShownInv => ReceiptsFinal
  BY <1>1 DEF ReceiptsFinal
<1> QED BY <1>2, Always, AlwaysShown, PTL
=============================================================================
