---------------------------- MODULE Webhooks_proofs ----------------------------
(***************************************************************************)
(* Theorems about Webhooks, for every set of webhooks, shares, requests    *)
(* and settings, any number of edits, and whichever worker dies.           *)
(*                                                                         *)
(* One invariant says of each request what its history knows: between its  *)
(* steps others change webhooks and shares, and Witnessed keeps the score. *)
(***************************************************************************)
EXTENDS Webhooks, TLAPS

Running(j) == j.at \notin {"answered", "died"}

Match(hk, op) ==
  {h \in Hooks : hk[h] # None /\ hk[h].active /\ Event(op) \in hk[h].events}

\* A download that is reported holds its share until it is logged.
Held(j, sh) == j.op = "download" /\ j.at = "dispatching" => sh[j.share] # None

\* What a running request j knows of the rows hk and sh.
Knows(j, hk, sh) ==
  /\ j.always \subseteq Match(hk, j.op) /\ Match(hk, j.op) \subseteq j.ever
  /\ sh[j.share] = TRUE => j.seen
  /\ j.loaded => j.seen
  /\ j.owed => sh[j.share] = TRUE /\ ~j.loaded /\ j.at # "loaded" /\ j.op # "download"
  /\ j.op = "delete" => j.new
  /\ j.op = "delete" /\ j.at # "loaded" => j.seen
  /\ j.op = "download" => j.at \in {"loaded", "dispatching"}
  /\ j.op # "download" /\ j.at \in {"reporting", "dispatching"} => j.seen
  /\ j.at = "dispatching" => j.todo \subseteq j.ever
  /\ Held(j, sh)

\* What was posted for a request j of id q.
Posts(q, j, posted, lg) ==
  \A h \in Hooks :
    /\ <<q, h>> \in posted => j.at \in {"dispatching", "answered", "died"}
    /\ <<q, h>> \in posted /\ j.at = "dispatching" => h \in j.ever
    /\ h \in j.always /\ j.at = "dispatching" => <<q, h>> \in posted \/ h \in j.todo
    /\ <<q, h>> \in posted /\ j.op = "download" /\ j.at = "answered" => q \in lg

Told ==
  \A q \in Requests :
    /\ request[q] = None => \A h \in Hooks : <<q, h>> \notin Posted
    /\ request[q] # None => Posts(q, request[q], Posted, log)
    /\ request[q] # None /\ Running(request[q]) => Knows(request[q], hook, share)

Inv == TypeOK /\ Told /\ RevocationReported

-----------------------------------------------------------------------------
LEMMA RequestIsSome ==
  ASSUME NEW j \in Request
  PROVE  j # None
BY WebhooksAssumption

LEMMA RequestTyped ==
  ASSUME TypeOK, NEW q \in Requests, request[q] # None
  PROVE  /\ request[q] \in Request
         /\ Over(request, q) <=> ~Running(request[q])
BY DEF TypeOK, Over, Running

\* What a request sees of new rows.
Sees(j, hk, sh) ==
  [j EXCEPT !.ever = j.ever \cup Match(hk, j.op), !.always = j.always \cap Match(hk, j.op),
            !.seen = j.seen \/ sh[j.share] = TRUE,
            !.owed = j.owed /\ sh[j.share] = TRUE]

Saw(k, j, hk, sh) ==
  /\ k \in Request
  /\ k.op = j.op /\ k.at = j.at /\ k.share = j.share /\ k.loaded = j.loaded
  /\ k.new = j.new /\ k.todo = j.todo
  /\ k.ever = j.ever \cup Match(hk, j.op)
  /\ k.always = j.always \cap Match(hk, j.op)
  /\ k.seen <=> j.seen \/ sh[j.share] = TRUE
  /\ k.owed <=> j.owed /\ sh[j.share] = TRUE

LEMMA SeesTyped ==
  ASSUME NEW j \in Request, NEW hk, NEW sh
  PROVE  Saw(Sees(j, hk, sh), j, hk, sh)
<1>1. Match(hk, j.op) \subseteq Hooks
  BY DEF Match
<1>2. Sees(j, hk, sh) \in Request
  BY <1>1 DEF Sees, Request
<1> QED BY <1>2 DEF Sees, Request, Saw

LEMMA WitnessedTyped ==
  ASSUME NEW req \in [Requests -> Request \cup {None}], NEW hk, NEW sh
  PROVE  /\ Witnessed(req, hk, sh) \in [Requests -> Request \cup {None}]
         /\ \A q \in Requests :
              Witnessed(req, hk, sh)[q] =
                IF req[q] = None \/ ~Running(req[q]) THEN req[q] ELSE Sees(req[q], hk, sh)
<1>1. \A q \in Requests :
        Witnessed(req, hk, sh)[q] =
          IF req[q] = None \/ ~Running(req[q]) THEN req[q] ELSE Sees(req[q], hk, sh)
  BY DEF Witnessed, Over, Running, Sees, Match
<1>2. \A q \in Requests : req[q] # None => Sees(req[q], hk, sh) \in Request
  BY SeesTyped DEF Saw
<1>3. Witnessed(req, hk, sh) = [q \in Requests |-> Witnessed(req, hk, sh)[q]]
  BY DEF Witnessed
<1> QED BY <1>1, <1>2, <1>3

\* A request that knew the rows, or what a step of its own is about to make of
\* them, knows the new ones when it has seen them.
LEMMA SeesKnows ==
  ASSUME NEW j \in Request, NEW hk, NEW sh, NEW hk2, NEW sh2,
         Knows(j, hk, sh), Held(j, sh2)
  PROVE  Knows(Sees(j, hk2, sh2), hk2, sh2)
<1> DEFINE k == Sees(j, hk2, sh2)
<1>1. Saw(k, j, hk2, sh2)
  BY SeesTyped
<1> HIDE DEF k
<1>2. Knows(k, hk2, sh2)
  BY <1>1 DEF Knows, Saw, Held
<1> QED BY <1>2 DEF k

LEMMA SeesPosts ==
  ASSUME NEW j \in Request, NEW hk, NEW sh, NEW q, NEW posted, NEW lg,
         Posts(q, j, posted, lg)
  PROVE  Posts(q, Sees(j, hk, sh), posted, lg)
<1> DEFINE k == Sees(j, hk, sh)
<1>1. Saw(k, j, hk, sh)
  BY SeesTyped
<1> HIDE DEF k
<1>2. Posts(q, k, posted, lg)
  BY <1>1 DEF Posts, Saw
<1> QED BY <1>2 DEF k

\* Who holds a share now, holds it while it does not go.
LEMMA HoldsOn ==
  ASSUME Inv, NEW q \in Requests, request[q] # None, NEW sh,
         sh[request[q].share] = None => share[request[q].share] = None
  PROVE  Held(request[q], sh)
BY DEF Inv, Told, Knows, Held, Running

\* Others see new rows, and that is all that happens to them.
LEMMA OthersSee ==
  ASSUME Inv, NEW hk, NEW sh, NEW q \in Requests,
         request'[q] = (IF request[q] = None \/ ~Running(request[q]) THEN request[q]
                        ELSE Sees(request[q], hk, sh)),
         hook' = hk, share' = sh, request[q] # None => Held(request[q], sh),
         UNCHANGED <<threads, tried, log>>
  PROVE  /\ request'[q] = None => \A h \in Hooks : <<q, h>> \notin Posted'
         /\ request'[q] # None => Posts(q, request'[q], Posted', log')
         /\ request'[q] # None /\ Running(request'[q]) => Knows(request'[q], hook', share')
<1>0. Posted' = Posted
  BY DEF Posted
<1>1. CASE request[q] = None
  BY <1>0, <1>1 DEF Inv, Told
<1>2. CASE request[q] # None /\ ~Running(request[q])
  BY <1>0, <1>2 DEF Inv, Told
<1>3. CASE request[q] # None /\ Running(request[q])
  <2>1. request[q] \in Request /\ Knows(request[q], hook, share)
        /\ Posts(q, request[q], Posted, log)
    BY <1>3, RequestTyped DEF Inv, Told
  <2>2. request'[q] = Sees(request[q], hk, sh)
    BY <1>3
  <2>3. request'[q] \in Request
    <3>1. Saw(request'[q], request[q], hk, sh)
      BY <2>1, <2>2, SeesTyped
    <3> QED BY <3>1 DEF Saw
  <2>4. request'[q] # None
    BY <2>1, <2>2, <2>3, RequestIsSome
  <2>5. Knows(request'[q], hook', share')
    <3>1. Held(request[q], sh)
      BY <1>3
    <3>2. Knows(Sees(request[q], hk, sh), hk, sh)
      BY <2>1, <3>1, SeesKnows
    <3> QED BY <2>2, <3>2
  <2>6. Posts(q, request'[q], Posted', log')
    BY <1>0, <2>1, <2>2, SeesPosts
  <2> QED BY <2>4, <2>5, <2>6
<1> QED BY <1>1, <1>2, <1>3

\* A step of q leaves the others as they are.
LEMMA OwnStep ==
  ASSUME Inv, NEW q \in Requests, NEW j \in Request,
         request' = [request EXCEPT ![q] = j],
         hook' = hook, share' = share,
         \A p \in Requests \ {q}, h \in Hooks : <<p, h>> \in Posted' <=> <<p, h>> \in Posted,
         log \subseteq log',
         Posts(q, j, Posted', log'),
         Running(j) => Knows(j, hook, share)
  PROVE  Told' /\ request' \in [Requests -> Request \cup {None}]
<1>1. request' \in [Requests -> Request \cup {None}] /\ j # None
  BY RequestIsSome DEF Inv, TypeOK
<1>2. ASSUME NEW p \in Requests
      PROVE  /\ request'[p] = None => \A h \in Hooks : <<p, h>> \notin Posted'
             /\ request'[p] # None => Posts(p, request'[p], Posted', log')
             /\ request'[p] # None /\ Running(request'[p]) => Knows(request'[p], hook', share')
  <2>1. CASE p = q
    <3>1. request'[p] = j
      BY <2>1 DEF Inv, TypeOK
    <3> QED BY <1>1, <2>1, <3>1
  <2>2. CASE p # q
    <3>1. request'[p] = request[p]
      BY <2>2 DEF Inv, TypeOK
    <3>2. request[p] # None => Posts(p, request[p], Posted', log')
      BY <2>2 DEF Inv, Told, Posts
    <3> QED BY <2>2, <3>1, <3>2 DEF Inv, Told
  <2> QED BY <2>1, <2>2
<1> QED BY <1>1, <1>2 DEF Told

Ended(j, how) ==
  [j EXCEPT !.at = how, !.loaded = FALSE, !.new = FALSE, !.todo = {}, !.ever = {},
            !.always = {}, !.seen = FALSE, !.owed = FALSE]

\* The end of q: nothing more is said of it than what it posted and logged.
LEMMA EndStep ==
  ASSUME Inv, NEW q \in Requests, request[q] # None, NEW how \in {"answered", "died"},
         End(q, how), hook' = hook, share' = share,
         \A p \in Requests \ {q}, h \in Hooks : <<p, h>> \in Posted' <=> <<p, h>> \in Posted,
         log \subseteq log',
         how = "answered" /\ request[q].op = "download" =>
           q \in log' \/ \A h \in Hooks : <<q, h>> \notin Posted'
  PROVE  Told' /\ request' \in [Requests -> Request \cup {None}]
<1> DEFINE j == Ended(request[q], how)
<1>1. request[q] \in Request
  BY RequestTyped DEF Inv
<1>2. /\ j \in Request /\ j.at = how /\ j.op = request[q].op /\ j.always = {}
  BY <1>1 DEF Ended, Request
<1>3. request' = [request EXCEPT ![q] = j]
  BY DEF End, Ended
<1> HIDE DEF j
<1>4. Posts(q, j, Posted', log') /\ ~Running(j)
  BY <1>2 DEF Posts, Running
<1> QED BY <1>2, <1>3, <1>4, OwnStep

\* Nothing is missed, if all that matched throughout was posted.
LEMMA NothingMissed ==
  ASSUME Inv, NEW q \in Requests, Answered(q),
         ~request[q].owed \/ \A h \in request[q].always : <<q, h>> \in Posted
  PROVE  RevocationReported'
BY DEF Inv, Answered, RevocationReported

\* A change of the rows that everyone sees.
LEMMA RowsStep ==
  ASSUME Inv, NEW hk, NEW sh, hook' = hk, share' = sh,
         request' = Witnessed(request, hk, sh), UNCHANGED <<threads, tried, log>>,
         \A q \in Requests : request[q] # None => Held(request[q], sh)
  PROVE  Told' /\ request' \in [Requests -> Request \cup {None}]
<1>1. request \in [Requests -> Request \cup {None}]
  BY DEF Inv, TypeOK
<1>2. /\ request' \in [Requests -> Request \cup {None}]
      /\ \A q \in Requests : request'[q] =
           (IF request[q] = None \/ ~Running(request[q]) THEN request[q]
            ELSE Sees(request[q], hk, sh))
  BY <1>1, WitnessedTyped
<1> QED BY <1>2, OthersSee DEF Told

LEMMA InvInit == Init => Inv
<1> SUFFICES ASSUME Init PROVE Inv
  OBVIOUS
<1>1. TypeOK
  BY WebhooksAssumption DEF Init, TypeOK
<1>2. Told
  BY DEF Init, Told, Posted
<1>3. RevocationReported
  BY DEF Init, RevocationReported
<1> QED BY <1>1, <1>2, <1>3 DEF Inv

\* A step of q that leaves the tables alone, when q goes on as j.
LEMMA GoesOn ==
  ASSUME Inv, NEW q \in Requests, NEW j \in Request,
         request' = [request EXCEPT ![q] = j],
         UNCHANGED <<rows, log, missed>>,
         threads' \subseteq Requests \X Hooks, tried' \subseteq Requests \X Hooks,
         \A p \in Requests \ {q}, h \in Hooks : <<p, h>> \in Posted' <=> <<p, h>> \in Posted,
         Posts(q, j, Posted', log),
         Running(j) => Knows(j, hook, share)
  PROVE  Inv'
<1>1. Told' /\ request' \in [Requests -> Request \cup {None}]
  BY OwnStep DEF rows
<1>2. TypeOK'
  BY <1>1 DEF Inv, TypeOK, rows
<1>3. RevocationReported'
  BY DEF Inv, RevocationReported
<1> QED BY <1>1, <1>2, <1>3 DEF Inv

LEMMA Running_At ==
  ASSUME Inv, NEW q \in Requests, NEW step \in {"loaded", "committed", "reporting", "dispatching"},
         At(q, step)
  PROVE  /\ request[q] # None /\ request[q] \in Request /\ request[q].at = step
         /\ Running(request[q])
         /\ Knows(request[q], hook, share)
         /\ Posts(q, request[q], Posted, log)
         /\ step # "dispatching" => \A h \in Hooks : <<q, h>> \notin Posted
<1>1. request[q] # None /\ request[q].at = step
  BY DEF At
<1>2. request[q] \in Request /\ Running(request[q])
  BY <1>1, RequestTyped DEF Inv, Running
<1> QED BY <1>1, <1>2 DEF Inv, Told, Posts

\* Users change webhooks, owners and purges change shares.
LEMMA HooksChange ==
  ASSUME Inv, NEW h \in Hooks, NEW row \in HookRow \cup {None}, WriteHook(h, row),
         drawn' \subseteq Hooks
  PROVE  Inv'
<1>1. Told' /\ request' \in [Requests -> Request \cup {None}]
  BY HoldsOn, RowsStep DEF WriteHook
<1>2. hook' \in [Hooks -> HookRow \cup {None}] /\ edits' \in 0 .. MaxEdits
  BY WebhooksAssumption DEF Inv, TypeOK, WriteHook, Edit
<1>3. TypeOK'
  BY <1>1, <1>2 DEF Inv, TypeOK, WriteHook
<1> QED BY <1>1, <1>3 DEF Inv, RevocationReported, WriteHook

LEMMA SharesChange ==
  ASSUME Inv, NEW new \in [Shares -> BOOLEAN \cup {None}], SetShares(new),
         \A q \in Requests : request[q] # None => Held(request[q], new)
  PROVE  Inv'
<1>1. Told' /\ request' \in [Requests -> Request \cup {None}]
  BY RowsStep DEF SetShares
<1>2. TypeOK'
  BY <1>1 DEF Inv, TypeOK, SetShares
<1> QED BY <1>1, <1>2 DEF Inv, RevocationReported, SetShares

LEMMA LoadStep ==
  ASSUME Inv, NEW q \in Requests, NEW op \in {"patch", "delete", "download"},
         NEW s \in Shares, NEW b \in BOOLEAN, Load(q, op, s, b)
  PROVE  Inv'
<1> DEFINE j == [op |-> op, at |-> "loaded", share |-> s, loaded |-> share[s],
                 new |-> b, todo |-> {}, ever |-> Matching(op),
                 always |-> Matching(op), seen |-> share[s], owed |-> FALSE]
<1>1. share[s] \in BOOLEAN /\ Matching(op) \subseteq Hooks /\ Matching(op) = Match(hook, op)
  BY DEF Load, Inv, TypeOK, Matching, Match
<1>2. j \in Request
  BY <1>1 DEF Request
<1>3. \A h \in Hooks : <<q, h>> \notin Posted
  BY DEF Load, Inv, Told
<1>4. Knows(j, hook, share)
  BY <1>1 DEF Knows, Held, Load
<1>5. Posted' = Posted
  BY DEF Load, Posted
<1>6. Posts(q, j, Posted', log)
  BY <1>3, <1>5 DEF Posts
<1>7. request' = [request EXCEPT ![q] = j]
  BY DEF Load
<1>8. threads' \subseteq Requests \X Hooks /\ tried' \subseteq Requests \X Hooks
  BY DEF Load, Inv, TypeOK
<1> HIDE DEF j
<1> QED BY <1>2, <1>4, <1>5, <1>6, <1>7, <1>8, GoesOn DEF Load, rows

\* The commit of PATCH and DELETE is a change that everyone sees, its own
\* request included.
LEMMA CommitStep ==
  ASSUME Inv, NEW q \in Requests, CommitEdit(q), share[request[q].share] # None
  PROVE  Inv'
<1> DEFINE i == request[q]
           now == share[i.share]
           new == IF i.new # i.loaded THEN i.new ELSE now
           j == [i EXCEPT !.at = "committed", !.owed = (now = FALSE /\ new = TRUE)]
           req == [request EXCEPT ![q] = j]
           sh == [share EXCEPT ![i.share] = new]
<1>1. /\ i # None /\ i \in Request /\ i.at = "loaded" /\ Running(i)
      /\ Knows(i, hook, share) /\ Posts(q, i, Posted, log)
      /\ \A h \in Hooks : <<q, h>> \notin Posted
      /\ i.op # "download"
  BY Running_At DEF CommitEdit
<1>2. now \in BOOLEAN /\ new \in BOOLEAN /\ i.share \in Shares
  BY <1>1 DEF Request, Inv, TypeOK
<1>3. sh \in [Shares -> BOOLEAN \cup {None}] /\ sh[i.share] = new
  BY <1>2 DEF Inv, TypeOK
<1>4. j \in Request
  BY <1>1, <1>2 DEF Request
<1>5. req \in [Requests -> Request \cup {None}] /\ req[q] = j
      /\ \A p \in Requests \ {q} : req[p] = request[p]
  BY <1>4 DEF Inv, TypeOK
<1>6. /\ share' = sh /\ UNCHANGED <<missed, hook, edits, drawn, threads, tried, log>>
      /\ request' = Witnessed(req, hook, sh)
  BY <1>1 DEF CommitEdit
<1>7. j # None /\ Running(j) /\ j.at = "committed" /\ j.op = i.op /\ j.share = i.share
      /\ j.loaded = i.loaded /\ j.new = i.new /\ j.todo = i.todo /\ j.ever = i.ever
      /\ j.always = i.always /\ j.seen = i.seen /\ (j.owed <=> now = FALSE /\ new = TRUE)
  BY <1>1, <1>4, RequestIsSome DEF Request, Running
<1> HIDE DEF req, sh, j
<1>8. request' \in [Requests -> Request \cup {None}]
      /\ \A p \in Requests : request'[p] =
           (IF req[p] = None \/ ~Running(req[p]) THEN req[p] ELSE Sees(req[p], hook, sh))
  BY <1>5, <1>6, WitnessedTyped
<1>9. Posted' = Posted
  BY <1>6 DEF Posted
<1>10. ASSUME NEW p \in Requests
       PROVE  /\ request'[p] = None => \A h \in Hooks : <<p, h>> \notin Posted'
              /\ request'[p] # None => Posts(p, request'[p], Posted', log')
              /\ request'[p] # None /\ Running(request'[p]) => Knows(request'[p], hook', share')
  <2>1. CASE p # q
    <3>1. request[p] # None =>
            (sh[request[p].share] = None => share[request[p].share] = None)
      <4>1. new # None
        BY <1>2, WebhooksAssumption
      <4>2. ASSUME NEW s \in Shares, s # i.share
            PROVE  sh[s] = share[s]
        BY <4>2 DEF sh, Inv, TypeOK
      <4>3. request[p] # None => request[p].share \in Shares
        BY RequestTyped DEF Request, Inv
      <4> QED BY <1>3, <4>1, <4>2, <4>3
    <3>2. request[p] # None => Held(request[p], sh)
      BY <3>1, HoldsOn
    <3> QED BY <1>5, <1>6, <1>8, <2>1, <3>2, OthersSee
  <2>2. CASE p = q
    <3>1. request'[q] = Sees(j, hook, sh)
      BY <1>5, <1>7, <1>8
    <3>2. Saw(request'[q], j, hook, sh)
      BY <1>4, <3>1, SeesTyped
    <3>3. request'[q] # None
      BY <3>2, RequestIsSome DEF Saw
    <3>4. Posts(q, request'[q], Posted', log')
      BY <1>1, <1>7, <1>9, <3>2 DEF Posts, Saw
    <3>5. Knows(request'[q], hook, sh)
      BY <1>1, <1>2, <1>3, <1>7, <3>2 DEF Knows, Saw, Held
    <3> QED BY <1>6, <2>2, <3>3, <3>4, <3>5
  <2> QED BY <2>1, <2>2
<1>11. TypeOK'
  BY <1>3, <1>6, <1>8 DEF Inv, TypeOK
<1> QED BY <1>6, <1>10, <1>11 DEF Inv, Told, RevocationReported

\* A request that ends, answered or dead.
LEMMA Ends ==
  ASSUME Inv, NEW q \in Requests, request[q] # None, NEW how \in {"answered", "died"},
         End(q, how), UNCHANGED rows, RevocationReported',
         threads' \subseteq threads, tried' = tried,
         \A p \in Requests \ {q}, h \in Hooks : <<p, h>> \in Posted' <=> <<p, h>> \in Posted,
         log \subseteq log', log' \subseteq Requests,
         how = "answered" /\ request[q].op = "download" =>
           q \in log' \/ \A h \in Hooks : <<q, h>> \notin Posted'
  PROVE  Inv'
<1>1. Told' /\ request' \in [Requests -> Request \cup {None}]
  BY EndStep DEF rows
<1>2. TypeOK'
  BY <1>1 DEF Inv, TypeOK, rows, RevocationReported
<1> QED BY <1>1, <1>2 DEF Inv

LEMMA SkipStep ==
  ASSUME Inv, NEW q \in Requests, Skip(q)
  PROVE  Inv'
<1>1. /\ request[q] # None /\ request[q] \in Request /\ request[q].at = "committed"
      /\ Knows(request[q], hook, share)
      /\ \A h \in Hooks : <<q, h>> \notin Posted
  BY Running_At DEF Skip
<1>2. ~request[q].owed
  <2>1. request[q].owed => share[request[q].share] = TRUE /\ ~request[q].loaded
    BY <1>1 DEF Knows
  <2>2. TRUE # None
    BY WebhooksAssumption
  <2> QED BY <2>1, <2>2 DEF Skip, Reports
<1>3. RevocationReported'
  BY <1>2, NothingMissed DEF Skip
<1>4. Posted' = Posted
  BY DEF Skip, Posted
<1>5. request[q].op # "download"
  BY <1>1 DEF Knows
<1>6. End(q, "answered") /\ UNCHANGED <<rows, threads, tried, log>>
  BY DEF Skip, Answered
<1>7. log \subseteq Requests
  BY DEF Inv, TypeOK
<1> QED BY <1>1, <1>3, <1>4, <1>5, <1>6, <1>7, Ends

\* A download whose share is gone, or an edit whose row is.
LEMMA GoneStep ==
  ASSUME Inv, NEW q \in Requests, At(q, "loaded"), share[request[q].share] = None,
         Answered(q), UNCHANGED <<rows, threads, tried, log>>
  PROVE  Inv'
<1>1. /\ request[q] # None /\ Knows(request[q], hook, share) /\ request[q].at = "loaded"
      /\ \A h \in Hooks : <<q, h>> \notin Posted
  BY Running_At
<1>2. ~request[q].owed
  BY <1>1 DEF Knows
<1>3. RevocationReported'
  BY <1>2, NothingMissed
<1>4. Posted' = Posted
  BY DEF Posted
<1>5. log \subseteq Requests
  BY DEF Inv, TypeOK
<1> QED BY <1>1, <1>3, <1>4, <1>5, Ends DEF Answered

LEMMA RereadStep ==
  ASSUME Inv, NEW q \in Requests, Reread(q)
  PROVE  Inv'
<1> DEFINE i == request[q]
           j == [i EXCEPT !.at = "reporting"]
<1>1. /\ i # None /\ i \in Request /\ i.at = "committed"
      /\ Knows(i, hook, share) /\ Posts(q, i, Posted, log)
      /\ \A h \in Hooks : <<q, h>> \notin Posted
  BY Running_At DEF Reread
<1>2. share[i.share] \in BOOLEAN
  BY <1>1 DEF Request, Inv, TypeOK, Reread
<1>3. j \in Request
  BY <1>1 DEF Request
<1>4. Knows(j, hook, share)
  BY <1>1, <1>2 DEF Knows, Held, Reread, Reports, Request
<1>5. Posted' = Posted /\ UNCHANGED <<rows, log, missed, threads, tried>>
  BY DEF Reread, Posted
<1>6. Posts(q, j, Posted', log)
  BY <1>1, <1>5 DEF Posts, Request
<1>7. request' = [request EXCEPT ![q] = j]
  BY DEF Reread
<1>8. threads \subseteq Requests \X Hooks /\ tried \subseteq Requests \X Hooks
  BY DEF Inv, TypeOK
<1> HIDE DEF j
<1> QED BY <1>3, <1>4, <1>5, <1>6, <1>7, <1>8, GoesOn

\* dispatch_webhook_event starts: the matching webhooks are read.
LEMMA DispatchStep ==
  ASSUME Inv, NEW q \in Requests, NEW step \in {"loaded", "reporting"}, At(q, step),
         step = "loaded" =>
           request[q].op = "download" /\ share[request[q].share] # None,
         request' = [request EXCEPT ![q].at = "dispatching",
                                    ![q].todo = Matching(request[q].op)],
         UNCHANGED <<rows, threads, tried, log, missed>>
  PROVE  Inv'
<1> DEFINE i == request[q]
           j == [i EXCEPT !.at = "dispatching", !.todo = Matching(i.op)]
<1>1. /\ i # None /\ i \in Request /\ i.at = step
      /\ Knows(i, hook, share) /\ Posts(q, i, Posted, log)
      /\ \A h \in Hooks : <<q, h>> \notin Posted
  BY Running_At
<1>2. Matching(i.op) = Match(hook, i.op) /\ Matching(i.op) \subseteq Hooks
  BY DEF Matching, Match
<1>3. j \in Request
  BY <1>1, <1>2 DEF Request
<1>4. /\ j.at = "dispatching" /\ j.todo = Matching(i.op) /\ j.op = i.op /\ j.share = i.share
      /\ j.loaded = i.loaded /\ j.new = i.new /\ j.ever = i.ever /\ j.always = i.always
      /\ j.seen = i.seen /\ j.owed = i.owed
  BY <1>1 DEF Request
<1>5. request' = [request EXCEPT ![q] = j]
  BY <1>1 DEF Inv, TypeOK
<1> HIDE DEF j
<1>6. Knows(j, hook, share)
  BY <1>1, <1>2, <1>4 DEF Knows, Held
<1>7. Posted' = Posted
  BY DEF Posted
<1>8. Posts(q, j, Posted', log)
  <2>1. j.always \subseteq j.todo
    BY <1>1, <1>2, <1>4 DEF Knows
  <2> QED BY <1>1, <1>4, <1>7, <2>1 DEF Posts
<1>9. threads \subseteq Requests \X Hooks /\ tried \subseteq Requests \X Hooks
  BY DEF Inv, TypeOK
<1> QED BY <1>3, <1>5, <1>6, <1>7, <1>8, <1>9, GoesOn

LEMMA StartThreadStep ==
  ASSUME Inv, NEW q \in Requests, NEW h \in Hooks, StartThread(q, h)
  PROVE  Inv'
<1> DEFINE i == request[q]
           j == [i EXCEPT !.todo = i.todo \ {h}]
<1>1. /\ i # None /\ i \in Request /\ i.at = "dispatching" /\ Running(i)
      /\ Knows(i, hook, share) /\ Posts(q, i, Posted, log)
  BY Running_At DEF StartThread
<1>2. j \in Request
  BY <1>1 DEF Request
<1>3. /\ j.at = i.at /\ j.todo = i.todo \ {h} /\ j.op = i.op /\ j.share = i.share
      /\ j.loaded = i.loaded /\ j.new = i.new /\ j.ever = i.ever /\ j.always = i.always
      /\ j.seen = i.seen /\ j.owed = i.owed
  BY <1>1 DEF Request
<1>4. request' = [request EXCEPT ![q] = j] /\ threads' = threads \cup {<<q, h>>}
      /\ UNCHANGED <<rows, tried, log, missed>>
  BY DEF StartThread
<1> HIDE DEF j
<1>5. Knows(j, hook, share)
  BY <1>1, <1>3 DEF Knows, Held
<1>6. Posted' = Posted \cup {<<q, h>>}
  BY <1>4 DEF Posted
<1>7. h \in i.ever
  BY <1>1 DEF StartThread, Knows
<1>8. Posts(q, j, Posted', log)
  <2> SUFFICES ASSUME NEW g \in Hooks
               PROVE  /\ <<q, g>> \in Posted' => g \in j.ever
                      /\ g \in j.always => <<q, g>> \in Posted' \/ g \in j.todo
    BY <1>1, <1>3 DEF Posts
  <2>1. <<q, g>> \in Posted' <=> <<q, g>> \in Posted \/ g = h
    BY <1>6
  <2> QED BY <1>1, <1>3, <1>7, <2>1 DEF Posts
<1>9. threads' \subseteq Requests \X Hooks /\ tried' \subseteq Requests \X Hooks
  BY <1>4 DEF Inv, TypeOK
<1>10. \A p \in Requests \ {q}, g \in Hooks : <<p, g>> \in Posted' <=> <<p, g>> \in Posted
  BY <1>6
<1> QED BY <1>2, <1>4, <1>5, <1>8, <1>9, <1>10, GoesOn

\* The request has a thread for every webhook that it found, and answers.
LEMMA AnswerStep ==
  ASSUME Inv, NEW q \in Requests, Answer(q)
  PROVE  Inv'
<1>1. /\ request[q] # None /\ request[q] \in Request /\ request[q].at = "dispatching"
      /\ Posts(q, request[q], Posted, log) /\ request[q].todo = {}
      /\ Held(request[q], share)
  BY Running_At DEF Answer, Knows
<1>2. request[q].always \subseteq Hooks
  BY <1>1 DEF Request
<1>3. \A h \in request[q].always : <<q, h>> \in Posted
  BY <1>1, <1>2 DEF Posts
<1>4. RevocationReported'
  BY <1>3, NothingMissed DEF Answer
<1>5. Posted' = Posted
  BY DEF Answer, Posted
<1>6. End(q, "answered") /\ UNCHANGED <<rows, threads, tried>>
  BY DEF Answer, Answered
<1>7. log \subseteq log' /\ log' \subseteq Requests
  BY DEF Answer, Inv, TypeOK
<1>8. request[q].op = "download" => q \in log'
  BY <1>1 DEF Answer, Held
<1> QED BY <1>1, <1>4, <1>5, <1>6, <1>7, <1>8, Ends

LEMMA SendStep ==
  ASSUME Inv, NEW q \in Requests, NEW h \in Hooks, Send(q, h)
  PROVE  Inv'
<1>1. Posted' = Posted
  BY DEF Send, Posted
<1>2. UNCHANGED <<hook, share, request, log>>
  BY DEF Send, rows
<1>3. Told'
  BY <1>1, <1>2 DEF Inv, Told
<1>4. TypeOK'
  BY DEF Send, Inv, TypeOK, rows
<1> QED BY <1>3, <1>4 DEF Inv, RevocationReported, Send

LEMMA DieStep ==
  ASSUME Inv, NEW q \in Requests, Die(q)
  PROVE  Inv'
<1>1. /\ request[q] # None /\ End(q, "died") /\ UNCHANGED <<rows, tried, log, missed>>
      /\ threads' = {t \in threads : t[1] # q}
  BY DEF Die
<1>2. \A p \in Requests \ {q}, h \in Hooks : <<p, h>> \in Posted' <=> <<p, h>> \in Posted
  <2> SUFFICES ASSUME NEW p \in Requests \ {q}, NEW h \in Hooks
               PROVE  <<p, h>> \in threads' <=> <<p, h>> \in threads
    BY <1>1 DEF Posted
  <2> QED BY <1>1
<1>3. RevocationReported'
  BY <1>1 DEF Inv, RevocationReported
<1>4. log \subseteq Requests /\ threads' \subseteq threads
  BY <1>1 DEF Inv, TypeOK
<1> QED BY <1>1, <1>2, <1>3, <1>4, Ends

LEMMA InvStep == Inv /\ [Next]_vars => Inv'
<1> SUFFICES ASSUME Inv, [Next]_vars PROVE Inv'
  OBVIOUS
<1>0. Settings \subseteq HookRow /\ drawn \subseteq Hooks /\ share \in [Shares -> BOOLEAN \cup {None}]
  BY WebhooksAssumption DEF Inv, TypeOK
<1>1. ASSUME NEW h \in Hooks, NEW row \in Settings, CreateHook(h, row)
      PROVE  Inv'
  BY <1>0, <1>1, HooksChange DEF CreateHook
<1>2. ASSUME NEW h \in Hooks, NEW row \in Settings, UpdateHook(h, row)
      PROVE  Inv'
  BY <1>0, <1>2, HooksChange DEF UpdateHook
<1>3. ASSUME NEW h \in Hooks, DeleteHook(h)
      PROVE  Inv'
  BY <1>0, <1>3, HooksChange DEF DeleteHook
<1>4. ASSUME NEW s \in Shares, Trash(s)
      PROVE  Inv'
  <2>1. [share EXCEPT ![s] = TRUE] \in [Shares -> BOOLEAN \cup {None}]
    BY <1>0
  <2>2. TRUE # None
    BY WebhooksAssumption
  <2>3. \A x \in Shares : [share EXCEPT ![s] = TRUE][x] = None => share[x] = None
    BY <1>0, <2>2
  <2>4. \A q \in Requests : request[q] # None => request[q].share \in Shares
    BY RequestTyped DEF Request, Inv
  <2>5. \A q \in Requests : request[q] # None => Held(request[q], [share EXCEPT ![s] = TRUE])
    BY <2>3, <2>4, HoldsOn
  <2> QED BY <1>4, <2>1, <2>5, SharesChange DEF Trash
<1>5. ASSUME NEW s \in Shares, Purge(s)
      PROVE  Inv'
  <2>1. [share EXCEPT ![s] = None] \in [Shares -> BOOLEAN \cup {None}]
    BY <1>0
  <2>2. \A x \in Shares \ {s} : [share EXCEPT ![s] = None][x] = share[x]
    BY <1>0
  <2>3. ASSUME NEW q \in Requests, request[q] # None
        PROVE  Held(request[q], [share EXCEPT ![s] = None])
    <3>1. request[q].share \in Shares
      BY <2>3, RequestTyped DEF Request, Inv
    <3>2. CASE request[q].share = s
      BY <1>5, <2>3, <3>2 DEF Purge, Flushed, At, Held
    <3>3. CASE request[q].share # s
      BY <2>2, <2>3, <3>1, <3>3, HoldsOn
    <3> QED BY <3>2, <3>3
  <2> QED BY <1>5, <2>1, <2>3, SharesChange DEF Purge
<1>6. ASSUME NEW q \in Requests, NEW op \in {"patch", "delete", "download"},
             NEW s \in Shares, NEW b \in BOOLEAN, Load(q, op, s, b)
      PROVE  Inv'
  BY <1>6, LoadStep
<1>7. ASSUME NEW q \in Requests, CommitEdit(q)
      PROVE  Inv'
  <2>1. CASE share[request[q].share] # None
    BY <1>7, <2>1, CommitStep
  <2>2. CASE share[request[q].share] = None
    <3>1. /\ At(q, "loaded") /\ Answered(q)
          /\ UNCHANGED <<rows, threads, tried, log>>
      BY <1>7, <2>2 DEF CommitEdit, rows
    <3> QED BY <2>2, <3>1, GoneStep
  <2> QED BY <2>1, <2>2
<1>8. ASSUME NEW q \in Requests, Dispatch(q)
      PROVE  Inv'
  BY <1>8, DispatchStep DEF Dispatch
<1>9. ASSUME NEW q \in Requests, DispatchDownload(q)
      PROVE  Inv'
  <2>1. CASE share[request[q].share] # None
    <3>1. /\ At(q, "loaded") /\ request[q].op = "download"
          /\ UNCHANGED <<rows, threads, tried, log, missed>>
          /\ request' = [request EXCEPT ![q].at = "dispatching",
                                        ![q].todo = Matching(request[q].op)]
      BY <1>9, <2>1 DEF DispatchDownload
    <3> QED BY <2>1, <3>1, DispatchStep
  <2>2. CASE share[request[q].share] = None
    BY <1>9, <2>2, GoneStep DEF DispatchDownload
  <2> QED BY <2>1, <2>2
<1>10. ASSUME NEW q \in Requests, Step(q)
       PROVE  Inv'
  BY <1>7, <1>8, <1>9, <1>10, RereadStep, SkipStep, AnswerStep, StartThreadStep DEF Step
<1>11. ASSUME NEW q \in Requests, NEW h \in Hooks, Send(q, h)
       PROVE  Inv'
  BY <1>11, SendStep
<1>12. ASSUME NEW q \in Requests, Die(q)
       PROVE  Inv'
  BY <1>12, DieStep
<1>13. CASE UNCHANGED vars
  <2>1. Posted' = Posted
    BY <1>13 DEF vars, Posted
  <2> QED BY <1>13, <2>1 DEF vars, Inv, TypeOK, Told, RevocationReported
<1>14. CASE Next
  BY <1>1, <1>2, <1>3, <1>4, <1>5, <1>6, <1>10, <1>11, <1>12, <1>14 DEF Next
<1> QED BY <1>13, <1>14

LEMMA Always == Spec => []Inv
<1> QED BY InvInit, InvStep, PTL DEF Spec

-----------------------------------------------------------------------------
\* Every table and every local variable keeps its type: no webhook is left without
\* an event, and no request posts for a webhook that there is not.
THEOREM TypeCorrect == Spec => []TypeOK
<1>1. Inv => TypeOK
  BY DEF Inv
<1> QED BY <1>1, Always, PTL

\* However often webhooks are edited under a dispatch (dispatcher.py:120): what it
\* posts to matched at some moment of the request, and what matched throughout is
\* posted to or still on its list.
THEOREM EventsGoRight == Spec => []RightHooks
<1>1. Inv => RightHooks
  BY DEF Inv, Told, Posts, At, RightHooks
<1> QED BY <1>1, Always, PTL

\* share.revoked is only sent about a share that was revoked at some moment of
\* the request, whatever other requests do to the row between the commit and the
\* look at it (shares/routes.py:749 and 790).
THEOREM RevokedTrue == Spec => []RevokedIsTrue
<1>1. Inv => RevokedIsTrue
  BY DEF Inv, Told, Knows, Running, At, RevokedIsTrue
<1> QED BY <1>1, Always, PTL

\* A download that was reported and answered is in the access log, although the
\* report leaves first (shares/routes.py:97 and 115).
THEOREM DownloadsLogged == Spec => []DownloadedIsLogged
<1>1. Inv => DownloadedIsLogged
  BY DEF Inv, Told, Posts, At, DownloadedIsLogged
<1> QED BY <1>1, Always, PTL

\* A request that revoked a live share, and whose revocation stood, has told every
\* webhook that matched throughout when it answers.
THEOREM RevocationsReported == Spec => []RevocationReported
<1>1. Inv => RevocationReported
  BY DEF Inv
<1> QED BY <1>1, Always, PTL
================================================================================
