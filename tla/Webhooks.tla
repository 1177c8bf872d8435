------------------------------- MODULE Webhooks -------------------------------
(***************************************************************************)
(* Events about shares and the webhooks they go to: the dispatcher         *)
(* (app/webhooks), and the requests of app/shares/routes.py that call it,  *)
(* seen from what the database holds when they do.                         *)
(*                                                                         *)
(* A dispatch reads the webhooks once and starts one daemon thread for     *)
(* each that is active and subscribed; a thread tries once to deliver.  A  *)
(* revocation is committed before its event, a download after.  All rows   *)
(* belong to one owner; each request id stands for one request, ever.      *)
(***************************************************************************)
EXTENDS Naturals

CONSTANTS
  Hooks, Shares, Requests,
  Settings,   \* BOUND: the webhook rows users may write
  MaxEdits,   \* BOUND: changes of webhooks
  None

Events == {"downloaded", "revoked"}

HookRow == [active : BOOLEAN, events : SUBSET Events \ {{}}]

Request ==
  [op : {"patch", "delete", "download"},
   at : {"loaded", "committed", "reporting", "dispatching", "answered", "died"},
   share : Shares,
   loaded : BOOLEAN,       \* is_revoked as loaded
   new : BOOLEAN,          \* is_revoked as the request wants it
   todo : SUBSET Hooks,    \* matching hooks without a thread yet
   ever : SUBSET Hooks,    \* history: hooks that matched at some moment of it,
   always : SUBSET Hooks,  \* at every moment of it
   seen : BOOLEAN,         \* history: its share was revoked at some moment of it
   owed : BOOLEAN]         \* history: it revoked a live share, and nobody undid
                           \* that or purged the share since

ASSUME WebhooksAssumption ==
  /\ Settings \subseteq HookRow
  /\ MaxEdits \in Nat
  /\ None \notin HookRow /\ None \notin Request
  /\ None \notin BOOLEAN

VARIABLES
  hook,     \* table webhooks
  edits,    \* number of changes of webhooks so far
  drawn,    \* webhook ids ever drawn
  share,    \* table shares: is_revoked
  request,  \* local variables of each request
  threads,  \* the senders that run: <<request, hook>>
  tried,    \* history: the deliveries that were tried
  log,      \* the downloads in the access log
  missed    \* history: requests that revoked a share and did not report it to
            \* a webhook that matched throughout

rows == <<hook, edits, drawn, share>>

vars == <<hook, edits, drawn, share, request, threads, tried, log, missed>>

-----------------------------------------------------------------------------
Event(op) == IF op = "download" THEN "downloaded" ELSE "revoked"

\* mutant: a disabled webhook gets events too
MatchingAny(op) ==
  {h \in Hooks : hook[h] # None /\ Event(op) \in hook[h].events}

\* ("*" stands for all events.)
Matching(op) ==
  {h \in Hooks : hook[h] # None /\ hook[h].active /\ Event(op) \in hook[h].events}

At(q, step) == request[q] # None /\ request[q].at = step

Over(req, q) == req[q] = None \/ req[q].at \in {"answered", "died"}

\* A request is over, and so is its history.
End(q, how) ==
  request' = [request EXCEPT
                ![q].at = how, ![q].loaded = FALSE, ![q].new = FALSE,
                ![q].todo = {}, ![q].ever = {}, ![q].always = {},
                ![q].seen = FALSE, ![q].owed = FALSE]

Posted == threads \cup tried

Answered(q) ==
  /\ End(q, "answered")
  /\ missed' = IF request[q].owed /\ \E h \in request[q].always : <<q, h>> \notin Posted
               THEN missed \cup {q} ELSE missed

Init ==
  /\ hook \in [Hooks -> Settings \cup {None}]
  /\ edits = 0
  /\ drawn = {h \in Hooks : hook[h] # None}
  /\ share = [s \in Shares |-> FALSE]
  /\ request = [q \in Requests |-> None]
  /\ threads = {}
  /\ tried = {}
  /\ log = {}
  /\ missed = {}

\* What the history of the running requests makes of new rows hk and sh.
Witnessed(req, hk, sh) ==
  [q \in Requests |->
     IF Over(req, q) THEN req[q]
     ELSE LET now == {h \in Hooks : hk[h] # None /\ hk[h].active
                                      /\ Event(req[q].op) \in hk[h].events}
              is == sh[req[q].share]
          IN  [req[q] EXCEPT !.ever = @ \cup now, !.always = @ \cap now,
                             !.seen = @ \/ is = TRUE,
                             !.owed = @ /\ is = TRUE]]

(***************************** /api/webhooks *******************************)
\* A row is inserted, changed or deleted in one step: an UPDATE names only what
\* changes.
Edit ==
  /\ edits < MaxEdits
  /\ edits' = edits + 1

WriteHook(h, row) ==
  /\ Edit
  /\ hook' = [hook EXCEPT ![h] = row]
  /\ request' = Witnessed(request, hook', share)
  /\ UNCHANGED <<share, threads, tried, log, missed>>

CreateHook(h, row) ==
  /\ h \notin drawn
  /\ drawn' = drawn \cup {h}
  /\ WriteHook(h, row)

UpdateHook(h, row) ==
  /\ hook[h] # None
  /\ WriteHook(h, row)
  /\ UNCHANGED drawn

DeleteHook(h) ==
  /\ hook[h] # None
  /\ WriteHook(h, None)
  /\ UNCHANGED drawn

(********************** what happens to a share ****************************)
SetShares(new) ==
  /\ share' = new
  /\ request' = Witnessed(request, hook, share')
  /\ UNCHANGED <<hook, edits, drawn, threads, tried, log, missed>>

\* delete_file revokes the shares of its file, without an event.
Trash(s) ==
  /\ share[s] = FALSE
  /\ SetShares([share EXCEPT ![s] = TRUE])

\* mutant: the event is prepared before the log row is flushed
NeverFlushed(q) == FALSE

\* The log row of a download is flushed by the query for webhooks: its foreign key
\* holds the row of the share until the commit.
Flushed(q) == At(q, "dispatching") /\ request[q].op = "download"

Purge(s) ==
  /\ share[s] # None
  /\ \A q \in Requests : Flushed(q) => request[q].share # s
  /\ SetShares([share EXCEPT ![s] = None])

(****************** PATCH and DELETE /api/shares/<id> **********************)
Load(q, op, s, new) ==
  /\ request[q] = None
  /\ share[s] # None
  /\ op = "delete" => new = TRUE
  /\ op = "download" => share[s] = FALSE /\ new = FALSE
  /\ request' =
       [request EXCEPT ![q] =
          [op |-> op, at |-> "loaded", share |-> s, loaded |-> share[s],
           new |-> new, todo |-> {}, ever |-> Matching(op),
           always |-> Matching(op), seen |-> share[s], owed |-> FALSE]]
  /\ UNCHANGED <<rows, threads, tried, log, missed>>

\* The UPDATE names is_revoked if it differs from what was loaded; it fails if
\* the row is gone.
CommitEdit(q) ==
  LET j == request[q]
      now == share[j.share]
      new == IF j.new # j.loaded THEN j.new ELSE now
  IN  /\ At(q, "loaded") /\ j.op # "download"
      /\ IF now = None
         THEN Answered(q) /\ UNCHANGED share
         ELSE /\ UNCHANGED missed
              /\ share' = [share EXCEPT ![j.share] = new]
              /\ request' = Witnessed([request EXCEPT
                                         ![q].at = "committed",
                                         ![q].owed = (now = FALSE /\ new = TRUE)],
                                      hook, share')
      /\ UNCHANGED <<hook, edits, drawn, threads, tried, log>>

\* mutants: was_revoked is taken after the assignment; PATCH reports what it
\* wanted, DELETE only what it changed
ReportsNew(j) == j.op = "delete" \/ (~j.new /\ share[j.share] = TRUE)
ReportsWanted(j) == j.op = "patch" \/ ~j.loaded

\* PATCH reads the row again, which the commit expired; DELETE reports always.
Reports(j) == j.op = "delete" \/ (~j.loaded /\ share[j.share] = TRUE)

Reread(q) ==
  /\ At(q, "committed")
  /\ share[request[q].share] # None /\ Reports(request[q])
  /\ request' = [request EXCEPT ![q].at = "reporting"]
  /\ UNCHANGED <<rows, threads, tried, log, missed>>

\* Nothing to report, or no row left to report on.
Skip(q) ==
  LET j == request[q]
  IN  /\ At(q, "committed")
      /\ share[j.share] # None => ~Reports(j)
      /\ Answered(q)
      /\ UNCHANGED <<rows, threads, tried, log>>

\* dispatch_webhook_event: the matching webhooks are read ...
Dispatch(q) ==
  /\ At(q, "reporting")
  /\ request' = [request EXCEPT ![q].at = "dispatching",
                                ![q].todo = Matching(request[q].op)]
  /\ UNCHANGED <<rows, threads, tried, log, missed>>

\* ... and one thread started for each.
StartThread(q, h) ==
  /\ At(q, "dispatching")
  /\ h \in request[q].todo
  /\ threads' = threads \cup {<<q, h>>}
  /\ request' = [request EXCEPT ![q].todo = @ \ {h}]
  /\ UNCHANGED <<rows, tried, log, missed>>

(********************** _log of a served download **************************)
\* The query for webhooks flushes the log row first; if the share is gone, the
\* foreign key refuses it, and the commit.
DispatchDownload(q) ==
  LET j == request[q]
  IN  /\ At(q, "loaded") /\ j.op = "download"
      /\ IF share[j.share] = None THEN Answered(q)
         ELSE /\ UNCHANGED missed
              /\ request' = [request EXCEPT ![q].at = "dispatching",
                                              ![q].todo = Matching(j.op)]
      /\ UNCHANGED <<rows, threads, tried, log>>

\* A download commits its log row now; there is none for a share that is gone.
Answer(q) ==
  LET j == request[q]
  IN  /\ At(q, "dispatching") /\ j.todo = {}
      /\ Answered(q)
      /\ log' = IF j.op = "download" /\ share[j.share] # None THEN log \cup {q} ELSE log
      /\ UNCHANGED <<rows, threads, tried>>

-----------------------------------------------------------------------------
\* mutant: a sender tries again as long as nothing is delivered
SendAgain(q, h) ==
  /\ <<q, h>> \in threads
  /\ tried' = tried \cup {<<q, h>>}
  /\ UNCHANGED <<rows, request, threads, log, missed>>

\* At most one POST, without a retry, whatever comes back.
Send(q, h) ==
  /\ <<q, h>> \in threads
  /\ threads' = threads \ {<<q, h>>}
  /\ tried' = tried \cup {<<q, h>>}
  /\ UNCHANGED <<rows, request, log, missed>>

\* The worker of a request dies, and with it the threads it started; they are
\* daemons, so they die too when it exits after the answer.
Die(q) ==
  /\ request[q] # None
  /\ ~Over(request, q) \/ \E h \in Hooks : <<q, h>> \in threads
  /\ End(q, "died")
  /\ threads' = {t \in threads : t[1] # q}
  /\ UNCHANGED <<rows, tried, log, missed>>

Step(q) ==
  \/ CommitEdit(q) \/ Reread(q) \/ Skip(q) \/ Dispatch(q)
  \/ DispatchDownload(q) \/ Answer(q)
  \/ \E h \in Hooks : StartThread(q, h)

Next ==
  \/ \E h \in Hooks, row \in Settings : CreateHook(h, row) \/ UpdateHook(h, row)
  \/ \E h \in Hooks : DeleteHook(h)
  \/ \E s \in Shares : Trash(s) \/ Purge(s)
  \/ \E q \in Requests :
       \/ \E op \in {"patch", "delete", "download"}, s \in Shares, b \in BOOLEAN :
            Load(q, op, s, b)
       \/ Step(q)
       \/ \E h \in Hooks : Send(q, h)
       \/ Die(q)

Spec == Init /\ [][Next]_vars

\* Workers go on, and a POST ends: connecting, and every wait for bytes, has a
\* timeout.  (A receiver that sends them one at a time can hold a sender for longer
\* than the timeout: it ends as long as the answer does.)
Fairness == WF_vars(\E q \in Requests : Step(q) \/ \E h \in Hooks : Send(q, h))

FairSpec == Spec /\ Fairness

-----------------------------------------------------------------------------
TypeOK ==
  /\ hook \in [Hooks -> HookRow \cup {None}]
  /\ edits \in 0 .. MaxEdits
  /\ drawn \subseteq Hooks
  /\ share \in [Shares -> BOOLEAN \cup {None}]
  /\ request \in [Requests -> Request \cup {None}]
  /\ threads \subseteq Requests \X Hooks
  /\ tried \subseteq Requests \X Hooks
  /\ log \subseteq Requests
  /\ missed \subseteq Requests

\* An event goes only to webhooks that were active and subscribed at some moment
\* of the request, and to all that were so throughout.
RightHooks ==
  \A q \in Requests, h \in Hooks : At(q, "dispatching") =>
    /\ <<q, h>> \in Posted => h \in request[q].ever
    /\ h \in request[q].always => <<q, h>> \in Posted \/ h \in request[q].todo

\* share.revoked is only sent about a share that was revoked at some moment of
\* the request, although PATCH decides on a row that it reads after its commit
\* and DELETE on none.
RevokedIsTrue ==
  \A q \in Requests, h \in Hooks :
    <<q, h>> \in Posted /\ At(q, "dispatching") /\ request[q].op # "download"
      => request[q].seen

\* share.downloaded goes out before the download is committed, and yet a purge of
\* the share cannot make it a report of something that was never logged, for what
\* prepares the event has flushed the row: only a crash can.
DownloadedIsLogged ==
  \A q \in Requests, h \in Hooks :
    <<q, h>> \in Posted /\ request[q].op = "download" /\ At(q, "answered")
      => q \in log

\* "share.revoked: Dispatched whenever a file share is revoked": a PATCH or DELETE
\* that revokes a live share has the event sent to every webhook that is active
\* and subscribed throughout, unless another request lifts the revocation, the
\* share is purged, or the worker dies.
RevocationReported == missed = {}

\* Whatever was begun comes to rest: requests are answered and senders end,
\* although webhooks and shares change and vanish under them.
ComesToRest ==
  (\E q \in Requests : ~Over(request, q)) \/ threads # {} ~>
    (\A q \in Requests : Over(request, q)) /\ threads = {}
=============================================================================
