---------------------------- MODULE ThumbnailCache ----------------------------
(***************************************************************************)
(* The in-process cache of thumbnails (app/files/thumbnail.py) and the     *)
(* endpoint that fills it (get_file_thumbnail in app/files/routes.py).     *)
(*                                                                         *)
(* Each method of the cache holds its lock, so it is one step; a request   *)
(* is not, and several threads may miss the same key and store it.  The    *)
(* OrderedDict is the sequence of its entries, least recently used first.  *)
(* A picture is identified by the nonce its file was decrypted with; who   *)
(* may ask for it is ShareGate's subject.                                  *)
(***************************************************************************)
EXTENDS Integers, Sequences

CONSTANTS
  Files,
  Nonces,    \* one per encryption, so one per version
  FileOf,    \* the file each of them belongs to
  Threads,
  MaxSize,   \* max_size
  Ttl,       \* ttl_seconds, in ticks of the clock
  None

ASSUME ThumbnailAssumption ==
  /\ FileOf \in [Nonces -> Files]
  /\ MaxSize \in Nat \ {0}
  /\ Ttl \in Nat
  /\ None \notin [at : {"asked", "missed", "rendered", "answered"},
                  nonce : Nonces, picture : Nonces, age : 0 .. Ttl + 1]

VARIABLES
  drawn,    \* nonces ever drawn
  versions, \* those of the versions in the database
  trashed,  \* files in the trash
  blobs,    \* nonces whose ciphertext is on the disk
  cache,    \* the OrderedDict
  request,  \* local variables of the last request of each thread
  uses,     \* history: the keys ever used, the last used last
  expired   \* history: keys dropped for their age since they were last stored

files == <<drawn, versions, trashed, blobs>>

vars == <<drawn, versions, trashed, blobs, cache, request, uses, expired>>

-----------------------------------------------------------------------------
\* mutant: one key per file
FileKey(n) == <<FileOf[n], 0>>

Key(n) == <<FileOf[n], n>>

Keys == {Key(n) : n \in Nonces}

\* .age is what created_at says; .since is history, the ticks since the picture
\* was stored
Entry == [key : Keys, picture : Nonces, age : 0 .. Ttl + 1, since : 0 .. Ttl + 1]

Request ==
  [at : {"asked", "missed", "rendered", "answered"}, nonce : Nonces,
   picture : Nonces, age : 0 .. Ttl + 1]

Older(a) == IF a > Ttl THEN a ELSE a + 1

Cached(k) == \E i \in DOMAIN cache : cache[i].key = k

At(k) == CHOOSE i \in DOMAIN cache : cache[i].key = k

\* del
Without(s, i) ==
  [j \in 1 .. Len(s) - 1 |-> IF j < i THEN s[j] ELSE s[j + 1]]

\* popitem(last=False) while there are too many
Evict(s) ==
  IF Len(s) > MaxSize THEN SubSeq(s, Len(s) - MaxSize + 1, Len(s)) ELSE s

Used(k) ==
  Append(IF \E i \in DOMAIN uses : uses[i] = k
         THEN Without(uses, CHOOSE i \in DOMAIN uses : uses[i] = k) ELSE uses, k)

Init ==
  /\ drawn = {} /\ versions = {} /\ trashed = {} /\ blobs = {}
  /\ cache = <<>>
  /\ request = [t \in Threads |-> None]
  /\ uses = <<>>
  /\ expired = {}

(************************* the file store around ***************************)
\* A first or a further version is committed.
NewVersion(n) ==
  /\ n \notin drawn
  /\ drawn' = drawn \cup {n}
  /\ versions' = versions \cup {n}
  /\ blobs' = blobs \cup {n}
  /\ UNCHANGED <<trashed, cache, request, uses, expired>>

HasRow(f) == \E n \in versions : FileOf[n] = f

Trash(f) ==
  /\ HasRow(f)
  /\ trashed' = IF f \in trashed THEN trashed \ {f} ELSE trashed \cup {f}
  /\ UNCHANGED <<drawn, versions, blobs, cache, request, uses, expired>>

\* A purge unlinks the blobs first and deletes the rows when they are gone.
Unlink(n) ==
  /\ n \in blobs
  /\ blobs' = blobs \ {n}
  /\ UNCHANGED <<drawn, versions, trashed, cache, request, uses, expired>>

Purge(f) ==
  /\ HasRow(f)
  /\ \A n \in blobs : FileOf[n] # f
  /\ versions' = {n \in versions : FileOf[n] # f}
  /\ trashed' = trashed \ {f}
  /\ UNCHANGED <<drawn, blobs, cache, request, uses, expired>>

(******************** GET /api/files/<id>/thumbnail ************************)
\* The row is there and not in the trash; the nonce is that of the row, or of
\* the version a share is pinned to.
Ask(t, n) ==
  /\ request[t] # None => request[t].at = "answered"
  /\ n \in versions /\ FileOf[n] \notin trashed
  /\ request' = [request EXCEPT ![t] =
                   [at |-> "asked", nonce |-> n, picture |-> n, age |-> 0]]
  /\ UNCHANGED <<files, cache, uses, expired>>

Asking(t, step) == request[t] # None /\ request[t].at = step

Goto(t, step) == request' = [request EXCEPT ![t].at = step]

Answer(t, picture, age) ==
  request' = [request EXCEPT ![t].at = "answered", ![t].picture = picture,
                             ![t].age = age]

\* mutants of a hit: the entry stays where it is; its time starts again
InPlace(e) == cache
Renewed(e) == Append(Without(cache, At(e.key)), [e EXCEPT !.age = 0])

\* move_to_end
Touched(e) == Append(Without(cache, At(e.key)), e)

GetHit(t) ==
  LET k == Key(request[t].nonce)
      e == cache[At(k)]
  IN  /\ Asking(t, "asked")
      /\ Cached(k)
      /\ e.age <= Ttl
      /\ cache' = Touched(e)
      /\ uses' = Used(k)
      /\ Answer(t, e.picture, e.since)
      /\ UNCHANGED <<files, expired>>

GetExpired(t) ==
  LET k == Key(request[t].nonce)
  IN  /\ Asking(t, "asked")
      /\ Cached(k)
      /\ cache[At(k)].age > Ttl
      /\ cache' = Without(cache, At(k))
      /\ expired' = expired \cup {k}
      /\ Goto(t, "missed")
      /\ UNCHANGED <<files, uses>>

GetMiss(t) ==
  /\ Asking(t, "asked")
  /\ ~Cached(Key(request[t].nonce))
  /\ Goto(t, "missed")
  /\ UNCHANGED <<files, cache, uses, expired>>

\* Read, decrypt and shrink.
Render(t) ==
  /\ Asking(t, "missed")
  /\ request[t].nonce \in blobs
  /\ Goto(t, "rendered")
  /\ UNCHANGED <<files, cache, uses, expired>>

\* 404, 500 or 400
RenderFails(t) ==
  /\ Asking(t, "missed")
  /\ request' = [request EXCEPT ![t] = None]
  /\ UNCHANGED <<files, cache, uses, expired>>

Set(k, picture) ==
  LET others == IF Cached(k) THEN Without(cache, At(k)) ELSE cache
  IN  Evict(Append(others,
        [key |-> k, picture |-> picture, age |-> 0, since |-> 0]))

Store(t) ==
  LET k == Key(request[t].nonce)
  IN  /\ Asking(t, "rendered")
      /\ cache' = Set(k, request[t].nonce)
      /\ uses' = Used(k)
      /\ expired' = expired \ {k}
      /\ Answer(t, request[t].nonce, 0)
      /\ UNCHANGED files

-----------------------------------------------------------------------------
Tick ==
  /\ cache' = [i \in DOMAIN cache |-> [cache[i] EXCEPT !.age = Older(@),
                                                      !.since = Older(@)]]
  /\ UNCHANGED <<files, request, uses, expired>>

\* The worker is replaced: the cache is the process's own.
Restart ==
  /\ cache' = <<>>
  /\ uses' = <<>>
  /\ expired' = {}
  /\ request' = [t \in Threads |-> None]
  /\ UNCHANGED files

Next ==
  \/ \E n \in Nonces : NewVersion(n) \/ Unlink(n)
  \/ \E f \in Files : Purge(f) \/ Trash(f)
  \/ \E t \in Threads :
       \/ \E n \in Nonces : Ask(t, n)
       \/ GetHit(t) \/ GetExpired(t) \/ GetMiss(t)
       \/ Render(t) \/ RenderFails(t) \/ Store(t)
  \/ Tick \/ Restart

Spec == Init /\ [][Next]_vars

-----------------------------------------------------------------------------
TypeOK ==
  /\ drawn \subseteq Nonces /\ versions \subseteq Nonces /\ blobs \subseteq Nonces
  /\ trashed \subseteq Files
  /\ cache \in Seq(Entry)
  /\ request \in [Threads -> Request \cup {None}]
  /\ uses \in Seq(Keys)
  /\ expired \subseteq Keys

\* However many threads store at once, overwrite each other's entry or find one
\* expired, the cache keeps to its bound and has one entry per key.
Bounded ==
  /\ Len(cache) <= MaxSize
  /\ \A i, j \in DOMAIN cache : cache[i].key = cache[j].key => i = j

\* A thumbnail is of the very version that was asked for, although the file may
\* have got further versions, another thread may have stored the entry, and the
\* key outlives the file.
PictureMatches ==
  \A t \in Threads : Asking(t, "answered") => request[t].picture = request[t].nonce

\* A hit is never older than the time to live, however often it is used.
HitsAreFresh ==
  \A t \in Threads : Asking(t, "answered") => request[t].age <= Ttl

\* A key leaves the cache by age or because max_size other keys were used since
\* its own last use, and for no other reason.
OnlyLeastRecentEvicted ==
  \A i \in DOMAIN uses :
    Cached(uses[i]) \/ uses[i] \in expired \/ Len(uses) - i >= MaxSize

\* It is a cache of the least recently used: it lets go of enough, and of nothing
\* else, whatever threads store over each other's entries.
LeastRecentlyUsed == Bounded /\ OnlyLeastRecentEvicted
=============================================================================
