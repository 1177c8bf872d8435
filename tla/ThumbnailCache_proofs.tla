------------------------ MODULE ThumbnailCache_proofs ------------------------
(***************************************************************************)
(* Theorems about ThumbnailCache, for every bound, time to live, set of    *)
(* threads, files and pictures.                                            *)
(*                                                                         *)
(* Two layers.  What an entry says of itself makes hits right and fresh;   *)
(* that the entries stand in the order of their last uses makes evictions  *)
(* right, by counting the keys used since.                                 *)
(***************************************************************************)
EXTENDS ThumbnailCache, FiniteSetTheorems, TLAPS

\* Sequence t is s with its c-th element taken out, if it has one, and x put at
\* the end.
Moved(s, c, x, t) ==
  /\ c \in 1 .. Len(s) + 1
  /\ Len(t) = IF c <= Len(s) THEN Len(s) ELSE Len(s) + 1
  /\ \A j \in 1 .. Len(t) - 1 : t[j] = s[IF j < c THEN j ELSE j + 1]
  /\ t[Len(t)] = x

LEMMA WithoutTyped ==
  ASSUME NEW S, NEW s \in Seq(S), NEW c \in DOMAIN s
  PROVE  /\ Without(s, c) \in Seq(S)
         /\ Len(Without(s, c)) = Len(s) - 1
         /\ \A j \in 1 .. Len(s) - 1 : Without(s, c)[j] = s[IF j < c THEN j ELSE j + 1]
<1>1. \A j \in 1 .. Len(s) - 1 : Without(s, c)[j] = s[IF j < c THEN j ELSE j + 1]
  BY DEF Without
<1>2. \A j \in 1 .. Len(s) - 1 : s[IF j < c THEN j ELSE j + 1] \in S
  OBVIOUS
<1>3. Without(s, c) = [j \in 1 .. Len(s) - 1 |-> Without(s, c)[j]]
  BY DEF Without
<1>4. Len(s) - 1 \in Nat
  OBVIOUS
<1>5. Without(s, c) \in [1 .. Len(s) - 1 -> S]
  BY <1>1, <1>2, <1>3
<1> HIDE DEF Without
<1>6. Without(s, c) \in Seq(S) /\ Len(Without(s, c)) = Len(s) - 1
  BY <1>4, <1>5
<1> QED BY <1>1, <1>6

LEMMA AtEnd ==
  ASSUME NEW S, NEW s \in Seq(S), NEW x \in S
  PROVE  /\ \A c \in DOMAIN s : /\ Append(Without(s, c), x) \in Seq(S)
                                /\ Moved(s, c, x, Append(Without(s, c), x))
         /\ Append(s, x) \in Seq(S)
         /\ Moved(s, Len(s) + 1, x, Append(s, x))
<1>1. ASSUME NEW c \in DOMAIN s
      PROVE  /\ Append(Without(s, c), x) \in Seq(S)
             /\ Moved(s, c, x, Append(Without(s, c), x))
  <2> DEFINE w == Without(s, c)
  <2>1. /\ w \in Seq(S) /\ Len(w) = Len(s) - 1
        /\ \A j \in 1 .. Len(s) - 1 : w[j] = s[IF j < c THEN j ELSE j + 1]
    BY WithoutTyped
  <2> HIDE DEF w
  <2>2. Append(w, x) \in Seq(S) /\ Moved(s, c, x, Append(w, x))
    BY <2>1 DEF Moved
  <2> QED BY <2>2 DEF w
<1>2. Append(s, x) \in Seq(S) /\ Moved(s, Len(s) + 1, x, Append(s, x))
  BY DEF Moved
<1> QED BY <1>1, <1>2

LEMMA EvictTyped ==
  ASSUME NEW S, NEW s \in Seq(S), Len(s) <= MaxSize + 1
  PROVE  LET d == IF Len(s) > MaxSize THEN 1 ELSE 0
         IN  /\ Evict(s) \in Seq(S)
             /\ Len(Evict(s)) = Len(s) - d
             /\ Len(Evict(s)) <= MaxSize
             /\ \A j \in 1 .. Len(s) - d : Evict(s)[j] = s[j + d]
<1>1. CASE Len(s) > MaxSize
  <2>1. Len(s) = MaxSize + 1
    BY <1>1, ThumbnailAssumption
  <2>2. Evict(s) = SubSeq(s, 2, Len(s))
    BY <2>1, ThumbnailAssumption DEF Evict
  <2> QED BY <2>1, <2>2, ThumbnailAssumption
<1>2. CASE ~(Len(s) > MaxSize)
  BY <1>2, ThumbnailAssumption DEF Evict
<1> QED BY <1>1, <1>2

-----------------------------------------------------------------------------
Distinct(s) == \A i, j \in DOMAIN s : s[i].key = s[j].key => i = j

Sound(e) == e.key = Key(e.picture) /\ e.age = e.since

\* What entries and requests say of themselves.
Entries ==
  /\ \A i \in DOMAIN cache : Sound(cache[i])
  /\ \A t \in Threads : request[t] # None =>
       request[t].picture = request[t].nonce /\ request[t].age <= Ttl

Base == TypeOK /\ Bounded /\ Entries

LEMMA KeyInjective ==
  ASSUME NEW m \in Nonces, NEW n \in Nonces
  PROVE  /\ Key(m) \in Keys
         /\ Key(m) = Key(n) => m = n
BY DEF Key, Keys

LEMMA Found ==
  ASSUME NEW k, Cached(k)
  PROVE  At(k) \in DOMAIN cache /\ cache[At(k)].key = k
BY DEF Cached, At

LEMMA AskedTyped ==
  ASSUME TypeOK, NEW t \in Threads, NEW step, Asking(t, step)
  PROVE  request[t] \in Request /\ request[t].nonce \in Nonces /\ request[t].at = step
BY DEF TypeOK, Asking, Request

LEMMA NoneIsNoRequest ==
  ASSUME NEW j \in Request
  PROVE  j # None
BY ThumbnailAssumption DEF Request

\* The cache after a hit and after a store, before anything is evicted.
LEMMA TouchedCache ==
  ASSUME Base, NEW e, NEW k, Cached(k), e = cache[At(k)]
  PROVE  /\ e \in Entry /\ e.key = k /\ Sound(e)
         /\ Touched(e) \in Seq(Entry)
         /\ Moved(cache, At(k), e, Touched(e))
<1>1. At(k) \in DOMAIN cache /\ cache[At(k)].key = k
  BY Found
<1>2. e \in Entry /\ e.key = k /\ Sound(e)
  BY <1>1 DEF Base, TypeOK, Entries
<1>3. Touched(e) = Append(Without(cache, At(k)), e)
  BY <1>2 DEF Touched
<1>4. cache \in Seq(Entry)
  BY DEF Base, TypeOK
<1> QED BY <1>1, <1>2, <1>3, <1>4, AtEnd

Stored(k, picture) ==
  Append(IF Cached(k) THEN Without(cache, At(k)) ELSE cache,
         [key |-> k, picture |-> picture, age |-> 0, since |-> 0])

LEMMA StoredCache ==
  ASSUME Base, NEW n \in Nonces
  PROVE  LET k == Key(n)
             e == [key |-> k, picture |-> n, age |-> 0, since |-> 0]
         IN  /\ e \in Entry /\ Sound(e)
             /\ Set(k, n) = Evict(Stored(k, n))
             /\ Stored(k, n) \in Seq(Entry)
             /\ Moved(cache, IF Cached(k) THEN At(k) ELSE Len(cache) + 1, e, Stored(k, n))
<1> DEFINE k == Key(n)
           e == [key |-> k, picture |-> n, age |-> 0, since |-> 0]
<1>1. e \in Entry /\ Sound(e)
  BY KeyInjective, ThumbnailAssumption DEF Entry, Sound
<1>2. Set(k, n) = Evict(Stored(k, n))
  BY DEF Set, Stored
<1>3. cache \in Seq(Entry)
  BY DEF Base, TypeOK
<1>4. CASE Cached(k)
  <2>1. At(k) \in DOMAIN cache
    BY <1>4, Found
  <2>2. Stored(k, n) = Append(Without(cache, At(k)), e)
    BY <1>4 DEF Stored
  <2> HIDE DEF e, k
  <2>3. Append(Without(cache, At(k)), e) \in Seq(Entry)
        /\ Moved(cache, At(k), e, Append(Without(cache, At(k)), e))
    BY <1>1, <1>3, <2>1, AtEnd
  <2>4. Stored(k, n) \in Seq(Entry) /\ Moved(cache, At(k), e, Stored(k, n))
    BY <2>2, <2>3
  <2> QED BY <1>1, <1>2, <1>4, <2>4 DEF k, e
<1>5. CASE ~Cached(k)
  <2>2. Stored(k, n) = Append(cache, e)
    BY <1>5 DEF Stored
  <2> HIDE DEF e, k
  <2>3. Append(cache, e) \in Seq(Entry) /\ Moved(cache, Len(cache) + 1, e, Append(cache, e))
    BY <1>1, <1>3, AtEnd
  <2>4. Stored(k, n) \in Seq(Entry) /\ Moved(cache, Len(cache) + 1, e, Stored(k, n))
    BY <2>2, <2>3
  <2> QED BY <1>1, <1>2, <1>5, <2>4 DEF k, e
<1> QED BY <1>4, <1>5

\* A key moved to the end is there once, and all entries stay sound.
LEMMA MovedDistinct ==
  ASSUME Base, NEW c, NEW e, Sound(e), NEW s \in Seq(Entry), Moved(cache, c, e, s),
         IF c <= Len(cache) THEN cache[c].key = e.key ELSE ~Cached(e.key)
  PROVE  /\ Distinct(s)
         /\ Len(s) <= MaxSize + 1
         /\ \A i \in DOMAIN s : Sound(s[i])
<1>t. cache \in Seq(Entry) /\ Len(cache) <= MaxSize /\ MaxSize \in Nat /\ Distinct(cache)
  BY ThumbnailAssumption DEF Base, TypeOK, Bounded, Distinct
<1>s. c \in 1 .. Len(cache) + 1 /\ Len(s) \in 1 .. Len(cache) + 1
  BY <1>t DEF Moved
<1>1. ASSUME NEW i \in 1 .. Len(s) - 1
      PROVE  LET i0 == IF i < c THEN i ELSE i + 1
             IN  i0 \in DOMAIN cache /\ s[i] = cache[i0] /\ i0 # c
  BY <1>t, <1>s DEF Moved
<1>2. \A i \in 1 .. Len(s) - 1 : s[i].key # e.key
  <2> SUFFICES ASSUME NEW i \in 1 .. Len(s) - 1, s[i].key = e.key
               PROVE  FALSE
    OBVIOUS
  <2> DEFINE i0 == IF i < c THEN i ELSE i + 1
  <2>1. i0 \in DOMAIN cache /\ s[i] = cache[i0] /\ i0 # c
    BY <1>1
  <2> HIDE DEF i0
  <2> QED BY <1>t, <1>s, <2>1 DEF Distinct, Cached
<1>3. \A i, j \in 1 .. Len(s) - 1 : s[i].key = s[j].key => i = j
  <2> SUFFICES ASSUME NEW i \in 1 .. Len(s) - 1, NEW j \in 1 .. Len(s) - 1,
                      s[i].key = s[j].key
               PROVE  i = j
    OBVIOUS
  <2> DEFINE i0 == IF i < c THEN i ELSE i + 1
             j0 == IF j < c THEN j ELSE j + 1
  <2>1. i0 \in DOMAIN cache /\ s[i] = cache[i0] /\ j0 \in DOMAIN cache /\ s[j] = cache[j0]
    BY <1>1
  <2>2. i0 = j0 => i = j
    BY <1>s
  <2> HIDE DEF i0, j0
  <2>3. i0 = j0
    BY <1>t, <2>1 DEF Distinct
  <2> QED BY <2>2, <2>3
<1>4. s[Len(s)] = e
  BY DEF Moved
<1>5. \A i \in DOMAIN s : i \in 1 .. Len(s) - 1 \/ i = Len(s)
  BY <1>s
<1>6. \A i \in DOMAIN s : Sound(s[i])
  <2> SUFFICES ASSUME NEW i \in DOMAIN s
               PROVE  Sound(s[i])
    OBVIOUS
  <2>1. CASE i = Len(s)
    BY <1>4, <2>1
  <2>2. CASE i \in 1 .. Len(s) - 1
    BY <1>1, <2>2 DEF Base, Entries
  <2> QED BY <1>5, <2>1, <2>2
<1>7. Distinct(s)
  BY <1>2, <1>3, <1>4, <1>5 DEF Distinct
<1> QED BY <1>t, <1>s, <1>6, <1>7

-----------------------------------------------------------------------------
LEMMA UsedTyped ==
  ASSUME uses \in Seq(Keys), NEW k \in Keys
  PROVE  /\ Used(k) \in Seq(Keys)
         /\ \E c : /\ Moved(uses, c, k, Used(k))
                   /\ c <= Len(uses) => uses[c] = k
                   /\ c > Len(uses) => \A i \in DOMAIN uses : uses[i] # k
<1>1. CASE \E i \in DOMAIN uses : uses[i] = k
  <2> DEFINE c == CHOOSE i \in DOMAIN uses : uses[i] = k
  <2>1. c \in DOMAIN uses /\ uses[c] = k
    BY <1>1
  <2>2. Used(k) = Append(Without(uses, c), k)
    BY <1>1 DEF Used
  <2> HIDE DEF c
  <2>3. Append(Without(uses, c), k) \in Seq(Keys)
        /\ Moved(uses, c, k, Append(Without(uses, c), k))
    BY <2>1, AtEnd
  <2>4. c <= Len(uses)
    BY <2>1
  <2>5. c \in Nat /\ Len(uses) \in Nat /\ ~(c > Len(uses))
    BY <2>1, <2>4
  <2> QED BY <2>1, <2>2, <2>3, <2>5
<1>2. CASE ~\E i \in DOMAIN uses : uses[i] = k
  <2>1. Used(k) = Append(uses, k)
    BY <1>2 DEF Used
  <2>2. Append(uses, k) \in Seq(Keys) /\ Moved(uses, Len(uses) + 1, k, Append(uses, k))
    BY AtEnd
  <2>3. ~(Len(uses) + 1 <= Len(uses))
    OBVIOUS
  <2> QED BY <1>2, <2>1, <2>2, <2>3
<1> QED BY <1>1, <1>2

\* A request that goes on keeps what it says of itself.
LEMMA RequestStep ==
  ASSUME Base, NEW t \in Threads, NEW j,
         request' = [request EXCEPT ![t] = j],
         \/ j = None
         \/ j \in Request /\ j.picture = j.nonce /\ j.age <= Ttl
  PROVE  /\ request' \in [Threads -> Request \cup {None}]
         /\ \A u \in Threads : request'[u] # None =>
              request'[u].picture = request'[u].nonce /\ request'[u].age <= Ttl
<1>1. request \in [Threads -> Request \cup {None}]
  BY DEF Base, TypeOK
<1>2. \A u \in Threads : request'[u] = IF u = t THEN j ELSE request[u]
  BY <1>1
<1>3. \A u \in Threads : request[u] # None =>
        request[u].picture = request[u].nonce /\ request[u].age <= Ttl
  BY DEF Base, Entries
<1> QED BY <1>1, <1>2, <1>3

\* What a request under way holds, and what it becomes.
LEMMA Goes ==
  ASSUME Base, NEW t \in Threads, NEW from, Asking(t, from),
         NEW to \in {"asked", "missed", "rendered", "answered"},
         NEW age \in 0 .. Ttl
  PROVE  LET j == [request[t] EXCEPT !.at = to]
             a == [request[t] EXCEPT !.at = "answered", !.picture = request[t].nonce,
                                     !.age = age]
         IN  /\ j \in Request /\ j.picture = j.nonce /\ j.age <= Ttl
             /\ a \in Request /\ a.picture = a.nonce /\ a.age <= Ttl
<1>1. request[t] \in Request /\ request[t] # None
  BY AskedTyped, NoneIsNoRequest DEF Base
<1>2. request[t].picture = request[t].nonce /\ request[t].age <= Ttl
  BY <1>1 DEF Base, Entries
<1>3. age \in 0 .. Ttl + 1
  BY ThumbnailAssumption
<1>4. request[t].age \in Nat /\ Ttl \in Nat /\ age <= Ttl
  BY <1>1, ThumbnailAssumption DEF Request
<1>5. [request[t] EXCEPT !.at = to] \in Request
  BY <1>1 DEF Request
<1>6. [request[t] EXCEPT !.at = "answered", !.picture = request[t].nonce, !.age = age]
        \in Request
  BY <1>1, <1>3 DEF Request
<1> QED BY <1>1, <1>2, <1>4, <1>5, <1>6 DEF Request

LEMMA BaseInit == Init => Base
<1> SUFFICES ASSUME Init PROVE Base
  OBVIOUS
<1>1. TypeOK
  BY DEF Init, TypeOK
<1>2. Bounded /\ Entries
  BY ThumbnailAssumption DEF Init, Bounded, Entries
<1> QED BY <1>1, <1>2 DEF Base

LEMMA BaseStep == Base /\ [Next]_vars => Base'
<1> SUFFICES ASSUME Base, [Next]_vars PROVE Base'
  OBVIOUS
<1>t. TypeOK /\ Bounded /\ Entries /\ cache \in Seq(Entry) /\ uses \in Seq(Keys)
      /\ request \in [Threads -> Request \cup {None}] /\ Distinct(cache)
      /\ Len(cache) <= MaxSize /\ MaxSize \in Nat \ {0}
      /\ \A i \in DOMAIN cache : Sound(cache[i])
  BY ThumbnailAssumption DEF Base, TypeOK, Bounded, Distinct, Entries
\* the cache and what follows of it
<1>c. ASSUME NEW s \in Seq(Entry), cache' = s, Len(s) <= MaxSize, Distinct(s),
             \A i \in DOMAIN s : Sound(s[i])
      PROVE  /\ cache' \in Seq(Entry) /\ Bounded'
             /\ \A i \in DOMAIN cache' : Sound(cache'[i])
  BY <1>c DEF Bounded, Distinct
<1>u. ASSUME cache' = cache
      PROVE  /\ cache' \in Seq(Entry) /\ Bounded'
             /\ \A i \in DOMAIN cache' : Sound(cache'[i])
  BY <1>t, <1>u DEF Bounded
<1>s. ASSUME NEW t \in Threads, NEW step, Asking(t, step)
      PROVE  Key(request[t].nonce) \in Keys /\ request[t].nonce \in Nonces
  BY <1>t, <1>s, AskedTyped, KeyInjective
<1>o. 0 \in 0 .. Ttl
  BY ThumbnailAssumption
<1>1. ASSUME NEW n \in Nonces, NewVersion(n) \/ Unlink(n)
      PROVE  Base'
  <2>1. UNCHANGED <<cache, request, uses, expired, trashed>>
        /\ drawn' \subseteq Nonces /\ versions' \subseteq Nonces /\ blobs' \subseteq Nonces
    BY <1>t, <1>1 DEF NewVersion, Unlink, TypeOK
  <2> QED BY <1>t, <1>u, <2>1 DEF Base, TypeOK, Entries
<1>2. ASSUME NEW f \in Files, Purge(f) \/ Trash(f)
      PROVE  Base'
  <2>1. UNCHANGED <<cache, request, uses, expired, drawn, blobs>>
        /\ trashed' \subseteq Files /\ versions' \subseteq Nonces
    BY <1>t, <1>2 DEF Purge, Trash, TypeOK
  <2> QED BY <1>t, <1>u, <2>1 DEF Base, TypeOK, Entries
<1>3. ASSUME NEW t \in Threads, NEW n \in Nonces, Ask(t, n)
      PROVE  Base'
  <2> DEFINE j == [at |-> "asked", nonce |-> n, picture |-> n, age |-> 0]
  <2>1. j \in Request /\ j.picture = j.nonce /\ j.age <= Ttl
    BY ThumbnailAssumption DEF Request
  <2>2. request' = [request EXCEPT ![t] = j] /\ UNCHANGED <<files, cache, uses, expired>>
    BY <1>3 DEF Ask
  <2> HIDE DEF j
  <2>3. /\ request' \in [Threads -> Request \cup {None}]
        /\ \A u \in Threads : request'[u] # None =>
             request'[u].picture = request'[u].nonce /\ request'[u].age <= Ttl
    BY <2>1, <2>2, RequestStep
  <2> QED BY <1>t, <1>u, <2>2, <2>3 DEF Base, TypeOK, Entries, files
<1>4. ASSUME NEW t \in Threads, GetHit(t)
      PROVE  Base'
  <2> DEFINE k == Key(request[t].nonce)
             e == cache[At(k)]
             a == [request[t] EXCEPT !.at = "answered", !.picture = request[t].nonce,
                                     !.age = e.since]
  <2>1. /\ Asking(t, "asked") /\ Cached(k) /\ e.age <= Ttl
        /\ cache' = Touched(e) /\ uses' = Used(k) /\ Answer(t, e.picture, e.since)
        /\ UNCHANGED <<files, expired>>
    BY <1>4 DEF GetHit
  <2>2. k \in Keys /\ request[t].nonce \in Nonces
    BY <1>s, <2>1
  <2>3. /\ e \in Entry /\ e.key = k /\ Sound(e) /\ Touched(e) \in Seq(Entry)
        /\ Moved(cache, At(k), e, Touched(e))
    BY <2>1, TouchedCache
  <2>4. At(k) \in DOMAIN cache /\ cache[At(k)].key = k
    BY <2>1, Found
  <2>5. Distinct(Touched(e)) /\ \A i \in DOMAIN Touched(e) : Sound(Touched(e)[i])
    <3> HIDE DEF e
    <3> QED BY <2>3, <2>4, MovedDistinct DEF e
  <2>6. Len(Touched(e)) = Len(cache)
    BY <2>3, <2>4 DEF Moved
  <2>7. /\ cache' \in Seq(Entry) /\ Bounded'
        /\ \A i \in DOMAIN cache' : Sound(cache'[i])
    BY <1>c, <1>t, <2>1, <2>3, <2>5, <2>6
  <2>8. e.picture = request[t].nonce /\ e.since \in 0 .. Ttl
    <3>1. e.picture \in Nonces /\ e.since \in 0 .. Ttl + 1 /\ e.key = Key(e.picture)
          /\ e.age = e.since
      BY <2>3 DEF Sound, Entry
    <3>2. Key(e.picture) = Key(request[t].nonce)
      BY <2>3, <3>1
    <3> HIDE DEF e
    <3>3. e.picture = request[t].nonce
      BY <2>2, <3>1, <3>2, KeyInjective
    <3> QED BY <2>1, <3>1, <3>3, ThumbnailAssumption
  <2>9. a \in Request /\ a.picture = a.nonce /\ a.age <= Ttl
    <3> HIDE DEF e
    <3> QED BY <2>1, <2>8, Goes
  <2>10. request' = [request EXCEPT ![t] = a]
    BY <2>1, <2>8 DEF Answer
  <2>11. /\ request' \in [Threads -> Request \cup {None}]
         /\ \A u \in Threads : request'[u] # None =>
              request'[u].picture = request'[u].nonce /\ request'[u].age <= Ttl
    <3> HIDE DEF a
    <3> QED BY <2>9, <2>10, RequestStep
  <2>12. uses' \in Seq(Keys)
    BY <1>t, <2>1, <2>2, UsedTyped
  <2> QED BY <1>t, <2>1, <2>7, <2>11, <2>12 DEF Base, TypeOK, Entries, files
<1>5. ASSUME NEW t \in Threads, GetExpired(t)
      PROVE  Base'
  <2> DEFINE k == Key(request[t].nonce)
             j == [request[t] EXCEPT !.at = "missed"]
  <2>1. /\ Asking(t, "asked") /\ Cached(k)
        /\ cache' = Without(cache, At(k)) /\ expired' = expired \cup {k}
        /\ Goto(t, "missed") /\ UNCHANGED <<files, uses>>
    BY <1>5 DEF GetExpired
  <2>2. k \in Keys /\ request[t].nonce \in Nonces
    BY <1>s, <2>1
  <2>3. At(k) \in DOMAIN cache
    BY <2>1, Found
  <2>4. /\ cache' \in Seq(Entry) /\ Len(cache') = Len(cache) - 1
        /\ \A i \in 1 .. Len(cache) - 1 :
             cache'[i] = cache[IF i < At(k) THEN i ELSE i + 1]
    BY <1>t, <2>1, <2>3, WithoutTyped
  <2>5. \A i \in DOMAIN cache' :
          /\ (IF i < At(k) THEN i ELSE i + 1) \in DOMAIN cache
          /\ cache'[i] = cache[IF i < At(k) THEN i ELSE i + 1]
    BY <2>3, <2>4
  <2>6. \A i \in DOMAIN cache' : Sound(cache'[i])
    BY <1>t, <2>5
  <2>7. Distinct(cache')
    <3> SUFFICES ASSUME NEW i \in DOMAIN cache', NEW i2 \in DOMAIN cache',
                        cache'[i].key = cache'[i2].key
                 PROVE  i = i2
      BY DEF Distinct
    <3>1. (IF i < At(k) THEN i ELSE i + 1) = (IF i2 < At(k) THEN i2 ELSE i2 + 1)
      BY <1>t, <2>5 DEF Distinct
    <3> QED BY <2>3, <2>4, <3>1
  <2>8. Bounded'
    BY <1>t, <2>4, <2>7 DEF Bounded, Distinct
  <2>9. j \in Request /\ j.picture = j.nonce /\ j.age <= Ttl
    BY <1>o, <2>1, Goes
  <2>10. request' = [request EXCEPT ![t] = j]
    BY <2>1 DEF Goto
  <2>11. /\ request' \in [Threads -> Request \cup {None}]
         /\ \A u \in Threads : request'[u] # None =>
              request'[u].picture = request'[u].nonce /\ request'[u].age <= Ttl
    <3> HIDE DEF j
    <3> QED BY <2>9, <2>10, RequestStep
  <2>12. TypeOK'
    BY <1>t, <2>1, <2>2, <2>4, <2>11 DEF TypeOK, files
  <2> QED BY <2>6, <2>8, <2>11, <2>12 DEF Base, Entries
<1>6. ASSUME NEW t \in Threads, GetMiss(t) \/ Render(t) \/ RenderFails(t)
      PROVE  Base'
  <2>1. UNCHANGED <<files, cache, uses, expired>>
    BY <1>6 DEF GetMiss, Render, RenderFails
  <2>2. \E j : /\ request' = [request EXCEPT ![t] = j]
               /\ \/ j = None
                  \/ j \in Request /\ j.picture = j.nonce /\ j.age <= Ttl
    <3>1. CASE GetMiss(t)
      <4>1. Asking(t, "asked") /\ request' = [request EXCEPT ![t] =
              [request[t] EXCEPT !.at = "missed"]]
        BY <3>1 DEF GetMiss, Goto
      <4> QED BY <1>o, <4>1, Goes
    <3>2. CASE Render(t)
      <4>1. Asking(t, "missed") /\ request' = [request EXCEPT ![t] =
              [request[t] EXCEPT !.at = "rendered"]]
        BY <3>2 DEF Render, Goto
      <4> QED BY <1>o, <4>1, Goes
    <3>3. CASE RenderFails(t)
      BY <3>3 DEF RenderFails
    <3> QED BY <1>6, <3>1, <3>2, <3>3
  <2>3. /\ request' \in [Threads -> Request \cup {None}]
        /\ \A u \in Threads : request'[u] # None =>
             request'[u].picture = request'[u].nonce /\ request'[u].age <= Ttl
    BY <2>2, RequestStep
  <2> QED BY <1>t, <1>u, <2>1, <2>3 DEF Base, TypeOK, Entries, files
<1>7. ASSUME NEW t \in Threads, Store(t)
      PROVE  Base'
  <2> DEFINE n == request[t].nonce
             k == Key(n)
             e == [key |-> k, picture |-> n, age |-> 0, since |-> 0]
             s == Stored(k, n)
             c == IF Cached(k) THEN At(k) ELSE Len(cache) + 1
             a == [request[t] EXCEPT !.at = "answered", !.picture = n, !.age = 0]
  <2>1. /\ Asking(t, "rendered")
        /\ cache' = Set(k, n) /\ uses' = Used(k) /\ Answer(t, n, 0)
        /\ expired' = expired \ {k} /\ UNCHANGED files
    BY <1>7 DEF Store
  <2>2. k \in Keys /\ n \in Nonces
    BY <1>s, <2>1
  <2>3. e \in Entry /\ Sound(e) /\ Set(k, n) = Evict(s) /\ s \in Seq(Entry)
        /\ Moved(cache, c, e, s)
    BY <2>2, StoredCache
  <2>4. IF c <= Len(cache) THEN cache[c].key = e.key ELSE ~Cached(e.key)
    BY <1>t, Found
  <2>5. Distinct(s) /\ Len(s) <= MaxSize + 1 /\ \A i \in DOMAIN s : Sound(s[i])
    <3> HIDE DEF e, c, s
    <3> QED BY <2>3, <2>4, MovedDistinct
  <2> DEFINE d == IF Len(s) > MaxSize THEN 1 ELSE 0
  <2>6. /\ cache' \in Seq(Entry) /\ Len(cache') = Len(s) - d /\ Len(cache') <= MaxSize
        /\ \A i \in 1 .. Len(s) - d : cache'[i] = s[i + d]
    <3> HIDE DEF s
    <3>1. /\ Evict(s) \in Seq(Entry) /\ Len(Evict(s)) = Len(s) - d
          /\ Len(Evict(s)) <= MaxSize
          /\ \A i \in 1 .. Len(s) - d : Evict(s)[i] = s[i + d]
      BY <2>3, <2>5, EvictTyped
    <3> QED BY <2>1, <2>3, <3>1
  <2>7. \A i \in DOMAIN cache' : i + d \in DOMAIN s /\ cache'[i] = s[i + d]
    <3>1. /\ Len(s) \in Nat /\ DOMAIN s = 1 .. Len(s) /\ Len(cache') = Len(s) - d
          /\ DOMAIN cache' = 1 .. Len(cache')
          /\ \A i \in 1 .. Len(s) - d : cache'[i] = s[i + d]
      <4> HIDE DEF s, d
      <4> QED BY <2>3, <2>6
    <3>2. d \in {0, 1}
      OBVIOUS
    <3> HIDE DEF s, d
    <3> QED BY <3>1, <3>2
  <2> HIDE DEF s, d
  <2>8. \A i \in DOMAIN cache' : Sound(cache'[i])
    BY <2>5, <2>7
  <2>9. Distinct(cache')
    <3> SUFFICES ASSUME NEW i \in DOMAIN cache', NEW i2 \in DOMAIN cache',
                        cache'[i].key = cache'[i2].key
                 PROVE  i = i2
      BY DEF Distinct
    <3>1. i + d = i2 + d
      BY <2>5, <2>7 DEF Distinct
    <3>2. d \in {0, 1} /\ i \in Nat /\ i2 \in Nat
      BY <2>6 DEF d
    <3> QED BY <3>1, <3>2
  <2>10. Bounded'
    BY <2>6, <2>9 DEF Bounded, Distinct
  <2>11. a \in Request /\ a.picture = a.nonce /\ a.age <= Ttl
    BY <1>o, <2>1, Goes
  <2>12. request' = [request EXCEPT ![t] = a]
    BY <2>1 DEF Answer
  <2>13. /\ request' \in [Threads -> Request \cup {None}]
         /\ \A u \in Threads : request'[u] # None =>
              request'[u].picture = request'[u].nonce /\ request'[u].age <= Ttl
    <3> HIDE DEF a
    <3> QED BY <2>11, <2>12, RequestStep
  <2>14. uses' \in Seq(Keys)
    BY <1>t, <2>1, <2>2, UsedTyped
  <2> QED BY <1>t, <2>1, <2>6, <2>8, <2>10, <2>13, <2>14 DEF Base, TypeOK, Entries, files
<1>8. CASE Tick
  <2>1. /\ DOMAIN cache' = DOMAIN cache
        /\ \A i \in DOMAIN cache :
             cache'[i] = [cache[i] EXCEPT !.age = Older(@), !.since = Older(@)]
        /\ UNCHANGED <<files, request, uses, expired>>
    BY <1>8 DEF Tick
  <2>2. \A i \in DOMAIN cache :
          cache'[i] \in Entry /\ Sound(cache'[i]) /\ cache'[i].key = cache[i].key
    <3> SUFFICES ASSUME NEW i \in DOMAIN cache
                 PROVE  cache'[i] \in Entry /\ Sound(cache'[i])
                        /\ cache'[i].key = cache[i].key
      OBVIOUS
    <3>1. cache[i] \in Entry /\ Sound(cache[i])
      BY <1>t
    <3>2. Older(cache[i].age) \in 0 .. Ttl + 1
      BY <3>1, ThumbnailAssumption DEF Older, Entry
    <3>3. cache[i].age = cache[i].since /\ cache[i].key = Key(cache[i].picture)
      BY <3>1 DEF Sound
    <3>4. cache'[i] = [cache[i] EXCEPT !.age = Older(cache[i].age),
                                       !.since = Older(cache[i].age)]
      BY <2>1, <3>3
    <3>5. cache'[i] \in Entry /\ cache'[i].key = cache[i].key
          /\ cache'[i].picture = cache[i].picture /\ cache'[i].age = cache'[i].since
      BY <3>1, <3>2, <3>4 DEF Entry
    <3> QED BY <3>3, <3>5 DEF Sound
  <2>3. cache' \in Seq(Entry) /\ Len(cache') = Len(cache)
    <3> DEFINE E(i) == [cache[i] EXCEPT !.age = Older(@), !.since = Older(@)]
    <3>1. cache' = [i \in DOMAIN cache |-> E(i)]
      BY <1>8 DEF Tick
    <3>2. Len(cache) \in Nat /\ DOMAIN cache = 1 .. Len(cache)
      BY <1>t
    <3>3. cache' \in [1 .. Len(cache) -> Entry]
      <4>1. \A i \in 1 .. Len(cache) : E(i) \in Entry
        BY <2>1, <2>2, <3>2
      <4> HIDE DEF E
      <4> QED BY <3>1, <3>2, <4>1
    <3> QED BY <3>2, <3>3
  <2>4. Bounded'
    BY <1>t, <2>1, <2>2, <2>3 DEF Bounded, Distinct
  <2> QED BY <1>t, <2>1, <2>2, <2>3, <2>4 DEF Base, TypeOK, Entries, files
<1>9. CASE Restart
  <2>1. cache' = <<>> /\ uses' = <<>> /\ expired' = {} /\ UNCHANGED files
        /\ request' = [t \in Threads |-> None]
    BY <1>9 DEF Restart
  <2>2. TypeOK'
    BY <1>t, <2>1 DEF TypeOK, files
  <2> QED BY <1>t, <2>1, <2>2 DEF Base, Bounded, Entries
<1>10. CASE UNCHANGED vars
  BY <1>t, <1>u, <1>10 DEF vars, files, Base, TypeOK, Entries
<1> QED
  BY <1>1, <1>2, <1>3, <1>4, <1>5, <1>6, <1>7, <1>8, <1>9, <1>10 DEF Next

\* Every state is well typed.
THEOREM TypeCorrect == Spec => []TypeOK
<1>1. Base => TypeOK
  BY DEF Base
<1> QED BY <1>1, BaseInit, BaseStep, PTL DEF Spec

\* The cache keeps to its bound, with one entry per key.
THEOREM CacheBounded == Spec => []Bounded
<1>1. Base => Bounded
  BY DEF Base
<1> QED BY <1>1, BaseInit, BaseStep, PTL DEF Spec

\* A thumbnail is of the version that was asked for.
THEOREM PicturesMatch == Spec => []PictureMatches
<1>1. Base => PictureMatches
  BY DEF Base, Entries, PictureMatches, Asking
<1> QED BY <1>1, BaseInit, BaseStep, PTL DEF Spec

\* A hit is never older than the time to live.
THEOREM HitsFresh == Spec => []HitsAreFresh
<1>1. Base => HitsAreFresh
  BY DEF Base, Entries, HitsAreFresh, Asking
<1> QED BY <1>1, BaseInit, BaseStep, PTL DEF Spec

-----------------------------------------------------------------------------
\* The entries of s were used, and stand in the order of their last uses in u.
Recency(s, u) ==
  /\ \A p, q \in DOMAIN u : u[p] = u[q] => p = q
  /\ \A i \in DOMAIN s : \E p \in DOMAIN u : u[p] = s[i].key
  /\ \A i, j \in DOMAIN s, p, q \in DOMAIN u :
       i < j /\ u[p] = s[i].key /\ u[q] = s[j].key => p < q

\* After the use of the first of them, the others were used, each once at least.
LEMMA OthersUsedSince ==
  ASSUME NEW s \in Seq(Entry), NEW u \in Seq(Keys), Recency(s, u), Distinct(s),
         Len(s) > 0, NEW p \in DOMAIN u, u[p] = s[1].key
  PROVE  Len(u) - p >= Len(s) - 1
<1> DEFINE A == 2 .. Len(s)
           B == p + 1 .. Len(u)
           f == [j \in A |-> CHOOSE m \in DOMAIN u : u[m] = s[j].key]
<1>1. \A j \in A : f[j] \in DOMAIN u /\ u[f[j]] = s[j].key
  BY DEF Recency
<1>2. \A j \in A : f[j] \in B
  <2> SUFFICES ASSUME NEW j \in A
               PROVE  f[j] \in B
    OBVIOUS
  <2>1. f[j] \in DOMAIN u /\ u[f[j]] = s[j].key
    BY <1>1
  <2> HIDE DEF f
  <2>2. p < f[j]
    <3>1. 1 \in DOMAIN s /\ j \in DOMAIN s /\ 1 < j
      OBVIOUS
    <3> QED BY <2>1, <3>1 DEF Recency
  <2> QED BY <2>1, <2>2
<1>3. \A i, j \in A : f[i] = f[j] => i = j
  <2> SUFFICES ASSUME NEW i \in A, NEW j \in A, f[i] = f[j]
               PROVE  i = j
    OBVIOUS
  <2>1. s[i].key = s[j].key
    BY <1>1
  <2> QED BY <2>1 DEF Distinct
<1>4. f \in [A -> B]
  <2>1. f = [j \in A |-> f[j]]
    OBVIOUS
  <2> HIDE DEF f, A, B
  <2> QED BY <1>2, <2>1
<1>5. f \in Injection(A, B)
  <2> HIDE DEF f, A, B
  <2> QED BY <1>3, <1>4 DEF Injection, IsInjective
<1>6. IsFiniteSet(B) /\ Cardinality(B) = IF p + 1 > Len(u) THEN 0 ELSE Len(u) - p
  <2>1. p + 1 \in Int /\ Len(u) \in Int /\ Len(u) - (p + 1) + 1 = Len(u) - p
    OBVIOUS
  <2> QED BY <2>1, FS_Interval
<1>7. Cardinality(A) = IF 2 > Len(s) THEN 0 ELSE Len(s) - 1
  <2>1. 2 \in Int /\ Len(s) \in Int /\ Len(s) - 2 + 1 = Len(s) - 1
    OBVIOUS
  <2> QED BY <2>1, FS_Interval
<1>8. Cardinality(A) <= Cardinality(B)
  <2> HIDE DEF f, A, B
  <2> QED BY <1>5, <1>6, FS_Injection DEF ExistsInjection
<1>9. p <= Len(u) /\ p \in Nat
  OBVIOUS
<1> HIDE DEF f, A, B
<1> QED BY <1>6, <1>7, <1>8, <1>9

\* What is in s and u after a use of k, which was the m-th of uses.
Follows(s, u, k, m) ==
  /\ Recency(s, u)
  /\ \A p \in 1 .. Len(u) - 1 :
       LET p0 == IF p < m THEN p ELSE p + 1
       IN  /\ p0 \in DOMAIN uses /\ u[p] = uses[p0] /\ u[p] # k
           /\ Len(u) - p >= Len(uses) - p0
  /\ \A i \in DOMAIN cache : cache[i].key # k => \E j \in DOMAIN s : s[j] = cache[i]

\* A use of k: its entry and its key go to the end of both.
LEMMA MovedRecency ==
  ASSUME Base, Recency(cache, uses), NEW k \in Keys,
         NEW c, NEW e, e.key = k, NEW s \in Seq(Entry), Moved(cache, c, e, s),
         IF c <= Len(cache) THEN cache[c].key = k ELSE ~Cached(k),
         NEW m, NEW u \in Seq(Keys), Moved(uses, m, k, u),
         m <= Len(uses) => uses[m] = k,
         m > Len(uses) => \A i \in DOMAIN uses : uses[i] # k
  PROVE  Follows(s, u, k, m)
<1>t. cache \in Seq(Entry) /\ uses \in Seq(Keys) /\ Distinct(cache)
  BY DEF Base, TypeOK, Bounded, Distinct
<1>s. /\ c \in 1 .. Len(cache) + 1 /\ Len(s) \in 1 .. Len(cache) + 1
      /\ m \in 1 .. Len(uses) + 1 /\ Len(u) \in 1 .. Len(uses) + 1
      /\ s[Len(s)].key = k /\ u[Len(u)] = k
  BY <1>t DEF Moved
<1>r. \A p, q \in DOMAIN uses : uses[p] = uses[q] => p = q
  BY DEF Recency
<1>1. ASSUME NEW i \in 1 .. Len(s) - 1
      PROVE  LET i0 == IF i < c THEN i ELSE i + 1
             IN  i0 \in DOMAIN cache /\ s[i] = cache[i0] /\ cache[i0].key # k
  <2> DEFINE i0 == IF i < c THEN i ELSE i + 1
  <2>1. i0 \in DOMAIN cache /\ s[i] = cache[i0] /\ i0 # c
    BY <1>t, <1>s DEF Moved
  <2> HIDE DEF i0
  <2>2. cache[i0].key # k
    BY <1>t, <1>s, <2>1 DEF Distinct, Cached
  <2> QED BY <2>1, <2>2 DEF i0
<1>2. ASSUME NEW p \in 1 .. Len(u) - 1
      PROVE  LET p0 == IF p < m THEN p ELSE p + 1
             IN  /\ p0 \in DOMAIN uses /\ u[p] = uses[p0] /\ u[p] # k
                 /\ Len(u) - p >= Len(uses) - p0
  <2> DEFINE p0 == IF p < m THEN p ELSE p + 1
  <2>1. p0 \in DOMAIN uses /\ u[p] = uses[p0] /\ p0 # m /\ Len(u) - p >= Len(uses) - p0
    <3>1. Len(u) = IF m <= Len(uses) THEN Len(uses) ELSE Len(uses) + 1
      BY DEF Moved
    <3>2. u[p] = uses[p0]
      BY DEF Moved
    <3>3. p \in Nat /\ p >= 1 /\ p <= Len(u) - 1 /\ m \in Nat /\ Len(uses) \in Nat
          /\ m <= Len(uses) + 1 /\ DOMAIN uses = 1 .. Len(uses)
      BY <1>t, <1>s, <3>1
    <3>4. CASE p < m
      BY <3>1, <3>2, <3>3, <3>4
    <3>5. CASE ~(p < m)
      BY <3>1, <3>2, <3>3, <3>5
    <3> QED BY <3>4, <3>5
  <2> HIDE DEF p0
  <2>2. uses[p0] # k
    BY <1>t, <1>s, <1>r, <2>1
  <2> QED BY <2>1, <2>2 DEF p0
<1>3. \A p, q \in DOMAIN u : u[p] = u[q] => p = q
  <2> SUFFICES ASSUME NEW p \in DOMAIN u, NEW q \in DOMAIN u, u[p] = u[q], p # q
               PROVE  FALSE
    OBVIOUS
  <2>1. p \in 1 .. Len(u) - 1 /\ q \in 1 .. Len(u) - 1
    BY <1>s, <1>2
  <2> DEFINE p0 == IF p < m THEN p ELSE p + 1
             q0 == IF q < m THEN q ELSE q + 1
  <2>2. /\ p0 \in DOMAIN uses /\ u[p] = uses[p0]
        /\ q0 \in DOMAIN uses /\ u[q] = uses[q0]
    BY <1>2, <2>1
  <2>3. p0 # q0
    BY <1>s
  <2> HIDE DEF p0, q0
  <2> QED BY <1>r, <2>2, <2>3
<1>4. ASSUME NEW i \in DOMAIN s
      PROVE  \E p \in DOMAIN u : u[p] = s[i].key
  <2>1. CASE i = Len(s)
    <3>1. Len(u) \in DOMAIN u /\ u[Len(u)] = s[i].key
      BY <1>s, <2>1
    <3> QED BY <3>1
  <2>2. CASE i \in 1 .. Len(s) - 1
    <3> DEFINE i0 == IF i < c THEN i ELSE i + 1
    <3>1. i0 \in DOMAIN cache /\ s[i] = cache[i0] /\ cache[i0].key # k
      BY <1>1, <2>2
    <3> HIDE DEF i0
    <3>2. PICK p0 \in DOMAIN uses : uses[p0] = cache[i0].key
      BY <3>1 DEF Recency
    <3>3. p0 # m
      BY <1>t, <1>s, <3>1, <3>2
    <3> DEFINE p == IF p0 < m THEN p0 ELSE p0 - 1
    <3>4. p \in 1 .. Len(u) - 1 /\ (IF p < m THEN p ELSE p + 1) = p0
      <4>1. Len(u) = IF m <= Len(uses) THEN Len(uses) ELSE Len(uses) + 1
        BY DEF Moved
      <4>2. /\ p0 \in Nat /\ p0 >= 1 /\ p0 <= Len(uses) /\ Len(uses) \in Nat
            /\ m \in Nat /\ m >= 1 /\ m <= Len(uses) + 1 /\ p0 # m
        BY <1>t, <1>s, <3>3
      <4>3. CASE p0 < m
        BY <4>1, <4>2, <4>3
      <4>4. CASE ~(p0 < m)
        BY <4>1, <4>2, <4>4
      <4> QED BY <4>3, <4>4
    <3>5. u[p] = uses[p0] /\ p \in DOMAIN u
      <4> HIDE DEF p
      <4> QED BY <1>s, <3>4 DEF Moved
    <3> QED BY <3>1, <3>2, <3>5
  <2> QED BY <1>s, <2>1, <2>2
<1>5. ASSUME NEW i \in DOMAIN s, NEW j \in DOMAIN s, NEW p \in DOMAIN u, NEW q \in DOMAIN u,
             i < j, u[p] = s[i].key, u[q] = s[j].key
      PROVE  p < q
  <2>1. i \in 1 .. Len(s) - 1 /\ (j \in 1 .. Len(s) - 1 \/ j = Len(s))
    BY <1>5
  <2> DEFINE i0 == IF i < c THEN i ELSE i + 1
             p0 == IF p < m THEN p ELSE p + 1
  <2>2. i0 \in DOMAIN cache /\ s[i] = cache[i0] /\ cache[i0].key # k
    BY <1>1, <2>1
  <2>3. p \in 1 .. Len(u) - 1
    BY <1>5, <1>s, <2>2
  <2>4. p0 \in DOMAIN uses /\ u[p] = uses[p0]
    BY <1>2, <2>3
  <2>5. CASE j = Len(s)
    <3>1. q = Len(u)
      BY <1>3, <1>5, <1>s, <2>5
    <3> QED BY <2>3, <3>1
  <2>6. CASE j \in 1 .. Len(s) - 1
    <3> DEFINE j0 == IF j < c THEN j ELSE j + 1
               q0 == IF q < m THEN q ELSE q + 1
    <3>1. j0 \in DOMAIN cache /\ s[j] = cache[j0] /\ cache[j0].key # k
      BY <1>1, <2>6
    <3>2. q \in 1 .. Len(u) - 1
      BY <1>5, <1>s, <3>1
    <3>3. q0 \in DOMAIN uses /\ u[q] = uses[q0]
      BY <1>2, <3>2
    <3>4. i0 < j0
      BY <1>5, <1>s
    <3>5. p0 < q0
      <4> HIDE DEF i0, j0, p0, q0
      <4> QED BY <1>5, <2>2, <2>4, <3>1, <3>3, <3>4 DEF Recency
    <3> QED BY <1>s, <3>5
  <2> QED BY <2>1, <2>5, <2>6
<1>6. ASSUME NEW i \in DOMAIN cache, cache[i].key # k
      PROVE  \E j \in DOMAIN s : s[j] = cache[i]
  <2>1. i # c
    BY <1>t, <1>6
  <2> DEFINE j == IF i < c THEN i ELSE i - 1
  <2>2. j \in 1 .. Len(s) - 1 /\ (IF j < c THEN j ELSE j + 1) = i
    BY <1>t, <1>s, <2>1 DEF Moved
  <2>3. s[j] = cache[i] /\ j \in DOMAIN s
    <3> HIDE DEF j
    <3> QED BY <1>s, <2>2 DEF Moved
  <2> QED BY <2>3
<1>7. Recency(s, u)
  BY <1>3, <1>4, <1>5 DEF Recency
<1> QED BY <1>2, <1>6, <1>7 DEF Follows

Lru == Recency(cache, uses) /\ OnlyLeastRecentEvicted

\* Dropping the first d entries leaves the order as it is.
LEMMA DroppedRecency ==
  ASSUME NEW s \in Seq(Entry), NEW u \in Seq(Keys), Recency(s, u),
         NEW d \in {0, 1}, NEW w \in Seq(Entry),
         \A i \in DOMAIN w : i + d \in DOMAIN s /\ w[i] = s[i + d]
  PROVE  Recency(w, u)
<1>1. \A i \in DOMAIN w : \E p \in DOMAIN u : u[p] = w[i].key
  BY DEF Recency
<1>2. ASSUME NEW i \in DOMAIN w, NEW j \in DOMAIN w, NEW p \in DOMAIN u, NEW q \in DOMAIN u,
             i < j, u[p] = w[i].key, u[q] = w[j].key
      PROVE  p < q
  <2>1. i + d < j + d /\ u[p] = s[i + d].key /\ u[q] = s[j + d].key
        /\ i + d \in DOMAIN s /\ j + d \in DOMAIN s
    BY <1>2
  <2> QED BY <2>1 DEF Recency
<1>3. \A p, q \in DOMAIN u : u[p] = u[q] => p = q
  BY DEF Recency
<1> QED BY <1>1, <1>2, <1>3 DEF Recency

\* A use of k, whatever is evicted for it.
LEMMA LruUse ==
  ASSUME Base, Lru, NEW k \in Keys,
         NEW c, NEW e, e.key = k, NEW s \in Seq(Entry), Moved(cache, c, e, s),
         IF c <= Len(cache) THEN cache[c].key = k ELSE ~Cached(k),
         Distinct(s), Len(s) <= MaxSize + 1,
         uses' = Used(k), cache' = Evict(s),
         expired \subseteq expired' \cup {k}
  PROVE  Lru'
<1>t. cache \in Seq(Entry) /\ uses \in Seq(Keys) /\ MaxSize \in Nat \ {0}
  BY ThumbnailAssumption DEF Base, TypeOK
<1> DEFINE u == Used(k)
           d == IF Len(s) > MaxSize THEN 1 ELSE 0
<1>1. PICK m : /\ Moved(uses, m, k, u)
               /\ m <= Len(uses) => uses[m] = k
               /\ m > Len(uses) => \A i \in DOMAIN uses : uses[i] # k
  BY <1>t, UsedTyped
<1>u. u \in Seq(Keys)
  BY <1>t, UsedTyped
<1> HIDE DEF u
<1>f. Follows(s, u, k, m)
  <2>1. Recency(cache, uses)
    BY DEF Lru
  <2>2. Moved(cache, c, e, s) /\ (IF c <= Len(cache) THEN cache[c].key = k ELSE ~Cached(k))
    OBVIOUS
  <2> QED BY <1>1, <1>u, <2>1, <2>2, MovedRecency
<1>2. /\ Recency(s, u)
      /\ \A p \in 1 .. Len(u) - 1 :
           LET p0 == IF p < m THEN p ELSE p + 1
           IN  /\ p0 \in DOMAIN uses /\ u[p] = uses[p0] /\ u[p] # k
               /\ Len(u) - p >= Len(uses) - p0
      /\ \A i \in DOMAIN cache : cache[i].key # k =>
           \E j \in DOMAIN s : s[j] = cache[i]
  BY <1>f DEF Follows
<1>3. /\ cache' \in Seq(Entry) /\ Len(cache') = Len(s) - d
      /\ \A i \in 1 .. Len(s) - d : cache'[i] = s[i + d]
  BY EvictTyped
<1>4. d \in {0, 1} /\ (d = 1 => Len(s) = MaxSize + 1) /\ Len(s) \in Nat /\ Len(s) >= 1
  BY <1>t DEF Moved
<1> HIDE DEF d
<1>5. \A i \in DOMAIN cache' : i + d \in DOMAIN s /\ cache'[i] = s[i + d]
  BY <1>3, <1>4
<1>6. Recency(cache', uses')
  BY <1>2, <1>3, <1>4, <1>5, <1>u, DroppedRecency DEF u
<1>7. \A j \in DOMAIN s : (j > d => \E i \in DOMAIN cache' : cache'[i] = s[j])
  <2> SUFFICES ASSUME NEW j \in DOMAIN s, j > d
               PROVE  \E i \in DOMAIN cache' : cache'[i] = s[j]
    OBVIOUS
  <2>1. j - d \in 1 .. Len(s) - d /\ (j - d) + d = j
    BY <1>4
  <2>2. cache'[j - d] = s[j] /\ j - d \in DOMAIN cache'
    BY <1>3, <2>1
  <2> QED BY <2>2
<1>8. Len(u) \in Nat /\ Len(u) >= 1 /\ u[Len(u)] = k
  BY <1>1, <1>t, <1>u DEF Moved
<1>9. ASSUME NEW p \in DOMAIN u
      PROVE  \/ \E i \in DOMAIN cache' : cache'[i].key = u[p]
             \/ u[p] \in expired'
             \/ Len(u) - p >= MaxSize
  <2>1. CASE p = Len(u)
    <3>1. s[Len(s)] = e /\ Len(s) \in DOMAIN s /\ Len(s) > d
      BY <1>4, <1>t DEF Moved
    <3>2. PICK i \in DOMAIN cache' : cache'[i] = s[Len(s)]
      BY <1>7, <3>1
    <3> QED BY <1>8, <2>1, <3>1, <3>2
  <2>2. CASE p # Len(u)
    <3> DEFINE p0 == IF p < m THEN p ELSE p + 1
    <3>0. p \in 1 .. Len(u) - 1
      BY <1>u, <1>8, <2>2
    <3>1. /\ p0 \in DOMAIN uses /\ u[p] = uses[p0] /\ u[p] # k
          /\ Len(u) - p >= Len(uses) - p0
      BY <1>2, <3>0
    <3> HIDE DEF p0
    <3>2. Cached(uses[p0]) \/ uses[p0] \in expired \/ Len(uses) - p0 >= MaxSize
      BY <3>1 DEF Lru, OnlyLeastRecentEvicted
    <3>3. CASE uses[p0] \in expired
      BY <3>1, <3>3
    <3>4. CASE Len(uses) - p0 >= MaxSize
      BY <1>t, <1>8, <3>0, <3>1, <3>4
    <3>5. CASE Cached(uses[p0])
      <4>1. PICK i \in DOMAIN cache : cache[i].key = uses[p0]
        BY <3>5 DEF Cached
      <4>2. PICK j \in DOMAIN s : s[j] = cache[i]
        BY <1>2, <3>1, <4>1
      <4>3. CASE j > d
        BY <1>7, <3>1, <4>1, <4>2, <4>3
      <4>4. CASE ~(j > d)
        <5>1. d = 1 /\ j = 1 /\ Len(s) = MaxSize + 1
          BY <1>4, <4>4
        <5>2. Len(u) - p >= Len(s) - 1
          BY <1>2, <1>4, <1>u, <3>1, <4>1, <4>2, <5>1, OthersUsedSince
        <5> QED BY <1>t, <5>1, <5>2
      <4> QED BY <4>3, <4>4
    <3> QED BY <3>2, <3>3, <3>4, <3>5
  <2> QED BY <2>1, <2>2
<1>10. OnlyLeastRecentEvicted'
  BY <1>9 DEF OnlyLeastRecentEvicted, Cached, u
<1> QED BY <1>6, <1>10 DEF Lru

LEMMA LruStep == Base /\ Lru /\ [Next]_vars => Lru'
<1> SUFFICES ASSUME Base, Lru, [Next]_vars PROVE Lru'
  OBVIOUS
<1>t. TypeOK /\ cache \in Seq(Entry) /\ uses \in Seq(Keys) /\ Distinct(cache)
      /\ Len(cache) <= MaxSize /\ MaxSize \in Nat \ {0}
  BY ThumbnailAssumption DEF Base, TypeOK, Bounded, Distinct
<1>u. UNCHANGED <<cache, uses, expired>> => Lru'
  BY DEF Lru, OnlyLeastRecentEvicted, Cached
<1>1. ASSUME NEW t \in Threads, GetHit(t)
      PROVE  Lru'
  <2> DEFINE k == Key(request[t].nonce)
             e == cache[At(k)]
             s == Touched(e)
  <2>1. /\ Asking(t, "asked") /\ Cached(k)
        /\ cache' = s /\ uses' = Used(k) /\ expired' = expired
    BY <1>1 DEF GetHit
  <2>2. request[t].nonce \in Nonces
    BY <1>t, <2>1, AskedTyped
  <2>3. k \in Keys
    BY <2>2, KeyInjective
  <2>4. At(k) \in DOMAIN cache /\ cache[At(k)].key = k
    BY <2>1, Found
  <2> HIDE DEF k
  <2>5. e.key = k /\ Sound(e) /\ s \in Seq(Entry) /\ Moved(cache, At(k), e, s)
    BY <2>1, TouchedCache
  <2>6. Len(s) = Len(cache) /\ At(k) <= Len(cache)
    BY <1>t, <2>4, <2>5 DEF Moved
  <2> HIDE DEF s, e
  <2>7. Distinct(s)
    BY <2>4, <2>5, <2>6, MovedDistinct
  <2>8. cache' = Evict(s) /\ Len(s) <= MaxSize + 1
    BY <1>t, <2>1, <2>6 DEF Evict
  <2> QED BY <2>1, <2>3, <2>4, <2>5, <2>6, <2>7, <2>8, LruUse
<1>2. ASSUME NEW t \in Threads, Store(t)
      PROVE  Lru'
  <2> DEFINE n == request[t].nonce
             k == Key(n)
             e == [key |-> k, picture |-> n, age |-> 0, since |-> 0]
             s == Stored(k, n)
             c == IF Cached(k) THEN At(k) ELSE Len(cache) + 1
  <2>1. /\ Asking(t, "rendered")
        /\ cache' = Set(k, n) /\ uses' = Used(k) /\ expired' = expired \ {k}
    BY <1>2 DEF Store
  <2>2. n \in Nonces
    BY <1>t, <2>1, AskedTyped
  <2>3. k \in Keys
    BY <2>2, KeyInjective
  <2>4. Sound(e) /\ Set(k, n) = Evict(s) /\ s \in Seq(Entry) /\ Moved(cache, c, e, s)
    BY <2>2, StoredCache
  <2>5. IF c <= Len(cache) THEN cache[c].key = k ELSE ~Cached(k)
    BY <1>t, Found
  <2>6. e.key = k
    OBVIOUS
  <2>7. Distinct(s) /\ Len(s) <= MaxSize + 1
    <3> HIDE DEF e, c, s
    <3> QED BY <2>4, <2>5, <2>6, MovedDistinct
  <2> HIDE DEF e, c, s, k
  <2> QED BY <2>1, <2>3, <2>4, <2>5, <2>6, <2>7, LruUse
<1>3. ASSUME NEW t \in Threads, GetExpired(t)
      PROVE  Lru'
  <2> DEFINE k == Key(request[t].nonce)
             c == At(k)
  <2>1. Cached(k) /\ cache' = Without(cache, c) /\ expired' = expired \cup {k} /\ uses' = uses
    BY <1>3 DEF GetExpired
  <2>2. c \in DOMAIN cache /\ cache[c].key = k
    BY <2>1, Found
  <2> HIDE DEF k, c
  <2>3. /\ cache' \in Seq(Entry) /\ Len(cache') = Len(cache) - 1
        /\ \A i \in 1 .. Len(cache) - 1 : cache'[i] = cache[IF i < c THEN i ELSE i + 1]
    BY <1>t, <2>1, <2>2, WithoutTyped
  <2>4. \A i \in DOMAIN cache' :
          /\ (IF i < c THEN i ELSE i + 1) \in DOMAIN cache
          /\ cache'[i] = cache[IF i < c THEN i ELSE i + 1]
    BY <2>2, <2>3
  <2>5. ASSUME NEW i \in DOMAIN cache', NEW j \in DOMAIN cache',
               NEW p \in DOMAIN uses, NEW q \in DOMAIN uses,
               i < j, uses[p] = cache'[i].key, uses[q] = cache'[j].key
        PROVE  p < q
    <3> DEFINE i0 == IF i < c THEN i ELSE i + 1
               j0 == IF j < c THEN j ELSE j + 1
    <3>1. i0 < j0
      BY <2>2, <2>3, <2>5
    <3>2. i0 \in DOMAIN cache /\ cache'[i] = cache[i0] /\ j0 \in DOMAIN cache
          /\ cache'[j] = cache[j0]
      BY <2>4
    <3> HIDE DEF i0, j0
    <3> QED BY <2>5, <3>1, <3>2 DEF Lru, Recency
  <2>6. \A i \in DOMAIN cache' : \E p \in DOMAIN uses : uses[p] = cache'[i].key
    BY <2>4 DEF Lru, Recency
  <2>7. Recency(cache', uses')
    BY <2>1, <2>5, <2>6 DEF Lru, Recency
  <2>8. ASSUME NEW i \in DOMAIN cache, i # c
        PROVE  \E j \in DOMAIN cache' : cache'[j] = cache[i]
    <3> DEFINE j == IF i < c THEN i ELSE i - 1
    <3>1. j \in DOMAIN cache' /\ (IF j < c THEN j ELSE j + 1) = i
      BY <2>2, <2>3, <2>8
    <3> HIDE DEF j
    <3> QED BY <2>4, <3>1
  <2>9. OnlyLeastRecentEvicted'
    <3> SUFFICES ASSUME NEW p \in DOMAIN uses
                 PROVE  \/ \E j \in DOMAIN cache' : cache'[j].key = uses[p]
                        \/ uses[p] \in expired'
                        \/ Len(uses) - p >= MaxSize
      BY <2>1 DEF OnlyLeastRecentEvicted, Cached
    <3>1. Cached(uses[p]) \/ uses[p] \in expired \/ Len(uses) - p >= MaxSize
      BY DEF Lru, OnlyLeastRecentEvicted
    <3>2. CASE Cached(uses[p]) /\ uses[p] # k
      <4>1. PICK i \in DOMAIN cache : cache[i].key = uses[p]
        BY <3>2 DEF Cached
      <4>2. i # c
        BY <2>2, <3>2, <4>1
      <4> QED BY <2>8, <4>1, <4>2
    <3> QED BY <2>1, <3>1, <3>2
  <2> QED BY <2>7, <2>9 DEF Lru
<1>4. CASE Tick
  <2>1. /\ DOMAIN cache' = DOMAIN cache
        /\ \A i \in DOMAIN cache : cache'[i].key = cache[i].key
        /\ UNCHANGED <<uses, expired>>
    <3>1. \A i \in DOMAIN cache : cache[i] \in Entry
      BY <1>t
    <3> QED BY <1>4, <3>1 DEF Tick, Entry
  <2>2. Recency(cache', uses')
    BY <2>1 DEF Lru, Recency
  <2>3. OnlyLeastRecentEvicted'
    BY <2>1 DEF Lru, OnlyLeastRecentEvicted, Cached
  <2> QED BY <2>2, <2>3 DEF Lru
<1>5. CASE Restart
  BY <1>5 DEF Restart, Lru, Recency, OnlyLeastRecentEvicted
<1>6. CASE UNCHANGED <<cache, uses, expired>>
  BY <1>u, <1>6
<1> QED
  BY <1>1, <1>2, <1>3, <1>4, <1>5, <1>6
  DEF Next, vars, NewVersion, Unlink, Purge, Trash, Ask, GetMiss, Render, RenderFails

\* The cache keeps to its bound, and a key leaves it by age or because MaxSize
\* others were used since.
THEOREM EvictionsRight == Spec => []LeastRecentlyUsed
<1> DEFINE Inv == Base /\ Lru
<1>1. Init => Inv
  <2>1. Init => Lru
    BY DEF Init, Lru, Recency, OnlyLeastRecentEvicted
  <2> QED BY <2>1, BaseInit
<1>2. Inv /\ [Next]_vars => Inv'
  BY BaseStep, LruStep
<1>3. Inv => LeastRecentlyUsed
  BY DEF Base, Lru, LeastRecentlyUsed
<1> QED BY <1>1, <1>2, <1>3, PTL DEF Spec
=============================================================================
