-------------------------- MODULE MiddlewareProofs --------------------------
(***************************************************************************)
(* Proofs about what a request passes: the middleware chain with the       *)
(* response cache, the rate limiters and the deduplication.                *)
(*                                                                         *)
(* RequestPath: an entry of the cache shows what its page shows now, or    *)
(* was read no later than the page changed, and so does every answer on    *)
(* its way to the cache; a success is one by the verdict on its request,   *)
(* unless it came from the cache.                                          *)
(* RateLimits: a window began with a call and holds the later ones; the    *)
(* calls before it are bounded like those in it.                           *)
(* Dedup: nobody works with the mutex of a request that has not registered *)
(* yet.                                                                    *)
(***************************************************************************)
EXTENDS RequestPath, RateLimits, Dedup, FiniteSetTheorems, TLAPS

-----------------------------------------------------------------------------
(* The middleware chain and the response cache.  What an entry shows of a   *)
(* page is what the page shows now, unless the page was changed after the   *)
(* entry was read; the same goes for an answer on its way to the cache.     *)

\* x, a record with an answer of a page, is what the page shows, or older than its change.
Recent(x, p) == x.content = version[p] \/ x.read <= changed[p]

\* An entry of the cache.
EntryFine(p, e) ==
    /\ ~e.packed
    /\ e # NoEntry => e.code = 200 /\ p \notin Private
    /\ e # NoEntry /\ p \in Pages => Recent(e, p)

\* A request whose answer has not passed the cache yet.
Fetched(g) ==
    /\ g.step \in {"idle", "looking", "handler", "written"} => ~g.hit /\ ~g.packed
    /\ g.step \in {"idle", "looking", "handler"} => g.code = 0
    /\ g.step = "written" /\ g.code \in 200..299 =>
          /\ g.code = 200
          /\ g.path \in Private => g.caller # Absent
          /\ g.path \in Pages => Recent(g, g.path)
    /\ ~g.hit /\ g.code = 200 => Verdict(g) = 200

\* A request that was answered from the cache.
FromCache(g) ==
    g.hit => /\ g.caller = Absent /\ g.path \notin Private
             /\ g.at <= time /\ g.at <= g.stored + Ttl
             /\ g.path \in Pages /\ g.read = g.stored /\ g.content # version[g.path]
                    => g.at <= changed[g.path] + Ttl

GetFine(g) == Fetched(g) /\ FromCache(g) /\ (g.packed => g.gzip) /\ g.read <= time

PathInv ==
    /\ PathTypeOK
    /\ IsFiniteSet(Stored)
    /\ \A p \in Paths : EntryFine(p, entries[p])
    /\ \A c \in Gets : GetFine(get[c])

LEMMA PathInvMeans == PathInv => CacheIsTransparent
<1> SUFFICES ASSUME PathInv PROVE CacheIsTransparent
  OBVIOUS
<1>1. PathTypeOK /\ StoredIsAnonymous
  BY DEF PathInv, StoredIsAnonymous, EntryFine, GetFine, FromCache, Identified, Stored
<1>2. SuccessIsEarned
  BY DEF PathInv, SuccessIsEarned, GetFine, Fetched, FromCache, Verdict
<1>3. OutdatedForTtl /\ PackedIsWanted
  BY CacheAssumption DEF PathInv, PathTypeOK, OutdatedForTtl, PackedIsWanted, GetFine, FromCache, GetType
<1> QED
  BY <1>1, <1>2, <1>3 DEF CacheIsTransparent

LEMMA PathInitInv == PathInit => PathInv
<1> SUFFICES ASSUME PathInit PROVE PathInv
  OBVIOUS
<1>1. Stored = {} /\ IsFiniteSet(Stored) /\ Cardinality(Stored) = 0
  BY FS_EmptySet DEF PathInit, Stored
<1>2. NoEntry \in EntryType /\ Fresh \in GetType
  BY CacheAssumption, ClockAssumption
     DEF NoEntry, Fresh, EntryType, GetType, Codes, Contents, Paths
<1>3. PathTypeOK
  BY <1>1, <1>2, CacheAssumption, ClockAssumption DEF PathInit, PathTypeOK, Fresh
<1>4. \A p \in Paths : EntryFine(p, entries[p])
  BY DEF PathInit, EntryFine, NoEntry
<1>5. \A c \in Gets : GetFine(get[c])
  BY DEF PathInit, GetFine, Fetched, FromCache, Fresh, Verdict
<1> QED
  BY <1>1, <1>3, <1>4, <1>5 DEF PathInv

\* A request goes on to g, and nothing else changes.
Moves(c, g) == g \in GetType /\ g.caller \in {Absent, c} /\ GetFine(g) /\ Goes(c, g)

LEMMA MovesKeeps ==
    ASSUME PathInv, NEW c \in Gets, NEW g, Moves(c, g)
    PROVE  PathInv'
<1>1. \A d \in Gets : get'[d] = IF d = c THEN g ELSE get[d]
  BY DEF Moves, Goes, PathInv, PathTypeOK
<1>2. get' \in [Gets -> GetType]
  BY DEF Moves, Goes, PathInv, PathTypeOK
<1>3. Stored' = Stored
  BY DEF Stored, Moves, Goes
<1>4. PathTypeOK'
  <2>1. \A d \in Gets : get'[d].caller \in {Absent, d}
    BY <1>1 DEF Moves, PathInv, PathTypeOK
  <2> QED
    BY <1>2, <1>3, <2>1 DEF Moves, Goes, PathInv, PathTypeOK
<1>5. \A d \in Gets : GetFine(get[d])'
  <2>1. GetFine(g)'
    BY DEF Moves, Goes, GetFine, Fetched, FromCache, Recent, Verdict
  <2>2. ASSUME NEW d \in Gets, d # c PROVE GetFine(get[d])'
    <3>1. get'[d] = get[d] /\ GetFine(get[d])
      BY <1>1, <2>2 DEF PathInv
    <3> QED
      BY <3>1 DEF Moves, Goes, GetFine, Fetched, FromCache, Recent, Verdict
  <2>3. get'[c] = g
    BY <1>1
  <2> QED
    BY <2>1, <2>2, <2>3 DEF GetFine, Fetched, FromCache, Recent, Verdict
<1>6. \A p \in Paths : EntryFine(p, entries[p])'
  BY DEF Moves, Goes, PathInv, EntryFine, Recent
<1> QED
  BY <1>3, <1>4, <1>5, <1>6 DEF PathInv

\* What every step of a request starts from.
LEMMA GetTyped ==
    ASSUME PathInv, NEW c \in Gets
    PROVE  /\ get[c] \in GetType /\ get[c].caller \in {Absent, c} /\ GetFine(get[c])
           /\ time \in 0..MaxTime
BY DEF PathInv, PathTypeOK

Steps == {"idle", "looking", "handler", "written", "flush", "done"}

\* What a step makes of a request: it ends or fails, or is answered.
Ended(g, s, n) == [g EXCEPT !.step = s, !.code = n]
Answered(g, t, x, n) == [g EXCEPT !.step = "written", !.read = t, !.content = x, !.code = n]

LEMMA EndedType ==
    ASSUME NEW g \in GetType, NEW s \in Steps, NEW n \in Codes
    PROVE  LET h == Ended(g, s, n)
           IN  /\ h \in GetType /\ h.step = s /\ h.code = n
               /\ h.caller = g.caller /\ h.hit = g.hit /\ h.packed = g.packed /\ h.gzip = g.gzip
               /\ h.read = g.read /\ h.at = g.at /\ h.stored = g.stored
<1>1. Ended(g, s, n) \in GetType
  BY DEF Ended, GetType, Steps
<1> QED
  BY <1>1 DEF Ended, GetType

LEMMA AnsweredType ==
    ASSUME NEW g \in GetType, NEW t \in 0..MaxTime, NEW x \in Contents, NEW n \in Codes
    PROVE  LET h == Answered(g, t, x, n)
           IN  /\ h \in GetType /\ h.step = "written" /\ h.code = n /\ h.content = x
               /\ h.path = g.path /\ h.caller = g.caller /\ h.hit = g.hit /\ h.packed = g.packed
               /\ h.read = t /\ h.inside = g.inside
BY DEF Answered, GetType

\* Turned away, or on the way to the handler.
LEMMA EarlyMoves ==
    ASSUME PathInv, NEW c \in Gets,
           \/ Version(c) \/ BodySizeLimit(c) \/ Miss(c) \/ FailHandler(c) \/ Panic(c)
           \/ \E path \in Paths, caller \in {Absent, c}, gzip, inside \in BOOLEAN :
                 Arrive(c, path, caller, inside, gzip)
    PROVE  \E g \in GetType : Moves(c, g)
<1>0. get[c] \in GetType /\ get[c].caller \in {Absent, c} /\ GetFine(get[c])
  BY GetTyped
<1>1. CASE Version(c)
  <2>1. 400 \in Codes /\ "done" \in Steps /\ get[c].step = "idle"
    BY <1>1 DEF Version, Codes, Steps
  <2> DEFINE g == Ended(get[c], "done", 400)
  <2>2. Goes(c, g)
    BY <1>1 DEF Version, Ended
  <2>3. /\ g \in GetType /\ g.step = "done" /\ g.code = 400 /\ g.caller = get[c].caller
        /\ g.hit = get[c].hit /\ g.packed = get[c].packed /\ g.gzip = get[c].gzip
        /\ g.read = get[c].read /\ g.at = get[c].at /\ g.stored = get[c].stored
    BY <1>0, <2>1, EndedType
  <2> HIDE DEF g
  <2>4. GetFine(g)
    BY <1>0, <2>1, <2>3 DEF GetFine, Fetched, FromCache
  <2> QED
    BY <1>0, <2>2, <2>3, <2>4 DEF Moves
<1>2. CASE BodySizeLimit(c)
  <2>1. 413 \in Codes /\ "done" \in Steps /\ get[c].step = "idle"
    BY <1>2 DEF BodySizeLimit, Codes, Steps
  <2> DEFINE g == Ended(get[c], "done", 413)
  <2>2. Goes(c, g)
    BY <1>2 DEF BodySizeLimit, Ended
  <2>3. /\ g \in GetType /\ g.step = "done" /\ g.code = 413 /\ g.caller = get[c].caller
        /\ g.hit = get[c].hit /\ g.packed = get[c].packed /\ g.gzip = get[c].gzip
        /\ g.read = get[c].read /\ g.at = get[c].at /\ g.stored = get[c].stored
    BY <1>0, <2>1, EndedType
  <2> HIDE DEF g
  <2>4. GetFine(g)
    BY <1>0, <2>1, <2>3 DEF GetFine, Fetched, FromCache
  <2> QED
    BY <1>0, <2>2, <2>3, <2>4 DEF Moves
<1>3. CASE FailHandler(c)
  <2>1. 500 \in Codes /\ "written" \in Steps /\ get[c].step = "handler"
    BY <1>3 DEF FailHandler, Codes, Steps
  <2> DEFINE g == Ended(get[c], "written", 500)
  <2>2. Goes(c, g)
    BY <1>3 DEF FailHandler, Ended
  <2>3. /\ g \in GetType /\ g.step = "written" /\ g.code = 500 /\ g.caller = get[c].caller
        /\ g.hit = get[c].hit /\ g.packed = get[c].packed /\ g.gzip = get[c].gzip
        /\ g.read = get[c].read /\ g.at = get[c].at /\ g.stored = get[c].stored
    BY <1>0, <2>1, EndedType
  <2> HIDE DEF g
  <2>4. GetFine(g)
    BY <1>0, <2>1, <2>3 DEF GetFine, Fetched, FromCache
  <2> QED
    BY <1>0, <2>2, <2>3, <2>4 DEF Moves
<1>4. CASE Panic(c)
  <2>1. 500 \in Codes /\ "done" \in Steps /\ get[c].step = "handler"
    BY <1>4 DEF Panic, Codes, Steps
  <2> DEFINE g == Ended(get[c], "done", 500)
  <2>2. Goes(c, g)
    BY <1>4 DEF Panic, Ended
  <2>3. /\ g \in GetType /\ g.step = "done" /\ g.code = 500 /\ g.caller = get[c].caller
        /\ g.hit = get[c].hit /\ g.packed = get[c].packed /\ g.gzip = get[c].gzip
        /\ g.read = get[c].read /\ g.at = get[c].at /\ g.stored = get[c].stored
    BY <1>0, <2>1, EndedType
  <2> HIDE DEF g
  <2>4. GetFine(g)
    BY <1>0, <2>1, <2>3 DEF GetFine, Fetched, FromCache
  <2> QED
    BY <1>0, <2>2, <2>3, <2>4 DEF Moves
<1>5. CASE Miss(c)
  <2> DEFINE g == [get[c] EXCEPT !.step = "handler"]
  <2>1. Goes(c, g) /\ get[c].step = "looking"
    BY <1>5 DEF Miss
  <2>2. g \in GetType
    BY <1>0 DEF GetType
  <2>3. /\ g.step = "handler" /\ g.caller = get[c].caller /\ g.path = get[c].path
        /\ g.hit = get[c].hit /\ g.packed = get[c].packed /\ g.gzip = get[c].gzip
        /\ g.read = get[c].read /\ g.code = get[c].code /\ g.inside = get[c].inside
        /\ g.at = get[c].at /\ g.stored = get[c].stored
    BY <1>0 DEF GetType
  <2> HIDE DEF g
  <2>4. GetFine(g)
    BY <1>0, <2>1, <2>3 DEF GetFine, Fetched, FromCache, Verdict
  <2> QED
    BY <1>0, <2>1, <2>2, <2>3, <2>4 DEF Moves
<1>6. ASSUME NEW path \in Paths, NEW caller \in {Absent, c}, NEW gzip \in BOOLEAN,
             NEW inside \in BOOLEAN, Arrive(c, path, caller, inside, gzip)
      PROVE  \E g \in GetType : Moves(c, g)
  <2> DEFINE g == [get[c] EXCEPT !.step = "looking", !.path = path, !.caller = caller,
                                 !.inside = inside, !.gzip = gzip]
  <2>1. Goes(c, g) /\ get[c].step = "idle"
    BY <1>6 DEF Arrive
  <2>2. /\ g \in GetType /\ g.step = "looking" /\ g.caller = caller /\ g.code = get[c].code
        /\ g.hit = get[c].hit /\ g.packed = get[c].packed /\ g.read = get[c].read
    <3>1. path \in Paths /\ caller \in Gets \union {Absent} /\ gzip \in BOOLEAN /\ inside \in BOOLEAN
      BY <1>6
    <3>2. g \in GetType
      BY <1>0, <3>1 DEF GetType
    <3>3. /\ g.step = "looking" /\ g.caller = caller /\ g.code = get[c].code
          /\ g.hit = get[c].hit /\ g.packed = get[c].packed /\ g.read = get[c].read
      BY <1>0 DEF GetType
    <3> QED
      BY <3>2, <3>3
  <2> HIDE DEF g
  <2>3. GetFine(g)
    BY <1>0, <2>1, <2>2 DEF GetFine, Fetched, FromCache
  <2> QED
    BY <2>1, <2>2, <2>3 DEF Moves
<1> QED
  BY <1>1, <1>2, <1>3, <1>4, <1>5, <1>6

\* The handlers answer with what they read.
LEMMA HandlerMoves ==
    ASSUME PathInv, NEW c \in Gets, Probe(c) \/ Serve(c)
    PROVE  \E g \in GetType : Moves(c, g)
<1>0. /\ get[c] \in GetType /\ get[c].caller \in {Absent, c} /\ GetFine(get[c])
      /\ time \in 0..MaxTime
  BY GetTyped
<1>1. ASSUME NEW n \in Codes, NEW x \in Contents, NEW t \in 0..MaxTime, t <= time,
             get[c].step = "handler", Goes(c, Answered(get[c], t, x, n)),
             n \in 200..299 => n = 200 /\ Verdict(get[c]) = 200,
             get[c].path \in Pages => x = version[get[c].path]
      PROVE  \E g \in GetType : Moves(c, g)
  <2> DEFINE g == Answered(get[c], t, x, n)
  <2>1. /\ g \in GetType /\ g.step = "written" /\ g.code = n /\ g.content = x
        /\ g.path = get[c].path /\ g.caller = get[c].caller /\ g.inside = get[c].inside
        /\ g.hit = get[c].hit /\ g.packed = get[c].packed /\ g.read = t
    BY <1>0, AnsweredType
  <2>2. Goes(c, g)
    BY <1>1
  <2> HIDE DEF g
  <2>3. GetFine(g)
    BY <1>0, <1>1, <2>1 DEF GetFine, Fetched, FromCache, Recent, Verdict
  <2> QED
    BY <1>0, <2>1, <2>2, <2>3 DEF Moves
<1>2. CASE Probe(c)
  <2>1. PICK n \in {200, 503} : Goes(c, Answered(get[c], time, Ready, n))
    BY <1>2 DEF Probe, Answered
  <2>2. n \in Codes /\ Ready \in Contents
    BY DEF Codes, Contents
  <2>3. /\ get[c].path \notin Pages /\ get[c].path \notin Private /\ get[c].path \notin Internal
        /\ get[c].step = "handler"
    BY <1>2, PathsAssumption DEF Probe
  <2>4. n \in 200..299 => n = 200 /\ Verdict(get[c]) = 200
    BY <2>3 DEF Verdict
  <2>5. time <= time
    BY <1>0
  <2> QED
    BY <1>0, <1>1, <2>1, <2>2, <2>3, <2>4, <2>5
<1>3. CASE Serve(c)
  <2> DEFINE n == Verdict(get[c])
             x == IF get[c].path \in Pages THEN version[get[c].path] ELSE 0
             t == IF get[c].path \in Pages THEN time ELSE get[c].read
  <2>1. n \in Codes /\ (n \in 200..299 => n = 200 /\ Verdict(get[c]) = 200)
    BY DEF Codes, Verdict
  <2>2. x \in Contents /\ (get[c].path \in Pages => x = version[get[c].path])
    BY ClockAssumption DEF Contents, PathInv, PathTypeOK
  <2>3. /\ get[c].step = "handler"
        /\ Goes(c, Answered(get[c], t, x, n))
    BY <1>3 DEF Serve, Answered
  <2>4. t \in 0..MaxTime /\ t <= time
    BY <1>0 DEF GetFine, GetType
  <2> HIDE DEF n, x, t
  <2> QED
    BY <1>1, <2>1, <2>2, <2>3, <2>4
<1> QED
  BY <1>2, <1>3

\* What the cache tells a request, and what leaves the compression.
Told(g, e, t, s) ==
    [g EXCEPT !.step = "flush", !.code = e.code, !.content = e.content, !.packed = e.packed,
              !.read = e.read, !.hit = TRUE, !.stored = s, !.at = t]
Packed(g, b) == [g EXCEPT !.step = "done", !.packed = b]

LEMMA ToldType ==
    ASSUME NEW g \in GetType, NEW e \in EntryType, NEW t \in 0..MaxTime,
           NEW s \in 0..MaxTime
    PROVE  LET h == Told(g, e, t, s)
           IN  /\ h \in GetType /\ h.step = "flush" /\ h.content = e.content
               /\ h.packed = e.packed /\ h.read = e.read /\ h.hit = TRUE
               /\ h.stored = s /\ h.at = t
               /\ h.path = g.path /\ h.caller = g.caller
BY DEF Told, GetType, EntryType

LEMMA PackedType ==
    ASSUME NEW g \in GetType, NEW b \in BOOLEAN
    PROVE  LET h == Packed(g, b)
           IN  /\ h \in GetType /\ h.step = "done" /\ h.packed = b
               /\ h.caller = g.caller /\ h.gzip = g.gzip /\ h.hit = g.hit /\ h.path = g.path
               /\ h.content = g.content /\ h.read = g.read /\ h.stored = g.stored /\ h.at = g.at
               /\ h.code = g.code /\ h.inside = g.inside
BY DEF Packed, GetType

\* The answers of the cache, and all answers on their way out.
LEMMA HitMoves ==
    ASSUME PathInv, NEW c \in Gets, Hit(c)
    PROVE  \E g \in GetType : Moves(c, g)
<1>0. /\ get[c] \in GetType /\ get[c].caller \in {Absent, c} /\ GetFine(get[c])
      /\ time \in 0..MaxTime
  BY GetTyped
<1> DEFINE p == get[c].path
           e == entries[p]
           g == Told(get[c], e, time, e.expires - Ttl)
<1>1. Goes(c, g) /\ get[c].caller = Absent /\ e # NoEntry /\ time <= e.expires
  BY DEF Hit, Get, Identified, Told
<1>2. p \in Paths
  BY <1>0 DEF GetType
<1>3. /\ e \in EntryType /\ EntryFine(p, e)
      /\ e.expires \in (e.read + Ttl)..(time + Ttl)
  BY <1>1, <1>2 DEF PathInv, PathTypeOK, Stored
<1>4. e.read \in Nat /\ e.expires \in Nat /\ e.packed \in BOOLEAN
  BY <1>3, ClockAssumption, CacheAssumption DEF EntryType
<1>5. e.expires - Ttl \in 0..MaxTime
  BY <1>0, <1>3, <1>4, ClockAssumption, CacheAssumption
<1> HIDE DEF e
<1>6. /\ g \in GetType /\ g.step = "flush" /\ g.content = e.content
      /\ g.packed = e.packed /\ g.read = e.read /\ g.hit = TRUE
      /\ g.stored = e.expires - Ttl /\ g.at = time
      /\ g.path = p /\ g.caller = get[c].caller
  <2>1. g = Told(get[c], e, time, e.expires - Ttl) /\ p = get[c].path
    OBVIOUS
  <2>2. PICK x \in GetType, y \in EntryType, s \in 0..MaxTime :
            x = get[c] /\ y = e /\ s = e.expires - Ttl
    BY <1>0, <1>3, <1>5
  <2>3. g = Told(x, y, time, s) /\ p = x.path
    BY <2>1, <2>2
  <2> HIDE DEF g, p
  <2>4. g \in GetType
    BY <1>0, <2>2, <2>3, ToldType
  <2>5. /\ g.step = "flush" /\ g.content = y.content /\ g.packed = y.packed /\ g.read = y.read
        /\ g.hit = TRUE /\ g.stored = s /\ g.at = time /\ g.path = x.path /\ g.caller = x.caller
    BY <2>2, <2>3 DEF Told, GetType
  <2> QED
    BY <2>2, <2>3, <2>4, <2>5
<1> HIDE DEF g
<1>7. Fetched(g)
  BY <1>6 DEF Fetched
<1>8. FromCache(g)
  <2>1. /\ g.caller = Absent /\ g.path \notin Private /\ g.at <= time
        /\ g.at <= g.stored + Ttl
    BY <1>0, <1>1, <1>3, <1>4, <1>6, ClockAssumption, CacheAssumption DEF EntryFine
  <2>2. ASSUME p \in Pages, g.read = g.stored, g.content # version[p]
        PROVE  g.at <= changed[p] + Ttl
    <3>1. changed[p] \in Nat
      BY <2>2, ClockAssumption DEF PathInv, PathTypeOK
    <3>2. e.read <= changed[p]
      BY <1>1, <1>3, <1>6, <2>2 DEF EntryFine, Recent
    <3>3. e.expires = e.read + Ttl
      BY <1>4, <1>6, <2>2, CacheAssumption
    <3> QED
      BY <1>0, <1>1, <1>4, <1>6, <3>1, <3>2, <3>3, CacheAssumption
  <2> QED
    BY <1>6, <2>1, <2>2 DEF FromCache
<1>9. ~g.packed
  BY <1>3, <1>6 DEF EntryFine
<1>10. g.read <= time
  BY <1>0, <1>3, <1>4, <1>6, CacheAssumption
<1> QED
  BY <1>0, <1>1, <1>6, <1>7, <1>8, <1>9, <1>10 DEF Moves, GetFine

LEMMA FlushMoves ==
    ASSUME PathInv, NEW c \in Gets, Flush(c)
    PROVE  \E g \in GetType : Moves(c, g)
<1>0. get[c] \in GetType /\ get[c].caller \in {Absent, c} /\ GetFine(get[c])
  BY GetTyped
<1>1. get[c].packed \in BOOLEAN /\ get[c].gzip \in BOOLEAN
  BY <1>0 DEF GetType
<1>2. PICK b \in BOOLEAN : (b => get[c].gzip) /\ Goes(c, Packed(get[c], b))
  <2>1. PICK packed \in {FALSE, get[c].gzip} :
            Goes(c, [get[c] EXCEPT !.step = "done", !.packed = packed \/ get[c].packed])
    BY DEF Flush
  <2>2. (packed \/ get[c].packed) \in BOOLEAN
    OBVIOUS
  <2>3. packed \/ get[c].packed => get[c].gzip
    BY <1>0, <1>1, <2>1, Zenon DEF GetFine
  <2>4. Goes(c, Packed(get[c], packed \/ get[c].packed))
    BY <2>1 DEF Packed
  <2> QED
    BY <2>2, <2>3, <2>4
<1> DEFINE g == Packed(get[c], b)
<1>3. /\ g \in GetType /\ g.step = "done" /\ g.packed = b
      /\ g.caller = get[c].caller /\ g.gzip = get[c].gzip /\ g.hit = get[c].hit
      /\ g.path = get[c].path /\ g.content = get[c].content /\ g.read = get[c].read
      /\ g.stored = get[c].stored /\ g.at = get[c].at
      /\ g.code = get[c].code /\ g.inside = get[c].inside
  BY <1>0, <1>2, PackedType
<1> HIDE DEF g
<1>4. Fetched(g)
  BY <1>0, <1>3 DEF Fetched, GetFine, Verdict
<1>5. FromCache(g)
  BY <1>0, <1>3 DEF FromCache, GetFine
<1>6. g.packed => g.gzip
  BY <1>2, <1>3
<1>7. Goes(c, g)
  BY <1>2 DEF g
<1>8. g.read <= time
  BY <1>0, <1>3 DEF GetFine
<1> QED
  BY <1>0, <1>3, <1>4, <1>5, <1>6, <1>7, <1>8 DEF Moves, GetFine

-----------------------------------------------------------------------------
(* The cache is filled.                                                     *)

\* Sets that take up one more element, or one for another.
LEMMA OneMore ==
    ASSUME NEW S, IsFiniteSet(S), NEW x
    PROVE  IsFiniteSet(S \union {x}) /\ Cardinality(S \union {x}) <= Cardinality(S) + 1
<1>1. Cardinality(S) \in Nat
  BY FS_CardinalityType
<1> QED
  BY <1>1, FS_AddElement

LEMMA OneInOneOut ==
    ASSUME NEW S, IsFiniteSet(S), NEW x, NEW y \in S
    PROVE  /\ IsFiniteSet((S \ {y}) \union {x})
           /\ Cardinality((S \ {y}) \union {x}) <= Cardinality(S)
<1>1. Cardinality(S) \in Nat
  BY FS_CardinalityType
<1>2. IsFiniteSet(S \ {y}) /\ Cardinality(S \ {y}) = Cardinality(S) - 1
  BY FS_RemoveElement
<1>3. /\ IsFiniteSet((S \ {y}) \union {x})
      /\ Cardinality((S \ {y}) \union {x}) <= Cardinality(S \ {y}) + 1
  BY <1>2, OneMore
<1>4. Cardinality((S \ {y}) \union {x}) \in Nat
  BY <1>3, FS_CardinalityType
<1> QED
  BY <1>1, <1>2, <1>3, <1>4

\* What the entry is made of.
LEMMA NewEntryType ==
    ASSUME PathInv, NEW c \in Gets
    PROVE  LET e == NewEntry(c)
           IN  /\ e \in EntryType /\ e.code = get[c].code /\ e.content = get[c].content
               /\ e.read = get[c].read /\ e.expires = time + Ttl /\ e.packed = get[c].packed
BY GetTyped, CacheAssumption, ClockAssumption DEF NewEntry, EntryType, GetType

LEMMA StoreKeeps ==
    ASSUME PathInv, NEW c \in Gets, Store(c)
    PROVE  PathInv'
<1>0. /\ get[c] \in GetType /\ get[c].caller \in {Absent, c} /\ GetFine(get[c])
      /\ time \in 0..MaxTime
  BY GetTyped
<1>1. PICK g \in GetType :
          /\ g.step = "flush" /\ g.caller = get[c].caller /\ g.hit = get[c].hit
          /\ g.packed = get[c].packed /\ g.gzip = get[c].gzip /\ g.read = get[c].read
          /\ g.code = get[c].code /\ Verdict(g) = Verdict(get[c])
          /\ get' = [get EXCEPT ![c] = g]
  <2> DEFINE g == [get[c] EXCEPT !.step = "flush"]
  <2>1. get' = [get EXCEPT ![c] = g]
    BY DEF Store, PathInv, PathTypeOK
  <2>2. g \in GetType
    BY <1>0 DEF GetType
  <2>3. /\ g.step = "flush" /\ g.caller = get[c].caller /\ g.hit = get[c].hit
        /\ g.packed = get[c].packed /\ g.gzip = get[c].gzip /\ g.read = get[c].read
        /\ g.code = get[c].code /\ Verdict(g) = Verdict(get[c])
    BY <1>0 DEF GetType, Verdict
  <2> HIDE DEF g
  <2> QED
    BY <2>1, <2>2, <2>3
<1>2. get[c].step = "written" /\ UNCHANGED <<time, version, changed>>
  BY DEF Store
<1>3. ~get[c].hit /\ ~get[c].packed
  BY <1>0, <1>2 DEF GetFine, Fetched
<1>4. /\ \A d \in Gets : get'[d] = IF d = c THEN g ELSE get[d]
      /\ get' \in [Gets -> GetType]
  BY <1>1 DEF PathInv, PathTypeOK
<1>5. \A d \in Gets : GetFine(get[d])' /\ get'[d].caller \in {Absent, d}
  <2>1. ASSUME NEW d \in Gets, d # c PROVE GetFine(get[d])' /\ get'[d].caller \in {Absent, d}
    <3>1. get'[d] = get[d] /\ GetFine(get[d]) /\ get[d].caller \in {Absent, d}
      BY <1>4, <2>1 DEF PathInv, PathTypeOK
    <3> QED
      BY <1>2, <3>1 DEF GetFine, Fetched, FromCache, Recent, Verdict
  <2>2. GetFine(get[c])' /\ get'[c].caller \in {Absent, c}
    <3>1. get'[c] = g /\ g.read <= time
      BY <1>0, <1>1, <1>4 DEF GetFine
    <3> QED
      BY <1>0, <1>1, <1>2, <1>3, <3>1 DEF GetFine, Fetched, FromCache, Recent, Verdict
  <2> QED
    BY <2>1, <2>2
<1>6. CASE UNCHANGED entries
  <2>1. Stored' = Stored
    BY <1>6 DEF Stored
  <2>2. PathTypeOK'
    BY <1>2, <1>4, <1>5, <1>6, <2>1 DEF PathInv, PathTypeOK
  <2>3. \A q \in Paths : EntryFine(q, entries[q])'
    BY <1>2, <1>6 DEF PathInv, EntryFine, Recent
  <2> QED
    BY <1>5, <2>1, <2>2, <2>3 DEF PathInv
<1>7. CASE Cacheable(c)
  <2>0. PICK p \in Paths : p = get[c].path
    BY <1>0 DEF GetType
  <2>1. PICK e \in EntryType :
            /\ e = NewEntry(c) /\ e.code = get[c].code /\ e.content = get[c].content
            /\ e.read = get[c].read /\ e.expires = time + Ttl /\ e.packed = get[c].packed
    BY NewEntryType
  <2>2. e.code = 200 /\ p \notin Private /\ (p \in Pages => Recent(e, p)) /\ ~e.packed
    BY <1>0, <1>2, <1>3, <1>7, <2>0, <2>1 DEF Cacheable, Identified, GetFine, Fetched, Recent
  <2>3. EntryFine(p, e) /\ e.expires \in (e.read + Ttl)..(time + Ttl)
    <3>1. e.read \in Nat /\ e.read <= time
      BY <1>0, <2>1, ClockAssumption DEF GetFine, EntryType
    <3> QED
      BY <1>0, <2>1, <2>2, <3>1, CacheAssumption DEF EntryFine
  <2>4. PICK gone \in SUBSET Stored :
            /\ \A q \in Paths : entries'[q] = IF q = p THEN e ELSE IF q \in gone THEN NoEntry ELSE entries[q]
            /\ entries' \in [Paths -> EntryType]
            /\ IF Cardinality(Stored) < MaxEntries THEN gone = {} ELSE \E q \in Stored : gone = {q}
    <3>1. entries \in [Paths -> EntryType] /\ NoEntry \in EntryType
      BY CacheAssumption, ClockAssumption
         DEF PathInv, PathTypeOK, NoEntry, EntryType, Codes, Contents
    <3>2. SetEntry(c)
      BY <1>7 DEF Store
    <3>3. CASE Cardinality(Stored) < MaxEntries
      <4>1. entries' = [entries EXCEPT ![p] = e]
        BY <2>0, <2>1, <3>2, <3>3 DEF SetEntry
      <4> QED
        BY <3>1, <3>3, <4>1
    <3>4. CASE ~(Cardinality(Stored) < MaxEntries)
      <4>1. PICK q \in Oldest : entries' = [entries EXCEPT ![q] = NoEntry, ![p] = e]
        BY <2>0, <2>1, <3>2, <3>4 DEF SetEntry
      <4>2. q \in Stored /\ q \in Paths
        BY DEF Oldest, Stored
      <4> QED
        BY <3>1, <3>4, <4>1, <4>2
    <3> QED
      BY <3>3, <3>4
  <2>5. Stored' \subseteq (Stored \ gone) \union {p}
    BY <2>4 DEF Stored
  <2>6. IsFiniteSet(Stored)' /\ Cardinality(Stored') <= MaxEntries
    <3>1. IsFiniteSet(Stored) /\ Cardinality(Stored) \in Nat /\ Cardinality(Stored) <= MaxEntries
      BY FS_CardinalityType DEF PathInv, PathTypeOK
    <3>2. CASE gone = {}
      <4>1. IsFiniteSet(Stored \union {p}) /\ Cardinality(Stored \union {p}) <= Cardinality(Stored) + 1
        BY <3>1, OneMore
      <4>2. IsFiniteSet(Stored') /\ Cardinality(Stored') <= Cardinality(Stored \union {p})
        BY <2>5, <3>2, <4>1, FS_Subset
      <4>3. Cardinality(Stored) < MaxEntries
        BY <2>4, <3>2
      <4> QED
        BY <3>1, <4>1, <4>2, <4>3, FS_CardinalityType, CacheAssumption
    <3>3. ASSUME NEW q \in Stored, gone = {q} PROVE IsFiniteSet(Stored)' /\ Cardinality(Stored') <= MaxEntries
      <4>1. /\ IsFiniteSet((Stored \ {q}) \union {p})
            /\ Cardinality((Stored \ {q}) \union {p}) <= Cardinality(Stored)
        BY <3>1, OneInOneOut
      <4>2. IsFiniteSet(Stored') /\ Cardinality(Stored') <= Cardinality((Stored \ {q}) \union {p})
        BY <2>5, <3>3, <4>1, FS_Subset
      <4> QED
        BY <3>1, <4>1, <4>2, FS_CardinalityType, CacheAssumption
    <3> QED
      BY <2>4, <3>2, <3>3
  <2>7. ASSUME NEW q \in Paths
        PROVE  /\ EntryFine(q, entries[q])'
               /\ q \in Stored' => entries'[q].expires \in (entries'[q].read + Ttl)..(time' + Ttl)
    <3>1. CASE q = p
      BY <1>2, <2>3, <2>4, <3>1 DEF EntryFine, Recent
    <3>2. CASE q # p /\ q \in gone
      <4>1. entries'[q] = NoEntry
        BY <2>4, <3>2
      <4> QED
        BY <4>1 DEF EntryFine, NoEntry, Stored
    <3>3. CASE q # p /\ q \notin gone
      <4>1. entries'[q] = entries[q] /\ EntryFine(q, entries[q])
        BY <2>4, <3>3 DEF PathInv
      <4>2. q \in Stored' => q \in Stored
        BY <4>1 DEF Stored
      <4> QED
        BY <1>2, <4>1, <4>2 DEF EntryFine, Recent, PathInv, PathTypeOK
    <3> QED
      BY <3>1, <3>2, <3>3
  <2>8. PathTypeOK'
    <3>1. Stored' \subseteq Paths
      BY DEF Stored
    <3> QED
      BY <1>2, <1>4, <1>5, <2>4, <2>6, <2>7, <3>1 DEF PathInv, PathTypeOK
  <2> QED
    BY <1>5, <2>6, <2>7, <2>8 DEF PathInv
<1> QED
  BY <1>6, <1>7 DEF Store

\* The clock, the probes and the pages.
LEMMA WorldKeeps ==
    ASSUME PathInv, Later \/ (\E p \in Pages : Change(p))
    PROVE  PathInv'
<1>1. /\ UNCHANGED <<entries, get>> /\ Stored' = Stored
      /\ time' \in 0..MaxTime /\ time <= time'
  <2>1. UNCHANGED <<entries, get>>
    BY DEF Later, Change
  <2>2. time' \in 0..MaxTime /\ time <= time'
    BY ClockAssumption DEF Later, Change, PathInv, PathTypeOK
  <2> QED
    BY <2>1, <2>2 DEF Stored
<1>2. /\ version' \in [Pages -> 0..MaxVersion] /\ changed' \in [Pages -> 0..time']
      /\ \A p \in Pages :  \/ version'[p] = version[p] /\ changed'[p] = changed[p]
                           \/ changed'[p] = time /\ changed[p] <= time
  <2>1. CASE Later
    BY <1>1, <2>1, ClockAssumption DEF Later, PathInv, PathTypeOK
  <2>2. ASSUME NEW p \in Pages, Change(p)
        PROVE  /\ version' \in [Pages -> 0..MaxVersion] /\ changed' \in [Pages -> 0..time']
               /\ \A q \in Pages : \/ version'[q] = version[q] /\ changed'[q] = changed[q]
                                   \/ changed'[q] = time /\ changed[q] <= time
    <3>1. version[p] \in 0..MaxVersion /\ version[p] + 1 \in 0..MaxVersion /\ time' = time
      BY <2>2, ClockAssumption DEF Change, PathInv, PathTypeOK
    <3> QED
      BY <2>2, <3>1, ClockAssumption DEF Change, PathInv, PathTypeOK
  <2> QED
    BY <2>1, <2>2
<1>3. PathTypeOK'
  <2>1. \A p \in Stored : entries[p].read \in Nat /\ entries[p].expires \in Nat
    BY ClockAssumption, CacheAssumption DEF Stored, PathInv, PathTypeOK, EntryType
  <2>2. \A p \in Stored : entries[p].expires \in (entries[p].read + Ttl)..(time' + Ttl)
    BY <1>1, <2>1, ClockAssumption, CacheAssumption DEF PathInv, PathTypeOK
  <2> QED
    BY <1>1, <1>2, <2>2 DEF PathInv, PathTypeOK
<1>4. ASSUME NEW p \in Paths PROVE EntryFine(p, entries[p])'
  <2>1. ASSUME entries[p] # NoEntry, p \in Pages PROVE Recent(entries[p], p)'
    <3>1. entries[p].read \in Nat /\ entries[p].read <= time
      BY <2>1, ClockAssumption, CacheAssumption DEF Stored, PathInv, PathTypeOK, EntryType
    <3>2. Recent(entries[p], p)
      BY <2>1 DEF PathInv, EntryFine
    <3> QED
      BY <1>1, <1>2, <2>1, <3>1, <3>2 DEF Recent
  <2> QED
    BY <1>1, <2>1 DEF PathInv, EntryFine
<1>5. ASSUME NEW c \in Gets PROVE GetFine(get[c])'
  <2>0. get[c] \in GetType /\ GetFine(get[c])
    BY DEF PathInv, PathTypeOK
  <2>1. get[c].read \in Nat /\ get[c].at \in Nat /\ get[c].read <= time
    BY <2>0, ClockAssumption DEF GetType, GetFine
  <2>2. Fetched(get[c])'
    <3>1. ASSUME get[c].path \in Pages, Recent(get[c], get[c].path)
          PROVE  Recent(get[c], get[c].path)'
      BY <1>1, <1>2, <2>1, <3>1 DEF Recent
    <3> QED
      BY <1>1, <2>0, <3>1 DEF GetFine, Fetched, Verdict
  <2>3. FromCache(get[c])'
    <3>1. ASSUME get[c].hit PROVE get[c].at <= time
      BY <2>0, <3>1 DEF GetFine, FromCache
    <3>2. get[c].hit => get[c].at <= time'
      BY <1>1, <2>1, <3>1, ClockAssumption DEF PathInv, PathTypeOK
    <3>3. ASSUME get[c].hit, get[c].path \in Pages, get[c].read = get[c].stored,
                 get[c].content # version'[get[c].path]
          PROVE  get[c].at <= changed'[get[c].path] + Ttl
      <4>1. CASE version'[get[c].path] = version[get[c].path] /\ changed'[get[c].path] = changed[get[c].path]
        BY <2>0, <3>3, <4>1 DEF GetFine, FromCache
      <4>2. CASE changed'[get[c].path] = time
        BY <2>1, <3>1, <3>3, <4>2, ClockAssumption, CacheAssumption DEF PathInv, PathTypeOK
      <4> QED
        BY <1>2, <3>3, <4>1, <4>2
    <3>4. get[c].hit => /\ get[c].caller = Absent /\ get[c].path \notin Private
                        /\ get[c].at <= get[c].stored + Ttl
      BY <2>0 DEF GetFine, FromCache
    <3> QED
      BY <1>1, <3>2, <3>3, <3>4 DEF FromCache
  <2>4. get[c].packed => get[c].gzip
    BY <2>0 DEF GetFine
  <2>5. get[c].read <= time'
    BY <1>1, <2>1, ClockAssumption DEF PathInv, PathTypeOK
  <2> QED
    BY <1>1, <2>2, <2>3, <2>4, <2>5 DEF GetFine
<1> QED
  BY <1>1, <1>3, <1>4, <1>5 DEF PathInv

LEMMA PathNextInv == PathInv /\ [PathNext]_pathVars => PathInv'
<1> SUFFICES ASSUME PathInv, [PathNext]_pathVars PROVE PathInv'
  OBVIOUS
<1>1. CASE UNCHANGED pathVars
  BY <1>1 DEF pathVars, PathInv, PathTypeOK, Stored, EntryFine, GetFine, Fetched, FromCache, Recent, Verdict
<1>2. CASE Later \/ \E p \in Pages : Change(p)
  BY <1>2, WorldKeeps
<1>3. ASSUME NEW c \in Gets,
             \/ Version(c) \/ BodySizeLimit(c) \/ Hit(c) \/ Miss(c) \/ Probe(c) \/ Serve(c)
             \/ FailHandler(c) \/ Panic(c) \/ Store(c) \/ Flush(c)
             \/ \E path \in Paths, caller \in {Absent, c}, gzip, inside \in BOOLEAN :
                   Arrive(c, path, caller, inside, gzip)
      PROVE  PathInv'
  BY <1>3, StoreKeeps, MovesKeeps, EarlyMoves, HandlerMoves, HitMoves, FlushMoves
<1>4. \A path : Addressed(path) \subseteq BOOLEAN
  BY DEF Addressed
<1> QED
  BY <1>1, <1>2, <1>3, <1>4 DEF PathNext

\* For any number of requests, pages and entries, what the cache gives is an answer to nobody
\* in particular, a success, unpacked, and of a page that was changed no older than the
\* lifetime of an entry; only an internal page is given to who would not get it from
\* the handler, and no longer than that lifetime (responsecache.go, internal_only.go).
THEOREM CacheTellsTheTruth == PathSpec => []CacheIsTransparent
BY PathInitInv, PathNextInv, PathInvMeans, PTL DEF PathSpec

-----------------------------------------------------------------------------
(* The rate limiters.                                                       *)

Keys == LimitedRoutes \X Addresses
KeyOf(i) == <<calls[i].route, calls[i].address>>

\* The admitted calls of a key that count at t and later.
Late(k, t) == {j \in DOMAIN calls : KeyOf(j) = k /\ calls[j].allowed /\ calls[j].at + Window >= t}

\* A bucket that counts began with a call that was admitted, and no later one is outside
\* of it; of the window before, less than the limit counts beside it.  Where there is no
\* bucket, less than the limit counts.
Running(k, count, end) ==
    /\ end <= clock + Window /\ end >= Window
    /\ \A j \in DOMAIN calls : KeyOf(j) = k => calls[j].at <= end
    /\ \E j \in DOMAIN calls : KeyOf(j) = k /\ calls[j].allowed /\ calls[j].at + Window = end
    /\ Cardinality(Late(k, end)) <= count /\ Cardinality(Late(k, end)) <= Limit
    /\ Cardinality(Late(k, end - Window + 1) \ Late(k, end)) < Limit

Quiet(k) ==
    /\ \A j \in DOMAIN calls : KeyOf(j) = k => calls[j].at < clock
    /\ Cardinality(Late(k, clock)) < Limit

BucketFine(k) ==
    /\ bucket[k].end # Off => Running(k, bucket[k].count, bucket[k].end)
    /\ bucket[k].end = Off => Quiet(k)

\* The log of the sliding window holds every admitted call that counts, and no more
\* calls than the limit.
LogFine(k) ==
    /\ \A j \in log[k] : KeyOf(j) = k
    /\ Cardinality(log[k]) <= Limit
    /\ Late(k, clock + 1) \subseteq log[k]

\* A key with an expiry began with a call, and goes in time.
CounterFine(a) ==
    a \notin unexpiring /\ counter[a].count > 0 =>
        /\ counter[a].end # Off /\ clock <= counter[a].end
        /\ \E j \in DOMAIN calls : calls[j].address = a /\ calls[j].at + Window >= counter[a].end

\* What Redis let through for an address, and what of it is not of the key there is but
\* still counts at t.
Through(a) == {j \in DOMAIN calls : calls[j].address = a /\ calls[j].allowed /\ ~calls[j].blind}
Before(a, cur, t) == {j \in Through(a) \ cur : calls[j].at + Window > t}

\* Some calls were counted by the key there is, no more than the limit; less than the limit
\* still count beside them, and none of those does when the key goes at its expiry.
KeyFine(a) ==
    \E cur \in SUBSET Through(a) :
        /\ Cardinality(cur) <= counter[a].count /\ Cardinality(cur) <= Limit
        /\ Cardinality(Before(a, cur, clock)) < Limit
        /\ counter[a].end # Off =>
              /\ clock <= counter[a].end
              /\ \A j \in Through(a) \ cur : calls[j].at + Window <= counter[a].end
              /\ \E j \in cur : calls[j].at + Window = counter[a].end

\* FloodIsBounded and PatientIsAdmitted for one call.
Counted(i) == {j \in Admitted(i) : ~calls[j].blind}
FloodFine(i) == Cardinality(Counted(i)) <= MostInAStretch
PatientFine(i) ==
    ~calls[i].allowed /\ calls[i].address \notin unexpiring =>
        \E j \in 1..(i - 1) : SameKey(i, j) /\ calls[j].at + Window >= calls[i].at

LimitInv ==
    /\ LimiterTypeOK
    /\ \A k \in Keys : bucket[k].count <= Len(calls)
    /\ \A a \in Addresses : counter[a].count <= Len(calls)
    /\ strategy = "memory" => \A k \in Keys : BucketFine(k)
    /\ strategy = "sliding" => \A k \in Keys : LogFine(k)
    /\ strategy = "redis" => \A a \in Addresses : CounterFine(a) /\ KeyFine(a)
    /\ \A i \in DOMAIN calls : FloodFine(i) /\ PatientFine(i)

LEMMA LimitInvMeans == LimitInv => LimitsAreKept
BY DEF LimitInv, LimitsAreKept, FloodIsBounded, PatientIsAdmitted, FloodFine, PatientFine, Counted

LEMMA LimitInitInv == LimiterInit => LimitInv
<1> SUFFICES ASSUME LimiterInit PROVE LimitInv
  OBVIOUS
<1>1. calls = << >> /\ DOMAIN calls = {} /\ Len(calls) = 0 /\ clock = 0
  BY DEF LimiterInit
<1>3. NoBucket \in Count
  BY BoundsAssumption DEF NoBucket, Count
<1>4. LimiterTypeOK
  BY <1>1, <1>3, BoundsAssumption DEF LimiterInit, LimiterTypeOK, NoBucket
<1>5. Limit \in Nat /\ Limit > 0 /\ Cardinality({}) = 0
  BY LimiterAssumption, FS_EmptySet
<1>6. ASSUME NEW k \in Keys PROVE BucketFine(k) /\ LogFine(k)
  <2>1. Late(k, clock) = {} /\ Late(k, clock + 1) = {}
    BY <1>1 DEF Late
  <2>2. bucket[k].end = Off /\ log[k] = {}
    BY DEF LimiterInit, NoBucket, Keys
  <2>3. BucketFine(k)
    <3>1. Cardinality(Late(k, clock)) < Limit
      BY <1>5, <2>1
    <3>2. Quiet(k)
      BY <1>1, <3>1 DEF Quiet
    <3> QED
      BY <2>2, <3>2 DEF BucketFine
  <2>4. LogFine(k)
    BY <1>5, <2>1, <2>2 DEF LogFine
  <2> QED
    BY <2>3, <2>4
<1>7. ASSUME NEW a \in Addresses PROVE CounterFine(a) /\ KeyFine(a)
  <2>1. counter[a].count = 0 /\ counter[a].end = Off
    BY DEF LimiterInit, NoBucket
  <2>2. Through(a) = {} /\ Before(a, {}, clock) = {}
    BY <1>1 DEF Through, Before
  <2>3. CounterFine(a)
    BY <2>1 DEF CounterFine
  <2>4. Cardinality({}) <= counter[a].count /\ Cardinality({}) <= Limit
    BY <1>5, <2>1
  <2>5. Cardinality(Before(a, {}, clock)) < Limit
    BY <1>5, <2>2
  <2> QED
    BY <2>1, <2>2, <2>3, <2>4, <2>5 DEF KeyFine
<1>8. /\ \A k \in Keys : bucket[k].count <= Len(calls)
      /\ \A a \in Addresses : counter[a].count <= Len(calls)
  BY <1>1 DEF LimiterInit, NoBucket, Keys
<1> QED
  BY <1>1, <1>4, <1>6, <1>7, <1>8 DEF LimitInv

-----------------------------------------------------------------------------
(* One more call.                                                           *)

LEMMA CallsTyped ==
    ASSUME LimiterTypeOK
    PROVE  /\ Len(calls) \in Nat /\ DOMAIN calls = 1..Len(calls)
           /\ \A i \in DOMAIN calls : calls[i] \in Call /\ calls[i].at \in Nat /\ calls[i].at <= clock
           /\ clock \in Nat /\ Window \in Nat \ {0} /\ Limit \in Nat \ {0}
           /\ MaxNow \in Nat /\ MaxCalls \in Nat
<1>1. Len(calls) \in Nat /\ DOMAIN calls = 1..Len(calls) /\ \A i \in DOMAIN calls : calls[i] \in Call
  BY DEF LimiterTypeOK
<1> QED
  BY <1>1, LimiterAssumption, BoundsAssumption DEF LimiterTypeOK, Call

LEMMA UpToIsFinite == \A n \in Nat : IsFiniteSet(1..n)
  BY FS_Interval

LEMMA LateFinite ==
    ASSUME LimiterTypeOK, NEW k, NEW t
    PROVE  IsFiniteSet(Late(k, t)) /\ Cardinality(Late(k, t)) \in Nat
<1>1. DOMAIN calls = 1..Len(calls) /\ Len(calls) \in Nat
  BY CallsTyped
<1>2. IsFiniteSet(DOMAIN calls)
  BY <1>1, UpToIsFinite
<1> QED
  BY <1>2, FS_Subset, FS_CardinalityType DEF Late

\* The call with number n is a new one.
NewCall(n) ==
    /\ n = Len(calls) + 1 /\ n \notin DOMAIN calls /\ DOMAIN calls' = DOMAIN calls \union {n}
    /\ \A i \in DOMAIN calls : calls'[i] = calls[i]

\* The type of what a call leaves behind, if its limiter did its own work.
LEMMA CallTypes ==
    ASSUME LimiterTypeOK, NEW route \in LimitedRoutes, NEW a \in Addresses, NEW ok \in BOOLEAN,
           NEW lost \in BOOLEAN, Noted(route, a, ok, lost)
    PROVE  \E n \in Nat :
              /\ NewCall(n) /\ Len(calls') = n /\ KeyOf(n)' = <<route, a>> /\ calls'[n].address = a
              /\ calls'[n].at = clock /\ calls'[n].allowed = ok /\ n \in DOMAIN calls'
              /\ calls'[n].blind = lost
              /\ calls' \in Seq(Call) /\ \A i \in DOMAIN calls' : calls'[i].at <= clock
              /\ 1..(n - 1) = DOMAIN calls
<1>1. PICK n \in Nat : n = Len(calls) + 1
  BY CallsTyped
<1>2. /\ n \notin DOMAIN calls /\ n \in DOMAIN calls' /\ Len(calls') = n
      /\ DOMAIN calls' = DOMAIN calls \union {n}
      /\ \A i \in DOMAIN calls : calls'[i] = calls[i]
      /\ calls'[n].route = route /\ calls'[n].address = a
      /\ calls'[n].at = clock /\ calls'[n].allowed = ok /\ calls'[n].blind = lost
      /\ calls' \in Seq(Call)
  <2> DEFINE c == [route |-> route, address |-> a, at |-> clock, allowed |-> ok, blind |-> lost]
  <2>1. c \in Call
    BY DEF Call, LimiterTypeOK
  <2>2. c.route = route /\ c.address = a /\ c.at = clock /\ c.allowed = ok /\ c.blind = lost
    OBVIOUS
  <2>3. calls' = Append(calls, c) /\ calls \in Seq(Call)
    BY DEF Noted, LimiterTypeOK
  <2> HIDE DEF c
  <2> QED
    BY <1>1, <2>1, <2>2, <2>3
<1>3. NewCall(n)
  BY <1>1, <1>2, Zenon DEF NewCall
<1>4. KeyOf(n)' = <<route, a>>
  BY <1>2, Zenon DEF KeyOf
<1>5. \A i \in DOMAIN calls' : calls'[i].at <= clock
  <2>1. \A i \in DOMAIN calls : calls[i].at <= clock
    BY CallsTyped
  <2>2. clock <= clock
    BY CallsTyped
  <2> QED
    BY <1>2, <2>1, <2>2, Zenon
<1>6. 1..(n - 1) = DOMAIN calls
  BY <1>1, CallsTyped
<1> QED
  BY <1>2, <1>3, <1>4, <1>5, <1>6

\* The same of a call that was counted, as far as its window is concerned.
LEMMA CountedCall ==
    ASSUME LimiterTypeOK, NEW route \in LimitedRoutes, NEW a \in Addresses, NEW ok \in BOOLEAN,
           Noted(route, a, ok, FALSE), NEW k, k = <<route, a>>
    PROVE  \E n \in Nat :
              /\ NewCall(n) /\ n \notin DOMAIN calls /\ DOMAIN calls' = DOMAIN calls \union {n}
              /\ \A j \in DOMAIN calls : calls'[j] = calls[j]
              /\ KeyOf(n)' = k /\ calls'[n].at = clock /\ calls'[n].allowed = ok
<1>l. PICK lost \in BOOLEAN : Noted(route, a, ok, lost)
  OBVIOUS
<1>n. PICK n \in Nat : /\ NewCall(n) /\ KeyOf(n)' = <<route, a>>
                       /\ calls'[n].at = clock /\ calls'[n].allowed = ok
  BY <1>l, CallTypes
<1> QED
  BY <1>n DEF NewCall

LEMMA LateGrows ==
    ASSUME NEW n, NewCall(n), NEW k, NEW t
    PROVE  /\ n \in Late(k, t)' => Late(k, t)' = Late(k, t) \union {n}
           /\ n \notin Late(k, t)' => Late(k, t)' = Late(k, t)
           /\ Late(k, t)' \subseteq Late(k, t) \union {n} /\ n \notin Late(k, t)
<1>1. \A i \in DOMAIN calls : i \in Late(k, t)' <=> i \in Late(k, t)
  BY DEF NewCall, Late, KeyOf
<1>2. Late(k, t)' \subseteq DOMAIN calls \union {n} /\ Late(k, t) \subseteq DOMAIN calls
  BY DEF NewCall, Late
<1>3. n \notin DOMAIN calls
  BY DEF NewCall
<1> QED
  BY <1>1, <1>2, <1>3

\* What is known of an earlier call stays.
LEMMA OldCallsFine ==
    ASSUME LimitInv, NEW route \in LimitedRoutes, NEW a \in Addresses, NEW ok \in BOOLEAN,
           NEW lost \in BOOLEAN, Noted(route, a, ok, lost), unexpiring \subseteq unexpiring', strategy' = strategy,
           NEW i \in DOMAIN calls
    PROVE  (FloodFine(i) /\ PatientFine(i))'
<1>1. /\ \A j \in DOMAIN calls : calls'[j] = calls[j]
      /\ 1..i \subseteq DOMAIN calls /\ i \in 1..i /\ i \in Nat
  <2>1. LimiterTypeOK
    BY DEF LimitInv
  <2>2. PICK n \in Nat : NewCall(n)
    BY <2>1, CallTypes
  <2> QED
    BY <2>1, <2>2, CallsTyped DEF NewCall
<1>2. \A j \in 1..i : SameKey(i, j)' <=> SameKey(i, j)
  BY <1>1 DEF SameKey
<1>3. Counted(i)' = Counted(i)
  BY <1>1, <1>2 DEF Counted, Admitted
<1>4. FloodFine(i)'
  BY <1>3 DEF FloodFine, LimitInv, MostInAStretch
<1>5. PatientFine(i)'
  <2>1. PatientFine(i)
    BY DEF LimitInv
  <2> QED
    BY <1>1, <1>2, <2>1 DEF PatientFine
<1> QED
  BY <1>4, <1>5

-----------------------------------------------------------------------------
(* The bucket in memory.                                                    *)

\* A call of another key, or none at all, changes nothing for a bucket that stays.
LEMMA OtherBucketFine ==
    ASSUME LimitInv, NEW route \in LimitedRoutes, NEW a \in Addresses, NEW ok \in BOOLEAN,
           Noted(route, a, ok, FALSE), NEW k \in Keys, k # <<route, a>>, BucketFine(k),
           bucket'[k] = bucket[k], clock' = clock
    PROVE  BucketFine(k)'
<1>1. LimiterTypeOK
  BY DEF LimitInv
<1>l. PICK lost \in BOOLEAN : Noted(route, a, ok, lost)
  OBVIOUS
<1>n. PICK n \in Nat : NewCall(n) /\ KeyOf(n)' = <<route, a>>
  BY <1>1, <1>l, CallTypes
<1>2. ASSUME NEW t \in Int PROVE Late(k, t)' = Late(k, t)
  <2>1. n \notin Late(k, t)'
    BY <1>n DEF Late
  <2> QED
    BY <1>n, <2>1, LateGrows
<1>4. \A j \in DOMAIN calls : calls'[j] = calls[j] /\ j \in DOMAIN calls' /\ KeyOf(j)' = KeyOf(j)
  BY <1>n DEF NewCall, KeyOf
<1>3. \A j \in DOMAIN calls' : KeyOf(j)' = k => j \in DOMAIN calls /\ KeyOf(j) = k /\ calls'[j] = calls[j]
  BY <1>n, <1>4 DEF NewCall
<1>5. bucket[k].end # Off => bucket[k].end \in Nat
  BY <1>1, CallsTyped DEF LimiterTypeOK, Count, Keys
<1>6. clock \in Nat /\ Window \in Nat
  BY <1>1, CallsTyped
<1>7. CASE bucket[k].end = Off
  <2>1. Quiet(k)
    BY <1>7 DEF BucketFine
  <2>2. Quiet(k)'
    BY <1>2, <1>3, <1>6, <2>1 DEF Quiet
  <2> QED
    BY <1>7, <2>2 DEF BucketFine
<1>8. CASE bucket[k].end # Off
  <2> PICK e \in Nat, x \in {bucket[k].count} : e = bucket[k].end /\ x = bucket[k].count
    BY <1>5, <1>8
  <2>1. Running(k, x, e)
    BY <1>8 DEF BucketFine
  <2>2. Late(k, e)' = Late(k, e) /\ Late(k, e - Window + 1)' = Late(k, e - Window + 1)
    BY <1>2, <1>6
  <2>3. Running(k, x, e)'
    BY <1>3, <1>4, <2>1, <2>2 DEF Running
  <2> QED
    BY <1>8, <2>3 DEF BucketFine
<1> QED
  BY <1>7, <1>8

\* When a bucket is over, less than the limit counts: the call that began it no longer does.
LEMMA BucketOver ==
    ASSUME LimiterTypeOK, NEW k, NEW x, NEW e \in Nat, Running(k, x, e), e < clock
    PROVE  Quiet(k)
<1>1. /\ clock \in Nat /\ Window \in Nat \ {0} /\ Limit \in Nat \ {0}
      /\ \A j \in DOMAIN calls : calls[j].at \in Nat
  BY CallsTyped
<1>2. PICK first \in DOMAIN calls :
          KeyOf(first) = k /\ calls[first].allowed /\ calls[first].at + Window = e
  BY DEF Running
<1>3. first \in Late(k, e) /\ first \notin Late(k, clock)
  BY <1>1, <1>2 DEF Late
<1>4. Late(k, clock) \subseteq Late(k, e) \ {first}
  BY <1>1, <1>3 DEF Late
<1>5. /\ IsFiniteSet(Late(k, e) \ {first})
      /\ Cardinality(Late(k, e) \ {first}) = Cardinality(Late(k, e)) - 1
  BY <1>3, LateFinite, FS_RemoveElement
<1>6. Cardinality(Late(k, clock)) <= Cardinality(Late(k, e) \ {first})
  BY <1>4, <1>5, FS_Subset
<1>7. Cardinality(Late(k, e)) \in Nat /\ Cardinality(Late(k, clock)) \in Nat
  BY LateFinite
<1>8. Cardinality(Late(k, clock)) < Limit
  BY <1>1, <1>5, <1>6, <1>7 DEF Running
<1>9. \A j \in DOMAIN calls : KeyOf(j) = k => calls[j].at < clock
  BY <1>1 DEF Running
<1> QED
  BY <1>8, <1>9 DEF Quiet

\* The call that begins a bucket.
LEMMA FirstCallFine ==
    ASSUME LimitInv, NEW route \in LimitedRoutes, NEW a \in Addresses, BucketFine(<<route, a>>),
           NEW ok \in BOOLEAN, ok, Noted(route, a, ok, FALSE), clock' = clock,
           bucket[<<route, a>>].end = Off \/ clock > bucket[<<route, a>>].end,
           bucket'[<<route, a>>] = [count |-> 1, end |-> clock + Window]
    PROVE  BucketFine(<<route, a>>)'
<1>0. LimiterTypeOK
  BY DEF LimitInv
<1>1. /\ clock \in Nat /\ Window \in Nat \ {0} /\ Limit \in Nat \ {0} /\ Len(calls) \in Nat
      /\ \A j \in DOMAIN calls : calls[j].at \in Nat
  BY <1>0, CallsTyped
<1>k. PICK k \in Keys : k = <<route, a>>
  BY DEF Keys
<1>e. PICK e \in Nat : e = clock + Window
  BY <1>1
<1>2. PICK n \in Nat :
          /\ NewCall(n) /\ n \notin DOMAIN calls /\ DOMAIN calls' = DOMAIN calls \union {n}
          /\ \A j \in DOMAIN calls : calls'[j] = calls[j]
          /\ KeyOf(n)' = k /\ calls'[n].at = clock /\ calls'[n].allowed = ok
  BY <1>0, <1>k, CountedCall, ZenonT(40)
<1>3. bucket[k].end # Off => bucket[k].end \in Nat
  BY <1>0, <1>1, CallsTyped DEF LimiterTypeOK, Count, Keys
<1>q. Quiet(k)
  <2>1. CASE bucket[k].end = Off
    BY <1>k, <2>1 DEF BucketFine
  <2>2. CASE bucket[k].end # Off
    <3>1. PICK x \in {bucket[k].count}, old \in Nat : old = bucket[k].end /\ Running(k, x, old)
      BY <1>3, <1>k, <2>2 DEF BucketFine
    <3>2. old < clock
      BY <1>1, <1>k, <2>2, <3>1
    <3> QED
      BY <1>0, <3>1, <3>2, BucketOver
  <2> QED
    BY <2>1, <2>2
<1>4. \A j \in DOMAIN calls : KeyOf(j) = k => calls[j].at < clock
  BY <1>q DEF Quiet
<1>5. Cardinality(Late(k, clock)) < Limit
  BY <1>q DEF Quiet
<1>6. Late(k, e)' = {n}
  <2>1. Late(k, e)' = Late(k, e) \union {n}
    <3>1. n \in DOMAIN calls' /\ calls'[n].at + Window >= e
      BY <1>1, <1>2, <1>e
    <3>2. n \in Late(k, e)'
      BY <1>2, <3>1 DEF Late
    <3> QED
      BY <1>2, <3>2, LateGrows
  <2>2. Late(k, e) = {}
    BY <1>1, <1>4, <1>e DEF Late
  <2> QED
    BY <2>1, <2>2
<1>7. Late(k, e - Window + 1)' \subseteq Late(k, clock) \union {n}
  <2>1. e - Window + 1 = clock + 1 /\ clock + 1 \in Int
    BY <1>1, <1>e
  <2>2. PICK t \in Int : t = clock + 1
    BY <2>1
  <2>3. Late(k, t)' \subseteq Late(k, t) \union {n}
    BY <1>2, LateGrows
  <2>4. Late(k, t) \subseteq Late(k, clock)
    BY <1>1, <2>2 DEF Late
  <2>5. e - Window + 1 = t
    BY <2>1, <2>2
  <2> QED
    BY <2>3, <2>4, <2>5
<1>8. Cardinality(Late(k, e - Window + 1)' \ Late(k, e)') < Limit
  <2>1. Late(k, e - Window + 1)' \ Late(k, e)' \subseteq Late(k, clock)
    BY <1>6, <1>7
  <2>2. IsFiniteSet(Late(k, clock)) /\ Cardinality(Late(k, clock)) \in Nat
    BY <1>0, LateFinite
  <2>3. Cardinality(Late(k, e - Window + 1)' \ Late(k, e)') \in Nat
    BY <2>1, <2>2, FS_Subset, FS_CardinalityType
  <2> QED
    BY <1>1, <1>5, <2>1, <2>2, <2>3, FS_Subset
<1>9. Cardinality(Late(k, e)') = 1
  BY <1>6, FS_Singleton
<1>10. Running(k, 1, e)'
  <2>1. \A j \in DOMAIN calls' : KeyOf(j)' = k => calls'[j].at <= e
    BY <1>1, <1>2, <1>4, <1>e DEF KeyOf
  <2>2. \E j \in DOMAIN calls' : KeyOf(j)' = k /\ calls'[j].allowed /\ calls'[j].at + Window = e
    BY <1>1, <1>2, <1>e
  <2>3. e <= clock' + Window /\ e >= Window
    BY <1>1, <1>e
  <2> QED
    BY <1>1, <1>8, <1>9, <2>1, <2>2, <2>3 DEF Running
<1>11. bucket'[k].count = 1 /\ bucket'[k].end = e /\ e # Off
  BY <1>e, <1>k, LimiterAssumption
<1> QED
  BY <1>k, <1>10, <1>11 DEF BucketFine

\* A further call in a bucket that counts.
LEMMA FurtherCallFine ==
    ASSUME LimitInv, NEW route \in LimitedRoutes, NEW a \in Addresses, BucketFine(<<route, a>>),
           NEW ok \in BOOLEAN, Noted(route, a, ok, FALSE), clock' = clock,
           bucket[<<route, a>>].end # Off, clock <= bucket[<<route, a>>].end,
           ok <=> bucket[<<route, a>>].count + 1 <= Limit,
           bucket'[<<route, a>>].count = bucket[<<route, a>>].count + 1,
           bucket'[<<route, a>>].end = bucket[<<route, a>>].end
    PROVE  BucketFine(<<route, a>>)'
<1>0. LimiterTypeOK
  BY DEF LimitInv
<1>1. /\ clock \in Nat /\ Window \in Nat \ {0} /\ Limit \in Nat \ {0} /\ Len(calls) \in Nat
      /\ \A j \in DOMAIN calls : calls[j].at \in Nat
  BY <1>0, CallsTyped
<1>k. PICK k \in Keys : k = <<route, a>>
  BY DEF Keys
<1>e. PICK e \in Nat, x \in Nat : e = bucket[k].end /\ x = bucket[k].count
  BY <1>0, <1>1, <1>k DEF LimiterTypeOK, Count, Keys
<1>2. PICK n \in Nat :
          /\ NewCall(n) /\ n \notin DOMAIN calls /\ DOMAIN calls' = DOMAIN calls \union {n}
          /\ \A j \in DOMAIN calls : calls'[j] = calls[j]
          /\ KeyOf(n)' = k /\ calls'[n].at = clock /\ calls'[n].allowed = ok
  BY <1>0, <1>k, CountedCall, ZenonT(40)
<1>3. Running(k, x, e)
  BY <1>e, <1>k DEF BucketFine
<1>4. clock <= e /\ (ok <=> x + 1 <= Limit)
  BY <1>e, <1>k
<1>5. PICK early \in Nat : early = e - Window + 1
  BY <1>1, <1>3 DEF Running
<1>6. /\ IsFiniteSet(Late(k, e)) /\ Cardinality(Late(k, e)) \in Nat
      /\ IsFiniteSet(Late(k, early)) /\ Cardinality(Late(k, early)) \in Nat
      /\ n \notin Late(k, e)
  <2>1. n \notin Late(k, e)
    BY <1>2 DEF Late
  <2> QED
    BY <1>0, <2>1, LateFinite
<1>7. Late(k, e)' = IF ok THEN Late(k, e) \union {n} ELSE Late(k, e)
  <2>1. clock + Window >= e
    BY <1>1, <1>3 DEF Running
  <2>2. n \in Late(k, e)' <=> ok
    BY <1>2, <2>1 DEF Late
  <2> QED
    BY <1>2, <2>2, LateGrows
<1>8. /\ Cardinality(Late(k, e)') <= x + 1 /\ Cardinality(Late(k, e)') <= Limit
  <2>1. CASE ok
    <3>1. Cardinality(Late(k, e)') = Cardinality(Late(k, e)) + 1
      BY <1>6, <1>7, <2>1, FS_AddElement
    <3> QED
      BY <1>1, <1>3, <1>4, <1>6, <2>1, <3>1, SMTT(30) DEF Running
  <2>2. CASE ~ok
    <3>1. Late(k, e)' = Late(k, e)
      BY <1>7, <2>2
    <3> QED
      BY <1>1, <1>3, <1>6, <3>1 DEF Running
  <2> QED
    BY <2>1, <2>2
<1>9. Cardinality(Late(k, early)' \ Late(k, e)') < Limit
  <2>1. Late(k, early)' \subseteq Late(k, early) \union {n}
    BY <1>2, LateGrows
  <2>2. n \in Late(k, early)' => n \in Late(k, e)'
    BY <1>1, <1>2, <1>3 DEF Late, Running
  <2>3. Late(k, early)' \ Late(k, e)' \subseteq Late(k, early) \ Late(k, e)
    BY <1>7, <2>1, <2>2
  <2>4. IsFiniteSet(Late(k, early) \ Late(k, e)) /\ Cardinality(Late(k, early) \ Late(k, e)) \in Nat
    BY <1>6, FS_Difference, FS_CardinalityType
  <2>5. Cardinality(Late(k, early) \ Late(k, e)) < Limit
    BY <1>3, <1>5 DEF Running
  <2>6. /\ Cardinality(Late(k, early)' \ Late(k, e)') <= Cardinality(Late(k, early) \ Late(k, e))
        /\ Cardinality(Late(k, early)' \ Late(k, e)') \in Nat
    BY <2>3, <2>4, FS_Subset, FS_CardinalityType
  <2> QED
    BY <1>1, <2>4, <2>5, <2>6
<1>10. Running(k, x + 1, e)'
  <2>1. \A j \in DOMAIN calls' : KeyOf(j)' = k => calls'[j].at <= e
    BY <1>2, <1>3, <1>4 DEF KeyOf, Running
  <2>2. \E j \in DOMAIN calls' : KeyOf(j)' = k /\ calls'[j].allowed /\ calls'[j].at + Window = e
    <3>1. PICK j \in DOMAIN calls : KeyOf(j) = k /\ calls[j].allowed /\ calls[j].at + Window = e
      BY <1>3 DEF Running
    <3> QED
      BY <1>2, <3>1 DEF KeyOf
  <2>3. e <= clock' + Window /\ e >= Window
    BY <1>3 DEF Running
  <2> QED
    BY <1>5, <1>8, <1>9, <2>1, <2>2, <2>3 DEF Running
<1>11. bucket'[k].count = x + 1 /\ bucket'[k].end = e /\ e # Off
  BY <1>e, <1>k, LimiterAssumption
<1> QED
  BY <1>k, <1>10, <1>11 DEF BucketFine

\* Two windows admit less than twice the limit, if the first admits less than the limit.
LEMMA TwoWindows ==
    ASSUME NEW S, NEW A, NEW B, IsFiniteSet(A), IsFiniteSet(B), S \subseteq A \union B,
           NEW limit \in Nat, Cardinality(A) <= limit, Cardinality(B) < limit
    PROVE  Cardinality(S) <= 2 * limit - 1
<1>1. /\ IsFiniteSet(A \union B)
      /\ Cardinality(A \union B) = Cardinality(A) + Cardinality(B) - Cardinality(A \cap B)
  BY FS_Union
<1>2. IsFiniteSet(A \cap B)
  BY FS_Intersection
<1>3. IsFiniteSet(S) /\ Cardinality(S) <= Cardinality(A \union B)
  BY <1>1, FS_Subset
<1>4. /\ Cardinality(A) \in Nat /\ Cardinality(B) \in Nat /\ Cardinality(A \cap B) \in Nat
      /\ Cardinality(S) \in Nat /\ Cardinality(A \union B) \in Nat
  BY <1>1, <1>2, <1>3, FS_CardinalityType
<1> QED
  BY <1>1, <1>3, <1>4

LEMMA AllowKeeps ==
    ASSUME LimitInv, NEW route \in LimitedRoutes, NEW a \in Addresses, Allow(route, a),
           Len(calls) < MaxCalls
    PROVE  LimitInv'
<1>0. LimiterTypeOK /\ strategy = "memory" /\ strategy' = strategy /\ clock' = clock
      /\ UNCHANGED <<counter, log, unexpiring>>
  BY DEF LimitInv, Allow
<1>1. /\ clock \in Nat /\ Window \in Nat \ {0} /\ Limit \in Nat \ {0} /\ Len(calls) \in Nat
      /\ clock \in 0..MaxNow /\ MaxNow \in Nat /\ MaxCalls \in Nat
      /\ \A j \in DOMAIN calls : calls[j].at \in Nat
  <2>1. clock \in 0..MaxNow
    BY <1>0 DEF LimiterTypeOK
  <2> QED
    BY <1>0, <2>1, CallsTyped
<1>k. PICK k \in Keys : k = <<route, a>>
  BY DEF Keys
<1>b. PICK x \in Nat, e \in {bucket[k].end} :
          /\ bucket[k] \in Count /\ x = bucket[k].count /\ e = bucket[k].end
          /\ e \in Nat \union {Off} /\ x <= Len(calls) /\ (e # Off => e <= MaxNow + Window)
  <2>1. bucket[k] \in Count
    BY <1>0 DEF LimiterTypeOK, Keys
  <2>2. bucket[k].count \in 0..MaxCalls /\ bucket[k].end \in 0..(MaxNow + Window) \union {Off}
    BY <2>1 DEF Count
  <2>3. bucket[k].count <= Len(calls)
    BY DEF LimitInv
  <2>4. bucket[k].count \in Nat
    BY <2>2
  <2>5. bucket[k].end \in Nat \union {Off} /\ (bucket[k].end # Off => bucket[k].end <= MaxNow + Window)
    BY <2>2
  <2> QED
    BY <2>1, <2>3, <2>4, <2>5
<1> DEFINE Done(ok, y, f) ==
          /\ Noted(route, a, ok, FALSE) /\ bucket' = [bucket EXCEPT ![k] = [count |-> y, end |-> f]]
          /\ \/ (e = Off \/ clock > e) /\ ok /\ y = 1 /\ f = clock + Window
             \/ e # Off /\ clock <= e /\ (ok <=> x + 1 <= Limit) /\ y = x + 1 /\ f = e
<1>2. PICK ok \in BOOLEAN, y \in Nat, f \in Nat : Done(ok, y, f)
  <2>1. CASE e = Off \/ clock > e
    <3>1. Noted(route, a, TRUE, FALSE) /\ bucket' = [bucket EXCEPT ![k] = [count |-> 1, end |-> clock + Window]]
      BY <1>b, <1>k, <2>1 DEF Allow
    <3>2. Done(TRUE, 1, clock + Window)
      BY <2>1, <3>1, Zenon
    <3>3. clock + Window \in Nat /\ 1 \in Nat
      BY <1>1
    <3> HIDE DEF Done
    <3> QED
      BY <3>2, <3>3, Zenon
  <2>2. CASE ~(e = Off \/ clock > e)
    <3>1. [bucket[k] EXCEPT !.count = @ + 1] = [count |-> x + 1, end |-> e]
      BY <1>b DEF Count
    <3>2. (x + 1 <= Limit) \in BOOLEAN /\ e \in Nat /\ clock <= e
      BY <1>1, <1>b, <2>2
    <3>3. [count |-> x + 1, end |-> e].count = x + 1
      OBVIOUS
    <3> DEFINE next == IF bucket[k].end = Off \/ clock > bucket[k].end
                       THEN [count |-> 1, end |-> clock + Window]
                       ELSE [bucket[k] EXCEPT !.count = @ + 1]
    <3>a. /\ Noted(route, a, (bucket[k].end = Off \/ clock > bucket[k].end) \/ next.count <= Limit, FALSE)
          /\ bucket' = [bucket EXCEPT ![k] = next]
      BY <1>k, Zenon DEF Allow
    <3>b. ~(bucket[k].end = Off \/ clock > bucket[k].end)
      BY <1>b, <2>2
    <3>c. next = [bucket[k] EXCEPT !.count = @ + 1]
      BY <3>b, Zenon
    <3> HIDE DEF next
    <3>4. /\ Noted(route, a, [bucket[k] EXCEPT !.count = @ + 1].count <= Limit, FALSE)
          /\ bucket' = [bucket EXCEPT ![k] = [bucket[k] EXCEPT !.count = @ + 1]]
      <4>1. ((bucket[k].end = Off \/ clock > bucket[k].end) \/ next.count <= Limit) = (next.count <= Limit)
        BY <3>b
      <4> QED
        BY <3>a, <3>c, <4>1, Zenon
    <3>5. Noted(route, a, x + 1 <= Limit, FALSE) /\ bucket' = [bucket EXCEPT ![k] = [count |-> x + 1, end |-> e]]
      BY <3>1, <3>3, <3>4, Zenon
    <3>6. Done(x + 1 <= Limit, x + 1, e)
      BY <1>b, <2>2, <3>2, <3>5
    <3>7. x + 1 \in Nat
      BY <1>b
    <3> HIDE DEF Done
    <3> QED
      BY <3>2, <3>6, <3>7, Zenon
  <2> QED
    BY <2>1, <2>2
<1>l. PICK lost \in BOOLEAN : lost = FALSE /\ Noted(route, a, ok, lost)
  BY <1>2, Zenon
<1>n. PICK n \in Nat :
          /\ NewCall(n) /\ Len(calls') = n /\ KeyOf(n)' = k /\ calls'[n].address = a
          /\ calls'[n].at = clock /\ calls'[n].allowed = ok /\ n \in DOMAIN calls'
          /\ calls' \in Seq(Call) /\ \A i \in DOMAIN calls' : calls'[i].at <= clock
          /\ 1..(n - 1) = DOMAIN calls
  BY <1>0, <1>l, <1>k, CallTypes
<1>3. /\ bucket'[k].count = y /\ bucket'[k].end = f
      /\ \A q \in Keys : q # k => bucket'[q] = bucket[q]
  BY <1>0, <1>2 DEF LimiterTypeOK, Keys
<1>4. LimiterTypeOK'
  <2>1. y \in 0..MaxCalls /\ f \in 0..(MaxNow + Window) /\ y > 0
    BY <1>1, <1>2, <1>b, SMTT(30)
  <2>2. [count |-> y, end |-> f] \in Count
    BY <2>1 DEF Count
  <2>3. bucket' \in [Keys -> Count]
    BY <1>0, <1>2, <2>2 DEF LimiterTypeOK, Keys
  <2>4. f # Off
    BY LimiterAssumption
  <2>5. \A q \in Keys : bucket'[q].end = Off <=> bucket'[q].count = 0
    BY <1>0, <1>3, <2>1, <2>4 DEF LimiterTypeOK, Keys
  <2>6. log' \in [Keys -> SUBSET (DOMAIN calls')]
    BY <1>0, <1>n DEF LimiterTypeOK, NewCall, Keys
  <2> QED
    BY <1>0, <1>n, <2>3, <2>5, <2>6 DEF LimiterTypeOK, Keys
<1>5. ASSUME NEW q \in Keys PROVE BucketFine(q)'
  <2>1. BucketFine(q)
    BY <1>0 DEF LimitInv
  <2>2. CASE q # k
    BY <1>0, <1>2, <1>3, <1>k, <2>1, <2>2, OtherBucketFine
  <2>3. CASE q = k /\ (e = Off \/ clock > e)
    <3>a. y = 1 /\ f = clock + Window /\ ok
      <4>1. ~(e # Off /\ clock <= e)
        BY <1>1, <1>b, <2>3, LimiterAssumption
      <4> QED
        BY <1>2, <4>1
    <3>1. bucket'[k] = [count |-> 1, end |-> clock + Window] /\ ok
      BY <1>0, <1>2, <3>a DEF LimiterTypeOK, Keys
    <3> QED
      BY <1>0, <1>2, <1>b, <1>k, <2>1, <2>3, <3>1, FirstCallFine
  <2>4. CASE q = k /\ ~(e = Off \/ clock > e)
    <3>1. /\ e # Off /\ clock <= e /\ (ok <=> x + 1 <= Limit)
          /\ bucket'[k].count = x + 1 /\ bucket'[k].end = e
      BY <1>2, <1>3, <2>4
    <3> QED
      BY <1>0, <1>2, <1>b, <1>k, <2>1, <2>4, <3>1, FurtherCallFine
  <2> QED
    BY <2>2, <2>3, <2>4
<1>6. /\ \A q \in Keys : bucket'[q].count <= Len(calls')
      /\ \A q \in Addresses : counter'[q].count <= Len(calls')
  <2>1. \A q \in Keys : bucket[q].count \in Nat /\ bucket[q].count <= Len(calls)
    BY <1>0, <1>1 DEF LimitInv, LimiterTypeOK, Count, Keys
  <2>2. \A q \in Addresses : counter[q].count \in Nat /\ counter[q].count <= Len(calls)
    BY <1>0, <1>1 DEF LimitInv, LimiterTypeOK, Count
  <2>3. n = Len(calls) + 1 /\ y <= Len(calls) + 1
    BY <1>1, <1>2, <1>b, <1>n, SMTT(30) DEF NewCall
  <2>4. ASSUME NEW q \in Keys PROVE bucket'[q].count <= Len(calls')
    BY <1>1, <1>3, <1>n, <2>1, <2>3
  <2> QED
    BY <1>0, <1>1, <1>n, <2>2, <2>3, <2>4
<1>7. FloodFine(n)'
  <2>1. Running(k, y, f)'
    <3>1. f # Off
      BY LimiterAssumption
    <3> QED
      BY <1>3, <1>5, <3>1 DEF BucketFine
  <2>2. /\ Cardinality(Late(k, f)') <= Limit
        /\ Cardinality(Late(k, f - Window + 1)' \ Late(k, f)') < Limit
        /\ f <= clock + Window
    BY <1>0, <2>1 DEF Running
  <2>3. PICK early \in Int : early = f - Window + 1
    BY <1>1
  <2>4. IsFiniteSet(Late(k, f)') /\ IsFiniteSet(Late(k, early)' \ Late(k, f)')
    <3>1. IsFiniteSet(DOMAIN calls')
      <4>1. DOMAIN calls' = 1..n
        BY <1>n
      <4> QED
        BY <4>1, UpToIsFinite
    <3>2. IsFiniteSet(Late(k, f)') /\ IsFiniteSet(Late(k, early)')
      BY <3>1, FS_Subset DEF Late
    <3> QED
      BY <3>2, FS_Difference
  <2>5. Counted(n)' \subseteq Late(k, early)'
    <3>1. \A j \in DOMAIN calls' : calls'[j].at \in Nat
      <4>1. \A j \in DOMAIN calls' : calls'[j] \in Call
        BY <1>n
      <4> QED
        BY <4>1, BoundsAssumption DEF Call
    <3>2. ASSUME NEW j \in Counted(n)' PROVE j \in Late(k, early)'
      <4>1. j \in DOMAIN calls' /\ KeyOf(j)' = k /\ calls'[j].allowed
        BY <1>0, <1>n DEF Counted, Admitted, SameKey, KeyOf, NewCall
      <4>2. calls'[j].at + Window > clock
        BY <1>n DEF Counted, Admitted
      <4>3. calls'[j].at + Window >= early
        BY <1>1, <2>2, <2>3, <3>1, <4>1, <4>2, SMTT(30)
      <4> QED
        BY <4>1, <4>3 DEF Late
    <3> QED
      BY <3>2
  <2>6. Cardinality(Counted(n)') <= 2 * Limit - 1
    <3>1. Counted(n)' \subseteq Late(k, f)' \union (Late(k, early)' \ Late(k, f)')
      BY <2>5
    <3> QED
      BY <1>1, <2>2, <2>3, <2>4, <3>1, TwoWindows
  <2> QED
    BY <1>0, <2>6 DEF FloodFine, MostInAStretch
<1>8. PatientFine(n)'
  <2>1. SUFFICES ASSUME ~ok PROVE \E j \in 1..(n - 1) : SameKey(n, j)' /\ calls'[j].at + Window >= calls'[n].at
    BY <1>n DEF PatientFine
  <2>2. e # Off /\ clock <= e /\ e \in Nat
    BY <1>2, <1>b, <2>1
  <2>3. Running(k, x, e)
    BY <1>0, <1>b, <2>2 DEF LimitInv, BucketFine
  <2>4. PICK j \in DOMAIN calls : KeyOf(j) = k /\ calls[j].at + Window = e
    BY <2>3 DEF Running
  <2>5. calls'[j] = calls[j] /\ j \in 1..(n - 1)
    BY <1>n DEF NewCall
  <2>6. SameKey(n, j)'
    BY <1>n, <2>4, <2>5 DEF SameKey, KeyOf
  <2>7. calls'[j].at + Window >= calls'[n].at
    BY <1>1, <1>n, <2>2, <2>4, <2>5
  <2> QED
    BY <2>5, <2>6, <2>7
<1>9. \A i \in DOMAIN calls : (FloodFine(i) /\ PatientFine(i))'
  BY <1>0, <1>2, OldCallsFine
<1>10. \A i \in DOMAIN calls' : FloodFine(i)' /\ PatientFine(i)'
  BY <1>7, <1>8, <1>9, <1>n DEF NewCall
<1> QED
  BY <1>0, <1>4, <1>5, <1>6, <1>10 DEF LimitInv

-----------------------------------------------------------------------------
(* What happens between calls.                                              *)

\* Without a call or a loss of an expiry the calls stay fine.
LEMMA CallsStayFine ==
    ASSUME LimitInv, UNCHANGED <<calls, strategy, unexpiring>>
    PROVE  \A i \in DOMAIN calls' : (FloodFine(i) /\ PatientFine(i))'
<1>1. ASSUME NEW i \in DOMAIN calls PROVE (FloodFine(i) /\ PatientFine(i))'
  <2>1. \A j : SameKey(i, j)' <=> SameKey(i, j)
    BY DEF SameKey
  <2>2. Counted(i)' = Counted(i)
    BY <2>1 DEF Counted, Admitted
  <2>3. FloodFine(i) /\ PatientFine(i)
    BY DEF LimitInv
  <2> QED
    BY <2>1, <2>2, <2>3 DEF FloodFine, PatientFine, MostInAStretch
<1> QED
  BY <1>1

\* Fewer calls count later.
LEMMA LateShrinks ==
    ASSUME LimiterTypeOK, NEW k, NEW s \in Int, NEW t \in Int, s <= t, Cardinality(Late(k, s)) < Limit
    PROVE  Cardinality(Late(k, t)) < Limit
<1>1. Late(k, t) \subseteq Late(k, s)
  BY CallsTyped DEF Late
<1>2. Cardinality(Late(k, t)) <= Cardinality(Late(k, s))
  BY <1>1, LateFinite, FS_Subset
<1> QED
  BY <1>1, <1>2, LateFinite, CallsTyped

\* The key of an address stays as fine as it was while nothing of it changes.
LEMMA KeyStays ==
    ASSUME NEW a, UNCHANGED <<clock, calls>>, counter'[a] = counter[a]
    PROVE  KeyFine(a)' <=> KeyFine(a)
<1>1. Through(a)' = Through(a)
  BY DEF Through
<1>2. \A cur : Before(a, cur, clock)' = Before(a, cur, clock)
  BY <1>1 DEF Before
<1> QED
  BY <1>1, <1>2 DEF KeyFine

LEMMA CleanupKeeps == LimitInv /\ Cleanup => LimitInv'
<1> SUFFICES ASSUME LimitInv, Cleanup PROVE LimitInv'
  OBVIOUS
<1>0. LimiterTypeOK /\ UNCHANGED <<strategy, clock, counter, log, calls, unexpiring>>
  BY DEF LimitInv, Cleanup
<1>1. clock \in Nat /\ Window \in Nat \ {0} /\ Limit \in Nat \ {0} /\ Len(calls) \in Nat
  BY <1>0, CallsTyped
<1>2. ASSUME NEW k \in Keys
      PROVE  /\ bucket[k] \in Count
             /\ bucket'[k] = IF bucket[k].end # Off /\ clock > bucket[k].end THEN NoBucket ELSE bucket[k]
  BY <1>0 DEF LimiterTypeOK, Keys, Cleanup
<1>3. NoBucket \in Count /\ NoBucket.count = 0 /\ NoBucket.end = Off
  BY BoundsAssumption DEF NoBucket, Count
<1>4. bucket' \in [Keys -> Count]
  <2>1. bucket' = [k \in Keys |->
                     IF bucket[k].end # Off /\ clock > bucket[k].end THEN NoBucket ELSE bucket[k]]
    BY <1>0 DEF Cleanup, LimiterTypeOK, Keys
  <2> QED
    BY <1>2, <1>3, <2>1
<1>5. LimiterTypeOK'
  <2>1. \A k \in Keys : bucket'[k].end = Off <=> bucket'[k].count = 0
    BY <1>0, <1>2, <1>3 DEF LimiterTypeOK, Keys
  <2> QED
    BY <1>0, <1>4, <2>1 DEF LimiterTypeOK, Keys
<1>6. ASSUME strategy = "memory", NEW k \in Keys PROVE BucketFine(k)'
  <2>0. \A t : Late(k, t)' = Late(k, t)
    BY <1>0 DEF Late, KeyOf
  <2>1. BucketFine(k)
    BY <1>6 DEF LimitInv
  <2>2. CASE bucket[k].end # Off /\ clock > bucket[k].end
    <3>1. bucket'[k].end = Off
      BY <1>2, <1>3, <2>2
    <3>2. PICK e \in Nat : e = bucket[k].end
      <4>1. bucket[k].end \in 0..(MaxNow + Window) \union {Off}
        BY <1>2 DEF Count
      <4> QED
        BY <2>2, <4>1
    <3>3. Running(k, bucket[k].count, e)
      BY <2>1, <2>2, <3>2 DEF BucketFine
    <3>4. PICK x \in {bucket[k].count} : Running(k, x, e)
      BY <3>3
    <3>5. Quiet(k)
      BY <1>0, <1>1, <2>2, <3>2, <3>4, BucketOver
    <3>6. Quiet(k)'
      BY <1>0, <2>0, <3>5 DEF Quiet, KeyOf
    <3> QED
      BY <3>1, <3>6 DEF BucketFine
  <2>3. CASE ~(bucket[k].end # Off /\ clock > bucket[k].end)
    <3>1. bucket'[k] = bucket[k]
      BY <1>2, <2>3
    <3>2. Quiet(k)' <=> Quiet(k)
      BY <1>0, <2>0 DEF Quiet, KeyOf
    <3>3. Running(k, bucket[k].count, bucket[k].end)' <=> Running(k, bucket[k].count, bucket[k].end)
      BY <1>0, <2>0, <3>1 DEF Running, KeyOf
    <3> QED
      BY <2>1, <3>1, <3>2, <3>3 DEF BucketFine
  <2> QED
    BY <2>2, <2>3
<1>7. strategy = "sliding" => \A k \in Keys : LogFine(k)'
  BY <1>0 DEF LimitInv, LogFine, Late, KeyOf
<1>8. strategy = "redis" => \A a \in Addresses : CounterFine(a)' /\ KeyFine(a)'
  <2>1. \A a \in Addresses : counter'[a] = counter[a]
    BY <1>0
  <2>2. \A a \in Addresses : KeyFine(a)' <=> KeyFine(a)
    BY <1>0, <2>1, KeyStays
  <2> QED
    BY <1>0, <2>2 DEF LimitInv, CounterFine
<1>9. \A i \in DOMAIN calls' : (FloodFine(i) /\ PatientFine(i))'
  BY <1>0, CallsStayFine
<1>10. /\ \A k \in Keys : bucket'[k].count <= Len(calls')
       /\ \A a \in Addresses : counter'[a].count <= Len(calls')
  BY <1>0, <1>1, <1>2, <1>3 DEF LimitInv
<1> QED
  BY <1>0, <1>5, <1>6, <1>7, <1>8, <1>9, <1>10 DEF LimitInv

LEMMA ExpireKeeps ==
    ASSUME LimitInv, NEW a \in Addresses, ExpireKey(a)
    PROVE  LimitInv'
<1>0. LimiterTypeOK /\ UNCHANGED <<strategy, clock, bucket, log, calls, unexpiring>>
  BY DEF LimitInv, ExpireKey
<1>1. NoBucket \in Count /\ NoBucket.count = 0 /\ NoBucket.end = Off
  BY BoundsAssumption DEF NoBucket, Count
<1>2. /\ counter'[a] = NoBucket /\ \A q \in Addresses : q # a => counter'[q] = counter[q]
      /\ counter' \in [Addresses -> Count]
  BY <1>0, <1>1 DEF ExpireKey, LimiterTypeOK
<1>3. LimiterTypeOK'
  BY <1>0, <1>1, <1>2 DEF LimiterTypeOK
<1>t. Through(a)' = Through(a) /\ \A q \in Addresses : Through(q)' = Through(q)
  BY <1>0 DEF Through
<1>e. strategy = "redis" => KeyFine(a)'
  <2>1. SUFFICES ASSUME strategy = "redis" PROVE KeyFine(a)'
    OBVIOUS
  <2>2. PICK cur \in SUBSET Through(a) :
            /\ Cardinality(cur) <= Limit
            /\ clock <= counter[a].end
            /\ \A j \in Through(a) \ cur : calls[j].at + Window <= counter[a].end
            /\ \E j \in cur : calls[j].at + Window = counter[a].end
    BY <2>1 DEF LimitInv, KeyFine, ExpireKey
  <2>3. PICK first \in cur : calls[first].at + Window = counter[a].end
    BY <2>2
  <2>4. /\ clock \in Nat /\ Limit \in Nat \ {0} /\ Window \in Nat
        /\ counter[a].end \in Nat /\ clock >= counter[a].end
        /\ \A j \in DOMAIN calls : calls[j].at \in Nat
    <3>1. counter[a].end \in 0..(MaxNow + Window) \union {Off} /\ counter[a].end # Off
      BY <1>0 DEF LimiterTypeOK, Count, ExpireKey
    <3> QED
      BY <1>0, <3>1, CallsTyped DEF ExpireKey
  <2>5. Before(a, {}, clock)' \subseteq cur \ {first}
    <3>1. ASSUME NEW j \in Before(a, {}, clock)' PROVE j \in cur \ {first}
      <4>1. j \in Through(a) /\ calls[j].at \in Nat /\ calls[j].at + Window > clock
        BY <1>0, <1>t, <2>4 DEF Before, Through
      <4> QED
        BY <2>2, <2>3, <2>4, <4>1
    <3> QED
      BY <3>1
  <2>6. IsFiniteSet(cur)
    <3>1. cur \subseteq DOMAIN calls /\ DOMAIN calls = 1..Len(calls) /\ Len(calls) \in Nat
      BY <1>0, CallsTyped DEF Through
    <3>2. IsFiniteSet(DOMAIN calls)
      BY <3>1, UpToIsFinite
    <3> QED
      BY <3>1, <3>2, FS_Subset
  <2>7. IsFiniteSet(cur \ {first}) /\ Cardinality(cur \ {first}) = Cardinality(cur) - 1
    BY <2>3, <2>6, FS_RemoveElement
  <2>8. /\ Cardinality(Before(a, {}, clock)') <= Cardinality(cur \ {first})
        /\ IsFiniteSet(Before(a, {}, clock)')
    BY <2>5, <2>7, FS_Subset
  <2>9. Cardinality(Before(a, {}, clock)') \in Nat /\ Cardinality(cur) \in Nat
    BY <2>6, <2>8, FS_CardinalityType
  <2>10. Cardinality(Before(a, {}, clock)') < Limit
    BY <2>2, <2>4, <2>7, <2>8, <2>9
  <2>11. Cardinality({}) <= counter'[a].count /\ Cardinality({}) <= Limit
    BY <1>1, <1>2, <2>4, FS_EmptySet
  <2> QED
    BY <1>1, <1>2, <2>10, <2>11 DEF KeyFine
<1>4. ASSUME NEW q \in Addresses
      PROVE  (strategy = "redis" => CounterFine(q)' /\ KeyFine(q)') /\ counter'[q].count <= Len(calls')
  <2>1. CASE q = a
    BY <1>0, <1>1, <1>2, <1>e, <2>1, CallsTyped, SMTT(30) DEF CounterFine
  <2>2. CASE q # a
    <3>1. counter'[q] = counter[q]
      BY <1>2, <2>2
    <3>2. KeyFine(q)' <=> KeyFine(q)
      BY <1>0, <3>1, KeyStays
    <3> QED
      BY <1>0, <3>1, <3>2 DEF CounterFine, LimitInv
  <2> QED
    BY <2>1, <2>2
<1>5. \A k \in Keys : strategy = "memory" => BucketFine(k)'
  <2> TAKE k \in Keys
  <2>1. \A t : Late(k, t)' = Late(k, t)
    BY <1>0, Zenon DEF Late, KeyOf
  <2>2. Quiet(k)' <=> Quiet(k)
    BY <1>0, <2>1 DEF Quiet, KeyOf
  <2>3. ASSUME NEW count, NEW end
        PROVE  Running(k, count, end)' <=> Running(k, count, end)
    <3>1. Late(k, end)' = Late(k, end) /\ Late(k, end - Window + 1)' = Late(k, end - Window + 1)
      BY <2>1, Zenon
    <3> QED
      BY <1>0, <3>1 DEF Running, KeyOf
  <2>4. BucketFine(k)' <=> BucketFine(k)
    BY <1>0, <2>2, <2>3 DEF BucketFine
  <2> QED
    BY <1>0, <2>4 DEF LimitInv
<1>6. \A k \in Keys : strategy = "sliding" => LogFine(k)'
  BY <1>0 DEF LimitInv, LogFine, Late, KeyOf
<1>7. \A i \in DOMAIN calls' : (FloodFine(i) /\ PatientFine(i))'
  BY <1>0, CallsStayFine
<1>8. \A k \in Keys : bucket'[k].count <= Len(calls')
  BY <1>0 DEF LimitInv
<1> QED
  BY <1>0, <1>3, <1>4, <1>5, <1>6, <1>7, <1>8 DEF LimitInv

LEMMA PassKeeps == LimitInv /\ Pass => LimitInv'
<1> SUFFICES ASSUME LimitInv, Pass PROVE LimitInv'
  OBVIOUS
<1>0. /\ LimiterTypeOK /\ UNCHANGED <<strategy, bucket, counter, log, calls, unexpiring>>
      /\ clock' = clock + 1 /\ clock < MaxNow
  BY DEF LimitInv, Pass
<1>1. /\ clock \in Nat /\ Window \in Nat \ {0} /\ Limit \in Nat \ {0} /\ MaxNow \in Nat
      /\ \A j \in DOMAIN calls : calls[j].at \in Nat /\ calls[j].at <= clock
  BY <1>0, CallsTyped
<1>2. LimiterTypeOK'
  <2>1. clock' \in 0..MaxNow
    BY <1>0, <1>1
  <2>2. \A i \in DOMAIN calls' : calls'[i].at <= clock'
    BY <1>0, <1>1
  <2> QED
    BY <1>0, <2>1, <2>2 DEF LimiterTypeOK
<1>3. ASSUME NEW k, NEW t PROVE Late(k, t)' = Late(k, t)
  BY <1>0 DEF Late, KeyOf
<1>4. ASSUME strategy = "memory", NEW k \in Keys PROVE BucketFine(k)'
  <2>1. BucketFine(k)
    BY <1>4 DEF LimitInv
  <2>2. CASE bucket[k].end = Off
    <3>1. Quiet(k)
      BY <2>1, <2>2 DEF BucketFine
    <3>2. Cardinality(Late(k, clock + 1)) < Limit
      BY <1>0, <1>1, <3>1, LateShrinks DEF Quiet
    <3>3. \A j \in DOMAIN calls : KeyOf(j) = k => calls[j].at < clock + 1
      BY <1>1
    <3>4. Late(k, clock)' = Late(k, clock + 1)
      BY <1>0 DEF Late, KeyOf
    <3>5. Quiet(k)'
      BY <1>0, <3>2, <3>3, <3>4 DEF Quiet, KeyOf
    <3> QED
      BY <1>0, <2>2, <3>5 DEF BucketFine
  <2>3. CASE bucket[k].end # Off
    <3>1. PICK e \in Nat, x \in {bucket[k].count} : e = bucket[k].end /\ x = bucket[k].count
      <4>1. bucket[k] \in Count
        BY <1>0 DEF LimiterTypeOK, Keys
      <4>2. bucket[k].end \in 0..(MaxNow + Window) \union {Off}
        BY <4>1 DEF Count
      <4> QED
        BY <2>3, <4>2
    <3>2. Running(k, x, e)
      BY <2>1, <2>3, <3>1 DEF BucketFine
    <3>3. e <= clock' + Window
      BY <1>0, <1>1, <3>2 DEF Running
    <3>4. Running(k, x, e)'
      BY <1>0, <1>3, <3>2, <3>3 DEF Running, KeyOf
    <3> QED
      BY <1>0, <2>3, <3>1, <3>4 DEF BucketFine
  <2> QED
    BY <2>2, <2>3
<1>5. ASSUME strategy = "sliding", NEW k \in Keys PROVE LogFine(k)'
  <2>1. LogFine(k)
    BY <1>5 DEF LimitInv
  <2>2. Late(k, clock + 2) \subseteq Late(k, clock + 1)
    BY <1>0, <1>1 DEF Late
  <2>3. Late(k, clock + 1)' = Late(k, clock + 2)
    <3>1. clock' + 1 = clock + 2
      BY <1>0, <1>1
    <3> QED
      BY <1>0, <3>1 DEF Late, KeyOf
  <2> QED
    BY <1>0, <2>1, <2>2, <2>3 DEF LogFine, KeyOf
<1>6. ASSUME strategy = "redis", NEW a \in Addresses PROVE CounterFine(a)' /\ KeyFine(a)'
  <2>1. CounterFine(a) /\ KeyFine(a)
    BY <1>6 DEF LimitInv
  <2>2. counter[a].end # Off => counter[a].end \in Nat /\ clock < counter[a].end
    <3>1. counter[a].end \in 0..(MaxNow + Window) \union {Off}
      BY <1>0 DEF LimiterTypeOK, Count
    <3> QED
      BY <3>1 DEF Pass
  <2>3. counter[a].end # Off => clock' <= counter'[a].end
    BY <1>0, <1>1, <2>2
  <2>4. PICK cur \in SUBSET Through(a) :
            /\ Cardinality(cur) <= counter[a].count /\ Cardinality(cur) <= Limit
            /\ Cardinality(Before(a, cur, clock)) < Limit
            /\ counter[a].end # Off =>
                  /\ \A j \in Through(a) \ cur : calls[j].at + Window <= counter[a].end
                  /\ \E j \in cur : calls[j].at + Window = counter[a].end
    BY <2>1 DEF KeyFine
  <2>5. Cardinality(Before(a, cur, clock)') < Limit
    <3>1. Before(a, cur, clock)' \subseteq Before(a, cur, clock)
      BY <1>0, <1>1 DEF Before, Through
    <3>2. IsFiniteSet(Before(a, cur, clock))
      <4>1. Before(a, cur, clock) \subseteq DOMAIN calls /\ DOMAIN calls = 1..Len(calls) /\ Len(calls) \in Nat
        BY <1>0, CallsTyped DEF Before, Through
      <4>2. IsFiniteSet(DOMAIN calls)
        BY <4>1, UpToIsFinite
      <4> QED
        BY <4>1, <4>2, FS_Subset
    <3>3. /\ Cardinality(Before(a, cur, clock)') <= Cardinality(Before(a, cur, clock))
          /\ IsFiniteSet(Before(a, cur, clock)')
      BY <3>1, <3>2, FS_Subset
    <3>4. Cardinality(Before(a, cur, clock)') \in Nat /\ Cardinality(Before(a, cur, clock)) \in Nat
      BY <3>2, <3>3, FS_CardinalityType
    <3> QED
      BY <1>1, <2>4, <3>3, <3>4
  <2>6. Through(a)' = Through(a)
    BY <1>0 DEF Through
  <2>7. KeyFine(a)'
    BY <1>0, <2>3, <2>4, <2>5, <2>6 DEF KeyFine
  <2> QED
    BY <1>0, <2>1, <2>3, <2>7 DEF CounterFine
<1>7. \A i \in DOMAIN calls' : (FloodFine(i) /\ PatientFine(i))'
  BY <1>0, CallsStayFine
<1>8. /\ \A k \in Keys : bucket'[k].count <= Len(calls')
      /\ \A a \in Addresses : counter'[a].count <= Len(calls')
  BY <1>0 DEF LimitInv
<1> QED
  BY <1>0, <1>2, <1>4, <1>5, <1>6, <1>7, <1>8 DEF LimitInv

-----------------------------------------------------------------------------
(* The counter in Redis and the sliding window.                             *)

\* A call that leaves the counter of its address at m, with the end f.
Kept(a, m, f) == counter' = [counter EXCEPT ![a] = [count |-> m, end |-> f]]

\* A call that is refused only where calls were counted; one that is let through either is
\* the next that the key counts, within the limit, or was not answered.
CountedAnswer(route, a, m, f) ==
    \E ok, lost \in BOOLEAN :
        /\ Noted(route, a, ok, lost)
        /\ ~ok => counter[a].count > 0
        /\ ~ok \/ lost => counter[a].count <= m /\ f = counter[a].end
        /\ ok /\ ~lost =>
              /\ m = counter[a].count + 1 /\ m <= Limit
              /\ \/ counter[a].count > 0 /\ f = counter[a].end
                 \/ counter[a].count = 0 /\ f \in {Off, clock + Window}

LEMMA RedisKeeps ==
    ASSUME LimitInv, strategy = "redis", Len(calls) < MaxCalls,
           UNCHANGED <<strategy, clock, bucket, log>>,
           NEW route \in LimitedRoutes, NEW a \in Addresses, NEW m \in Nat, NEW f,
           CountedAnswer(route, a, m, f), Kept(a, m, f),
           m <= counter[a].count + 1, f \in {counter[a].end, Off, clock + Window}, f # Off => m > 0,
           unexpiring' \in {unexpiring, unexpiring \union {a}},
           a \notin unexpiring' /\ m > 0 =>
               (counter[a].count > 0 /\ f = counter[a].end) \/ f = clock + Window
    PROVE  LimitInv'
<1>0. LimiterTypeOK
  BY DEF LimitInv
<1>1. /\ clock \in Nat /\ Window \in Nat \ {0} /\ Limit \in Nat \ {0} /\ Len(calls) \in Nat
      /\ clock \in 0..MaxNow /\ MaxNow \in Nat /\ MaxCalls \in Nat
      /\ \A j \in DOMAIN calls : calls[j].at \in Nat
  <2>1. clock \in 0..MaxNow
    BY <1>0 DEF LimiterTypeOK
  <2> QED
    BY <1>0, <2>1, CallsTyped
<1>k. PICK k \in Keys : k = <<route, a>>
  BY DEF Keys
<1>a. PICK ok \in BOOLEAN, lost \in BOOLEAN :
          /\ Noted(route, a, ok, lost)
          /\ ~ok => counter[a].count > 0
          /\ ~ok \/ lost => counter[a].count <= m /\ f = counter[a].end
          /\ ok /\ ~lost =>
                /\ m = counter[a].count + 1 /\ m <= Limit
                /\ \/ counter[a].count > 0 /\ f = counter[a].end
                   \/ counter[a].count = 0 /\ f \in {Off, clock + Window}
  BY DEF CountedAnswer
<1>n. PICK n \in Nat :
          /\ NewCall(n) /\ Len(calls') = n /\ KeyOf(n)' = k /\ calls'[n].address = a
          /\ calls'[n].at = clock /\ calls'[n].allowed = ok /\ n \in DOMAIN calls'
          /\ calls'[n].blind = lost
          /\ calls' \in Seq(Call) /\ \A i \in DOMAIN calls' : calls'[i].at <= clock
          /\ 1..(n - 1) = DOMAIN calls
  BY <1>0, <1>a, <1>k, CallTypes
<1>2. /\ counter[a] \in Count /\ counter[a].count \in 0..MaxCalls
      /\ counter[a].end \in 0..(MaxNow + Window) \union {Off} /\ counter[a].count <= Len(calls)
  <2>1. counter[a] \in Count
    BY <1>0 DEF LimiterTypeOK
  <2> QED
    BY <2>1 DEF LimitInv, Count
<1>3. /\ counter'[a].count = m /\ counter'[a].end = f
      /\ \A q \in Addresses : q # a => counter'[q] = counter[q]
  BY <1>0 DEF Kept, LimiterTypeOK
<1>4. /\ unexpiring \subseteq unexpiring' /\ unexpiring' \subseteq Addresses
      /\ \A q \in Addresses : q # a => (q \in unexpiring' <=> q \in unexpiring)
      /\ a \notin unexpiring' => a \notin unexpiring
  BY <1>0 DEF Kept, LimiterTypeOK
<1>5. LimiterTypeOK'
  <2>1. m \in 0..MaxCalls /\ f \in 0..(MaxNow + Window) \union {Off}
    BY <1>1, <1>2
  <2>2. [count |-> m, end |-> f] \in Count
    BY <2>1 DEF Count
  <2>3. counter' \in [Addresses -> Count]
    BY <1>0, <2>2 DEF LimiterTypeOK, Kept
  <2>4. \A q \in Addresses : counter'[q].end # Off => counter'[q].count > 0
    BY <1>0, <1>3 DEF LimiterTypeOK
  <2>6. log' \in [Keys -> SUBSET (DOMAIN calls')]
    BY <1>0, <1>n DEF LimiterTypeOK, NewCall, Keys
  <2> QED
    BY <1>0, <1>4, <1>n, <2>3, <2>4, <2>6 DEF LimiterTypeOK, Keys
<1>6. ASSUME NEW q \in Addresses PROVE CounterFine(q)'
  <2>1. CounterFine(q)
    BY DEF LimitInv
  <2>2. \A j \in DOMAIN calls : calls'[j] = calls[j] /\ j \in DOMAIN calls'
    BY <1>n DEF NewCall
  <2>3. CASE q # a
    BY <1>3, <1>4, <2>1, <2>2, <2>3 DEF CounterFine
  <2>4. CASE q = a
    <3>1. SUFFICES ASSUME a \notin unexpiring', m > 0
                   PROVE  /\ f # Off /\ clock <= f
                          /\ \E j \in DOMAIN calls' : calls'[j].address = a /\ calls'[j].at + Window >= f
      BY <1>3, <1>4, <2>4 DEF CounterFine
    <3>2. CASE counter[a].count > 0 /\ f = counter[a].end
      BY <1>4, <2>1, <2>2, <2>4, <3>1, <3>2 DEF CounterFine
    <3>3. CASE f = clock + Window
      <4>1. f \in Nat /\ clock <= f /\ clock + Window >= f
        BY <1>1, <3>3
      <4> QED
        BY <1>n, <4>1, LimiterAssumption
    <3> QED
      BY <3>1, <3>2, <3>3
  <2> QED
    BY <2>3, <2>4
<1>y. ASSUME NEW q \in Addresses PROVE KeyFine(q)'
  <2>0. /\ KeyFine(q) /\ n \notin DOMAIN calls /\ DOMAIN calls' = DOMAIN calls \union {n}
        /\ \A j \in DOMAIN calls : calls'[j] = calls[j]
    BY <1>n DEF LimitInv, NewCall
  <2>1. PICK cur \in SUBSET Through(q) :
            /\ Cardinality(cur) <= counter[q].count /\ Cardinality(cur) <= Limit
            /\ Cardinality(Before(q, cur, clock)) < Limit
            /\ counter[q].end # Off =>
                  /\ clock <= counter[q].end
                  /\ \A j \in Through(q) \ cur : calls[j].at + Window <= counter[q].end
                  /\ \E j \in cur : calls[j].at + Window = counter[q].end
    BY <2>0 DEF KeyFine
  <2>2. cur \subseteq DOMAIN calls /\ n \notin cur /\ IsFiniteSet(cur) /\ Cardinality(cur) \in Nat
    <3>1. cur \subseteq DOMAIN calls /\ DOMAIN calls = 1..Len(calls)
      BY <1>0, CallsTyped DEF Through
    <3>2. IsFiniteSet(DOMAIN calls)
      BY <1>1, <3>1, UpToIsFinite
    <3> QED
      BY <2>0, <3>1, <3>2, FS_Subset, FS_CardinalityType
  <2>3. CASE q # a \/ ~ok \/ lost
    <3>1. Through(q)' = Through(q)
      BY <1>n, <2>0, <2>3 DEF Through
    <3>2. Before(q, cur, clock)' = Before(q, cur, clock)
      BY <2>0, <3>1 DEF Before, Through
    <3>3. counter'[q].end = counter[q].end /\ counter[q].count <= counter'[q].count
      <4>1. counter[q].count \in Nat
        BY <1>0 DEF LimiterTypeOK, Count
      <4> QED
        BY <1>3, <1>a, <2>3, <4>1
    <3>4. Cardinality(cur) <= counter'[q].count
      <4>1. counter[q].count \in Nat /\ counter'[q].count \in Nat
        BY <1>0, <1>5 DEF LimiterTypeOK, Count
      <4> QED
        BY <2>1, <2>2, <3>3, <4>1
    <3>5. \A j \in Through(q) : calls'[j] = calls[j]
      BY <2>0 DEF Through
    <3> QED
      BY <2>1, <3>1, <3>2, <3>3, <3>4, <3>5 DEF KeyFine
  <2>4. CASE q = a /\ ok /\ ~lost
    <3>1. Through(a)' = Through(a) \union {n}
      BY <1>n, <2>0, <2>4 DEF Through
    <3>2. Before(a, cur \union {n}, clock)' = Before(a, cur, clock)
      BY <2>0, <3>1 DEF Before, Through
    <3>3. Cardinality(cur \union {n}) = Cardinality(cur) + 1
      BY <2>2, FS_AddElement
    <3>4. Cardinality(cur \union {n}) <= counter'[a].count /\ Cardinality(cur \union {n}) <= Limit
      BY <1>1, <1>2, <1>3, <1>a, <2>1, <2>2, <2>4, <3>3
    <3>5. \A j \in Through(a) : calls'[j] = calls[j] /\ calls[j].at \in Nat /\ calls[j].at <= clock
      BY <1>0, <2>0, CallsTyped DEF Through
    <3>6. counter'[a].end # Off =>
              /\ clock <= counter'[a].end
              /\ \A j \in Through(a) \ cur : calls[j].at + Window <= counter'[a].end
              /\ \E j \in cur \union {n} : calls'[j].at + Window = counter'[a].end
      <4>1. CASE counter[a].count > 0 /\ f = counter[a].end
        BY <1>3, <2>1, <2>4, <3>5, <4>1
      <4>2. CASE counter[a].count = 0 /\ f \in {Off, clock + Window}
        BY <1>1, <1>3, <1>n, <3>5, <4>2
      <4> QED
        BY <1>a, <2>4, <4>1, <4>2
    <3>7. cur \union {n} \in SUBSET Through(a)'
      BY <2>4, <3>1
    <3> DEFINE now == cur \union {n}
    <3>8. Through(a)' \ now \subseteq Through(a) \ cur
      BY <3>1
    <3>9. /\ now \in SUBSET Through(a)'
          /\ Cardinality(now) <= counter'[a].count /\ Cardinality(now) <= Limit
          /\ Cardinality(Before(a, now, clock)') < Limit
          /\ counter'[a].end # Off =>
                /\ clock <= counter'[a].end
                /\ \A j \in Through(a)' \ now : calls'[j].at + Window <= counter'[a].end
                /\ \E j \in now : calls'[j].at + Window = counter'[a].end
      BY <2>1, <2>4, <3>2, <3>4, <3>5, <3>6, <3>7, <3>8
    <3> HIDE DEF now
    <3> QED
      BY <2>4, <3>9 DEF KeyFine
  <2> QED
    BY <2>3, <2>4
<1>7. FloodFine(n)'
  <2>1. PICK cur \in SUBSET Through(a)' :
            Cardinality(cur) <= Limit /\ Cardinality(Before(a, cur, clock)') < Limit
    BY <1>y DEF KeyFine
  <2>2. Counted(n)' \subseteq cur \union Before(a, cur, clock)'
    <3>1. ASSUME NEW j \in Counted(n)' PROVE j \in Through(a)' /\ calls'[j].at + Window > clock
      BY <1>n DEF Counted, Admitted, SameKey, Through, NewCall
    <3> QED
      BY <3>1 DEF Before
  <2>3. IsFiniteSet(cur) /\ IsFiniteSet(Before(a, cur, clock)')
    <3>1. /\ cur \subseteq DOMAIN calls' /\ Before(a, cur, clock)' \subseteq DOMAIN calls'
          /\ DOMAIN calls' = 1..n
      BY <1>n DEF Before, Through
    <3>2. IsFiniteSet(DOMAIN calls')
      BY <3>1, UpToIsFinite
    <3> QED
      BY <3>1, <3>2, FS_Subset
  <2>4. Cardinality(Counted(n)') <= 2 * Limit - 1
    BY <1>1, <2>1, <2>2, <2>3, TwoWindows
  <2> QED
    BY <2>4 DEF FloodFine, MostInAStretch
<1>8. PatientFine(n)'
  <2>1. SUFFICES ASSUME ~ok, a \notin unexpiring'
                 PROVE \E j \in 1..(n - 1) : SameKey(n, j)' /\ calls'[j].at + Window >= calls'[n].at
    BY <1>n DEF PatientFine
  <2>2. CounterFine(a) /\ counter[a].count > 0 /\ a \notin unexpiring
    BY <1>4, <1>a, <2>1 DEF LimitInv
  <2>3. PICK j \in DOMAIN calls : calls[j].address = a /\ calls[j].at + Window >= counter[a].end
    BY <2>2 DEF CounterFine
  <2>4. clock <= counter[a].end /\ counter[a].end \in Nat
    BY <1>2, <2>2 DEF CounterFine
  <2>5. calls'[j] = calls[j] /\ j \in 1..(n - 1)
    BY <1>n DEF NewCall
  <2>6. SameKey(n, j)'
    BY <1>n, <2>3, <2>5 DEF SameKey
  <2>7. calls'[j].at + Window >= calls'[n].at
    BY <1>1, <1>n, <2>3, <2>4, <2>5
  <2> QED
    BY <2>5, <2>6, <2>7
<1>9. \A i \in DOMAIN calls : (FloodFine(i) /\ PatientFine(i))'
  BY <1>4, <1>a, OldCallsFine
<1>10. \A i \in DOMAIN calls' : FloodFine(i)' /\ PatientFine(i)'
  BY <1>7, <1>8, <1>9, <1>n DEF NewCall
<1>11. /\ \A q \in Keys : bucket'[q].count <= Len(calls')
       /\ \A q \in Addresses : counter'[q].count <= Len(calls')
  <2>1. \A q \in Keys : bucket[q].count \in Nat /\ bucket[q].count <= Len(calls)
    BY <1>0, <1>1 DEF LimitInv, LimiterTypeOK, Count, Keys
  <2>2. \A q \in Addresses : counter[q].count \in Nat /\ counter[q].count <= Len(calls)
    BY <1>0, <1>1 DEF LimitInv, LimiterTypeOK, Count
  <2>3. n = Len(calls) + 1 /\ m <= Len(calls) + 1
    BY <1>1, <1>2, <1>n DEF NewCall
  <2>4. ASSUME NEW q \in Addresses PROVE counter'[q].count <= Len(calls')
    BY <1>1, <1>3, <1>n, <2>2, <2>3
  <2> QED
    BY <1>1, <1>n, <2>1, <2>3, <2>4
<1> QED
  BY <1>5, <1>6, <1>y, <1>10, <1>11 DEF LimitInv

LEMMA AllowRedisKeeps ==
    ASSUME LimitInv, NEW route \in LimitedRoutes, NEW a \in Addresses, AllowRedis(route, a),
           Len(calls) < MaxCalls
    PROVE  LimitInv'
<1>0. LimiterTypeOK /\ strategy = "redis" /\ UNCHANGED <<strategy, clock, bucket, log>>
  BY DEF LimitInv, AllowRedis
<1>1. clock \in Nat /\ Window \in Nat \ {0} /\ Limit \in Nat \ {0}
  BY <1>0, CallsTyped
<1>2. PICK x \in Nat, e \in {counter[a].end} : counter[a].count = x /\ counter[a].end = e /\ (e # Off => x > 0)
  <2>1. counter[a] \in Count
    BY <1>0 DEF LimiterTypeOK
  <2> QED
    BY <1>0, <2>1 DEF LimiterTypeOK, Count
<1>3. PICK ok \in BOOLEAN : (ok <=> x + 1 <= Limit) /\ Noted(route, a, ok, FALSE)
  <2>1. Noted(route, a, x + 1 <= Limit, FALSE)
    BY <1>2 DEF AllowRedis
  <2>2. (x + 1 <= Limit) \in BOOLEAN
    OBVIOUS
  <2> QED
    BY <2>1, <2>2, Zenon
<1>a. ASSUME NEW f, x > 0 => f = e, x = 0 => f \in {Off, clock + Window}
      PROVE  CountedAnswer(route, a, x + 1, f)
  <2>1. /\ ~ok => counter[a].count > 0
        /\ ~ok => counter[a].count <= x + 1 /\ f = counter[a].end
        /\ ok =>
              /\ x + 1 = counter[a].count + 1 /\ x + 1 <= Limit
              /\ \/ counter[a].count > 0 /\ f = counter[a].end
                 \/ counter[a].count = 0 /\ f \in {Off, clock + Window}
    BY <1>1, <1>2, <1>3, <1>a
  <2> QED
    BY <1>3, <2>1 DEF CountedAnswer
<1>4. \/ Kept(a, x + 1, IF x + 1 = 1 THEN clock + Window ELSE e) /\ unexpiring' = unexpiring
      \/ x + 1 = 1 /\ Kept(a, x + 1, Off) /\ unexpiring' = unexpiring \union {a}
  BY <1>2 DEF AllowRedis, Kept
<1>5. x + 1 = 1 <=> x = 0
  OBVIOUS
<1>6. CASE x + 1 = 1 /\ Kept(a, x + 1, clock + Window) /\ unexpiring' = unexpiring
  BY <1>0, <1>1, <1>2, <1>a, <1>6, RedisKeeps, SMTT(30)
<1>7. CASE x > 0 /\ Kept(a, x + 1, e) /\ unexpiring' = unexpiring
  BY <1>0, <1>1, <1>2, <1>a, <1>7, RedisKeeps, SMTT(30)
<1>8. CASE x + 1 = 1 /\ Kept(a, x + 1, Off) /\ unexpiring' = unexpiring \union {a}
  BY <1>0, <1>1, <1>2, <1>a, <1>8, RedisKeeps, SMTT(30)
<1> QED
  BY <1>4, <1>5, <1>6, <1>7, <1>8

LEMMA AllowBlindlyKeeps ==
    ASSUME LimitInv, NEW route \in LimitedRoutes, NEW a \in Addresses, AllowBlindly(route, a),
           Len(calls) < MaxCalls
    PROVE  LimitInv'
<1>0. /\ LimiterTypeOK /\ strategy = "redis" /\ UNCHANGED <<strategy, clock, bucket, log>>
      /\ Noted(route, a, TRUE, TRUE)
  BY DEF LimitInv, AllowBlindly
<1>2. PICK x \in Nat, e \in {counter[a].end} :
          /\ counter[a].count = x /\ counter[a].end = e /\ (e # Off => x > 0)
          /\ counter[a] = [count |-> x, end |-> e]
  <2>1. counter[a] \in Count
    BY <1>0 DEF LimiterTypeOK
  <2> QED
    BY <1>0, <2>1 DEF LimiterTypeOK, Count
<1>a. ASSUME NEW m \in Nat, x <= m PROVE CountedAnswer(route, a, m, e)
  BY <1>0, <1>2, <1>a DEF CountedAnswer
<1>3. \/ Kept(a, x, e) /\ unexpiring' = unexpiring
      \/ Kept(a, x + 1, e) /\ unexpiring' = IF x = 0 THEN unexpiring \union {a} ELSE unexpiring
  <2>1. CASE UNCHANGED <<counter, unexpiring>>
    BY <1>0, <1>2, <2>1 DEF Kept, LimiterTypeOK
  <2>2. CASE /\ counter' = [counter EXCEPT ![a].count = @ + 1]
             /\ unexpiring' = IF counter[a].count = 0 THEN unexpiring \union {a} ELSE unexpiring
    <3>1. [counter[a] EXCEPT !.count = @ + 1] = [count |-> x + 1, end |-> e]
      BY <1>2
    <3>2. counter' = [counter EXCEPT ![a] = [counter[a] EXCEPT !.count = @ + 1]]
      BY <2>2
    <3> QED
      BY <1>2, <2>2, <3>1, <3>2 DEF Kept
  <2> QED
    BY <1>0, <2>1, <2>2 DEF AllowBlindly
<1>4. CASE Kept(a, x, e) /\ unexpiring' = unexpiring
  BY <1>0, <1>2, <1>a, <1>4, RedisKeeps, SMTT(30)
<1>5. CASE Kept(a, x + 1, e) /\ unexpiring' = IF x = 0 THEN unexpiring \union {a} ELSE unexpiring
  BY <1>0, <1>2, <1>a, <1>5, RedisKeeps, SMTT(30)
<1> QED
  BY <1>3, <1>4, <1>5

LEMMA AllowWithInfoKeeps ==
    ASSUME LimitInv, NEW route \in LimitedRoutes, NEW a \in Addresses, AllowWithInfo(route, a),
           Len(calls) < MaxCalls
    PROVE  LimitInv'
<1>0. LimiterTypeOK /\ strategy = "sliding" /\ UNCHANGED <<strategy, clock, bucket, counter, unexpiring>>
  BY DEF LimitInv, AllowWithInfo
<1>1. /\ clock \in Nat /\ Window \in Nat \ {0} /\ Limit \in Nat \ {0} /\ Len(calls) \in Nat
      /\ \A j \in DOMAIN calls : calls[j].at \in Nat
  BY <1>0, CallsTyped
<1>k. PICK k \in Keys : k = <<route, a>>
  BY DEF Keys
<1> DEFINE valid == {i \in log[k] : calls[i].at + Window > clock}
<1>v. valid \subseteq log[k] /\ log[k] \subseteq DOMAIN calls
  BY <1>0 DEF LimiterTypeOK, Keys
<1>2. PICK ok \in BOOLEAN :
          /\ ok <=> Cardinality(valid) < Limit
          /\ Noted(route, a, ok, FALSE)
          /\ log' = IF ok THEN [log EXCEPT ![k] = valid \union {Len(calls) + 1}] ELSE log
  <2>1. /\ Noted(route, a, Cardinality(valid) < Limit, FALSE)
        /\ log' = IF Cardinality(valid) < Limit
                  THEN [log EXCEPT ![k] = valid \union {Len(calls) + 1}] ELSE log
    BY <1>k, Zenon DEF AllowWithInfo
  <2>2. (Cardinality(valid) < Limit) \in BOOLEAN
    OBVIOUS
  <2> HIDE DEF valid
  <2> QED
    BY <2>1, <2>2, Zenon
<1>l. PICK lost \in BOOLEAN : lost = FALSE /\ Noted(route, a, ok, lost)
  BY <1>2, Zenon
<1>n. PICK n \in Nat :
          /\ NewCall(n) /\ Len(calls') = n /\ KeyOf(n)' = k /\ calls'[n].address = a
          /\ calls'[n].at = clock /\ calls'[n].allowed = ok /\ n \in DOMAIN calls'
          /\ calls' \in Seq(Call) /\ \A i \in DOMAIN calls' : calls'[i].at <= clock
          /\ 1..(n - 1) = DOMAIN calls
  BY <1>0, <1>l, <1>k, CallTypes
<1>3. /\ n \notin DOMAIN calls /\ DOMAIN calls' = DOMAIN calls \union {n} /\ n = Len(calls) + 1
      /\ \A j \in DOMAIN calls : calls'[j] = calls[j] /\ KeyOf(j)' = KeyOf(j)
  BY <1>n DEF NewCall, KeyOf
<1>4. /\ log'[k] = IF ok THEN valid \union {n} ELSE log[k]
      /\ \A q \in Keys : q # k => log'[q] = log[q]
      /\ log' \in [Keys -> SUBSET (DOMAIN calls')]
  BY <1>0, <1>2, <1>3, <1>v DEF LimiterTypeOK, Keys
<1>5. LimiterTypeOK'
  BY <1>0, <1>4, <1>n DEF LimiterTypeOK, Keys
<1>6. \A q \in Keys : LogFine(q)
  BY <1>0 DEF LimitInv
<1>7. IsFiniteSet(valid) /\ Cardinality(valid) \in Nat
  <2>1. IsFiniteSet(DOMAIN calls)
    BY <1>0, CallsTyped, UpToIsFinite
  <2> QED
    BY <1>v, <2>1, FS_Subset, FS_CardinalityType
<1>8. Cardinality(log'[k]) <= Limit
  <2>1. CASE ok
    <3>1. n \notin valid
      BY <1>3, <1>v
    <3>2. Cardinality(valid \union {n}) = Cardinality(valid) + 1
      BY <1>7, <3>1, FS_AddElement
    <3>3. log'[k] = valid \union {n} /\ Cardinality(valid) < Limit
      BY <1>2, <1>4, <2>1
    <3>4. Cardinality(valid) + 1 <= Limit
      BY <1>1, <1>7, <3>3
    <3> QED
      BY <3>2, <3>3, <3>4
  <2>2. CASE ~ok
    BY <1>4, <1>6, <2>2 DEF LogFine
  <2> QED
    BY <2>1, <2>2
<1>9. Late(k, clock + 1)' \subseteq log'[k]
  <2>1. \A j \in Late(k, clock + 1) : j \in log[k] /\ j \in valid
    BY <1>1, <1>6 DEF LogFine, Late
  <2>2. Late(k, clock + 1)' \subseteq Late(k, clock + 1) \union {n}
    BY <1>0, <1>3 DEF Late
  <2>3. n \in Late(k, clock + 1)' => ok
    BY <1>n DEF Late
  <2> QED
    BY <1>4, <2>1, <2>2, <2>3
<1>10. ASSUME NEW q \in Keys PROVE LogFine(q)'
  <2>1. CASE q = k
    <3>1. \A j \in log'[k] : KeyOf(j)' = k
      BY <1>3, <1>4, <1>6, <1>n, <1>v DEF LogFine
    <3> QED
      BY <1>8, <1>9, <2>1, <3>1 DEF LogFine
  <2>2. CASE q # k
    <3>1. Late(q, clock + 1)' = Late(q, clock + 1)
      BY <1>0, <1>3, <1>n, <2>2 DEF Late
    <3>2. log'[q] = log[q] /\ log[q] \subseteq DOMAIN calls
      BY <1>0, <1>4, <2>2 DEF LimiterTypeOK, Keys
    <3> QED
      BY <1>3, <1>6, <3>1, <3>2 DEF LogFine
  <2> QED
    BY <2>1, <2>2
<1>11. FloodFine(n)'
  <2>1. Counted(n)' \subseteq log'[k]
    <3>1. \A j \in DOMAIN calls' : calls'[j].at \in Nat
      BY <1>1, <1>3, <1>n
    <3>2. Counted(n)' \subseteq Late(k, clock + 1)'
      <4>1. ASSUME NEW j \in Counted(n)' PROVE j \in Late(k, clock + 1)'
        <5>1. j \in DOMAIN calls' /\ KeyOf(j)' = k /\ calls'[j].allowed
          BY <1>0, <1>n DEF Counted, Admitted, SameKey, KeyOf, NewCall
        <5>2. calls'[j].at + Window > clock
          BY <1>n DEF Counted, Admitted
        <5>3. calls'[j].at + Window >= clock' + 1
          BY <1>0, <1>1, <3>1, <5>1, <5>2
        <5> QED
          BY <5>1, <5>3 DEF Late
      <4> QED
        BY <4>1
    <3> QED
      BY <1>9, <3>2
  <2>2. IsFiniteSet(log'[k])
    <3>1. DOMAIN calls' = 1..n /\ log'[k] \subseteq DOMAIN calls'
      BY <1>4, <1>n
    <3>2. IsFiniteSet(DOMAIN calls')
      BY <3>1, UpToIsFinite
    <3> QED
      BY <3>1, <3>2, FS_Subset
  <2>3. Cardinality(Counted(n)') <= Cardinality(log'[k]) /\ IsFiniteSet(Counted(n)')
    BY <2>1, <2>2, FS_Subset
  <2>4. Cardinality(Counted(n)') \in Nat /\ Cardinality(log'[k]) \in Nat
    BY <2>2, <2>3, FS_CardinalityType
  <2>5. Cardinality(Counted(n)') <= Limit
    BY <1>1, <1>8, <2>3, <2>4
  <2> QED
    BY <1>0, <2>5 DEF FloodFine, MostInAStretch
<1>12. PatientFine(n)'
  <2>1. SUFFICES ASSUME ~ok
                 PROVE \E j \in 1..(n - 1) : SameKey(n, j)' /\ calls'[j].at + Window >= calls'[n].at
    BY <1>n DEF PatientFine
  <2>2. valid # {}
    <3>1. Cardinality(valid) # 0
      BY <1>1, <1>2, <1>7, <2>1
    <3> QED
      BY <3>1, FS_EmptySet
  <2>3. PICK j \in valid : TRUE
    BY <2>2
  <2>4. j \in DOMAIN calls /\ KeyOf(j) = k /\ calls[j].at + Window > clock
    BY <1>6, <1>v, <2>3 DEF LogFine
  <2>5. calls'[j] = calls[j] /\ j \in 1..(n - 1)
    BY <1>3, <1>n, <2>4
  <2>6. SameKey(n, j)'
    BY <1>n, <2>4, <2>5 DEF SameKey, KeyOf
  <2>7. calls'[j].at + Window >= calls'[n].at
    BY <1>1, <1>n, <2>4, <2>5
  <2> QED
    BY <2>5, <2>6, <2>7
<1>13. \A i \in DOMAIN calls : (FloodFine(i) /\ PatientFine(i))'
  BY <1>0, <1>2, OldCallsFine
<1>14. \A i \in DOMAIN calls' : FloodFine(i)' /\ PatientFine(i)'
  BY <1>11, <1>12, <1>13, <1>3
<1>15. /\ \A q \in Keys : bucket'[q].count <= Len(calls')
       /\ \A q \in Addresses : counter'[q].count <= Len(calls')
  <2>1. \A q \in Keys : bucket[q].count \in Nat /\ bucket[q].count <= Len(calls)
    BY <1>0, <1>1 DEF LimitInv, LimiterTypeOK, Count, Keys
  <2>2. \A q \in Addresses : counter[q].count \in Nat /\ counter[q].count <= Len(calls)
    BY <1>0, <1>1 DEF LimitInv, LimiterTypeOK, Count
  <2> QED
    BY <1>0, <1>1, <1>3, <1>n, <2>1, <2>2
<1> QED
  BY <1>0, <1>5, <1>10, <1>14, <1>15 DEF LimitInv

-----------------------------------------------------------------------------
(* The theorem.                                                             *)

LEMMA LimitNextInv == LimitInv /\ [LimiterNext]_limiterVars => LimitInv'
<1> SUFFICES ASSUME LimitInv, [LimiterNext]_limiterVars PROVE LimitInv'
  OBVIOUS
<1>1. CASE Pass
  BY <1>1, PassKeeps
<1>2. CASE Cleanup
  BY <1>2, CleanupKeeps
<1>3. ASSUME NEW a \in Addresses, ExpireKey(a) PROVE LimitInv'
  BY <1>3, ExpireKeeps
<1>4. ASSUME NEW route \in LimitedRoutes, NEW a \in Addresses, Len(calls) < MaxCalls,
             Allow(route, a) \/ AllowRedis(route, a) \/ AllowBlindly(route, a) \/ AllowWithInfo(route, a)
      PROVE  LimitInv'
  BY <1>4, AllowKeeps, AllowRedisKeeps, AllowBlindlyKeeps, AllowWithInfoKeeps
<1>5. CASE UNCHANGED limiterVars
  <2> USE <1>5 DEF limiterVars
  <2>1. LimiterTypeOK'
    BY DEF LimitInv, LimiterTypeOK
  <2>2. \A k, t : Late(k, t)' = Late(k, t)
    BY DEF Late, KeyOf
  <2>3. \A k \in Keys : (BucketFine(k)' <=> BucketFine(k)) /\ (LogFine(k)' <=> LogFine(k))
    BY <2>2 DEF BucketFine, Running, Quiet, LogFine, KeyOf
  <2>4. \A a \in Addresses : (CounterFine(a)' <=> CounterFine(a)) /\ (KeyFine(a)' <=> KeyFine(a))
    BY DEF CounterFine, KeyFine, Through, Before
  <2>5. \A i \in DOMAIN calls' : (FloodFine(i) /\ PatientFine(i))'
    BY CallsStayFine
  <2> QED
    BY <2>1, <2>3, <2>4, <2>5 DEF LimitInv
<1> QED
  BY <1>1, <1>2, <1>3, <1>4, <1>5 DEF LimiterNext

\* Whichever of the three limiters is configured, for every limit and window: of the calls
\* it counts only so many get through in a stretch as long as the window, and who keeps
\* quiet is let in again unless its key in Redis was left without expiry
\* (Allow, Cleanup, AllowRedis, AllowBlindly, AllowWithInfo).
THEOREM LimitsHold == LimiterSpec => []LimitsAreKept
<1>1. LimiterInit => LimitInv
  BY LimitInitInv
<1>2. LimitInv /\ [LimiterNext]_limiterVars => LimitInv'
  BY LimitNextInv
<1>3. LimitInv => LimitsAreKept
  BY LimitInvMeans
<1> QED
  BY <1>1, <1>2, <1>3, PTL DEF LimiterSpec

-----------------------------------------------------------------------------
(* Deduplication, for any number of equal requests.                         *)

\* A mutex is known to others only once its request has passed the map.
MutexIsPublished == \A r, s \in Requests : mutex[r] = s => phase[s] # "arriving"

DedupSafe ==
    /\ DedupTypeOK
    /\ MutexHeldByOne
    /\ EntryIsLive
    /\ MutexIsPublished

USE NobodyAssumption

THEOREM DedupInitSafe == DedupInit => DedupSafe
BY DEF DedupInit, DedupSafe, DedupTypeOK, MutexHeldByOne, EntryIsLive, MutexIsPublished, Holds

\* Moving one request on changes no other request.
LEMMA GotoOne ==
    ASSUME DedupTypeOK, NEW r \in Requests, NEW s, Turn(r, s)
    PROVE  phase'[r] = s /\ \A q \in Requests \ {r} : phase'[q] = phase[q]
BY DEF DedupTypeOK, Turn

LEMMA RegisterSafe ==
    ASSUME DedupSafe, NEW r \in Requests, Register(r)
    PROVE  DedupSafe'
<1> USE DEF DedupSafe
<1>1. phase'[r] = "handling" /\ \A q \in Requests \ {r} : phase'[q] = phase[q]
  BY GotoOne DEF Register
<1>2. /\ mutex'[r] = r /\ locked'[r] = TRUE
      /\ \A q \in Requests \ {r} : mutex'[q] = mutex[q] /\ locked'[q] = locked[q]
  BY DEF Register, DedupTypeOK
<1>3. DedupTypeOK'
  BY <1>1, <1>2 DEF Register, DedupTypeOK, Turn
<1>4. \A q \in Requests : mutex[q] # r
  BY DEF Register, MutexIsPublished
<1>5. MutexHeldByOne'
  <2>1. Holds(r)' /\ \A q \in Requests \ {r} : Holds(q)' <=> Holds(q)
    BY <1>1 DEF Holds
  <2>2. ASSUME NEW m \in Requests
        PROVE  locked'[m] <=> \E q \in Requests : mutex'[q] = m /\ Holds(q)'
    <3>1. CASE m = r
      BY <1>2, <2>1, <3>1
    <3>2. CASE m # r
      <4>1. ~Holds(r)
        BY DEF Holds, Register
      <4>2. locked'[m] = locked[m]
        BY <1>2, <3>2
      <4>3. \A q \in Requests : mutex'[q] = m /\ Holds(q)' <=> mutex[q] = m /\ Holds(q)
        BY <1>2, <2>1, <3>2, <4>1
      <4>4. locked[m] <=> \E q \in Requests : mutex[q] = m /\ Holds(q)
        BY DEF MutexHeldByOne
      <4> QED
        BY <4>2, <4>3, <4>4
    <3> QED
      BY <3>1, <3>2
  <2>3. ASSUME NEW p \in Requests, NEW q \in Requests,
               Holds(p)', Holds(q)', mutex'[p] = mutex'[q]
        PROVE  p = q
    BY <1>2, <1>4, <2>1, <2>3 DEF MutexHeldByOne
  <2> QED
    BY <2>2, <2>3 DEF MutexHeldByOne
<1>6. EntryIsLive'
  BY <1>1, <1>2 DEF EntryIsLive, Register
<1>7. MutexIsPublished'
  BY <1>1, <1>2 DEF MutexIsPublished
<1> QED
  BY <1>3, <1>5, <1>6, <1>7

LEMMA FindSafe ==
    ASSUME DedupSafe, NEW r \in Requests, Find(r)
    PROVE  DedupSafe'
<1> USE DEF DedupSafe
<1>1. phase'[r] = "found" /\ \A q \in Requests \ {r} : phase'[q] = phase[q]
  BY GotoOne DEF Find
<1>2. /\ mutex'[r] = inflight /\ inflight \in Requests
      /\ \A q \in Requests \ {r} : mutex'[q] = mutex[q]
  BY DEF Find, DedupTypeOK
<1>3. DedupTypeOK'
  BY <1>1, <1>2 DEF Find, DedupTypeOK, Turn
<1>4. phase[inflight] = "handling" /\ inflight # r
  BY <1>2 DEF Find, EntryIsLive
<1>5. ~Holds(r) /\ ~Holds(r)'
  BY <1>1 DEF Holds, Find
<1>6. \A q \in Requests \ {r} : Holds(q)' <=> Holds(q)
  BY <1>1 DEF Holds
<1>7. MutexHeldByOne'
  BY <1>2, <1>5, <1>6 DEF MutexHeldByOne, Find
<1>8. EntryIsLive'
  BY <1>1, <1>2, <1>4 DEF EntryIsLive, Find
<1>9. MutexIsPublished'
  BY <1>1, <1>2, <1>4 DEF MutexIsPublished, Find
<1> QED
  BY <1>3, <1>7, <1>8, <1>9

LEMMA RejectSafe ==
    ASSUME DedupSafe, NEW r \in Requests, Reject(r)
    PROVE  DedupSafe'
<1> USE DEF DedupSafe
<1>1. phase'[r] = "rejected" /\ \A q \in Requests \ {r} : phase'[q] = phase[q]
  BY GotoOne DEF Reject
<1>2. DedupTypeOK'
  BY <1>1 DEF Reject, DedupTypeOK, Turn
<1>3. \A q \in Requests : Holds(q)' <=> Holds(q)
  BY <1>1 DEF Holds, Reject
<1>4. MutexHeldByOne'
  BY <1>3 DEF MutexHeldByOne, Reject
<1>5. EntryIsLive' /\ MutexIsPublished'
  BY <1>1 DEF EntryIsLive, MutexIsPublished, Reject, DedupTypeOK
<1> QED
  BY <1>2, <1>4, <1>5

LEMMA EnterSafe ==
    ASSUME DedupSafe, NEW r \in Requests, Enter(r)
    PROVE  DedupSafe'
<1> USE DEF DedupSafe
<1>1. phase'[r] = "handling" /\ \A q \in Requests \ {r} : phase'[q] = phase[q]
  BY GotoOne DEF Enter
<1>2. mutex[r] \in Requests
  BY DEF Enter, DedupTypeOK
<1>3. /\ locked'[mutex[r]] = TRUE
      /\ \A q \in Requests : q # mutex[r] => locked'[q] = locked[q]
  BY <1>2 DEF Enter, DedupTypeOK
<1>4. DedupTypeOK'
  BY <1>1, <1>2 DEF Enter, DedupTypeOK, Turn
<1>5. \A q \in Requests : mutex[q] = mutex[r] => ~Holds(q)
  BY <1>2 DEF Enter, MutexHeldByOne
<1>6. Holds(r)' /\ \A q \in Requests \ {r} : Holds(q)' <=> Holds(q)
  BY <1>1 DEF Holds
<1>7. mutex' = mutex
  BY DEF Enter
<1>8. MutexHeldByOne'
  BY <1>2, <1>3, <1>5, <1>6, <1>7 DEF MutexHeldByOne
<1>9. EntryIsLive' /\ MutexIsPublished'
  BY <1>1 DEF EntryIsLive, MutexIsPublished, Enter, DedupTypeOK
<1> QED
  BY <1>4, <1>8, <1>9

LEMMA DeregisterSafe ==
    ASSUME DedupSafe, NEW r \in Requests, Deregister(r)
    PROVE  DedupSafe'
<1> USE DEF DedupSafe
<1>1. phase'[r] = "leaving" /\ \A q \in Requests \ {r} : phase'[q] = phase[q]
  BY GotoOne DEF Deregister
<1>2. DedupTypeOK'
  BY <1>1 DEF Deregister, DedupTypeOK, Turn
<1>3. \A q \in Requests : Holds(q)' <=> Holds(q)
  BY <1>1 DEF Holds, Deregister
<1>4. MutexHeldByOne'
  BY <1>3 DEF MutexHeldByOne, Deregister
<1>5. EntryIsLive' /\ MutexIsPublished'
  BY <1>1 DEF EntryIsLive, MutexIsPublished, Deregister, DedupTypeOK
<1> QED
  BY <1>2, <1>4, <1>5

LEMMA UnlockSafe ==
    ASSUME DedupSafe, NEW r \in Requests, Unlock(r)
    PROVE  DedupSafe'
<1> USE DEF DedupSafe
<1>1. phase'[r] = "done" /\ \A q \in Requests \ {r} : phase'[q] = phase[q]
  BY GotoOne DEF Unlock
<1>2. mutex[r] \in Requests /\ Holds(r)
  BY DEF Unlock, DedupTypeOK, Holds
<1>3. /\ locked'[mutex[r]] = FALSE
      /\ \A q \in Requests : q # mutex[r] => locked'[q] = locked[q]
  BY <1>2 DEF Unlock, DedupTypeOK
<1>4. DedupTypeOK'
  BY <1>1, <1>2 DEF Unlock, DedupTypeOK, Turn
<1>5. \A q \in Requests \ {r} : mutex[q] = mutex[r] => ~Holds(q)
  BY <1>2 DEF MutexHeldByOne
<1>6. ~Holds(r)' /\ \A q \in Requests \ {r} : Holds(q)' <=> Holds(q)
  BY <1>1 DEF Holds
<1>7. mutex' = mutex /\ inflight' = inflight
  BY DEF Unlock
<1>8. MutexHeldByOne'
  BY <1>2, <1>3, <1>5, <1>6, <1>7 DEF MutexHeldByOne
<1>9. inflight # r
  BY DEF Unlock, EntryIsLive
<1>10. EntryIsLive' /\ MutexIsPublished'
  BY <1>1, <1>7, <1>9 DEF EntryIsLive, MutexIsPublished, DedupTypeOK
<1> QED
  BY <1>4, <1>8, <1>10

\* Every step of the middleware preserves DedupSafe.
THEOREM DedupNextSafe == DedupSafe /\ [DedupNext]_dedupVars => DedupSafe'
<1> SUFFICES ASSUME DedupSafe, [DedupNext]_dedupVars PROVE DedupSafe'
  OBVIOUS
<1>1. CASE UNCHANGED dedupVars
  BY <1>1 DEF dedupVars, DedupSafe, DedupTypeOK, MutexHeldByOne, EntryIsLive, MutexIsPublished, Holds
<1>2. ASSUME NEW r \in Requests, Step(r) PROVE DedupSafe'
  BY <1>2, RegisterSafe, FindSafe, RejectSafe, EnterSafe, DeregisterSafe, UnlockSafe
     DEF Step
<1> QED
  BY <1>1, <1>2 DEF DedupNext

\* DedupSafe holds in every reachable state, for any number of requests.
THEOREM DedupAlwaysSafe == DedupSpec => []DedupSafe
BY DedupInitSafe, DedupNextSafe, PTL DEF DedupSpec

\* A mutex is locked exactly while one request works under it, for any number
\* of equal requests.
THEOREM MutexHeldByOneHolds == DedupSpec => []MutexHeldByOne
<1>1. DedupSafe => MutexHeldByOne
  BY DEF DedupSafe
<1> QED
  BY <1>1, DedupAlwaysSafe, PTL

\* The entry of the map always belongs to a request being handled.
THEOREM EntryIsLiveHolds == DedupSpec => []EntryIsLive
<1>1. DedupSafe => EntryIsLive
  BY DEF DedupSafe
<1> QED
  BY <1>1, DedupAlwaysSafe, PTL

\* What RejectedWhenBusy asks of a step.
RejectsWhenBusy ==
    \A r \in Requests :
        phase'[r] = "rejected" /\ phase[r] # "rejected" => \E s \in Requests \ {r} : Holds(s)

\* Nobody is refused unless another equal request is still under way.
THEOREM RejectedWhenBusyHolds == DedupSpec => RejectedWhenBusy
<1>1. DedupSafe /\ [DedupNext]_dedupVars => [RejectsWhenBusy]_dedupVars
  <2> SUFFICES ASSUME DedupSafe, NEW r \in Requests, Step(r) PROVE RejectsWhenBusy
    BY DEF DedupNext
  <2>1. CASE Reject(r)
    <3>1. mutex[r] \in Requests /\ locked[mutex[r]]
      BY <2>1 DEF Reject, DedupSafe, DedupTypeOK
    <3>2. PICK s \in Requests : Holds(s)
      BY <3>1 DEF DedupSafe, MutexHeldByOne
    <3>3. s # r
      BY <2>1, <3>2 DEF Reject, Holds
    <3>4. \A q \in Requests \ {r} : phase'[q] = phase[q]
      BY <2>1, GotoOne DEF Reject, DedupSafe
    <3> QED
      BY <3>2, <3>3, <3>4 DEF RejectsWhenBusy
  <2>2. CASE ~Reject(r)
    <3>1. \A q \in Requests : phase'[q] = "rejected" => phase[q] = "rejected"
      BY <2>2, GotoOne DEF Step, Register, Find, Enter, Deregister, Unlock, DedupSafe
    <3> QED
      BY <3>1 DEF RejectsWhenBusy
  <2> QED
    BY <2>1, <2>2
<1>2. RejectedWhenBusy <=> [][RejectsWhenBusy]_dedupVars
  BY DEF RejectedWhenBusy, RejectsWhenBusy
<1> QED
  BY <1>1, <1>2, DedupAlwaysSafe, PTL DEF DedupSpec

\* The variables are well typed in every reachable state, and a request past the map has a mutex to work with.
THEOREM DedupTypeCorrect == DedupSpec => []DedupTypeOK
<1>1. DedupSafe => DedupTypeOK
  BY DEF DedupSafe
<1> QED
  BY <1>1, DedupAlwaysSafe, PTL

\* For any number of requests no entry and no lock outlives its request (dedup.go).
THEOREM DedupIsSafeHolds == DedupSpec => []DedupIsSafe
BY DedupTypeCorrect, MutexHeldByOneHolds, EntryIsLiveHolds, PTL DEF DedupIsSafe
=============================================================================
