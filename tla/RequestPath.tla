---------------------------- MODULE RequestPath ----------------------------
(***************************************************************************)
(* The chain of middleware every request runs through (internal/transport/ *)
(* http/router.go; from the outside in: version.go, recovery.go,           *)
(* routetimeout.go, compression.go, bodylimit.go, responsecache.go) with   *)
(* the response cache as its state, and what is behind it: the probe of    *)
(* the instance (readiness.go, health/checker.go), pages whose content     *)
(* others change, pages that depend on who asks, and pages for the         *)
(* internal networks only, whose guard (internal_only.go) is behind the    *)
(* cache too.  The deduplication of heavy requests is in Dedup; tracing    *)
(* and headers are left out.                                               *)
(***************************************************************************)
EXTENDS Naturals, FiniteSets

CONSTANTS
    Gets,          \* GET requests
    Ready,          \* the path of the probe
    Pages,          \* public paths
    Private,        \* paths whose answer depends on the caller
    Internal,       \* paths for callers from the internal networks: metrics, API docs
    MaxEntries,     \* capacity of the response cache
    Ttl,            \* lifetime of an entry
    MaxTime,        \* bound of the clock
    MaxVersion,     \* bound of the changes of a page
    Absent          \* no value, no identity

Paths == {Ready} \union Pages \union Private \union Internal

ASSUME PathsAssumption ==
    /\ Ready \notin Pages \union Private \union Internal
    /\ Pages \intersect Private = {}
    /\ Internal \intersect (Pages \union Private) = {}
ASSUME CacheAssumption == MaxEntries \in Nat \ {0} /\ Ttl \in Nat \ {0}
ASSUME CallersAssumption == Absent \notin Gets
ASSUME ClockAssumption == MaxTime \in Nat /\ MaxVersion \in Nat

VARIABLES
    time,
    version,    \* of every page
    entries,    \* the response cache: what is stored under a path, or NoEntry
    get,        \* the requests
    changed     \* history: when the pages were changed last

pathVars == <<time, version, entries, get, changed>>

NoEntry == [code |-> 0, content |-> Absent, read |-> 0, expires |-> 0, packed |-> FALSE]
Stored == {p \in Paths : entries[p] # NoEntry}

Fresh == [step |-> "idle", path |-> Ready, caller |-> Absent, inside |-> FALSE, gzip |-> FALSE,
          code |-> 0, content |-> Absent, packed |-> FALSE, read |-> 0, hit |-> FALSE, stored |-> 0, at |-> 0]

PathInit ==
    /\ time = 0
    /\ version = [p \in Pages |-> 0]
    /\ entries = [p \in Paths |-> NoEntry]
    /\ get = [c \in Gets |-> Fresh]
    /\ changed = [p \in Pages |-> 0]

\* Only the request goes on.
Goes(c, g) ==
    /\ get' = [get EXCEPT ![c] = g]
    /\ UNCHANGED <<time, version, entries, changed>>

-----------------------------------------------------------------------------
(* On the way in *)

\* An unknown version of the API, and a body announced too large.
Version(c) ==
    /\ get[c].step = "idle"
    /\ Goes(c, [get[c] EXCEPT !.step = "done", !.code = 400])

BodySizeLimit(c) ==
    /\ get[c].step = "idle"
    /\ Goes(c, [get[c] EXCEPT !.step = "done", !.code = 413])

\* The request as it reaches the response cache; inside: from an internal address.
Arrive(c, path, caller, inside, gzip) ==
    /\ get[c].step = "idle"
    /\ Goes(c, [get[c] EXCEPT !.step = "looking", !.path = path, !.caller = caller,
                              !.inside = inside, !.gzip = gzip])

\* isIdentityBearerRequest: a session or CSRF cookie of either application, or
\* any Authorization header.  The address is not looked at.
Identified(c) == get[c].caller # Absent

\* Mutant of Get: the expiry is not looked at.
GetForever(c) == ~Identified(c) /\ entries[get[c].path] # NoEntry

\* responseCache.Get.
Get(c) ==
    /\ ~Identified(c)
    /\ entries[get[c].path] # NoEntry /\ time <= entries[get[c].path].expires

\* A stored answer, with the headers it was stored with.
Hit(c) ==
    /\ get[c].step = "looking" /\ Get(c)
    /\ LET e == entries[get[c].path] IN
       Goes(c, [get[c] EXCEPT !.step = "flush", !.code = e.code, !.content = e.content,
                              !.packed = e.packed, !.read = e.read, !.hit = TRUE,
                              !.stored = e.expires - Ttl, !.at = time])

Miss(c) ==
    /\ get[c].step = "looking" /\ ~Get(c)
    /\ Goes(c, [get[c] EXCEPT !.step = "handler"])

-----------------------------------------------------------------------------
(* The handlers *)

\* Checker.Ready: the probes of database and Redis, within their timeouts; 503 if one
\* fails, as it may at any time.
Probe(c) ==
    /\ get[c].step = "handler" /\ get[c].path = Ready
    /\ \E verdict \in {200, 503} :
          Goes(c, [get[c] EXCEPT !.step = "written", !.read = time, !.content = Ready,
                                 !.code = verdict])

\* What is decided by who asks (requireUser) and from where (InternalOnlyMiddleware).
Verdict(g) ==
    IF g.path \in Private /\ g.caller = Absent THEN 401
    ELSE IF g.path \in Internal /\ ~g.inside THEN 403 ELSE 200

\* A public page shows its version as read now; what the other pages show is left out.
Serve(c) ==
    /\ get[c].step = "handler" /\ get[c].path # Ready
    /\ Goes(c, [get[c] EXCEPT !.step = "written",
            !.read = IF get[c].path \in Pages THEN time ELSE @,
            !.content = IF get[c].path \in Pages THEN version[get[c].path] ELSE 0,
            !.code = Verdict(get[c])])

\* The deadline of the route, or another failure of what the handler calls.
FailHandler(c) ==
    /\ get[c].step = "handler"
    /\ Goes(c, [get[c] EXCEPT !.step = "written", !.code = 500])

\* A panic passes the cache and the buffer of the compression, which is dropped;
\* PanicRecoveryMiddleware answers 500.
Panic(c) ==
    /\ get[c].step = "handler"
    /\ Goes(c, [get[c] EXCEPT !.step = "done", !.code = 500])

-----------------------------------------------------------------------------
(* On the way out *)

Oldest == {p \in Stored : \A q \in Stored : entries[p].expires <= entries[q].expires}

\* Mutant of Cacheable: errors are stored too.
CacheableAll(c) == ~Identified(c)

\* Only 2xx without cookies, and only for callers without identity.
Cacheable(c) == ~Identified(c) /\ get[c].code \in 200..299

NewEntry(c) ==
    [code |-> get[c].code, content |-> get[c].content, read |-> get[c].read, expires |-> time + Ttl,
     packed |-> get[c].packed]

\* responseCache.Set: when full, an entry that expires first makes room, even if
\* the path is there already.
SetEntry(c) ==
    IF Cardinality(Stored) < MaxEntries
    THEN entries' = [entries EXCEPT ![get[c].path] = NewEntry(c)]
    ELSE \E p \in Oldest : entries' = [entries EXCEPT ![p] = NoEntry, ![get[c].path] = NewEntry(c)]

\* Mutant of Store: the body is packed before it is stored.
StorePacked(c) ==
    /\ get[c].step = "written"
    /\ IF Cacheable(c) THEN entries' = [entries EXCEPT ![get[c].path] = [NewEntry(c) EXCEPT !.packed = get[c].gzip]]
       ELSE UNCHANGED entries
    /\ get' = [get EXCEPT ![c].step = "flush"]
    /\ UNCHANGED <<time, version, changed>>

\* The handler's answer passes the response cache.
Store(c) ==
    /\ get[c].step = "written"
    /\ get' = [get EXCEPT ![c].step = "flush"]
    /\ IF Cacheable(c) THEN SetEntry(c) ELSE UNCHANGED entries
    /\ UNCHANGED <<time, version, changed>>

\* compressionWriter.Flush packs large texts for those who accept it.
Flush(c) ==
    /\ get[c].step = "flush"
    /\ \E packed \in {FALSE, get[c].gzip} :
          Goes(c, [get[c] EXCEPT !.step = "done", !.packed = packed \/ get[c].packed])

-----------------------------------------------------------------------------
(* The world *)

Change(p) ==
    /\ version[p] < MaxVersion
    /\ version' = [version EXCEPT ![p] = @ + 1]
    /\ changed' = [changed EXCEPT ![p] = time]
    /\ UNCHANGED <<time, entries, get>>

Later ==
    /\ time < MaxTime
    /\ time' = time + 1
    /\ UNCHANGED <<version, entries, get, changed>>

\* The address matters for the internal pages only.
Addressed(path) == IF path \in Internal THEN BOOLEAN ELSE {FALSE}

PathNext ==
    \/ Later
    \/ \E p \in Pages : Change(p)
    \/ \E c \in Gets :
          \/ Version(c) \/ BodySizeLimit(c) \/ Hit(c) \/ Miss(c) \/ Probe(c) \/ Serve(c)
          \/ FailHandler(c) \/ Panic(c) \/ Store(c) \/ Flush(c)
          \/ \E path \in Paths, caller \in {Absent, c}, gzip \in BOOLEAN :
                \E inside \in Addressed(path) : Arrive(c, path, caller, inside, gzip)

PathSpec == PathInit /\ [][PathNext]_pathVars
-----------------------------------------------------------------------------
(* Properties *)

Codes == {0, 200, 400, 401, 403, 413, 500, 503}
Contents == {Absent, Ready} \union 0..MaxVersion
EntryType == [code : Codes, content : Contents, read : 0..MaxTime, expires : 0..(MaxTime + Ttl),
              packed : BOOLEAN]
GetType ==
    [step : {"idle", "looking", "handler", "written", "flush", "done"}, path : Paths,
     caller : Gets \union {Absent}, inside : BOOLEAN, gzip : BOOLEAN, code : Codes, content : Contents,
     packed : BOOLEAN, read : 0..MaxTime, hit : BOOLEAN, stored : 0..MaxTime, at : 0..MaxTime]

\* The type; the cache stays within its capacity, and the lifetime of what it holds
\* begins when it is stored.
PathTypeOK ==
    /\ time \in 0..MaxTime
    /\ version \in [Pages -> 0..MaxVersion] /\ changed \in [Pages -> 0..time]
    /\ entries \in [Paths -> EntryType] /\ get \in [Gets -> GetType]
    /\ Cardinality(Stored) <= MaxEntries
    /\ \A p \in Stored : entries[p].expires \in (entries[p].read + Ttl)..(time + Ttl)
    /\ \A c \in Gets : get[c].caller \in {Absent, c}

\* What is stored was answered to a request without identity with success, and a
\* request with identity gets an answer of its own.
StoredIsAnonymous ==
    /\ \A p \in Stored : entries[p].code = 200 /\ p \notin Private
    /\ \A c \in Gets : get[c].hit => ~Identified(c) /\ get[c].path \notin Private

\* Who gets a page could have had it from the handler with the same request, but for the
\* internal pages: one that was answered to a caller inside is given to callers outside
\* as well, from the cache and no longer than the lifetime of the entry.
SuccessIsEarned ==
    \A c \in Gets :
        get[c].code = 200 /\ Verdict(get[c]) # 200 =>
            get[c].path \in Internal /\ get[c].hit /\ get[c].at <= get[c].stored + Ttl

\* Internal pages are for internal addresses only (internal_only.go:8).
InternalStaysInside ==
    \A c \in Gets : get[c].path \in Internal /\ get[c].code = 200 => get[c].inside

\* An outdated page is shown from the cache for no longer than the lifetime of an
\* entry after the change, unless a request that had read the page before the change
\* stored it after (the handler has taken its time: read < stored).
OutdatedForTtl ==
    \A c \in Gets :
        get[c].hit /\ get[c].path \in Pages /\ get[c].read = get[c].stored
            /\ get[c].content # version[get[c].path]
        => get[c].at <= changed[get[c].path] + Ttl

\* Whatever was stored for whom, nobody gets a packed body who did not ask for one:
\* the compression is outside of the cache (router.go).
PackedIsWanted == \A c \in Gets : get[c].packed => get[c].gzip

\* What the cache gives: no answer to a request with identity, no error, no page that the
\* caller's own request would be refused unless it is one for internal addresses, no
\* packing that was not asked for, and nothing older than its lifetime allows
\* (ResponseCacheMiddleware, Get and Set of responsecache.go).
CacheIsTransparent ==
    PathTypeOK /\ StoredIsAnonymous /\ SuccessIsEarned /\ OutdatedForTtl /\ PackedIsWanted

\* Who is told that the instance is ready is told of a probe made then, so that one whose
\* probes fail is not put into rotation (readiness.go).  It does not hold: the cache
\* keeps this answer as well.
ReadyIsProbed ==
    \A c \in Gets : get[c].path = Ready /\ get[c].hit => get[c].read = get[c].at
=============================================================================
