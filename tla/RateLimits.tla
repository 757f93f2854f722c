----------------------------- MODULE RateLimits -----------------------------
(***************************************************************************)
(* The rate limiters: the bucket in memory (internal/transport/http/       *)
(* middleware_auth.go), the counter in Redis (rate_limiter_redis.go) and   *)
(* the sliding window of internal/infrastructure/security/ratelimit.go.    *)
(*                                                                         *)
(* Every limited route has a limiter of its own; those in Redis write the  *)
(* same key.  A call takes no time, what happens between two calls (time,  *)
(* the cleanup, the expiry of a key) does.  All routes have the same limit *)
(* and window here.                                                        *)
(***************************************************************************)
EXTENDS Naturals, Sequences, FiniteSets

CONSTANTS
    LimitedRoutes, Addresses,
    Limit, Window,          \* of every limiter
    MaxNow, MaxCalls,       \* bounds of the clock and of the number of calls
    Off                     \* no value

ASSUME LimiterAssumption == {Limit, Window} \subseteq Nat \ {0} /\ Off \notin Nat
ASSUME BoundsAssumption == {MaxNow, MaxCalls} \subseteq Nat

VARIABLES
    strategy,   \* which limiters are in use
    clock,
    bucket,     \* memory: per route and address, the count and the end of the window
    counter,    \* Redis: per address, the count and the expiry of the key (Off: none)
    log,        \* sliding window: per route and address, when calls were admitted
    calls,      \* history: the calls so far
    unexpiring  \* history: addresses whose key was left without expiry

limiterVars == <<strategy, clock, bucket, counter, log, calls, unexpiring>>

NoBucket == [count |-> 0, end |-> Off]
Strategies == {"memory", "redis", "sliding"}

\* newRateLimiterStrategy: Redis if it answers the first PING, memory otherwise.
LimiterInit ==
    /\ strategy \in Strategies
    /\ clock = 0
    /\ bucket = [k \in LimitedRoutes \X Addresses |-> NoBucket]
    /\ counter = [a \in Addresses |-> NoBucket]
    /\ log = [k \in LimitedRoutes \X Addresses |-> {}]
    /\ calls = << >>
    /\ unexpiring = {}

\* blind: the call was let through without having been counted against the limit.
Noted(route, a, allowed, blind) ==
    calls' = Append(calls, [route |-> route, address |-> a, at |-> clock,
                            allowed |-> allowed, blind |-> blind])

\* Mutant of Allow: a bucket that is over is not started again.
AllowOnce(route, a) ==
    /\ strategy = "memory"
    /\ LET b == bucket[<<route, a>>]
           next == IF b.end = Off THEN [count |-> 1, end |-> clock + Window]
                  ELSE [b EXCEPT !.count = @ + 1]
       IN bucket' = [bucket EXCEPT ![<<route, a>>] = next] /\ Noted(route, a, next.count <= Limit, FALSE)
    /\ UNCHANGED <<strategy, clock, counter, log, unexpiring>>

\* The bucket in memory.  The first call of a window is always admitted.
Allow(route, a) ==
    /\ strategy = "memory"
    /\ LET b == bucket[<<route, a>>]
           fresh == b.end = Off \/ clock > b.end
           next == IF fresh THEN [count |-> 1, end |-> clock + Window]
                  ELSE [b EXCEPT !.count = @ + 1]
       IN /\ bucket' = [bucket EXCEPT ![<<route, a>>] = next]
          /\ Noted(route, a, fresh \/ next.count <= Limit, FALSE)
    /\ UNCHANGED <<strategy, clock, counter, log, unexpiring>>

\* Mutant of Cleanup: buckets are removed before they are over.
CleanupAll ==
    /\ bucket' = [k \in DOMAIN bucket |-> NoBucket]
    /\ UNCHANGED <<strategy, clock, counter, log, calls, unexpiring>>

\* Every half window: buckets that are over are removed.
Cleanup ==
    /\ bucket' = [k \in DOMAIN bucket |->
                    IF bucket[k].end # Off /\ clock > bucket[k].end THEN NoBucket ELSE bucket[k]]
    /\ UNCHANGED <<strategy, clock, counter, log, calls, unexpiring>>

\* Mutant of AllowRedis: the call after the last one is let through as well.
AllowRedisOneMore(route, a) ==
    /\ strategy = "redis"
    /\ LET n == counter[a].count + 1 IN
       /\ Noted(route, a, counter[a].count <= Limit, FALSE)
       /\ counter' = [counter EXCEPT ![a] = [count |-> n,
                                end |-> IF n = 1 THEN clock + Window ELSE counter[a].end]]
    /\ UNCHANGED <<strategy, clock, bucket, log, unexpiring>>

\* Redis: INCR, and EXPIRE after the first one; its error is not looked at.
AllowRedis(route, a) ==
    /\ strategy = "redis"
    /\ LET n == counter[a].count + 1 IN
       /\ Noted(route, a, n <= Limit, FALSE)
       /\ \/ /\ counter' = [counter EXCEPT ![a] = [count |-> n,
                                end |-> IF n = 1 THEN clock + Window ELSE counter[a].end]]
             /\ UNCHANGED unexpiring
          \/ /\ n = 1
             /\ counter' = [counter EXCEPT ![a] = [count |-> 1, end |-> Off]]
             /\ unexpiring' = unexpiring \union {a}
    /\ UNCHANGED <<strategy, clock, bucket, log>>

\* INCR fails, or is carried out and its answer is late: the request goes on.
AllowBlindly(route, a) ==
    /\ strategy = "redis"
    /\ Noted(route, a, TRUE, TRUE)
    /\ \/ UNCHANGED <<counter, unexpiring>>
       \/ /\ counter' = [counter EXCEPT ![a].count = @ + 1]
          /\ unexpiring' = IF counter[a].count = 0 THEN unexpiring \union {a} ELSE unexpiring
    /\ UNCHANGED <<strategy, clock, bucket, log>>

\* A key is gone from Redis at its expiry.
ExpireKey(a) ==
    /\ counter[a].end # Off /\ clock >= counter[a].end
    /\ counter' = [counter EXCEPT ![a] = NoBucket]
    /\ UNCHANGED <<strategy, clock, bucket, log, calls, unexpiring>>

\* The sliding window counts the admitted calls younger than the window.
\* (log holds the numbers of the calls.)
AllowWithInfo(route, a) ==
    /\ strategy = "sliding"
    /\ LET valid == {i \in log[<<route, a>>] : calls[i].at + Window > clock}
           admitted == Cardinality(valid) < Limit
       IN /\ Noted(route, a, admitted, FALSE)
          /\ log' = IF admitted THEN [log EXCEPT ![<<route, a>>] = valid \union {Len(calls) + 1}] ELSE log
    /\ UNCHANGED <<strategy, clock, bucket, counter, unexpiring>>

Pass ==
    /\ clock < MaxNow
    /\ \A a \in Addresses : counter[a].end # Off => clock < counter[a].end
    /\ clock' = clock + 1
    /\ UNCHANGED <<strategy, bucket, counter, log, calls, unexpiring>>

LimiterNext ==
    \/ Pass \/ Cleanup
    \/ \E a \in Addresses : ExpireKey(a)
    \/ /\ Len(calls) < MaxCalls
       /\ \E route \in LimitedRoutes, a \in Addresses :
             Allow(route, a) \/ AllowRedis(route, a) \/ AllowBlindly(route, a) \/ AllowWithInfo(route, a)

LimiterSpec == LimiterInit /\ [][LimiterNext]_limiterVars

-----------------------------------------------------------------------------
(* Properties *)

\* The calls that the one with number i is counted with: in Redis all routes are.
SameKey(i, j) ==
    calls[i].address = calls[j].address
        /\ (strategy = "redis" \/ calls[i].route = calls[j].route)

Call == [route : LimitedRoutes, address : Addresses, at : 0..MaxNow,
         allowed : BOOLEAN, blind : BOOLEAN]
Count == [count : 0..MaxCalls, end : 0..(MaxNow + Window) \union {Off}]

\* The type; a bucket or key has an end exactly as long as it counts something.
LimiterTypeOK ==
    /\ strategy \in Strategies /\ clock \in 0..MaxNow
    /\ calls \in Seq(Call) /\ \A i \in DOMAIN calls : calls[i].at <= clock
    /\ bucket \in [LimitedRoutes \X Addresses -> Count] /\ counter \in [Addresses -> Count]
    /\ log \in [LimitedRoutes \X Addresses -> SUBSET (DOMAIN calls)]
    /\ \A k \in DOMAIN bucket : bucket[k].end = Off <=> bucket[k].count = 0
    /\ \A a \in Addresses : counter[a].end # Off => counter[a].count > 0
    /\ unexpiring \subseteq Addresses

\* The admitted calls of a stretch of time as long as the window, up to call i.
Admitted(i) ==
    {j \in 1..i : SameKey(i, j) /\ calls[j].allowed /\ calls[j].at + Window > calls[i].at}

\* With buckets and in Redis two windows may meet in a stretch, but the call that began
\* the first of them lies before it.
MostInAStretch == IF strategy = "sliding" THEN Limit ELSE 2 * Limit - 1

\* In any stretch of time as long as the window an address gets through less than twice
\* the limit with buckets or with the key of Redis, over all routes together then, and
\* at most the limit with the sliding window; cleanup, expiry and a key without expiry
\* do not give more.  Calls that Redis did not answer are on top of that: they
\* are let through without being counted (rate_limiter_redis.go:34).
FloodIsBounded ==
    \A i \in DOMAIN calls :
        Cardinality({j \in Admitted(i) : ~calls[j].blind}) <= MostInAStretch

\* Who has kept quiet for a window is not refused, unless the key in Redis was
\* left without expiry (allow, Allow, AllowWithInfo).
PatientIsAdmitted ==
    \A i \in DOMAIN calls :
        ~calls[i].allowed /\ calls[i].address \notin unexpiring =>
            \E j \in 1..(i - 1) : SameKey(i, j) /\ calls[j].at + Window >= calls[i].at

\* The two sides of what each of the three limiters promises: of the calls it counts
\* only so many get through, and who keeps quiet is let in again.  What Redis does
\* not answer, and who is locked out by a key without expiry, it does not cover.
LimitsAreKept == LimiterTypeOK /\ FloodIsBounded /\ PatientIsAdmitted

\* Nobody is refused for ever: Redis or not, a failure of the store does not keep
\* an address out (EDR-0014, 4.2).
NobodyIsLockedOut ==
    \A i \in DOMAIN calls :
        ~calls[i].allowed =>
            \E j \in 1..(i - 1) : SameKey(i, j) /\ calls[j].at + Window >= calls[i].at

\* A limiter in Redis falls back to memory when Redis is not available (EDR-0014, 3.2
\* and 4): a flood is bounded then as well.  It does not hold: the fall-back
\* is chosen at the start only, later every call without an answer is let through.
FloodStaysBounded == \A i \in DOMAIN calls : Cardinality(Admitted(i)) <= MostInAStretch
=============================================================================
