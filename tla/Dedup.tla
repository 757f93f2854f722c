-------------------------------- MODULE Dedup --------------------------------
(***************************************************************************)
(* The deduplication middleware of the HTTP API (internal/transport/http/  *)
(* dedup.go) for one key: the map of requests in flight, and one mutex per *)
(* request that registered itself.  Keys share nothing but the mutex that  *)
(* guards the map, so one key shows everything; requests without a key     *)
(* bypass the middleware.                                                  *)
(***************************************************************************)
CONSTANTS
    Requests,   \* requests with the same key
    Nobody

ASSUME NobodyAssumption == Nobody \notin Requests

VARIABLES
    inflight,   \* inflight[key]: the request whose mutex is registered
    locked,     \* the mutex each request creates: locked or not
    mutex,      \* the mutex a request works with, named by its creator
    phase

dedupVars == <<inflight, locked, mutex, phase>>

DedupInit ==
    /\ inflight = Nobody
    /\ locked = [r \in Requests |-> FALSE]
    /\ mutex = [r \in Requests |-> Nobody]
    /\ phase = [r \in Requests |-> "arriving"]

Turn(r, s) == phase' = [phase EXCEPT ![r] = s]

\* Under the map's mutex: no request of this key is registered.
Register(r) ==
    /\ phase[r] = "arriving"
    /\ inflight = Nobody
    /\ inflight' = r
    /\ locked' = [locked EXCEPT ![r] = TRUE]
    /\ mutex' = [mutex EXCEPT ![r] = r]
    /\ Turn(r, "handling")

\* Under the map's mutex: the registered mutex is read; the map is unlocked
\* before the mutex is tried.
Find(r) ==
    /\ phase[r] = "arriving"
    /\ inflight # Nobody
    /\ mutex' = [mutex EXCEPT ![r] = inflight]
    /\ Turn(r, "found")
    /\ UNCHANGED <<inflight, locked>>

\* TryLock fails: 429.
Reject(r) ==
    /\ phase[r] = "found"
    /\ locked[mutex[r]]
    /\ Turn(r, "rejected")
    /\ UNCHANGED <<inflight, locked, mutex>>

\* Mutant of Enter: the result of TryLock is ignored.
EnterAnyway(r) ==
    /\ phase[r] = "found"
    /\ locked' = [locked EXCEPT ![mutex[r]] = TRUE]
    /\ Turn(r, "handling")
    /\ UNCHANGED <<inflight, mutex>>

\* TryLock succeeds: the request that owned the mutex has just finished.
Enter(r) ==
    /\ phase[r] = "found"
    /\ ~locked[mutex[r]]
    /\ locked' = [locked EXCEPT ![mutex[r]] = TRUE]
    /\ Turn(r, "handling")
    /\ UNCHANGED <<inflight, mutex>>

\* Mutant of Deregister: the entry stays in the map.
DeregisterNothing(r) ==
    /\ phase[r] = "handling"
    /\ mutex[r] = r
    /\ Turn(r, "leaving")
    /\ UNCHANGED <<inflight, locked, mutex>>

\* The handler of a registered request returned (or panicked): its deferred
\* function first removes the key from the map.
Deregister(r) ==
    /\ phase[r] = "handling"
    /\ mutex[r] = r
    /\ inflight' = Nobody
    /\ Turn(r, "leaving")
    /\ UNCHANGED <<locked, mutex>>

\* The last deferred step of both paths: unlock the mutex.
Unlock(r) ==
    /\ \/ phase[r] = "leaving"
       \/ phase[r] = "handling" /\ mutex[r] # r
    /\ locked' = [locked EXCEPT ![mutex[r]] = FALSE]
    /\ Turn(r, "done")
    /\ UNCHANGED <<inflight, mutex>>

Step(r) ==
    \/ Register(r)
    \/ Find(r)
    \/ Reject(r)
    \/ Enter(r)
    \/ Deregister(r)
    \/ Unlock(r)

Over(r) == phase[r] \in {"done", "rejected"}

DedupNext == \E r \in Requests : Step(r)

\* Handlers return: the server bounds them by its timeouts.
DedupFairness == \A r \in Requests : WF_dedupVars(Step(r))

DedupSpec == DedupInit /\ [][DedupNext]_dedupVars /\ DedupFairness

-----------------------------------------------------------------------------
(* Properties *)

\* The type of the state; a request past the map has a mutex to work with.
DedupTypeOK ==
    /\ inflight \in Requests \union {Nobody}
    /\ locked \in [Requests -> BOOLEAN]
    /\ mutex \in [Requests -> Requests \union {Nobody}]
    /\ phase \in [Requests -> {"arriving", "found", "handling", "leaving", "done", "rejected"}]
    /\ \A r \in Requests : phase[r] # "arriving" => mutex[r] # Nobody

Holds(r) == phase[r] \in {"handling", "leaving"}

\* A mutex is locked exactly while one request works under it: two requests
\* that found the same registration never overlap, and no mutex leaks.
MutexHeldByOne ==
    /\ \A m \in Requests : locked[m] <=> \E r \in Requests : mutex[r] = m /\ Holds(r)
    /\ \A r, s \in Requests : Holds(r) /\ Holds(s) /\ mutex[r] = mutex[s] => r = s

\* The entry of the map belongs to the request that registered it and is being
\* handled: a finished request leaves nothing behind that could reject others.
EntryIsLive == inflight # Nobody => phase[inflight] = "handling" /\ mutex[inflight] = inflight

\* Map and mutexes tell which requests are under way, and nothing of one that has ended
\* is left in either (DedupMiddleware).
DedupIsSafe == DedupTypeOK /\ MutexHeldByOne /\ EntryIsLive

\* A request is refused with 429 only while another request of the same key is
\* still under way.
RejectedWhenBusy ==
    [][\A r \in Requests :
          phase'[r] = "rejected" /\ phase[r] # "rejected" =>
              \E s \in Requests \ {r} : Holds(s)]_dedupVars

\* Every request is answered, and the map ends up empty.
Drains == <>[](inflight = Nobody /\ \A r \in Requests : Over(r))

\* What the middleware is for: equal requests are never handled at the same time.
NoConcurrentDuplicates ==
    \A r, s \in Requests : phase[r] = "handling" /\ phase[s] = "handling" => r = s
=============================================================================
