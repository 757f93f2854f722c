--------------------------- MODULE CircuitBreaker ---------------------------
(***************************************************************************)
(* The circuit breaker around the payment provider (internal/              *)
(* infrastructure/circuitbreaker/breaker.go).  Execute asks for admission, *)
(* runs the call without the lock and records its result, so results of    *)
(* calls admitted in an earlier state arrive in a later one.               *)
(*                                                                         *)
(* Time is one bit: whether Timeout has passed since the last recorded     *)
(* failure.  A counter is kept only as far as the code compares it:        *)
(* failureCount up to FailureThreshold, successCount up to                 *)
(* SuccessThreshold + 1.                                                   *)
(***************************************************************************)
EXTENDS Naturals, FiniteSets

CONSTANTS
    Callers,            \* goroutines that call Execute
    FailureThreshold,
    SuccessThreshold,
    MaxRequests

ASSUME SettingsAssumption ==
    /\ FailureThreshold \in Nat \ {0}
    /\ SuccessThreshold \in Nat \ {0}
    /\ MaxRequests \in Nat \ {0}

VARIABLES
    state,
    failureCount,
    successCount,
    halfOpenRequests,
    elapsed,            \* time.Since(lastFailureTime) > Timeout
    running,            \* callers inside fn
    probes,             \* those of them admitted by the current half-open period
    healthy             \* whether the provider answers

counters == <<failureCount, successCount, halfOpenRequests>>
breakerVars == <<state, counters, elapsed, running, probes, healthy>>

State == {"closed", "open", "half_open"}

AtMost(n, max) == IF n > max THEN max ELSE n

BreakerInit ==
    /\ state = "closed"
    /\ failureCount = 0
    /\ successCount = 0
    /\ halfOpenRequests = 0
    /\ elapsed = TRUE
    /\ running = {}
    /\ probes = {}
    /\ healthy \in BOOLEAN

-----------------------------------------------------------------------------
\* Mutant of SetState: the failures survive the return to closed.
SetStateKeepingFailures(s, failures) ==
    /\ state' = s
    /\ failureCount' = failures
    /\ successCount' = 0
    /\ halfOpenRequests' = 0
    /\ probes' = {}

\* A real change of state: the counters start over, the failures only when the
\* breaker closes.
SetState(s, failures) ==
    /\ state' = s
    /\ failureCount' = IF s = "closed" THEN 0 ELSE failures
    /\ successCount' = 0
    /\ halfOpenRequests' = 0
    /\ probes' = {}

\* Admission in closed.
AllowClosed(c) ==
    /\ c \notin running
    /\ state = "closed"
    /\ running' = running \union {c}
    /\ UNCHANGED <<state, counters, elapsed, probes, healthy>>

\* Mutant of AllowFirstProbe: the time in open is not waited for.
AllowProbeAtOnce(c) ==
    /\ c \notin running
    /\ state = "open"
    /\ state' = "half_open"
    /\ successCount' = 0
    /\ halfOpenRequests' = 1
    /\ running' = running \union {c}
    /\ probes' = {c}
    /\ UNCHANGED <<failureCount, elapsed, healthy>>

\* Admission in open after Timeout: the breaker goes half-open and the call is
\* its first probe.  Before Timeout the call is refused and nothing changes.
AllowFirstProbe(c) ==
    /\ c \notin running
    /\ state = "open" /\ elapsed
    /\ state' = "half_open"
    /\ successCount' = 0
    /\ halfOpenRequests' = 1
    /\ running' = running \union {c}
    /\ probes' = {c}
    /\ UNCHANGED <<failureCount, elapsed, healthy>>

\* Mutant of AllowProbe: the limit is off by one.
AllowProbeTooMany(c) ==
    /\ c \notin running
    /\ state = "half_open"
    /\ halfOpenRequests <= MaxRequests
    /\ halfOpenRequests' = halfOpenRequests + 1
    /\ running' = running \union {c}
    /\ probes' = probes \union {c}
    /\ UNCHANGED <<state, failureCount, successCount, elapsed, healthy>>

\* Admission in half-open, up to MaxRequests; beyond, the call is refused and
\* nothing changes.
AllowProbe(c) ==
    /\ c \notin running
    /\ state = "half_open"
    /\ halfOpenRequests < MaxRequests
    /\ halfOpenRequests' = halfOpenRequests + 1
    /\ running' = running \union {c}
    /\ probes' = probes \union {c}
    /\ UNCHANGED <<state, failureCount, successCount, elapsed, healthy>>

\* State() reads the state and makes the transition that is due.
ReadState ==
    /\ state = "open" /\ elapsed
    /\ SetState("half_open", failureCount)
    /\ UNCHANGED <<elapsed, running, healthy>>

\* recordResult of a failed call, whatever the state it was admitted in.
RecordFailure(c) ==
    /\ c \in running
    /\ ~healthy
    /\ running' = running \ {c}
    /\ elapsed' = FALSE
    /\ LET failures == AtMost(failureCount + 1, FailureThreshold) IN
       \/ /\ state = "half_open" \/ (state = "closed" /\ failures >= FailureThreshold)
          /\ SetState("open", failures)
       \/ /\ state = "open" \/ (state = "closed" /\ failures < FailureThreshold)
          /\ failureCount' = failures
          /\ probes' = probes \ {c}
          /\ UNCHANGED <<state, successCount, halfOpenRequests>>
    /\ UNCHANGED healthy

\* Mutant of RecordSuccess: a half-open breaker never counts up.
RecordSuccessUncounted(c) ==
    /\ c \in running
    /\ healthy
    /\ running' = running \ {c}
    /\ probes' = probes \ {c}
    /\ UNCHANGED <<state, counters, elapsed, healthy>>

\* recordResult of a successful call.  In closed, successes clear the failures
\* once there are more than SuccessThreshold of them; in open they are ignored.
RecordSuccess(c) ==
    /\ c \in running
    /\ healthy
    /\ running' = running \ {c}
    /\ \/ /\ state = "half_open" /\ successCount + 1 >= SuccessThreshold
          /\ SetState("closed", failureCount)
       \/ /\ state = "half_open" /\ successCount + 1 < SuccessThreshold
          /\ successCount' = successCount + 1
          /\ probes' = probes \ {c}
          /\ UNCHANGED <<state, failureCount, halfOpenRequests>>
       \/ /\ state = "closed"
          /\ successCount' = AtMost(successCount + 1, SuccessThreshold + 1)
          /\ failureCount' = IF successCount + 1 > SuccessThreshold THEN 0 ELSE failureCount
          /\ UNCHANGED <<state, halfOpenRequests, probes>>
       \/ /\ state = "open"
          /\ UNCHANGED <<state, counters, probes>>
    /\ UNCHANGED <<elapsed, healthy>>

\* Timeout passes after the last failure.
Tick ==
    /\ ~elapsed
    /\ elapsed' = TRUE
    /\ UNCHANGED <<state, counters, running, probes, healthy>>

\* The provider breaks down or comes back.
ProviderChanges ==
    /\ healthy' = ~healthy
    /\ UNCHANGED <<state, counters, elapsed, running, probes>>

-----------------------------------------------------------------------------
AllowRequest(c) == AllowClosed(c) \/ AllowFirstProbe(c) \/ AllowProbe(c)
RecordResult(c) == RecordFailure(c) \/ RecordSuccess(c)

BreakerNext ==
    \/ \E c \in Callers : AllowRequest(c) \/ RecordResult(c)
    \/ ReadState
    \/ Tick
    \/ ProviderChanges

\* Calls return (the provider's client has a timeout), time passes, and payments
\* keep being requested.
BreakerFairness ==
    /\ WF_breakerVars(Tick)
    /\ \A c \in Callers :
        WF_breakerVars(RecordResult(c)) /\ WF_breakerVars(AllowRequest(c))

BreakerSpec == BreakerInit /\ [][BreakerNext]_breakerVars /\ BreakerFairness

-----------------------------------------------------------------------------
(* Properties *)

\* The type of the state, with the bounds of the counters.
BreakerTypeOK ==
    /\ state \in State
    /\ failureCount \in 0..FailureThreshold
    /\ successCount \in 0..(SuccessThreshold + 1)
    /\ halfOpenRequests \in 0..MaxRequests
    /\ elapsed \in BOOLEAN
    /\ running \subseteq Callers
    /\ probes \subseteq Callers
    /\ healthy \in BOOLEAN

\* The counters belong to the state: a closed breaker is below the failure
\* threshold, a half-open one below the success threshold, and outside half-open
\* no probe is counted (setState resets them, results arrive late).
CountersMatchState ==
    /\ state = "closed" => failureCount < FailureThreshold
    /\ state = "half_open" => successCount < SuccessThreshold
    /\ state # "half_open" => halfOpenRequests = 0

\* However late earlier results arrive, a half-open period lets no more than
\* MaxRequests probes at the provider at the same time.
ProbeLimit ==
    /\ Cardinality(probes) <= halfOpenRequests
    /\ halfOpenRequests <= MaxRequests
    /\ probes \subseteq running

\* However late the results arrive, the counters are those of the present state and the
\* provider sees no more probes than a half-open period admits.
BreakerIsSafe == BreakerTypeOK /\ CountersMatchState /\ ProbeLimit

\* An open breaker keeps calls away from the provider until Timeout has passed
\* since the last failure, late failures included.
OpenHoldsOff == [][state = "open" /\ ~elapsed => running' \subseteq running]_breakerVars

\* When the provider stays healthy, the breaker ends up closed: no counter or
\* slot used up by earlier calls keeps it open or half-open.
Recovers == <>[]healthy => <>[](state = "closed")
=============================================================================
