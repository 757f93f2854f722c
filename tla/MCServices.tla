------------------------------ MODULE MCServices ------------------------------
(* What stands between the API and other systems: payments, the breaker of     *)
(* their provider and outgoing webhooks.  They share no state that matters to  *)
(* their properties: a behaviour of this instance is one of them.              *)
(*                                                                             *)
(*   payments   three events of one checkout: one reports success, one         *)
(*              failure, one does not fit the intent.  The faults are bounded, *)
(*              the deliveries are not.                                        *)
(*   breaker    four callers, one more than a half-open period admits, and the *)
(*              default thresholds for successes and probes (the one for       *)
(*              failures is 5 by default, 3 here).                             *)
(*   delivery   one event of an endpoint that may be deleted at any time:      *)
(*              events meet nowhere else.  Its attempts bound every behaviour. *)
EXTENDS Payments, CircuitBreaker, Delivery

VARIABLE part

MCInit ==
    /\ Init /\ BreakerInit /\ DeliveryInit
    /\ part \in {"payments", "breaker", "delivery"}
    /\ part # "breaker" => healthy

MCNext ==
    \/ part = "payments" /\ Next /\ UNCHANGED <<breakerVars, deliveryVars, part>>
    \/ part = "breaker" /\ BreakerNext /\ UNCHANGED <<vars, deliveryVars, part>>
    \/ part = "delivery" /\ DeliveryNext /\ UNCHANGED <<vars, breakerVars, part>>

\* The fairness of each component, while it is the one that runs.
MCFairness ==
    /\ WF_vars(part = "payments" /\ OpenSession) /\ WF_vars(part = "payments" /\ CreateIntent)
    /\ \A h \in Handlers : WF_vars(part = "payments" /\ HandlerWork(h))
    /\ \A e \in Events : SF_vars(part = "payments" /\ \E h \in Handlers : Deliver(h, e))
    /\ WF_breakerVars(part = "breaker" /\ Tick)
    /\ \A c \in Callers :
        /\ WF_breakerVars(part = "breaker" /\ RecordResult(c))
        /\ WF_breakerVars(part = "breaker" /\ AllowRequest(c))
    /\ \A e \in Outgoing : WF_deliveryVars(part = "delivery" /\ Work(e))

MCSpec == MCInit /\ [][MCNext]_<<vars, breakerVars, deliveryVars, part>> /\ MCFairness
=============================================================================
