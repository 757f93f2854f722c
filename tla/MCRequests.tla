------------------------------ MODULE MCRequests ------------------------------
(* Requests that meet each other in a shared store, and the graph, whose two    *)
(* copies of the edges meet in every operation.  The parts share no state: a    *)
(* behaviour of this instance is one of them.                                  *)
(*                                                                             *)
(*   jobs   two submissions and two workers under every fault; the attempts of *)
(*          a job bound every behaviour.                                       *)
(*   path   two requests through the middleware and the response cache of one  *)
(*          entry: a public page, one of its own user, an internal one and the *)
(*          probe.                                                             *)
(*   rate   the limiters: two limited routes, one address, time for two        *)
(*          windows to meet.                                                   *)
(*   sso    a repeated callback, a concurrent one and a flow that is given up. *)
(*   graph  two nodes and a free edge id.                                      *)
EXTENDS CalcJobs, RequestPath, RateLimits, SsoLogin, Graph, TLC

VARIABLE part

Only(p, one) == part = p \/ one

MCInit ==
    /\ part \in {"jobs", "path", "rate", "sso", "graph"}
    /\ Init /\ PathInit
    /\ LimiterInit /\ Only("rate", strategy = "memory")
    /\ SsoInit /\ Only("sso", account = [e \in Emails |-> "absent"])
    /\ GraphInit

MCNext ==
    \/ part = "jobs" /\ Next /\ UNCHANGED <<pathVars, limiterVars, ssoVars, graphVars, part>>
    \/ part = "path" /\ PathNext /\ UNCHANGED <<vars, limiterVars, ssoVars, graphVars, part>>
    \/ part = "rate" /\ LimiterNext /\ UNCHANGED <<vars, pathVars, ssoVars, graphVars, part>>
    \/ part = "sso" /\ SsoNext /\ UNCHANGED <<vars, pathVars, limiterVars, graphVars, part>>
    \/ part = "graph" /\ GraphNext /\ UNCHANGED <<vars, pathVars, limiterVars, ssoVars, part>>

MCSpec == MCInit /\ [][MCNext]_<<vars, pathVars, limiterVars, ssoVars, graphVars, part>>

ASSUME GraphAssumption

\* The jobs are also the requests of "path", the workers the addresses of "sso" and the
\* limited routes of "rate": within each part they are interchangeable.
Symmetry == Permutations(Jobs) \union Permutations(Workers)
=============================================================================
