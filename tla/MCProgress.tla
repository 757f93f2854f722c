----------------------------- MODULE MCProgress -----------------------------
(* What must go on: jobs with nothing but a queue that fails, the WebSocket  *)
(* hub with a broadcaster, equal requests, the start and the end of the      *)
(* processes.  They share no state here: a behaviour of this instance is one *)
(* of them.                                                                  *)
(*                                                                           *)
(*   jobs       two jobs, two workers, three attempts.                       *)
(*   broadcast  the hub with two clients and one broadcaster, with channels  *)
(*              of one message: enough for a client to be dropped by a       *)
(*              broadcast while its reader answers it and the other one      *)
(*              leaves.                                                      *)
(*   goodbye    the stop of the hub with two clients that come and go.       *)
(*   dropped    the stop while a broadcast drops a client.                   *)
(*   quiet      the stop and broadcasts with two clients that ask nothing.   *)
(*   dedup      four equal requests: enough for a finishing, an entering, a  *)
(*              newly registered and a rejected one at the same time.        *)
(*   processes  two submissions, in production with and without the secrets, *)
(*              and in development without Redis.                            *)
EXTENDS CalcJobs, Dedup, Hub, Processes

VARIABLE part

MCEnvironments == {
    [production |-> TRUE, secrets |-> "good", stripe |-> TRUE, redisAddr |-> TRUE],
    [production |-> TRUE, secrets |-> "none", stripe |-> TRUE, redisAddr |-> TRUE],
    [production |-> FALSE, secrets |-> "none", stripe |-> FALSE, redisAddr |-> FALSE]}

HubParts == {"broadcast", "goodbye", "dropped", "quiet"}

MCInit ==
    /\ Init /\ HubInit /\ DedupInit /\ ProcInit
    /\ part \in HubParts \union {"jobs", "dedup", "processes"}
    /\ part # "processes" => redisUp /\ ~env.production

\* What begins in each part of the hub: what is under way there goes on in all of them.
Begins ==
    /\ part = "broadcast" => hub' = "running"
    /\ part = "goodbye" => rlocked' = {}
    /\ part = "quiet" => \A c \in Conns : reader'[c] # "answering"
    /\ part = "dropped" => Cardinality({c \in Conns : reader'[c] # "none"}) <= 1

MCNext ==
    \/ part = "jobs" /\ Next /\ UNCHANGED <<hubVars, dedupVars, procVars, part>>
    \/ part \in HubParts /\ HubNext /\ Begins /\ UNCHANGED <<vars, dedupVars, procVars, part>>
    \/ part = "dedup" /\ DedupNext /\ UNCHANGED <<vars, hubVars, procVars, part>>
    \/ part = "processes" /\ ProcNext /\ UNCHANGED <<vars, hubVars, dedupVars, part>>

\* The fairness of each component, while it is the one that runs.
MCFairness ==
    /\ \A j \in Jobs : WF_vars(part = "jobs" /\ ApiStep(j))
    /\ \A w \in Workers : WF_vars(part = "jobs" /\ WorkerStep(w))
    /\ SF_hubVars(part \in HubParts /\ Up /\ Serve) /\ WF_hubVars(part \in HubParts /\ Up /\ StopStep)
    /\ \A c \in Conns :
        /\ WF_hubVars(part \in HubParts /\ Up /\ Answer(c))
        /\ WF_hubVars(part \in HubParts /\ Up /\ Drain(c))
    /\ \A p \in Publishers : WF_hubVars(part \in HubParts /\ Up /\ Broadcast(p))
    /\ \A r \in Requests : WF_dedupVars(part = "dedup" /\ Step(r))
    /\ \A s \in Submissions :
        /\ WF_procVars(part = "processes" /\ Insert(s))
        /\ WF_procVars(part = "processes" /\ MarkRowFailed(s))
    /\ WF_procVars(part = "processes" /\ StopListening)
    /\ WF_procVars(part = "processes" /\ TimeIsUp)
    /\ WF_procVars(part = "processes" /\ CloseQueue)
    /\ WF_procVars(part = "processes" /\ ClosePool)
    /\ WF_procVars(part = "processes" /\ ProcExit)

MCSpec == MCInit /\ [][MCNext]_<<vars, hubVars, dedupVars, procVars, part>> /\ MCFairness

\* Requests that are not part of the behaviour do not come to an end.
DedupDrains == part = "dedup" => Drains
=============================================================================
