----------------------------- MODULE Processes -----------------------------
(***************************************************************************)
(* The life of the two processes: what they need to start, which queue     *)
(* each one chooses, and the order in which the API lets go of its         *)
(* requests, its queue and its database.  A request here is the submission *)
(* of an asynchronous calculation, which writes a row, then the queue and, *)
(* if that fails, the row again.  (How a worker executes a job, and loses  *)
(* one, is the module CalcJobs.)                                           *)
(*                                                                         *)
(*   src/cmd/api/main.go        main, newAPIQueueBackend                   *)
(*   src/cmd/worker/main.go     main, newQueueBackend, consume             *)
(*   src/internal/application/jobs/service.go    CreateJob                 *)
(***************************************************************************)
EXTENDS Integers, FiniteSets

CONSTANTS
    Submissions,    \* requests, each with the job it creates
    Environments    \* what the variables of the environment say

ASSUME ProcAssumption ==
    Environments \subseteq [production : BOOLEAN, secrets : {"none", "good", "bad"},
                            stripe : BOOLEAN, redisAddr : BOOLEAN]

VARIABLES
    env,        \* the environment both processes are started in
    redisUp,    \* Redis answers
    shared,     \* the list of jobs in Redis
    apiPhase,   \* phase of the API process
    apiQueue,   \* "none", "redis" or "memory"
    apiJobs,    \* jobs of its queue in memory
    queueOpen, poolOpen,    \* its clients of Redis and of the database
    timeUp,     \* the shutdown timeout has elapsed
    killed,     \* an API process was killed
    request,    \* phase of a submission
    row,        \* its row of calc_jobs: "none", "pending", "failed", "succeeded"
    via,        \* the queue an answered submission went to
    worker,     \* the queue of the worker, or "down"
    cutOff      \* submissions that found the queue or the pool closed

procVars == <<env, redisUp, shared, apiPhase, apiQueue, apiJobs, queueOpen, poolOpen,
              timeUp, killed, request, row, via, worker, cutOff>>
apiState == <<apiPhase, apiQueue, queueOpen, poolOpen, timeUp, killed>>
world == <<env, redisUp, worker>>

Phases == {"none", "insert", "inserting", "enqueue", "mark", "marking", "accepted", "failed"}
AtRest == {"none", "accepted", "failed"}
Holding(s) == request[s] \in {"inserting", "marking"}     \* a connection of the pool
Serving == apiPhase \in {"serving", "signalled"}

ProcInit ==
    /\ env \in Environments /\ redisUp \in BOOLEAN
    /\ shared = {} /\ apiJobs = {} /\ apiPhase = "down" /\ apiQueue = "none"
    /\ queueOpen = FALSE /\ poolOpen = FALSE /\ timeUp = FALSE /\ killed = FALSE
    /\ request = [s \in Submissions |-> "none"] /\ row = [s \in Submissions |-> "none"]
    /\ via = [s \in Submissions |-> "none"] /\ worker = "down" /\ cutOff = {}

-----------------------------------------------------------------------------
(* Starting.                                                               *)

\* The key of the secrets must be right if there is one, and in production
\* there must be one, as there must be a payment provider for the API.
WorkerStarts == env.secrets = "good" \/ (env.secrets = "none" /\ ~env.production)
ApiMayStart == WorkerStarts /\ (env.stripe \/ ~env.production)

\* Redis if it answers now, else a queue in the memory of this process; the
\* choice is never made again.
ChosenQueue == IF env.redisAddr /\ redisUp THEN "redis" ELSE "memory"

StartApi ==
    /\ apiPhase = "down" /\ ApiMayStart
    /\ apiPhase' = "serving" /\ apiQueue' = ChosenQueue
    /\ queueOpen' = TRUE /\ poolOpen' = TRUE /\ timeUp' = FALSE
    /\ UNCHANGED <<world, shared, apiJobs, killed, request, row, via, cutOff>>

StartWorker ==
    /\ worker = "down" /\ WorkerStarts
    /\ worker' = ChosenQueue
    /\ UNCHANGED <<env, redisUp, shared, apiState, apiJobs, request, row, via, cutOff>>

RedisChanges ==
    /\ redisUp' = ~redisUp
    /\ UNCHANGED <<env, worker, shared, apiState, apiJobs, request, row, via, cutOff>>

-----------------------------------------------------------------------------
(* A submission.                                                           *)

Unserved == <<world, apiState>>

\* New connections are taken until Shutdown closes the listener.
Arrive(s) ==
    /\ Serving /\ request[s] = "none"
    /\ request' = [request EXCEPT ![s] = "insert"]
    /\ UNCHANGED <<Unserved, shared, apiJobs, row, via, cutOff>>

Refuse(s, from) ==
    /\ request[s] = from /\ ~poolOpen
    /\ request' = [request EXCEPT ![s] = "failed"] /\ cutOff' = cutOff \union {s}
    /\ UNCHANGED <<Unserved, shared, apiJobs, row, via>>

Acquire(s, from, to) ==
    /\ request[s] = from /\ poolOpen
    /\ request' = [request EXCEPT ![s] = to]
    /\ UNCHANGED <<Unserved, shared, apiJobs, row, via, cutOff>>

Insert(s) ==
    /\ request[s] = "inserting"
    /\ request' = [request EXCEPT ![s] = "enqueue"] /\ row' = [row EXCEPT ![s] = "pending"]
    /\ UNCHANGED <<Unserved, shared, apiJobs, via, cutOff>>

\* Mutant of EnqueueJob: the row is not marked when the job could not be queued.
EnqueueOrForget(s) ==
    /\ request[s] = "enqueue" /\ UNCHANGED <<Unserved, row, apiJobs, cutOff>>
    /\ IF apiQueue = "redis" /\ queueOpen /\ redisUp
         THEN /\ shared' = shared \union {s} /\ via' = [via EXCEPT ![s] = "redis"]
              /\ request' = [request EXCEPT ![s] = "accepted"]
         ELSE request' = [request EXCEPT ![s] = "failed"] /\ UNCHANGED <<shared, via>>

\* The queue in memory always takes the job; the client of Redis only while it
\* is open and Redis answers.
EnqueueJob(s) ==
    /\ request[s] = "enqueue"
    /\ \/ /\ apiQueue = "memory"
          /\ apiJobs' = apiJobs \union {s} /\ UNCHANGED <<shared, cutOff>>
          /\ request' = [request EXCEPT ![s] = "accepted"] /\ via' = [via EXCEPT ![s] = "memory"]
       \/ /\ apiQueue = "redis" /\ queueOpen /\ redisUp
          /\ shared' = shared \union {s} /\ UNCHANGED <<apiJobs, cutOff>>
          /\ request' = [request EXCEPT ![s] = "accepted"] /\ via' = [via EXCEPT ![s] = "redis"]
       \/ /\ apiQueue = "redis" /\ ~(queueOpen /\ redisUp)
          /\ request' = [request EXCEPT ![s] = "mark"]
          /\ cutOff' = IF queueOpen THEN cutOff ELSE cutOff \union {s}
          /\ UNCHANGED <<shared, apiJobs, via>>
    /\ UNCHANGED <<Unserved, row>>

MarkRowFailed(s) ==
    /\ request[s] = "marking"
    /\ request' = [request EXCEPT ![s] = "failed"] /\ row' = [row EXCEPT ![s] = "failed"]
    /\ UNCHANGED <<Unserved, shared, apiJobs, via, cutOff>>

Submit(s) ==
    \/ Arrive(s) \/ Insert(s) \/ EnqueueJob(s) \/ MarkRowFailed(s)
    \/ Acquire(s, "insert", "inserting") \/ Acquire(s, "mark", "marking")
    \/ Refuse(s, "insert") \/ Refuse(s, "mark")

\* A worker takes the jobs of its own queue.
Work(s) ==
    /\ worker = "redis" /\ redisUp /\ s \in shared
    /\ shared' = shared \ {s} /\ row' = [row EXCEPT ![s] = "succeeded"]
    /\ UNCHANGED <<world, apiState, apiJobs, request, via, cutOff>>

\* SIGTERM: a job in hand may be finished; those of a queue in memory are lost.
StopWorker ==
    /\ worker # "down" /\ worker' = "down"
    /\ UNCHANGED <<env, redisUp, shared, apiState, apiJobs, request, row, via, cutOff>>

-----------------------------------------------------------------------------
(* The shutdown of the API: hub, HTTP, queue, database.                    *)

OthersUnchanged == UNCHANGED <<world, shared, apiJobs, request, row, via, cutOff>>

\* The signal; the hub is stopped while requests still come in.
Signal ==
    /\ apiPhase = "serving" /\ apiPhase' = "signalled"
    /\ UNCHANGED <<apiQueue, queueOpen, poolOpen, timeUp, killed>> /\ OthersUnchanged

\* Shutdown closes the listener ...
StopListening ==
    /\ apiPhase = "signalled" /\ apiPhase' = "draining"
    /\ UNCHANGED <<apiQueue, queueOpen, poolOpen, timeUp, killed>> /\ OthersUnchanged

TimeIsUp ==
    /\ apiPhase \in {"signalled", "draining"} /\ ~timeUp /\ timeUp' = TRUE
    /\ UNCHANGED <<apiPhase, apiQueue, queueOpen, poolOpen, killed>> /\ OthersUnchanged

\* Mutants of Drained: the requests in progress are not waited for; there is
\* no timeout.
DrainedAtOnce == apiPhase = "draining"
DrainedInTheEnd == apiPhase = "draining" /\ \A s \in Submissions : request[s] \in AtRest

\* ... and waits for the requests in progress, as long as the timeout allows.
Drained == apiPhase = "draining" /\ (timeUp \/ \A s \in Submissions : request[s] \in AtRest)

CloseQueue ==
    /\ Drained /\ apiPhase' = "closing" /\ queueOpen' = FALSE
    /\ UNCHANGED <<apiQueue, poolOpen, timeUp, killed>> /\ OthersUnchanged

ClosePool ==
    /\ apiPhase = "closing" /\ poolOpen /\ poolOpen' = FALSE
    /\ UNCHANGED <<apiPhase, apiQueue, queueOpen, timeUp, killed>> /\ OthersUnchanged

\* What is left of the requests when the process ends.
ProcessEnds ==
    /\ apiPhase' = "down" /\ apiQueue' = "none" /\ apiJobs' = {}
    /\ queueOpen' = FALSE /\ poolOpen' = FALSE /\ timeUp' = FALSE
    /\ request' = [s \in Submissions |-> IF request[s] \in AtRest THEN request[s] ELSE "failed"]
    /\ UNCHANGED <<world, shared, row, via>>

\* pool.Close waits for the connections in use, however long that takes.
ProcExit ==
    /\ apiPhase = "closing" /\ ~poolOpen /\ \A s \in Submissions : ~Holding(s)
    /\ ProcessEnds /\ UNCHANGED killed
    /\ cutOff' = cutOff \union {s \in Submissions : request[s] \notin AtRest}

\* A crash, the supervisor that does not wait any longer, or a listener that
\* fails (os.Exit): nothing is closed in order.
Kill ==
    /\ apiPhase # "down" /\ ~killed /\ killed' = TRUE /\ ProcessEnds /\ UNCHANGED cutOff

ProcNext ==
    \/ StartApi \/ StartWorker \/ RedisChanges \/ StopWorker
    \/ \E s \in Submissions : Submit(s) \/ Work(s)
    \/ Signal \/ StopListening \/ TimeIsUp \/ CloseQueue \/ ClosePool \/ ProcExit \/ Kill

\* The clock goes on, main is blocked by the drain and the pool alone, and the
\* database ends the statements it has begun.  Nothing is said of Redis, of the
\* worker, of kills, or of what a handler does between two statements.
ProcFairness ==
    /\ \A s \in Submissions : WF_procVars(Insert(s)) /\ WF_procVars(MarkRowFailed(s))
    /\ WF_procVars(StopListening) /\ WF_procVars(TimeIsUp) /\ WF_procVars(CloseQueue)
    /\ WF_procVars(ClosePool) /\ WF_procVars(ProcExit)

ProcSpec == ProcInit /\ [][ProcNext]_procVars /\ ProcFairness

-----------------------------------------------------------------------------
(* Properties.                                                             *)

\* The shape of the state; the queue is closed before the database.
ProcTypeOK ==
    /\ env \in Environments /\ redisUp \in BOOLEAN /\ shared \subseteq Submissions
    /\ apiPhase \in {"down", "serving", "signalled", "draining", "closing"}
    /\ apiQueue \in {"none", "redis", "memory"} /\ apiJobs \subseteq Submissions
    /\ {queueOpen, poolOpen, timeUp, killed} \subseteq BOOLEAN
    /\ request \in [Submissions -> Phases]
    /\ row \in [Submissions -> {"none", "pending", "failed", "succeeded"}]
    /\ via \in [Submissions -> {"none", "redis", "memory"}]
    /\ worker \in {"down", "redis", "memory"} /\ cutOff \subseteq Submissions
    /\ queueOpen => poolOpen
    /\ "redis" \in {apiQueue, worker} => env.redisAddr

\* A row that says pending has its job in a queue, or its request is on the way
\* to put it there -- unless the process was killed, the request was cut off,
\* or the queue was one in the memory of a process.
QueuedRowsHaveJobs ==
    \A s \in Submissions :
        row[s] = "pending" =>
            \/ s \in shared \union apiJobs
            \/ request[s] \in {"enqueue", "mark", "marking"}
            \/ killed \/ s \in cutOff \/ via[s] = "memory"

\* Whatever starts, ends or is killed, a submission is in a queue, on its way, or says
\* that it failed (jobs/service.go: Submit during start and shutdown).
SubmissionsAreKept == ProcTypeOK /\ QueuedRowsHaveJobs

\* A request finds the queue or the database closed under it, or its process
\* gone, only when the time to shut down is over: an orderly shutdown that is
\* quick enough is seen by no client (main.go:434, "the order is important").
CutOffInTime == [][cutOff' # cutOff => timeUp]_procVars

\* A process that was told to stop stops, although nothing interrupts the
\* transactions its pool waits for.
ApiStops == apiPhase = "signalled" ~> apiPhase = "down"

\* Shutting down is orderly and ends: nothing is closed under a request before the time
\* is up, and the process is gone in the end (main.go: the shutdown sequence).
ShutdownIsOrderly == CutOffInTime /\ ApiStops

\* An accepted job is in the queue a worker reads (EDR-0020, 3.2).  When Redis
\* was away as the API started, it is in a memory nobody else can see.
AcceptedIsReachable ==
    \A s \in Submissions : via[s] # "none" /\ env.redisAddr => via[s] = "redis"
=============================================================================
