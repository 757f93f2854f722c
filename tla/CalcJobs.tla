------------------------------ MODULE CalcJobs ------------------------------
(***************************************************************************)
(* Asynchronous calculations: the API process creates a calc_jobs row and   *)
(* pushes its id on the shared Redis list; worker processes pop ids, run    *)
(* the calculation and write the outcome into the row.                      *)
(*                                                                         *)
(* A row is identified by the submission that created it: newJobID draws    *)
(* 16 random bytes for every call of SubmitCalculate, so `Jobs` is the set  *)
(* of calls.  The row, the list and the processes are separate, and every   *)
(* call over the network is a step of its own with its own failures.        *)
(***************************************************************************)
EXTENDS Naturals, Sequences, FiniteSets

CONSTANTS
    Jobs,          \* submissions, i.e. rows of calc_jobs
    Workers,       \* worker processes (cmd/worker), one consumer loop each
    MaxAttempts,   \* queue.DefaultMaxAttempts
    Faults,        \* what may go wrong, a subset of FaultKinds
    None           \* no row: what an idle worker holds

\* "queue"      a Redis command fails and has no effect
\* "db"         a statement on calc_jobs fails and has no effect
\* "ack"        a command or a statement takes effect but reports an error
\* "disconnect" the client goes away: the request's context is cancelled
\* "shutdown"   SIGTERM reaches a worker: its context is cancelled
\* "crash"      the API or a worker process dies, or a stopping worker's main
\*              returns after shutdownTimeout with the consumer still at work
FaultKinds == {"queue", "db", "ack", "disconnect", "shutdown", "crash"}

ASSUME MaxAttemptsAssumption == MaxAttempts \in Nat \ {0}
ASSUME FaultsAssumption == Faults \subseteq FaultKinds
ASSUME NoneAssumption == None \notin Jobs

VARIABLES
    status,     \* calc_jobs.status, "none" before the INSERT
    hasResult,  \* calc_jobs.result IS NOT NULL
    hasError,   \* calc_jobs.error IS NOT NULL
    queue,      \* the Redis list, head = next to be popped
    api,        \* where the call of SubmitCalculate for a row stands
    gone,       \* the request's context is cancelled
    pc,         \* where a worker's consumer loop stands
    job,        \* the queue.Job the worker holds, NoJob between two jobs
    stopping,   \* the worker's ctxRun is cancelled
    runs        \* history: how often the calculation of a row was executed

rowVars == <<status, hasResult, hasError>>
apiVars == <<api, gone>>
workerVars == <<pc, job, stopping>>
vars == <<rowVars, queue, apiVars, workerVars, runs>>

Status == {"none", "pending", "running", "succeeded", "failed"}
ApiState == {"idle", "created", "refused", "returned"}
WorkerState == {"idle", "load", "calc", "save", "saveError", "failed",
                "backoff", "stopped"}
QueueJob == [id : Jobs, attempts : Nat]
NoJob == [id |-> None, attempts |-> 0]

Init ==
    /\ status = [j \in Jobs |-> "none"]
    /\ hasResult = [j \in Jobs |-> FALSE]
    /\ hasError = [j \in Jobs |-> FALSE]
    /\ queue = <<>>
    /\ api = [j \in Jobs |-> "idle"]
    /\ gone = [j \in Jobs |-> FALSE]
    /\ pc = [w \in Workers |-> "idle"]
    /\ job = [w \in Workers |-> NoJob]
    /\ stopping = [w \in Workers |-> FALSE]
    /\ runs = [j \in Jobs |-> 0]

-----------------------------------------------------------------------------
(* The two shared stores.  Each operation has an outcome the caller sees    *)
(* (`ok`) and an effect, which differ when the acknowledgement is lost.      *)

\* Whether a network call may end this way, for a caller whose context is
\* cancelled or not: with a cancelled context it returns ctx.Err() unsent.
CallOutcome(kind, cancelled, ok, applied) ==
    \/ ok /\ applied /\ ~cancelled
    \/ ~ok /\ ~applied /\ (cancelled \/ kind \in Faults)
    \/ ~ok /\ applied /\ ~cancelled /\ "ack" \in Faults

\* LPUSH of a job whose Attempts is n.
Enqueue(j, n, applied) ==
    queue' = IF applied THEN Append(queue, [id |-> j, attempts |-> n])
                        ELSE queue

\* Create: the INSERT of a pending row.
Create(j) ==
    /\ status' = [status EXCEPT ![j] = "pending"]
    /\ UNCHANGED <<hasResult, hasError>>

\* MarkRunning clears finished_at only: an earlier error text stays.
MarkRunning(j) ==
    /\ status' = [status EXCEPT ![j] = "running"]
    /\ UNCHANGED <<hasResult, hasError>>

MarkSucceeded(j) ==
    /\ status' = [status EXCEPT ![j] = "succeeded"]
    /\ hasResult' = [hasResult EXCEPT ![j] = TRUE]
    /\ hasError' = [hasError EXCEPT ![j] = FALSE]

\* Mutant: the UPDATE forgets the error column.
MarkFailedWithoutText(j) ==
    /\ status' = [status EXCEPT ![j] = "failed"]
    /\ UNCHANGED <<hasResult, hasError>>

MarkFailed(j) ==
    /\ status' = [status EXCEPT ![j] = "failed"]
    /\ hasError' = [hasError EXCEPT ![j] = TRUE]
    /\ UNCHANGED hasResult

-----------------------------------------------------------------------------
(* The API process: SubmitCalculate.                                        *)

SubmitCreate(j) ==
    /\ api[j] = "idle"
    /\ \E ok, applied \in BOOLEAN :
          /\ CallOutcome("db", gone[j], ok, applied)
          /\ IF applied THEN Create(j) ELSE UNCHANGED rowVars
          /\ api' = [api EXCEPT ![j] = IF ok THEN "created" ELSE "returned"]
    /\ UNCHANGED <<queue, gone, workerVars, runs>>

SubmitEnqueue(j) ==
    /\ api[j] = "created"
    /\ \E ok, applied \in BOOLEAN :
          /\ CallOutcome("queue", gone[j], ok, applied)
          /\ Enqueue(j, 0, applied)
          /\ api' = [api EXCEPT ![j] = IF ok THEN "returned" ELSE "refused"]
    /\ UNCHANGED <<rowVars, gone, workerVars, runs>>

\* The failure of this MarkFailed is only logged.
SubmitMarkFailed(j) ==
    /\ api[j] = "refused"
    /\ \E ok, applied \in BOOLEAN :
          /\ CallOutcome("db", gone[j], ok, applied)
          /\ IF applied THEN MarkFailed(j) ELSE UNCHANGED rowVars
    /\ api' = [api EXCEPT ![j] = "returned"]
    /\ UNCHANGED <<queue, gone, workerVars, runs>>

Disconnect(j) ==
    /\ "disconnect" \in Faults
    /\ api[j] \in {"created", "refused"}
    /\ ~gone[j]
    /\ gone' = [gone EXCEPT ![j] = TRUE]
    /\ UNCHANGED <<rowVars, queue, api, workerVars, runs>>

ApiCrash(j) ==
    /\ "crash" \in Faults
    /\ api[j] \in {"created", "refused"}
    /\ api' = [api EXCEPT ![j] = "returned"]
    /\ UNCHANGED <<rowVars, queue, gone, workerVars, runs>>

-----------------------------------------------------------------------------
(* A worker: consume, processJob and RunCalculate.                          *)

\* The worker goes on with the job it holds.
Goto(w, label) ==
    /\ pc' = [pc EXCEPT ![w] = label]
    /\ UNCHANGED job

\* processJob returns (or the process is gone): nothing keeps the job.
Release(w, label) ==
    /\ pc' = [pc EXCEPT ![w] = label]
    /\ job' = [job EXCEPT ![w] = NoJob]

\* Mutant: the job is read but stays on the list.
DequeuePeek(w) ==
    /\ pc[w] = "idle"
    /\ ~stopping[w]
    /\ queue # <<>>
    /\ job' = [job EXCEPT ![w] = Head(queue)]
    /\ pc' = [pc EXCEPT ![w] = "load"]
    /\ UNCHANGED <<rowVars, queue, apiVars, stopping, runs>>

\* BRPOP removes the job from the list before anything is done with it.
Dequeue(w) ==
    /\ pc[w] = "idle"
    /\ ~stopping[w]
    /\ queue # <<>>
    /\ job' = [job EXCEPT ![w] = Head(queue)]
    /\ queue' = Tail(queue)
    /\ pc' = [pc EXCEPT ![w] = "load"]
    /\ UNCHANGED <<rowVars, apiVars, stopping, runs>>

\* Mutant: the row is loaded but not marked running.
BeginUnmarked(w) ==
    /\ pc[w] = "load"
    /\ \E ok, applied \in BOOLEAN :
          /\ CallOutcome("db", stopping[w], ok, applied)
          /\ Goto(w, IF ok THEN "calc" ELSE "failed")
    /\ UNCHANGED <<rowVars, queue, apiVars, stopping, runs>>

\* GetByID (the payload it reads never changes) and MarkRunning.
Begin(w) ==
    /\ pc[w] = "load"
    /\ \E ok, applied \in BOOLEAN :
          /\ CallOutcome("db", stopping[w], ok, applied)
          /\ IF applied THEN MarkRunning(job[w].id) ELSE UNCHANGED rowVars
          /\ Goto(w, IF ok THEN "calc" ELSE "failed")
    /\ UNCHANGED <<queue, apiVars, stopping, runs>>

\* The calculation either yields a result or an error.
Calculate(w) ==
    /\ pc[w] = "calc"
    /\ \E label \in {"save", "saveError"} : Goto(w, label)
    /\ runs' = [runs EXCEPT ![job[w].id] = @ + 1]
    /\ UNCHANGED <<rowVars, queue, apiVars, stopping>>

SaveResult(w) ==
    /\ pc[w] = "save"
    /\ \E ok, applied \in BOOLEAN :
          /\ CallOutcome("db", stopping[w], ok, applied)
          /\ IF applied THEN MarkSucceeded(job[w].id) ELSE UNCHANGED rowVars
          /\ IF ok THEN Release(w, "idle") ELSE Goto(w, "failed")
    /\ UNCHANGED <<queue, apiVars, stopping, runs>>

\* Both the calculation's error and a failed MarkFailed are returned.
SaveError(w) ==
    /\ pc[w] = "saveError"
    /\ \E ok, applied \in BOOLEAN :
          /\ CallOutcome("db", stopping[w], ok, applied)
          /\ IF applied THEN MarkFailed(job[w].id) ELSE UNCHANGED rowVars
    /\ Goto(w, "failed")
    /\ UNCHANGED <<queue, apiVars, stopping, runs>>

\* Mutant: > instead of >=, one attempt too many.
CountAttemptOffByOne(w) ==
    /\ pc[w] = "failed"
    /\ IF job[w].attempts + 1 > MaxAttempts
       THEN Release(w, "idle")
       ELSE /\ pc' = [pc EXCEPT ![w] = "backoff"]
            /\ job' = [job EXCEPT ![w].attempts = @ + 1]
    /\ UNCHANGED <<rowVars, queue, apiVars, stopping, runs>>

\* processJob after a failed handler: the attempt is counted, and the job is
\* dropped once MaxAttempts is reached.
CountAttempt(w) ==
    /\ pc[w] = "failed"
    /\ IF job[w].attempts + 1 >= MaxAttempts
       THEN Release(w, "idle")
       ELSE /\ pc' = [pc EXCEPT ![w] = "backoff"]
            /\ job' = [job EXCEPT ![w].attempts = @ + 1]
    /\ UNCHANGED <<rowVars, queue, apiVars, stopping, runs>>

\* Mutant: the check of the context after the pause is inverted.
RequeueInverted(w) ==
    /\ pc[w] = "backoff"
    /\ stopping[w]
    /\ \E ok, applied \in BOOLEAN :
          /\ CallOutcome("queue", FALSE, ok, applied)
          /\ Enqueue(job[w].id, job[w].attempts, applied)
    /\ Release(w, "idle")
    /\ UNCHANGED <<rowVars, apiVars, stopping, runs>>

\* After the pause the job goes back on the list; a failed LPUSH is logged.
Requeue(w) ==
    /\ pc[w] = "backoff"
    /\ ~stopping[w]
    /\ \E ok, applied \in BOOLEAN :
          /\ CallOutcome("queue", FALSE, ok, applied)
          /\ Enqueue(job[w].id, job[w].attempts, applied)
    /\ Release(w, "idle")
    /\ UNCHANGED <<rowVars, apiVars, stopping, runs>>

\* The pause is cut short by the shutdown: processJob returns.
AbandonBackoff(w) ==
    /\ pc[w] = "backoff"
    /\ stopping[w]
    /\ Release(w, "idle")
    /\ UNCHANGED <<rowVars, queue, apiVars, stopping, runs>>

Shutdown(w) ==
    /\ "shutdown" \in Faults
    /\ pc[w] # "stopped"
    /\ ~stopping[w]
    /\ stopping' = [stopping EXCEPT ![w] = TRUE]
    /\ UNCHANGED <<rowVars, queue, apiVars, pc, job, runs>>

\* consume returns at the top of its loop.
Exit(w) ==
    /\ pc[w] = "idle"
    /\ stopping[w]
    /\ Goto(w, "stopped")
    /\ UNCHANGED <<rowVars, queue, apiVars, stopping, runs>>

\* Whatever the worker held is gone with it.
WorkerCrash(w) ==
    /\ "crash" \in Faults
    /\ job[w] # NoJob
    /\ Release(w, "stopped")
    /\ UNCHANGED <<rowVars, queue, apiVars, stopping, runs>>

\* The orchestrator starts the worker again.
Restart(w) ==
    /\ pc[w] = "stopped"
    /\ Goto(w, "idle")
    /\ stopping' = [stopping EXCEPT ![w] = FALSE]
    /\ UNCHANGED <<rowVars, queue, apiVars, runs>>

-----------------------------------------------------------------------------
ApiStep(j) ==
    SubmitCreate(j) \/ SubmitEnqueue(j) \/ SubmitMarkFailed(j)

WorkerStep(w) ==
    \/ Dequeue(w) \/ Begin(w) \/ Calculate(w) \/ SaveResult(w) \/ SaveError(w)
    \/ CountAttempt(w) \/ Requeue(w) \/ AbandonBackoff(w) \/ Exit(w)
    \/ Restart(w)

Fault ==
    \/ \E j \in Jobs : Disconnect(j) \/ ApiCrash(j)
    \/ \E w \in Workers : Shutdown(w) \/ WorkerCrash(w)

Next ==
    \/ \E j \in Jobs : ApiStep(j)
    \/ \E w \in Workers : WorkerStep(w)
    \/ Fault

Spec == Init /\ [][Next]_vars

\* The goroutines of a live process keep running: a started submission ends
\* and a worker that can take a step takes it.  Faults are never forced.
FairSpec ==
    /\ Spec
    /\ \A j \in Jobs : WF_vars(ApiStep(j))
    /\ \A w \in Workers : WF_vars(WorkerStep(w))

-----------------------------------------------------------------------------
(* Correctness.                                                             *)

TypeOK ==
    /\ status \in [Jobs -> Status]
    /\ hasResult \in [Jobs -> BOOLEAN]
    /\ hasError \in [Jobs -> BOOLEAN]
    /\ queue \in Seq(QueueJob)
    /\ api \in [Jobs -> ApiState]
    /\ gone \in [Jobs -> BOOLEAN]
    /\ pc \in [Workers -> WorkerState]
    /\ job \in [Workers -> QueueJob \union {NoJob}]
    /\ \A w \in Workers : job[w] = NoJob <=> pc[w] \in {"idle", "stopped"}
    /\ stopping \in [Workers -> BOOLEAN]
    /\ runs \in [Jobs -> Nat]

Queued(j) == \E i \in 1..Len(queue) : queue[i].id = j
HeldBy(w, j) == job[w].id = j
Carried(j) == Queued(j) \/ \E w \in Workers : HeldBy(w, j)

\* EDR-0035 invariant 2: a succeeded row has a result and a failed row has an
\* error text, whatever order the writes of API and workers arrive in.
ResultOrError ==
    \A j \in Jobs :
        /\ status[j] = "succeeded" => hasResult[j]
        /\ status[j] = "failed" => hasError[j]

\* A row is never worked on twice at once: its id is at most once on the list
\* or in the hands of one worker, through retries, crashes, failed and
\* half-failed pushes (processJob requeues only what it has popped).
SingleCarrier ==
    /\ \A i, k \in 1..Len(queue) : queue[i].id = queue[k].id => i = k
    /\ \A w \in Workers, i \in 1..Len(queue) : ~HeldBy(w, queue[i].id)
    /\ \A v, w \in Workers :
          job[v] # NoJob /\ HeldBy(w, job[v].id) => v = w

\* EDR-0020: "MaxAttempts" bounds the work: the calculation of one submission
\* runs at most MaxAttempts times, counted over all workers.
AttemptBudget == \A j \in Jobs : runs[j] <= MaxAttempts

\* Whatever fails, a submission is worked on by one worker at a time and no more often
\* than allowed, and what its row says is backed by a result or an error text.
JobsAreSafe == TypeOK /\ ResultOrError /\ SingleCarrier /\ AttemptBudget

\* EDR-0035 invariant 1, "no orphan": once SubmitCalculate has returned, a row
\* that is still pending or running is on the list or held by a worker, so
\* somebody will finish it.
NoOrphan ==
    \A j \in Jobs :
        status[j] \in {"pending", "running"} /\ api[j] = "returned"
            => Carried(j)

\* The part of it that shutdown must respect (EDR-0020: a worker that is told
\* to stop drains its current job): a running row has a worker or a place on
\* the list.
DrainedOnShutdown ==
    \A j \in Jobs : status[j] = "running" => Carried(j)

\* A client that has seen `succeeded` keeps seeing it: neither a retry nor the
\* API's late MarkFailed takes the row back.  With the fault "ack" it does not hold: a push
\* that took effect unacknowledged is followed by MarkFailed, which looks at no status.
SucceededIsFinal ==
    [][\A j \in Jobs : status[j] = "succeeded" => status'[j] = "succeeded"]_vars

\* Every submission that got a row comes to rest: finished, and no copy of the
\* job is left that could change it again.
Settled(j) == status[j] \in {"succeeded", "failed"} /\ ~Carried(j)
EventuallySettled ==
    \A j \in Jobs : status[j] = "pending" ~> [](Settled(j))

\* The poller's view is the abstract life cycle of a job.
Lifecycle == INSTANCE JobLifecycle WITH Jobs <- Jobs, status <- status
LifecycleSpec == Lifecycle!Spec
=============================================================================
