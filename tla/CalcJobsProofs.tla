--------------------------- MODULE CalcJobsProofs ---------------------------
(***************************************************************************)
(* Proofs about CalcJobs, for any number of submissions and workers, any    *)
(* MaxAttempts and any set of faults.                                       *)
(***************************************************************************)
EXTENDS CalcJobs, TLAPS

USE MaxAttemptsAssumption, NoneAssumption

LEMMA NoJobFacts == NoJob.id = None /\ NoJob.attempts = 0 /\ NoJob \notin QueueJob
BY DEF NoJob, QueueJob

\* Counting an attempt keeps the job a job, of the same row.
LEMMA NextAttempt ==
    ASSUME NEW q \in QueueJob
    PROVE  LET n == [q EXCEPT !.attempts = q.attempts + 1]
           IN  n \in QueueJob /\ n.id = q.id /\ n.attempts = q.attempts + 1
<1>1. q = [id |-> q.id, attempts |-> q.attempts] /\ q.attempts \in Nat /\ q.id \in Jobs
  BY DEF QueueJob
<1>2. [q EXCEPT !.attempts = q.attempts + 1] = [id |-> q.id, attempts |-> q.attempts + 1]
  BY <1>1
<1> QED BY <1>1, <1>2 DEF QueueJob

\* What a busy worker holds is a queue.Job.
LEMMA BusyHoldsJob ==
    ASSUME TypeOK, NEW w \in Workers, pc[w] \notin {"idle", "stopped"}
    PROVE  /\ job[w] \in QueueJob
           /\ job[w].id \in Jobs
           /\ job[w].attempts \in Nat
           /\ job[w] # NoJob
BY NoJobFacts DEF TypeOK, QueueJob

\* The variables are well typed in every reachable state, and a worker holds
\* a job exactly while it works on one.
THEOREM TypeCorrect == Spec => []TypeOK
<1>1. Init => TypeOK
  BY NoJobFacts DEF Init, TypeOK, Status, ApiState, WorkerState, QueueJob
<1>2. TypeOK /\ [Next]_vars => TypeOK'
  <2> SUFFICES ASSUME TypeOK, [Next]_vars PROVE TypeOK'
    OBVIOUS
  <2> USE DEF TypeOK
  <2>1. ASSUME NEW j \in Jobs, ApiStep(j) PROVE TypeOK'
    <3>1. CASE SubmitCreate(j)
      BY <3>1 DEF SubmitCreate, Create, rowVars, workerVars, Status, ApiState
    <3>2. CASE SubmitEnqueue(j)
      <4>1. [id |-> j, attempts |-> 0] \in QueueJob
        BY DEF QueueJob
      <4>2. queue' \in Seq(QueueJob)
        BY <3>2, <4>1 DEF SubmitEnqueue, Enqueue
      <4> QED BY <3>2, <4>2 DEF SubmitEnqueue, rowVars, workerVars, ApiState
    <3>3. CASE SubmitMarkFailed(j)
      BY <3>3 DEF SubmitMarkFailed, MarkFailed, rowVars, workerVars, Status, ApiState
    <3> QED BY <2>1, <3>1, <3>2, <3>3 DEF ApiStep
  <2>2. ASSUME NEW w \in Workers, WorkerStep(w) PROVE TypeOK'
    <3> USE DEF rowVars, apiVars, WorkerState
    <3>1. CASE Dequeue(w)
      <4>1. Head(queue) \in QueueJob /\ Tail(queue) \in Seq(QueueJob)
        BY <3>1 DEF Dequeue
      <4> QED BY <3>1, <4>1, NoJobFacts DEF Dequeue
    <3>2. CASE Begin(w)
      BY <3>2, BusyHoldsJob DEF Begin, MarkRunning, Goto, Status
    <3>3. CASE Calculate(w)
      <4>1. job[w].id \in Jobs
        BY <3>3, BusyHoldsJob DEF Calculate
      <4>2. runs' \in [Jobs -> Nat]
        BY <3>3, <4>1 DEF Calculate
      <4>3. PICK label \in {"save", "saveError"} : Goto(w, label)
        BY <3>3 DEF Calculate
      <4> QED BY <3>3, <4>2, <4>3 DEF Calculate, Goto
    <3>4. CASE SaveResult(w)
      <4>1. job[w].id \in Jobs
        BY <3>4, BusyHoldsJob DEF SaveResult
      <4>2. /\ status' \in [Jobs -> Status]
            /\ hasResult' \in [Jobs -> BOOLEAN]
            /\ hasError' \in [Jobs -> BOOLEAN]
        BY <3>4, <4>1 DEF SaveResult, MarkSucceeded, Status
      <4>3. Release(w, "idle") \/ Goto(w, "failed")
        BY <3>4 DEF SaveResult
      <4> QED BY <3>4, <4>2, <4>3 DEF SaveResult, Goto, Release
    <3>5. CASE SaveError(w)
      BY <3>5, BusyHoldsJob DEF SaveError, MarkFailed, Goto, Status
    <3>6. CASE CountAttempt(w)
      <4>1. job[w] \in QueueJob /\ pc[w] = "failed"
        BY <3>6, BusyHoldsJob DEF CountAttempt
      <4>2. [job[w] EXCEPT !.attempts = job[w].attempts + 1] \in QueueJob
        BY <4>1, NextAttempt
      <4>3. CASE Release(w, "idle")
        BY <3>6, <4>3 DEF CountAttempt, Release
      <4>4. CASE /\ pc' = [pc EXCEPT ![w] = "backoff"]
                 /\ job' = [job EXCEPT ![w] =
                               [job[w] EXCEPT !.attempts = job[w].attempts + 1]]
        BY <3>6, <4>1, <4>2, <4>4, NoJobFacts DEF CountAttempt
      <4> QED BY <3>6, <4>3, <4>4 DEF CountAttempt
    <3>7. CASE Requeue(w)
      <4>1. [id |-> job[w].id, attempts |-> job[w].attempts] \in QueueJob
        BY <3>7, BusyHoldsJob DEF Requeue, QueueJob
      <4>2. queue' \in Seq(QueueJob)
        BY <3>7, <4>1 DEF Requeue, Enqueue
      <4> QED BY <3>7, <4>2 DEF Requeue, Release
    <3>8. CASE AbandonBackoff(w)
      BY <3>8 DEF AbandonBackoff, Release
    <3>9. CASE Exit(w)
      BY <3>9 DEF Exit, Goto
    <3>10. CASE Restart(w)
      BY <3>10 DEF Restart, Goto
    <3> QED BY <2>2, <3>1, <3>2, <3>3, <3>4, <3>5, <3>6, <3>7, <3>8, <3>9, <3>10
            DEF WorkerStep
  <2>3. CASE Fault
    BY <2>3 DEF Fault, Disconnect, ApiCrash, Shutdown, WorkerCrash, Release,
                rowVars, apiVars, workerVars, ApiState, WorkerState
  <2>4. CASE UNCHANGED vars
    BY <2>4 DEF vars, rowVars, apiVars, workerVars
  <2> QED BY <2>1, <2>2, <2>3, <2>4 DEF Next
<1> QED BY <1>1, <1>2, PTL DEF Spec

-----------------------------------------------------------------------------
(* At most one carrier, at most MaxAttempts runs.  Neither is inductive     *)
(* alone: a push is harmless only because the row was not carried before,   *)
(* and a run is affordable only because the attempts a job has behind it    *)
(* count the runs of its row.                                               *)

\* A row whose submission has not pushed it yet is nowhere and never ran.
NotPushed ==
    \A j \in Jobs :
        api[j] \in {"idle", "created"} =>
            /\ \A i \in 1..Len(queue) : queue[i].id # j
            /\ \A w \in Workers : job[w].id # j
            /\ runs[j] = 0

\* A queued job has attempts left, and they pay for the runs of its row.
QueueBudget ==
    \A i \in 1..Len(queue) :
        /\ queue[i].attempts < MaxAttempts
        /\ runs[queue[i].id] <= queue[i].attempts

\* So has a job in a worker's hands; between the run and the counting of the
\* attempt the runs are one ahead.
WorkerBudget ==
    \A w \in Workers : job[w] # NoJob =>
        /\ job[w].attempts < MaxAttempts
        /\ pc[w] \in {"load", "calc", "backoff"} => runs[job[w].id] <= job[w].attempts
        /\ runs[job[w].id] <= job[w].attempts + 1

IInv == TypeOK /\ SingleCarrier /\ NotPushed /\ QueueBudget /\ WorkerBudget
        /\ AttemptBudget

LEMMA AppendFacts ==
    ASSUME NEW S, NEW q \in Seq(S), NEW e \in S
    PROVE  /\ Append(q, e) \in Seq(S)
           /\ Len(Append(q, e)) = Len(q) + 1
           /\ \A i \in 1..Len(q) : Append(q, e)[i] = q[i]
           /\ Append(q, e)[Len(q) + 1] = e
OBVIOUS

LEMMA TailFacts ==
    ASSUME NEW S, NEW q \in Seq(S), q # <<>>
    PROVE  /\ Len(q) \in Nat \ {0}
           /\ Head(q) = q[1]
           /\ Len(Tail(q)) = Len(q) - 1
           /\ \A i \in 1..Len(Tail(q)) : Tail(q)[i] = q[i + 1]
OBVIOUS

LEMMA QueueTyped ==
    ASSUME TypeOK
    PROVE  /\ Len(queue) \in Nat
           /\ \A i \in 1..Len(queue) : /\ queue[i] \in QueueJob
                                        /\ queue[i].id \in Jobs
                                        /\ queue[i].attempts \in Nat
<1> SUFFICES ASSUME NEW i \in 1..Len(queue)
             PROVE  queue[i] \in QueueJob /\ queue[i].id \in Jobs /\ queue[i].attempts \in Nat
  BY DEF TypeOK
<1>1. queue[i] \in QueueJob
  BY DEF TypeOK
<1> QED BY <1>1 DEF QueueJob

\* What a worker holds names a row, or nothing.
LEMMA HandsTyped ==
    ASSUME TypeOK, NEW w \in Workers
    PROVE  /\ job[w] # NoJob => job[w].id \in Jobs /\ job[w].attempts \in Nat
           /\ job[w] = NoJob => job[w].id \notin Jobs
BY NoJobFacts DEF TypeOK, QueueJob

\* Steps that move neither the list nor the jobs in hand nor a history, and
\* that put no submission back to its start, keep the invariant.
LEMMA QuietStep ==
    ASSUME IInv, TypeOK', UNCHANGED <<queue, job, runs>>,
           \A j \in Jobs : api'[j] \in {"idle", "created"} => api[j] \in {"idle", "created"},
           \A w \in Workers : pc'[w] \in {"load", "calc", "backoff"}
                                  => pc[w] \in {"load", "calc", "backoff"}
    PROVE  IInv'
BY DEF IInv, SingleCarrier, HeldBy, NotPushed, QueueBudget, WorkerBudget, AttemptBudget

\* A worker that lets go of its job keeps it too.
LEMMA ReleaseStep ==
    ASSUME IInv, TypeOK', NEW w \in Workers, NEW label, Release(w, label),
           UNCHANGED <<queue, runs, api>>
    PROVE  IInv'
<1>0. job \in [Workers -> QueueJob \union {NoJob}] /\ pc \in [Workers -> WorkerState]
  BY DEF IInv, TypeOK
<1>1. /\ job'[w] = NoJob
      /\ \A v \in Workers : v # w => job'[v] = job[v] /\ pc'[v] = pc[v]
  BY <1>0 DEF Release
<1>2. \A i \in 1..Len(queue) : queue[i].id \in Jobs
  BY QueueTyped DEF IInv
<1>3. \A v \in Workers : job[v] # NoJob => job[v].id \in Jobs
  BY DEF IInv, TypeOK, QueueJob
<1>4. SingleCarrier'
  BY <1>1, <1>2, <1>3, NoJobFacts DEF IInv, SingleCarrier, HeldBy
<1>5. NotPushed'
  BY <1>1, NoJobFacts DEF IInv, NotPushed
<1>6. QueueBudget' /\ WorkerBudget' /\ AttemptBudget'
  BY <1>1 DEF IInv, QueueBudget, WorkerBudget, AttemptBudget
<1> QED BY <1>4, <1>5, <1>6 DEF IInv

\* LPUSH of a job onto a list that does not hold its row, by a submission or by
\* the worker that held it.
LEMMA PushStep ==
    ASSUME IInv, TypeOK', NEW e \in QueueJob, queue' = Append(queue, e),
           UNCHANGED runs,
           \A i \in 1..Len(queue) : queue[i].id # e.id,
           \A v \in Workers : job'[v].id # e.id,
           \A v \in Workers : \/ job'[v] = NoJob
                              \/ job'[v] = job[v] /\ pc'[v] = pc[v],
           \A j \in Jobs : api'[j] \in {"idle", "created"}
                               => api[j] \in {"idle", "created"} /\ j # e.id,
           e.attempts < MaxAttempts, runs[e.id] <= e.attempts
    PROVE  IInv'
<1> DEFINE n == Len(queue)
<1>1. /\ Len(queue') = n + 1
      /\ \A i \in 1..n : queue'[i] = queue[i]
      /\ queue'[n + 1] = e
  BY AppendFacts DEF IInv, TypeOK
<1>2. n \in Nat /\ \A i \in 1..n : queue[i].id \in Jobs
  BY QueueTyped DEF IInv
<1>3. e.id \in Jobs
  BY DEF QueueJob
<1>4. \A i \in 1..(n + 1) : i \in 1..n \/ i = n + 1
  BY <1>2
<1>5. SingleCarrier'
  <2>1. \A i, k \in 1..Len(queue') : queue'[i].id = queue'[k].id => i = k
    BY <1>1, <1>2, <1>4 DEF IInv, SingleCarrier
  <2>2. \A v \in Workers, i \in 1..Len(queue') : job'[v].id # queue'[i].id
    BY <1>1, <1>2, <1>4, NoJobFacts DEF IInv, SingleCarrier, HeldBy
  <2>3. \A u, v \in Workers : job'[u] # NoJob /\ job'[v].id = job'[u].id => u = v
    <3> SUFFICES ASSUME NEW u \in Workers, NEW v \in Workers,
                        job'[u] # NoJob, job'[v].id = job'[u].id
                 PROVE  u = v
      OBVIOUS
    <3>1. job'[u] = job[u] /\ job[u].id \in Jobs
      BY HandsTyped DEF IInv
    <3>2. job'[v] = job[v]
      BY <3>1, NoJobFacts
    <3> QED BY <3>1, <3>2 DEF IInv, SingleCarrier, HeldBy
  <2> QED BY <2>1, <2>2, <2>3 DEF SingleCarrier, HeldBy
<1>6. NotPushed'
  BY <1>1, <1>2, <1>3, <1>4, NoJobFacts DEF IInv, NotPushed
<1>7. QueueBudget'
  BY <1>1, <1>2, <1>4 DEF IInv, QueueBudget
<1>8. WorkerBudget' /\ AttemptBudget'
  BY DEF IInv, WorkerBudget, AttemptBudget
<1> QED BY <1>5, <1>6, <1>7, <1>8 DEF IInv

\* BRPOP moves the job from the list into the worker's hands.
LEMMA DequeueStep ==
    ASSUME IInv, TypeOK', NEW w \in Workers, Dequeue(w)
    PROVE  IInv'
<1> DEFINE n == Len(queue)
<1>1. /\ n \in Nat \ {0}
      /\ Len(queue') = n - 1
      /\ \A i \in 1..(n - 1) : queue'[i] = queue[i + 1]
      /\ job'[w] = queue[1]
      /\ pc'[w] = "load"
  BY TailFacts DEF IInv, TypeOK, Dequeue
<1>2. \A v \in Workers : v # w => job'[v] = job[v] /\ pc'[v] = pc[v]
  BY DEF IInv, TypeOK, Dequeue
<1>3. /\ \A i \in 1..n : queue[i].id \in Jobs /\ queue[i].attempts \in Nat
      /\ 1 \in 1..n /\ \A i \in 1..(n - 1) : i + 1 \in 1..n /\ i + 1 # 1
  BY <1>1, QueueTyped DEF IInv
<1>4. UNCHANGED <<api, runs>>
  BY DEF Dequeue, apiVars
<1>5. SingleCarrier'
  <2>1. \A i, k \in 1..Len(queue') : queue'[i].id = queue'[k].id => i = k
    <3> SUFFICES ASSUME NEW i \in 1..(n - 1), NEW k \in 1..(n - 1),
                        queue[i + 1].id = queue[k + 1].id
                 PROVE  i = k
      BY <1>1
    <3>1. i + 1 = k + 1
      BY <1>3 DEF IInv, SingleCarrier
    <3> QED BY <3>1, <1>1
  <2>2. \A v \in Workers, i \in 1..Len(queue') : job'[v].id # queue'[i].id
    <3> SUFFICES ASSUME NEW v \in Workers, NEW i \in 1..(n - 1)
                 PROVE  job'[v].id # queue[i + 1].id
      BY <1>1
    <3>1. CASE v = w
      BY <3>1, <1>1, <1>3 DEF IInv, SingleCarrier
    <3>2. CASE v # w
      BY <3>2, <1>2, <1>3 DEF IInv, SingleCarrier, HeldBy
    <3> QED BY <3>1, <3>2
  <2>3. \A u, v \in Workers : job'[u] # NoJob /\ job'[v].id = job'[u].id => u = v
    <3> SUFFICES ASSUME NEW u \in Workers, NEW v \in Workers, u # v,
                        job'[u] # NoJob, job'[v].id = job'[u].id
                 PROVE  FALSE
      OBVIOUS
    <3>1. CASE u # w /\ v # w
      BY <3>1, <1>2 DEF IInv, SingleCarrier, HeldBy
    <3>2. CASE u = w \/ v = w
      BY <3>2, <1>1, <1>2, <1>3 DEF IInv, SingleCarrier, HeldBy
    <3> QED BY <3>1, <3>2
  <2> QED BY <2>1, <2>2, <2>3 DEF SingleCarrier, HeldBy
<1>6. NotPushed'
  BY <1>1, <1>2, <1>3, <1>4 DEF IInv, NotPushed
<1>7. QueueBudget'
  BY <1>1, <1>3, <1>4 DEF IInv, QueueBudget
<1>8. WorkerBudget'
  <2> SUFFICES ASSUME NEW v \in Workers, job'[v] # NoJob
               PROVE  /\ job'[v].attempts < MaxAttempts
                      /\ pc'[v] \in {"load", "calc", "backoff"}
                            => runs[job'[v].id] <= job'[v].attempts
                      /\ runs[job'[v].id] <= job'[v].attempts + 1
    BY <1>4 DEF WorkerBudget
  <2>1. CASE v = w
    <3>1. runs[queue[1].id] \in Nat /\ queue[1].attempts \in Nat
      BY <1>3 DEF IInv, TypeOK
    <3> QED BY <2>1, <3>1, <1>1, <1>3 DEF IInv, QueueBudget
  <2>2. CASE v # w
    BY <2>2, <1>2 DEF IInv, WorkerBudget
  <2> QED BY <2>1, <2>2
<1>9. AttemptBudget'
  BY <1>4 DEF IInv, AttemptBudget
<1> QED BY <1>5, <1>6, <1>7, <1>8, <1>9 DEF IInv

\* The run of a calculation is paid for by the attempt that is under way, and
\* it concerns no other carrier.
LEMMA CalculateStep ==
    ASSUME IInv, TypeOK', NEW w \in Workers, Calculate(w)
    PROVE  IInv'
<1> DEFINE r == job[w].id
<1>1. pc[w] = "calc" /\ job[w] # NoJob /\ r \in Jobs /\ job[w].attempts \in Nat
  BY BusyHoldsJob DEF IInv, Calculate
<1>2. runs \in [Jobs -> Nat] /\ runs' = [runs EXCEPT ![r] = runs[r] + 1]
  BY DEF IInv, TypeOK, Calculate
<1>3. UNCHANGED <<queue, job, api>>
  BY DEF Calculate, Goto, apiVars
<1>4. pc'[w] \in {"save", "saveError"} /\ \A v \in Workers : v # w => pc'[v] = pc[v]
  BY DEF IInv, TypeOK, Calculate, Goto
<1>5. job[w].attempts < MaxAttempts /\ runs[r] <= job[w].attempts
  BY <1>1 DEF IInv, WorkerBudget
<1>6. SingleCarrier'
  BY <1>3 DEF IInv, SingleCarrier, HeldBy
<1>7. NotPushed'
  <2> SUFFICES ASSUME NEW j \in Jobs, api[j] \in {"idle", "created"}
               PROVE  /\ \A i \in 1..Len(queue) : queue[i].id # j
                      /\ \A v \in Workers : job[v].id # j
                      /\ runs'[j] = 0
    BY <1>3 DEF NotPushed
  <2>1. j # r
    BY <1>1 DEF IInv, NotPushed
  <2> QED BY <2>1, <1>2 DEF IInv, NotPushed
<1>8. QueueBudget'
  <2> SUFFICES ASSUME NEW i \in 1..Len(queue)
               PROVE  /\ queue[i].attempts < MaxAttempts
                      /\ runs'[queue[i].id] <= queue[i].attempts
    BY <1>3 DEF QueueBudget
  <2>1. queue[i].id # r /\ queue[i].id \in Jobs
    BY QueueTyped DEF IInv, SingleCarrier, HeldBy
  <2> QED BY <2>1, <1>2 DEF IInv, QueueBudget
<1>9. WorkerBudget'
  <2> SUFFICES ASSUME NEW v \in Workers, job[v] # NoJob
               PROVE  /\ job[v].attempts < MaxAttempts
                      /\ pc'[v] \in {"load", "calc", "backoff"}
                            => runs'[job[v].id] <= job[v].attempts
                      /\ runs'[job[v].id] <= job[v].attempts + 1
    BY <1>3 DEF WorkerBudget
  <2>1. CASE v = w
    BY <2>1, <1>1, <1>2, <1>4, <1>5
  <2>2. CASE v # w
    <3>1. job[v].id # r /\ job[v].id \in Jobs
      BY <2>2, <1>1, HandsTyped DEF IInv, SingleCarrier, HeldBy
    <3>2. runs'[job[v].id] = runs[job[v].id]
      BY <3>1, <1>2
    <3> QED BY <2>2, <3>2, <1>4 DEF IInv, WorkerBudget
  <2> QED BY <2>1, <2>2
<1>10. AttemptBudget'
  BY <1>1, <1>2, <1>5 DEF IInv, AttemptBudget
<1> QED BY <1>6, <1>7, <1>8, <1>9, <1>10 DEF IInv

\* Counting the attempt brings it level with the runs again.
LEMMA CountAttemptStep ==
    ASSUME IInv, TypeOK', NEW w \in Workers, CountAttempt(w)
    PROVE  IInv'
<1>0. UNCHANGED <<queue, runs, api>>
  BY DEF CountAttempt, apiVars
<1>1. CASE Release(w, "idle")
  BY <1>0, <1>1, ReleaseStep
<1>2. CASE ~Release(w, "idle")
  <2> DEFINE e == [job[w] EXCEPT !.attempts = job[w].attempts + 1]
  <2>1. pc[w] = "failed" /\ job[w] # NoJob /\ job[w] \in QueueJob
        /\ job[w].id \in Jobs /\ job[w].attempts \in Nat
    BY BusyHoldsJob DEF IInv, CountAttempt
  <2>2. /\ job[w].attempts + 1 < MaxAttempts
        /\ job' = [job EXCEPT ![w] = e]
        /\ pc' = [pc EXCEPT ![w] = "backoff"]
    BY <1>2, <2>1 DEF CountAttempt
  <2>3. e \in QueueJob /\ e.id = job[w].id /\ e.attempts = job[w].attempts + 1
    BY <2>1, NextAttempt
  <2>4. job'[w] = e /\ \A v \in Workers : v # w => job'[v] = job[v] /\ pc'[v] = pc[v]
    BY <2>2 DEF IInv, TypeOK
  <2> HIDE DEF e
  <2>5. \A v \in Workers : job'[v].id = job[v].id
    BY <2>1, <2>3, <2>4
  <2>51. \A v \in Workers : job'[v] # NoJob => job[v] # NoJob
    BY <2>1, <2>3, <2>4, NoJobFacts
  <2>6. SingleCarrier'
    <3>1. \A v \in Workers, i \in 1..Len(queue') : job'[v].id # queue'[i].id
      BY <1>0, <2>5 DEF IInv, SingleCarrier, HeldBy
    <3>2. \A u, v \in Workers : job'[u] # NoJob /\ job'[v].id = job'[u].id => u = v
      BY <2>5, <2>51 DEF IInv, SingleCarrier, HeldBy
    <3> QED BY <1>0, <3>1, <3>2 DEF IInv, SingleCarrier, HeldBy
  <2>7. NotPushed' /\ QueueBudget' /\ AttemptBudget'
    BY <1>0, <2>5 DEF IInv, NotPushed, QueueBudget, AttemptBudget
  <2>8. WorkerBudget'
    <3> SUFFICES ASSUME NEW v \in Workers, job'[v] # NoJob
                 PROVE  /\ job'[v].attempts < MaxAttempts
                        /\ pc'[v] \in {"load", "calc", "backoff"}
                              => runs[job'[v].id] <= job'[v].attempts
                        /\ runs[job'[v].id] <= job'[v].attempts + 1
      BY <1>0 DEF WorkerBudget
    <3>1. CASE v = w
      <4>1. runs[job[w].id] \in Nat /\ runs[job[w].id] <= job[w].attempts + 1
        BY <2>1 DEF IInv, TypeOK, WorkerBudget
      <4> QED BY <3>1, <4>1, <2>1, <2>2, <2>3, <2>4
    <3>2. CASE v # w
      BY <3>2, <2>4 DEF IInv, WorkerBudget
    <3> QED BY <3>1, <3>2
  <2> QED BY <2>6, <2>7, <2>8 DEF IInv
<1> QED BY <1>1, <1>2

\* The inductive invariant holds in every reachable state.
THEOREM Inductive == Spec => []IInv
<1>1. Init => IInv
  <2> SUFFICES ASSUME Init PROVE IInv
    OBVIOUS
  <2>1. TypeOK
    BY NoJobFacts DEF Init, TypeOK, Status, ApiState, WorkerState, QueueJob
  <2>2. 1..Len(queue) = {}
    BY DEF Init
  <2> QED BY <2>1, <2>2, NoJobFacts DEF Init, IInv, SingleCarrier, HeldBy, NotPushed,
                 QueueBudget, WorkerBudget, AttemptBudget
<1>2. TypeOK' /\ IInv /\ [Next]_vars => IInv'
  <2> SUFFICES ASSUME TypeOK', IInv, [Next]_vars PROVE IInv'
    OBVIOUS
  <2>0. TypeOK
    BY DEF IInv
  <2>1. ASSUME NEW j \in Jobs, ApiStep(j) PROVE IInv'
    <3>1. CASE SubmitCreate(j)
      <4>1. UNCHANGED <<queue, job, runs, pc>>
        BY <3>1 DEF SubmitCreate, workerVars
      <4>2. \A k \in Jobs : api'[k] \in {"idle", "created"} => api[k] \in {"idle", "created"}
        BY <3>1, <2>0 DEF SubmitCreate, TypeOK
      <4> QED BY <4>1, <4>2, QuietStep
    <3>2. CASE SubmitEnqueue(j)
      <4> DEFINE e == [id |-> j, attempts |-> 0]
      <4>1. UNCHANGED <<job, runs, pc>> /\ api[j] = "created"
        BY <3>2 DEF SubmitEnqueue, workerVars
      <4>2. \A k \in Jobs : api'[k] \in {"idle", "created"}
                                => api[k] \in {"idle", "created"} /\ k # j
        BY <3>2, <2>0 DEF SubmitEnqueue, TypeOK
      <4>3. CASE queue' = queue
        BY <4>1, <4>2, <4>3, QuietStep
      <4>4. CASE queue' = Append(queue, e)
        <5>1. e \in QueueJob /\ e.id = j /\ e.attempts = 0
          BY DEF QueueJob
        <5>2. /\ \A i \in 1..Len(queue) : queue[i].id # j
              /\ \A v \in Workers : job[v].id # j
              /\ runs[j] = 0
          BY <4>1 DEF IInv, NotPushed
        <5> HIDE DEF e
        <5> QED BY <4>1, <4>2, <4>4, <5>1, <5>2, PushStep
      <4> QED BY <3>2, <4>3, <4>4 DEF SubmitEnqueue, Enqueue
    <3>3. CASE SubmitMarkFailed(j)
      <4>1. UNCHANGED <<queue, job, runs, pc>>
        BY <3>3 DEF SubmitMarkFailed, workerVars
      <4>2. \A k \in Jobs : api'[k] \in {"idle", "created"} => api[k] \in {"idle", "created"}
        BY <3>3, <2>0 DEF SubmitMarkFailed, TypeOK
      <4> QED BY <4>1, <4>2, QuietStep
    <3> QED BY <2>1, <3>1, <3>2, <3>3 DEF ApiStep
  <2>2. ASSUME NEW w \in Workers, WorkerStep(w) PROVE IInv'
    <3>1. CASE Dequeue(w)
      BY <3>1, DequeueStep
    <3>2. CASE Begin(w)
      <4>1. UNCHANGED <<queue, job, runs, api>>
        BY <3>2 DEF Begin, Goto, apiVars
      <4>2. \A v \in Workers : pc'[v] \in {"load", "calc", "backoff"}
                                  => pc[v] \in {"load", "calc", "backoff"}
        BY <3>2, <2>0 DEF Begin, Goto, TypeOK
      <4> QED BY <4>1, <4>2, QuietStep
    <3>3. CASE Calculate(w)
      BY <3>3, CalculateStep
    <3>4. CASE SaveResult(w)
      <4>1. UNCHANGED <<queue, runs, api>>
        BY <3>4 DEF SaveResult, apiVars
      <4>2. CASE Release(w, "idle")
        BY <4>1, <4>2, ReleaseStep
      <4>3. CASE Goto(w, "failed")
        <5>1. \A v \in Workers : pc'[v] \in {"load", "calc", "backoff"}
                                    => pc[v] \in {"load", "calc", "backoff"}
          BY <4>3, <2>0 DEF Goto, TypeOK
        <5> QED BY <4>1, <4>3, <5>1, QuietStep DEF Goto
      <4> QED BY <3>4, <4>2, <4>3 DEF SaveResult
    <3>5. CASE SaveError(w)
      <4>1. UNCHANGED <<queue, job, runs, api>>
        BY <3>5 DEF SaveError, Goto, apiVars
      <4>2. \A v \in Workers : pc'[v] \in {"load", "calc", "backoff"}
                                  => pc[v] \in {"load", "calc", "backoff"}
        BY <3>5, <2>0 DEF SaveError, Goto, TypeOK
      <4> QED BY <4>1, <4>2, QuietStep
    <3>6. CASE CountAttempt(w)
      BY <3>6, CountAttemptStep
    <3>7. CASE Requeue(w)
      <4> DEFINE e == [id |-> job[w].id, attempts |-> job[w].attempts]
      <4>1. /\ pc[w] = "backoff" /\ job[w] # NoJob
            /\ job[w].id \in Jobs /\ job[w].attempts \in Nat
        BY <3>7, <2>0, BusyHoldsJob DEF Requeue
      <4>2. UNCHANGED <<runs, api>> /\ Release(w, "idle")
        BY <3>7 DEF Requeue, apiVars
      <4>3. CASE queue' = queue
        BY <4>2, <4>3, ReleaseStep
      <4>4. CASE queue' = Append(queue, e)
        <5>1. e \in QueueJob /\ e.id = job[w].id /\ e.attempts = job[w].attempts
          BY <4>1 DEF QueueJob
        <5>2. job'[w] = NoJob /\ \A v \in Workers : v # w => job'[v] = job[v] /\ pc'[v] = pc[v]
          BY <4>2, <2>0 DEF Release, TypeOK
        <5>3. \A i \in 1..Len(queue) : queue[i].id # e.id
          BY <5>1 DEF IInv, SingleCarrier, HeldBy
        <5>4. \A v \in Workers : job'[v].id # e.id
          BY <4>1, <5>1, <5>2, NoJobFacts DEF IInv, SingleCarrier, HeldBy
        <5>5. e.attempts < MaxAttempts /\ runs[e.id] <= e.attempts
          BY <4>1, <5>1 DEF IInv, WorkerBudget
        <5>6. \A k \in Jobs : api[k] \in {"idle", "created"} => k # e.id
          BY <5>1 DEF IInv, NotPushed
        <5> HIDE DEF e
        <5> QED BY <4>2, <4>4, <5>1, <5>2, <5>3, <5>4, <5>5, <5>6, PushStep
      <4> QED BY <3>7, <4>3, <4>4 DEF Requeue, Enqueue
    <3>8. CASE AbandonBackoff(w)
      BY <3>8, ReleaseStep DEF AbandonBackoff, apiVars
    <3>9. CASE Exit(w) \/ Restart(w)
      <4>1. UNCHANGED <<queue, job, runs, api>>
        BY <3>9 DEF Exit, Restart, Goto, apiVars
      <4>2. \A v \in Workers : pc'[v] \in {"load", "calc", "backoff"}
                                  => pc[v] \in {"load", "calc", "backoff"}
        BY <3>9, <2>0 DEF Exit, Restart, Goto, TypeOK
      <4> QED BY <4>1, <4>2, QuietStep
    <3> QED BY <2>2, <3>1, <3>2, <3>3, <3>4, <3>5, <3>6, <3>7, <3>8, <3>9 DEF WorkerStep
  <2>3. CASE Fault
    <3>1. ASSUME NEW j \in Jobs, Disconnect(j) \/ ApiCrash(j) PROVE IInv'
      <4>1. UNCHANGED <<queue, job, runs, pc>>
        BY <3>1 DEF Disconnect, ApiCrash, workerVars
      <4>2. \A k \in Jobs : api'[k] \in {"idle", "created"} => api[k] \in {"idle", "created"}
        BY <3>1, <2>0 DEF Disconnect, ApiCrash, TypeOK
      <4> QED BY <4>1, <4>2, QuietStep
    <3>2. ASSUME NEW w \in Workers, Shutdown(w) PROVE IInv'
      BY <3>2, QuietStep DEF Shutdown, apiVars
    <3>3. ASSUME NEW w \in Workers, WorkerCrash(w) PROVE IInv'
      BY <3>3, ReleaseStep DEF WorkerCrash, apiVars
    <3> QED BY <2>3, <3>1, <3>2, <3>3 DEF Fault
  <2>4. CASE UNCHANGED vars
    BY <2>4, QuietStep DEF vars, apiVars, workerVars
  <2> QED BY <2>1, <2>2, <2>3, <2>4 DEF Next
<1> QED BY <1>1, <1>2, TypeCorrect, PTL DEF Spec

\* No row is ever worked on twice at once, whatever fails (processJob, BRPOP).
THEOREM SingleCarrierHolds == Spec => []SingleCarrier
BY Inductive, PTL DEF IInv

\* No calculation runs more than MaxAttempts times, whatever fails.
THEOREM AttemptBudgetHolds == Spec => []AttemptBudget
BY Inductive, PTL DEF IInv

\* The row's columns agree with its status after any interleaving of the
\* writes of the API and of the workers (EDR-0035 invariant 2).
THEOREM ResultOrErrorHolds == Spec => []ResultOrError
<1>1. Init => ResultOrError
  BY DEF Init, ResultOrError
<1>2. TypeOK /\ ResultOrError /\ [Next]_vars => ResultOrError'
  <2> SUFFICES ASSUME TypeOK, ResultOrError, [Next]_vars PROVE ResultOrError'
    OBVIOUS
  <2>1. ASSUME UNCHANGED rowVars PROVE ResultOrError'
    BY <2>1 DEF ResultOrError, rowVars
  <2>2. ASSUME NEW j \in Jobs,
               Create(j) \/ MarkRunning(j) \/ MarkSucceeded(j) \/ MarkFailed(j)
        PROVE  ResultOrError'
    BY <2>2 DEF TypeOK, ResultOrError, Create, MarkRunning, MarkSucceeded, MarkFailed
  <2>3. ASSUME NEW j \in Jobs, ApiStep(j) PROVE ResultOrError'
    BY <2>1, <2>2, <2>3 DEF ApiStep, SubmitCreate, SubmitEnqueue, SubmitMarkFailed
  <2>4. ASSUME NEW w \in Workers, WorkerStep(w) PROVE ResultOrError'
    <3>1. CASE Begin(w)
      <4>1. job[w].id \in Jobs
        BY <3>1, BusyHoldsJob DEF Begin
      <4> QED BY <2>1, <2>2, <3>1, <4>1 DEF Begin
    <3>2. CASE SaveResult(w)
      <4>1. job[w].id \in Jobs
        BY <3>2, BusyHoldsJob DEF SaveResult
      <4> QED BY <2>1, <2>2, <3>2, <4>1 DEF SaveResult
    <3>3. CASE SaveError(w)
      <4>1. job[w].id \in Jobs
        BY <3>3, BusyHoldsJob DEF SaveError
      <4> QED BY <2>1, <2>2, <3>3, <4>1 DEF SaveError
    <3> QED BY <2>1, <2>4, <3>1, <3>2, <3>3 DEF WorkerStep, Dequeue, Calculate,
               CountAttempt, Requeue, AbandonBackoff, Exit, Restart
  <2>5. CASE Fault
    BY <2>1, <2>5 DEF Fault, Disconnect, ApiCrash, Shutdown, WorkerCrash
  <2>6. CASE UNCHANGED vars
    BY <2>1, <2>6 DEF vars
  <2> QED BY <2>3, <2>4, <2>5, <2>6 DEF Next
<1> QED BY <1>1, <1>2, TypeCorrect, PTL DEF Spec

-----------------------------------------------------------------------------
(* The poller's view.  When no acknowledgement is lost, what a carried job  *)
(* may still do to its row is known: the row has not succeeded, and it is   *)
(* running while a worker calculates.                                       *)

Open == {"pending", "running", "failed"}

SubmissionInv ==
    \A j \in Jobs :
        /\ api[j] = "idle" => status[j] = "none"
        /\ api[j] = "created" => status[j] = "pending"
        /\ api[j] = "refused" =>
              /\ status[j] = "pending"
              /\ \A i \in 1..Len(queue) : queue[i].id # j
              /\ \A w \in Workers : job[w].id # j

QueueOpen == \A i \in 1..Len(queue) : status[queue[i].id] \in Open

WorkerOpen ==
    \A w \in Workers :
        /\ job[w] # NoJob => status[job[w].id] \in Open
        /\ pc[w] \in {"calc", "save", "saveError"} => status[job[w].id] = "running"

OpenInv == SubmissionInv /\ QueueOpen /\ WorkerOpen

\* Without lost acknowledgements the caller learns what happened.
LEMMA AckKnown ==
    ASSUME "ack" \notin Faults, NEW kind, NEW cancelled \in BOOLEAN,
           NEW ok \in BOOLEAN, NEW applied \in BOOLEAN,
           CallOutcome(kind, cancelled, ok, applied)
    PROVE  ok <=> applied
BY DEF CallOutcome

LEMMA LifecycleMove ==
    ASSUME status \in [Jobs -> Status], NEW j \in Jobs, NEW s,
           \/ status[j] = "none" /\ s = "pending"
           \/ status[j] = "pending" /\ s \in {"running", "failed"}
           \/ status[j] = "running" /\ s \in {"running", "succeeded", "failed"}
           \/ status[j] = "failed" /\ s = "running",
           status' = [status EXCEPT ![j] = s]
    PROVE  [Lifecycle!Next]_status
<1>1. CASE status[j] = s
  BY <1>1
<1>2. CASE status[j] # s
  <2>1. s \in Lifecycle!Successors[status[j]]
    BY <1>2 DEF Lifecycle!Successors
  <2> QED BY <2>1 DEF Lifecycle!Next, Lifecycle!Move
<1> QED BY <1>1, <1>2

Working == {"calc", "save", "saveError"}

\* Steps that write no row, move no job and only end submissions.
LEMMA OpenQuiet ==
    ASSUME IInv, OpenInv, UNCHANGED <<status, queue, job>>,
           \A j \in Jobs : api'[j] \in {api[j], "returned"},
           \A w \in Workers : pc'[w] \in Working => pc[w] \in Working
    PROVE  OpenInv'
BY DEF OpenInv, SubmissionInv, QueueOpen, WorkerOpen, Working

\* A worker's step on the row of the job it holds.
LEMMA OpenWorkerWrite ==
    ASSUME IInv, OpenInv, NEW w \in Workers, job[w] # NoJob, NEW s,
           status' = [status EXCEPT ![job[w].id] = s],
           UNCHANGED <<queue, api>>,
           \A v \in Workers : v # w => job'[v] = job[v] /\ pc'[v] = pc[v],
           \/ job'[w] = NoJob /\ pc'[w] \notin Working
           \/ /\ job'[w].id = job[w].id /\ s \in Open
              /\ pc'[w] \in Working => s = "running"
    PROVE  OpenInv'
<1> DEFINE r == job[w].id
<1>0. r \in Jobs
  BY HandsTyped DEF IInv
<1>1. status'[r] = s /\ \A j \in Jobs : j # r => status'[j] = status[j]
  BY <1>0 DEF IInv, TypeOK
<1>2. \A i \in 1..Len(queue) : queue[i].id # r /\ queue[i].id \in Jobs
  BY QueueTyped DEF IInv, SingleCarrier, HeldBy
<1>3. \A v \in Workers : v # w /\ job[v] # NoJob => job[v].id # r /\ job[v].id \in Jobs
  BY HandsTyped DEF IInv, SingleCarrier, HeldBy
<1>4. SubmissionInv'
  <2> SUFFICES ASSUME NEW j \in Jobs
               PROVE  /\ api[j] = "idle" => status'[j] = "none"
                      /\ api[j] = "created" => status'[j] = "pending"
                      /\ api[j] = "refused" =>
                            /\ status'[j] = "pending"
                            /\ \A i \in 1..Len(queue) : queue[i].id # j
                            /\ \A v \in Workers : job'[v].id # j
    BY DEF SubmissionInv
  <2>1. CASE j = r
    BY <2>1 DEF IInv, NotPushed, OpenInv, SubmissionInv
  <2>2. CASE j # r
    <3>1. \A v \in Workers : job'[v].id = j => job[v].id = j
      BY <2>2, NoJobFacts
    <3> QED BY <2>2, <1>1, <3>1 DEF OpenInv, SubmissionInv
  <2> QED BY <2>1, <2>2
<1>5. QueueOpen'
  BY <1>1, <1>2 DEF OpenInv, QueueOpen
<1>6. WorkerOpen'
  <2> SUFFICES ASSUME NEW v \in Workers
               PROVE  /\ job'[v] # NoJob => status'[job'[v].id] \in Open
                      /\ pc'[v] \in Working => status'[job'[v].id] = "running"
    BY DEF WorkerOpen, Working
  <2>1. CASE v = w
    BY <2>1, <1>1
  <2>2. CASE v # w
    <3>1. pc[v] \in Working => job[v] # NoJob
      BY DEF IInv, TypeOK, Working
    <3> QED BY <2>2, <3>1, <1>1, <1>3 DEF OpenInv, WorkerOpen, Working
  <2> QED BY <2>1, <2>2
<1> QED BY <1>4, <1>5, <1>6 DEF OpenInv

\* A worker that lets go of its job, or only counts, writes no row.
LEMMA OpenWorkerMove ==
    ASSUME IInv, OpenInv, NEW w \in Workers,
           UNCHANGED <<status, queue, api>>,
           \A v \in Workers : v # w => job'[v] = job[v] /\ pc'[v] = pc[v],
           pc'[w] \notin Working,
           \/ job'[w] = NoJob
           \/ job[w] # NoJob /\ job'[w].id = job[w].id
    PROVE  OpenInv'
<1>1. \A v \in Workers, j \in Jobs : job'[v].id = j => job[v].id = j
  BY NoJobFacts
<1>2. SubmissionInv'
  BY <1>1 DEF OpenInv, SubmissionInv
<1>3. QueueOpen'
  BY DEF OpenInv, QueueOpen
<1>4. WorkerOpen'
  BY DEF OpenInv, WorkerOpen, Working
<1> QED BY <1>2, <1>3, <1>4 DEF OpenInv

LEMMA ReleaseFacts ==
    ASSUME IInv, NEW w \in Workers, NEW label, Release(w, label)
    PROVE  /\ pc'[w] = label
           /\ job'[w] = NoJob
           /\ \A v \in Workers : v # w => job'[v] = job[v] /\ pc'[v] = pc[v]
<1>1. job \in [Workers -> QueueJob \union {NoJob}] /\ pc \in [Workers -> WorkerState]
  BY DEF IInv, TypeOK
<1> QED BY <1>1 DEF Release

LEMMA OpenRelease ==
    ASSUME IInv, OpenInv, NEW w \in Workers, NEW label \in {"idle", "stopped"},
           Release(w, label), UNCHANGED <<status, queue, api>>
    PROVE  OpenInv'
<1>1. label \notin Working
  BY DEF Working
<1>2. /\ pc'[w] = label
      /\ job'[w] = NoJob
      /\ \A v \in Workers : v # w => job'[v] = job[v] /\ pc'[v] = pc[v]
  BY ReleaseFacts
<1>3. pc'[w] \notin Working
  BY <1>1, <1>2
<1> QED BY <1>2, <1>3, OpenWorkerMove

\* The submission writes a row nobody carries.
LEMMA OpenApiWrite ==
    ASSUME IInv, OpenInv, NEW j \in Jobs, NEW s,
           status' = [status EXCEPT ![j] = s],
           UNCHANGED <<queue, job, pc>>,
           \A k \in Jobs : k # j => api'[k] = api[k],
           \A i \in 1..Len(queue) : queue[i].id # j,
           \A w \in Workers : job[w].id # j,
           \/ s = "pending" /\ api'[j] \in {"created", "returned"}
           \/ api'[j] = "returned"
    PROVE  OpenInv'
<1>1. status'[j] = s /\ \A k \in Jobs : k # j => status'[k] = status[k]
  BY DEF IInv, TypeOK
<1>2. \A i \in 1..Len(queue) : queue[i].id \in Jobs
  BY QueueTyped DEF IInv
<1>3. \A w \in Workers : job[w] # NoJob => job[w].id \in Jobs
  BY HandsTyped DEF IInv
<1>4. SubmissionInv'
  BY <1>1 DEF OpenInv, SubmissionInv
<1>5. QueueOpen'
  BY <1>1, <1>2 DEF OpenInv, QueueOpen
<1>6. WorkerOpen'
  <2> SUFFICES ASSUME NEW v \in Workers
               PROVE  /\ job[v] # NoJob => status'[job[v].id] \in Open
                      /\ pc[v] \in Working => status'[job[v].id] = "running"
    BY DEF WorkerOpen, Working
  <2>1. pc[v] \in Working => job[v] # NoJob
    BY DEF IInv, TypeOK, Working
  <2> QED BY <2>1, <1>1, <1>3 DEF OpenInv, WorkerOpen, Working
<1> QED BY <1>4, <1>5, <1>6 DEF OpenInv

\* What every step owes: the invariant, a move of the life cycle, and that a
\* succeeded row stays succeeded.
StepOK ==
    /\ OpenInv'
    /\ [Lifecycle!Next]_status
    /\ \A j \in Jobs : status[j] = "succeeded" => status'[j] = "succeeded"

LEMMA OpenApiStep ==
    ASSUME "ack" \notin Faults, IInv, OpenInv, TypeOK', NEW j \in Jobs, ApiStep(j)
    PROVE  StepOK
<1>0. TypeOK /\ status \in [Jobs -> Status] /\ gone[j] \in BOOLEAN
  BY DEF IInv, TypeOK
<1>1. CASE SubmitCreate(j)
  <2>1. PICK ok \in BOOLEAN, applied \in BOOLEAN :
           /\ CallOutcome("db", gone[j], ok, applied)
           /\ IF applied THEN Create(j) ELSE UNCHANGED rowVars
           /\ api' = [api EXCEPT ![j] = IF ok THEN "created" ELSE "returned"]
    BY <1>1 DEF SubmitCreate
  <2>2. ok <=> applied
    BY <1>0, <2>1, AckKnown
  <2>3. UNCHANGED <<queue, job, pc>> /\ api[j] = "idle"
    BY <1>1 DEF SubmitCreate, workerVars
  <2>4. /\ \A i \in 1..Len(queue) : queue[i].id # j
        /\ \A w \in Workers : job[w].id # j
        /\ status[j] = "none"
    BY <2>3 DEF IInv, NotPushed, OpenInv, SubmissionInv
  <2>5. CASE applied
    <3>1. status' = [status EXCEPT ![j] = "pending"] /\ api' = [api EXCEPT ![j] = "created"]
      BY <2>1, <2>2, <2>5 DEF Create
    <3>2. api'[j] = "created" /\ \A k \in Jobs : k # j => api'[k] = api[k]
      BY <3>1, <1>0 DEF TypeOK
    <3>3. OpenInv'
      BY <2>3, <2>4, <3>1, <3>2, OpenApiWrite
    <3>4. [Lifecycle!Next]_status
      BY <1>0, <2>4, <3>1, LifecycleMove
    <3> QED BY <1>0, <2>4, <3>1, <3>3, <3>4 DEF StepOK
  <2>6. CASE ~applied
    <3>1. UNCHANGED status /\ api' = [api EXCEPT ![j] = "returned"]
      BY <2>1, <2>2, <2>6 DEF rowVars
    <3>2. \A k \in Jobs : api'[k] \in {api[k], "returned"}
      BY <3>1, <1>0 DEF TypeOK
    <3>3. OpenInv'
      BY <2>3, <3>1, <3>2, OpenQuiet
    <3> QED BY <3>1, <3>3 DEF StepOK
  <2> QED BY <2>5, <2>6
<1>2. CASE SubmitEnqueue(j)
  <2> DEFINE e == [id |-> j, attempts |-> 0]
  <2>1. PICK ok \in BOOLEAN, applied \in BOOLEAN :
           /\ CallOutcome("queue", gone[j], ok, applied)
           /\ Enqueue(j, 0, applied)
           /\ api' = [api EXCEPT ![j] = IF ok THEN "returned" ELSE "refused"]
    BY <1>2 DEF SubmitEnqueue
  <2>2. ok <=> applied
    BY <1>0, <2>1, AckKnown
  <2>3. UNCHANGED <<status, job, pc>> /\ api[j] = "created"
    BY <1>2 DEF SubmitEnqueue, workerVars, rowVars
  <2>4. /\ \A i \in 1..Len(queue) : queue[i].id # j
        /\ \A w \in Workers : job[w].id # j
        /\ status[j] = "pending"
    BY <2>3 DEF IInv, NotPushed, OpenInv, SubmissionInv
  <2>5. \A k \in Jobs : k # j => api'[k] = api[k]
    BY <2>1, <1>0 DEF TypeOK
  <2>6. CASE applied
    <3>1. queue' = Append(queue, e) /\ api'[j] = "returned"
      BY <2>1, <2>2, <2>6, <1>0 DEF Enqueue, TypeOK
    <3>2. e \in QueueJob /\ e.id = j
      BY DEF QueueJob
    <3> HIDE DEF e
    <3>3. /\ Len(queue') = Len(queue) + 1 /\ Len(queue) \in Nat
          /\ \A i \in 1..Len(queue) : queue'[i] = queue[i]
          /\ queue'[Len(queue) + 1] = e
      BY <1>0, <3>1, <3>2, AppendFacts DEF TypeOK
    <3>4. \A i \in 1..Len(queue') : i \in 1..Len(queue) \/ queue'[i] = e
      BY <3>3
    <3>5. SubmissionInv'
      <4>1. \A k \in Jobs, i \in 1..Len(queue') :
               k # j /\ queue'[i].id = k => \E h \in 1..Len(queue) : queue[h].id = k
        BY <3>2, <3>3, <3>4
      <4> QED BY <4>1, <2>3, <2>5, <3>1 DEF OpenInv, SubmissionInv
    <3>6. QueueOpen'
      BY <2>3, <2>4, <3>2, <3>3, <3>4 DEF OpenInv, QueueOpen, Open
    <3>7. WorkerOpen'
      BY <2>3 DEF OpenInv, WorkerOpen
    <3> QED BY <2>3, <3>5, <3>6, <3>7 DEF StepOK, OpenInv
  <2>7. CASE ~applied
    <3>1. UNCHANGED queue /\ api'[j] = "refused"
      BY <2>1, <2>2, <2>7, <1>0 DEF Enqueue, TypeOK
    <3>2. SubmissionInv' /\ QueueOpen' /\ WorkerOpen'
      BY <2>3, <2>4, <2>5, <3>1 DEF OpenInv, SubmissionInv, QueueOpen, WorkerOpen
    <3> QED BY <2>3, <3>2 DEF StepOK, OpenInv
  <2> QED BY <2>6, <2>7
<1>3. CASE SubmitMarkFailed(j)
  <2>1. UNCHANGED <<queue, job, pc>> /\ api[j] = "refused"
        /\ api' = [api EXCEPT ![j] = "returned"]
    BY <1>3 DEF SubmitMarkFailed, workerVars
  <2>2. api'[j] = "returned" /\ \A k \in Jobs : k # j => api'[k] = api[k]
    BY <2>1, <1>0 DEF TypeOK
  <2>3. /\ \A i \in 1..Len(queue) : queue[i].id # j
        /\ \A w \in Workers : job[w].id # j
        /\ status[j] = "pending"
    BY <2>1 DEF OpenInv, SubmissionInv
  <2>4. CASE status' = [status EXCEPT ![j] = "failed"]
    <3>1. OpenInv'
      BY <2>1, <2>2, <2>3, <2>4, OpenApiWrite
    <3>2. [Lifecycle!Next]_status
      BY <1>0, <2>3, <2>4, LifecycleMove
    <3> QED BY <1>0, <2>3, <2>4, <3>1, <3>2 DEF StepOK
  <2>5. CASE UNCHANGED status
    <3>1. OpenInv'
      BY <2>1, <2>2, <2>5, OpenQuiet
    <3> QED BY <2>5, <3>1 DEF StepOK
  <2> QED BY <1>3, <2>4, <2>5 DEF SubmitMarkFailed, MarkFailed, rowVars
<1> QED BY <1>1, <1>2, <1>3 DEF ApiStep

LEMMA OpenWorkerStep ==
    ASSUME "ack" \notin Faults, IInv, OpenInv, TypeOK', NEW w \in Workers, WorkerStep(w)
    PROVE  StepOK
<1>0. /\ TypeOK /\ status \in [Jobs -> Status] /\ stopping[w] \in BOOLEAN
      /\ job \in [Workers -> QueueJob \union {NoJob}] /\ pc \in [Workers -> WorkerState]
  BY DEF IInv, TypeOK
<1>1. ASSUME NEW label, Release(w, label) \/ Goto(w, label)
      PROVE  /\ pc'[w] = label
             /\ \A v \in Workers : v # w => job'[v] = job[v] /\ pc'[v] = pc[v]
             /\ Release(w, label) => job'[w] = NoJob
             /\ Goto(w, label) => job' = job
  BY <1>0, <1>1 DEF Release, Goto
<1>2. CASE Dequeue(w)
  <2>1. /\ UNCHANGED <<status, api>> /\ Len(queue) \in Nat \ {0}
        /\ Len(queue') = Len(queue) - 1
        /\ \A i \in 1..Len(queue') : queue'[i] = queue[i + 1]
        /\ job'[w] = queue[1] /\ pc'[w] = "load"
    BY <1>0, <1>2, TailFacts DEF Dequeue, rowVars, apiVars, TypeOK
  <2>2. \A v \in Workers : v # w => job'[v] = job[v] /\ pc'[v] = pc[v]
    BY <1>0, <1>2 DEF Dequeue
  <2>3. 1 \in 1..Len(queue) /\ \A i \in 1..Len(queue') : i + 1 \in 1..Len(queue)
    BY <2>1
  <2>4. SubmissionInv'
    <3> SUFFICES ASSUME NEW j \in Jobs, api[j] = "refused"
                 PROVE  /\ \A i \in 1..Len(queue') : queue'[i].id # j
                        /\ \A v \in Workers : job'[v].id # j
      BY <2>1 DEF OpenInv, SubmissionInv
    <3>1. /\ \A i \in 1..Len(queue) : queue[i].id # j
          /\ \A v \in Workers : job[v].id # j
      BY DEF OpenInv, SubmissionInv
    <3> QED BY <3>1, <2>1, <2>2, <2>3
  <2>5. QueueOpen'
    BY <2>1, <2>3 DEF OpenInv, QueueOpen
  <2>6. WorkerOpen'
    BY <2>1, <2>2, <2>3 DEF OpenInv, QueueOpen, WorkerOpen
  <2> QED BY <2>1, <2>4, <2>5, <2>6 DEF StepOK, OpenInv
<1>3. CASE Begin(w)
  <2> DEFINE r == job[w].id
  <2>1. PICK ok \in BOOLEAN, applied \in BOOLEAN :
           /\ CallOutcome("db", stopping[w], ok, applied)
           /\ IF applied THEN MarkRunning(r) ELSE UNCHANGED rowVars
           /\ Goto(w, IF ok THEN "calc" ELSE "failed")
    BY <1>3 DEF Begin
  <2>2. ok <=> applied
    BY <1>0, <2>1, AckKnown
  <2>3. pc[w] = "load" /\ UNCHANGED <<queue, api>> /\ job[w] # NoJob /\ r \in Jobs
    BY <1>0, <1>3, BusyHoldsJob DEF Begin, apiVars
  <2>4. status[r] \in Open
    BY <2>3 DEF OpenInv, WorkerOpen
  <2>5. CASE applied
    <3>1. status' = [status EXCEPT ![r] = "running"] /\ Goto(w, "calc")
      BY <2>1, <2>2, <2>5 DEF MarkRunning
    <3>2. OpenInv'
      BY <1>1, <2>3, <3>1, OpenWorkerWrite DEF Open
    <3>3. [Lifecycle!Next]_status
      BY <1>0, <2>3, <2>4, <3>1, LifecycleMove DEF Open
    <3> QED BY <1>0, <2>3, <2>4, <3>1, <3>2, <3>3 DEF StepOK, Open
  <2>6. CASE ~applied
    <3>1. UNCHANGED status /\ Goto(w, "failed")
      BY <2>1, <2>2, <2>6 DEF rowVars
    <3>2. OpenInv'
      BY <1>1, <2>3, <3>1, OpenWorkerMove DEF Working
    <3> QED BY <3>1, <3>2 DEF StepOK
  <2> QED BY <2>5, <2>6
<1>4. CASE Calculate(w)
  <2>1. UNCHANGED <<status, queue, job, api>> /\ pc[w] = "calc"
    BY <1>4 DEF Calculate, Goto, rowVars, apiVars
  <2>2. \A v \in Workers : v # w => pc'[v] = pc[v]
    BY <1>0, <1>4 DEF Calculate, Goto
  <2>3. OpenInv'
    BY <2>1, <2>2, OpenQuiet DEF Working
  <2> QED BY <2>1, <2>3 DEF StepOK
<1>5. CASE SaveResult(w)
  <2> DEFINE r == job[w].id
  <2>1. PICK ok \in BOOLEAN, applied \in BOOLEAN :
           /\ CallOutcome("db", stopping[w], ok, applied)
           /\ IF applied THEN MarkSucceeded(r) ELSE UNCHANGED rowVars
           /\ IF ok THEN Release(w, "idle") ELSE Goto(w, "failed")
    BY <1>5 DEF SaveResult
  <2>2. ok <=> applied
    BY <1>0, <2>1, AckKnown
  <2>3. pc[w] = "save" /\ UNCHANGED <<queue, api>> /\ job[w] # NoJob /\ r \in Jobs
    BY <1>0, <1>5, BusyHoldsJob DEF SaveResult, apiVars
  <2>4. status[r] = "running"
    BY <2>3 DEF OpenInv, WorkerOpen
  <2>5. CASE applied
    <3>1. status' = [status EXCEPT ![r] = "succeeded"] /\ Release(w, "idle")
      BY <2>1, <2>2, <2>5 DEF MarkSucceeded
    <3>2. "idle" \notin Working
      BY DEF Working
    <3>3. OpenInv'
      BY <2>3, <3>1, <3>2, ReleaseFacts, OpenWorkerWrite
    <3>4. [Lifecycle!Next]_status
      BY <1>0, <2>3, <2>4, <3>1, LifecycleMove
    <3> QED BY <1>0, <2>3, <2>4, <3>1, <3>3, <3>4 DEF StepOK
  <2>6. CASE ~applied
    <3>1. UNCHANGED status /\ Goto(w, "failed")
      BY <2>1, <2>2, <2>6 DEF rowVars
    <3>2. OpenInv'
      BY <1>1, <2>3, <3>1, OpenWorkerMove DEF Working
    <3> QED BY <3>1, <3>2 DEF StepOK
  <2> QED BY <2>5, <2>6
<1>6. CASE SaveError(w)
  <2> DEFINE r == job[w].id
  <2>1. pc[w] = "saveError" /\ UNCHANGED <<queue, api>> /\ job[w] # NoJob /\ r \in Jobs
        /\ Goto(w, "failed")
    BY <1>0, <1>6, BusyHoldsJob DEF SaveError, apiVars
  <2>2. status[r] = "running"
    BY <2>1 DEF OpenInv, WorkerOpen
  <2>3. CASE status' = [status EXCEPT ![r] = "failed"]
    <3>1. OpenInv'
      BY <1>1, <2>1, <2>3, OpenWorkerWrite DEF Open, Working
    <3>2. [Lifecycle!Next]_status
      BY <1>0, <2>1, <2>2, <2>3, LifecycleMove
    <3> QED BY <1>0, <2>1, <2>2, <2>3, <3>1, <3>2 DEF StepOK
  <2>4. CASE UNCHANGED status
    <3>1. OpenInv'
      BY <1>1, <2>1, <2>4, OpenWorkerMove DEF Working
    <3> QED BY <2>4, <3>1 DEF StepOK
  <2> QED BY <1>6, <2>3, <2>4 DEF SaveError, MarkFailed, rowVars
<1>7. CASE CountAttempt(w)
  <2>1. UNCHANGED <<status, queue, api>>
    BY <1>7 DEF CountAttempt, rowVars, apiVars
  <2>2. CASE Release(w, "idle")
    <3>1. OpenInv'
      BY <2>1, <2>2, OpenRelease
    <3> QED BY <2>1, <3>1 DEF StepOK
  <2>3. CASE ~Release(w, "idle")
    <3> DEFINE e == [job[w] EXCEPT !.attempts = job[w].attempts + 1]
    <3>1. job[w] \in QueueJob /\ job[w] # NoJob
      BY <1>0, <1>7, BusyHoldsJob DEF CountAttempt
    <3>2. job' = [job EXCEPT ![w] = e] /\ pc' = [pc EXCEPT ![w] = "backoff"]
      BY <1>7, <2>3 DEF CountAttempt
    <3>3. e.id = job[w].id
      BY <3>1, NextAttempt
    <3>4. job'[w].id = job[w].id /\ pc'[w] = "backoff"
          /\ \A v \in Workers : v # w => job'[v] = job[v] /\ pc'[v] = pc[v]
      BY <1>0, <3>2, <3>3
    <3>5. OpenInv'
      BY <2>1, <3>1, <3>4, OpenWorkerMove DEF Working
    <3> QED BY <2>1, <3>5 DEF StepOK
  <2> QED BY <2>2, <2>3
<1>8. CASE Requeue(w)
  <2> DEFINE e == [id |-> job[w].id, attempts |-> job[w].attempts]
  <2>1. UNCHANGED <<status, api>> /\ Release(w, "idle") /\ pc[w] = "backoff"
    BY <1>8 DEF Requeue, rowVars, apiVars
  <2>2. job[w] # NoJob /\ job[w].id \in Jobs /\ job[w].attempts \in Nat
    BY <1>0, <2>1, BusyHoldsJob
  <2>3. CASE queue' = queue
    <3>1. OpenInv'
      BY <2>1, <2>3, OpenRelease
    <3> QED BY <2>1, <3>1 DEF StepOK
  <2>4. CASE queue' = Append(queue, e)
    <3>1. e \in QueueJob /\ e.id = job[w].id
      BY <2>2 DEF QueueJob
    <3> HIDE DEF e
    <3>2. /\ Len(queue') = Len(queue) + 1 /\ Len(queue) \in Nat
          /\ \A i \in 1..Len(queue) : queue'[i] = queue[i]
          /\ queue'[Len(queue) + 1] = e
      BY <1>0, <2>4, <3>1, AppendFacts DEF TypeOK
    <3>3. \A i \in 1..Len(queue') : i \in 1..Len(queue) \/ queue'[i] = e
      BY <3>2
    <3>4. \A v \in Workers, j \in Jobs : job'[v].id = j => job[v].id = j
      BY <1>1, <2>1, NoJobFacts
    <3>5. SubmissionInv'
      <4> SUFFICES ASSUME NEW j \in Jobs, api[j] = "refused"
                   PROVE  /\ \A i \in 1..Len(queue') : queue'[i].id # j
                          /\ \A v \in Workers : job'[v].id # j
        BY <2>1 DEF OpenInv, SubmissionInv
      <4>1. /\ \A i \in 1..Len(queue) : queue[i].id # j
            /\ \A v \in Workers : job[v].id # j
        BY DEF OpenInv, SubmissionInv
      <4> QED BY <4>1, <3>1, <3>2, <3>3, <3>4
    <3>6. QueueOpen'
      BY <2>1, <2>2, <3>1, <3>2, <3>3 DEF OpenInv, QueueOpen, WorkerOpen
    <3>7. WorkerOpen'
      BY <1>1, <2>1 DEF OpenInv, WorkerOpen
    <3> QED BY <2>1, <3>5, <3>6, <3>7 DEF StepOK, OpenInv
  <2> QED BY <1>8, <2>3, <2>4 DEF Requeue, Enqueue
<1>9. CASE AbandonBackoff(w)
  <2>1. UNCHANGED <<status, queue, api>> /\ Release(w, "idle")
    BY <1>9 DEF AbandonBackoff, rowVars, apiVars
  <2>2. OpenInv'
    BY <2>1, OpenRelease
  <2> QED BY <2>1, <2>2 DEF StepOK
<1>10. CASE Exit(w) \/ Restart(w)
  <2>1. UNCHANGED <<status, queue, api, job>>
    BY <1>10 DEF Exit, Restart, Goto, rowVars, apiVars
  <2>2. \A v \in Workers : pc'[v] \in Working => pc[v] \in Working
    BY <1>0, <1>10 DEF Exit, Restart, Goto, Working
  <2>3. OpenInv'
    BY <2>1, <2>2, OpenQuiet
  <2> QED BY <2>1, <2>3 DEF StepOK
<1> QED BY <1>2, <1>3, <1>4, <1>5, <1>6, <1>7, <1>8, <1>9, <1>10 DEF WorkerStep

LEMMA OpenStep ==
    ASSUME "ack" \notin Faults, IInv, OpenInv, TypeOK', [Next]_vars
    PROVE  StepOK
<1>0. TypeOK
  BY DEF IInv
<1>1. CASE Fault
  <2>1. UNCHANGED status
    BY <1>1 DEF Fault, Disconnect, ApiCrash, Shutdown, WorkerCrash, rowVars
  <2>2. ASSUME NEW j \in Jobs, Disconnect(j) \/ ApiCrash(j) PROVE OpenInv'
    <3>1. UNCHANGED <<status, queue, job, pc>>
      BY <2>2 DEF Disconnect, ApiCrash, rowVars, workerVars
    <3>2. \A k \in Jobs : api'[k] \in {api[k], "returned"}
      BY <1>0, <2>2 DEF Disconnect, ApiCrash, TypeOK
    <3> QED BY <3>1, <3>2, OpenQuiet
  <2>3. ASSUME NEW w \in Workers, Shutdown(w) PROVE OpenInv'
    BY <2>3, OpenQuiet DEF Shutdown, rowVars, apiVars
  <2>4. ASSUME NEW w \in Workers, WorkerCrash(w) PROVE OpenInv'
    <3>1. UNCHANGED <<status, queue, api>> /\ Release(w, "stopped")
      BY <2>4 DEF WorkerCrash, rowVars, apiVars
    <3> QED BY <3>1, OpenRelease
  <2>5. OpenInv'
    BY <1>1, <2>2, <2>3, <2>4 DEF Fault
  <2> QED BY <2>1, <2>5 DEF StepOK
<1>2. CASE UNCHANGED vars
  <2>1. OpenInv'
    BY <1>2, OpenQuiet DEF vars, rowVars, apiVars, workerVars
  <2> QED BY <1>2, <2>1 DEF StepOK, vars, rowVars
<1> QED BY <1>1, <1>2, OpenApiStep, OpenWorkerStep DEF Next

LEMMA OpenInit == Init => OpenInv
<1> SUFFICES ASSUME Init PROVE OpenInv
  OBVIOUS
<1>1. 1..Len(queue) = {}
  BY DEF Init
<1> QED BY <1>1, NoJobFacts DEF Init, OpenInv, SubmissionInv, QueueOpen, WorkerOpen

\* The table, the list and the processes together implement the life cycle a
\* poller relies on, unless an acknowledgement is lost.
THEOREM ImplementsLifecycle == "ack" \notin Faults => (Spec => LifecycleSpec)
<1> SUFFICES ASSUME "ack" \notin Faults PROVE Spec => LifecycleSpec
  OBVIOUS
<1>1. Init => Lifecycle!Init
  BY DEF Init, Lifecycle!Init
<1>2. IInv /\ TypeOK' /\ OpenInv /\ [Next]_vars => OpenInv' /\ [Lifecycle!Next]_status
  BY OpenStep DEF StepOK
<1> QED BY <1>1, <1>2, OpenInit, TypeCorrect, Inductive, PTL
        DEF Spec, LifecycleSpec, Lifecycle!Spec

\* A result that a client has seen is never taken back by a retry or by the
\* API's late MarkFailed, unless an acknowledgement is lost.
THEOREM SucceededStays == "ack" \notin Faults => (Spec => SucceededIsFinal)
<1> SUFFICES ASSUME "ack" \notin Faults PROVE Spec => SucceededIsFinal
  OBVIOUS
<1>1. IInv /\ TypeOK' /\ OpenInv /\ [Next]_vars
        => /\ OpenInv'
           /\ [\A j \in Jobs : status[j] = "succeeded" => status'[j] = "succeeded"]_vars
  BY OpenStep DEF StepOK
<1> QED BY <1>1, OpenInit, TypeCorrect, Inductive, PTL DEF Spec, SucceededIsFinal

-----------------------------------------------------------------------------
(* No orphan, when only the queue fails: SubmitCalculate then learns that a *)
(* push has failed and says so in the row, and a worker that loses its job  *)
(* to a failed push has written the row before.                             *)

\* Nobody's context is cancelled.
Calm == (\A j \in Jobs : ~gone[j]) /\ (\A w \in Workers : ~stopping[w])

\* An attempt that failed has left its trace in the row.
FailedIsSaved ==
    \A w \in Workers : pc[w] \in {"failed", "backoff"} => status[job[w].id] = "failed"

KeptInv == Calm /\ FailedIsSaved /\ NoOrphan

\* How a call ends then: statements do what they are told, and only a command
\* to the queue may fail, without effect.
LEMMA OnlyTheQueueFails ==
    ASSUME Faults \subseteq {"queue"}, NEW kind, NEW cancelled \in BOOLEAN, ~cancelled,
           NEW ok \in BOOLEAN, NEW applied \in BOOLEAN,
           CallOutcome(kind, cancelled, ok, applied)
    PROVE  (ok <=> applied) /\ (kind = "db" => ok)
BY DEF CallOutcome

LEMMA CalmStep ==
    ASSUME Faults \subseteq {"queue"}, TypeOK, Calm, [Next]_vars
    PROVE  Calm'
<1> USE DEF Calm, TypeOK
<1>1. ASSUME NEW j \in Jobs, ApiStep(j) PROVE Calm'
  BY <1>1 DEF ApiStep, SubmitCreate, SubmitEnqueue, SubmitMarkFailed, workerVars
<1>2. ASSUME NEW w \in Workers, WorkerStep(w) PROVE Calm'
  BY <1>2 DEF WorkerStep, Dequeue, Begin, Calculate, SaveResult, SaveError, CountAttempt,
              Requeue, AbandonBackoff, Exit, Restart, apiVars
<1>3. CASE Fault
  BY <1>3 DEF Fault, Disconnect, ApiCrash, Shutdown, WorkerCrash
<1>4. CASE UNCHANGED vars
  BY <1>4 DEF vars, apiVars, workerVars
<1> QED BY <1>1, <1>2, <1>3, <1>4 DEF Next

\* A push leaves every carrier where it is and gives the pushed row one.
LEMMA PushCarries ==
    ASSUME TypeOK, NEW e \in QueueJob, queue' = Append(queue, e),
           NEW j \in Jobs, Queued(j) \/ e.id = j
    PROVE  Queued(j)'
<1>1. /\ Len(queue') = Len(queue) + 1
      /\ \A i \in 1..Len(queue) : queue'[i] = queue[i]
      /\ queue'[Len(queue) + 1] = e
      /\ Len(queue) \in Nat
  BY AppendFacts, QueueTyped DEF TypeOK
<1> QED BY <1>1 DEF Queued

\* A job that is popped is in the worker's hands, the others keep their place.
LEMMA PopCarries ==
    ASSUME TypeOK, NEW w \in Workers, Dequeue(w), NEW j \in Jobs, Carried(j)
    PROVE  Carried(j)'
<1>1. /\ Len(queue) \in Nat \ {0}
      /\ Head(queue) = queue[1]
      /\ queue' = Tail(queue)
      /\ Len(queue') = Len(queue) - 1
      /\ \A i \in 1..Len(queue') : queue'[i] = queue[i + 1]
  BY TailFacts DEF TypeOK, Dequeue
<1>2. job[w] = NoJob /\ job'[w] = queue[1] /\ \A v \in Workers \ {w} : job'[v] = job[v]
  BY <1>1 DEF Dequeue, TypeOK
<1>3. job[w].id # j
  BY <1>2, NoJobFacts
<1>4. CASE Queued(j)
  <2>1. PICK i \in 1..Len(queue) : queue[i].id = j
    BY <1>4 DEF Queued
  <2>2. CASE i = 1
    BY <1>2, <2>1, <2>2 DEF Carried, HeldBy
  <2>3. CASE i # 1
    <3>1. i - 1 \in 1..Len(queue') /\ queue'[i - 1] = queue[i]
      BY <1>1, <2>1, <2>3
    <3> QED BY <2>1, <3>1 DEF Carried, Queued
  <2> QED BY <2>2, <2>3
<1>5. CASE \E v \in Workers : HeldBy(v, j)
  BY <1>2, <1>3, <1>5 DEF Carried, HeldBy
<1> QED BY <1>4, <1>5 DEF Carried

\* Another worker has another row in its hands.
LEMMA OtherRows ==
    ASSUME IInv, NEW w \in Workers, NEW v \in Workers, v # w, job[w] # NoJob
    PROVE  job[v].id # job[w].id
<1>1. job[w].id \in Jobs
  BY HandsTyped DEF IInv
<1>2. CASE job[v] = NoJob
  BY <1>1, <1>2, HandsTyped DEF IInv
<1>3. CASE job[v] # NoJob
  BY <1>3 DEF IInv, SingleCarrier, HeldBy
<1> QED BY <1>2, <1>3

LEMMA KeptApiStep ==
    ASSUME Faults \subseteq {"queue"}, IInv, OpenInv, KeptInv, NEW j \in Jobs, ApiStep(j)
    PROVE  FailedIsSaved' /\ NoOrphan'
<1> USE DEF IInv, KeptInv
<1>0. UNCHANGED <<pc, job>>
  BY DEF ApiStep, SubmitCreate, SubmitEnqueue, SubmitMarkFailed, workerVars
<1>1. \A k \in Jobs : Carried(k) => Carried(k)'
  <2>1. CASE UNCHANGED queue
    BY <1>0, <2>1 DEF Carried, Queued, HeldBy
  <2>2. CASE queue' = Append(queue, [id |-> j, attempts |-> 0])
    <3>1. [id |-> j, attempts |-> 0] \in QueueJob
      BY DEF QueueJob
    <3>2. \A k \in Jobs : Queued(k) => Queued(k)'
      BY <2>2, <3>1, PushCarries
    <3> QED BY <1>0, <3>2 DEF Carried, HeldBy
  <2> QED BY <2>1, <2>2 DEF ApiStep, SubmitCreate, SubmitEnqueue, SubmitMarkFailed, Enqueue
<1>2. CASE SubmitCreate(j)
  <2>1. /\ status' = [status EXCEPT ![j] = "pending"]
        /\ api' = [api EXCEPT ![j] = "created"]
        /\ \A w \in Workers : job[w].id # j
    <3>1. status' = [status EXCEPT ![j] = "pending"] /\ api' = [api EXCEPT ![j] = "created"]
      BY <1>2, OnlyTheQueueFails DEF SubmitCreate, Create, Calm, TypeOK
    <3>2. \A w \in Workers : job[w].id # j
      BY <1>2 DEF SubmitCreate, NotPushed
    <3> QED BY <3>1, <3>2
  <2>2. FailedIsSaved'
    BY <1>0, <2>1, BusyHoldsJob DEF FailedIsSaved, TypeOK
  <2>3. NoOrphan'
    BY <1>1, <2>1 DEF NoOrphan, TypeOK
  <2> QED BY <2>2, <2>3
<1>3. CASE SubmitEnqueue(j)
  <2>1. PICK ok \in BOOLEAN, applied \in BOOLEAN :
           /\ CallOutcome("queue", gone[j], ok, applied)
           /\ Enqueue(j, 0, applied)
           /\ api' = [api EXCEPT ![j] = IF ok THEN "returned" ELSE "refused"]
    BY <1>3 DEF SubmitEnqueue
  <2>2. UNCHANGED status
    BY <1>3 DEF SubmitEnqueue, rowVars
  <2>3. ok <=> applied
    BY <2>1, OnlyTheQueueFails DEF Calm, TypeOK
  <2>4. CASE applied
    <3>1. [id |-> j, attempts |-> 0] \in QueueJob /\ [id |-> j, attempts |-> 0].id = j
      BY DEF QueueJob
    <3>2. Queued(j)'
      BY <2>1, <2>4, <3>1, PushCarries DEF Enqueue
    <3>3. NoOrphan'
      BY <1>1, <2>1, <2>2, <3>2 DEF NoOrphan, TypeOK, Carried
    <3> QED BY <1>0, <2>2, <3>3 DEF FailedIsSaved
  <2>5. CASE ~applied
    <3>1. api' = [api EXCEPT ![j] = "refused"]
      BY <2>1, <2>3, <2>5
    <3>2. NoOrphan'
      BY <1>1, <2>2, <3>1 DEF NoOrphan, TypeOK
    <3> QED BY <1>0, <2>2, <3>2 DEF FailedIsSaved
  <2> QED BY <2>4, <2>5
<1>4. CASE SubmitMarkFailed(j)
  <2>1. status' = [status EXCEPT ![j] = "failed"] /\ api' = [api EXCEPT ![j] = "returned"]
    BY <1>4, OnlyTheQueueFails DEF SubmitMarkFailed, MarkFailed, Calm, TypeOK
  <2>2. FailedIsSaved'
    BY <1>0, <2>1, BusyHoldsJob DEF FailedIsSaved, TypeOK
  <2>3. NoOrphan'
    BY <1>1, <2>1 DEF NoOrphan, TypeOK
  <2> QED BY <2>2, <2>3
<1> QED BY <1>2, <1>3, <1>4 DEF ApiStep

LEMMA KeptWorkerStep ==
    ASSUME Faults \subseteq {"queue"}, IInv, OpenInv, KeptInv, NEW w \in Workers,
           WorkerStep(w)
    PROVE  FailedIsSaved' /\ NoOrphan'
<1> USE DEF IInv, KeptInv
<1>0. /\ pc \in [Workers -> WorkerState]
      /\ job \in [Workers -> QueueJob \union {NoJob}]
      /\ status \in [Jobs -> Status]
      /\ ~stopping[w]
      /\ UNCHANGED api
  BY DEF TypeOK, Calm, WorkerStep, Dequeue, Begin, Calculate, SaveResult, SaveError,
         CountAttempt, Requeue, AbandonBackoff, Exit, Restart, apiVars
<1>1. ASSUME UNCHANGED <<queue, job>> PROVE \A j \in Jobs : Carried(j) => Carried(j)'
  BY <1>1 DEF Carried, Queued, HeldBy
<1>2. ASSUME pc[w] \notin {"idle", "stopped"}
      PROVE  /\ job[w].id \in Jobs
             /\ \A v \in Workers \ {w} : job[v].id # job[w].id
             /\ HeldBy(w, job[w].id)
  BY <1>2, BusyHoldsJob, OtherRows DEF HeldBy
<1>3. ASSUME NEW label, Release(w, label), UNCHANGED queue
      PROVE  \A j \in Jobs : j # job[w].id /\ Carried(j) => Carried(j)'
  BY <1>0, <1>3 DEF Release, Carried, Queued, HeldBy
<1>4. CASE Dequeue(w)
  <2>1. UNCHANGED status /\ pc' = [pc EXCEPT ![w] = "load"]
        /\ \A v \in Workers \ {w} : job'[v] = job[v]
    BY <1>0, <1>4 DEF Dequeue, rowVars
  <2>2. NoOrphan'
    BY <1>0, <1>4, <2>1, PopCarries DEF NoOrphan
  <2> QED BY <1>0, <2>1, <2>2 DEF FailedIsSaved
<1>5. CASE Begin(w)
  <2>1. /\ status' = [status EXCEPT ![job[w].id] = "running"]
        /\ pc' = [pc EXCEPT ![w] = "calc"]
        /\ UNCHANGED <<queue, job>>
    <3>1. PICK ok \in BOOLEAN, applied \in BOOLEAN :
             /\ CallOutcome("db", stopping[w], ok, applied)
             /\ IF applied THEN MarkRunning(job[w].id) ELSE UNCHANGED rowVars
             /\ Goto(w, IF ok THEN "calc" ELSE "failed")
      BY <1>5 DEF Begin
    <3>2. ok /\ applied
      <4>1. stopping[w] \in BOOLEAN
        BY DEF TypeOK
      <4> QED BY <1>0, <3>1, <4>1, OnlyTheQueueFails
    <3> QED BY <1>5, <3>1, <3>2 DEF Begin, MarkRunning, Goto
  <2>2. Carried(job[w].id)
    BY <1>2, <1>5 DEF Begin, Carried
  <2>3. NoOrphan'
    BY <1>0, <1>1, <1>2, <1>5, <2>1, <2>2 DEF NoOrphan, Begin
  <2>4. FailedIsSaved'
    BY <1>0, <1>2, <1>5, <2>1, BusyHoldsJob DEF FailedIsSaved, Begin
  <2> QED BY <2>3, <2>4
<1>6. CASE Calculate(w)
  <2>1. PICK label \in {"save", "saveError"} : Goto(w, label)
    BY <1>6 DEF Calculate
  <2>2. UNCHANGED <<status, queue, job>> /\ pc' = [pc EXCEPT ![w] = label]
    BY <1>6, <2>1 DEF Calculate, Goto, rowVars
  <2> QED BY <1>0, <1>1, <2>2 DEF FailedIsSaved, NoOrphan
<1>7. CASE SaveResult(w)
  <2>1. /\ status' = [status EXCEPT ![job[w].id] = "succeeded"]
        /\ Release(w, "idle")
        /\ UNCHANGED queue
    <3>1. PICK ok \in BOOLEAN, applied \in BOOLEAN :
             /\ CallOutcome("db", stopping[w], ok, applied)
             /\ IF applied THEN MarkSucceeded(job[w].id) ELSE UNCHANGED rowVars
             /\ IF ok THEN Release(w, "idle") ELSE Goto(w, "failed")
      BY <1>7 DEF SaveResult
    <3>2. ok /\ applied
      <4>1. stopping[w] \in BOOLEAN
        BY DEF TypeOK
      <4> QED BY <1>0, <3>1, <4>1, OnlyTheQueueFails
    <3> QED BY <1>7, <3>1, <3>2 DEF SaveResult, MarkSucceeded
  <2>2. NoOrphan'
    BY <1>0, <1>2, <1>3, <1>7, <2>1 DEF NoOrphan, SaveResult
  <2>3. FailedIsSaved'
    BY <1>0, <1>2, <1>7, <2>1, BusyHoldsJob DEF FailedIsSaved, SaveResult, Release
  <2> QED BY <2>2, <2>3
<1>8. CASE SaveError(w)
  <2>1. /\ status' = [status EXCEPT ![job[w].id] = "failed"]
        /\ pc' = [pc EXCEPT ![w] = "failed"]
        /\ UNCHANGED <<queue, job>>
    <3>1. PICK ok \in BOOLEAN, applied \in BOOLEAN :
             /\ CallOutcome("db", stopping[w], ok, applied)
             /\ IF applied THEN MarkFailed(job[w].id) ELSE UNCHANGED rowVars
      BY <1>8 DEF SaveError
    <3>2. ok /\ applied
      <4>1. stopping[w] \in BOOLEAN
        BY DEF TypeOK
      <4> QED BY <1>0, <3>1, <4>1, OnlyTheQueueFails
    <3> QED BY <1>8, <3>1, <3>2 DEF SaveError, MarkFailed, Goto
  <2>2. NoOrphan'
    BY <1>0, <1>1, <1>2, <1>8, <2>1 DEF NoOrphan, SaveError
  <2>3. FailedIsSaved'
    BY <1>0, <1>2, <1>8, <2>1, BusyHoldsJob DEF FailedIsSaved, SaveError
  <2> QED BY <2>2, <2>3
\* The row of a job that is dropped has failed before.
<1>9. ASSUME pc[w] \in {"failed", "backoff"}, NEW label \in {"idle"}, Release(w, label),
             UNCHANGED status, \A j \in Jobs : Queued(j) => Queued(j)'
      PROVE  FailedIsSaved' /\ NoOrphan'
  <2>1. status[job[w].id] = "failed" /\ job[w].id \in Jobs
    BY <1>2, <1>9 DEF FailedIsSaved
  <2>2. \A j \in Jobs : j # job[w].id /\ Carried(j) => Carried(j)'
    BY <1>0, <1>9 DEF Release, Carried, HeldBy
  <2>3. NoOrphan'
    BY <1>0, <1>9, <2>1, <2>2 DEF NoOrphan
  <2>4. FailedIsSaved'
    BY <1>0, <1>9 DEF FailedIsSaved, Release
  <2> QED BY <2>3, <2>4
<1>10. CASE CountAttempt(w)
  <2>1. UNCHANGED <<status, queue>> /\ pc[w] = "failed"
    BY <1>10 DEF CountAttempt, rowVars
  <2>2. CASE Release(w, "idle")
    BY <1>9, <2>1, <2>2 DEF Queued
  <2>3. CASE /\ pc' = [pc EXCEPT ![w] = "backoff"]
             /\ job' = [job EXCEPT ![w] = [job[w] EXCEPT !.attempts = job[w].attempts + 1]]
    <3>1. job[w] \in QueueJob
      BY <2>1, BusyHoldsJob
    <3>2. [job[w] EXCEPT !.attempts = job[w].attempts + 1].id = job[w].id
      BY <3>1, NextAttempt
    <3>3. \A v \in Workers : job'[v].id = job[v].id
      BY <1>0, <2>3, <3>2
    <3>4. \A j \in Jobs : Carried(j) => Carried(j)'
      BY <2>1, <3>3 DEF Carried, Queued, HeldBy
    <3>5. NoOrphan'
      BY <1>0, <2>1, <3>4 DEF NoOrphan
    <3>6. FailedIsSaved'
      BY <1>0, <2>1, <2>3, <3>3 DEF FailedIsSaved
    <3> QED BY <3>5, <3>6
  <2> QED BY <1>10, <2>2, <2>3 DEF CountAttempt
<1>11. CASE Requeue(w)
  <2>1. pc[w] = "backoff" /\ Release(w, "idle") /\ UNCHANGED status
    BY <1>11 DEF Requeue, rowVars
  <2>2. [id |-> job[w].id, attempts |-> job[w].attempts] \in QueueJob
    BY <2>1, BusyHoldsJob DEF QueueJob
  <2>3. \A j \in Jobs : Queued(j) => Queued(j)'
    <3>1. CASE UNCHANGED queue
      BY <3>1 DEF Queued
    <3>2. CASE queue' = Append(queue, [id |-> job[w].id, attempts |-> job[w].attempts])
      BY <2>2, <3>2, PushCarries
    <3> QED BY <1>11, <3>1, <3>2 DEF Requeue, Enqueue
  <2> QED BY <1>9, <2>1, <2>3
<1>12. CASE Restart(w)
  <2>1. UNCHANGED <<status, queue, job>> /\ pc' = [pc EXCEPT ![w] = "idle"]
    BY <1>12 DEF Restart, Goto, rowVars
  <2> QED BY <1>0, <1>1, <2>1 DEF FailedIsSaved, NoOrphan
<1>13. ~AbandonBackoff(w) /\ ~Exit(w)
  BY <1>0 DEF AbandonBackoff, Exit
<1> QED BY <1>4, <1>5, <1>6, <1>7, <1>8, <1>10, <1>11, <1>12, <1>13 DEF WorkerStep

LEMMA KeptStep ==
    ASSUME Faults \subseteq {"queue"}, IInv, OpenInv, KeptInv, [Next]_vars
    PROVE  KeptInv'
<1>1. Calm'
  BY CalmStep DEF IInv, KeptInv
<1>2. ~Fault
  BY DEF Fault, Disconnect, ApiCrash, Shutdown, WorkerCrash
<1>3. CASE UNCHANGED vars
  BY <1>3 DEF vars, rowVars, apiVars, workerVars, KeptInv, Calm, FailedIsSaved, NoOrphan,
              Carried, Queued, HeldBy
<1> QED BY <1>1, <1>2, <1>3, KeptApiStep, KeptWorkerStep DEF Next, KeptInv

\* No row is left behind: when nothing but the queue fails, a row that is pending
\* or running after SubmitCalculate has returned is on the list or with a worker.
THEOREM NoOrphanHolds == Faults \subseteq {"queue"} => (Spec => []NoOrphan)
<1> SUFFICES ASSUME Faults \subseteq {"queue"} PROVE Spec => []NoOrphan
  OBVIOUS
<1>1. Init => KeptInv
  BY DEF Init, KeptInv, Calm, FailedIsSaved, NoOrphan
<1>2. "ack" \notin Faults
  OBVIOUS
<1>3. IInv /\ TypeOK' /\ OpenInv /\ [Next]_vars => OpenInv'
  BY <1>2, OpenStep DEF StepOK
<1>4. IInv /\ OpenInv /\ KeptInv /\ [Next]_vars => KeptInv'
  BY KeptStep
<1>5. KeptInv => NoOrphan
  BY DEF KeptInv
<1> QED BY <1>1, <1>3, <1>4, <1>5, OpenInit, TypeCorrect, Inductive, PTL DEF Spec

\* For any rows, workers, limits and faults, jobs are carried by one worker, counted,
\* and told truly (cmd/worker/main.go, calc_job_repo.go).
THEOREM JobsAreSafeHolds == Spec => []JobsAreSafe
BY TypeCorrect, ResultOrErrorHolds, SingleCarrierHolds, AttemptBudgetHolds, PTL DEF JobsAreSafe
=============================================================================
