------------------------------- MODULE Scheduler -------------------------------
(***************************************************************************)
(* One Execute of the bounded parallel executor of the engines              *)
(* (internal/engine/scheduler): tasks addressed by index, a semaphore, a    *)
(* context that may be cancelled at any time.                               *)
(***************************************************************************)
EXTENDS Integers, FiniteSets, FiniteSetsExt

CONSTANTS
    N,         \* number of tasks
    Limits     \* limits a scheduler is made with

ASSUME SchedulerAssumption == N \in Nat /\ Limits \subseteq Nat \ {0}

VARIABLES
    limit,      \* s.limit
    task,       \* stage of each: "waiting" for a slot, "inside" one, "running", "done"
    slot,       \* errs: per task "nil", "failed" or "cancelled"
    ctxDone,  \* ctx.Done is closed
    outcome      \* what Execute returned: task 0 and "nil", or the task whose error it is

schedulerVars == <<limit, task, slot, ctxDone, outcome>>

Tasks == 1..N
Unreturned == [by |-> 0, err |-> "running"]
Serial == limit = 1 \/ N = 1

SchedulerInit ==
    /\ limit \in Limits /\ ctxDone \in BOOLEAN
    /\ task = [i \in Tasks |-> "waiting"] /\ slot = [i \in Tasks |-> "nil"]
    /\ outcome = IF N > 0 /\ ctxDone THEN [by |-> 0, err |-> "cancelled"] ELSE Unreturned

Held == {i \in Tasks : task[i] \in {"inside", "running"}}
Open == outcome = Unreturned

\* The sequential path calls the tasks one after the other; it ends at an error and
\* never looks at the context again.
StartSerial(i) ==
    /\ Open /\ Serial /\ task[i] = "waiting"
    /\ \A j \in Tasks : j < i => task[j] = "done" /\ slot[j] = "nil"
    /\ task' = [task EXCEPT ![i] = "running"] /\ UNCHANGED <<limit, slot, ctxDone, outcome>>

\* Mutant of Acquire: the semaphore is not asked.
AcquireFreely(i) ==
    /\ Open /\ ~Serial /\ task[i] = "waiting"
    /\ task' = [task EXCEPT ![i] = "inside"] /\ UNCHANGED <<limit, slot, ctxDone, outcome>>

\* select: a slot is free, ...
Acquire(i) ==
    /\ Open /\ ~Serial /\ task[i] = "waiting" /\ Cardinality(Held) < limit
    /\ task' = [task EXCEPT ![i] = "inside"] /\ UNCHANGED <<limit, slot, ctxDone, outcome>>

\* ... or the context is cancelled; if both, either.
GiveUpWaiting(i) ==
    /\ Open /\ ~Serial /\ task[i] = "waiting" /\ ctxDone
    /\ task' = [task EXCEPT ![i] = "done"] /\ slot' = [slot EXCEPT ![i] = "cancelled"]
    /\ UNCHANGED <<limit, ctxDone, outcome>>

\* The second look at the context, with the slot held.
Enter(i) ==
    /\ task[i] = "inside"
    /\ IF ctxDone
       THEN task' = [task EXCEPT ![i] = "done"] /\ slot' = [slot EXCEPT ![i] = "cancelled"]
       ELSE task' = [task EXCEPT ![i] = "running"] /\ UNCHANGED slot
    /\ UNCHANGED <<limit, ctxDone, outcome>>

EndTask(i) ==
    /\ task[i] = "running"
    /\ task' = [task EXCEPT ![i] = "done"]
    /\ \E e \in {"nil", "failed"} : slot' = [slot EXCEPT ![i] = e]
    /\ UNCHANGED <<limit, ctxDone, outcome>>

Failed == {i \in Tasks : slot[i] # "nil"}
Outcome == IF Failed = {} THEN [by |-> 0, err |-> "nil"]
           ELSE [by |-> Min(Failed), err |-> slot[Min(Failed)]]

\* Mutant of Return: the first error there is ends the parallel path.
ReturnEarly ==
    /\ Open /\ (Failed # {} \/ \A i \in Tasks : task[i] = "done")
    /\ outcome' = Outcome /\ UNCHANGED <<limit, task, slot, ctxDone>>

\* wg.Wait, then the first error in the order of the tasks.
Return ==
    /\ Open
    /\ \/ \A i \in Tasks : task[i] = "done"
       \/ Serial /\ Failed # {}
    /\ outcome' = Outcome /\ UNCHANGED <<limit, task, slot, ctxDone>>

CancelContext == ~ctxDone /\ ctxDone' = TRUE /\ UNCHANGED <<limit, task, slot, outcome>>

SchedulerNext ==
    \/ \E i \in Tasks : StartSerial(i) \/ Acquire(i) \/ GiveUpWaiting(i) \/ Enter(i) \/ EndTask(i)
    \/ Return \/ CancelContext

SchedulerSpec == SchedulerInit /\ [][SchedulerNext]_schedulerVars

-----------------------------------------------------------------------------
(* Properties *)

\* Never more tasks at work than the limit, and none once Execute has returned.
WithinLimit == Cardinality(Held) <= limit /\ (~Open => Held = {})

\* Whatever the order the tasks end in, the outcome is that of the first task that
\* failed, and no error means that every task ran to its end: only a cancelled
\* context makes an outcome depend on the timing.
AnswerIsDeterministic ==
    ~Open =>
        /\ outcome.err = "nil" => Failed = {} /\ \A i \in Tasks : task[i] = "done"
        /\ outcome.err = "failed" => \A i \in Tasks : i < outcome.by => task[i] = "done" /\ slot[i] = "nil"
        /\ outcome.err = "cancelled" => ctxDone

\* The slots bound the work, and the order they are given in decides nothing
\* (Execute: the semaphore and the slice of errors).
WorkIsBounded == WithinLimit /\ AnswerIsDeterministic
=============================================================================
