---------------------------- MODULE JobLifecycle ----------------------------
(***************************************************************************)
(* What an asynchronous calculation promises the client that polls it      *)
(* (GET /api/v1/jobs/{id}): the status of a calc_jobs row moves along one   *)
(* graph, and `succeeded` is never left.  A failed row may be taken up      *)
(* again, because a retry reuses the row of the attempt that failed.        *)
(***************************************************************************)
CONSTANT Jobs

VARIABLE status

Status == {"none", "pending", "running", "succeeded", "failed"}

\* From the status on the left a poller may next see the ones on the right.
Successors ==
    [none      |-> {"pending"},
     pending   |-> {"running", "failed"},
     running   |-> {"succeeded", "failed"},
     failed    |-> {"running"},
     succeeded |-> {}]

Init == status = [j \in Jobs |-> "none"]

Move(j) ==
    \E s \in Successors[status[j]] : status' = [status EXCEPT ![j] = s]

Next == \E j \in Jobs : Move(j)

Spec == Init /\ [][Next]_status
=============================================================================
