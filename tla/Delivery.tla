------------------------------ MODULE Delivery ------------------------------
(***************************************************************************)
(* Outgoing webhooks: events for an ERP, CRM or MES system, from the       *)
(* request that creates them to the worker that sends them                 *)
(* (internal/application/integrations, its repository, cmd/worker).        *)
(*                                                                         *)
(* The queue and the workers are those of CalcJobs, whose SingleCarrier    *)
(* shows that the job of an event is on the list or with one worker: here  *)
(* every event has a place of its own, and which worker holds it does not  *)
(* matter.  An event counts its attempts twice: in the job, where they     *)
(* bound the retries, and in its row, where they decide between `failed`   *)
(* and `dlq`.                                                              *)
(***************************************************************************)
EXTENDS Naturals

CONSTANTS
    Outgoing,        \* events created for one endpoint
    MaxAttempts,   \* queue.DefaultMaxAttempts
    DeliveryFaults         \* what may go wrong, a subset of DeliveryFaultKinds

DeliveryFaultKinds == {"queue", "db", "receiver", "ack", "crash", "shutdown"}

ASSUME MaxAttemptsAssumption == MaxAttempts \in Nat \ {0}
ASSUME DeliveryFaultsAssumption == DeliveryFaults \subseteq DeliveryFaultKinds

VARIABLES
    endpoint,     \* the endpoint exists
    row,          \* integration_events.status, "none" without a row
    rowAttempts,  \* integration_events.attempts
    at,           \* where the job of an event is
    jobAttempts,  \* Job.Attempts
    read,         \* the row's attempts as the worker has read them
    stopping,     \* the worker that holds the job has been told to stop
    sent,         \* calls of WebhookClient.Send
    accepted,     \* requests the receiver has accepted
    uncertain      \* history: events whose job, row or reply a fault has taken

rowVars == <<endpoint, row, rowAttempts>>
receiverVars == <<sent, accepted>>
deliveryVars == <<rowVars, at, jobAttempts, read, stopping, receiverVars, uncertain>>

RowStatus == {"none", "pending", "delivered", "failed", "dlq"}

\* "new": not requested; "created": inserted, not pushed; "over": no job left.
Place == {"new", "created", "queued", "over",
          "get", "endpoint", "send", "refused", "sent", "error", "backoff"}

\* A worker holds the job.
Held == {"get", "endpoint", "send", "refused", "sent", "error", "backoff"}

DeliveryInit ==
    /\ endpoint = TRUE
    /\ row = [e \in Outgoing |-> "none"]
    /\ rowAttempts = [e \in Outgoing |-> 0]
    /\ at = [e \in Outgoing |-> "new"]
    /\ jobAttempts = [e \in Outgoing |-> 0]
    /\ read = [e \in Outgoing |-> 0]
    /\ stopping = [e \in Outgoing |-> FALSE]
    /\ sent = [e \in Outgoing |-> 0]
    /\ accepted = [e \in Outgoing |-> 0]
    /\ uncertain = {}

\* How a call may end: what the caller sees, whether it took effect.
DeliveryOutcome(kind, cancelled, ok, applied) ==
    \/ ok /\ applied /\ ~cancelled
    \/ ~ok /\ ~applied /\ (cancelled \/ kind \in DeliveryFaults)
    \/ ~ok /\ applied /\ ~cancelled /\ "ack" \in DeliveryFaults

MoveTo(e, place) == at' = [at EXCEPT ![e] = place]

DoubtDelivery(e, lost) == uncertain' = IF lost THEN uncertain \union {e} ELSE uncertain

\* UpdateDeliveryStatus: no row, no effect and no error.
UpdateRow(e, applied, s, n) ==
    /\ IF applied /\ row[e] # "none"
       THEN /\ row' = [row EXCEPT ![e] = s]
            /\ rowAttempts' = [rowAttempts EXCEPT ![e] = n]
       ELSE UNCHANGED <<row, rowAttempts>>
    /\ UNCHANGED endpoint

-----------------------------------------------------------------------------
(* The API: Service.enqueue and DeleteEndpoint *)

CreateDelivery(e) ==
    /\ at[e] = "new" /\ endpoint
    /\ row' = [row EXCEPT ![e] = "pending"]
    /\ MoveTo(e, "created")
    /\ UNCHANGED <<endpoint, rowAttempts, jobAttempts, read, stopping, receiverVars, uncertain>>

\* A failed push is reported to the client; the row stays as it is.
Enqueue(e) ==
    /\ at[e] = "created"
    /\ \E ok, applied \in BOOLEAN :
          /\ DeliveryOutcome("queue", FALSE, ok, applied)
          /\ MoveTo(e, IF applied THEN "queued" ELSE "over")
          /\ DoubtDelivery(e, ~applied)
    /\ UNCHANGED <<rowVars, jobAttempts, read, stopping, receiverVars>>

ApiCrash(e) ==
    /\ "crash" \in DeliveryFaults
    /\ at[e] = "created"
    /\ MoveTo(e, "over")
    /\ DoubtDelivery(e, TRUE)
    /\ UNCHANGED <<rowVars, jobAttempts, read, stopping, receiverVars>>

\* ON DELETE CASCADE takes the rows of its events along; their jobs stay.
DeleteEndpoint ==
    /\ endpoint
    /\ endpoint' = FALSE
    /\ row' = [e \in Outgoing |-> "none"]
    /\ UNCHANGED <<rowAttempts, at, jobAttempts, read, stopping, receiverVars, uncertain>>

-----------------------------------------------------------------------------
(* The worker: deliverEvent *)

Dequeue(e) ==
    /\ at[e] = "queued"
    /\ MoveTo(e, "get")
    /\ UNCHANGED <<rowVars, jobAttempts, read, stopping, receiverVars, uncertain>>

\* An attempt that ends here is counted in the job and not in the row.
GetDelivery(e) ==
    /\ at[e] = "get"
    /\ \E ok, applied \in BOOLEAN :
          /\ DeliveryOutcome("db", stopping[e], ok, applied)
          /\ LET found == ok /\ row[e] # "none" IN
                /\ MoveTo(e, IF found THEN "endpoint" ELSE "error")
                /\ read' = [read EXCEPT ![e] = IF found THEN rowAttempts[e] ELSE @]
          /\ DoubtDelivery(e, ~ok)
    /\ UNCHANGED <<rowVars, jobAttempts, stopping, receiverVars>>

\* GetEndpoint and its secret.
GetEndpoint(e) ==
    /\ at[e] = "endpoint"
    /\ \E ok, applied \in BOOLEAN :
          /\ DeliveryOutcome("db", stopping[e], ok, applied)
          /\ MoveTo(e, IF ok /\ endpoint THEN "send" ELSE "error")
          /\ DoubtDelivery(e, ~ok)
    /\ UNCHANGED <<rowVars, jobAttempts, read, stopping, receiverVars>>

\* Mutant of Send: a request without an answer counts as delivered.
SendAndForget(e) ==
    /\ at[e] = "send"
    /\ \E ok, applied \in BOOLEAN :
          /\ DeliveryOutcome("receiver", stopping[e], ok, applied)
          /\ accepted' = [accepted EXCEPT ![e] = IF applied THEN @ + 1 ELSE @]
          /\ DoubtDelivery(e, ~ok /\ (applied \/ stopping[e]))
    /\ MoveTo(e, "sent")
    /\ sent' = [sent EXCEPT ![e] = @ + 1]
    /\ UNCHANGED <<rowVars, jobAttempts, read, stopping>>

\* The receiver may refuse the request or not get it; it may also accept it
\* and its answer be lost.
Send(e) ==
    /\ at[e] = "send"
    /\ \E ok, applied \in BOOLEAN :
          /\ DeliveryOutcome("receiver", stopping[e], ok, applied)
          /\ accepted' = [accepted EXCEPT ![e] = IF applied THEN @ + 1 ELSE @]
          /\ MoveTo(e, IF ok THEN "sent" ELSE "refused")
          /\ DoubtDelivery(e, ~ok /\ (applied \/ stopping[e]))
    /\ sent' = [sent EXCEPT ![e] = @ + 1]
    /\ UNCHANGED <<rowVars, jobAttempts, read, stopping>>

\* Mutant of MarkFailed: the attempt in progress is not counted.
MarkFailedUncounted(e) ==
    /\ at[e] = "refused"
    /\ \E ok, applied \in BOOLEAN :
          /\ DeliveryOutcome("db", stopping[e], ok, applied)
          /\ UpdateRow(e, applied, IF read[e] >= MaxAttempts THEN "dlq" ELSE "failed",
                       read[e])
          /\ DoubtDelivery(e, ~ok)
    /\ MoveTo(e, "error")
    /\ UNCHANGED <<jobAttempts, read, stopping, receiverVars>>

\* Mutant of MarkFailed: the dead letter comes one attempt early.
MarkFailedEarly(e) ==
    /\ at[e] = "refused"
    /\ \E ok, applied \in BOOLEAN :
          /\ DeliveryOutcome("db", stopping[e], ok, applied)
          /\ UpdateRow(e, applied, IF read[e] + 2 >= MaxAttempts THEN "dlq" ELSE "failed",
                       read[e] + 1)
          /\ DoubtDelivery(e, ~ok)
    /\ MoveTo(e, "error")
    /\ UNCHANGED <<jobAttempts, read, stopping, receiverVars>>

\* MarkFailed after a failed Send; its own failure is only logged.
MarkFailed(e) ==
    /\ at[e] = "refused"
    /\ \E ok, applied \in BOOLEAN :
          /\ DeliveryOutcome("db", stopping[e], ok, applied)
          /\ UpdateRow(e, applied, IF read[e] + 1 >= MaxAttempts THEN "dlq" ELSE "failed",
                       read[e] + 1)
          /\ DoubtDelivery(e, ~ok)
    /\ MoveTo(e, "error")
    /\ UNCHANGED <<jobAttempts, read, stopping, receiverVars>>

\* Mutant of MarkDelivered: the job is retried although the row is written.
MarkDeliveredAndRetry(e) ==
    /\ at[e] = "sent"
    /\ \E ok, applied \in BOOLEAN :
          /\ DeliveryOutcome("db", stopping[e], ok, applied)
          /\ UpdateRow(e, applied, "delivered", 0)
          /\ DoubtDelivery(e, ~ok)
    /\ MoveTo(e, "error")
    /\ UNCHANGED <<jobAttempts, read, stopping, receiverVars>>

\* The job is done, or retried as a whole when the row could not be written.
MarkDelivered(e) ==
    /\ at[e] = "sent"
    /\ \E ok, applied \in BOOLEAN :
          /\ DeliveryOutcome("db", stopping[e], ok, applied)
          /\ UpdateRow(e, applied, "delivered", 0)
          /\ MoveTo(e, IF ok THEN "over" ELSE "error")
          /\ DoubtDelivery(e, ~ok)
    /\ UNCHANGED <<jobAttempts, read, stopping, receiverVars>>

-----------------------------------------------------------------------------
(* The worker: processJob after an error *)

\* Mutant of CountAttempt: one retry too many.
CountAttemptOffByOne(e) ==
    /\ at[e] = "error"
    /\ jobAttempts' = [jobAttempts EXCEPT ![e] = @ + 1]
    /\ MoveTo(e, IF jobAttempts[e] + 1 > MaxAttempts THEN "over" ELSE "backoff")
    /\ UNCHANGED <<rowVars, read, stopping, receiverVars, uncertain>>

CountAttempt(e) ==
    /\ at[e] = "error"
    /\ jobAttempts' = [jobAttempts EXCEPT ![e] = @ + 1]
    /\ MoveTo(e, IF jobAttempts[e] + 1 >= MaxAttempts THEN "over" ELSE "backoff")
    /\ UNCHANGED <<rowVars, read, stopping, receiverVars, uncertain>>

\* After the backoff the job is pushed again; a failed push loses it.
Requeue(e) ==
    /\ at[e] = "backoff"
    /\ \E ok, applied \in BOOLEAN :
          /\ DeliveryOutcome("queue", stopping[e], ok, applied)
          /\ MoveTo(e, IF applied THEN "queued" ELSE "over")
          /\ DoubtDelivery(e, ~applied)
    /\ stopping' = [stopping EXCEPT ![e] = FALSE]
    /\ UNCHANGED <<rowVars, jobAttempts, read, receiverVars>>

\* SIGTERM cancels the context of the job in progress.
Shutdown(e) ==
    /\ "shutdown" \in DeliveryFaults
    /\ at[e] \in Held /\ ~stopping[e]
    /\ stopping' = [stopping EXCEPT ![e] = TRUE]
    /\ UNCHANGED <<rowVars, at, jobAttempts, read, receiverVars, uncertain>>

WorkerCrash(e) ==
    /\ "crash" \in DeliveryFaults
    /\ at[e] \in Held
    /\ MoveTo(e, "over")
    /\ DoubtDelivery(e, TRUE)
    /\ UNCHANGED <<rowVars, jobAttempts, read, stopping, receiverVars>>

-----------------------------------------------------------------------------
Work(e) ==
    \/ Enqueue(e) \/ Dequeue(e) \/ GetDelivery(e) \/ GetEndpoint(e) \/ Send(e)
    \/ MarkFailed(e) \/ MarkDelivered(e) \/ CountAttempt(e) \/ Requeue(e)

DeliveryNext ==
    \/ \E e \in Outgoing : \/ CreateDelivery(e) \/ Work(e)
                         \/ ApiCrash(e) \/ Shutdown(e) \/ WorkerCrash(e)
    \/ DeleteEndpoint

DeliverySpec == DeliveryInit /\ [][DeliveryNext]_deliveryVars

\* A request and a worker in the middle of an event go on with it, and an idle
\* worker takes the next job.
DeliveryFairness == \A e \in Outgoing : WF_deliveryVars(Work(e))

DeliveryFairSpec == DeliverySpec /\ DeliveryFairness

-----------------------------------------------------------------------------
(* Properties *)

\* The type of the state.
DeliveryTypeOK ==
    /\ endpoint \in BOOLEAN
    /\ row \in [Outgoing -> RowStatus]
    /\ rowAttempts \in [Outgoing -> Nat]
    /\ at \in [Outgoing -> Place]
    /\ jobAttempts \in [Outgoing -> 0..MaxAttempts]
    /\ read \in [Outgoing -> Nat]
    /\ stopping \in [Outgoing -> BOOLEAN]
    /\ sent \in [Outgoing -> Nat]
    /\ accepted \in [Outgoing -> Nat]
    /\ uncertain \subseteq Outgoing

\* The receiver sees at most MaxAttempts requests for an event, however its
\* attempts end and in whichever counter they are counted (processJob).
SendBudget == \A e \in Outgoing : sent[e] <= MaxAttempts

\* The row tells the truth: a delivered event was accepted, and an event is in
\* the dead letters only after MaxAttempts requests (MarkDelivered, MarkFailed).
RowIsTrue ==
    \A e \in Outgoing :
        /\ row[e] = "delivered" => accepted[e] > 0
        /\ row[e] = "dlq" => sent[e] = MaxAttempts

\* Nothing is sent again that was accepted and recorded: a second request can
\* reach the receiver only when a reply or a write was lost after the first
\* (MarkDelivered ends the job).
AcceptedOnce ==
    \A e \in Outgoing : e \notin uncertain =>
        /\ accepted[e] <= 1
        /\ accepted[e] = 1 => at[e] \in {"sent", "over"}

\* The receiver is not asked too often, nor again without need, and the row tells what
\* has come of it.
DeliveryIsSafe == DeliveryTypeOK /\ SendBudget /\ RowIsTrue /\ AcceptedOnce

\* A dead letter stays one, and a delivered event stays delivered unless its
\* reply was lost: only the deletion of the endpoint takes the row away.
OutcomeIsFinal ==
    [][\A e \in Outgoing :
          /\ row[e] = "dlq" => row'[e] \in {"dlq", "none"}
          /\ row[e] = "delivered" /\ e \notin uncertain =>
                row'[e] \in {"delivered", "none"}]_deliveryVars

\* Every event comes to rest, and unless a fault has taken its job, an attempt
\* or a reply, as delivered or in the dead letters, as long as its endpoint exists
\* (EDR-0023: retries with backoff and max-attempts, then the dead letters).
EventuallySettled ==
    \A e \in Outgoing :
        at[e] = "created" ~>
            /\ at[e] = "over"
            /\ row[e] \in {"delivered", "dlq"} \/ e \in uncertain \/ ~endpoint
=============================================================================
