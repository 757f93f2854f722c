------------------------------ MODULE Payments ------------------------------
(***************************************************************************)
(* One checkout of the shop and the Stripe webhooks about it               *)
(* (internal/application/payments, internal/infrastructure/payments and    *)
(* the payment repository).                                                *)
(*                                                                         *)
(* CreateCheckout first opens a session at the provider and then inserts   *)
(* the intent; from the first moment on the provider may report events,    *)
(* each of them as often as it likes and to several handlers at once, and  *)
(* it repeats an event until one delivery is answered with 200.  A handler *)
(* marks the event in Redis, looks the intent up, writes its status, then  *)
(* the journal; if anything fails it takes the mark away again.            *)
(***************************************************************************)
EXTENDS Naturals

CONSTANTS
    Events,       \* events of the provider about this checkout, by event id
    PaidEvents,   \* those that report success; the others report failure or expiry
    Mismatched,   \* those whose amount or currency is not the intent's
    Handlers,     \* webhook requests in progress, over all replicas of the API
    Faults,       \* what may go wrong, a subset of FaultKinds
    MaxFailures,  \* how often it may go wrong
    None

FaultKinds == {"db", "redis", "ack", "disconnect", "crash"}

ASSUME EventsAssumption == PaidEvents \subseteq Events /\ Mismatched \subseteq Events
ASSUME NoneAssumption == None \notin Events
ASSUME FaultsAssumption == Faults \subseteq FaultKinds
ASSUME MaxFailuresAssumption == MaxFailures \in Nat

VARIABLES
    checkout,   \* where CreateCheckout is
    status,     \* payment_intents.status, "none" without a row
    journal,    \* payment_events: how many rows an event has
    marked,     \* the keys of the deduper in Redis
    answered,   \* events answered with 200, which the provider repeats no more
    pc,         \* where each handler is
    event,      \* the event it handles
    gone,       \* its client has disconnected, which cancels its context
    failures,   \* faults so far
    doubtful    \* history: events a handler left in doubt, by its death, a failed
                \* Clear or a reply of a store it did not get

handlerVars == <<pc, event, gone>>
stores == <<status, journal, marked>>
vars == <<checkout, stores, answered, handlerVars, failures, doubtful>>

Status == {"none", "pending", "paid", "failed"}
HandlerStep == {"idle", "received", "lookup", "update", "append", "clear"}

\* The steps of a handler that has marked its event and not yet ended.
Working == {"lookup", "update", "append", "clear"}

\* resolveStatus, over what HandleStripeWebhook makes of the event's type.
Outcome(e) == IF e \in PaidEvents THEN "paid" ELSE "failed"

Init ==
    /\ checkout = "idle"
    /\ status = "none"
    /\ journal = [e \in Events |-> 0]
    /\ marked = {}
    /\ answered = {}
    /\ pc = [h \in Handlers |-> "idle"]
    /\ event = [h \in Handlers |-> None]
    /\ gone = [h \in Handlers |-> FALSE]
    /\ failures = 0
    /\ doubtful = {}

Spend == failures < MaxFailures /\ failures' = failures + 1

\* How a call to a store ends for a caller whose context is cancelled or not:
\* what the caller sees and whether the store has changed.
CallOutcome(kind, cancelled, ok, applied) ==
    \/ ok /\ applied /\ ~cancelled /\ UNCHANGED failures
    \/ ~ok /\ ~applied /\ cancelled /\ UNCHANGED failures
    \/ ~ok /\ ~applied /\ ~cancelled /\ kind \in Faults /\ Spend
    \/ ~ok /\ applied /\ ~cancelled /\ "ack" \in Faults /\ Spend

-----------------------------------------------------------------------------
(* CreateCheckout *)

\* The session exists at the provider; its failure ends the request.
OpenSession ==
    /\ checkout = "idle"
    /\ checkout' = "opened"
    /\ UNCHANGED <<stores, answered, handlerVars, failures, doubtful>>

CreateIntent ==
    /\ checkout = "opened"
    /\ \E ok, applied \in BOOLEAN :
          /\ CallOutcome("db", FALSE, ok, applied)
          /\ status' = IF applied THEN "pending" ELSE status
    /\ checkout' = "done"
    /\ UNCHANGED <<journal, marked, answered, handlerVars, doubtful>>

-----------------------------------------------------------------------------
(* The webhook *)

Goto(h, step) == pc' = [pc EXCEPT ![h] = step] /\ UNCHANGED <<event, gone>>

\* The request ends and its handler is free again.
Release(h) ==
    /\ pc' = [pc EXCEPT ![h] = "idle"]
    /\ event' = [event EXCEPT ![h] = None]
    /\ gone' = [gone EXCEPT ![h] = FALSE]

Doubt(e, lost) == doubtful' = IF lost THEN doubtful \union {e} ELSE doubtful

\* 200; a client that has gone does not see it.
Answer(h) ==
    /\ answered' = IF gone[h] THEN answered ELSE answered \union {event[h]}
    /\ Release(h)

\* The provider delivers an event; its signature is good and it parses.
Deliver(h, e) ==
    /\ checkout # "idle"
    /\ pc[h] = "idle"
    /\ pc' = [pc EXCEPT ![h] = "received"]
    /\ event' = [event EXCEPT ![h] = e]
    /\ UNCHANGED <<checkout, stores, answered, gone, failures, doubtful>>

\* Mutant of CheckAndMark: GET and then SET, so that two duplicates may both
\* find the event new.
CheckThenMark(h) ==
    /\ pc[h] = "received"
    /\ \E ok, applied \in BOOLEAN :
          /\ CallOutcome("redis", gone[h], ok, applied)
          /\ marked' = IF applied THEN marked \union {event[h]} ELSE marked
          /\ \/ ok /\ journal[event[h]] = 0 /\ Goto(h, "lookup") /\ UNCHANGED answered
             \/ ok /\ journal[event[h]] > 0 /\ Answer(h)
             \/ ~ok /\ Release(h) /\ UNCHANGED answered
          /\ Doubt(event[h], ~ok /\ applied)
    /\ UNCHANGED <<checkout, status, journal>>

\* SETNX: a new event is marked and handled, a marked one answered with 200,
\* an error with 500 (the mark it may have set stays).
CheckAndMark(h) ==
    /\ pc[h] = "received"
    /\ \E ok, applied \in BOOLEAN :
          /\ CallOutcome("redis", gone[h], ok, applied)
          /\ marked' = IF applied THEN marked \union {event[h]} ELSE marked
          /\ \/ ok /\ event[h] \notin marked /\ Goto(h, "lookup") /\ UNCHANGED answered
             \/ ok /\ event[h] \in marked /\ Answer(h)
             \/ ~ok /\ Release(h) /\ UNCHANGED answered
          /\ Doubt(event[h], ~ok /\ applied)
    /\ UNCHANGED <<checkout, status, journal>>

\* Mutant of Lookup: the amount is not compared.
LookupOnly(h) ==
    /\ pc[h] = "lookup"
    /\ \E ok, applied \in BOOLEAN :
          /\ CallOutcome("db", gone[h], ok, applied)
          /\ Goto(h, IF ok /\ status # "none" THEN "update" ELSE "clear")
    /\ UNCHANGED <<checkout, stores, answered, doubtful>>

\* No intent yet: 404.  Another amount or currency: 409.
Lookup(h) ==
    /\ pc[h] = "lookup"
    /\ \E ok, applied \in BOOLEAN :
          /\ CallOutcome("db", gone[h], ok, applied)
          /\ Goto(h, IF ok /\ status # "none" /\ event[h] \notin Mismatched
                     THEN "update" ELSE "clear")
    /\ UNCHANGED <<checkout, stores, answered, doubtful>>

\* Whatever the status was: the event that writes last wins.
UpdateStatus(h) ==
    /\ pc[h] = "update"
    /\ \E ok, applied \in BOOLEAN :
          /\ CallOutcome("db", gone[h], ok, applied)
          /\ status' = IF applied THEN Outcome(event[h]) ELSE status
          /\ Goto(h, IF ok THEN "append" ELSE "clear")
    /\ UNCHANGED <<checkout, journal, marked, answered, doubtful>>

\* Mutant of AppendEvent: an error is answered without taking the mark away.
AppendEventOrGiveUp(h) ==
    /\ pc[h] = "append"
    /\ \E ok, applied \in BOOLEAN :
          /\ CallOutcome("db", gone[h], ok, applied)
          /\ journal' = IF applied THEN [journal EXCEPT ![event[h]] = @ + 1] ELSE journal
          /\ IF ok THEN Answer(h) ELSE Release(h) /\ UNCHANGED answered
          /\ Doubt(event[h], ~ok /\ applied)
    /\ UNCHANGED <<checkout, status, marked>>

AppendEvent(h) ==
    /\ pc[h] = "append"
    /\ \E ok, applied \in BOOLEAN :
          /\ CallOutcome("db", gone[h], ok, applied)
          /\ journal' = IF applied THEN [journal EXCEPT ![event[h]] = @ + 1] ELSE journal
          /\ IF ok THEN Answer(h) ELSE Goto(h, "clear") /\ UNCHANGED answered
          /\ Doubt(event[h], ~ok /\ applied)
    /\ UNCHANGED <<checkout, status, marked>>

\* The deferred Clear, with the request's own context; its error is logged.
Clear(h) ==
    /\ pc[h] = "clear"
    /\ \E ok, applied \in BOOLEAN :
          /\ CallOutcome("redis", gone[h], ok, applied)
          /\ marked' = IF applied THEN marked \ {event[h]} ELSE marked
          /\ Doubt(event[h], ~applied)
    /\ Release(h)
    /\ UNCHANGED <<checkout, status, journal, answered>>

-----------------------------------------------------------------------------
(* Faults *)

\* The provider gives up waiting for an answer.
Disconnect(h) ==
    /\ "disconnect" \in Faults /\ Spend
    /\ pc[h] # "idle" /\ ~gone[h]
    /\ gone' = [gone EXCEPT ![h] = TRUE]
    /\ UNCHANGED <<checkout, stores, answered, pc, event, doubtful>>

\* The process of the handler dies.
Crash(h) ==
    /\ "crash" \in Faults /\ Spend
    /\ pc[h] # "idle"
    /\ Doubt(event[h], pc[h] \in Working)
    /\ Release(h)
    /\ UNCHANGED <<checkout, stores, answered>>

-----------------------------------------------------------------------------
HandlerWork(h) ==
    \/ CheckAndMark(h) \/ Lookup(h) \/ UpdateStatus(h) \/ AppendEvent(h) \/ Clear(h)

Next ==
    \/ OpenSession \/ CreateIntent
    \/ \E h \in Handlers, e \in Events : Deliver(h, e)
    \/ \E h \in Handlers : HandlerWork(h) \/ Disconnect(h) \/ Crash(h)

Spec == Init /\ [][Next]_vars

\* A request in progress goes on, and an event is delivered again and again:
\* by the provider until a 200 and after that by whoever resends it.
PaymentsFairness ==
    /\ WF_vars(OpenSession) /\ WF_vars(CreateIntent)
    /\ \A h \in Handlers : WF_vars(HandlerWork(h))
    /\ \A e \in Events : SF_vars(\E h \in Handlers : Deliver(h, e))

FairSpec == Spec /\ PaymentsFairness

-----------------------------------------------------------------------------
(* Properties *)

\* The type of the state; a handler has an event exactly while it is busy.
TypeOK ==
    /\ checkout \in {"idle", "opened", "done"}
    /\ status \in Status
    /\ journal \in [Events -> Nat]
    /\ marked \subseteq Events
    /\ answered \subseteq Events
    /\ pc \in [Handlers -> HandlerStep]
    /\ event \in [Handlers -> Events \union {None}]
    /\ \A h \in Handlers : event[h] = None <=> pc[h] = "idle"
    /\ gone \in [Handlers -> BOOLEAN]
    /\ failures \in Nat
    /\ doubtful \subseteq Events

WorksOn(h, e) == pc[h] \in Working /\ event[h] = e

\* Two deliveries of an event are not handled twice: not at the same time, and
\* not one after the other either, through failures and repetitions (the SETNX
\* of CheckAndMark and the order of AppendEvent and Clear).  Only an event left
\* in doubt may come into the journal again.
HandledOnce ==
    \A e \in Events :
        /\ \A g, h \in Handlers : WorksOn(g, e) /\ WorksOn(h, e) => g = h
        /\ e \notin doubtful => journal[e] <= 1
        /\ journal[e] > 0 /\ e \notin doubtful => \A h \in Handlers : ~WorksOn(h, e)

\* Intent and journal agree as far as two separate writes can: an event stands
\* in the journal only if its amount is right and the intent has been settled
\* before, and the intent only ever shows the outcome of such a good event
\* (applyVerifiedEvent: the comparison, UpdateStatus, then AppendEvent).
JournalBacked ==
    /\ \A e \in Events :
          journal[e] > 0 => e \notin Mismatched /\ status \in {"paid", "failed"}
    /\ status \in {"paid", "failed"} =>
          \E e \in Events \ Mismatched : status = Outcome(e)

\* A mark stands for an event that is in the journal or being handled, so that
\* an event whose handling failed can be delivered again and is then applied (the
\* deferred Clear of HandleStripeWebhook), unless it was left in doubt.
MarkStands ==
    \A e \in marked : \/ journal[e] > 0
                      \/ \E h \in Handlers : WorksOn(h, e)
                      \/ e \in doubtful

\* Mark, intent and journal are three stores written one after the other: they agree on
\* every event that was not left in doubt.
PaymentsAreSafe == TypeOK /\ HandledOnce /\ JournalBacked /\ MarkStands

\* As long as it keeps being delivered, every good event about an intent reaches
\* the journal, whenever it arrives and however often storing it fails before:
\* only a mark left in doubt blocks the deliveries that follow.
EventuallyJournalled ==
    \A e \in Events \ Mismatched :
        status # "none" ~> journal[e] > 0 \/ e \in doubtful

\* EDR-0027: every accepted event is journalled.  An event answered with 200,
\* which the provider will not repeat, is in the journal or being handled.
AcceptedIsJournalled ==
    \A e \in answered : journal[e] > 0 \/ \E h \in Handlers : WorksOn(h, e)
=============================================================================
