------------------------------- MODULE EventBus -------------------------------
(***************************************************************************)
(* The in-process event bus (internal/infrastructure/events): subscriptions *)
(* in order of priority, publications that retry each handler, and the dead *)
(* letter queue.  A publication copies the subscriptions under the lock and *)
(* calls them outside of it.                                                *)
(***************************************************************************)
EXTENDS Naturals, Sequences, Functions

CONSTANTS
    Handlers,      \* the subscriptions there will be
    Wild,          \* those of them to every type of event
    Priority,      \* per handler; the smaller is called first
    Events,        \* the publications there will be
    MaxAttempts,   \* RetryPolicy.MaxAttempts
    DlqCapacity,   \* DLQ.capacity
    MaxLeaving     \* bound: handlers that unsubscribe

ASSUME BusAssumption ==
    /\ Wild \subseteq Handlers /\ Priority \in [Handlers -> Nat]
    /\ MaxAttempts \in Nat \ {0} /\ DlqCapacity \in Nat \ {0} /\ MaxLeaving \in Nat

VARIABLES
    typed, wild,   \* the subscriptions to the type of the events and to "*"
    since,         \* history: the order in which handlers subscribed
    toCall,        \* per publication: handlers it has yet to call
    attempt,       \* per publication: calls of the first of them so far
    publication,   \* per publication: "new", "calling" or "over"
    done,          \* history: pairs of a publication and a handler that succeeded
    owed,          \* history: pairs of a publication and a handler it must call
    dlq,           \* pairs of an event and a handler, oldest first
    lost,          \* history: entries that left the queue without a call
    retry,         \* RetryAll: "no", "running"
    copy,          \* RetryAll: the entries it copied
    nilCall,       \* a nil handler was called
    cancelled      \* publications whose context is cancelled

bus == <<typed, wild, since>>
queue == <<dlq, lost, retry, copy, nilCall>>
calls == <<toCall, attempt, publication, done, owed, cancelled>>
busVars == <<bus, queue, calls>>

BusInit ==
    /\ typed = <<>> /\ wild = <<>> /\ since = <<>>
    /\ toCall = [e \in Events |-> <<>>] /\ attempt = [e \in Events |-> 0]
    /\ publication = [e \in Events |-> "new"]
    /\ done = {} /\ owed = {}
    /\ dlq = <<>> /\ lost = {} /\ retry = "no" /\ copy = <<>> /\ nilCall = FALSE
    /\ cancelled = {}

\* Mutant of Inserted: a handler goes before those of its own priority.
InsertedFirst(h, entries) ==
    LET n == CHOOSE i \in 0..Len(entries) :
                 /\ \A j \in (i + 1)..Len(entries) : Priority[h] <= Priority[entries[j]]
                 /\ i > 0 => Priority[h] > Priority[entries[i]]
    IN  SubSeq(entries, 1, n) \o <<h>> \o SubSeq(entries, n + 1, Len(entries))

\* The step of insertion sort that follows the append: the new entry moves past
\* those at its end that have a larger priority.
Inserted(h, entries) ==
    LET n == CHOOSE i \in 0..Len(entries) :
                 /\ \A j \in (i + 1)..Len(entries) : Priority[h] < Priority[entries[j]]
                 /\ i > 0 => Priority[h] >= Priority[entries[i]]
    IN  SubSeq(entries, 1, n) \o <<h>> \o SubSeq(entries, n + 1, Len(entries))

Subscribe(h) ==
    /\ h \notin Range(since)
    /\ since' = Append(since, h)
    /\ IF h \in Wild THEN wild' = Inserted(h, wild) /\ UNCHANGED typed
       ELSE typed' = Inserted(h, typed) /\ UNCHANGED wild
    /\ UNCHANGED <<queue, calls>>

\* The entry with the id is cut out.
Without(h, entries) ==
    IF h \notin Range(entries) THEN entries
    ELSE LET n == CHOOSE i \in DOMAIN entries : entries[i] = h
         IN  SubSeq(entries, 1, n - 1) \o SubSeq(entries, n + 1, Len(entries))

Unsubscribe(h) ==
    /\ h \in Range(typed) \union Range(wild)
    /\ Len(since) - (Len(typed) + Len(wild)) < MaxLeaving
    /\ typed' = Without(h, typed) /\ wild' = Without(h, wild)
    /\ UNCHANGED <<since, queue, calls>>

\* Under the read lock the subscriptions are copied, "*" after the event's own.
Publish(e) ==
    /\ publication[e] = "new"
    /\ toCall' = [toCall EXCEPT ![e] = typed \o wild]
    /\ owed' = owed \union {e} \X Range(typed \o wild)
    /\ publication' = [publication EXCEPT ![e] = "calling"]
    /\ UNCHANGED <<bus, queue, attempt, done, cancelled>>

\* The next handler's turn.
NextHandler(e) ==
    /\ toCall' = [toCall EXCEPT ![e] = Tail(@)]
    /\ attempt' = [attempt EXCEPT ![e] = 0]

\* Push: the oldest entry makes room.
Push(entry) ==
    IF Len(dlq) >= DlqCapacity
    THEN dlq' = Append(Tail(dlq), entry) /\ lost' = lost \union {Head(dlq)}
    ELSE dlq' = Append(dlq, entry) /\ UNCHANGED lost

Calling(e) == publication[e] = "calling" /\ toCall[e] # <<>>

Succeed(e) ==
    /\ Calling(e)
    /\ done' = done \union {<<e, Head(toCall[e])>>}
    /\ NextHandler(e)
    /\ UNCHANGED <<bus, queue, publication, owed, cancelled>>

\* A failure before the last attempt, with the context alive: once more.
Again(e) ==
    /\ Calling(e) /\ e \notin cancelled
    /\ attempt[e] + 1 < MaxAttempts
    /\ attempt' = [attempt EXCEPT ![e] = @ + 1]
    /\ UNCHANGED <<bus, queue, toCall, publication, done, owed, cancelled>>

\* Mutant of GiveUp: the handler that failed is forgotten.
GiveUpSilently(e) ==
    /\ Calling(e)
    /\ e \in cancelled \/ attempt[e] + 1 >= MaxAttempts
    /\ NextHandler(e)
    /\ UNCHANGED <<bus, queue, publication, done, owed, cancelled>>

\* The last attempt fails, or any with the context cancelled: to the queue.
GiveUp(e) ==
    /\ Calling(e)
    /\ e \in cancelled \/ attempt[e] + 1 >= MaxAttempts
    /\ Push(<<e, Head(toCall[e])>>)
    /\ NextHandler(e)
    /\ UNCHANGED <<bus, retry, copy, nilCall, publication, done, owed, cancelled>>

\* The context is cancelled while the publication waits before another attempt.
CancelledWaiting(e) ==
    /\ Calling(e) /\ attempt[e] > 0 /\ e \in cancelled
    /\ Push(<<e, Head(toCall[e])>>)
    /\ NextHandler(e)
    /\ UNCHANGED <<bus, retry, copy, nilCall, publication, done, owed, cancelled>>

CancelPublication(e) ==
    /\ publication[e] = "calling" /\ e \notin cancelled
    /\ cancelled' = cancelled \union {e}
    /\ UNCHANGED <<bus, queue, toCall, attempt, publication, done, owed>>

Published(e) ==
    /\ publication[e] = "calling" /\ toCall[e] = <<>>
    /\ publication' = [publication EXCEPT ![e] = "over"]
    /\ UNCHANGED <<bus, queue, toCall, attempt, done, owed, cancelled>>

\* RetryAll copies the entries under the lock and works on the copy.
RetryCopy ==
    /\ retry = "no"
    /\ retry' = "running" /\ copy' = dlq
    /\ UNCHANGED <<bus, dlq, lost, nilCall, calls>>

\* An entry carries the id of its handler and not the handler: with a context
\* that is alive the first call of the retry is that of a nil function.
RetryCalls ==
    /\ retry = "running" /\ copy # <<>>
    /\ nilCall' = TRUE
    /\ UNCHANGED <<bus, dlq, lost, retry, copy, calls>>

\* With nothing to do, or a context that is cancelled, everything copied is
\* written back, over what has been pushed meanwhile.
RetryStore ==
    /\ retry = "running"
    /\ dlq' = copy
    /\ lost' = lost \union (Range(dlq) \ Range(copy))
    /\ retry' = "no" /\ copy' = <<>>
    /\ UNCHANGED <<bus, nilCall, calls>>

BusNext ==
    /\ ~nilCall
    /\ \/ \E h \in Handlers : Subscribe(h) \/ Unsubscribe(h)
       \/ \E e \in Events :
             \/ Publish(e) \/ Succeed(e) \/ Again(e) \/ GiveUp(e)
             \/ CancelledWaiting(e) \/ CancelPublication(e) \/ Published(e)
       \/ RetryCopy \/ RetryCalls \/ RetryStore

BusSpec == BusInit /\ [][BusNext]_busVars

-----------------------------------------------------------------------------
(* Properties *)

Pairs == Events \X Handlers

\* The type of the state: nobody is subscribed twice, the queue keeps its capacity.
BusTypeOK ==
    /\ typed \in Seq(Handlers \ Wild) /\ wild \in Seq(Wild) /\ since \in Seq(Handlers)
    /\ IsInjective(typed) /\ IsInjective(wild)
    /\ toCall \in [Events -> Seq(Handlers)]
    /\ attempt \in [Events -> 0..(MaxAttempts - 1)]
    /\ publication \in [Events -> {"new", "calling", "over"}]
    /\ done \subseteq Pairs /\ owed \subseteq Pairs /\ lost \subseteq Pairs
    /\ dlq \in Seq(Pairs) /\ copy \in Seq(Pairs)
    /\ Len(dlq) <= DlqCapacity /\ Len(copy) <= DlqCapacity
    /\ retry \in {"no", "running"} /\ nilCall \in BOOLEAN /\ cancelled \subseteq Events

SubscribedBefore(h, g) == \E i, j \in 1..Len(since) : i < j /\ since[i] = h /\ since[j] = g

\* Handlers are called in order of priority, and those of one priority in the
\* order they subscribed, whatever subscriptions came and went in between.
PriorityOrder ==
    \A s \in {typed, wild} : \A i, j \in 1..Len(s) : i < j =>
        \/ Priority[s[i]] < Priority[s[j]]
        \/ Priority[s[i]] = Priority[s[j]] /\ SubscribedBefore(s[i], s[j])

\* When a publication is over, every handler subscribed at its start has succeeded
\* once or is in the dead letter queue, or was there and has been overwritten.
NothingUnaccounted ==
    \A p \in owed : publication[p[1]] = "over" =>
        ((p \in done) # (p \in Range(dlq) \union lost \union Range(copy)))

\* Handlers are called in their order, and what one of them failed at is not forgotten
\* (Publish, dispatch and the dead letter queue).
NoEventForgotten == BusTypeOK /\ PriorityOrder /\ NothingUnaccounted
=============================================================================
