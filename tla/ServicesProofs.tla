--------------------------- MODULE ServicesProofs ---------------------------
(***************************************************************************)
(* Proofs about what calls other services: payments, the delivery of       *)
(* outgoing webhooks and the circuit breaker, for any events, attempts,    *)
(* callers, thresholds and faults.                                         *)
(***************************************************************************)
EXTENDS Payments, Delivery, CircuitBreaker, FiniteSetTheorems, TLAPS

-----------------------------------------------------------------------------
(* Payments.                                                                *)

\* A handler that works on an event has its mark, an event in the journal keeps
\* its mark unless it was left in doubt, and a handler gets as far as writing
\* only with an intent and the right amount.
Owned ==
    /\ \A h \in Handlers : pc[h] \in Working => event[h] \in marked
    /\ \A e \in Events : journal[e] > 0 /\ e \notin doubtful => e \in marked
    /\ checkout # "done" => status = "none"
    /\ \A h \in Handlers :
          pc[h] \in {"update", "append"} => event[h] \notin Mismatched /\ status # "none"
    /\ \A h \in Handlers : pc[h] = "append" => status \in {"paid", "failed"}

\* The inductive invariant.
Safe == TypeOK /\ Owned /\ HandledOnce /\ JournalBacked /\ MarkStands

LEMMA InitSafe == Init => Safe
BY DEF Init, Safe, TypeOK, Owned, HandledOnce, JournalBacked, MarkStands, WorksOn,
       Status, HandlerStep, Working

LEMMA FailuresNat ==
    ASSUME failures \in Nat, NEW kind, NEW cancelled, NEW ok, NEW applied,
           CallOutcome(kind, cancelled, ok, applied)
    PROVE  failures' \in Nat
BY DEF CallOutcome, Spend

LEMMA OpenSessionSafe == Safe /\ OpenSession => Safe'
BY DEF OpenSession, stores, handlerVars, Safe, TypeOK, Owned, HandledOnce,
       JournalBacked, MarkStands, WorksOn, Status

LEMMA CreateIntentSafe == Safe /\ CreateIntent => Safe'
<1> SUFFICES ASSUME Safe, CreateIntent PROVE Safe'
  OBVIOUS
<1>1. failures' \in Nat
  BY FailuresNat DEF CreateIntent, Safe, TypeOK
<1>2. /\ checkout = "opened" /\ checkout' = "done"
      /\ status = "none" /\ status' \in {"none", "pending"}
      /\ UNCHANGED <<journal, marked, answered, pc, event, gone, doubtful>>
  BY DEF CreateIntent, handlerVars, Safe, Owned
<1> QED
  BY <1>1, <1>2 DEF Safe, TypeOK, Owned, HandledOnce, JournalBacked, MarkStands,
       WorksOn, Status

LEMMA DeliverSafe ==
    ASSUME Safe, NEW h \in Handlers, NEW e \in Events, Deliver(h, e)
    PROVE  Safe'
<1> USE NoneAssumption DEF Deliver, stores
<1>1. TypeOK'
  BY DEF Safe, TypeOK, HandlerStep
<1>3. \A g \in Handlers : pc'[g] \in Working => pc'[g] = pc[g] /\ event'[g] = event[g]
  BY DEF Safe, TypeOK, Working
<1>4. \A g \in Handlers, f \in Events : WorksOn(g, f)' <=> WorksOn(g, f)
  BY DEF Safe, TypeOK, Working, WorksOn
<1>5. Owned'
  BY <1>3 DEF Safe, Owned, Working, TypeOK
<1> QED
  BY <1>1, <1>4, <1>5 DEF Safe, HandledOnce, JournalBacked, MarkStands, TypeOK

\* A handler that ends works on nothing; the others go on as before.
LEMMA ReleaseEffect ==
    ASSUME TypeOK, NEW h \in Handlers, Release(h)
    PROVE  /\ pc' \in [Handlers -> HandlerStep]
           /\ event' \in [Handlers -> Events \union {None}]
           /\ gone' \in [Handlers -> BOOLEAN]
           /\ \A g \in Handlers : event'[g] = None <=> pc'[g] = "idle"
           /\ \A g \in Handlers : pc'[g] # "idle" =>
                 g # h /\ pc'[g] = pc[g] /\ event'[g] = event[g]
           /\ \A g \in Handlers, f \in Events :
                 WorksOn(g, f)' <=> g # h /\ WorksOn(g, f)
BY NoneAssumption DEF TypeOK, Release, HandlerStep, WorksOn, Working

\* A handler that goes on keeps its event.
LEMMA GotoEffect ==
    ASSUME TypeOK, NEW h \in Handlers, NEW s \in HandlerStep \ {"idle"}, Goto(h, s),
           pc[h] # "idle"
    PROVE  /\ pc' \in [Handlers -> HandlerStep]
           /\ event' = event /\ gone' = gone
           /\ pc'[h] = s
           /\ \A g \in Handlers : g # h => pc'[g] = pc[g]
           /\ \A g \in Handlers : event'[g] = None <=> pc'[g] = "idle"
BY DEF TypeOK, Goto

LEMMA CheckAndMarkSafe ==
    ASSUME Safe, NEW h \in Handlers, CheckAndMark(h)
    PROVE  Safe'
<1> DEFINE e == event[h]
<1>0. TypeOK /\ pc[h] = "received" /\ e \in Events
  BY DEF Safe, TypeOK, CheckAndMark
<1>1. PICK ok \in BOOLEAN, applied \in BOOLEAN :
        /\ CallOutcome("redis", gone[h], ok, applied)
        /\ marked' = IF applied THEN marked \union {e} ELSE marked
        /\ \/ ok /\ e \notin marked /\ Goto(h, "lookup") /\ UNCHANGED answered
           \/ ok /\ e \in marked /\ Answer(h)
           \/ ~ok /\ Release(h) /\ UNCHANGED answered
        /\ Doubt(e, ~ok /\ applied)
  BY DEF CheckAndMark
<1>2. failures' \in Nat /\ (ok => applied)
  BY <1>0, <1>1, FailuresNat DEF TypeOK, CallOutcome
<1>3. checkout' = checkout /\ status' = status /\ journal' = journal
  BY DEF CheckAndMark
<1>4. /\ marked \subseteq marked' /\ marked' \subseteq marked \union {e}
      /\ doubtful \subseteq doubtful' /\ doubtful' \subseteq doubtful \union {e}
      /\ ok => doubtful' = doubtful
      /\ ~ok => marked' = marked \/ e \in doubtful'
  BY <1>1 DEF Doubt
<1> HIDE DEF e
<1>5. CASE ok /\ e \notin marked
  <2>1. Goto(h, "lookup") /\ answered' = answered
    BY <1>1, <1>5
  <2>2. "lookup" \in HandlerStep \ {"idle"}
    BY DEF HandlerStep
  <2>3. /\ pc' \in [Handlers -> HandlerStep]
        /\ event' = event /\ gone' = gone
        /\ pc'[h] = "lookup"
        /\ \A g \in Handlers : g # h => pc'[g] = pc[g]
        /\ \A g \in Handlers : event'[g] = None <=> pc'[g] = "idle"
    BY <1>0, <2>1, <2>2, GotoEffect
  <2>4. TypeOK'
    BY <1>0, <1>2, <1>3, <1>4, <2>1, <2>3 DEF TypeOK
  <2>5. marked' = marked \union {e} /\ doubtful' = doubtful
    BY <1>1, <1>2, <1>4, <1>5
  <2>6. \A g \in Handlers, f \in Events :
           WorksOn(g, f)' <=> WorksOn(g, f) \/ (g = h /\ f = e)
    BY <1>0, <2>3 DEF WorksOn, Working, e
  <2>7. \A g \in Handlers : ~WorksOn(g, e)
    BY <1>5 DEF Safe, Owned, WorksOn
  <2>8. Owned'
    BY <1>0, <1>3, <2>3, <2>5 DEF Safe, Owned, Working, e
  <2>9. journal[e] = 0 \/ e \in doubtful
    BY <1>0, <1>5 DEF Safe, Owned, TypeOK
  <2>10. HandledOnce'
    BY <1>0, <1>3, <2>5, <2>6, <2>7, <2>9 DEF Safe, HandledOnce
  <2>11. MarkStands'
    BY <1>0, <1>3, <2>5, <2>6 DEF Safe, MarkStands, TypeOK
  <2>12. JournalBacked'
    BY <1>3 DEF Safe, JournalBacked
  <2> QED
    BY <2>4, <2>8, <2>10, <2>11, <2>12 DEF Safe
<1>6. CASE ~(ok /\ e \notin marked)
  <2>1. Release(h) /\ answered' \subseteq answered \union {e}
    BY <1>1, <1>6 DEF Answer, e
  <2>2. /\ pc' \in [Handlers -> HandlerStep]
        /\ event' \in [Handlers -> Events \union {None}]
        /\ gone' \in [Handlers -> BOOLEAN]
        /\ \A g \in Handlers : event'[g] = None <=> pc'[g] = "idle"
        /\ \A g \in Handlers : pc'[g] # "idle" =>
              g # h /\ pc'[g] = pc[g] /\ event'[g] = event[g]
        /\ \A g \in Handlers, f \in Events :
              WorksOn(g, f)' <=> g # h /\ WorksOn(g, f)
    BY <1>0, <2>1, ReleaseEffect
  <2>3. TypeOK'
    BY <1>0, <1>2, <1>3, <1>4, <2>1, <2>2 DEF TypeOK
  <2>4. \A g \in Handlers, f \in Events : WorksOn(g, f)' <=> WorksOn(g, f)
    BY <1>0, <2>2 DEF WorksOn, Working
  <2>5. Owned'
    BY <1>3, <1>4, <2>2 DEF Safe, Owned, Working
  <2>6. HandledOnce'
    BY <1>3, <1>4, <2>4 DEF Safe, HandledOnce
  <2>7. marked' = marked \/ e \in doubtful'
    BY <1>4, <1>6
  <2>8. MarkStands'
    BY <1>0, <1>3, <1>4, <2>4, <2>7 DEF Safe, MarkStands, TypeOK
  <2>9. JournalBacked'
    BY <1>3 DEF Safe, JournalBacked
  <2> QED
    BY <2>3, <2>5, <2>6, <2>8, <2>9 DEF Safe
<1> QED
  BY <1>5, <1>6

LEMMA LookupSafe ==
    ASSUME Safe, NEW h \in Handlers, Lookup(h)
    PROVE  Safe'
<1>0. TypeOK /\ pc[h] = "lookup" /\ event[h] \in Events
  BY DEF Safe, TypeOK, Lookup
<1>1. PICK s \in {"update", "clear"} :
        /\ Goto(h, s)
        /\ s = "update" => status # "none" /\ event[h] \notin Mismatched
  BY DEF Lookup
<1>2. failures' \in Nat
  BY <1>0, FailuresNat DEF TypeOK, Lookup
<1>3. UNCHANGED <<checkout, status, journal, marked, answered, doubtful>>
  BY DEF Lookup, stores
<1>4. s \in HandlerStep \ {"idle"}
  BY <1>1 DEF HandlerStep
<1>5. /\ pc' \in [Handlers -> HandlerStep]
      /\ event' = event /\ gone' = gone
      /\ pc'[h] = s
      /\ \A g \in Handlers : g # h => pc'[g] = pc[g]
      /\ \A g \in Handlers : event'[g] = None <=> pc'[g] = "idle"
  BY <1>0, <1>1, <1>4, GotoEffect
<1>6. TypeOK'
  BY <1>0, <1>2, <1>3, <1>5 DEF TypeOK
<1>7. \A g \in Handlers, f \in Events : WorksOn(g, f)' <=> WorksOn(g, f)
  BY <1>0, <1>1, <1>5 DEF WorksOn, Working
<1>8. Owned'
  BY <1>0, <1>1, <1>3, <1>5 DEF Safe, Owned, Working
<1> QED
  BY <1>3, <1>6, <1>7, <1>8 DEF Safe, TypeOK, HandledOnce, JournalBacked, MarkStands

LEMMA UpdateStatusSafe ==
    ASSUME Safe, NEW h \in Handlers, UpdateStatus(h)
    PROVE  Safe'
<1>0. /\ TypeOK /\ pc[h] = "update" /\ event[h] \in Events
      /\ event[h] \notin Mismatched /\ status # "none" /\ event[h] \in marked
  BY DEF Safe, TypeOK, Owned, Working, UpdateStatus
<1>1. PICK s \in {"append", "clear"} :
        /\ Goto(h, s)
        /\ status' \in {status, Outcome(event[h])}
        /\ s = "append" => status' = Outcome(event[h])
  BY DEF UpdateStatus, CallOutcome
<1>2. failures' \in Nat
  BY <1>0, FailuresNat DEF TypeOK, UpdateStatus
<1>3. UNCHANGED <<checkout, journal, marked, answered, doubtful>>
  BY DEF UpdateStatus
<1>4. s \in HandlerStep \ {"idle"}
  BY <1>1 DEF HandlerStep
<1>5. /\ pc' \in [Handlers -> HandlerStep]
      /\ event' = event /\ gone' = gone
      /\ pc'[h] = s
      /\ \A g \in Handlers : g # h => pc'[g] = pc[g]
      /\ \A g \in Handlers : event'[g] = None <=> pc'[g] = "idle"
  BY <1>0, <1>1, <1>4, GotoEffect
<1>6. Outcome(event[h]) \in {"paid", "failed"}
  BY DEF Outcome
<1>7. TypeOK'
  BY <1>0, <1>1, <1>2, <1>3, <1>5, <1>6 DEF TypeOK, Status
<1>8. \A g \in Handlers, f \in Events : WorksOn(g, f)' <=> WorksOn(g, f)
  BY <1>0, <1>1, <1>5 DEF WorksOn, Working
<1>9. Owned'
  BY <1>0, <1>1, <1>3, <1>5, <1>6 DEF Safe, Owned, Working
<1>10. JournalBacked'
  BY <1>0, <1>1, <1>3, <1>6 DEF Safe, JournalBacked
<1> QED
  BY <1>3, <1>7, <1>8, <1>9, <1>10 DEF Safe, TypeOK, HandledOnce, MarkStands

LEMMA AppendEventSafe ==
    ASSUME Safe, NEW h \in Handlers, AppendEvent(h)
    PROVE  Safe'
<1>e. PICK e \in Events : e = event[h]
  BY DEF Safe, TypeOK, AppendEvent, HandlerStep
<1>0. /\ TypeOK /\ pc[h] = "append" /\ e \in Events
      /\ e \notin Mismatched /\ status \in {"paid", "failed"} /\ e \in marked
      /\ WorksOn(h, e)
  BY <1>e DEF Safe, TypeOK, Owned, Working, AppendEvent, WorksOn
<1>1. PICK ok \in BOOLEAN, applied \in BOOLEAN :
        /\ CallOutcome("db", gone[h], ok, applied)
        /\ journal' = IF applied THEN [journal EXCEPT ![e] = @ + 1] ELSE journal
        /\ IF ok THEN Answer(h) ELSE Goto(h, "clear") /\ UNCHANGED answered
        /\ Doubt(e, ~ok /\ applied)
  BY <1>e DEF AppendEvent
<1>2. failures' \in Nat /\ (ok => applied)
  BY <1>0, <1>1, FailuresNat DEF TypeOK, CallOutcome
<1>3. UNCHANGED <<checkout, status, marked>>
  BY DEF AppendEvent
<1>4. /\ journal' \in [Events -> Nat]
      /\ \A f \in Events : f # e => journal'[f] = journal[f]
      /\ journal'[e] \in {journal[e], journal[e] + 1}
      /\ ~applied => journal' = journal
      /\ applied => journal'[e] = journal[e] + 1
  BY <1>0, <1>1 DEF TypeOK
<1>5. /\ doubtful \subseteq doubtful' /\ doubtful' \subseteq doubtful \union {e}
      /\ ~ok /\ applied => e \in doubtful'
  BY <1>1 DEF Doubt
<1>6. journal[e] = 0 \/ e \in doubtful
  BY <1>0 DEF Safe, HandledOnce, TypeOK
<1>7. JournalBacked'
  BY <1>0, <1>3, <1>4 DEF Safe, JournalBacked
<1>8. CASE ok
  <2>1. Release(h) /\ answered' \subseteq answered \union {e}
    BY <1>1, <1>8, <1>e DEF Answer
  <2>2. /\ pc' \in [Handlers -> HandlerStep]
        /\ event' \in [Handlers -> Events \union {None}]
        /\ gone' \in [Handlers -> BOOLEAN]
        /\ \A g \in Handlers : event'[g] = None <=> pc'[g] = "idle"
        /\ \A g \in Handlers : pc'[g] # "idle" =>
              g # h /\ pc'[g] = pc[g] /\ event'[g] = event[g]
        /\ \A g \in Handlers, f \in Events :
              WorksOn(g, f)' <=> g # h /\ WorksOn(g, f)
    BY <1>0, <2>1, ReleaseEffect
  <2>3. TypeOK'
    BY <1>0, <1>2, <1>3, <1>4, <1>5, <2>1, <2>2 DEF TypeOK
  <2>4. Owned'
    BY <1>0, <1>3, <1>4, <1>5, <2>2 DEF Safe, Owned, Working
  <2>5. journal'[e] = journal[e] + 1 /\ journal[e] \in Nat
    BY <1>0, <1>2, <1>4, <1>8 DEF TypeOK
  <2>6. \A g \in Handlers : ~WorksOn(g, e)'
    BY <1>0, <2>2 DEF Safe, HandledOnce
  <2>7. HandledOnce'
    <3> SUFFICES ASSUME NEW f \in Events
                 PROVE  /\ \A g, k \in Handlers :
                              WorksOn(g, f)' /\ WorksOn(k, f)' => g = k
                        /\ f \notin doubtful' => journal'[f] <= 1
                        /\ journal'[f] > 0 /\ f \notin doubtful' =>
                              \A g \in Handlers : ~WorksOn(g, f)'
      BY DEF HandledOnce
    <3>1. \A g, k \in Handlers : WorksOn(g, f)' /\ WorksOn(k, f)' => g = k
      BY <2>2 DEF Safe, HandledOnce
    <3>2. CASE f = e
      BY <1>5, <1>6, <2>5, <2>6, <3>1, <3>2
    <3>3. CASE f # e
      <4>1. journal'[f] = journal[f] /\ (f \notin doubtful' => f \notin doubtful)
        BY <1>4, <1>5, <3>3
      <4> QED
        BY <2>2, <3>1, <4>1 DEF Safe, HandledOnce
    <3> QED
      BY <3>2, <3>3
  <2>8. MarkStands'
    <3> SUFFICES ASSUME NEW f \in marked, f # e
                 PROVE  \/ journal'[f] > 0
                        \/ \E g \in Handlers : WorksOn(g, f)'
                        \/ f \in doubtful'
      BY <1>3, <2>5 DEF MarkStands
    <3>1. f \in Events /\ journal'[f] = journal[f]
      BY <1>0, <1>4 DEF TypeOK
    <3>2. \A g \in Handlers : WorksOn(g, f) => WorksOn(g, f)'
      BY <1>0, <2>2, <3>1 DEF WorksOn
    <3> QED
      BY <1>5, <3>1, <3>2 DEF Safe, MarkStands
  <2> QED
    BY <1>7, <2>3, <2>4, <2>7, <2>8 DEF Safe
<1>9. CASE ~ok
  <2>1. Goto(h, "clear") /\ answered' = answered
    BY <1>1, <1>9
  <2>2. "clear" \in HandlerStep \ {"idle"}
    BY DEF HandlerStep
  <2>3. /\ pc' \in [Handlers -> HandlerStep]
        /\ event' = event /\ gone' = gone
        /\ pc'[h] = "clear"
        /\ \A g \in Handlers : g # h => pc'[g] = pc[g]
        /\ \A g \in Handlers : event'[g] = None <=> pc'[g] = "idle"
    BY <1>0, <2>1, <2>2, GotoEffect
  <2>4. TypeOK'
    BY <1>0, <1>2, <1>3, <1>4, <1>5, <2>1, <2>3 DEF TypeOK
  <2>5. \A g \in Handlers, f \in Events : WorksOn(g, f)' <=> WorksOn(g, f)
    BY <1>0, <2>3 DEF WorksOn, Working
  <2>6. journal' = journal \/ e \in doubtful'
    BY <1>4, <1>5, <1>9
  <2>7. Owned'
    BY <1>0, <1>3, <1>4, <1>5, <2>3, <2>6 DEF Safe, Owned, Working
  <2>8. HandledOnce'
    BY <1>0, <1>4, <1>5, <2>5, <2>6 DEF Safe, HandledOnce
  <2>9. \A f \in Events : journal[f] > 0 => journal'[f] > 0
    BY <1>0, <1>4 DEF TypeOK
  <2>10. MarkStands'
    BY <1>0, <1>3, <1>5, <2>5, <2>9 DEF Safe, MarkStands, TypeOK
  <2> QED
    BY <1>7, <2>4, <2>7, <2>8, <2>10 DEF Safe
<1> QED
  BY <1>8, <1>9

LEMMA ClearSafe ==
    ASSUME Safe, NEW h \in Handlers, Clear(h)
    PROVE  Safe'
<1>e. PICK e \in Events : e = event[h]
  BY DEF Safe, TypeOK, Clear, HandlerStep
<1>0. TypeOK /\ pc[h] = "clear" /\ e \in Events /\ WorksOn(h, e)
  BY <1>e DEF Safe, TypeOK, Clear, WorksOn, Working
<1>1. PICK ok \in BOOLEAN, applied \in BOOLEAN :
        /\ CallOutcome("redis", gone[h], ok, applied)
        /\ marked' = IF applied THEN marked \ {e} ELSE marked
        /\ Doubt(e, ~applied)
  BY <1>e DEF Clear
<1>2. failures' \in Nat
  BY <1>0, <1>1, FailuresNat DEF TypeOK
<1>3. UNCHANGED <<checkout, status, journal, answered>>
  BY DEF Clear
<1>4. /\ marked' \subseteq marked /\ marked \ {e} \subseteq marked'
      /\ doubtful \subseteq doubtful' /\ doubtful' \subseteq doubtful \union {e}
      /\ e \notin marked' \/ e \in doubtful'
  BY <1>1 DEF Doubt
<1>5. /\ pc' \in [Handlers -> HandlerStep]
      /\ event' \in [Handlers -> Events \union {None}]
      /\ gone' \in [Handlers -> BOOLEAN]
      /\ \A g \in Handlers : event'[g] = None <=> pc'[g] = "idle"
      /\ \A g \in Handlers : pc'[g] # "idle" =>
            g # h /\ pc'[g] = pc[g] /\ event'[g] = event[g]
      /\ \A g \in Handlers, f \in Events :
            WorksOn(g, f)' <=> g # h /\ WorksOn(g, f)
  BY <1>0, ReleaseEffect DEF Clear
<1>6. TypeOK'
  BY <1>0, <1>2, <1>3, <1>4, <1>5 DEF TypeOK
<1>7. \A g \in Handlers : ~WorksOn(g, e)'
  BY <1>0, <1>5 DEF Safe, HandledOnce
<1>8. journal[e] = 0 \/ e \in doubtful
  BY <1>0 DEF Safe, HandledOnce, TypeOK
<1>9. Owned'
  <2>1. \A g \in Handlers : pc'[g] \in Working => event'[g] \in marked'
    <3> SUFFICES ASSUME NEW g \in Handlers, pc'[g] \in Working
                 PROVE  event'[g] \in marked'
      OBVIOUS
    <3>1. g # h /\ pc'[g] = pc[g] /\ event'[g] = event[g] /\ event[g] \in marked
      BY <1>5 DEF Safe, Owned, Working
    <3>2. event[g] # e
      BY <1>0, <1>7, <3>1 DEF WorksOn
    <3> QED
      BY <1>4, <3>1, <3>2
  <2>2. \A f \in Events : journal'[f] > 0 /\ f \notin doubtful' => f \in marked'
    BY <1>0, <1>3, <1>4, <1>8 DEF Safe, Owned
  <2>3. \A g \in Handlers :
           pc'[g] \in {"update", "append"} =>
              pc'[g] = pc[g] /\ event'[g] = event[g]
    BY <1>5
  <2> QED
    BY <1>3, <2>1, <2>2, <2>3 DEF Safe, Owned
<1>10. HandledOnce'
  BY <1>3, <1>4, <1>5 DEF Safe, HandledOnce
<1>11. MarkStands'
  <2> SUFFICES ASSUME NEW f \in marked', f \notin doubtful'
               PROVE  journal'[f] > 0 \/ \E g \in Handlers : WorksOn(g, f)'
    BY DEF MarkStands
  <2>1. f # e /\ f \in marked /\ f \in Events /\ f \notin doubtful
    BY <1>0, <1>4 DEF TypeOK
  <2>2. \A g \in Handlers : WorksOn(g, f) => WorksOn(g, f)'
    BY <1>0, <1>5, <2>1 DEF WorksOn
  <2> QED
    BY <1>3, <2>1, <2>2 DEF Safe, MarkStands
<1>12. JournalBacked'
  BY <1>3 DEF Safe, JournalBacked
<1> QED
  BY <1>6, <1>9, <1>10, <1>11, <1>12 DEF Safe

LEMMA DisconnectSafe ==
    ASSUME Safe, NEW h \in Handlers, Disconnect(h)
    PROVE  Safe'
<1> USE DEF Disconnect, stores, Spend
<1>1. TypeOK'
  BY DEF Safe, TypeOK
<1>2. \A g \in Handlers, f \in Events : WorksOn(g, f)' <=> WorksOn(g, f)
  BY DEF WorksOn
<1>3. Owned'
  BY DEF Safe, Owned
<1> QED
  BY <1>1, <1>2, <1>3 DEF Safe, TypeOK, HandledOnce, JournalBacked, MarkStands

LEMMA CrashSafe ==
    ASSUME Safe, NEW h \in Handlers, Crash(h)
    PROVE  Safe'
<1> DEFINE e == event[h]
<1>0. TypeOK /\ pc[h] # "idle" /\ e \in Events
  BY DEF Safe, TypeOK, Crash
<1>1. failures' \in Nat
  BY <1>0 DEF Crash, Spend, TypeOK
<1>2. UNCHANGED <<checkout, status, journal, marked, answered>>
  BY DEF Crash, stores
<1>3. /\ doubtful \subseteq doubtful' /\ doubtful' \subseteq doubtful \union {e}
      /\ pc[h] \in Working => e \in doubtful'
  BY DEF Crash, Doubt
<1>4. /\ pc' \in [Handlers -> HandlerStep]
      /\ event' \in [Handlers -> Events \union {None}]
      /\ gone' \in [Handlers -> BOOLEAN]
      /\ \A g \in Handlers : event'[g] = None <=> pc'[g] = "idle"
      /\ \A g \in Handlers : pc'[g] # "idle" =>
            g # h /\ pc'[g] = pc[g] /\ event'[g] = event[g]
      /\ \A g \in Handlers, f \in Events :
            WorksOn(g, f)' <=> g # h /\ WorksOn(g, f)
  BY <1>0, ReleaseEffect DEF Crash
<1>5. TypeOK'
  BY <1>0, <1>1, <1>2, <1>3, <1>4 DEF TypeOK
<1>6. Owned'
  BY <1>2, <1>3, <1>4 DEF Safe, Owned, Working
<1>7. HandledOnce'
  BY <1>2, <1>3, <1>4 DEF Safe, HandledOnce
<1>8. MarkStands'
  <2> SUFFICES ASSUME NEW f \in marked, f \notin doubtful'
               PROVE  journal'[f] > 0 \/ \E g \in Handlers : WorksOn(g, f)'
    BY <1>2 DEF MarkStands
  <2>1. f \in Events /\ f \notin doubtful
    BY <1>0, <1>3 DEF TypeOK
  <2>2. ~WorksOn(h, f)
    BY <1>3 DEF WorksOn
  <2>3. \A g \in Handlers : WorksOn(g, f) => WorksOn(g, f)'
    BY <1>4, <2>1, <2>2
  <2> QED
    BY <1>2, <2>1, <2>3 DEF Safe, MarkStands
<1>9. JournalBacked'
  BY <1>2 DEF Safe, JournalBacked
<1> QED
  BY <1>5, <1>6, <1>7, <1>8, <1>9 DEF Safe

LEMMA NextSafe == Safe /\ [Next]_vars => Safe'
<1> SUFFICES ASSUME Safe, [Next]_vars PROVE Safe'
  OBVIOUS
<1>1. CASE OpenSession
  BY <1>1, OpenSessionSafe
<1>2. CASE CreateIntent
  BY <1>2, CreateIntentSafe
<1>3. ASSUME NEW h \in Handlers, NEW e \in Events, Deliver(h, e) PROVE Safe'
  BY <1>3, DeliverSafe
<1>4. ASSUME NEW h \in Handlers, HandlerWork(h) \/ Disconnect(h) \/ Crash(h)
      PROVE  Safe'
  BY <1>4, CheckAndMarkSafe, LookupSafe, UpdateStatusSafe, AppendEventSafe,
     ClearSafe, DisconnectSafe, CrashSafe DEF HandlerWork
<1>5. CASE UNCHANGED vars
  BY <1>5 DEF vars, stores, handlerVars, Safe, TypeOK, Owned, HandledOnce,
     JournalBacked, MarkStands, WorksOn
<1> QED
  BY <1>1, <1>2, <1>3, <1>4, <1>5 DEF Next

\* The conjunction of the safety properties is an invariant of the specification.
THEOREM SafeHolds == Spec => []Safe
BY InitSafe, NextSafe, PTL DEF Spec

\* For any events, handlers and faults an event is never handled by two
\* deliveries at once, and never journalled again unless a handler left it in doubt.
THEOREM HandledOnceHolds == Spec => []HandledOnce
BY SafeHolds, PTL DEF Safe

\* The journal and the intent agree, whatever order the events arrive in and
\* wherever their handling is cut off.
THEOREM JournalBackedHolds == Spec => []JournalBacked
BY SafeHolds, PTL DEF Safe

\* A failed delivery leaves no mark behind, unless its Clear failed as well or
\* the handler died: the event can be delivered again.
THEOREM MarkStandsHolds == Spec => []MarkStands
BY SafeHolds, PTL DEF Safe

\* The variables are well typed in every reachable state, and a handler has an
\* event exactly while it is busy.
THEOREM PaymentsTypeCorrect == Spec => []TypeOK
<1>1. Safe => TypeOK
  BY DEF Safe
<1> QED
  BY <1>1, SafeHolds, PTL

\* For any events, handlers and faults mark, intent and journal agree
\* (stripe_webhook.go, service.go: applyVerifiedEvent).
THEOREM PaymentsAreSafeHolds == Spec => []PaymentsAreSafe
BY PaymentsTypeCorrect, HandledOnceHolds, JournalBackedHolds, MarkStandsHolds, PTL DEF PaymentsAreSafe

-----------------------------------------------------------------------------
(* Delivery of outgoing webhooks.                                           *)

\* How the two counters of an event are tied to the calls of Send: the job has
\* counted every call but the one in progress, and the row none that was not made.
CountersOK(e) ==
    /\ at[e] # "over" => jobAttempts[e] < MaxAttempts
    /\ sent[e] <= MaxAttempts
    /\ at[e] \in {"refused", "sent", "error"} => sent[e] <= jobAttempts[e] + 1
    /\ at[e] \notin {"refused", "sent", "error", "over"} => sent[e] <= jobAttempts[e]
    /\ at[e] \in {"endpoint", "send"} => read[e] <= sent[e]
    /\ at[e] = "refused" => read[e] + 1 <= sent[e]
    /\ rowAttempts[e] <= sent[e]

\* What the row says is so, and after its last word no step of the worker
\* can write it again.
OutcomeOK(e) ==
    /\ at[e] = "sent" => accepted[e] > 0
    /\ row[e] = "delivered" => accepted[e] > 0
    /\ row[e] = "dlq" => sent[e] = MaxAttempts /\ at[e] \in {"error", "over"}
    /\ e \notin uncertain =>
          /\ row[e] = "delivered" => at[e] = "over"
          /\ accepted[e] <= 1
          /\ accepted[e] = 1 => at[e] \in {"sent", "over"}

EventOK(e) == CountersOK(e) /\ OutcomeOK(e)

\* The inductive invariant.
Sound == DeliveryTypeOK /\ \A e \in Outgoing : EventOK(e)

LEMMA InitSound == DeliveryInit => Sound
BY MaxAttemptsAssumption
   DEF DeliveryInit, Sound, DeliveryTypeOK, RowStatus, Place, EventOK, CountersOK, OutcomeOK

LEMMA SoundImplies == Sound => SendBudget /\ RowIsTrue /\ AcceptedOnce
BY DEF Sound, EventOK, CountersOK, OutcomeOK, SendBudget, RowIsTrue, AcceptedOnce

\* A step that leaves everything of an event alone, but for the doubts about
\* others, leaves it sound.
LEMMA OthersOK ==
    ASSUME NEW f \in Outgoing, EventOK(f),
           row'[f] = row[f], rowAttempts'[f] = rowAttempts[f], at'[f] = at[f],
           jobAttempts'[f] = jobAttempts[f], read'[f] = read[f], sent'[f] = sent[f],
           accepted'[f] = accepted[f], f \in uncertain' <=> f \in uncertain
    PROVE  EventOK(f)'
BY DEF EventOK, CountersOK, OutcomeOK

LEMMA DoubtEffect ==
    ASSUME NEW e \in Outgoing, NEW lost, DoubtDelivery(e, lost), uncertain \subseteq Outgoing
    PROVE  /\ uncertain' \subseteq Outgoing
           /\ \A f \in Outgoing : f # e => (f \in uncertain' <=> f \in uncertain)
           /\ e \in uncertain => e \in uncertain'
           /\ lost => e \in uncertain'
BY DEF DoubtDelivery

LEMMA CreateDeliverySound ==
    ASSUME Sound, NEW e \in Outgoing, CreateDelivery(e)
    PROVE  Sound'
<1> USE DEF CreateDelivery, receiverVars, MoveTo
<1>1. DeliveryTypeOK'
  BY DEF Sound, DeliveryTypeOK, RowStatus, Place
<1>2. EventOK(e)'
  BY DEF Sound, DeliveryTypeOK, EventOK, CountersOK, OutcomeOK
<1>3. \A f \in Outgoing : f # e => EventOK(f)'
  BY OthersOK DEF Sound, DeliveryTypeOK
<1> QED
  BY <1>1, <1>2, <1>3 DEF Sound

LEMMA EnqueueSound ==
    ASSUME Sound, NEW e \in Outgoing, Enqueue(e)
    PROVE  Sound'
<1>1. PICK applied \in BOOLEAN :
        MoveTo(e, IF applied THEN "queued" ELSE "over") /\ DoubtDelivery(e, ~applied)
  BY DEF Enqueue
<1> USE DEF Enqueue, rowVars, receiverVars, MoveTo
<1>2. DeliveryTypeOK'
  BY <1>1, DoubtEffect DEF Sound, DeliveryTypeOK, Place
<1>3. EventOK(e)'
  BY <1>1, DoubtEffect DEF Sound, DeliveryTypeOK, EventOK, CountersOK, OutcomeOK
<1>4. \A f \in Outgoing : f # e => EventOK(f)'
  BY <1>1, DoubtEffect, OthersOK DEF Sound, DeliveryTypeOK
<1> QED
  BY <1>2, <1>3, <1>4 DEF Sound

\* The process that holds the job, of the API or of a worker, dies.
LEMMA CrashSound ==
    ASSUME Sound, NEW e \in Outgoing, ApiCrash(e) \/ WorkerCrash(e)
    PROVE  Sound'
<1> USE DEF ApiCrash, WorkerCrash, rowVars, receiverVars, MoveTo
<1>1. DoubtDelivery(e, TRUE)
  OBVIOUS
<1>2. DeliveryTypeOK'
  BY <1>1, DoubtEffect DEF Sound, DeliveryTypeOK, Place
<1>3. EventOK(e)'
  BY <1>1, DoubtEffect DEF Sound, DeliveryTypeOK, EventOK, CountersOK, OutcomeOK
<1>4. \A f \in Outgoing : f # e => EventOK(f)'
  BY <1>1, DoubtEffect, OthersOK DEF Sound, DeliveryTypeOK
<1> QED
  BY <1>2, <1>3, <1>4 DEF Sound

LEMMA DeleteEndpointSound ==
    ASSUME Sound, DeleteEndpoint
    PROVE  Sound'
<1> USE DEF DeleteEndpoint, receiverVars
<1>1. DeliveryTypeOK'
  BY DEF Sound, DeliveryTypeOK, RowStatus
<1>2. \A f \in Outgoing : EventOK(f)'
  BY DEF Sound, EventOK, CountersOK, OutcomeOK
<1> QED
  BY <1>1, <1>2 DEF Sound

LEMMA DequeueSound ==
    ASSUME Sound, NEW e \in Outgoing, Dequeue(e)
    PROVE  Sound'
<1> USE DEF Dequeue, rowVars, receiverVars, MoveTo
<1>1. DeliveryTypeOK'
  BY DEF Sound, DeliveryTypeOK, Place
<1>2. EventOK(e)'
  BY DEF Sound, DeliveryTypeOK, EventOK, CountersOK, OutcomeOK
<1>3. \A f \in Outgoing : f # e => EventOK(f)'
  BY OthersOK DEF Sound, DeliveryTypeOK
<1> QED
  BY <1>1, <1>2, <1>3 DEF Sound

LEMMA GetDeliverySound ==
    ASSUME Sound, NEW e \in Outgoing, GetDelivery(e)
    PROVE  Sound'
<1>1. PICK ok \in BOOLEAN, found \in BOOLEAN :
        /\ MoveTo(e, IF found THEN "endpoint" ELSE "error")
        /\ read' = [read EXCEPT ![e] = IF found THEN rowAttempts[e] ELSE @]
        /\ DoubtDelivery(e, ~ok)
  <2>1. PICK ok \in BOOLEAN :
          /\ MoveTo(e, IF ok /\ row[e] # "none" THEN "endpoint" ELSE "error")
          /\ read' = [read EXCEPT ![e] = IF ok /\ row[e] # "none" THEN rowAttempts[e] ELSE @]
          /\ DoubtDelivery(e, ~ok)
    BY DEF GetDelivery
  <2>2. (ok /\ row[e] # "none") \in BOOLEAN
    OBVIOUS
  <2> QED
    BY <2>1, <2>2
<1> USE DEF GetDelivery, rowVars, receiverVars, MoveTo
<1>2. DeliveryTypeOK'
  BY <1>1, DoubtEffect DEF Sound, DeliveryTypeOK, Place
<1>3. EventOK(e)'
  BY <1>1, DoubtEffect DEF Sound, DeliveryTypeOK, EventOK, CountersOK, OutcomeOK
<1>4. \A f \in Outgoing : f # e => EventOK(f)'
  BY <1>1, DoubtEffect, OthersOK DEF Sound, DeliveryTypeOK
<1> QED
  BY <1>2, <1>3, <1>4 DEF Sound

LEMMA GetEndpointSound ==
    ASSUME Sound, NEW e \in Outgoing, GetEndpoint(e)
    PROVE  Sound'
<1>1. PICK ok \in BOOLEAN :
        MoveTo(e, IF ok /\ endpoint THEN "send" ELSE "error") /\ DoubtDelivery(e, ~ok)
  BY DEF GetEndpoint
<1> USE DEF GetEndpoint, rowVars, receiverVars, MoveTo
<1>2. DeliveryTypeOK'
  BY <1>1, DoubtEffect DEF Sound, DeliveryTypeOK, Place
<1>3. EventOK(e)'
  BY <1>1, DoubtEffect DEF Sound, DeliveryTypeOK, EventOK, CountersOK, OutcomeOK
<1>4. \A f \in Outgoing : f # e => EventOK(f)'
  BY <1>1, DoubtEffect, OthersOK DEF Sound, DeliveryTypeOK
<1> QED
  BY <1>2, <1>3, <1>4 DEF Sound

LEMMA SendSound ==
    ASSUME Sound, NEW e \in Outgoing, Send(e)
    PROVE  Sound'
<1>1. PICK ok \in BOOLEAN, applied \in BOOLEAN :
        /\ ok => applied
        /\ accepted' = [accepted EXCEPT ![e] = IF applied THEN @ + 1 ELSE @]
        /\ MoveTo(e, IF ok THEN "sent" ELSE "refused")
        /\ DoubtDelivery(e, ~ok /\ (applied \/ stopping[e]))
  BY DEF Send, DeliveryOutcome
<1>2. ~ok /\ applied => e \in uncertain'
  BY <1>1 DEF DoubtDelivery
<1>3. /\ uncertain' \subseteq Outgoing
      /\ \A f \in Outgoing : f # e => (f \in uncertain' <=> f \in uncertain)
      /\ e \in uncertain => e \in uncertain'
  BY <1>1, DoubtEffect DEF Sound, DeliveryTypeOK
<1> USE DEF Send, rowVars, MoveTo
<1>4. DeliveryTypeOK'
  BY <1>1, <1>3 DEF Sound, DeliveryTypeOK, Place
<1>5. EventOK(e)'
  <2>0. /\ EventOK(e) /\ at[e] = "send" /\ at'[e] = IF ok THEN "sent" ELSE "refused"
        /\ sent'[e] = sent[e] + 1 /\ sent[e] \in Nat
        /\ accepted'[e] = IF applied THEN accepted[e] + 1 ELSE accepted[e]
        /\ accepted[e] \in Nat /\ jobAttempts[e] \in 0..MaxAttempts
        /\ read[e] \in Nat /\ rowAttempts[e] \in Nat
        /\ UNCHANGED <<row[e], rowAttempts[e], jobAttempts[e], read[e]>>
    BY <1>1 DEF Sound, DeliveryTypeOK
  <2>1. CountersOK(e)'
    BY <2>0, MaxAttemptsAssumption DEF EventOK, CountersOK
  <2>2. OutcomeOK(e)'
    BY <1>1, <1>2, <1>3, <2>0 DEF EventOK, OutcomeOK
  <2> QED
    BY <2>1, <2>2 DEF EventOK
<1>6. \A f \in Outgoing : f # e => EventOK(f)'
  BY <1>1, <1>3, OthersOK DEF Sound, DeliveryTypeOK
<1> QED
  BY <1>4, <1>5, <1>6 DEF Sound

LEMMA MarkFailedSound ==
    ASSUME Sound, NEW e \in Outgoing, MarkFailed(e)
    PROVE  Sound'
<1> DEFINE s == IF read[e] + 1 >= MaxAttempts THEN "dlq" ELSE "failed"
<1>1. PICK ok \in BOOLEAN, applied \in BOOLEAN :
        UpdateRow(e, applied, s, read[e] + 1) /\ DoubtDelivery(e, ~ok)
  BY DEF MarkFailed
<1>2. /\ uncertain' \subseteq Outgoing
      /\ \A f \in Outgoing : f # e => (f \in uncertain' <=> f \in uncertain)
      /\ e \in uncertain => e \in uncertain'
  BY <1>1, DoubtEffect DEF Sound, DeliveryTypeOK
<1>3. /\ endpoint' = endpoint
      /\ row' \in [Outgoing -> RowStatus] /\ rowAttempts' \in [Outgoing -> Nat]
      /\ \A f \in Outgoing : f # e => row'[f] = row[f] /\ rowAttempts'[f] = rowAttempts[f]
      /\ \/ row'[e] = row[e] /\ rowAttempts'[e] = rowAttempts[e]
         \/ row'[e] = s /\ rowAttempts'[e] = read[e] + 1
  BY <1>1 DEF UpdateRow, Sound, DeliveryTypeOK, RowStatus
<1> USE DEF MarkFailed, receiverVars, MoveTo
<1>4. DeliveryTypeOK'
  BY <1>2, <1>3 DEF Sound, DeliveryTypeOK, Place
<1>5. EventOK(e)'
  <2>0. /\ EventOK(e) /\ at[e] = "refused" /\ at'[e] = "error"
        /\ sent[e] \in Nat /\ accepted[e] \in Nat /\ jobAttempts[e] \in 0..MaxAttempts
        /\ read[e] \in Nat /\ rowAttempts[e] \in Nat
        /\ UNCHANGED <<sent[e], accepted[e], jobAttempts[e], read[e]>>
    BY DEF Sound, DeliveryTypeOK
  <2>1. CountersOK(e)'
    BY <1>3, <2>0, MaxAttemptsAssumption DEF EventOK, CountersOK
  <2>2. s = "dlq" => sent[e] = MaxAttempts
    BY <2>0, MaxAttemptsAssumption DEF EventOK, CountersOK
  <2>3. OutcomeOK(e)'
    BY <1>2, <1>3, <2>0, <2>2 DEF EventOK, OutcomeOK
  <2> QED
    BY <2>1, <2>3 DEF EventOK
<1>6. \A f \in Outgoing : f # e => EventOK(f)'
  BY <1>2, <1>3, OthersOK DEF Sound, DeliveryTypeOK
<1> QED
  BY <1>4, <1>5, <1>6 DEF Sound

LEMMA MarkDeliveredSound ==
    ASSUME Sound, NEW e \in Outgoing, MarkDelivered(e)
    PROVE  Sound'
<1>1. PICK ok \in BOOLEAN, applied \in BOOLEAN :
        /\ UpdateRow(e, applied, "delivered", 0)
        /\ MoveTo(e, IF ok THEN "over" ELSE "error")
        /\ DoubtDelivery(e, ~ok)
  BY DEF MarkDelivered
<1>2. /\ uncertain' \subseteq Outgoing
      /\ \A f \in Outgoing : f # e => (f \in uncertain' <=> f \in uncertain)
      /\ e \in uncertain => e \in uncertain'
      /\ ~ok => e \in uncertain'
  BY <1>1, DoubtEffect DEF Sound, DeliveryTypeOK
<1>3. /\ endpoint' = endpoint
      /\ row' \in [Outgoing -> RowStatus] /\ rowAttempts' \in [Outgoing -> Nat]
      /\ \A f \in Outgoing : f # e => row'[f] = row[f] /\ rowAttempts'[f] = rowAttempts[f]
      /\ \/ row'[e] = row[e] /\ rowAttempts'[e] = rowAttempts[e]
         \/ row'[e] = "delivered" /\ rowAttempts'[e] = 0
  BY <1>1 DEF UpdateRow, Sound, DeliveryTypeOK, RowStatus
<1> USE DEF MarkDelivered, receiverVars, MoveTo
<1>4. DeliveryTypeOK'
  BY <1>1, <1>2, <1>3 DEF Sound, DeliveryTypeOK, Place
<1>5. EventOK(e)'
  <2>0. /\ EventOK(e) /\ at[e] = "sent" /\ at'[e] = IF ok THEN "over" ELSE "error"
        /\ sent[e] \in Nat /\ accepted[e] \in Nat /\ jobAttempts[e] \in 0..MaxAttempts
        /\ UNCHANGED <<sent[e], accepted[e], jobAttempts[e], read[e]>>
    BY <1>1 DEF Sound, DeliveryTypeOK
  <2>1. CountersOK(e)'
    BY <1>3, <2>0 DEF EventOK, CountersOK
  <2>2. OutcomeOK(e)'
    BY <1>2, <1>3, <2>0 DEF EventOK, OutcomeOK
  <2> QED
    BY <2>1, <2>2 DEF EventOK
<1>6. \A f \in Outgoing : f # e => EventOK(f)'
  BY <1>1, <1>2, <1>3, OthersOK DEF Sound, DeliveryTypeOK
<1> QED
  BY <1>4, <1>5, <1>6 DEF Sound

LEMMA CountAttemptSound ==
    ASSUME Sound, NEW e \in Outgoing, CountAttempt(e)
    PROVE  Sound'
<1> USE MaxAttemptsAssumption DEF CountAttempt, rowVars, receiverVars, MoveTo
<1>1. jobAttempts[e] < MaxAttempts /\ jobAttempts[e] \in Nat
  BY DEF Sound, DeliveryTypeOK, EventOK, CountersOK
<1>2. DeliveryTypeOK'
  BY <1>1 DEF Sound, DeliveryTypeOK, Place
<1>3. EventOK(e)'
  BY <1>1 DEF Sound, DeliveryTypeOK, EventOK, CountersOK, OutcomeOK
<1>4. \A f \in Outgoing : f # e => EventOK(f)'
  BY OthersOK DEF Sound, DeliveryTypeOK
<1> QED
  BY <1>2, <1>3, <1>4 DEF Sound

LEMMA RequeueSound ==
    ASSUME Sound, NEW e \in Outgoing, Requeue(e)
    PROVE  Sound'
<1>1. PICK applied \in BOOLEAN :
        MoveTo(e, IF applied THEN "queued" ELSE "over") /\ DoubtDelivery(e, ~applied)
  BY DEF Requeue
<1> USE DEF Requeue, rowVars, receiverVars, MoveTo
<1>2. DeliveryTypeOK'
  BY <1>1, DoubtEffect DEF Sound, DeliveryTypeOK, Place
<1>3. EventOK(e)'
  BY <1>1, DoubtEffect DEF Sound, DeliveryTypeOK, EventOK, CountersOK, OutcomeOK
<1>4. \A f \in Outgoing : f # e => EventOK(f)'
  BY <1>1, DoubtEffect, OthersOK DEF Sound, DeliveryTypeOK
<1> QED
  BY <1>2, <1>3, <1>4 DEF Sound

LEMMA ShutdownSound ==
    ASSUME Sound, NEW e \in Outgoing, Shutdown(e)
    PROVE  Sound'
BY DEF Shutdown, rowVars, receiverVars, Sound, DeliveryTypeOK, EventOK, CountersOK, OutcomeOK

LEMMA NextSound == Sound /\ [DeliveryNext]_deliveryVars => Sound'
<1> SUFFICES ASSUME Sound, [DeliveryNext]_deliveryVars PROVE Sound'
  OBVIOUS
<1>1. ASSUME NEW e \in Outgoing, CreateDelivery(e) \/ ApiCrash(e) \/ Shutdown(e) \/ WorkerCrash(e)
      PROVE  Sound'
  BY <1>1, CreateDeliverySound, CrashSound, ShutdownSound
<1>2. ASSUME NEW e \in Outgoing, Work(e) PROVE Sound'
  BY <1>2, EnqueueSound, DequeueSound, GetDeliverySound, GetEndpointSound, SendSound,
     MarkFailedSound, MarkDeliveredSound, CountAttemptSound, RequeueSound DEF Work
<1>3. CASE DeleteEndpoint
  BY <1>3, DeleteEndpointSound
<1>4. CASE UNCHANGED deliveryVars
  BY <1>4 DEF deliveryVars, rowVars, receiverVars, Sound, DeliveryTypeOK, EventOK, CountersOK, OutcomeOK
<1> QED
  BY <1>1, <1>2, <1>3, <1>4 DEF DeliveryNext

\* The conjunction of counters and outcomes is an invariant.
THEOREM SoundHolds == DeliverySpec => []Sound
BY InitSound, NextSound, PTL DEF DeliverySpec

\* For any MaxAttempts and any faults the receiver is called at most
\* MaxAttempts times for an event.
THEOREM SendBudgetHolds == DeliverySpec => []SendBudget
BY SoundHolds, SoundImplies, PTL

\* A delivered event was accepted by the receiver, and a dead letter was
\* tried MaxAttempts times.
THEOREM RowIsTrueHolds == DeliverySpec => []RowIsTrue
BY SoundHolds, SoundImplies, PTL

\* An accepted event is accepted again only after a lost reply or write.
THEOREM AcceptedOnceHolds == DeliverySpec => []AcceptedOnce
BY SoundHolds, SoundImplies, PTL

\* Only the two writes of the worker change a row that exists, and neither is
\* possible for an event with its last word.
LEMMA StepKeepsOutcome ==
    ASSUME Sound, [DeliveryNext]_deliveryVars
    PROVE  \A e \in Outgoing :
              /\ row[e] = "dlq" => row'[e] \in {"dlq", "none"}
              /\ row[e] = "delivered" /\ e \notin uncertain =>
                    row'[e] \in {"delivered", "none"}
<1> SUFFICES ASSUME NEW e \in Outgoing
             PROVE  \/ row'[e] = row[e] \/ row'[e] = "none"
                    \/ /\ row[e] # "dlq"
                       /\ row[e] = "delivered" => e \in uncertain
  OBVIOUS
<1> USE DEF Sound, DeliveryTypeOK, EventOK, OutcomeOK
<1>1. CASE UNCHANGED deliveryVars
  BY <1>1 DEF deliveryVars, rowVars
<1>2. CASE DeleteEndpoint
  BY <1>2 DEF DeleteEndpoint
<1>3. ASSUME NEW f \in Outgoing, CreateDelivery(f)
      PROVE  \/ row'[e] = row[e] \/ row'[e] = "none"
             \/ row[e] # "dlq" /\ (row[e] = "delivered" => e \in uncertain)
  BY <1>3 DEF CreateDelivery
<1>4. ASSUME NEW f \in Outgoing, MarkFailed(f) \/ MarkDelivered(f)
      PROVE  \/ row'[e] = row[e] \/ row'[e] = "none"
             \/ row[e] # "dlq" /\ (row[e] = "delivered" => e \in uncertain)
  <2>1. at[f] \in {"refused", "sent"}
    BY <1>4 DEF MarkFailed, MarkDelivered
  <2>2. f # e => row'[e] = row[e]
    BY <1>4 DEF MarkFailed, MarkDelivered, UpdateRow
  <2> QED
    BY <2>1, <2>2
<1>5. ASSUME NEW f \in Outgoing,
             \/ Enqueue(f) \/ Dequeue(f) \/ GetDelivery(f) \/ GetEndpoint(f) \/ Send(f)
             \/ CountAttempt(f) \/ Requeue(f) \/ ApiCrash(f) \/ Shutdown(f) \/ WorkerCrash(f)
      PROVE  row' = row
  BY <1>5 DEF Enqueue, Dequeue, GetDelivery, GetEndpoint, Send, CountAttempt, Requeue,
     ApiCrash, Shutdown, WorkerCrash, rowVars
<1> QED
  BY <1>1, <1>2, <1>3, <1>4, <1>5 DEF DeliveryNext, Work

\* No step of the system takes back a dead letter or an undoubted delivery.
THEOREM OutcomeIsFinalHolds == DeliverySpec => OutcomeIsFinal
<1>1. Sound /\ [DeliveryNext]_deliveryVars =>
        [\A e \in Outgoing :
            /\ row[e] = "dlq" => row'[e] \in {"dlq", "none"}
            /\ row[e] = "delivered" /\ e \notin uncertain =>
                  row'[e] \in {"delivered", "none"}]_deliveryVars
  BY StepKeepsOutcome
<1> QED
  BY <1>1, SoundHolds, PTL DEF DeliverySpec, OutcomeIsFinal

\* The variables are well typed in every reachable state, and no job
\* counts more than MaxAttempts attempts.
THEOREM DeliveryTypeCorrect == DeliverySpec => []DeliveryTypeOK
<1>1. Sound => DeliveryTypeOK
  BY DEF Sound
<1> QED
  BY <1>1, SoundHolds, PTL

\* For any events, attempts and faults the receiver is asked within the budget and the
\* row tells the truth (registry.go, integrations/service.go).
THEOREM DeliveryIsSafeHolds == DeliverySpec => []DeliveryIsSafe
BY DeliveryTypeCorrect, SendBudgetHolds, RowIsTrueHolds, AcceptedOnceHolds, PTL DEF DeliveryIsSafe

-----------------------------------------------------------------------------
(* The circuit breaker.  The type, the counters and the limit of probes are *)
(* inductive together, once it is known that the set of probes is finite.   *)

Bounded ==
    /\ BreakerTypeOK
    /\ CountersMatchState
    /\ IsFiniteSet(probes)
    /\ ProbeLimit

USE SettingsAssumption

\* A saturated counter stays within its bound.
LEMMA AtMostBound ==
    ASSUME NEW n \in Nat, NEW max \in Nat
    PROVE  AtMost(n, max) \in 0..max
BY DEF AtMost

\* Dropping a probe, or all of them, keeps within what was counted.
LEMMA FewerProbes ==
    ASSUME IsFiniteSet(probes), NEW c
    PROVE  /\ IsFiniteSet(probes \ {c})
           /\ Cardinality(probes \ {c}) <= Cardinality(probes)
           /\ Cardinality(probes) \in Nat
           /\ Cardinality(probes \ {c}) \in Nat
<1>1. IsFiniteSet(probes \ {c}) /\ Cardinality(probes) \in Nat
  BY FS_RemoveElement, FS_CardinalityType
<1>2. Cardinality(probes \ {c}) = IF c \in probes THEN Cardinality(probes) - 1
                                                  ELSE Cardinality(probes)
  BY FS_RemoveElement
<1>3. Cardinality(probes \ {c}) \in Nat
  BY <1>1, FS_CardinalityType
<1> QED
  BY <1>1, <1>2, <1>3

\* A change of state leaves no probe and counts none but the caller's.
LEMMA SetStateProbes ==
    ASSUME NEW s, NEW f, SetState(s, f)
    PROVE  IsFiniteSet(probes') /\ Cardinality(probes') = 0
BY FS_EmptySet DEF SetState

THEOREM InitBounded == BreakerInit => Bounded
BY FS_EmptySet DEF BreakerInit, Bounded, BreakerTypeOK, State, CountersMatchState, ProbeLimit

LEMMA AllowClosedBounded ==
    ASSUME Bounded, NEW c \in Callers, AllowClosed(c)
    PROVE  Bounded'
BY DEF AllowClosed, counters, Bounded, BreakerTypeOK, CountersMatchState, ProbeLimit

LEMMA AllowFirstProbeBounded ==
    ASSUME Bounded, NEW c \in Callers, AllowFirstProbe(c)
    PROVE  Bounded'
<1> USE DEF Bounded, AllowFirstProbe
<1>1. BreakerTypeOK'
  BY DEF BreakerTypeOK, State
<1>2. CountersMatchState'
  BY DEF CountersMatchState
<1>3. IsFiniteSet(probes') /\ Cardinality(probes') = 1
  BY FS_Singleton
<1>4. ProbeLimit'
  BY <1>3 DEF ProbeLimit
<1> QED
  BY <1>1, <1>2, <1>3, <1>4

LEMMA AllowProbeBounded ==
    ASSUME Bounded, NEW c \in Callers, AllowProbe(c)
    PROVE  Bounded'
<1> USE DEF Bounded, AllowProbe
<1>1. BreakerTypeOK'
  BY DEF BreakerTypeOK
<1>2. CountersMatchState'
  BY DEF CountersMatchState
<1>3. IsFiniteSet(probes')
  BY FS_AddElement
<1>4. Cardinality(probes) \in Nat /\ Cardinality(probes') \in Nat
  BY <1>3, FS_CardinalityType
<1>5. Cardinality(probes') <= Cardinality(probes) + 1
  <2>1. Cardinality(probes \union {c}) =
            IF c \in probes THEN Cardinality(probes) ELSE Cardinality(probes) + 1
    BY FS_AddElement
  <2> QED
    BY <1>4, <2>1
<1>6. ProbeLimit'
  BY <1>4, <1>5 DEF ProbeLimit, BreakerTypeOK
<1> QED
  BY <1>1, <1>2, <1>3, <1>6

LEMMA ReadStateBounded ==
    ASSUME Bounded, ReadState
    PROVE  Bounded'
<1> USE DEF Bounded, ReadState
<1>1. BreakerTypeOK' /\ CountersMatchState'
  BY DEF SetState, BreakerTypeOK, State, CountersMatchState
<1>2. IsFiniteSet(probes') /\ Cardinality(probes') = 0
  BY SetStateProbes
<1>3. ProbeLimit'
  BY <1>2 DEF ProbeLimit, SetState
<1> QED
  BY <1>1, <1>2, <1>3

LEMMA RecordFailureBounded ==
    ASSUME Bounded, NEW c \in Callers, RecordFailure(c)
    PROVE  Bounded'
<1> USE DEF Bounded
<1> DEFINE counted == AtMost(failureCount + 1, FailureThreshold)
<1>1. counted \in 0..FailureThreshold
  BY AtMostBound DEF BreakerTypeOK
<1> HIDE DEF counted
<1>a. /\ running' = running \ {c}
      /\ elapsed' = FALSE
      /\ healthy' = healthy
  BY DEF RecordFailure
<1>2. CASE SetState("open", counted)
  <2>a. /\ state' = "open" /\ failureCount' = counted
        /\ successCount' = 0 /\ halfOpenRequests' = 0 /\ probes' = {}
    BY <1>2 DEF SetState
  <2>b. CountersMatchState'
    BY <2>a DEF CountersMatchState
  <2>c. elapsed' \in BOOLEAN /\ healthy' \in BOOLEAN /\ running' \subseteq Callers
    BY <1>a DEF BreakerTypeOK
  <2>1. BreakerTypeOK'
    BY <1>1, <2>a, <2>c DEF BreakerTypeOK, State
  <2>2. IsFiniteSet(probes') /\ Cardinality(probes') = 0
    BY <1>2, SetStateProbes
  <2>3. ProbeLimit'
    BY <1>2, <2>2 DEF ProbeLimit, SetState
  <2> QED
    BY <2>b, <2>1, <2>2, <2>3
<1>3. CASE /\ state = "open" \/ (state = "closed" /\ counted < FailureThreshold)
           /\ failureCount' = counted
           /\ probes' = probes \ {c}
           /\ UNCHANGED <<state, successCount, halfOpenRequests>>
  <2>1. BreakerTypeOK'
    BY <1>1, <1>3, <1>a DEF BreakerTypeOK
  <2>2. CountersMatchState'
    BY <1>1, <1>3 DEF CountersMatchState
  <2>3. /\ IsFiniteSet(probes')
        /\ Cardinality(probes') <= Cardinality(probes)
        /\ Cardinality(probes) \in Nat
        /\ Cardinality(probes') \in Nat
    BY <1>3, FewerProbes
  <2>4. ProbeLimit'
    BY <1>3, <1>a, <2>3 DEF ProbeLimit, BreakerTypeOK
  <2> QED
    BY <2>1, <2>2, <2>3, <2>4
<1> QED
  BY <1>2, <1>3 DEF RecordFailure, counted

LEMMA RecordSuccessBounded ==
    ASSUME Bounded, NEW c \in Callers, RecordSuccess(c)
    PROVE  Bounded'
<1> USE DEF Bounded
<1>1. CASE SetState("closed", failureCount)
  <2>1. BreakerTypeOK' /\ CountersMatchState'
    BY <1>1 DEF RecordSuccess, SetState, BreakerTypeOK, State, CountersMatchState
  <2>2. IsFiniteSet(probes') /\ Cardinality(probes') = 0
    BY <1>1, SetStateProbes
  <2>3. ProbeLimit'
    BY <1>1, <2>2 DEF ProbeLimit, SetState
  <2> QED
    BY <2>1, <2>2, <2>3
<1>2. CASE /\ state = "half_open" /\ successCount + 1 < SuccessThreshold
           /\ successCount' = successCount + 1
           /\ probes' = probes \ {c}
           /\ UNCHANGED <<state, failureCount, halfOpenRequests>>
  <2>1. BreakerTypeOK' /\ CountersMatchState'
    BY <1>2 DEF RecordSuccess, BreakerTypeOK, CountersMatchState
  <2>2. IsFiniteSet(probes') /\ ProbeLimit'
    BY <1>2, FewerProbes DEF RecordSuccess, ProbeLimit, BreakerTypeOK
  <2> QED
    BY <2>1, <2>2
<1>3. CASE /\ state = "closed"
           /\ successCount' = AtMost(successCount + 1, SuccessThreshold + 1)
           /\ failureCount' = IF successCount + 1 > SuccessThreshold THEN 0
                                                                     ELSE failureCount
           /\ UNCHANGED <<state, halfOpenRequests, probes>>
  <2>1. successCount' \in 0..(SuccessThreshold + 1)
    BY <1>3, AtMostBound DEF BreakerTypeOK
  <2>2. BreakerTypeOK' /\ CountersMatchState'
    BY <1>3, <2>1 DEF RecordSuccess, BreakerTypeOK, CountersMatchState
  <2>3. Cardinality(probes) \in Nat /\ probes = {}
    BY <1>3, FS_CardinalityType, FS_EmptySet DEF ProbeLimit, CountersMatchState
  <2>4. IsFiniteSet(probes') /\ ProbeLimit'
    BY <1>3, <2>3 DEF ProbeLimit
  <2> QED
    BY <2>2, <2>4
<1>4. CASE state = "open" /\ UNCHANGED <<state, counters, probes>>
  <2>1. BreakerTypeOK' /\ CountersMatchState'
    BY <1>4 DEF counters, RecordSuccess, BreakerTypeOK, CountersMatchState
  <2>2. Cardinality(probes) \in Nat /\ probes = {}
    BY <1>4, FS_CardinalityType, FS_EmptySet DEF ProbeLimit, CountersMatchState
  <2>3. IsFiniteSet(probes') /\ ProbeLimit'
    BY <1>4, <2>2 DEF counters, ProbeLimit
  <2> QED
    BY <2>1, <2>3
<1> QED
  BY <1>1, <1>2, <1>3, <1>4 DEF RecordSuccess

\* Every step of the breaker preserves Bounded.
THEOREM NextBounded == Bounded /\ [BreakerNext]_breakerVars => Bounded'
<1> SUFFICES ASSUME Bounded, [BreakerNext]_breakerVars PROVE Bounded'
  OBVIOUS
<1>1. ASSUME NEW c \in Callers, AllowRequest(c) PROVE Bounded'
  BY <1>1, AllowClosedBounded, AllowFirstProbeBounded, AllowProbeBounded DEF AllowRequest
<1>2. ASSUME NEW c \in Callers, RecordResult(c) PROVE Bounded'
  BY <1>2, RecordFailureBounded, RecordSuccessBounded DEF RecordResult
<1>3. CASE ReadState
  BY <1>3, ReadStateBounded
<1>4. CASE Tick
  BY <1>4 DEF Tick, counters, Bounded, BreakerTypeOK, CountersMatchState, ProbeLimit
<1>5. CASE ProviderChanges
  BY <1>5 DEF ProviderChanges, counters, Bounded, BreakerTypeOK, CountersMatchState, ProbeLimit
<1>6. CASE UNCHANGED breakerVars
  BY <1>6 DEF breakerVars, counters, Bounded, BreakerTypeOK, CountersMatchState, ProbeLimit
<1> QED
  BY <1>1, <1>2, <1>3, <1>4, <1>5, <1>6 DEF BreakerNext

\* Bounded holds in every reachable state.
THEOREM AlwaysBounded == BreakerSpec => []Bounded
BY InitBounded, NextBounded, PTL DEF BreakerSpec

\* The counters always belong to the state the breaker is in, for any settings.
THEOREM CountersMatchStateHolds == BreakerSpec => []CountersMatchState
<1>1. Bounded => CountersMatchState
  BY DEF Bounded
<1> QED
  BY <1>1, AlwaysBounded, PTL

\* A half-open period never has more than MaxRequests probes at the provider,
\* for any number of callers and however late results arrive.
THEOREM ProbeLimitHolds == BreakerSpec => []ProbeLimit
<1>1. Bounded => ProbeLimit
  BY DEF Bounded
<1> QED
  BY <1>1, AlwaysBounded, PTL

\* An open breaker admits nobody before Timeout has passed since the last
\* failure, whatever results arrive meanwhile (allowRequest, recordResult).
THEOREM OpenHoldsOffHolds == BreakerSpec => OpenHoldsOff
<1>1. ASSUME state = "open", ~elapsed, [BreakerNext]_breakerVars PROVE running' \subseteq running
  <2>1. ASSUME NEW c \in Callers, AllowRequest(c) PROVE FALSE
    BY <1>1, <2>1 DEF AllowRequest, AllowClosed, AllowFirstProbe, AllowProbe
  <2>2. ASSUME NEW c \in Callers, RecordResult(c) PROVE running' \subseteq running
    BY <2>2 DEF RecordResult, RecordFailure, RecordSuccess
  <2>3. ASSUME ReadState \/ Tick \/ ProviderChanges PROVE running' \subseteq running
    BY <2>3 DEF ReadState, Tick, ProviderChanges
  <2>4. ASSUME UNCHANGED breakerVars PROVE running' \subseteq running
    BY <2>4 DEF breakerVars
  <2> QED BY <1>1, <2>1, <2>2, <2>3, <2>4 DEF BreakerNext
<1>2. [BreakerNext]_breakerVars =>
          [state = "open" /\ ~elapsed => running' \subseteq running]_breakerVars
  BY <1>1
<1> QED BY <1>2, PTL DEF BreakerSpec, OpenHoldsOff

\* The variables are well typed in every reachable state, and the counters stay
\* within the bounds the code compares them with.
THEOREM BreakerTypeCorrect == BreakerSpec => []BreakerTypeOK
<1>1. Bounded => BreakerTypeOK
  BY DEF Bounded
<1> QED
  BY <1>1, AlwaysBounded, PTL

\* For any thresholds and callers late results neither disturb the counters nor admit a
\* probe too many (breaker.go: recordResult, setState).
THEOREM BreakerIsSafeHolds == BreakerSpec => []BreakerIsSafe
BY BreakerTypeCorrect, CountersMatchStateHolds, ProbeLimitHolds, PTL DEF BreakerIsSafe
=============================================================================
