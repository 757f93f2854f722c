---------------------------- MODULE RuntimeProofs ----------------------------
(***************************************************************************)
(* What the engines run on: the scheduler, for any number of tasks and any *)
(* limit; the pipeline orchestrator and its event store, for any stages    *)
(* and any capacity; the event bus and its dead letter queue, for any      *)
(* handlers and any events; the stair service that has them calculate, for *)
(* any forms.                                                              *)
(***************************************************************************)
EXTENDS Scheduler, Pipeline, EventBus, StairService, SequenceTheorems,
        FiniteSetTheorems, WellFoundedInduction, TLAPS

-----------------------------------------------------------------------------
(* The scheduler.                                                          *)

\* A set of natural numbers that is not empty has a least one.
LEMMA MinIsLeast ==
  ASSUME NEW S, S \subseteq Nat, S # {}
  PROVE  Min(S) \in S /\ \A y \in S : Min(S) <= y
<1>1. PICK x \in S : \A y \in S : ~(<<y, x>> \in OpToRel(<, Nat))
  BY WFMin, NatLessThanWellFounded, Zenon
<1>2. \A y \in S : ~(y < x)
  BY <1>1 DEF OpToRel
<1>3. \A y \in S : x <= y
  BY <1>2
<1> QED
  BY <1>3 DEF Min

SchedulerTypeOK ==
    /\ limit \in Limits /\ ctxDone \in BOOLEAN
    /\ task \in [Tasks -> {"waiting", "inside", "running", "done"}]
    /\ slot \in [Tasks -> {"nil", "failed", "cancelled"}]

\* One after the other, a task has started only if those before it ended well.
InTurn ==
    Serial => \A i \in Tasks : task[i] # "waiting" =>
        \A j \in Tasks : j < i => task[j] = "done" /\ slot[j] = "nil"

\* Only a task that is done has an error, and only a cancelled context cancels one.
ErrorsAreReal ==
    /\ \A i \in Tasks : slot[i] # "nil" => task[i] = "done"
    /\ \A i \in Tasks : slot[i] = "cancelled" => ctxDone

SchedulerInv == SchedulerTypeOK /\ InTurn /\ ErrorsAreReal /\ WithinLimit /\ AnswerIsDeterministic

LEMMA HeldIsFinite == IsFiniteSet(Held) /\ Cardinality(Held) \in Nat
<1>1. IsFiniteSet(Tasks)
  BY FS_Interval, SchedulerAssumption DEF Tasks
<1> QED
  BY <1>1, FS_Subset, FS_CardinalityType DEF Held

\* The number of tasks at work does not grow when one ends or no other starts.
LEMMA HeldShrinks ==
  ASSUME SchedulerInv, Held' \subseteq Held, UNCHANGED limit
  PROVE  Cardinality(Held') <= limit'
<1>1. IsFiniteSet(Held) /\ Cardinality(Held) \in Nat
  BY HeldIsFinite
<1>2. Cardinality(Held') <= Cardinality(Held) /\ Cardinality(Held') \in Nat
  BY <1>1, FS_Subset, FS_CardinalityType
<1> QED
  BY <1>1, <1>2, SchedulerAssumption DEF SchedulerInv, WithinLimit, SchedulerTypeOK

LEMMA SchedulerStarts == SchedulerInit => SchedulerInv
<1> SUFFICES ASSUME SchedulerInit PROVE SchedulerInv
  OBVIOUS
<1>1. Held = {} /\ Cardinality(Held) = 0 /\ limit \in Nat /\ limit > 0
  BY FS_EmptySet, SchedulerAssumption DEF SchedulerInit, Held
<1>2. WithinLimit
  BY <1>1 DEF WithinLimit
<1>3. SchedulerTypeOK /\ InTurn /\ ErrorsAreReal
  BY DEF SchedulerInit, SchedulerTypeOK, InTurn, ErrorsAreReal
<1>4. AnswerIsDeterministic
  <2>1. ~Open => outcome = [by |-> 0, err |-> "cancelled"] /\ ctxDone
    BY DEF SchedulerInit, Open
  <2> QED
    BY <2>1 DEF AnswerIsDeterministic
<1> QED
  BY <1>2, <1>3, <1>4 DEF SchedulerInv

\* The sequential path: whatever ran before has ended, so one task is at work.
LEMMA StartSerialKeeps == ASSUME NEW i \in Tasks, SchedulerInv, StartSerial(i) PROVE SchedulerInv'
<1>1. \A j \in Tasks : j # i => task[j] \in {"waiting", "done"}
  BY SchedulerAssumption DEF StartSerial, SchedulerInv, InTurn, Tasks, SchedulerTypeOK
<1>2. Held' = {i}
  BY <1>1 DEF StartSerial, Held, SchedulerInv, SchedulerTypeOK
<1>3. Cardinality({i}) = 1
  BY FS_Singleton
<1>4. limit' = limit /\ limit \in Nat /\ limit > 0
  BY SchedulerAssumption DEF StartSerial, SchedulerInv, SchedulerTypeOK
<1>5. WithinLimit' /\ AnswerIsDeterministic'
  BY <1>2, <1>3, <1>4 DEF WithinLimit, AnswerIsDeterministic, StartSerial, Open
<1>6. SchedulerTypeOK' /\ InTurn' /\ ErrorsAreReal'
  BY DEF StartSerial, SchedulerInv, SchedulerTypeOK, InTurn, ErrorsAreReal, Serial, Tasks
<1> QED
  BY <1>5, <1>6 DEF SchedulerInv

\* A slot that is free makes room for one more.
LEMMA AcquireKeeps == ASSUME NEW i \in Tasks, SchedulerInv, Acquire(i) PROVE SchedulerInv'
<1>1. IsFiniteSet(Held) /\ Cardinality(Held) \in Nat
  BY HeldIsFinite
<1>2. Held' = Held \union {i} /\ i \notin Held
  BY DEF Acquire, Held, SchedulerInv, SchedulerTypeOK
<1>3. Cardinality(Held') = Cardinality(Held) + 1
  BY <1>1, <1>2, FS_AddElement
<1>4. limit \in Nat /\ Cardinality(Held) < limit /\ UNCHANGED <<limit, outcome>> /\ Open
  BY SchedulerAssumption DEF Acquire, SchedulerInv, SchedulerTypeOK
<1>5. WithinLimit' /\ AnswerIsDeterministic'
  BY <1>1, <1>3, <1>4 DEF WithinLimit, AnswerIsDeterministic, Open
<1>6. SchedulerTypeOK' /\ InTurn' /\ ErrorsAreReal'
  BY DEF Acquire, SchedulerInv, SchedulerTypeOK, InTurn, ErrorsAreReal, Serial
<1> QED
  BY <1>5, <1>6 DEF SchedulerInv

\* A task ends, or goes on in its slot: nobody else gets one.
LEMMA GoingOnKeeps ==
  ASSUME NEW i \in Tasks, SchedulerInv, GiveUpWaiting(i) \/ Enter(i) \/ EndTask(i)
  PROVE  SchedulerInv'
<1>1. Held' \subseteq Held /\ UNCHANGED <<limit, outcome>>
  BY DEF GiveUpWaiting, Enter, EndTask, Held, SchedulerInv, SchedulerTypeOK
<1>2. Open
  BY DEF GiveUpWaiting, Enter, EndTask, SchedulerInv, WithinLimit, Held
<1>3. WithinLimit' /\ AnswerIsDeterministic'
  BY <1>1, <1>2, HeldShrinks DEF WithinLimit, AnswerIsDeterministic, Open
<1>4. SchedulerTypeOK'
  BY DEF GiveUpWaiting, Enter, EndTask, SchedulerInv, SchedulerTypeOK
<1>5. ErrorsAreReal'
  BY DEF GiveUpWaiting, Enter, EndTask, SchedulerInv, SchedulerTypeOK, ErrorsAreReal
<1>6. InTurn'
  <2>1. Serial' <=> Serial
    BY <1>1 DEF Serial
  <2>2. CASE Serial
    <3>1. \A k \in Tasks : task'[k] # "waiting" => task[k] # "waiting"
      BY <2>2 DEF GiveUpWaiting, Enter, EndTask, SchedulerInv, SchedulerTypeOK
    <3>2. \A k \in Tasks : task[k] = "done" => task'[k] = "done" /\ slot'[k] = slot[k]
      BY <2>2 DEF GiveUpWaiting, Enter, EndTask, SchedulerInv, SchedulerTypeOK
    <3> QED
      BY <2>1, <3>1, <3>2 DEF SchedulerInv, InTurn
  <2> QED
    BY <2>1, <2>2 DEF InTurn
<1> QED
  BY <1>3, <1>4, <1>5, <1>6 DEF SchedulerInv

\* The answer: the first task in the order of the tasks that has an error.
LEMMA ReturnKeeps == ASSUME SchedulerInv, Return PROVE SchedulerInv'
<1>1. Held = {}
  BY SchedulerAssumption DEF Return, Held, Failed, SchedulerInv, InTurn, ErrorsAreReal, Tasks
<1>2. UNCHANGED <<limit, task, slot, ctxDone>> /\ outcome' = Outcome
  BY DEF Return
<1>3. ASSUME Failed = {} PROVE AnswerIsDeterministic'
  <2>1. outcome' = [by |-> 0, err |-> "nil"] /\ \A i \in Tasks : task[i] = "done"
    BY <1>2, <1>3 DEF Return, Outcome
  <2> QED
    BY <1>2, <1>3, <2>1 DEF AnswerIsDeterministic, Failed, Tasks
<1>4. ASSUME Failed # {} PROVE AnswerIsDeterministic'
  <2> DEFINE m == Min(Failed)
  <2>1. m \in Failed /\ \A i \in Failed : m <= i
    BY <1>4, MinIsLeast, SchedulerAssumption DEF Failed, Tasks
  <2>2. outcome' = [by |-> m, err |-> slot[m]]
    BY <1>2, <1>4 DEF Outcome
  <2>3. \A i \in Tasks : i < m => slot[i] = "nil"
    BY <2>1, SchedulerAssumption DEF Failed, Tasks
  <2>4. \A i \in Tasks : i < m => task[i] = "done"
    BY <2>1 DEF Return, Failed, SchedulerInv, ErrorsAreReal, InTurn
  <2>5. slot[m] # "nil" /\ (slot[m] = "cancelled" => ctxDone)
    BY <2>1 DEF Failed, SchedulerInv, ErrorsAreReal
  <2> HIDE DEF m
  <2> QED
    BY <1>2, <2>2, <2>3, <2>4, <2>5 DEF AnswerIsDeterministic, Failed, Tasks
<1>5. AnswerIsDeterministic'
  BY <1>3, <1>4
<1>6. WithinLimit'
  BY <1>1, <1>2, HeldShrinks DEF WithinLimit, Held, Tasks
<1>7. SchedulerTypeOK' /\ InTurn' /\ ErrorsAreReal'
  BY <1>2 DEF SchedulerInv, SchedulerTypeOK, InTurn, ErrorsAreReal, Serial, Tasks
<1> QED
  BY <1>5, <1>6, <1>7 DEF SchedulerInv

LEMMA CancelContextKeeps ==
  ASSUME SchedulerInv, CancelContext \/ UNCHANGED schedulerVars
  PROVE  SchedulerInv'
<1>1. UNCHANGED <<limit, task, slot, outcome>> /\ ctxDone' \in BOOLEAN /\ (ctxDone => ctxDone')
  BY DEF CancelContext, schedulerVars, SchedulerInv, SchedulerTypeOK
<1>2. Held' = Held
  BY <1>1 DEF Held
<1> QED
  BY <1>1, <1>2 DEF SchedulerInv, SchedulerTypeOK, InTurn, ErrorsAreReal, WithinLimit,
     AnswerIsDeterministic, Serial, Open, Failed

\* The invariant behind WorkIsBounded.
THEOREM SchedulerAlwaysKept == SchedulerSpec => []SchedulerInv
<1>1. ASSUME SchedulerInv, [SchedulerNext]_schedulerVars PROVE SchedulerInv'
  BY <1>1, StartSerialKeeps, AcquireKeeps, GoingOnKeeps, ReturnKeeps, CancelContextKeeps
     DEF SchedulerNext
<1> QED
  BY <1>1, SchedulerStarts, PTL DEF SchedulerSpec

\* The slots bound the work, and the order they are given in decides nothing (Execute of
\* the scheduler), for any number of tasks and any limit.
THEOREM WorkBounded == SchedulerSpec => []WorkIsBounded
<1>1. SchedulerInv => WorkIsBounded
  BY DEF SchedulerInv, WorkIsBounded
<1> QED
  BY <1>1, SchedulerAlwaysKept, PTL

-----------------------------------------------------------------------------
(* The pipeline orchestrator and the event store.                           *)

\* A pipeline that has not started has nothing in the store, and its end only at its end.
StartedFirst == \A i \in DOMAIN store : phase[store[i][1][1]] \notin {"new", "refused"}
Ended(r) == phase[r] = "over" \/ (phase[r] = "ending" /\ result[r] = "completed")
OverIsEnd == \A i \in DOMAIN store : store[i][1][2] = "over" => Ended(store[i][1][1])

\* The last thing the store has of a pipeline.
Newest(r, i) == i \in Of(r) /\ \A k \in Of(r) : k <= i

\* What it is, by how far the pipeline is.
Tells(r, e) ==
    /\ phase[r] = "before" => e[2] = "finished" /\ e[3] = at[r] - 1
    /\ phase[r] = "inside" => e[2] = "started" /\ e[3] = at[r]
    /\ phase[r] = "ending" /\ result[r] = "failed" => e[2] # "over"
    /\ Ended(r) => e[2] = "over"

NewestTells == \A r \in Runs : \A i \in DOMAIN store : Newest(r, i) => Tells(r, store[i][1])

\* As long as a pipeline runs, another of its configuration only ends late.
LateEnd(e) == e[2] = "over" /\ result[e[1]] = "failed"
Undisturbed ==
    \A i, j \in DOMAIN store :
        LET a == store[i][1]
            b == store[j][1]
        IN  i < j /\ a[1] # b[1] /\ ConfigOf[a[1]] = ConfigOf[b[1]] /\ Running(a[1]) => LateEnd(b)

\* A pipeline has a stage while it runs, and a result when it has ended.
HasStage(r) ==
    /\ phase[r] \notin {"new", "refused"} => at[r] > 0
    /\ phase[r] = "inside" => at[r] <= Len(Order)
    /\ phase[r] \in {"ending", "over"} => result[r] \in {"completed", "failed"}

PipeInv ==
    /\ PipelineTypeOK /\ (\A r \in Runs : HasStage(r)) /\ OnePerConfig
    /\ StartedFirst /\ OverIsEnd /\ NewestTells /\ Undisturbed
    /\ HistoryOfRun /\ LateFailureOnly /\ ReplayComplete

\* Two neighbours in the history of a pipeline.
Joins(r, a, b) ==
    \/ a[2] = "started" /\ b[2] = "finished" /\ a[3] = b[3]
    \/ a[2] = "finished" /\ b[2] = "started" /\ b[3] = a[3] + 1
    \/ /\ a[2] # "over" /\ b[2] = "over"
       /\ result[r] = "completed" => a[2] = "finished" /\ a[3] = Len(Order)

LEMMA HistoryMeans ==
    HistoryOfRun <=>
    \A r \in Runs :
        /\ \A i, j \in DOMAIN store : Adjacent(r, i, j) => Joins(r, store[i][1], store[j][1])
        /\ phase[r] = "over" => \A i \in DOMAIN store : Newest(r, i) => store[i][1][2] = "over"
BY DEF HistoryOfRun, Joins, Newest, Of

LEMMA EntryTypes ==
    ASSUME PipelineTypeOK, NEW i \in DOMAIN store
    PROVE  /\ store[i] \in Event \X (1..counter) /\ store[i][1] \in Event
           /\ store[i][2] \in 1..counter /\ store[i][1][1] \in Runs
           /\ store[i][1][2] \in {"started", "finished", "over"} /\ store[i][1][3] \in Nat
<1>1. DOMAIN store = 1..Len(store) /\ Len(store) \in Nat /\ Len(Order) \in Nat
  BY PipelineAssumption DEF PipelineTypeOK
<1>2. store[i] \in Event \X (1..counter)
  BY <1>1 DEF PipelineTypeOK
<1> QED
  BY <1>1, <1>2 DEF Event

\* A store after an append: what was in it has moved by one if it was full.
Shifted(e, d) ==
    /\ d \in {0, 1} /\ d <= Len(store) /\ Len(store') = Len(store) - d + 1
    /\ \A i \in 1..(Len(store) - d) : store'[i] = store[i + d]
    /\ store'[Len(store')] = <<e, counter + 1>>
    /\ DOMAIN store = 1..Len(store) /\ DOMAIN store' = 1..Len(store')
    /\ Len(store) \in Nat /\ Len(store') \in Nat

\* A list of limited length makes room at its start.
Drops(d, s, t) ==
    d <= Len(s) /\ Len(t) = Len(s) - d /\ \A i \in 1..(Len(s) - d) : t[i] = s[i + d]

LEMMA OldestDropped ==
    ASSUME NEW T, NEW s \in Seq(T), NEW c \in Nat \ {0}, Len(s) <= c
    PROVE  \A t : t = (IF Len(s) >= c THEN Tail(s) ELSE s) =>
              \E d \in {0, 1} : Drops(d, s, t) /\ Len(t) < c /\ t \in Seq(T)
<1> SUFFICES ASSUME NEW t, t = (IF Len(s) >= c THEN Tail(s) ELSE s)
             PROVE  \E d \in {0, 1} : Drops(d, s, t) /\ Len(t) < c /\ t \in Seq(T)
  OBVIOUS
<1>1. Len(s) \in Nat
  OBVIOUS
<1>2. CASE Len(s) >= c
  <2>1. t = Tail(s) /\ s # <<>>
    BY <1>1, <1>2
  <2>2. t \in Seq(T) /\ Len(t) = Len(s) - 1 /\ \A i \in 1..Len(t) : t[i] = s[i + 1]
    BY <2>1, HeadTailProperties
  <2>3. Drops(1, s, t)
    BY <1>1, <1>2, <2>2 DEF Drops
  <2> QED
    BY <1>1, <2>2, <2>3
<1>3. CASE ~(Len(s) >= c)
  <2>1. t = s /\ Len(s) < c
    BY <1>1, <1>3
  <2>2. Drops(0, s, t)
    BY <1>1, <2>1 DEF Drops
  <2> QED
    BY <2>1, <2>2
<1> QED
  BY <1>2, <1>3

LEMMA StoreShifts ==
    ASSUME PipelineTypeOK, NEW e \in Event, StoreAppend(e)
    PROVE  /\ \E d \in {0, 1} : Shifted(e, d)
           /\ counter' = counter + 1 /\ position' = position
           /\ store' \in Seq(Event \X (1..counter')) /\ Len(store') <= StoreCapacity
           /\ \A i, j \in DOMAIN store' : i < j => store'[i][2] < store'[j][2]
           /\ unread' \subseteq Range(store')
<1> DEFINE kept == IF Len(store) >= StoreCapacity THEN Tail(store) ELSE store
           T == Event \X (1..(counter + 1))
<1>1. /\ counter' = counter + 1 /\ position' = position /\ store' = Append(kept, <<e, counter + 1>>)
      /\ counter \in Nat /\ StoreCapacity \in Nat \ {0}
  BY PipelineAssumption DEF StoreAppend, PipelineTypeOK
<1>2. store \in Seq(T)
  <2>1. Event \X (1..counter) \subseteq T
    BY <1>1
  <2> QED
    BY <2>1 DEF PipelineTypeOK
<1>3. DOMAIN store = 1..Len(store) /\ Len(store) \in Nat /\ Len(store) <= StoreCapacity
  BY <1>2 DEF PipelineTypeOK
<1>4. <<e, counter + 1>> \in T
  BY <1>1
<1>5. \E d \in {0, 1} : Drops(d, store, kept) /\ Len(kept) < StoreCapacity /\ kept \in Seq(T)
  <2> HIDE DEF T, kept
  <2>1. StoreCapacity \in Nat \ {0}
    BY <1>1
  <2>2. \A t : t = (IF Len(store) >= StoreCapacity THEN Tail(store) ELSE store) =>
           \E d \in {0, 1} : Drops(d, store, t) /\ Len(t) < StoreCapacity /\ t \in Seq(T)
    BY <1>2, <1>3, <2>1, OldestDropped
  <2>3. kept = IF Len(store) >= StoreCapacity THEN Tail(store) ELSE store
    BY DEF kept
  <2> QED
    BY <2>2, <2>3
<1> HIDE DEF kept, T
<1>p. PICK d \in {0, 1} : Drops(d, store, kept) /\ Len(kept) < StoreCapacity /\ kept \in Seq(T)
  BY <1>5
<1>6. /\ d <= Len(store) /\ Len(kept) = Len(store) - d /\ Len(kept) < StoreCapacity
      /\ kept \in Seq(T) /\ \A i \in 1..(Len(store) - d) : kept[i] = store[i + d]
  BY <1>p DEF Drops
<1>7. /\ store' \in Seq(T) /\ Len(store') = Len(kept) + 1 /\ Len(store') \in Nat
      /\ \A i \in 1..Len(kept) : store'[i] = kept[i]
      /\ store'[Len(kept) + 1] = <<e, counter + 1>>
      /\ DOMAIN store' = 1..Len(store')
  BY <1>1, <1>4, <1>6, AppendProperties
<1>8. Shifted(e, d)
  BY <1>3, <1>6, <1>7 DEF Shifted
<1>n. Len(kept) \in Nat /\ d \in Nat /\ DOMAIN store' = 1..(Len(kept) + 1) /\ Len(store') = Len(kept) + 1
  BY <1>3, <1>6, <1>7
<1>9. ASSUME NEW i \in DOMAIN store', NEW j \in DOMAIN store', i < j
      PROVE  store'[i][2] < store'[j][2]
  <2>1. i + d \in DOMAIN store /\ store'[i] = store[i + d]
    <3>1. i \in 1..Len(kept) /\ i \in Nat /\ d \in Nat
      BY <1>9, <1>n
    <3>2. i \in 1..(Len(store) - d) /\ store'[i] = kept[i]
      BY <1>6, <1>7, <3>1
    <3>3. i + d \in 1..Len(store)
      BY <1>3, <3>1, <3>2
    <3> QED
      BY <1>3, <1>6, <3>2, <3>3
  <2>2. CASE j = Len(store')
    <3>1. store'[j] = <<e, counter + 1>>
      BY <2>2, <1>7
    <3>2. store[i + d][2] \in 1..counter
      BY <2>1, EntryTypes
    <3> QED
      BY <2>1, <3>1, <3>2, <1>1
  <2>3. CASE j # Len(store')
    <3>1. j \in 1..Len(kept) /\ i \in Nat /\ j \in Nat /\ d \in Nat
      BY <2>3, <1>9, <1>n
    <3>2. j \in 1..(Len(store) - d) /\ store'[j] = kept[j]
      BY <1>6, <1>7, <3>1
    <3>3. j + d \in 1..Len(store) /\ i + d < j + d
      BY <1>3, <1>9, <3>1, <3>2
    <3>4. j + d \in DOMAIN store /\ store'[j] = store[j + d]
      BY <1>3, <1>6, <3>2, <3>3
    <3> QED
      BY <2>1, <3>3, <3>4 DEF PipelineTypeOK
  <2> QED
    BY <2>2, <2>3
<1> QED
  <2>1. store' \in Seq(Event \X (1..counter'))
    BY <1>1, <1>7 DEF T
  <2>2. Len(store') <= StoreCapacity
    BY <1>1, <1>3, <1>6, <1>7
  <2>3. unread' \subseteq Range(store')
    <3>1. Range(kept) \subseteq Range(store') /\ <<e, counter + 1>> \in Range(store')
      <4>1. DOMAIN kept = 1..Len(kept) /\ Len(kept) \in Nat
        BY <1>6
      <4> QED
        BY <4>1, <1>7 DEF Range
    <3>2. unread' \subseteq Range(kept) \union {<<e, counter + 1>>}
      BY DEF StoreAppend, kept
    <3> QED
      BY <3>1, <3>2
  <2> QED
    BY <2>1, <2>2, <2>3, <1>1, <1>8, <1>9

LEMMA EntriesMove ==
    ASSUME NEW e, NEW d \in {0, 1}, Shifted(e, d)
    PROVE  \A i \in DOMAIN store' :
              \/ i = Len(store') /\ store'[i] = <<e, counter + 1>>
              \/ i # Len(store') /\ i + d \in DOMAIN store /\ store'[i] = store[i + d]
<1> SUFFICES ASSUME NEW i \in DOMAIN store', i # Len(store')
             PROVE  i + d \in DOMAIN store /\ store'[i] = store[i + d]
  BY DEF Shifted
<1>1. i \in 1..(Len(store) - d)
  BY DEF Shifted
<1>2. store'[i] = store[i + d]
  BY <1>1 DEF Shifted
<1>3. i + d \in 1..Len(store)
  BY <1>1 DEF Shifted
<1> QED
  BY <1>2, <1>3 DEF Shifted

\* Neighbours and the newest entry after an append, by what they were before it.
LEMMA OldPairsMove ==
    ASSUME PipelineTypeOK, NEW e \in Event, NEW d \in {0, 1}, Shifted(e, d), NEW q \in Runs
    PROVE  /\ \A i, j \in DOMAIN store' : Adjacent(q, i, j)' =>
              \/ /\ j # Len(store') /\ i + d \in DOMAIN store /\ j + d \in DOMAIN store
                 /\ Adjacent(q, i + d, j + d)
                 /\ store'[i] = store[i + d] /\ store'[j] = store[j + d]
              \/ /\ e[1] = q /\ j = Len(store') /\ store'[j][1] = e /\ i + d \in DOMAIN store
                 /\ Newest(q, i + d) /\ store'[i] = store[i + d]
           /\ \A i \in DOMAIN store' : Newest(q, i)' =>
              \/ e[1] = q /\ store'[i][1] = e
              \/ /\ e[1] # q /\ i + d \in DOMAIN store /\ Newest(q, i + d)
                 /\ store'[i] = store[i + d]
<1>1. \A i \in DOMAIN store' :
         \/ i = Len(store') /\ store'[i][1] = e
         \/ i # Len(store') /\ i + d \in DOMAIN store /\ store'[i] = store[i + d]
  BY DEF Shifted
<1>2. \A k \in DOMAIN store : k > d => k - d \in DOMAIN store' /\ store'[k - d] = store[k] /\ k - d # Len(store')
  <2> SUFFICES ASSUME NEW k \in DOMAIN store, k > d
               PROVE  k - d \in DOMAIN store' /\ store'[k - d] = store[k] /\ k - d # Len(store')
    OBVIOUS
  <2>1. k - d \in 1..(Len(store) - d) /\ (k - d) + d = k
    BY DEF Shifted
  <2>2. store'[k - d] = store[(k - d) + d]
    BY <2>1 DEF Shifted
  <2> QED
    BY <2>1, <2>2 DEF Shifted
<1>3. /\ Len(store') \in DOMAIN store' /\ DOMAIN store \subseteq Nat /\ DOMAIN store' \subseteq Nat
      /\ \A i \in DOMAIN store' : i <= Len(store')
      /\ \A i \in DOMAIN store : i >= 1
  BY DEF Shifted
<1>4. \A k \in Of(q) : k > d => k - d \in Of(q)' /\ k - d # Len(store')
  BY <1>2 DEF Of
<1>5. ASSUME NEW i \in DOMAIN store', NEW j \in DOMAIN store', Adjacent(q, i, j)', j # Len(store')
      PROVE  /\ i + d \in DOMAIN store /\ j + d \in DOMAIN store /\ Adjacent(q, i + d, j + d)
             /\ store'[i] = store[i + d] /\ store'[j] = store[j + d]
  <2>1. i \in Of(q)' /\ j \in Of(q)' /\ i < j /\ \A k \in Of(q)' : k <= i \/ k >= j
    BY <1>5 DEF Adjacent
  <2>2. i # Len(store')
    BY <2>1, <1>3
  <2>3. /\ i + d \in DOMAIN store /\ store'[i] = store[i + d]
        /\ j + d \in DOMAIN store /\ store'[j] = store[j + d]
    BY <2>2, <1>1, <1>5
  <2>4. i + d \in Of(q) /\ j + d \in Of(q)
    BY <2>1, <2>3 DEF Of
  <2>5. ASSUME NEW k \in Of(q) PROVE k <= i + d \/ k >= j + d
    BY <2>1, <1>3, <1>4, SMTT(20) DEF Of
  <2> QED
    BY <2>1, <2>3, <2>4, <2>5, <1>3 DEF Adjacent
<1>6. ASSUME NEW i \in DOMAIN store', NEW j \in DOMAIN store', Adjacent(q, i, j)', j = Len(store')
      PROVE  /\ e[1] = q /\ store'[j][1] = e /\ i + d \in DOMAIN store
             /\ Newest(q, i + d) /\ store'[i] = store[i + d]
  <2>1. i \in Of(q)' /\ j \in Of(q)' /\ i < j /\ \A k \in Of(q)' : k <= i \/ k >= j
    BY <1>6 DEF Adjacent
  <2>2. store'[j][1] = e /\ e[1] = q
    BY <2>1, <1>1, <1>6 DEF Of
  <2>3. i + d \in DOMAIN store /\ store'[i] = store[i + d]
    BY <2>1, <1>1, <1>6, <1>3
  <2>4. i + d \in Of(q)
    BY <2>1, <2>3 DEF Of
  <2>5. ASSUME NEW k \in Of(q) PROVE k <= i + d
    <3>1. CASE k > d
      <4>1. k - d \in Of(q)' /\ k - d # Len(store') /\ k - d \in DOMAIN store'
        BY <3>1, <1>4, <1>2 DEF Of
      <4> QED
        BY <4>1, <2>1, <1>6, <1>3 DEF Of
    <3>2. CASE ~(k > d)
      BY <3>2, <1>3 DEF Of
    <3> QED
      BY <3>1, <3>2
  <2> QED
    BY <2>2, <2>3, <2>4, <2>5 DEF Newest
<1>7. ASSUME NEW i \in DOMAIN store', Newest(q, i)'
      PROVE  \/ e[1] = q /\ store'[i][1] = e
             \/ /\ e[1] # q /\ i + d \in DOMAIN store /\ Newest(q, i + d)
                /\ store'[i] = store[i + d]
  <2>1. i \in Of(q)' /\ \A k \in Of(q)' : k <= i
    BY <1>7 DEF Newest
  <2>2. CASE e[1] = q
    <3>1. Len(store') \in Of(q)'
      BY <2>2, <1>1, <1>3 DEF Of, Shifted
    <3>2. i = Len(store')
      BY <3>1, <2>1, <1>3
    <3> QED
      BY <3>2, <2>2, <1>1
  <2>3. CASE e[1] # q
    <3>1. i # Len(store')
      BY <2>1, <2>3, <1>1 DEF Of
    <3>2. i + d \in DOMAIN store /\ store'[i] = store[i + d]
      BY <3>1, <1>1
    <3>3. i + d \in Of(q)
      BY <2>1, <3>2 DEF Of
    <3>4. ASSUME NEW k \in Of(q) PROVE k <= i + d
      BY <2>1, <1>3, <1>4 DEF Of
    <3> QED
      BY <2>3, <3>2, <3>3, <3>4 DEF Newest
  <2> QED
    BY <2>2, <2>3
<1> QED
  BY <1>5, <1>6, <1>7

\* One pipeline goes on, and stores what it did.
LEMMA AppendKeeps ==
    ASSUME PipeInv, NEW r \in Runs, NEW e \in Event, e[1] = r, StoreAppend(e),
           \A q \in Runs : q # r => phase'[q] = phase[q] /\ at'[q] = at[q] /\ result'[q] = result[q],
           Running(r)' => Running(r), Running(r) \/ LateEnd(e)', ~Ended(r), e[2] = "over" => Ended(r)',
           Tells(r, e)', phase'[r] \notin {"new", "refused"},
           \A a \in Event : Tells(r, a) /\ a[2] # "over" => Joins(r, a, e)'
    PROVE  /\ StartedFirst' /\ NewestTells' /\ OverIsEnd' /\ Undisturbed' /\ HistoryOfRun' /\ LateFailureOnly' /\ ReplayComplete'
           /\ counter' \in Nat /\ position' \in 0..counter'
           /\ store' \in Seq(Event \X (1..counter')) /\ Len(store') <= StoreCapacity
           /\ \A i, j \in DOMAIN store' : i < j => store'[i][2] < store'[j][2]
<1>0. PipelineTypeOK /\ StartedFirst /\ OverIsEnd /\ NewestTells /\ Undisturbed /\ OnePerConfig /\ HistoryOfRun
      /\ LateFailureOnly /\ ReplayComplete
  BY DEF PipeInv
<1>1. PICK d \in {0, 1} : Shifted(e, d)
  BY <1>0, StoreShifts
<1>2. /\ counter' = counter + 1 /\ position' = position
      /\ store' \in Seq(Event \X (1..counter')) /\ Len(store') <= StoreCapacity
      /\ \A i, j \in DOMAIN store' : i < j => store'[i][2] < store'[j][2]
  BY <1>0, StoreShifts
<1>3. \A i \in DOMAIN store' :
         \/ i = Len(store') /\ store'[i] = <<e, counter + 1>>
         \/ i # Len(store') /\ i + d \in DOMAIN store /\ store'[i] = store[i + d]
  BY <1>1, EntriesMove
<1>4. \A i \in DOMAIN store' : i \in Nat /\ i <= Len(store')
  BY <1>1 DEF Shifted
<1>5. \A i \in DOMAIN store : store[i][1][1] = r => store[i][1][2] # "over"
  BY <1>0, EntryTypes DEF OverIsEnd
<1>6. \A q \in Runs : q # r => /\ Running(q)' = Running(q) /\ Ended(q)' = Ended(q)
                              /\ (\A a \in Event : Tells(q, a)' = Tells(q, a))
                              /\ (\A a, b \in Event : Joins(q, a, b)' = Joins(q, a, b))
  BY DEF Running, Ended, Tells, Joins
<1>7. NewestTells'
  <2> SUFFICES ASSUME NEW q \in Runs, NEW i \in DOMAIN store', Newest(q, i)', NEW a, a = store'[i][1]
               PROVE  Tells(q, a)'
    BY DEF NewestTells
  <2>1. CASE e[1] = q /\ store'[i][1] = e
    BY <2>1
  <2>2. CASE /\ e[1] # q /\ i + d \in DOMAIN store /\ Newest(q, i + d)
             /\ store'[i] = store[i + d]
    <3>1. Tells(q, a) /\ a \in Event
      BY <2>2, <1>0, EntryTypes DEF NewestTells
    <3> QED
      BY <3>1, <2>2, <1>6
  <2> QED
    BY <2>1, <2>2, <1>0, <1>1, OldPairsMove
<1>8. OverIsEnd'
  <2> SUFFICES ASSUME NEW i \in DOMAIN store', NEW a, a = store'[i][1], a[2] = "over", NEW q, q = a[1]
               PROVE  Ended(q)'
    BY DEF OverIsEnd
  <2>1. CASE a = e
    BY <2>1
  <2>2. CASE i + d \in DOMAIN store /\ a = store[i + d][1]
    <3>1. Ended(q) /\ q \in Runs /\ q # r
      BY <2>2, <1>0, <1>5, EntryTypes DEF OverIsEnd
    <3> QED
      BY <3>1, <1>6
  <2>3. a = e \/ (i + d \in DOMAIN store /\ a = store[i + d][1])
    BY <1>3
  <2> QED
    BY <2>1, <2>2, <2>3
<1>9. ASSUME NEW i \in DOMAIN store, NEW a, a = store[i][1], LateEnd(a)
      PROVE  LateEnd(a)'
  <2>1. a[2] = "over" /\ a[1] \in Runs /\ a[1] # r /\ result[a[1]] = "failed"
    BY <1>9, <1>0, <1>5, EntryTypes DEF LateEnd
  <2> QED
    BY <2>1 DEF LateEnd
<1>10. Undisturbed'
  <2> SUFFICES ASSUME NEW i \in DOMAIN store', NEW j \in DOMAIN store', i < j,
                      NEW a, NEW b, a = store'[i][1], b = store'[j][1],
                      a[1] # b[1], ConfigOf[a[1]] = ConfigOf[b[1]], Running(a[1])'
               PROVE  LateEnd(b)'
    BY DEF Undisturbed
  <2>1. i + d \in DOMAIN store /\ a = store[i + d][1] /\ a[1] \in Runs /\ i + d < j + d /\ d \in Nat
    BY <1>0, <1>3, <1>4, EntryTypes
  <2>2. Running(a[1])
    BY <2>1, <1>6
  <2>3. CASE b = e
    <3>1. ~Running(r)
      BY <2>1, <2>2, <2>3, <1>0 DEF OnePerConfig
    <3> QED
      BY <3>1, <2>3
  <2>4. CASE j + d \in DOMAIN store /\ b = store[j + d][1]
    <3>1. LateEnd(b)
      BY <2>1, <2>2, <2>4, <1>0 DEF Undisturbed
    <3> QED
      BY <3>1, <2>4, <1>9
  <2>5. b = e \/ (j + d \in DOMAIN store /\ b = store[j + d][1])
    BY <1>3
  <2> QED
    BY <2>3, <2>4, <2>5
<1>11. HistoryOfRun'
  <2>1. ASSUME NEW q \in Runs, NEW i \in DOMAIN store', NEW j \in DOMAIN store', Adjacent(q, i, j)',
               NEW a, NEW b, a = store'[i][1], b = store'[j][1]
        PROVE  Joins(q, a, b)'
    <3>1. CASE /\ j # Len(store') /\ i + d \in DOMAIN store /\ j + d \in DOMAIN store
               /\ Adjacent(q, i + d, j + d)
               /\ store'[i] = store[i + d] /\ store'[j] = store[j + d]
      <4>1. a = store[i + d][1] /\ b = store[j + d][1] /\ a \in Event /\ b \in Event
        BY <2>1, <3>1, <1>0, EntryTypes
      <4>2. Joins(q, a, b)
        BY <3>1, <4>1, <1>0, HistoryMeans
      <4>3. b[1] = q
        BY <3>1, <4>1 DEF Adjacent, Of
      <4>4. CASE q = r
        BY <4>1, <4>2, <4>3, <4>4, <3>1, <1>5 DEF Joins
      <4> QED
        BY <4>1, <4>2, <4>4, <1>6
    <3>2. CASE /\ e[1] = q /\ j = Len(store') /\ store'[j][1] = e /\ i + d \in DOMAIN store
               /\ Newest(q, i + d) /\ store'[i] = store[i + d]
      <4>1. q = r /\ b = e /\ a = store[i + d][1] /\ a \in Event
        BY <2>1, <3>2, <1>0, EntryTypes
      <4>2. Tells(r, a)
        BY <3>2, <4>1, <1>0 DEF NewestTells
      <4>3. a[1] = r
        BY <3>2, <4>1 DEF Newest, Of
      <4>4. a[2] # "over"
        BY <4>1, <4>3, <3>2, <1>5
      <4> QED
        BY <4>1, <4>2, <4>4
    <3> QED
      BY <2>1, <3>1, <3>2, <1>0, <1>1, OldPairsMove
  <2>2. ASSUME NEW q \in Runs, phase'[q] = "over", NEW i \in DOMAIN store', Newest(q, i)'
        PROVE  store'[i][1][2] = "over"
    <3> DEFINE a == store'[i][1]
    <3>1. \A x : x = store'[i][1] => Tells(q, x)'
      BY <2>2, <1>7 DEF NewestTells
    <3> QED
      BY <3>1, <2>2 DEF Tells, Ended
  <2>3. /\ \A q \in Runs : \A i, j \in DOMAIN store' : Adjacent(q, i, j)' =>
             \A a, b : a = store'[i][1] /\ b = store'[j][1] => Joins(q, a, b)'
        /\ \A q \in Runs : phase'[q] = "over" =>
             \A i \in DOMAIN store' : Newest(q, i)' => store'[i][1][2] = "over"
    BY <2>1, <2>2
  <2> QED
    BY <2>3 DEF HistoryOfRun, Newest, Of, Joins
<1>12. LateFailureOnly'
  <2>0. SUFFICES \A i, j, k \in DOMAIN store' : i < j /\ j < k =>
                    \A a, b, c : /\ a = store'[i][1] /\ b = store'[j][1] /\ c = store'[k][1]
                                 /\ a[1] = c[1] /\ b[1] # a[1] /\ ConfigOf[a[1]] = ConfigOf[b[1]]
                        => LateEnd(b)' \/ LateEnd(c)'
    <3>1. DOMAIN store' = 1..Len(store')
      BY <1>1 DEF Shifted
    <3> QED
      BY <2>0, <3>1 DEF LateFailureOnly, LateEnd
  <2> SUFFICES ASSUME NEW i \in DOMAIN store', NEW j \in DOMAIN store', NEW k \in DOMAIN store', i < j, j < k,
                      NEW a, NEW b, NEW c, a = store'[i][1], b = store'[j][1], c = store'[k][1],
                      a[1] = c[1], b[1] # a[1], ConfigOf[a[1]] = ConfigOf[b[1]]
               PROVE  LateEnd(b)' \/ LateEnd(c)'
    OBVIOUS
  <2>1. /\ i + d \in DOMAIN store /\ a = store[i + d][1] /\ i + d < j + d
        /\ j + d \in DOMAIN store /\ b = store[j + d][1] /\ j + d < k + d
    BY <1>3, <1>4
  <2>2. CASE c = e
    <3>1. CASE Running(r)
      <4>1. LateEnd(b)
        BY <2>1, <2>2, <3>1, <1>0 DEF Undisturbed
      <4> QED
        BY <4>1, <2>1, <1>9
    <3> QED
      BY <3>1, <2>2
  <2>3. CASE k + d \in DOMAIN store /\ c = store[k + d][1]
    <3>1. LateEnd(b) \/ LateEnd(c)
      BY <2>1, <2>3, <1>0, <1>1 DEF LateFailureOnly, LateEnd, Shifted
    <3> QED
      BY <3>1, <2>1, <2>3, <1>9
  <2>4. c = e \/ (k + d \in DOMAIN store /\ c = store[k + d][1])
    BY <1>3
  <2> QED
    BY <2>2, <2>3, <2>4
<1>13. ReplayComplete'
  <2> SUFFICES ASSUME NEW x \in unread'
               PROVE  x[2] > position
    BY <1>0, <1>2, StoreShifts DEF ReplayComplete
  <2>1. counter \in Nat /\ position \in 0..counter
    BY <1>0 DEF PipelineTypeOK
  <2>2. x \in unread \/ x = <<e, counter + 1>>
    BY DEF StoreAppend
  <2> QED
    BY <2>1, <2>2, <1>0 DEF ReplayComplete
<1>14. counter' \in Nat /\ position' \in 0..counter'
  BY <1>0, <1>2 DEF PipelineTypeOK
<1>15. StartedFirst'
  <2> SUFFICES ASSUME NEW i \in DOMAIN store', NEW a, a = store'[i][1], NEW q, q = a[1]
               PROVE  phase'[q] \notin {"new", "refused"}
    BY DEF StartedFirst
  <2>1. CASE a = e
    BY <2>1
  <2>2. CASE i + d \in DOMAIN store /\ a = store[i + d][1]
    <3>1. q \in Runs /\ phase[q] \notin {"new", "refused"}
      BY <2>2, <1>0, EntryTypes DEF StartedFirst
    <3> QED
      BY <3>1
  <2>3. a = e \/ (i + d \in DOMAIN store /\ a = store[i + d][1])
    BY <1>3
  <2> QED
    BY <2>1, <2>2, <2>3
<1> QED
  BY <1>2, <1>7, <1>8, <1>10, <1>11, <1>12, <1>13, <1>14, <1>15

\* One pipeline goes on, and the store stays as it is.
LEMMA QuietKeeps ==
    ASSUME PipeInv, NEW r \in Runs, UNCHANGED storeVars,
           \A q \in Runs : q # r => phase'[q] = phase[q] /\ at'[q] = at[q] /\ result'[q] = result[q],
           phase[r] \notin {"new", "refused"} => phase'[r] \notin {"new", "refused"},
           \/ Of(r) = {}
           \/ /\ Running(r)' => Running(r)
              /\ Ended(r) => Ended(r)' /\ result'[r] = result[r]
              /\ \A a \in Event : Tells(r, a) /\ (a[2] = "over" => Ended(r)) => Tells(r, a)'
    PROVE  StartedFirst' /\ NewestTells' /\ OverIsEnd' /\ Undisturbed' /\ HistoryOfRun' /\ LateFailureOnly' /\ ReplayComplete'
<1>0. PipelineTypeOK /\ StartedFirst /\ OverIsEnd /\ NewestTells /\ Undisturbed /\ OnePerConfig /\ HistoryOfRun
      /\ LateFailureOnly /\ ReplayComplete
  BY DEF PipeInv
<1>1. store' = store /\ unread' = unread /\ position' = position
  BY DEF storeVars
<1>2. /\ \A q \in Runs : Of(q)' = Of(q)
      /\ \A q \in Runs : \A i \in DOMAIN store : Newest(q, i)' = Newest(q, i)
      /\ \A q \in Runs : \A i, j \in DOMAIN store : Adjacent(q, i, j)' = Adjacent(q, i, j)
  BY <1>1 DEF Of, Newest, Adjacent
<1>3. \A i \in DOMAIN store : store[i][1] \in Event /\ store[i][1][1] \in Runs
  BY <1>0, EntryTypes
<1>4. \A i \in DOMAIN store : store[i][1][1] = r => i \in Of(r)
  BY DEF Of
<1>5. \A q \in Runs : q # r => /\ Running(q)' = Running(q) /\ Ended(q)' = Ended(q)
                              /\ (\A a \in Event : Tells(q, a)' = Tells(q, a))
                              /\ (\A a, b \in Event : Joins(q, a, b)' = Joins(q, a, b))
  BY DEF Running, Ended, Tells, Joins
<1>6. ASSUME NEW q \in Runs, NEW i \in DOMAIN store, Newest(q, i)
      PROVE  Tells(q, store[i][1])'
  <2> DEFINE a == store[i][1]
  <2>1. Tells(q, a) /\ a \in Event /\ a[1] = q /\ a = a'
    BY <1>0, <1>1, <1>3, <1>6 DEF NewestTells, Newest, Of
  <2>2. a[2] = "over" => Ended(q)
    BY <2>1, <1>0 DEF OverIsEnd
  <2>3. q = r => Of(r) # {}
    BY <1>6 DEF Newest
  <2>4. \A x \in Event : Tells(q, x) /\ (x[2] = "over" => Ended(q)) => Tells(q, x)'
    BY <2>3, <1>5
  <2>5. \A x : x = a => Tells(q, x)'
    BY <2>1, <2>2, <2>4
  <2> QED
    BY <2>5, <1>1
<1>7. NewestTells'
  BY <1>1, <1>2, <1>6 DEF NewestTells
<1>8. ASSUME NEW i \in DOMAIN store, NEW a, a = store[i][1], a[2] = "over"
      PROVE  Ended(a[1]) /\ Ended(a[1])' /\ result'[a[1]] = result[a[1]]
  BY <1>0, <1>3, <1>4, <1>5, <1>8 DEF OverIsEnd
<1>9. OverIsEnd'
  <2>1. \A i \in DOMAIN store : \A q : store[i][1][2] = "over" /\ q = store[i][1][1] => Ended(q)'
    BY <1>8
  <2> QED
    BY <2>1, <1>1 DEF OverIsEnd
<1>10. ASSUME NEW i \in DOMAIN store, NEW a, a = store[i][1]
       PROVE  LateEnd(a) => LateEnd(a)'
  BY <1>8, <1>10 DEF LateEnd
<1>11. Undisturbed'
  <2>1. \A i, j \in DOMAIN store : i < j => \A a, b :
           (/\ a = store[i][1] /\ b = store[j][1] /\ a[1] # b[1]
            /\ ConfigOf[a[1]] = ConfigOf[b[1]] /\ Running(a[1])') => LateEnd(b)'
    <3> SUFFICES ASSUME NEW i \in DOMAIN store, NEW j \in DOMAIN store, i < j, NEW a, NEW b,
                        a = store[i][1], b = store[j][1], a[1] # b[1],
                        ConfigOf[a[1]] = ConfigOf[b[1]], Running(a[1])'
                 PROVE  LateEnd(b)'
      OBVIOUS
    <3>1. Running(a[1])
      BY <1>3, <1>4, <1>5
    <3>2. LateEnd(b)
      BY <3>1, <1>0 DEF Undisturbed
    <3> QED
      BY <3>2, <1>10
  <2> QED
    BY <2>1, <1>1 DEF Undisturbed
<1>12. LateFailureOnly'
  <2>1. \A i, j, k \in DOMAIN store : i < j /\ j < k =>
           \A a, b, c : /\ a = store[i][1] /\ b = store[j][1] /\ c = store[k][1]
                        /\ a[1] = c[1] /\ b[1] # a[1] /\ ConfigOf[a[1]] = ConfigOf[b[1]]
               => LateEnd(b)' \/ LateEnd(c)'
    <3> SUFFICES ASSUME NEW i \in DOMAIN store, NEW j \in DOMAIN store, NEW k \in DOMAIN store, i < j, j < k,
                        NEW a, NEW b, NEW c, a = store[i][1], b = store[j][1], c = store[k][1],
                        a[1] = c[1], b[1] # a[1], ConfigOf[a[1]] = ConfigOf[b[1]]
                 PROVE  LateEnd(b)' \/ LateEnd(c)'
      OBVIOUS
    <3>1. DOMAIN store = 1..Len(store)
      BY <1>0 DEF PipelineTypeOK
    <3>2. LateEnd(b) \/ LateEnd(c)
      BY <3>1, <1>0 DEF LateFailureOnly, LateEnd
    <3> QED
      BY <3>2, <1>10
  <2>2. DOMAIN store = 1..Len(store)
    BY <1>0 DEF PipelineTypeOK
  <2> QED
    BY <2>1, <2>2, <1>1 DEF LateFailureOnly, LateEnd
<1>13. HistoryOfRun'
  <2>1. ASSUME NEW q \in Runs, NEW i \in DOMAIN store, NEW j \in DOMAIN store, Adjacent(q, i, j),
               NEW a, NEW b, a = store[i][1], b = store[j][1]
        PROVE  Joins(q, a, b)'
    <3>1. Joins(q, a, b) /\ b[1] = q /\ a \in Event /\ b \in Event
      BY <2>1, <1>0, <1>3, HistoryMeans DEF Adjacent, Of
    <3>2. b[2] = "over" => result'[q] = result[q]
      BY <3>1, <2>1, <1>8
    <3> QED
      BY <3>1, <3>2 DEF Joins
  <2>2. ASSUME NEW q \in Runs, phase'[q] = "over", NEW i \in DOMAIN store, Newest(q, i)
        PROVE  store[i][1][2] = "over"
    <3>1. \A x : x = store[i][1] => Tells(q, x)'
      BY <2>2, <1>1, <1>6
    <3> QED
      BY <3>1, <2>2 DEF Tells, Ended
  <2>3. /\ \A q \in Runs : \A i, j \in DOMAIN store' : Adjacent(q, i, j)' =>
             \A a, b : a = store'[i][1] /\ b = store'[j][1] => Joins(q, a, b)'
        /\ \A q \in Runs : phase'[q] = "over" =>
             \A i \in DOMAIN store' : Newest(q, i)' => store'[i][1][2] = "over"
    BY <2>1, <2>2, <1>1, <1>2
  <2> QED
    BY <2>3 DEF HistoryOfRun, Newest, Of, Joins
<1>14. ReplayComplete'
  BY <1>0, <1>1 DEF ReplayComplete, Range
<1>15. StartedFirst'
  <2>1. \A i \in DOMAIN store : \A q : q = store[i][1][1] => phase'[q] \notin {"new", "refused"}
    BY <1>0, <1>3, <1>4 DEF StartedFirst
  <2> QED
    BY <2>1, <1>1 DEF StartedFirst
<1> QED
  BY <1>7, <1>9, <1>11, <1>12, <1>13, <1>14, <1>15

\* A configuration is taken and freed with its pipeline.
LEMMA ConfigurationsFollow ==
    ASSUME OnePerConfig, NEW r \in Runs,
           \A q \in Runs : q # r => phase'[q] = phase[q] /\ result'[q] = result[q],
           \/ Running(r)' = Running(r) /\ active' = active
           \/ Running(r) /\ ~Running(r)' /\ active' = active \ {ConfigOf[r]}
           \/ /\ ~Running(r) /\ Running(r)' /\ ConfigOf[r] \notin active
              /\ active' = active \union {ConfigOf[r]}
    PROVE  OnePerConfig'
<1>1. \A q \in Runs : q # r => Running(q)' = Running(q)
  BY DEF Running
<1>2. active = {ConfigOf[q] : q \in {q \in Runs : Running(q)}}
  BY DEF OnePerConfig
<1>3. \A q \in Runs : \A p \in Runs : Running(q) /\ Running(p) /\ ConfigOf[p] = ConfigOf[q] => p = q
  BY DEF OnePerConfig
<1>4. \A c : c \in active <=> \E q \in Runs : Running(q) /\ c = ConfigOf[q]
  BY <1>2
<1>5. CASE Running(r)' = Running(r) /\ active' = active
  <2>1. \A q \in Runs : Running(q)' = Running(q)
    BY <1>1, <1>5
  <2>2. {q \in Runs : Running(q)'} = {q \in Runs : Running(q)}
    BY <2>1
  <2> QED
    BY <1>2, <1>3, <1>5, <2>1, <2>2 DEF OnePerConfig
<1>6. CASE Running(r) /\ ~Running(r)' /\ active' = active \ {ConfigOf[r]}
  <2>1. \A c : c \in active' <=> \E q \in Runs : Running(q)' /\ c = ConfigOf[q]
    BY <1>1, <1>3, <1>4, <1>6
  <2>2. active' = {ConfigOf[q] : q \in {q \in Runs : Running(q)'}}
    BY <2>1
  <2> QED
    BY <1>1, <1>3, <1>6, <2>2 DEF OnePerConfig
<1>7. CASE ~Running(r) /\ Running(r)' /\ ConfigOf[r] \notin active /\ active' = active \union {ConfigOf[r]}
  <2>1. \A c : c \in active' <=> \E q \in Runs : Running(q)' /\ c = ConfigOf[q]
    BY <1>1, <1>4, <1>7
  <2>2. active' = {ConfigOf[q] : q \in {q \in Runs : Running(q)'}}
    BY <2>1
  <2>3. \A q \in Runs : Running(q) => ConfigOf[q] # ConfigOf[r]
    BY <1>4, <1>7
  <2> QED
    BY <1>1, <1>3, <1>7, <2>2, <2>3 DEF OnePerConfig
<1> QED
  BY <1>5, <1>6, <1>7

\* The type of what is not the store.
RunsTyped ==
    /\ at \in [Runs -> 0..(Len(Order) + 1)]
    /\ phase \in [Runs -> {"new", "before", "inside", "ending", "over", "refused"}]
    /\ marked \in [Runs -> SUBSET Range(Order)]
    /\ result \in [Runs -> {None, "completed", "failed"}]

\* How one call of Start goes on.
Goes(r) ==
    /\ \A q \in Runs : q # r => phase'[q] = phase[q] /\ at'[q] = at[q] /\ result'[q] = result[q]
    /\ RunsTyped' /\ HasStage(r)'

LEMMA GoesKeeps ==
    ASSUME PipeInv, NEW r \in Runs, Goes(r)
    PROVE  \A q \in Runs : HasStage(q)'
BY DEF PipeInv, Goes, HasStage

LEMMA QuietStep ==
    ASSUME PipeInv, NEW r \in Runs,
           StartPipeline(r) \/ Cancelled(r) \/ Unsatisfied(r) \/ (End(r) /\ UNCHANGED storeVars)
    PROVE  PipeInv'
<1>0. /\ RunsTyped /\ OnePerConfig /\ HasStage(r) /\ Len(Order) \in Nat /\ None \notin {"completed", "failed"}
      /\ StartedFirst
  BY PipelineAssumption DEF PipeInv, PipelineTypeOK, RunsTyped
<1>1. Goes(r) /\ UNCHANGED storeVars
  <2>1. CASE StartPipeline(r)
    <3>1. CASE phase' = [phase EXCEPT ![r] = "refused"] /\ at' = at
      BY <2>1, <3>1, <1>0 DEF StartPipeline, Goes, RunsTyped, HasStage, storeVars
    <3>2. CASE phase' = [phase EXCEPT ![r] = "before"] /\ at' = [at EXCEPT ![r] = 1]
      <4>1. 1 \in 0..(Len(Order) + 1)
        BY <1>0
      <4> QED
        BY <2>1, <3>2, <4>1, <1>0 DEF StartPipeline, Goes, RunsTyped, HasStage, storeVars
    <3> QED
      BY <2>1, <3>1, <3>2 DEF StartPipeline
  <2>2. CASE Cancelled(r)
    BY <2>2, <1>0 DEF Cancelled, Fail, Between, Goes, RunsTyped, HasStage, storeVars
  <2>3. CASE Unsatisfied(r)
    BY <2>3, <1>0 DEF Unsatisfied, Fail, Goes, RunsTyped, HasStage, storeVars
  <2>4. CASE End(r) /\ UNCHANGED storeVars
    BY <2>4, <1>0 DEF End, Goes, RunsTyped, HasStage
  <2> QED
    BY <2>1, <2>2, <2>3, <2>4
<1>2. OnePerConfig'
  <2>1. \/ Running(r)' = Running(r) /\ active' = active
        \/ Running(r) /\ ~Running(r)' /\ active' = active \ {ConfigOf[r]}
        \/ /\ ~Running(r) /\ Running(r)' /\ ConfigOf[r] \notin active
           /\ active' = active \union {ConfigOf[r]}
    BY <1>0 DEF StartPipeline, Cancelled, Unsatisfied, End, Fail, Between, RunsTyped, Running, StoreAppend, storeVars
  <2> QED
    BY <1>0, <1>1, <2>1, ConfigurationsFollow DEF Goes
<1>3. \/ Of(r) = {}
      \/ /\ Running(r)' => Running(r)
         /\ Ended(r) => Ended(r)' /\ result'[r] = result[r]
         /\ \A a \in Event : Tells(r, a) /\ (a[2] = "over" => Ended(r)) => Tells(r, a)'
  <2>1. CASE StartPipeline(r)
    <3>1. ASSUME NEW i \in Of(r) PROVE FALSE
      BY <2>1, <1>0 DEF Of, StartedFirst, StartPipeline
    <3> QED
      BY <3>1
  <2>2. CASE Cancelled(r) \/ Unsatisfied(r)
    BY <2>2, <1>0 DEF Cancelled, Unsatisfied, Fail, Between, RunsTyped, Running, Ended, Tells
  <2>3. CASE End(r) /\ UNCHANGED storeVars
    <3>1. result[r] = "completed" /\ result' = result
      BY <2>3 DEF End, StoreAppend, storeVars, PipeInv, PipelineTypeOK
    <3> QED
      BY <2>3, <3>1, <1>0 DEF End, RunsTyped, Running, Ended, Tells
  <2> QED
    BY <2>1, <2>2, <2>3
<1>4. StartedFirst' /\ NewestTells' /\ OverIsEnd' /\ Undisturbed' /\ HistoryOfRun' /\ LateFailureOnly' /\ ReplayComplete'
  <2>1. phase[r] \notin {"new", "refused"} => phase'[r] \notin {"new", "refused"}
    BY <1>0 DEF StartPipeline, Cancelled, Unsatisfied, End, Fail, Between, RunsTyped
  <2> QED
    BY <1>1, <1>3, <2>1, QuietKeeps DEF Goes
<1>5. PipelineTypeOK'
  BY <1>1 DEF Goes, RunsTyped, PipeInv, PipelineTypeOK, storeVars
<1> QED
  BY <1>1, <1>2, <1>4, <1>5, GoesKeeps DEF PipeInv

\* What is new in the store.
Stored(r, kind) == <<r, kind, at[r]>>

LEMMA AppendStep ==
    ASSUME PipeInv, NEW r \in Runs, NEW kind \in {"started", "finished", "over"},
           StoreAppend(Stored(r, kind)), Goes(r), OnePerConfig', phase[r] \notin {"new", "refused"}, ~Ended(r),
           phase'[r] \notin {"new", "refused"},
           Running(r)' => Running(r), Running(r) \/ (kind = "over" /\ result'[r] = "failed"),
           kind = "over" => Ended(r)',
           \A m : m = at[r] => Tells(r, <<r, kind, m>>)',
           \A m : m = at[r] =>
              \A a \in Event : Tells(r, a) /\ a[2] # "over" => Joins(r, a, <<r, kind, m>>)'
    PROVE  PipeInv'
<1> DEFINE e == Stored(r, kind)
<1>1. RunsTyped /\ HasStage(r) /\ Len(Order) \in Nat
  BY PipelineAssumption DEF PipeInv, PipelineTypeOK, RunsTyped
<1>2. at[r] \in 1..(Len(Order) + 1)
  BY <1>1 DEF RunsTyped, HasStage
<1>3. PICK x \in Event : x = e
  BY <1>2 DEF Event, Stored
<1>4. x[1] = r /\ x[2] = kind /\ x = <<r, kind, at[r]>>
  BY <1>3 DEF Stored
<1>5. Running(r) \/ LateEnd(x)'
  BY <1>4 DEF LateEnd
<1>6. Tells(r, x)' /\ (\A a \in Event : Tells(r, a) /\ a[2] # "over" => Joins(r, a, x)')
  BY <1>4
<1>7. StoreAppend(x) /\ (x[2] = "over" => Ended(r)')
  BY <1>3, <1>4
<1>8. /\ StartedFirst' /\ NewestTells' /\ OverIsEnd' /\ Undisturbed' /\ HistoryOfRun' /\ LateFailureOnly'
      /\ ReplayComplete' /\ counter' \in Nat /\ position' \in 0..counter'
      /\ store' \in Seq(Event \X (1..counter')) /\ Len(store') <= StoreCapacity
      /\ \A i, j \in DOMAIN store' : i < j => store'[i][2] < store'[j][2]
  BY <1>4, <1>5, <1>6, <1>7, AppendKeeps DEF Goes
<1>9. PipelineTypeOK'
  BY <1>8 DEF Goes, RunsTyped, PipelineTypeOK
<1> QED
  BY <1>8, <1>9, GoesKeeps DEF PipeInv

LEMMA StagesKeep ==
    ASSUME PipeInv, NEW r \in Runs,
           StageStarted(r) \/ StageFinished(r) \/ StageFailed(r) \/ Completed(r) \/ (End(r) /\ result[r] = "failed")
    PROVE  PipeInv'
<1>0. /\ RunsTyped /\ OnePerConfig /\ HasStage(r) /\ Len(Order) \in Nat /\ None \notin {"completed", "failed"}
  BY PipelineAssumption DEF PipeInv, PipelineTypeOK, RunsTyped
<1>1. CASE StageStarted(r)
  <2>1. Goes(r)
    BY <1>0, <1>1 DEF StageStarted, Between, Goes, RunsTyped, HasStage
  <2>2. Running(r) /\ Running(r)' /\ active' = active /\ ~Ended(r)
    BY <1>0, <1>1 DEF StageStarted, Between, Running, RunsTyped, Ended
  <2>3. OnePerConfig'
    BY <1>0, <2>1, <2>2, ConfigurationsFollow DEF Goes
  <2>4. \A m : m = at[r] => Tells(r, <<r, "started", m>>)'
    BY <1>0, <1>1 DEF StageStarted, Between, RunsTyped, Tells, Ended
  <2>5. \A m : m = at[r] =>
           \A a \in Event : Tells(r, a) /\ a[2] # "over" => Joins(r, a, <<r, "started", m>>)'
    BY <1>0, <1>1 DEF StageStarted, Between, RunsTyped, Tells, Joins, Event
  <2>6. phase[r] \notin {"new", "refused"} /\ phase'[r] \notin {"new", "refused"} /\ StoreAppend(Stored(r, "started"))
    BY <1>0, <1>1 DEF StageStarted, Between, RunsTyped, Stored
  <2> QED
    BY <2>1, <2>2, <2>3, <2>4, <2>5, <2>6, AppendStep
<1>2. CASE StageFinished(r)
  <2>1. Goes(r)
    <3>1. /\ phase[r] = "inside" /\ phase' = [phase EXCEPT ![r] = "before"] /\ at' = [at EXCEPT ![r] = @ + 1]
          /\ result' = result
      BY <1>2 DEF StageFinished
    <3>2. marked' \in [Runs -> SUBSET Range(Order)]
      <4>1. Order[at[r]] \in Range(Order)
        BY <1>0, <3>1, PipelineAssumption DEF HasStage, RunsTyped, Range
      <4> QED
        BY <1>0, <1>2, <4>1 DEF StageFinished, RunsTyped
    <3>3. at[r] + 1 \in 0..(Len(Order) + 1) /\ at[r] + 1 > 0
      BY <1>0, <3>1 DEF HasStage, RunsTyped
    <3>4. phase' \in [Runs -> {"new", "before", "inside", "ending", "over", "refused"}]
          /\ at' \in [Runs -> 0..(Len(Order) + 1)]
      BY <1>0, <3>1, <3>3 DEF RunsTyped
    <3>5. RunsTyped'
      BY <1>0, <3>1, <3>2, <3>4 DEF RunsTyped
    <3>6. at'[r] = at[r] + 1 /\ phase'[r] = "before"
      BY <1>0, <3>1 DEF RunsTyped
    <3>7. HasStage(r)'
      BY <3>3, <3>6 DEF HasStage
    <3>8. \A q \in Runs : q # r => phase'[q] = phase[q] /\ at'[q] = at[q] /\ result'[q] = result[q]
      BY <1>0, <3>1 DEF RunsTyped
    <3> QED
      BY <3>5, <3>7, <3>8 DEF Goes
  <2>2. Running(r) /\ Running(r)' /\ active' = active /\ ~Ended(r)
    BY <1>0, <1>2 DEF StageFinished, Running, RunsTyped, Ended
  <2>3. OnePerConfig'
    BY <1>0, <2>1, <2>2, ConfigurationsFollow DEF Goes
  <2>4. \A m : m = at[r] => Tells(r, <<r, "finished", m>>)'
    BY <1>0, <1>2 DEF StageFinished, RunsTyped, Tells, Ended
  <2>5. \A m : m = at[r] =>
           \A a \in Event : Tells(r, a) /\ a[2] # "over" => Joins(r, a, <<r, "finished", m>>)'
    BY <1>0, <1>2 DEF StageFinished, RunsTyped, Tells, Joins, Event
  <2>6. phase[r] \notin {"new", "refused"} /\ phase'[r] \notin {"new", "refused"} /\ StoreAppend(Stored(r, "finished"))
    BY <1>0, <1>2 DEF StageFinished, RunsTyped, Stored
  <2> QED
    BY <2>1, <2>2, <2>3, <2>4, <2>5, <2>6, AppendStep
<1>3. CASE StageFailed(r)
  <2>1. Goes(r)
    BY <1>0, <1>3 DEF StageFailed, Fail, Goes, RunsTyped, HasStage
  <2>2. Running(r) /\ ~Running(r)' /\ active' = active \ {ConfigOf[r]} /\ ~Ended(r)
    BY <1>0, <1>3 DEF StageFailed, Fail, Running, RunsTyped, Ended
  <2>3. OnePerConfig'
    BY <1>0, <2>1, <2>2, ConfigurationsFollow DEF Goes
  <2>4. \A m : m = at[r] => Tells(r, <<r, "finished", m>>)'
    BY <1>0, <1>3 DEF StageFailed, Fail, RunsTyped, Tells, Ended
  <2>5. \A m : m = at[r] =>
           \A a \in Event : Tells(r, a) /\ a[2] # "over" => Joins(r, a, <<r, "finished", m>>)'
    BY <1>0, <1>3 DEF StageFailed, Fail, RunsTyped, Tells, Joins, Event
  <2>6. phase[r] \notin {"new", "refused"} /\ phase'[r] \notin {"new", "refused"} /\ StoreAppend(Stored(r, "finished"))
    BY <1>0, <1>3 DEF StageFailed, Fail, RunsTyped, Stored
  <2> QED
    BY <2>1, <2>2, <2>3, <2>4, <2>5, <2>6, AppendStep
<1>4. CASE Completed(r)
  <2>1. Goes(r)
    BY <1>0, <1>4 DEF Completed, Goes, RunsTyped, HasStage
  <2>2. Running(r) /\ Running(r)' /\ active' = active /\ ~Ended(r) /\ Ended(r)'
    BY <1>0, <1>4 DEF Completed, Running, RunsTyped, Ended
  <2>3. OnePerConfig'
    BY <1>0, <2>1, <2>2, ConfigurationsFollow DEF Goes
  <2>4. \A m : m = at[r] => Tells(r, <<r, "over", m>>)'
    BY <1>0, <1>4 DEF Completed, RunsTyped, Tells, Ended
  <2>5. \A m : m = at[r] =>
           \A a \in Event : Tells(r, a) /\ a[2] # "over" => Joins(r, a, <<r, "over", m>>)'
    <3>1. phase[r] = "before" /\ at[r] = Len(Order) + 1
      BY <1>0, <1>4 DEF Completed, RunsTyped
    <3> QED
      BY <1>0, <3>1 DEF RunsTyped, Tells, Joins, Event
  <2>6. phase[r] \notin {"new", "refused"} /\ phase'[r] \notin {"new", "refused"} /\ StoreAppend(Stored(r, "over"))
    BY <1>0, <1>4 DEF Completed, RunsTyped, Stored
  <2> QED
    BY <2>1, <2>2, <2>3, <2>4, <2>5, <2>6, AppendStep
<1>5. CASE End(r) /\ result[r] = "failed"
  <2>0. /\ phase[r] = "ending" /\ phase' = [phase EXCEPT ![r] = "over"] /\ active' = active
        /\ at' = at /\ marked' = marked /\ result' = result /\ StoreAppend(<<r, "over", at[r]>>)
    BY <1>5 DEF End
  <2>1. Goes(r)
    BY <1>0, <1>5, <2>0 DEF Goes, RunsTyped, HasStage
  <2>2. ~Running(r) /\ ~Running(r)' /\ ~Ended(r) /\ Ended(r)' /\ result'[r] = "failed"
    BY <1>0, <1>5, <2>0 DEF Running, RunsTyped, Ended
  <2>3. OnePerConfig'
    <3>1. Running(r)' = Running(r)
      <4>1. Running(r) = FALSE /\ Running(r)' = FALSE
        BY <1>0, <1>5, <2>0 DEF Running, RunsTyped
      <4> QED
        BY <4>1
    <3>2. \A q \in Runs : q # r => phase'[q] = phase[q] /\ result'[q] = result[q]
      BY <2>1 DEF Goes
    <3> QED
      BY <1>0, <2>0, <3>1, <3>2, ConfigurationsFollow
  <2>4. \A m : m = at[r] => Tells(r, <<r, "over", m>>)'
    BY <1>0, <2>0 DEF RunsTyped, Tells, Ended
  <2>5. \A m : m = at[r] =>
           \A a \in Event : Tells(r, a) /\ a[2] # "over" => Joins(r, a, <<r, "over", m>>)'
    BY <1>0, <1>5, <2>0 DEF RunsTyped, Tells, Joins, Event
  <2>6. phase[r] \notin {"new", "refused"} /\ phase'[r] \notin {"new", "refused"} /\ StoreAppend(Stored(r, "over"))
    BY <1>0, <2>0 DEF RunsTyped, Stored
  <2> QED
    BY <2>1, <2>2, <2>3, <2>4, <2>5, <2>6, AppendStep
<1> QED
  BY <1>1, <1>2, <1>3, <1>4, <1>5

LEMMA ReplayKeeps ==
    ASSUME PipeInv, ReplaySince
    PROVE  PipeInv'
<1>1. UNCHANGED <<runVars, store, counter>>
  BY DEF ReplaySince
<1>2. PICK last \in DOMAIN store :
         /\ store[last][2] > position /\ position' = store[last][2]
         /\ unread' = unread \ {store[i] : i \in {i \in DOMAIN store : store[i][2] > position}}
  BY DEF ReplaySince
<1>3. position' \in 0..counter
  BY <1>2, EntryTypes DEF PipeInv, PipelineTypeOK
<1>4. unread' = {}
  <2> SUFFICES ASSUME NEW x \in unread, x \notin {store[i] : i \in {i \in DOMAIN store : store[i][2] > position}}
               PROVE  FALSE
    BY <1>2
  <2> QED
    BY DEF PipeInv, ReplayComplete, Range
<1>5. ReplayComplete'
  BY <1>4 DEF ReplayComplete
<1>6. PipelineTypeOK'
  BY <1>1, <1>3 DEF PipeInv, PipelineTypeOK, runVars
<1>7. /\ (\A r \in Runs : HasStage(r))' /\ OnePerConfig' /\ StartedFirst' /\ OverIsEnd' /\ NewestTells'
      /\ Undisturbed' /\ HistoryOfRun' /\ LateFailureOnly'
  BY <1>1 DEF PipeInv, runVars, HasStage, OnePerConfig, StartedFirst, OverIsEnd, NewestTells, Newest, Tells, Ended,
     Undisturbed, LateEnd, Running, HistoryOfRun, Adjacent, Of, LateFailureOnly
<1> QED
  BY <1>5, <1>6, <1>7 DEF PipeInv

LEMMA PipelineStarts == PipelineInit => PipeInv
<1> SUFFICES ASSUME PipelineInit PROVE PipeInv
  OBVIOUS
<1>1. DOMAIN store = {} /\ Len(store) = 0 /\ store \in Seq(Event \X (1..0)) /\ Len(Order) \in Nat
  BY PipelineAssumption DEF PipelineInit
<1>2. PipelineTypeOK
  BY <1>1, PipelineAssumption DEF PipelineInit, PipelineTypeOK
<1>3. (\A r \in Runs : HasStage(r)) /\ OnePerConfig
  BY DEF PipelineInit, HasStage, OnePerConfig, Running
<1>4. /\ StartedFirst /\ OverIsEnd /\ NewestTells /\ Undisturbed /\ HistoryOfRun /\ LateFailureOnly
      /\ ReplayComplete
  BY <1>1 DEF PipelineInit, StartedFirst, OverIsEnd, NewestTells, Undisturbed, HistoryOfRun, Of, LateFailureOnly,
     ReplayComplete
<1> QED
  BY <1>2, <1>3, <1>4 DEF PipeInv

LEMMA PipelineStepKeeps == PipeInv /\ [PipelineNext]_pipelineVars => PipeInv'
<1> SUFFICES ASSUME PipeInv, [PipelineNext]_pipelineVars PROVE PipeInv'
  OBVIOUS
<1>1. ASSUME NEW r \in Runs, StartPipeline(r) \/ Cancelled(r) \/ Unsatisfied(r) PROVE PipeInv'
  BY <1>1, QuietStep
<1>2. ASSUME NEW r \in Runs, StageStarted(r) \/ StageFinished(r) \/ StageFailed(r) \/ Completed(r) PROVE PipeInv'
  BY <1>2, StagesKeep
<1>3. ASSUME NEW r \in Runs, End(r) PROVE PipeInv'
  <2>1. CASE result[r] = "failed"
    BY <1>3, <2>1, StagesKeep
  <2>2. CASE UNCHANGED storeVars
    BY <1>3, <2>2, QuietStep
  <2> QED
    BY <1>3, <2>1, <2>2 DEF End
<1>4. CASE ReplaySince
  BY <1>4, ReplayKeeps
<1>5. CASE UNCHANGED pipelineVars
  <2>1. UNCHANGED runVars /\ UNCHANGED storeVars
    BY <1>5 DEF pipelineVars
  <2> QED
    BY <2>1 DEF runVars, storeVars, PipeInv, PipelineTypeOK, HasStage, OnePerConfig, StartedFirst, OverIsEnd, NewestTells,
       Newest, Tells, Ended, Undisturbed, LateEnd, Running, HistoryOfRun, Adjacent, Of, LateFailureOnly,
       ReplayComplete
<1> QED
  BY <1>1, <1>2, <1>3, <1>4, <1>5 DEF PipelineNext

THEOREM PipelineAlwaysKept == PipelineSpec => []PipeInv
BY PipelineStarts, PipelineStepKeeps, PTL DEF PipelineSpec

THEOREM HistoryTrue == PipelineSpec => []HistoryIsTrue
<1>1. PipeInv => HistoryIsTrue
  BY DEF PipeInv, HistoryIsTrue
<1> QED
  BY <1>1, PipelineAlwaysKept, PTL

-----------------------------------------------------------------------------
(* The lists of handlers *)

\* What a list has after its first entry is taken, and after one is appended.
LEMMA TailRange ==
  ASSUME NEW S, NEW s \in Seq(S), s # <<>>
  PROVE  /\ Head(s) \in Range(s) /\ Range(s) = {Head(s)} \union Range(Tail(s))
         /\ IsInjective(s) => IsInjective(Tail(s)) /\ Head(s) \notin Range(Tail(s))
<1>1. /\ Tail(s) \in Seq(S) /\ Len(Tail(s)) = Len(s) - 1 /\ Len(s) \in Nat \ {0}
      /\ \A i \in 1..Len(Tail(s)) : Tail(s)[i] = s[i + 1]
      /\ DOMAIN s = 1..Len(s) /\ DOMAIN Tail(s) = 1..Len(Tail(s)) /\ Head(s) = s[1]
  BY HeadTailProperties, EmptySeq, LenProperties
<1>2. Head(s) \in Range(s) /\ Range(Tail(s)) \subseteq Range(s)
  BY <1>1 DEF Range
<1>3. ASSUME NEW x \in Range(s), x # Head(s) PROVE x \in Range(Tail(s))
  <2>1. PICK i \in 1..Len(s) : s[i] = x
    BY <1>1 DEF Range
  <2>2. i # 1 /\ i - 1 \in 1..Len(Tail(s)) /\ (i - 1) + 1 = i
    BY <1>1, <1>3, <2>1
  <2>3. Tail(s)[i - 1] = x /\ i - 1 \in DOMAIN Tail(s)
    BY <1>1, <2>1, <2>2
  <2> QED
    BY <2>3 DEF Range
<1>4. ASSUME IsInjective(s) PROVE IsInjective(Tail(s)) /\ Head(s) \notin Range(Tail(s))
  BY <1>1, <1>4 DEF IsInjective, Range
<1> QED
  BY <1>2, <1>3, <1>4

LEMMA AppendRange ==
  ASSUME NEW S, NEW s \in Seq(S), NEW x \in S
  PROVE  Range(Append(s, x)) = Range(s) \union {x}
<1>1. /\ Append(s, x) \in Seq(S) /\ Len(Append(s, x)) = Len(s) + 1 /\ Len(s) \in Nat
      /\ \A i \in 1..Len(s) : Append(s, x)[i] = s[i]
      /\ Append(s, x)[Len(s) + 1] = x
      /\ DOMAIN s = 1..Len(s) /\ DOMAIN Append(s, x) = 1..(Len(s) + 1)
  BY AppendProperties, LenProperties
<1>2. \A y \in Range(s) : y \in Range(Append(s, x))
  BY <1>1 DEF Range
<1>3. x \in Range(Append(s, x))
  BY <1>1 DEF Range
<1>4. \A y \in Range(Append(s, x)) : y \in Range(s) \/ y = x
  BY <1>1 DEF Range
<1> QED
  BY <1>2, <1>3, <1>4

\* t is s with h after its first n entries, t is s without its entry n.
InsertedAt(n, h, s, t) ==
    /\ Len(t) = Len(s) + 1 /\ t[n + 1] = h
    /\ \A i \in 1..n : t[i] = s[i]
    /\ \A i \in (n + 2)..(Len(s) + 1) : t[i] = s[i - 1]
CutAt(n, s, t) ==
    /\ Len(t) = Len(s) - 1
    /\ \A i \in 1..(n - 1) : t[i] = s[i]
    /\ \A i \in n..(Len(s) - 1) : t[i] = s[i + 1]

\* A handler that may go there: none after it is called earlier, the one before it not later.
Fits(n, h, s) ==
    /\ \A j \in (n + 1)..Len(s) : Priority[h] < Priority[s[j]]
    /\ n > 0 => Priority[h] >= Priority[s[n]]

\* Where a handler is inserted: after those that are not called later than it.
LEMMA InsertedMeans ==
  ASSUME BusAssumption, NEW S, S \subseteq Handlers, NEW h \in S, NEW s \in Seq(S)
  PROVE  Inserted(h, s) \in Seq(S) /\ \E n \in 0..Len(s) : Fits(n, h, s) /\ InsertedAt(n, h, s, Inserted(h, s))
<1> DEFINE Place(i) == /\ \A j \in (i + 1)..Len(s) : Priority[h] < Priority[s[j]]
                       /\ i > 0 => Priority[h] >= Priority[s[i]]
           Latest == {i \in 0..Len(s) : \A j \in (i + 1)..Len(s) : Priority[h] < Priority[s[j]]}
           n == CHOOSE i \in 0..Len(s) : Place(i)
<1>1. /\ Len(s) \in Nat /\ \A i \in 1..Len(s) : s[i] \in S
      /\ \A g \in S : Priority[g] \in Nat
  BY DEF BusAssumption
<1>2. \E i \in 0..Len(s) : Place(i)
  <2>1. Len(s) \in Latest /\ Latest \subseteq Nat
    BY <1>1
  <2>2. PICK i \in Latest : \A k \in Latest : i <= k
    <3> HIDE DEF Latest
    <3> QED
      BY <2>1, MinIsLeast
  <2>3. ASSUME i > 0 PROVE Priority[h] >= Priority[s[i]]
    <3>0. i \in 1..Len(s) /\ i - 1 \in 0..Len(s) /\ ~(i <= i - 1)
      BY <1>1, <2>2, <2>3
    <3>1. i - 1 \in 0..Len(s) /\ i - 1 \notin Latest /\ i \in 1..Len(s)
      <4> HIDE DEF Latest
      <4> QED
        BY <2>2, <3>0
    <3>2. PICK j \in ((i - 1) + 1)..Len(s) : ~(Priority[h] < Priority[s[j]])
      BY <3>1 DEF Latest
    <3>3. j = i
      <4>1. j \in i..Len(s) /\ (j \in (i + 1)..Len(s) \/ j = i)
        BY <1>1, <3>1, <3>2
      <4> QED
        BY <2>2, <3>2, <4>1 DEF Latest
    <3>4. Priority[h] \in Nat /\ Priority[s[i]] \in Nat
      BY <1>1, <3>1
    <3> QED
      BY <3>2, <3>3, <3>4
  <2> QED
    BY <2>2, <2>3
<1>3. n \in 0..Len(s) /\ Place(n)
  BY <1>2
<1>4. Inserted(h, s) = SubSeq(s, 1, n) \o <<h>> \o SubSeq(s, n + 1, Len(s))
  BY DEF Inserted
<1> HIDE DEF n
<1> DEFINE a == SubSeq(s, 1, n)
           b == SubSeq(s, n + 1, Len(s))
           c == a \o <<h>>
<1>5. /\ a \in Seq(S) /\ Len(a) = n /\ \A i \in 1..n : a[i] = s[i]
  <2>1. n \in Nat /\ \A i \in 1..n : s[i] \in S
    BY <1>1, <1>3
  <2>2. /\ a \in Seq(S) /\ Len(a) = (IF 1 <= n THEN n - 1 + 1 ELSE 0)
        /\ \A i \in 1..(n - 1 + 1) : a[i] = s[1 + i - 1]
    BY <2>1, SubSeqProperties
  <2> QED
    BY <2>1, <2>2
<1>6. b \in Seq(S) /\ Len(b) = Len(s) - n /\ \A i \in 1..(Len(s) - n) : b[i] = s[n + i]
  <2>1. n + 1 \in Int /\ Len(s) \in Int /\ \A i \in (n + 1)..Len(s) : s[i] \in S
    BY <1>1, <1>3
  <2>2. /\ b \in Seq(S) /\ Len(b) = (IF n + 1 <= Len(s) THEN Len(s) - (n + 1) + 1 ELSE 0)
        /\ \A i \in 1..(Len(s) - (n + 1) + 1) : b[i] = s[(n + 1) + i - 1]
    BY <2>1, SubSeqProperties
  <2>3. n \in Nat /\ Len(s) \in Nat /\ n <= Len(s)
    BY <1>1, <1>3
  <2>4. /\ Len(s) - (n + 1) + 1 = Len(s) - n
        /\ (IF n + 1 <= Len(s) THEN Len(s) - (n + 1) + 1 ELSE 0) = Len(s) - n
    BY <2>3
  <2>5. \A i \in 1..(Len(s) - n) : (n + 1) + i - 1 = n + i
    BY <2>3
  <2> QED
    BY <2>2, <2>4, <2>5
<1> HIDE DEF a, b
<1>7. c \in Seq(S) /\ Len(c) = n + 1 /\ c[n + 1] = h /\ \A i \in 1..n : c[i] = s[i]
  <2>1. <<h>> \in Seq(S) /\ Len(<<h>>) = 1 /\ <<h>>[1] = h
    OBVIOUS
  <2>2. /\ c \in Seq(S) /\ Len(c) = n + 1
        /\ \A i \in 1..(n + 1) : c[i] = IF i <= n THEN a[i] ELSE <<h>>[i - n]
    BY <1>5, <2>1, ConcatProperties
  <2>3. n \in Nat /\ n + 1 \in 1..(n + 1) /\ ~(n + 1 <= n) /\ (n + 1) - n = 1
    BY <1>1, <1>3
  <2>4. c[n + 1] = h
    BY <2>1, <2>2, <2>3
  <2>5. \A i \in 1..n : i \in 1..(n + 1) /\ i <= n
    BY <2>3
  <2> QED
    BY <1>5, <2>2, <2>4, <2>5
<1>8. Inserted(h, s) = c \o b
  BY <1>4 DEF a, b
<1> HIDE DEF c
<1>9. /\ c \o b \in Seq(S) /\ Len(c \o b) = Len(s) + 1
      /\ \A i \in 1..(Len(s) + 1) : (c \o b)[i] = IF i <= n + 1 THEN c[i] ELSE b[i - (n + 1)]
  <2>1. /\ c \o b \in Seq(S) /\ Len(c \o b) = Len(c) + Len(b)
        /\ \A i \in 1..(Len(c) + Len(b)) : (c \o b)[i] = IF i <= Len(c) THEN c[i] ELSE b[i - Len(c)]
    BY <1>6, <1>7, ConcatProperties
  <2>2. Len(c) = n + 1 /\ Len(c) + Len(b) = Len(s) + 1
    BY <1>1, <1>3, <1>6, <1>7
  <2> QED
    BY <2>1, <2>2
<1>10. \A i \in 1..(n + 1) : Inserted(h, s)[i] = c[i]
  BY <1>1, <1>3, <1>8, <1>9
<1>11. ASSUME NEW i \in (n + 2)..(Len(s) + 1) PROVE Inserted(h, s)[i] = s[i - 1]
  <2>1. Inserted(h, s)[i] = b[i - (n + 1)]
    BY <1>1, <1>3, <1>8, <1>9
  <2>2. i - (n + 1) \in 1..(Len(s) - n) /\ n + (i - (n + 1)) = i - 1
    BY <1>1, <1>3
  <2> QED
    BY <1>6, <2>1, <2>2
<1>12. Inserted(h, s)[n + 1] = h /\ \A i \in 1..n : Inserted(h, s)[i] = s[i]
  BY <1>1, <1>3, <1>7, <1>10
<1>13. Inserted(h, s) \in Seq(S) /\ Len(Inserted(h, s)) = Len(s) + 1
  BY <1>1, <1>3, <1>8, <1>9
<1> QED
  BY <1>3, <1>11, <1>12, <1>13 DEF Fits, InsertedAt

\* A list without one of its handlers: the others keep their order.
LEMMA WithoutMeans ==
  ASSUME NEW S, NEW h, NEW s \in Seq(S), h \in Range(s)
  PROVE  Without(h, s) \in Seq(S) /\ \E n \in 1..Len(s) : CutAt(n, s, Without(h, s))
<1> DEFINE n == CHOOSE i \in DOMAIN s : s[i] = h
           a == SubSeq(s, 1, n - 1)
           b == SubSeq(s, n + 1, Len(s))
<1>1. Len(s) \in Nat /\ DOMAIN s = 1..Len(s) /\ \A i \in 1..Len(s) : s[i] \in S
  OBVIOUS
<1>2. n \in 1..Len(s) /\ Without(h, s) = a \o b
  BY <1>1 DEF Range, Without
<1> HIDE DEF n
<1>3. a \in Seq(S) /\ Len(a) = n - 1 /\ \A i \in 1..(n - 1) : a[i] = s[i]
  <2>1. n - 1 \in Int /\ \A i \in 1..(n - 1) : s[i] \in S
    BY <1>1, <1>2
  <2>2. /\ a \in Seq(S) /\ Len(a) = (IF 1 <= n - 1 THEN (n - 1) - 1 + 1 ELSE 0)
        /\ \A i \in 1..((n - 1) - 1 + 1) : a[i] = s[1 + i - 1]
    BY <2>1, SubSeqProperties
  <2> QED
    BY <1>1, <1>2, <2>1, <2>2
<1>4. b \in Seq(S) /\ Len(b) = Len(s) - n /\ \A i \in 1..(Len(s) - n) : b[i] = s[n + i]
  <2>1. n + 1 \in Int /\ Len(s) \in Int /\ \A i \in (n + 1)..Len(s) : s[i] \in S
    BY <1>1, <1>2
  <2>2. /\ b \in Seq(S) /\ Len(b) = (IF n + 1 <= Len(s) THEN Len(s) - (n + 1) + 1 ELSE 0)
        /\ \A i \in 1..(Len(s) - (n + 1) + 1) : b[i] = s[(n + 1) + i - 1]
    BY <2>1, SubSeqProperties
  <2>0. n \in 1..Len(s) /\ Len(s) \in Nat
    BY <1>1, <1>2
  <2>3. /\ Len(s) - (n + 1) + 1 = Len(s) - n
        /\ (IF n + 1 <= Len(s) THEN Len(s) - (n + 1) + 1 ELSE 0) = Len(s) - n
    BY <2>0
  <2>4. \A i \in 1..(Len(s) - n) : (n + 1) + i - 1 = n + i
    BY <1>1, <1>2
  <2> QED
    BY <2>2, <2>3, <2>4
<1> HIDE DEF a, b
<1>5. /\ a \o b \in Seq(S) /\ Len(a \o b) = Len(s) - 1
      /\ \A i \in 1..(Len(s) - 1) : (a \o b)[i] = IF i <= n - 1 THEN a[i] ELSE b[i - (n - 1)]
  <2>1. /\ a \o b \in Seq(S) /\ Len(a \o b) = Len(a) + Len(b)
        /\ \A i \in 1..(Len(a) + Len(b)) : (a \o b)[i] = IF i <= Len(a) THEN a[i] ELSE b[i - Len(a)]
    BY <1>3, <1>4, ConcatProperties
  <2>2. Len(a) = n - 1 /\ Len(a) + Len(b) = Len(s) - 1
    BY <1>1, <1>2, <1>3, <1>4
  <2> QED
    BY <2>1, <2>2
<1>6. \A i \in 1..(n - 1) : Without(h, s)[i] = s[i]
  BY <1>1, <1>2, <1>3, <1>5
<1>7. ASSUME NEW i \in n..(Len(s) - 1) PROVE Without(h, s)[i] = s[i + 1]
  <2>1. Without(h, s)[i] = b[i - (n - 1)]
    BY <1>1, <1>2, <1>5
  <2>2. i - (n - 1) \in 1..(Len(s) - n) /\ n + (i - (n - 1)) = i + 1
    BY <1>1, <1>2
  <2> QED
    BY <1>4, <2>1, <2>2
<1> QED
  BY <1>2, <1>5, <1>6, <1>7 DEF CutAt

-----------------------------------------------------------------------------
(* The order of the handlers *)

\* A list is in order when each handler is called before those it has precedence over.
CalledBefore(g, h) ==
    \/ Priority[g] < Priority[h]
    \/ Priority[g] = Priority[h] /\ SubscribedBefore(g, h)
InOrder(s) == \A i, j \in 1..Len(s) : i < j => CalledBefore(s[i], s[j])

\* A subscription is the last one so far.
LEMMA LastSubscribed ==
  ASSUME NEW h \in Handlers, since \in Seq(Handlers), since' = Append(since, h)
  PROVE  /\ since' \in Seq(Handlers) /\ Range(since') = Range(since) \union {h}
         /\ \A f, g \in Handlers : SubscribedBefore(f, g) => SubscribedBefore(f, g)'
         /\ \A g \in Range(since) : SubscribedBefore(g, h)'
<1>1. /\ since' \in Seq(Handlers) /\ Len(since') = Len(since) + 1 /\ Len(since) \in Nat
      /\ \A i \in 1..Len(since) : since'[i] = since[i]
      /\ since'[Len(since) + 1] = h /\ DOMAIN since = 1..Len(since)
  BY AppendProperties, LenProperties
<1>2. Range(since') = Range(since) \union {h}
  BY AppendRange
<1>3. ASSUME NEW f \in Handlers, NEW g \in Handlers, SubscribedBefore(f, g)
      PROVE  SubscribedBefore(f, g)'
  <2>1. PICK i \in 1..Len(since), j \in 1..Len(since) : i < j /\ since[i] = f /\ since[j] = g
    BY <1>3 DEF SubscribedBefore
  <2>2. i \in 1..Len(since') /\ j \in 1..Len(since') /\ since'[i] = f /\ since'[j] = g
    BY <1>1, <2>1
  <2> QED
    BY <2>1, <2>2 DEF SubscribedBefore
<1>4. ASSUME NEW g \in Range(since) PROVE SubscribedBefore(g, h)'
  <2>1. PICK i \in 1..Len(since) : since[i] = g
    BY <1>1 DEF Range
  <2>2. i \in 1..Len(since') /\ Len(since') \in 1..Len(since') /\ i < Len(since') /\ since'[i] = g
        /\ since'[Len(since')] = h
    BY <1>1, <2>1
  <2> QED
    BY <2>2 DEF SubscribedBefore
<1> QED
  BY <1>1, <1>2, <1>3, <1>4

LEMMA InsertedKeeps ==
  ASSUME BusAssumption, NEW S, S \subseteq Handlers, NEW h \in S, NEW s \in Seq(S),
         h \notin Range(s), IsInjective(s)
  PROVE  /\ Inserted(h, s) \in Seq(S) /\ IsInjective(Inserted(h, s))
         /\ Range(Inserted(h, s)) = Range(s) \union {h}
<1> DEFINE t == Inserted(h, s)
<1>0. Inserted(h, s) \in Seq(S) /\ \E n \in 0..Len(s) : Fits(n, h, s) /\ InsertedAt(n, h, s, Inserted(h, s))
  BY InsertedMeans
<1>1. PICK n \in 0..Len(s) : InsertedAt(n, h, s, t)
  BY <1>0
<1>2. Len(s) \in Nat /\ DOMAIN s = 1..Len(s) /\ DOMAIN t = 1..(Len(s) + 1) /\ t \in Seq(S)
      /\ n \in Nat
  BY <1>0, <1>1, LenProperties DEF InsertedAt
<1> HIDE DEF t
<1>3. \A i \in 1..(Len(s) + 1) :
         \/ i < n + 1 /\ i \in DOMAIN s /\ t[i] = s[i]
         \/ i = n + 1 /\ t[i] = h
         \/ i > n + 1 /\ i - 1 \in DOMAIN s /\ t[i] = s[i - 1]
  BY <1>1, <1>2 DEF InsertedAt
<1>4. ASSUME NEW i \in DOMAIN t, NEW j \in DOMAIN t, t[i] = t[j], i < j PROVE FALSE
  <2>0. i \in 1..(Len(s) + 1) /\ j \in 1..(Len(s) + 1)
    BY <1>2, <1>4
  <2>1. \/ j < n + 1 /\ j \in DOMAIN s /\ t[j] = s[j]
        \/ j = n + 1 /\ t[j] = h
        \/ j > n + 1 /\ j - 1 \in DOMAIN s /\ t[j] = s[j - 1]
    BY <1>3, <2>0
  <2>2. \A k \in DOMAIN s : s[k] # h
    BY DEF Range
  <2>3. \A k, l \in DOMAIN s : s[k] = s[l] => k = l
    BY DEF IsInjective
  <2>4. CASE i < n + 1 /\ i \in DOMAIN s /\ t[i] = s[i]
    <3>1. CASE j < n + 1 /\ j \in DOMAIN s /\ t[j] = s[j]
      <4>1. i = j
        BY <1>4, <2>3, <2>4, <3>1
      <4> QED
        BY <1>4, <2>0, <4>1
    <3>2. CASE j = n + 1 /\ t[j] = h
      BY <1>4, <2>2, <2>4, <3>2
    <3>3. CASE j > n + 1 /\ j - 1 \in DOMAIN s /\ t[j] = s[j - 1]
      <4>1. i = j - 1
        BY <1>4, <2>3, <2>4, <3>3
      <4> QED
        BY <1>2, <2>0, <2>4, <3>3, <4>1
    <3> QED
      BY <2>1, <3>1, <3>2, <3>3
  <2>5. CASE i = n + 1 /\ t[i] = h
    <3>1. j - 1 \in DOMAIN s /\ t[j] = s[j - 1]
      BY <1>2, <1>4, <2>0, <2>1, <2>5
    <3> QED
      BY <1>4, <2>2, <2>5, <3>1
  <2>6. CASE i > n + 1 /\ i - 1 \in DOMAIN s /\ t[i] = s[i - 1]
    <3>1. j > n + 1 /\ j - 1 \in DOMAIN s /\ t[j] = s[j - 1]
      <4>0. i \in Nat /\ j \in Nat /\ n \in Nat /\ i < j /\ i > n + 1
        <5>1. Len(s) \in Nat /\ n \in Nat
          BY <1>2
        <5>2. i \in Nat /\ j \in Nat
          BY <2>0, <5>1
        <5> QED
          BY <1>4, <2>6, <5>1, <5>2
      <4>1. j > n + 1 /\ ~(j < n + 1) /\ j # n + 1
        BY <4>0
      <4> QED
        BY <2>1, <4>1
    <3>2. i - 1 = j - 1
      BY <1>4, <2>3, <2>6, <3>1
    <3> QED
      BY <1>4, <2>0, <3>2
  <2> QED
    BY <1>3, <2>0, <2>4, <2>5, <2>6
<1>5. IsInjective(t)
  BY <1>2, <1>4 DEF IsInjective
<1>6. \A i \in DOMAIN t : t[i] \in Range(s) \union {h}
  BY <1>2, <1>3 DEF Range
<1>7. h \in Range(t)
  BY <1>1, <1>2, SMTT(20) DEF Range, InsertedAt
<1>8. ASSUME NEW k \in DOMAIN s PROVE s[k] \in Range(t)
  <2>1. CASE k < n + 1
    <3>1. k \in DOMAIN t /\ t[k] = s[k]
      BY <1>1, <1>2, <2>1 DEF InsertedAt
    <3> QED
      BY <3>1 DEF Range
  <2>2. CASE ~(k < n + 1)
    <3>0. k \in 1..Len(s) /\ n \in Nat /\ Len(s) \in Nat
      BY <1>2
    <3>1. k + 1 \in (n + 2)..(Len(s) + 1) /\ (k + 1) - 1 = k /\ k + 1 \in DOMAIN t
      <4>1. k + 1 \in (n + 2)..(Len(s) + 1) /\ (k + 1) - 1 = k /\ k + 1 \in 1..(Len(s) + 1)
        BY <2>2, <3>0
      <4> QED
        BY <1>2, <4>1
    <3>2. t[k + 1] = s[k]
      BY <1>1, <3>1 DEF InsertedAt
    <3> QED
      BY <3>1, <3>2 DEF Range
  <2> QED
    BY <2>1, <2>2
<1>9. Range(t) = Range(s) \union {h}
  BY <1>6, <1>7, <1>8 DEF Range
<1> QED
  BY <1>2, <1>5, <1>9 DEF t

LEMMA InsertedInOrder ==
  ASSUME BusAssumption, NEW S, S \subseteq Handlers, NEW h \in S, NEW s \in Seq(S),
         Range(s) \subseteq Range(since), InOrder(s),
         since \in Seq(Handlers), since' = Append(since, h)
  PROVE  \A t : t = Inserted(h, s) => InOrder(t)'
<1> SUFFICES ASSUME NEW t, t = Inserted(h, s) PROVE InOrder(t)'
  OBVIOUS
<1> DEFINE EarlierNext(f, g) == CalledBefore(f, g)'
<1>0. Inserted(h, s) \in Seq(S) /\ \E n \in 0..Len(s) : Fits(n, h, s) /\ InsertedAt(n, h, s, Inserted(h, s))
  BY InsertedMeans
<1>1. PICK n \in 0..Len(s) : Fits(n, h, s) /\ InsertedAt(n, h, s, t)
  BY <1>0
<1>2. /\ Len(s) \in Nat /\ DOMAIN s = 1..Len(s) /\ Len(t) = Len(s) + 1 /\ n \in Nat
      /\ \A i \in 1..Len(s) : s[i] \in Handlers /\ Priority[s[i]] \in Nat
      /\ Priority[h] \in Nat
  BY <1>1, LenProperties DEF BusAssumption, InsertedAt
<1>3. \A i \in 1..(Len(s) + 1) :
         \/ i < n + 1 /\ i \in 1..Len(s) /\ t[i] = s[i]
         \/ i = n + 1 /\ t[i] = h
         \/ i > n + 1 /\ i - 1 \in 1..Len(s) /\ i - 1 > n /\ t[i] = s[i - 1]
  BY <1>1, <1>2 DEF InsertedAt
<1>4. ASSUME NEW i \in 1..Len(s), NEW j \in 1..Len(s), i < j
      PROVE  EarlierNext(s[i], s[j]) /\ Priority[s[i]] <= Priority[s[j]]
  <2>1. CalledBefore(s[i], s[j])
    BY <1>4 DEF InOrder
  <2> QED
    BY <1>2, <2>1, LastSubscribed DEF CalledBefore
<1>5. ASSUME NEW i \in 1..Len(s), i <= n PROVE EarlierNext(s[i], h)
  <2>1. n \in 1..Len(s) /\ Priority[s[n]] <= Priority[h]
    BY <1>1, <1>2, <1>5 DEF Fits
  <2>2. Priority[s[i]] <= Priority[s[n]]
    BY <1>2, <1>4, <1>5, <2>1
  <2>3. Priority[s[i]] <= Priority[h]
    BY <1>2, <2>1, <2>2
  <2>4. SubscribedBefore(s[i], h)'
    BY <1>2, LastSubscribed DEF Range
  <2> QED
    BY <1>2, <2>3, <2>4 DEF CalledBefore
<1>6. ASSUME NEW j \in 1..Len(s), j > n PROVE EarlierNext(h, s[j])
  <2>1. Priority[h] < Priority[s[j]]
    BY <1>1, <1>2, <1>6 DEF Fits
  <2> QED
    BY <2>1 DEF CalledBefore
<1> HIDE DEF EarlierNext
<1>7. ASSUME NEW i \in 1..(Len(s) + 1), NEW j \in 1..(Len(s) + 1), i < j
      PROVE  EarlierNext(t[i], t[j])
  <2>0. \/ j < n + 1 /\ j \in 1..Len(s) /\ t[j] = s[j]
        \/ j = n + 1 /\ t[j] = h
        \/ j > n + 1 /\ j - 1 \in 1..Len(s) /\ j - 1 > n /\ t[j] = s[j - 1]
    BY <1>3
  <2>1. CASE i < n + 1 /\ i \in 1..Len(s) /\ t[i] = s[i]
    <3>1. CASE j = n + 1
      BY <1>2, <1>5, <2>0, <2>1, <3>1
    <3>2. CASE j # n + 1
      <4>1. \E k \in 1..Len(s) : i < k /\ t[j] = s[k]
        <5>1. CASE j < n + 1 /\ j \in 1..Len(s) /\ t[j] = s[j]
          BY <1>7, <5>1
        <5>2. CASE j > n + 1 /\ j - 1 \in 1..Len(s) /\ j - 1 > n /\ t[j] = s[j - 1]
          <6>1. i < j - 1
            BY <1>2, <2>1, <5>2
          <6> QED
            BY <5>2, <6>1
        <5> QED
          BY <2>0, <3>2, <5>1, <5>2
      <4> QED
        BY <1>4, <2>1, <4>1
    <3> QED
      BY <3>1, <3>2
  <2>2. CASE i = n + 1 /\ t[i] = h
    <3>1. \E k \in 1..Len(s) : k > n /\ t[j] = s[k]
      <4>1. j > n + 1 /\ ~(j < n + 1) /\ j # n + 1
        BY <1>2, <1>7, <2>2
      <4>2. j - 1 \in 1..Len(s) /\ j - 1 > n /\ t[j] = s[j - 1]
        BY <2>0, <4>1
      <4> QED
        BY <4>2
    <3> QED
      BY <1>6, <2>2, <3>1
  <2>3. CASE i > n + 1 /\ i - 1 \in 1..Len(s) /\ i - 1 > n /\ t[i] = s[i - 1]
    <3>1. \E k \in 1..Len(s) : i - 1 < k /\ t[j] = s[k]
      <4>1. j > n + 1 /\ ~(j < n + 1) /\ j # n + 1 /\ i - 1 < j - 1
        BY <1>2, <1>7, <2>3
      <4>2. j - 1 \in 1..Len(s) /\ t[j] = s[j - 1]
        BY <2>0, <4>1
      <4> QED
        BY <4>1, <4>2
    <3> QED
      BY <1>4, <2>3, <3>1
  <2> QED
    BY <1>3, <2>1, <2>2, <2>3
<1> QED
  BY <1>2, <1>7 DEF InOrder, EarlierNext

LEMMA WithoutKeeps ==
  ASSUME NEW S, NEW h, NEW s \in Seq(S), IsInjective(s), InOrder(s)
  PROVE  /\ Without(h, s) \in Seq(S) /\ IsInjective(Without(h, s)) /\ InOrder(Without(h, s))
         /\ Range(Without(h, s)) \subseteq Range(s)
<1> DEFINE t == Without(h, s)
<1>1. CASE h \notin Range(s)
  BY <1>1 DEF Without
<1>2. CASE h \in Range(s)
  <2>0. Without(h, s) \in Seq(S) /\ \E n \in 1..Len(s) : CutAt(n, s, Without(h, s))
    BY <1>2, WithoutMeans
  <2>1. PICK n \in 1..Len(s) : CutAt(n, s, t)
    BY <2>0
  <2>2. /\ Len(s) \in Nat /\ DOMAIN s = 1..Len(s) /\ DOMAIN t = 1..(Len(s) - 1) /\ t \in Seq(S)
        /\ n \in Nat
    BY <2>0, <2>1, LenProperties DEF CutAt
  <2> HIDE DEF t
  <2>3. \A i \in 1..(Len(s) - 1) :
           \/ i < n /\ i \in 1..Len(s) /\ t[i] = s[i]
           \/ i >= n /\ i + 1 \in 1..Len(s) /\ t[i] = s[i + 1]
    BY <2>1, <2>2 DEF CutAt
  <2>4. IsInjective(t)
    <3>1. \A k, l \in DOMAIN s : s[k] = s[l] => k = l
      BY DEF IsInjective
    <3>2. ASSUME NEW k \in 1..(Len(s) - 1), NEW l \in 1..(Len(s) - 1), t[k] = t[l] PROVE k = l
      <4>1. \/ l < n /\ l \in DOMAIN s /\ t[l] = s[l]
            \/ l >= n /\ l + 1 \in DOMAIN s /\ t[l] = s[l + 1]
        BY <2>2, <2>3
      <4>2. CASE k < n /\ k \in DOMAIN s /\ t[k] = s[k]
        BY <2>2, <3>1, <3>2, <4>1, <4>2
      <4>3. CASE k >= n /\ k + 1 \in DOMAIN s /\ t[k] = s[k + 1]
        BY <2>2, <3>1, <3>2, <4>1, <4>3
      <4> QED
        BY <2>2, <2>3, <4>2, <4>3
    <3> QED
      BY <2>2, <3>2 DEF IsInjective
  <2>5. Range(t) \subseteq Range(s)
    BY <2>2, <2>3 DEF Range
  <2>6. InOrder(t)
    <3>1. Len(t) = Len(s) - 1
      BY <2>1 DEF CutAt
    <3> QED
      BY <2>2, <2>3, <3>1 DEF InOrder
  <2> QED
    BY <2>2, <2>4, <2>5, <2>6 DEF t
<1> QED
  BY <1>1, <1>2

-----------------------------------------------------------------------------
(* What is owed *)

\* The pairs whose call is ahead, and those whose handler has failed for good.
Ahead == {p \in Pairs : p[2] \in Range(toCall[p[1]])}
FailedForGood == Range(dlq) \union lost \union Range(copy)

\* Every pair that is owed is in one of three places.
Accounted ==
    /\ owed = Ahead \union done \union FailedForGood
    /\ Ahead \intersect done = {} /\ Ahead \intersect FailedForGood = {} /\ done \intersect FailedForGood = {}

\* A publication calls each handler once, and owes nothing before it begins.
Publications ==
    \A e \in Events :
        /\ IsInjective(toCall[e])
        /\ publication[e] # "calling" => toCall[e] = <<>>
        /\ publication[e] = "new" => \A p \in owed : p[1] # e

\* Who is on a list has subscribed.
Subscribed == Range(typed) \union Range(wild) \subseteq Range(since)

Copied == retry = "no" => copy = <<>>

BusInv == BusTypeOK /\ PriorityOrder /\ Subscribed /\ Accounted /\ Publications /\ Copied

LEMMA BusInvMeans == ASSUME BusInv PROVE NoEventForgotten
<1>1. ASSUME NEW p \in owed, publication[p[1]] = "over"
      PROVE  (p \in done) # (p \in Range(dlq) \union lost \union Range(copy))
  <2>1. p \in Pairs /\ p[1] \in Events
    BY DEF BusInv, BusTypeOK, Pairs
  <2>2. toCall[p[1]] = <<>>
    BY <1>1, <2>1 DEF BusInv, Publications
  <2>3. p \notin Ahead
    BY <2>2 DEF Ahead, Range
  <2>4. p \in done \union FailedForGood /\ ~(p \in done /\ p \in FailedForGood)
    BY <2>3 DEF BusInv, Accounted
  <2>5. CASE p \in done
    BY <2>4, <2>5 DEF FailedForGood
  <2>6. CASE p \notin done
    BY <2>4, <2>6 DEF FailedForGood
  <2> QED
    BY <2>5, <2>6
<1> QED
  BY <1>1 DEF BusInv, NoEventForgotten, NothingUnaccounted

LEMMA BusStarts == BusInit => BusInv
<1> SUFFICES ASSUME BusInit PROVE BusInv
  OBVIOUS
<1>1. Range(<<>>) = {} /\ DOMAIN <<>> = {} /\ Len(<<>>) = 0
  BY DEF Range
<1>2. BusTypeOK
  <2>1. /\ typed = <<>> /\ wild = <<>> /\ since = <<>> /\ dlq = <<>> /\ copy = <<>>
        /\ IsInjective(typed) /\ IsInjective(wild)
        /\ Len(dlq) <= DlqCapacity /\ Len(copy) <= DlqCapacity
    BY <1>1, BusAssumption DEF BusInit, IsInjective
  <2>2. /\ typed \in Seq(Handlers \ Wild) /\ wild \in Seq(Wild) /\ since \in Seq(Handlers)
        /\ dlq \in Seq(Pairs) /\ copy \in Seq(Pairs)
    BY <2>1, EmptySeq
  <2>3. toCall \in [Events -> Seq(Handlers)] /\ publication \in [Events -> {"new", "calling", "over"}]
    BY EmptySeq DEF BusInit
  <2>4. attempt \in [Events -> 0..(MaxAttempts - 1)]
    BY BusAssumption DEF BusInit
  <2>5. /\ done \subseteq Pairs /\ owed \subseteq Pairs /\ lost \subseteq Pairs
        /\ retry \in {"no", "running"} /\ nilCall \in BOOLEAN /\ cancelled \subseteq Events
    BY DEF BusInit
  <2> QED
    BY <2>1, <2>2, <2>3, <2>4, <2>5 DEF BusTypeOK
<1>3. PriorityOrder /\ Subscribed /\ Copied
  BY <1>1 DEF BusInit, PriorityOrder, Subscribed, Copied
<1>4. Publications
  BY <1>1 DEF BusInit, Publications, IsInjective
<1>5. Accounted
  <2>1. Ahead = {}
    BY <1>1 DEF BusInit, Ahead, Pairs
  <2> QED
    BY <1>1, <2>1 DEF BusInit, Accounted, FailedForGood
<1> QED
  BY <1>2, <1>3, <1>4, <1>5 DEF BusInv

\* The subscriptions change.
LEMMA SubscribeKeeps ==
  ASSUME BusInv, NEW h \in Handlers, Subscribe(h)
  PROVE  BusInv'
<1>1. /\ since' = Append(since, h) /\ since \in Seq(Handlers) /\ h \notin Range(since)
      /\ typed \in Seq(Handlers \ Wild) /\ wild \in Seq(Wild) /\ Wild \subseteq Handlers
      /\ IsInjective(typed) /\ IsInjective(wild)
      /\ Range(typed) \subseteq Range(since) /\ Range(wild) \subseteq Range(since)
      /\ h \notin Range(typed) /\ h \notin Range(wild)
      /\ UNCHANGED queue /\ UNCHANGED calls
  BY BusAssumption DEF Subscribe, BusInv, BusTypeOK, Subscribed
<1>2. InOrder(typed) /\ InOrder(wild)
  BY DEF BusInv, PriorityOrder, InOrder, CalledBefore
<1>3. since' \in Seq(Handlers) /\ Range(since') = Range(since) \union {h}
  BY <1>1, LastSubscribed
<1>4. ASSUME NEW S, S \subseteq Handlers, NEW s \in Seq(S), Range(s) \subseteq Range(since), InOrder(s)
      PROVE  InOrder(s)'
  <2>1. ASSUME NEW i \in 1..Len(s), NEW j \in 1..Len(s), i < j PROVE CalledBefore(s[i], s[j])'
    <3>1. CalledBefore(s[i], s[j]) /\ s[i] \in Handlers /\ s[j] \in Handlers
      BY <1>4, <2>1, ElementOfSeq DEF InOrder
    <3> QED
      BY <1>1, <3>1, LastSubscribed DEF CalledBefore
  <2> QED
    BY <2>1 DEF InOrder
<1>5. /\ typed' \in Seq(Handlers \ Wild) /\ wild' \in Seq(Wild) /\ IsInjective(typed') /\ IsInjective(wild')
      /\ Range(typed') \union Range(wild') \subseteq Range(since')
      /\ (\A s : s = typed' => InOrder(s)') /\ (\A s : s = wild' => InOrder(s)')
  <2>1. CASE h \in Wild
    <3>1. wild' = Inserted(h, wild) /\ typed' = typed
      BY <2>1 DEF Subscribe
    <3>2. /\ Inserted(h, wild) \in Seq(Wild) /\ IsInjective(Inserted(h, wild))
          /\ Range(Inserted(h, wild)) = Range(wild) \union {h}
      BY <1>1, <2>1, BusAssumption, InsertedKeeps
    <3>3. \A s : s = Inserted(h, wild) => InOrder(s)'
      BY <1>1, <1>2, <2>1, BusAssumption, InsertedInOrder
    <3>4. InOrder(typed)'
      <4>1. \A s : s = typed => InOrder(s)'
        BY <1>1, <1>2, <1>4
      <4> QED
        BY <3>1, <4>1 DEF InOrder
    <3> QED
      BY <1>1, <1>3, <3>1, <3>2, <3>3, <3>4 DEF InOrder
  <2>2. CASE h \notin Wild
    <3>1. typed' = Inserted(h, typed) /\ wild' = wild
      BY <2>2 DEF Subscribe
    <3>2. /\ Inserted(h, typed) \in Seq(Handlers \ Wild) /\ IsInjective(Inserted(h, typed))
          /\ Range(Inserted(h, typed)) = Range(typed) \union {h}
      <4>1. Handlers \ Wild \subseteq Handlers /\ h \in Handlers \ Wild
        BY <2>2
      <4> QED
        BY <1>1, <4>1, BusAssumption, InsertedKeeps
    <3>3. \A s : s = Inserted(h, typed) => InOrder(s)'
      <4>1. Handlers \ Wild \subseteq Handlers /\ h \in Handlers \ Wild
        BY <2>2
      <4> QED
        BY <1>1, <1>2, <4>1, BusAssumption, InsertedInOrder
    <3>4. \A s : s = wild => InOrder(s)'
      BY <1>1, <1>2, <1>4
    <3> QED
      BY <1>1, <1>3, <3>1, <3>2, <3>3, <3>4
  <2> QED
    BY <2>1, <2>2
<1>6. PriorityOrder'
  <2>1. ASSUME NEW s \in {typed', wild'} PROVE InOrder(s)'
    BY <1>5, <2>1
  <2> QED
    BY <2>1 DEF PriorityOrder, InOrder, CalledBefore
<1>7. BusTypeOK' /\ Subscribed'
  BY <1>1, <1>3, <1>5 DEF BusInv, BusTypeOK, Subscribed, queue, calls
<1>8. Accounted' /\ Publications' /\ Copied'
  BY <1>1 DEF BusInv, queue, calls, Accounted, Ahead, FailedForGood, Publications, Copied
<1> QED
  BY <1>6, <1>7, <1>8 DEF BusInv

LEMMA UnsubscribeKeeps ==
  ASSUME BusInv, NEW h \in Handlers, Unsubscribe(h)
  PROVE  BusInv'
<1>1. /\ typed' = Without(h, typed) /\ wild' = Without(h, wild) /\ since' = since
      /\ typed \in Seq(Handlers \ Wild) /\ wild \in Seq(Wild)
      /\ IsInjective(typed) /\ IsInjective(wild)
      /\ UNCHANGED queue /\ UNCHANGED calls
  BY DEF Unsubscribe, BusInv, BusTypeOK
<1>2. InOrder(typed) /\ InOrder(wild)
  BY DEF BusInv, PriorityOrder, InOrder, CalledBefore
<1>3. /\ Without(h, typed) \in Seq(Handlers \ Wild) /\ IsInjective(Without(h, typed))
      /\ InOrder(Without(h, typed)) /\ Range(Without(h, typed)) \subseteq Range(typed)
      /\ Without(h, wild) \in Seq(Wild) /\ IsInjective(Without(h, wild))
      /\ InOrder(Without(h, wild)) /\ Range(Without(h, wild)) \subseteq Range(wild)
  BY <1>1, <1>2, WithoutKeeps
<1>4. PriorityOrder'
  <2>1. ASSUME NEW s, InOrder(s) PROVE InOrder(s)'
    <3>1. since' = since
      BY <1>1
    <3>2. \A f, g : CalledBefore(f, g)' = CalledBefore(f, g)
      BY <3>1 DEF CalledBefore, SubscribedBefore
    <3> QED
      BY <2>1, <3>2 DEF InOrder
  <2>2. ASSUME NEW s \in {typed', wild'} PROVE InOrder(s)'
    <3>1. s = Without(h, typed) \/ s = Without(h, wild)
      BY <1>1, <2>2
    <3> QED
      BY <1>3, <2>1, <3>1, Zenon
  <2> QED
    BY <2>2 DEF PriorityOrder, InOrder, CalledBefore
<1>5. BusTypeOK' /\ Subscribed'
  BY <1>1, <1>3 DEF BusInv, BusTypeOK, Subscribed, queue, calls
<1>6. Accounted' /\ Publications' /\ Copied'
  BY <1>1 DEF BusInv, queue, calls, Accounted, Ahead, FailedForGood, Publications, Copied
<1> QED
  BY <1>4, <1>5, <1>6 DEF BusInv

LEMMA ListsStay ==
  ASSUME PriorityOrder, Subscribed, bus' = bus
  PROVE  PriorityOrder' /\ Subscribed'
<1>1. typed' = typed /\ wild' = wild /\ since' = since
  BY DEF bus
<1> QED
  BY <1>1 DEF PriorityOrder, SubscribedBefore, Subscribed

\* A publication begins: it calls everybody on the two lists.
LEMMA PublishKeeps ==
  ASSUME BusInv, NEW e \in Events, Publish(e)
  PROVE  BusInv'
<1> DEFINE all == typed \o wild
           new == {e} \X Range(all)
<1>1. /\ publication[e] = "new" /\ toCall' = [toCall EXCEPT ![e] = all] /\ owed' = owed \union new
      /\ publication' = [publication EXCEPT ![e] = "calling"]
      /\ UNCHANGED bus /\ UNCHANGED queue /\ UNCHANGED <<attempt, done, cancelled>>
  BY DEF Publish
<1>2. /\ typed \in Seq(Handlers \ Wild) /\ wild \in Seq(Wild) /\ Wild \subseteq Handlers
      /\ IsInjective(typed) /\ IsInjective(wild)
      /\ toCall \in [Events -> Seq(Handlers)] /\ publication \in [Events -> {"new", "calling", "over"}]
      /\ owed \subseteq Pairs
  BY BusAssumption DEF BusInv, BusTypeOK
<1>3. all \in Seq(Handlers) /\ IsInjective(all)
  <2>1. typed \in Seq(Handlers) /\ wild \in Seq(Handlers)
    BY <1>2
  <2>2. /\ all \in Seq(Handlers) /\ Len(all) = Len(typed) + Len(wild)
        /\ \A i \in 1..(Len(typed) + Len(wild)) : all[i] = IF i <= Len(typed) THEN typed[i] ELSE wild[i - Len(typed)]
    BY <2>1, ConcatProperties
  <2>3. /\ Len(typed) \in Nat /\ Len(wild) \in Nat
        /\ DOMAIN typed = 1..Len(typed) /\ DOMAIN wild = 1..Len(wild) /\ DOMAIN all = 1..(Len(typed) + Len(wild))
    BY <1>2, <2>2, LenProperties
  <2> HIDE DEF all
  <2>4. \A i \in 1..(Len(typed) + Len(wild)) :
           \/ i <= Len(typed) /\ i \in 1..Len(typed) /\ all[i] = typed[i] /\ all[i] \notin Wild
           \/ i > Len(typed) /\ i - Len(typed) \in 1..Len(wild) /\ all[i] = wild[i - Len(typed)] /\ all[i] \in Wild
    BY <1>2, <2>2, <2>3
  <2>5. ASSUME NEW i \in 1..(Len(typed) + Len(wild)), NEW j \in 1..(Len(typed) + Len(wild)), all[i] = all[j]
        PROVE  i = j
    <3>1. CASE all[i] \notin Wild
      <4>1. /\ i \in 1..Len(typed) /\ j \in 1..Len(typed) /\ typed[i] = typed[j]
        BY <2>4, <2>5, <3>1
      <4> QED
        BY <1>2, <2>3, <4>1 DEF IsInjective
    <3>2. CASE all[i] \in Wild
      <4>1. /\ i - Len(typed) \in 1..Len(wild) /\ j - Len(typed) \in 1..Len(wild)
            /\ wild[i - Len(typed)] = wild[j - Len(typed)]
        BY <2>4, <2>5, <3>2
      <4>2. i - Len(typed) = j - Len(typed)
        BY <1>2, <2>3, <4>1 DEF IsInjective
      <4> QED
        BY <2>3, <2>5, <4>2
    <3> QED
      BY <3>1, <3>2
  <2> QED
    BY <2>2, <2>3, <2>5 DEF IsInjective
<1> HIDE DEF all
<1>4. toCall[e] = <<>> /\ \A p \in owed : p[1] # e
  BY <1>1 DEF BusInv, Publications
<1>5. new \subseteq Pairs /\ Range(all) \subseteq Handlers
  <2>1. Range(all) \subseteq Handlers
    BY <1>3, RangeOfSeq
  <2> QED
    BY <2>1 DEF Pairs
<1>6. Ahead' = Ahead \union new
  <2>1. \A p \in Pairs : p[1] # e => (p \in Ahead' <=> p \in Ahead) /\ p \notin new
    BY <1>1, <1>2 DEF Ahead, Pairs
  <2>2. \A p \in Pairs : p[1] = e => (p \in Ahead' <=> p \in new) /\ p \notin Ahead
    <3>1. toCall'[e] = all /\ Range(toCall[e]) = {}
      BY <1>1, <1>2, <1>4 DEF Range
    <3> QED
      BY <3>1 DEF Ahead, Pairs
  <2> QED
    BY <1>5, <2>1, <2>2 DEF Ahead
<1>7. \A p \in new : p \notin owed
  BY <1>4
<1>8. Accounted'
  <2>1. FailedForGood' = FailedForGood /\ done' = done
    BY <1>1 DEF queue, FailedForGood
  <2>2. owed = Ahead \union done \union FailedForGood
        /\ Ahead \intersect done = {} /\ Ahead \intersect FailedForGood = {} /\ done \intersect FailedForGood = {}
    BY DEF BusInv, Accounted
  <2> HIDE DEF new
  <2> QED
    BY <1>1, <1>6, <1>7, <2>1, <2>2 DEF Accounted
<1>9. Publications'
  <2>1. ASSUME NEW f \in Events
        PROVE  /\ IsInjective(toCall[f])'
               /\ publication'[f] # "calling" => toCall'[f] = <<>>
               /\ publication'[f] = "new" => \A p \in owed' : p[1] # f
    <3>1. CASE f = e
      BY <1>1, <1>2, <1>3, <3>1 DEF IsInjective
    <3>2. CASE f # e
      BY <1>1, <1>2, <3>2 DEF BusInv, Publications, IsInjective
    <3> QED
      BY <3>1, <3>2
  <2> QED
    BY <2>1 DEF Publications, IsInjective
<1>10. BusTypeOK'
  <2>1. toCall' \in [Events -> Seq(Handlers)] /\ publication' \in [Events -> {"new", "calling", "over"}]
        /\ owed' \subseteq Pairs
    BY <1>1, <1>2, <1>3, <1>5
  <2> QED
    BY <1>1, <2>1 DEF BusInv, BusTypeOK, bus, queue
<1>11. PriorityOrder' /\ Subscribed' /\ Copied'
  <2>1. PriorityOrder' /\ Subscribed'
    BY <1>1, ListsStay DEF BusInv
  <2> QED
    BY <1>1, <2>1 DEF BusInv, queue, Copied
<1> QED
  BY <1>8, <1>9, <1>10, <1>11 DEF BusInv

\* The next handler's turn: one pair is not ahead any more.
LEMMA TurnMeans ==
  ASSUME BusInv, NEW e \in Events, Calling(e), NextHandler(e)
  PROVE  \E p \in Ahead :
            /\ p = <<e, Head(toCall[e])>> /\ p \in Pairs /\ p \in owed /\ p \notin done /\ p \notin FailedForGood
            /\ Ahead' = Ahead \ {p}
            /\ toCall' \in [Events -> Seq(Handlers)] /\ attempt' \in [Events -> 0..(MaxAttempts - 1)]
            /\ publication' = publication /\ owed' = owed => Publications'
<1> DEFINE h == Head(toCall[e])
           p == <<e, h>>
<1>1. /\ toCall \in [Events -> Seq(Handlers)] /\ attempt \in [Events -> 0..(MaxAttempts - 1)]
      /\ publication[e] = "calling" /\ toCall[e] # <<>> /\ toCall[e] \in Seq(Handlers)
      /\ toCall' = [toCall EXCEPT ![e] = Tail(toCall[e])] /\ attempt' = [attempt EXCEPT ![e] = 0]
      /\ IsInjective(toCall[e])
  BY DEF BusInv, BusTypeOK, Publications, Calling, NextHandler
<1>2. /\ h \in Range(toCall[e]) /\ Range(toCall[e]) = {h} \union Range(Tail(toCall[e]))
      /\ h \notin Range(Tail(toCall[e])) /\ IsInjective(Tail(toCall[e]))
      /\ Tail(toCall[e]) \in Seq(Handlers) /\ h \in Handlers
  BY <1>1, TailRange, HeadTailProperties
<1> HIDE DEF h
<1>3. p \in Pairs /\ p \in Ahead
  BY <1>2 DEF Pairs, Ahead
<1>4. Ahead' = Ahead \ {p}
  <2>1. \A q \in Pairs : q[1] # e => (q \in Ahead' <=> q \in Ahead) /\ q # p
    BY <1>1 DEF Ahead, Pairs
  <2>2. \A q \in Pairs : q[1] = e => (q \in Ahead' <=> q \in Ahead /\ q # p)
    <3>1. toCall'[e] = Tail(toCall[e])
      BY <1>1
    <3> QED
      BY <1>2, <3>1 DEF Ahead, Pairs
  <2> QED
    BY <2>1, <2>2 DEF Ahead
<1>5. p \in owed /\ p \notin done /\ p \notin FailedForGood
  BY <1>3 DEF BusInv, Accounted
<1>6. toCall' \in [Events -> Seq(Handlers)] /\ attempt' \in [Events -> 0..(MaxAttempts - 1)]
  BY <1>1, <1>2, BusAssumption
<1>7. ASSUME publication' = publication, owed' = owed PROVE Publications'
  <2>1. ASSUME NEW f \in Events
        PROVE  /\ IsInjective(toCall[f])'
               /\ publication'[f] # "calling" => toCall'[f] = <<>>
               /\ publication'[f] = "new" => \A q \in owed' : q[1] # f
    <3>1. CASE f = e
      BY <1>1, <1>2, <1>7, <3>1 DEF IsInjective
    <3>2. CASE f # e
      BY <1>1, <1>7, <3>2 DEF BusInv, Publications, IsInjective
    <3> QED
      BY <3>1, <3>2
  <2> QED
    BY <2>1 DEF Publications, IsInjective
<1> QED
  BY <1>3, <1>4, <1>5, <1>6, <1>7 DEF h

\* A handler that failed for good goes to the dead letter queue, the oldest entry out of it.
LEMMA PushKeeps ==
  ASSUME BusTypeOK, NEW p \in Pairs, Push(p), copy' = copy
  PROVE  /\ FailedForGood' = FailedForGood \union {p}
         /\ dlq' \in Seq(Pairs) /\ Len(dlq') <= DlqCapacity /\ lost' \subseteq Pairs
<1>1. dlq \in Seq(Pairs) /\ Len(dlq) <= DlqCapacity /\ Len(dlq) \in Nat /\ DlqCapacity \in Nat \ {0} /\ lost \subseteq Pairs
  BY BusAssumption, LenProperties DEF BusTypeOK
<1>2. CASE Len(dlq) >= DlqCapacity
  <2>1. dlq # <<>> /\ dlq' = Append(Tail(dlq), p) /\ lost' = lost \union {Head(dlq)}
    BY <1>1, <1>2 DEF Push
  <2>2. /\ Tail(dlq) \in Seq(Pairs) /\ Head(dlq) \in Pairs /\ Len(Tail(dlq)) = Len(dlq) - 1
        /\ Range(dlq) = {Head(dlq)} \union Range(Tail(dlq))
    BY <1>1, <2>1, TailRange, HeadTailProperties
  <2>3. /\ dlq' \in Seq(Pairs) /\ Len(dlq') = Len(Tail(dlq)) + 1 /\ Range(dlq') = Range(Tail(dlq)) \union {p}
    <3>1. ASSUME NEW q \in Seq(Pairs)
          PROVE  Append(q, p) \in Seq(Pairs) /\ Len(Append(q, p)) = Len(q) + 1 /\ Range(Append(q, p)) = Range(q) \union {p}
      BY AppendProperties, AppendRange
    <3> QED
      BY <2>1, <2>2, <3>1
  <2>4. Len(dlq') <= DlqCapacity
    BY <1>1, <2>2, <2>3
  <2>5. FailedForGood' = FailedForGood \union {p}
    BY <2>1, <2>2, <2>3 DEF FailedForGood
  <2> QED
    BY <1>1, <2>1, <2>2, <2>3, <2>4, <2>5
<1>3. CASE ~(Len(dlq) >= DlqCapacity)
  <2>1. dlq' = Append(dlq, p) /\ lost' = lost
    BY <1>3 DEF Push
  <2>2. /\ dlq' \in Seq(Pairs) /\ Len(dlq') = Len(dlq) + 1 /\ Range(dlq') = Range(dlq) \union {p}
    BY <1>1, <2>1, AppendProperties, AppendRange
  <2>3. Len(dlq') <= DlqCapacity
    BY <1>1, <1>3, <2>2
  <2>4. FailedForGood' = FailedForGood \union {p}
    BY <2>1, <2>2 DEF FailedForGood
  <2> QED
    BY <1>1, <2>1, <2>2, <2>3, <2>4
<1> QED
  BY <1>2, <1>3

\* A handler's turn ends: it has succeeded, or it has failed for good.
LEMMA TurnKeeps ==
  ASSUME BusInv, NEW e \in Events, Succeed(e) \/ GiveUp(e) \/ CancelledWaiting(e)
  PROVE  BusInv'
<1>1. /\ Calling(e) /\ NextHandler(e) /\ bus' = bus /\ retry' = retry /\ copy' = copy /\ nilCall' = nilCall
      /\ publication' = publication /\ owed' = owed /\ cancelled' = cancelled
  BY DEF Succeed, GiveUp, CancelledWaiting, queue
<1>2. PICK p \in Ahead :
         /\ p = <<e, Head(toCall[e])>> /\ p \in Pairs /\ p \in owed /\ p \notin done /\ p \notin FailedForGood
         /\ Ahead' = Ahead \ {p}
         /\ toCall' \in [Events -> Seq(Handlers)] /\ attempt' \in [Events -> 0..(MaxAttempts - 1)]
         /\ publication' = publication /\ owed' = owed => Publications'
  BY <1>1, TurnMeans
<1>3. /\ owed = Ahead \union done \union FailedForGood
      /\ Ahead \intersect done = {} /\ Ahead \intersect FailedForGood = {} /\ done \intersect FailedForGood = {}
  BY DEF BusInv, Accounted
<1>4. \/ done' = done \union {p} /\ FailedForGood' = FailedForGood /\ dlq' = dlq /\ lost' = lost
      \/ done' = done /\ Push(p)
  BY <1>2 DEF Succeed, GiveUp, CancelledWaiting, queue, FailedForGood
<1>5. /\ dlq' \in Seq(Pairs) /\ Len(dlq') <= DlqCapacity /\ lost' \subseteq Pairs /\ done' \subseteq Pairs
      /\ \/ done' = done \union {p} /\ FailedForGood' = FailedForGood
         \/ done' = done /\ FailedForGood' = FailedForGood \union {p}
  <2>1. BusTypeOK /\ done \subseteq Pairs /\ lost \subseteq Pairs /\ dlq \in Seq(Pairs) /\ Len(dlq) <= DlqCapacity
    BY DEF BusInv, BusTypeOK
  <2>2. CASE done' = done /\ Push(p)
    BY <1>1, <1>2, <2>1, <2>2, PushKeeps
  <2> QED
    BY <1>2, <1>4, <2>1, <2>2
<1>6. Accounted'
  BY <1>1, <1>2, <1>3, <1>5 DEF Accounted
<1>7. BusTypeOK'
  BY <1>1, <1>2, <1>5 DEF BusInv, BusTypeOK, bus
<1>8. PriorityOrder' /\ Subscribed' /\ Copied'
  <2>1. PriorityOrder' /\ Subscribed'
    BY <1>1, ListsStay DEF BusInv
  <2> QED
    BY <1>1, <2>1 DEF BusInv, Copied
<1> QED
  BY <1>1, <1>2, <1>6, <1>7, <1>8 DEF BusInv

LEMMA QuietCallsKeep ==
  ASSUME BusInv, NEW e \in Events, Again(e) \/ CancelPublication(e) \/ Published(e)
  PROVE  BusInv'
<1>1. /\ bus' = bus /\ queue' = queue /\ toCall' = toCall /\ done' = done /\ owed' = owed
      /\ \/ publication' = publication
         \/ /\ publication[e] = "calling" /\ toCall[e] = <<>>
            /\ publication' = [publication EXCEPT ![e] = "over"]
      /\ attempt' \in [Events -> 0..(MaxAttempts - 1)] /\ cancelled' \subseteq Events
  <2>1. attempt \in [Events -> 0..(MaxAttempts - 1)] /\ cancelled \subseteq Events /\ MaxAttempts \in Nat \ {0}
    BY BusAssumption DEF BusInv, BusTypeOK
  <2>2. CASE Again(e)
    <3>1. attempt[e] + 1 \in 0..(MaxAttempts - 1)
      BY <2>1, <2>2 DEF Again
    <3> QED
      BY <2>1, <2>2, <3>1 DEF Again
  <2>3. CASE CancelPublication(e)
    BY <2>1, <2>3 DEF CancelPublication
  <2>4. CASE Published(e)
    BY <2>1, <2>4 DEF Published
  <2> QED
    BY <2>2, <2>3, <2>4
<1>2. publication \in [Events -> {"new", "calling", "over"}]
  BY DEF BusInv, BusTypeOK
<1>3. BusTypeOK'
  BY <1>1, <1>2 DEF BusInv, BusTypeOK, bus, queue
<1>4. Publications'
  <2>1. ASSUME NEW f \in Events
        PROVE  /\ publication'[f] # "calling" => toCall[f] = <<>>
               /\ publication'[f] = "new" => publication[f] = "new"
    BY <1>1, <1>2 DEF BusInv, Publications
  <2> QED
    BY <1>1, <2>1 DEF BusInv, Publications, IsInjective
<1>5. PriorityOrder' /\ Subscribed'
  BY <1>1, ListsStay DEF BusInv
<1>6. Copied' /\ Accounted'
  BY <1>1 DEF BusInv, queue, Copied, Accounted, Ahead, FailedForGood
<1> QED
  BY <1>3, <1>4, <1>5, <1>6 DEF BusInv

\* RetryAll: what the queue had is in the copy, and what comes meanwhile is overwritten.
LEMMA RetryKeeps ==
  ASSUME BusInv, RetryCopy \/ RetryCalls \/ RetryStore
  PROVE  BusInv'
<1>1. /\ bus' = bus /\ calls' = calls /\ dlq \in Seq(Pairs) /\ copy \in Seq(Pairs) /\ lost \subseteq Pairs
      /\ Len(dlq) <= DlqCapacity /\ Len(copy) <= DlqCapacity /\ Range(<<>>) = {}
      /\ <<>> \in Seq(Pairs) /\ Len(<<>>) <= DlqCapacity /\ Range(dlq) \subseteq Pairs
  <2>1. Range(<<>>) = {} /\ <<>> \in Seq(Pairs) /\ Len(<<>>) <= DlqCapacity
    BY BusAssumption DEF Range
  <2>2. dlq \in Seq(Pairs) /\ Range(dlq) \subseteq Pairs
    BY RangeOfSeq DEF BusInv, BusTypeOK
  <2> QED
    BY <2>1, <2>2 DEF BusInv, BusTypeOK, RetryCopy, RetryCalls, RetryStore
<1>2. FailedForGood' = FailedForGood
  <2>1. CASE RetryCopy
    BY <1>1, <2>1 DEF RetryCopy, BusInv, Copied, FailedForGood
  <2>2. CASE RetryCalls
    BY <2>2 DEF RetryCalls, FailedForGood
  <2>3. CASE RetryStore
    <3>1. /\ dlq' = copy /\ lost' = lost \union (Range(dlq) \ Range(copy)) /\ Range(copy') = {}
      BY <1>1, <2>3 DEF RetryStore
    <3> QED
      BY <3>1 DEF FailedForGood
  <2> QED
    BY <2>1, <2>2, <2>3
<1>3. BusTypeOK'
  <2>1. /\ dlq' \in Seq(Pairs) /\ copy' \in Seq(Pairs) /\ lost' \subseteq Pairs
        /\ Len(dlq') <= DlqCapacity /\ Len(copy') <= DlqCapacity
        /\ retry' \in {"no", "running"} /\ nilCall' \in BOOLEAN
    BY <1>1 DEF BusInv, BusTypeOK, RetryCopy, RetryCalls, RetryStore
  <2> QED
    BY <1>1, <2>1 DEF BusInv, BusTypeOK, bus, calls
<1>4. Copied'
  BY DEF RetryCopy, RetryCalls, RetryStore, BusInv, BusTypeOK, Copied
<1>5. PriorityOrder' /\ Subscribed' /\ Publications'
  <2>1. PriorityOrder' /\ Subscribed'
    BY <1>1, ListsStay DEF BusInv
  <2> QED
    BY <1>1, <2>1 DEF BusInv, calls, Publications
<1>6. Accounted'
  BY <1>1, <1>2 DEF BusInv, calls, Accounted, Ahead
<1> QED
  BY <1>3, <1>4, <1>5, <1>6 DEF BusInv

LEMMA BusStepKeeps == BusInv /\ [BusNext]_busVars => BusInv'
<1> SUFFICES ASSUME BusInv, [BusNext]_busVars PROVE BusInv'
  OBVIOUS
<1>1. ASSUME NEW h \in Handlers, Subscribe(h) \/ Unsubscribe(h) PROVE BusInv'
  BY <1>1, SubscribeKeeps, UnsubscribeKeeps
<1>2. ASSUME NEW e \in Events,
             \/ Publish(e) \/ Succeed(e) \/ Again(e) \/ GiveUp(e)
             \/ CancelledWaiting(e) \/ CancelPublication(e) \/ Published(e)
      PROVE  BusInv'
  BY <1>2, PublishKeeps, TurnKeeps, QuietCallsKeep
<1>3. CASE RetryCopy \/ RetryCalls \/ RetryStore
  BY <1>3, RetryKeeps
<1>4. CASE UNCHANGED busVars
  BY <1>4 DEF busVars, bus, queue, calls, BusInv, BusTypeOK, PriorityOrder, SubscribedBefore, Subscribed,
     Accounted, Ahead, FailedForGood, Publications, Copied
<1> QED
  BY <1>1, <1>2, <1>3, <1>4 DEF BusNext

\* The invariant of the event bus.
THEOREM BusAlwaysKept == BusSpec => []BusInv
BY BusStarts, BusStepKeeps, PTL DEF BusSpec

\* Whatever subscriptions come and go, and whatever the retry of the dead letter
\* queue does meanwhile: handlers are called in their order, and one that failed for
\* good is not forgotten before the queue is full or written over.
THEOREM NothingForgotten == BusSpec => []NoEventForgotten
BY BusAlwaysKept, BusInvMeans, PTL

-----------------------------------------------------------------------------
(* The stair service.                                                      *)

Solved == SolveFlight(config)
Broken == NormsBroken(config.height, Solved)

\* The form is built, solved and within the norms; otherwise it is refused, with
\* these issues.
Admitted == BuildFault(config) = "none" /\ Solved.err = "none" /\ Broken = {}
Refused == BuildFault(config) = "input" \/ (BuildFault(config) = "none" /\ ~Admitted)
EarlyCodes ==
    IF BuildFault(config) = "input" THEN {"INPUT"}
    ELSE (IF Solved.err # "none" THEN {Solved.err} ELSE Broken)
           \union (IF Advice(config).infeasible THEN {"MFG-SHEET"} ELSE {})

\* What the stages behind the present one have found out about the form.
Staged ==
    /\ request = "none" => stage = "idle"
    /\ stage \in {"build", "solve"} => left = config
    /\ stage = "solve" => BuildFault(config) = "none"
    /\ stage \in {"geometry", "manufacture", "price"} =>
          /\ request # "validate" /\ Admitted
          /\ left = AppliedTo(config, Solved) /\ solution = Solved
    /\ stage = "price" => Manufacture(left, solution) = "none"

\* The live validation has told the admitted forms from the refused ones.
VerdictStands ==
    verdict.status = 200 =>
        IF verdict.blocking THEN Refused /\ verdict.codes = EarlyCodes ELSE Admitted

\* A calculation has refused what is refused, or what is admitted but has no
\* material or no sheet, and what it let through can be made.
AnswerStands ==
    Calculated =>
        IF answer.blocking
        THEN \/ Refused /\ answer.codes = EarlyCodes
             \/ Admitted /\ answer.codes \subseteq {"MFG-SHEET", "GEO-WIDTH"}
        ELSE Admitted /\ solution = Solved /\ Manufacture(left, solution) = "none"

ServiceInv == Staged /\ VerdictStands /\ AnswerStands

\* With the invariant the validation foretells, and what was calculated can be made.
LEMMA ServiceInvMeans == ASSUME ServiceInv PROVE ValidationForetells /\ CalculatedCanBeMade
<1>1. Admitted => ~Refused
  BY DEF Admitted, Refused
<1>2. ValidationForetells
  BY <1>1 DEF ServiceInv, VerdictStands, AnswerStands, ValidationForetells
<1>3. CalculatedCanBeMade
  BY DEF ServiceInv, AnswerStands, CalculatedCanBeMade, Admitted, Broken
<1> QED
  BY <1>2, <1>3

\* Before the first request the invariant holds.
LEMMA ServiceStarts == ServiceInit => ServiceInv
BY DEF ServiceInit, NoAnswer, ServiceInv, Staged, VerdictStands, AnswerStands, Calculated

\* A form, and with it what is true of it, stays until a variation is applied.
LEMMA FormStays ==
  ASSUME config' = config
  PROVE  /\ Admitted' = Admitted /\ Refused' = Refused
         /\ EarlyCodes' = EarlyCodes /\ Solved' = Solved
BY DEF Admitted, Refused, EarlyCodes, Solved, Broken

\* An answer that ends a request keeps the invariant if what it says is true.
LEMMA ReplyKeeps ==
  ASSUME ServiceInv, NEW a, Reply(a),
         request = "validate" /\ a.status = 200 =>
            IF a.blocking THEN Refused /\ a.codes = EarlyCodes ELSE Admitted,
         request = "calculate" /\ a.status = 200 =>
            IF a.blocking
            THEN \/ Refused /\ a.codes = EarlyCodes
                 \/ Admitted /\ a.codes \subseteq {"MFG-SHEET", "GEO-WIDTH"}
            ELSE Admitted /\ solution' = Solved /\ Manufacture(left', solution') = "none"
  PROVE  ServiceInv'
<1>1. /\ config' = config /\ stage' = "idle" /\ request' = "none" /\ answer' = a
      /\ verdict' = (IF request = "validate" THEN a ELSE verdict)
      /\ audited' = (request = "calculate" /\ a.status = 200)
  BY DEF Reply
<1>2. /\ Admitted' = Admitted /\ Refused' = Refused
      /\ EarlyCodes' = EarlyCodes /\ Solved' = Solved
  BY <1>1, FormStays
<1>3. Staged'
  BY <1>1 DEF Staged
<1>4. VerdictStands'
  BY <1>1, <1>2 DEF ServiceInv, VerdictStands
<1>5. AnswerStands'
  BY <1>1, <1>2 DEF AnswerStands, Calculated
<1> QED
  BY <1>3, <1>4, <1>5 DEF ServiceInv

\* A stage that is left for the next one leaves nothing else behind.
LEMMA ProceedKeeps ==
  ASSUME ServiceInv, NEW next, Proceed(next), request # "none", Staged'
  PROVE  ServiceInv'
<1>1. /\ config' = config /\ request' = request /\ verdict' = verdict
  BY DEF Proceed
<1>2. Admitted' = Admitted /\ Refused' = Refused /\ EarlyCodes' = EarlyCodes
  BY <1>1, FormStays
<1>3. VerdictStands'
  BY <1>1, <1>2 DEF ServiceInv, VerdictStands
<1>4. AnswerStands'
  BY <1>1 DEF AnswerStands, Calculated
<1> QED
  BY <1>3, <1>4 DEF ServiceInv

\* Going away is answered with 499, which says nothing of the form.
LEMMA StopKeeps == ASSUME ServiceInv, StopIfCancelled PROVE ServiceInv'
<1>1. Reply(FailedWith(499)) /\ FailedWith(499).status = 499
  BY DEF StopIfCancelled, FailedWith, NoAnswer
<1> QED
  BY <1>1, ReplyKeeps

\* buildConfiguration keeps the invariant: what it refuses is refused.
LEMMA BuildKeeps == ASSUME ServiceInv, Build PROVE ServiceInv'
<1>1. request # "none" /\ stage = "build" /\ left = config
  BY DEF Build, Stage, ServiceInv, Staged
<1>2. CASE StopIfCancelled
  BY <1>2, StopKeeps
<1>3. CASE BuildFault(left) = "input" /\ Reply(Report({"INPUT"}, TRUE, {}))
  <2>1. LET a == Report({"INPUT"}, TRUE, {})
        IN  a.blocking /\ a.codes = {"INPUT"}
    BY DEF Report
  <2>2. Refused /\ EarlyCodes = {"INPUT"}
    BY <1>1, <1>3 DEF Refused, EarlyCodes
  <2> QED
    BY <1>3, <2>1, <2>2, ReplyKeeps
<1>4. CASE Reply(FailedWith(500))
  <2>1. FailedWith(500).status = 500
    BY DEF FailedWith, NoAnswer
  <2> QED
    BY <1>4, <2>1, ReplyKeeps
<1>5. CASE BuildFault(left) = "none" /\ Proceed("solve") /\ UNCHANGED <<left, solution>>
  <2>1. Staged'
    BY <1>1, <1>5 DEF Proceed, Staged
  <2> QED
    BY <1>1, <1>5, <2>1, ProceedKeeps
<1> QED
  BY <1>2, <1>3, <1>4, <1>5 DEF Build

\* The issues of a refusal the advisor has seen.
LEMMA AdvisedCodes ==
  ASSUME NEW c, NEW z, NEW codes
  PROVE  /\ Advised(c, z, codes).status = 200 /\ Advised(c, z, codes).blocking
         /\ Advised(c, z, codes).codes =
              codes \union (IF Advice(c).infeasible THEN {"MFG-SHEET"} ELSE {})
BY DEF Advised, Report

\* checkedSolve keeps the invariant: it judges the form the client holds.
LEMMA SolveKeeps == ASSUME ServiceInv, SolveStage PROVE ServiceInv'
<1>1. request # "none" /\ stage = "solve" /\ left = config /\ BuildFault(config) = "none"
  BY DEF SolveStage, Stage, ServiceInv, Staged
<1>2. SolveFlight(left) = Solved /\ NormsBroken(left.height, SolveFlight(left)) = Broken
  BY <1>1 DEF Solved, Broken
<1>3. CASE Solved.err # "none" /\ Reply(Advised(config, left, {Solved.err}))
  <2>1. /\ Refused
        /\ EarlyCodes = {Solved.err} \union (IF Advice(config).infeasible THEN {"MFG-SHEET"} ELSE {})
    BY <1>1, <1>3 DEF Refused, Admitted, EarlyCodes
  <2> QED
    BY <1>3, <2>1, AdvisedCodes, ReplyKeeps
<1>4. ASSUME Solved.err = "none", Broken # {}, NEW z, Reply(Advised(config, z, Broken))
      PROVE  ServiceInv'
  <2>1. /\ Refused
        /\ EarlyCodes = Broken \union (IF Advice(config).infeasible THEN {"MFG-SHEET"} ELSE {})
    BY <1>1, <1>4 DEF Refused, Admitted, EarlyCodes
  <2> QED
    BY <1>4, <2>1, AdvisedCodes, ReplyKeeps
<1>5. ASSUME Solved.err = "none", Broken = {}, left' = AppliedTo(left, Solved), solution' = Solved,
             IF request = "validate" THEN Reply(Report({}, FALSE, {})) ELSE Proceed("geometry")
      PROVE  ServiceInv'
  <2>1. Admitted
    BY <1>1, <1>5 DEF Admitted
  <2>2. CASE request = "validate"
    <3>1. ~Report({}, FALSE, {}).blocking
      BY DEF Report
    <3> QED
      BY <1>5, <2>1, <2>2, <3>1, ReplyKeeps
  <2>3. CASE request # "validate"
    <3>1. config' = config /\ request' = request /\ stage' = "geometry"
      BY <1>5, <2>3 DEF Proceed
    <3>2. Admitted' /\ Solved' = Solved
      BY <2>1, <3>1, FormStays
    <3>3. Staged'
      BY <1>1, <1>5, <2>3, <3>1, <3>2 DEF Staged
    <3> QED
      BY <1>1, <1>5, <2>3, <3>3, ProceedKeeps
  <2> QED
    BY <2>2, <2>3
<1> QED
  BY <1>2, <1>3, <1>4, <1>5 DEF SolveStage

\* The stages of a calculation after the solver, which only have what is admitted.
LEMMA LateStagesKeep ==
  ASSUME ServiceInv, GeometryStage \/ ManufactureStage \/ PriceStage
  PROVE  ServiceInv'
<1>1. /\ request # "none" /\ request # "validate"
      /\ stage \in {"geometry", "manufacture", "price"}
      /\ Admitted /\ left = AppliedTo(config, Solved) /\ solution = Solved
  BY DEF GeometryStage, ManufactureStage, PriceStage, Stage, ServiceInv, Staged
<1>2. CASE StopIfCancelled
  BY <1>2, StopKeeps
<1>3. CASE Reply(FailedWith(500))
  <2>1. FailedWith(500).status = 500
    BY DEF FailedWith, NoAnswer
  <2> QED
    BY <1>3, <2>1, ReplyKeeps
<1>4. ASSUME NEW next \in {"manufacture", "price"}, Proceed(next), UNCHANGED <<left, solution>>,
             next = "price" => Manufacture(left, solution) = "none"
      PROVE  ServiceInv'
  <2>1. config' = config /\ request' = request /\ stage' = next
    BY <1>4 DEF Proceed
  <2>2. Admitted' /\ Solved' = Solved
    BY <1>1, <2>1, FormStays
  <2>3. Staged'
    BY <1>1, <1>4, <2>1, <2>2 DEF Staged
  <2> QED
    BY <1>1, <1>4, <2>3, ProceedKeeps
<1>5. ASSUME NEW codes, codes \subseteq {"MFG-SHEET", "GEO-WIDTH"}, NEW a,
             a.blocking, a.codes = codes, Reply(a)
      PROVE  ServiceInv'
  BY <1>1, <1>5, ReplyKeeps
<1>6. CASE GeometryStage
  BY <1>2, <1>3, <1>4, <1>6 DEF GeometryStage
<1>7. CASE ManufactureStage
  <2>1. CASE Reply(Advised(config, left, {"GEO-WIDTH"}))
    BY <1>5, <2>1, AdvisedCodes
  <2>2. CASE Reply(Report({"MFG-SHEET"}, TRUE, {}))
    BY <1>5, <2>2 DEF Report
  <2> QED
    BY <1>2, <1>4, <1>7, <2>1, <2>2 DEF ManufactureStage
<1>8. CASE PriceStage
  <2>1. Manufacture(left, solution) = "none"
    BY <1>8 DEF PriceStage, Stage, ServiceInv, Staged
  <2>2. ASSUME NEW a, ~a.blocking, Reply(a), UNCHANGED <<left, solution>> PROVE ServiceInv'
    BY <1>1, <2>1, <2>2, ReplyKeeps
  <2> QED
    BY <1>2, <1>8, <2>2 DEF PriceStage, Report
<1> QED
  BY <1>6, <1>7, <1>8

\* Every step keeps the invariant.
LEMMA ServiceStepKeeps == ServiceInv /\ [ServiceNext]_serviceVars => ServiceInv'
<1> SUFFICES ASSUME ServiceInv, [ServiceNext]_serviceVars PROVE ServiceInv'
  OBVIOUS
<1>1. ASSUME NEW kind \in {"validate", "calculate"}, Ask(kind) PROVE ServiceInv'
  <2>1. /\ config' = config /\ verdict' = verdict /\ stage' = "build" /\ left' = config
        /\ audited' = FALSE /\ request' = kind /\ kind # "none"
    BY <1>1 DEF Ask
  <2>2. Admitted' = Admitted /\ Refused' = Refused /\ EarlyCodes' = EarlyCodes
    BY <2>1, FormStays
  <2> QED
    BY <2>1, <2>2 DEF ServiceInv, Staged, VerdictStands, AnswerStands, Calculated
<1>2. CASE Apply
  <2>1. request' = "none" /\ stage' = "idle" /\ verdict' = NoAnswer /\ audited' = FALSE
    BY <1>2 DEF Apply, ServiceInv, Staged
  <2> QED
    BY <2>1 DEF ServiceInv, Staged, VerdictStands, AnswerStands, Calculated, NoAnswer
<1>3. CASE Cancel \/ UNCHANGED serviceVars
  <2>1. UNCHANGED <<config, request, stage, left, solution, answer, verdict, audited>>
    BY <1>3 DEF Cancel, serviceVars
  <2>2. /\ Admitted' = Admitted /\ Refused' = Refused
        /\ EarlyCodes' = EarlyCodes /\ Solved' = Solved
    BY <2>1, FormStays
  <2> QED
    BY <2>1, <2>2 DEF ServiceInv, Staged, VerdictStands, AnswerStands, Calculated
<1> QED
  BY <1>1, <1>2, <1>3, BuildKeeps, SolveKeeps, LateStagesKeep DEF ServiceNext

\* The invariant of the stair service.
THEOREM ServiceAlwaysKept == ServiceSpec => []ServiceInv
BY ServiceStarts, ServiceStepKeeps, PTL DEF ServiceSpec

\* Whatever form a user enters and whatever variations are applied: the live validation
\* foretells the calculation, and what was calculated without a refusal is within the
\* norms and can be cut from the sheets.
THEOREM AnswersAgree == ServiceSpec => [](ValidationForetells /\ CalculatedCanBeMade)
BY ServiceAlwaysKept, ServiceInvMeans, PTL
=============================================================================
