-------------------------------- MODULE Pipeline --------------------------------
(***************************************************************************)
(* The pipeline orchestrator (internal/engine/pipeline/orchestrator.go) and *)
(* the event store it writes (internal/infrastructure/events/store.go).     *)
(* Every call of Start runs the registered stages one after the other and   *)
(* appends what happens to the store; a reader replays the store from the   *)
(* last entry it has got.  What goes to the bus is in EventBus.             *)
(***************************************************************************)
EXTENDS Naturals, Sequences, Functions

CONSTANTS
    Runs,          \* the calls of Start
    ConfigOf,      \* per call: its configuration
    Order,         \* the stages in the order of their registration
    DependsOn,     \* per stage: the stages it depends on
    StoreCapacity, \* the capacity of the store
    None           \* no result yet

ASSUME PipelineAssumption ==
    /\ Order \in Seq(Range(Order)) /\ DependsOn \in [Range(Order) -> SUBSET Range(Order)]
    /\ StoreCapacity \in Nat \ {0} /\ None \notin {"completed", "failed"}

VARIABLES
    active,        \* the configurations with a pipeline
    at,            \* per call: the number of its stage; 0 before the first
    phase,         \* per call: "new", "before", "inside", "ending", "over" or "refused"
    marked,        \* per call: the stages that left their mark in Data
    result,        \* per call: None, "completed" or "failed"
    store,         \* the event store: its last entries, each an event and its ReplayID
    counter,       \* the last ReplayID
    position,      \* a reader of the store: the ReplayID it has got to
    unread         \* history: entries the reader has yet to get and the store still has

runVars == <<active, at, phase, marked, result>>
storeVars == <<store, counter, position, unread>>
pipelineVars == <<runVars, storeVars>>

PipelineInit ==
    /\ active = {} /\ at = [r \in Runs |-> 0] /\ phase = [r \in Runs |-> "new"]
    /\ marked = [r \in Runs |-> {}] /\ result = [r \in Runs |-> None]
    /\ store = <<>> /\ counter = 0 /\ position = 0 /\ unread = {}

\* Mutant of StoreAppend: a full store drops the event.
KeepOldest(event) ==
    LET full == Len(store) >= StoreCapacity IN
    /\ counter' = counter + 1
    /\ store' = IF full THEN store ELSE Append(store, <<event, counter + 1>>)
    /\ unread' = unread \union {<<event, counter + 1>>}
    /\ UNCHANGED position

\* Store.Append: the oldest entry makes room, the counter numbers the new one.
StoreAppend(event) ==
    LET kept == IF Len(store) >= StoreCapacity THEN Tail(store) ELSE store IN
    /\ counter' = counter + 1
    /\ store' = Append(kept, <<event, counter + 1>>)
    /\ unread' = (unread \intersect Range(kept)) \union {<<event, counter + 1>>}
    /\ UNCHANGED position

\* Mutant of StartPipeline: a second pipeline of a configuration is let in.
StartAgain(r) ==
    /\ phase[r] = "new"
    /\ phase' = [phase EXCEPT ![r] = "before"]
    /\ active' = active \union {ConfigOf[r]} /\ at' = [at EXCEPT ![r] = 1]
    /\ UNCHANGED <<marked, result, storeVars>>

\* Orchestrator.Start: one pipeline per configuration.
StartPipeline(r) ==
    /\ phase[r] = "new"
    /\ \/ /\ ConfigOf[r] \in active
          /\ phase' = [phase EXCEPT ![r] = "refused"]
          /\ UNCHANGED <<active, at>>
       \/ /\ ConfigOf[r] \notin active
          /\ phase' = [phase EXCEPT ![r] = "before"]
          /\ active' = active \union {ConfigOf[r]} /\ at' = [at EXCEPT ![r] = 1]
    /\ UNCHANGED <<marked, result, storeVars>>

\* failPipeline first frees the configuration; its event follows in End.
Fail(r) ==
    /\ result' = [result EXCEPT ![r] = "failed"]
    /\ active' = active \ {ConfigOf[r]}
    /\ phase' = [phase EXCEPT ![r] = "ending"]

Between(r) == phase[r] = "before" /\ at[r] <= Len(Order)

\* The context is looked at between two stages only.
Cancelled(r) ==
    Between(r) /\ Fail(r) /\ UNCHANGED <<at, marked, storeVars>>

\* A stage announces itself before its dependencies are looked at.
StageStarted(r) ==
    /\ Between(r)
    /\ phase' = [phase EXCEPT ![r] = "inside"]
    /\ StoreAppend(<<r, "started", at[r]>>)
    /\ UNCHANGED <<active, at, marked, result>>

Satisfied(r) == DependsOn[Order[at[r]]] \subseteq marked[r]

Unsatisfied(r) ==
    /\ phase[r] = "inside" /\ ~Satisfied(r)
    /\ Fail(r)
    /\ UNCHANGED <<at, marked, storeVars>>

\* The stage succeeds.  The stages that depend on it go by a mark in Data that
\* it is left to the stage to set.
StageFinished(r) ==
    /\ phase[r] = "inside" /\ Satisfied(r)
    /\ \E mark \in {{}, {Order[at[r]]}} : marked' = [marked EXCEPT ![r] = @ \union mark]
    /\ phase' = [phase EXCEPT ![r] = "before"] /\ at' = [at EXCEPT ![r] = @ + 1]
    /\ StoreAppend(<<r, "finished", at[r]>>)
    /\ UNCHANGED <<active, result>>

StageFailed(r) ==
    /\ phase[r] = "inside" /\ Satisfied(r)
    /\ Fail(r)
    /\ StoreAppend(<<r, "finished", at[r]>>)
    /\ UNCHANGED <<at, marked>>

\* After the last stage: the event, and then the configuration is free.
Completed(r) ==
    /\ phase[r] = "before" /\ at[r] > Len(Order)
    /\ phase' = [phase EXCEPT ![r] = "ending"]
    /\ result' = [result EXCEPT ![r] = "completed"]
    /\ StoreAppend(<<r, "over", at[r]>>)
    /\ UNCHANGED <<active, at, marked>>

\* Mutant of End: the event of a failure is not stored.
EndSilently(r) ==
    /\ phase[r] = "ending"
    /\ phase' = [phase EXCEPT ![r] = "over"]
    /\ active' = active \ {ConfigOf[r]}
    /\ UNCHANGED <<at, marked, result, storeVars>>

End(r) ==
    /\ phase[r] = "ending"
    /\ phase' = [phase EXCEPT ![r] = "over"]
    /\ \/ /\ result[r] = "failed" /\ StoreAppend(<<r, "over", at[r]>>)
          /\ UNCHANGED active
       \/ /\ result[r] = "completed" /\ active' = active \ {ConfigOf[r]}
          /\ UNCHANGED storeVars
    /\ UNCHANGED <<at, marked, result>>

\* ReplaySince(position): the reader gets every entry after the one it has got to.
ReplaySince ==
    LET later == {i \in DOMAIN store : store[i][2] > position} IN
    \E last \in later :
        /\ \A i \in later : i <= last
        /\ position' = store[last][2]
        /\ unread' = unread \ {store[i] : i \in later}
        /\ UNCHANGED <<runVars, store, counter>>

PipelineNext ==
    \/ \E r \in Runs :
          \/ StartPipeline(r) \/ Cancelled(r) \/ StageStarted(r) \/ Unsatisfied(r)
          \/ StageFinished(r) \/ StageFailed(r) \/ Completed(r) \/ End(r)
    \/ ReplaySince

PipelineSpec == PipelineInit /\ [][PipelineNext]_pipelineVars

-----------------------------------------------------------------------------
(* Properties *)

Event == Runs \X {"started", "finished", "over"} \X (1..(Len(Order) + 1))

\* The type of the state: the store keeps its capacity, and its numbers are given once.
PipelineTypeOK ==
    /\ at \in [Runs -> 0..(Len(Order) + 1)]
    /\ phase \in [Runs -> {"new", "before", "inside", "ending", "over", "refused"}]
    /\ marked \in [Runs -> SUBSET Range(Order)]
    /\ result \in [Runs -> {None, "completed", "failed"}]
    /\ counter \in Nat /\ position \in 0..counter
    /\ store \in Seq(Event \X (1..counter)) /\ Len(store) <= StoreCapacity
    /\ \A i, j \in DOMAIN store : i < j => store[i][2] < store[j][2]

Running(r) ==
    \/ phase[r] \in {"before", "inside"}
    \/ phase[r] = "ending" /\ result[r] = "completed"

\* A configuration has one pipeline at a time and is free as soon as none is
\* left, in whichever way it ended.
OnePerConfig ==
    /\ active = {ConfigOf[r] : r \in {q \in Runs : Running(q)}}
    /\ \A r, q \in Runs : Running(r) /\ Running(q) /\ ConfigOf[r] = ConfigOf[q] => r = q

\* What a pipeline has in the store, by places; one after another of the same.
Of(r) == {i \in DOMAIN store : store[i][1][1] = r}
Adjacent(r, i, j) ==
    {i, j} \subseteq Of(r) /\ i < j /\ \A k \in Of(r) : k <= i \/ k >= j

\* What the store has of a pipeline has no gap and ends with its end: each stage
\* starts, then finishes, then the next one starts.
HistoryOfRun ==
    \A r \in Runs :
        /\ \A i, j \in DOMAIN store : Adjacent(r, i, j) =>
              LET a == store[i][1]
                  b == store[j][1]
              IN  \/ a[2] = "started" /\ b[2] = "finished" /\ a[3] = b[3]
                  \/ a[2] = "finished" /\ b[2] = "started" /\ b[3] = a[3] + 1
                  \/ /\ a[2] # "over" /\ b[2] = "over"
                     /\ result[r] = "completed" => a[2] = "finished" /\ a[3] = Len(Order)
        /\ phase[r] = "over" => \A i \in Of(r) : (\A k \in Of(r) : k <= i) => store[i][1][2] = "over"

\* Two pipelines of one configuration do not interleave in the store, except that
\* the end of one that failed may come after the start of the next: failPipeline
\* frees the configuration first.
LateFailureOnly ==
    \A i, j, k \in 1..Len(store) :
        LET a == store[i][1]  b == store[j][1]  c == store[k][1] IN
        (/\ i < j /\ j < k
         /\ a[1] = c[1] /\ b[1] # a[1] /\ ConfigOf[a[1]] = ConfigOf[b[1]])
        => \E x \in {b, c} : x[2] = "over" /\ result[x[1]] = "failed"

\* A reader that asks for what came after its last entry gets every event the
\* store has not had to evict.
ReplayComplete == unread \subseteq {x \in Range(store) : x[2] > position}

\* The store tells what the pipelines did: one at a time per configuration, without a
\* gap, in order, and for a reader who is behind too (orchestrator.go, store.go).
HistoryIsTrue ==
    PipelineTypeOK /\ OnePerConfig /\ HistoryOfRun /\ LateFailureOnly /\ ReplayComplete
=============================================================================
