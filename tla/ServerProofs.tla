---------------------------- MODULE ServerProofs ----------------------------
(***************************************************************************)
(* Proofs about what runs beside the routes: the WebSocket hub, the life of *)
(* the processes and the logins by another provider.                        *)
(***************************************************************************)
EXTENDS Hub, Processes, SsoLogin, TLAPS, FiniteSetTheorems

-----------------------------------------------------------------------------
(* The hub.                                                                *)

Joined == {"reading", "answering", "leaving"}     \* phases of a reader the hub has met

\* The clients that a broadcast may still hold in its hand.
Known == clients \union {adding} \union dropped

\* A client of the hub has a reader that has not left; while the hub runs, a
\* reader that has not left has a client, and rooms and broadcasts hold clients
\* only.  A channel is closed when its reader has left or a broadcast dropped it.
ClientsAreJoined == \A c \in clients \union {adding} : c \in Conns => reader[c] \in Joined
JoinedAreKnown == hub # "stopped" => \A c \in Conns : reader[c] \in Joined => c \in Known
TodoIsKnown == \A p \in Publishers :
    /\ p \notin rlocked => todo[p] = {}
    /\ hub # "stopped" => todo[p] \subseteq Known
ClosedHaveLeft == hub # "stopped" /\ dropped = {} => \A c \in closed : reader[c] = "done"

HubInv ==
    /\ HubTypeOK /\ PanicsHaveCauses /\ RoomsHoldClients
    /\ ClientsAreJoined /\ JoinedAreKnown /\ TodoIsKnown /\ ClosedHaveLeft

\* Nobody is connected at first.
LEMMA HubStarts == HubInit => HubInv
<1> SUFFICES ASSUME HubInit PROVE HubInv
  OBVIOUS
<1>1. 0 \in 0..Capacity
  BY HubAssumption
<1>2. HubTypeOK
  BY <1>1 DEF HubInit, HubTypeOK
<1>3. PanicsHaveCauses /\ RoomsHoldClients /\ ClosedHaveLeft
  BY DEF HubInit, PanicsHaveCauses, RoomsHoldClients, ClosedHaveLeft
<1>4. ClientsAreJoined /\ JoinedAreKnown /\ TodoIsKnown
  BY HubAssumption DEF HubInit, ClientsAreJoined, JoinedAreKnown, TodoIsKnown, Joined
<1> QED
  BY <1>2, <1>3, <1>4 DEF HubInv

\* After a panic nothing is left that could disagree: only its cause counts.
LEMMA GoneKeeps ==
  ASSUME HubInv, Gone, hub' = hub, dropped' \subseteq Conns,
         crashed' \in {"no", "send", "write", "map"}, PanicsHaveCauses'
  PROVE  HubInv'
<1>1. 0 \in 0..Capacity
  BY HubAssumption
<1>2. HubTypeOK'
  BY <1>1 DEF HubInv, HubTypeOK, Gone
<1>3. (RoomsHoldClients /\ ClosedHaveLeft)'
  BY DEF Gone, RoomsHoldClients, ClosedHaveLeft
<1>4. (ClientsAreJoined /\ JoinedAreKnown /\ TodoIsKnown)'
  BY HubAssumption DEF Gone, ClientsAreJoined, JoinedAreKnown, TodoIsKnown, Joined
<1> QED
  BY <1>2, <1>3, <1>4 DEF HubInv

\* A panic of a send or close, when a broadcast has dropped a client or the hub is stopped.
LEMMA SendPanicKeeps ==
  ASSUME HubInv, Panic("send"), dropped # {} \/ hub = "stopped" PROVE HubInv'
<1>1. Gone /\ hub' = hub /\ dropped' = dropped /\ crashed' = "send"
  BY DEF Panic
<1>2. dropped' \subseteq Conns
  BY <1>1 DEF HubInv, HubTypeOK
<1> QED
  BY <1>1, <1>2, GoneKeeps DEF PanicsHaveCauses

\* The steps that neither close a channel nor put a client in a room.
LEMMA QuietStepsKeep ==
  ASSUME HubInv,
         \/ Add \/ Stop \/ (StopDone /\ Up) \/ UNCHANGED hubVars
         \/ \E c \in Conns : \/ Connect(c) \/ RegisterClient(c) \/ Receive(c) \/ ReadFails(c)
                           \/ Write(c) \/ WriteEnds(c) \/ WriteFails(c)
         \/ \E p \in Publishers : Published(p)
  PROVE HubInv'
<1> USE HubAssumption DEF HubInv, HubTypeOK, PanicsHaveCauses, RoomsHoldClients, ClientsAreJoined,
      JoinedAreKnown, TodoIsKnown, ClosedHaveLeft, Read, Writable, WriterGone, pumps, publishers,
      Joined, Known
<1>1. ASSUME NEW c \in Conns, Connect(c) PROVE HubInv'
  BY <1>1 DEF Connect
<1>2. ASSUME NEW c \in Conns, RegisterClient(c) PROVE HubInv'
  BY <1>2 DEF RegisterClient
<1>3. ASSUME NEW c \in Conns, Receive(c) PROVE HubInv'
  BY <1>3 DEF Receive
<1>4. ASSUME NEW c \in Conns, ReadFails(c) PROVE HubInv'
  BY <1>4 DEF ReadFails
<1>5. ASSUME NEW c \in Conns, Write(c) PROVE HubInv'
  BY <1>5 DEF Write
<1>6. ASSUME NEW c \in Conns, WriteEnds(c) PROVE HubInv'
  BY <1>6 DEF WriteEnds
<1>7. ASSUME NEW c \in Conns, WriteFails(c) PROVE HubInv'
  BY <1>7 DEF WriteFails
<1>8. ASSUME NEW p \in Publishers, Published(p) PROVE HubInv'
  BY <1>8 DEF Published
<1>9. CASE Add
  BY <1>9 DEF Add
<1>10. CASE Stop
  BY <1>10 DEF Stop
<1>11. CASE StopDone /\ Up
  BY <1>11 DEF StopDone, Up
<1>12. CASE UNCHANGED hubVars
  BY <1>12 DEF hubVars
<1> QED
  BY <1>1, <1>2, <1>3, <1>4, <1>5, <1>6, <1>7, <1>8, <1>9, <1>10, <1>11, <1>12

\* The close frames of the stop, one of which may meet a write of the client's pump.
LEMMA SayByeKeeps == ASSUME NEW c \in Conns, HubInv, SayBye(c) PROVE HubInv'
<1>1. hub = "closing"
  BY DEF SayBye, HubInv, HubTypeOK
<1>2. CASE Panic("write")
  <2>1. Gone /\ hub' = hub /\ dropped' = dropped /\ crashed' = "write"
    BY <1>2 DEF Panic
  <2>2. dropped' \subseteq Conns
    BY <2>1 DEF HubInv, HubTypeOK
  <2> QED
    BY <1>1, <2>1, <2>2, GoneKeeps DEF PanicsHaveCauses
<1>3. CASE /\ telling' = telling \ {c}
           /\ writer' = [writer EXCEPT ![c] = IF Writes(c) THEN "muted" ELSE @]
           /\ UNCHANGED <<hub, adding, clients, rooms, queued, closed, reader, open, publishers,
                          crashed>>
  BY <1>1, <1>3 DEF HubInv, HubTypeOK, PanicsHaveCauses, RoomsHoldClients, ClientsAreJoined,
     JoinedAreKnown, TodoIsKnown, ClosedHaveLeft, publishers, Known
<1> QED
  BY <1>2, <1>3 DEF SayBye

\* While no broadcast has dropped a client, a client of the hub has its channel open.
LEMMA ClientsAreOpen ==
  ASSUME HubInv, hub # "stopped", clients \intersect closed # {} PROVE dropped # {}
  BY HubAssumption DEF HubInv, HubTypeOK, ClosedHaveLeft, ClientsAreJoined, Joined

\* The hub closes the channels of all its clients and goes.
LEMMA CloseAllKeeps == ASSUME HubInv, CloseAll PROVE HubInv'
<1>1. CASE clients \intersect closed # {}
  BY <1>1, ClientsAreOpen, SendPanicKeeps DEF CloseAll
<1>2. CASE clients \intersect closed = {}
  BY <1>2, HubAssumption DEF CloseAll, HubInv, HubTypeOK, PanicsHaveCauses, RoomsHoldClients,
     ClientsAreJoined, JoinedAreKnown, TodoIsKnown, ClosedHaveLeft, Writable, pumps, publishers,
     Joined, Known
<1> QED
  BY <1>1, <1>2

\* While no broadcast has dropped a client, a reader that leaves finds its
\* channel open: it is closed now, and no broadcast is under way.
LEMMA UnregisterClientKeeps ==
  ASSUME NEW c \in Conns, HubInv, UnregisterClient(c) PROVE HubInv'
<1>1. CASE c \in clients \intersect closed
  BY <1>1, ClientsAreOpen, SendPanicKeeps DEF UnregisterClient
<1>2. CASE c \notin clients \intersect closed
  <2>1. HubTypeOK'
    BY <1>2 DEF HubInv, UnregisterClient, HubTypeOK, Read, publishers
  <2>2. PanicsHaveCauses'
    BY <1>2 DEF HubInv, PanicsHaveCauses, UnregisterClient, publishers
  <2>3. RoomsHoldClients'
    BY <1>2, HubAssumption DEF HubInv, HubTypeOK, RoomsHoldClients, UnregisterClient, publishers
  <2>4. (ClientsAreJoined /\ JoinedAreKnown /\ TodoIsKnown /\ ClosedHaveLeft)'
    BY <1>2, HubAssumption DEF HubInv, HubTypeOK, ClientsAreJoined, JoinedAreKnown, TodoIsKnown,
       ClosedHaveLeft, UnregisterClient, Read, Writable, publishers, Joined, Known
  <2> QED
    BY <2>1, <2>2, <2>3, <2>4 DEF HubInv
<1> QED
  BY <1>1, <1>2

\* Whoever subscribes is read from, and so is known to the hub.
LEMMA SubscribeKeeps == ASSUME NEW c \in Conns, HubInv, Subscribe(c) PROVE HubInv'
<1>1. hub # "stopped" => c \in Known
  BY DEF HubInv, JoinedAreKnown, Joined, Subscribe
<1>2. PICK r \in Rooms : rooms' \in {rooms \union {<<r, c>>}, rooms \ {<<r, c>>}}
  BY DEF Subscribe
<1>3. RoomsHoldClients'
  BY <1>1, <1>2 DEF HubInv, RoomsHoldClients, Subscribe, publishers, Known
<1>4. HubTypeOK'
  BY <1>2 DEF HubInv, HubTypeOK, Subscribe, Read, publishers
<1>5. (PanicsHaveCauses /\ ClientsAreJoined /\ JoinedAreKnown /\ TodoIsKnown /\ ClosedHaveLeft)'
  BY DEF HubInv, HubTypeOK, PanicsHaveCauses, ClientsAreJoined, JoinedAreKnown, TodoIsKnown,
     ClosedHaveLeft, Subscribe, Read, publishers, Joined, Known
<1> QED
  BY <1>3, <1>4, <1>5 DEF HubInv

\* An answer finds its channel closed only after a broadcast dropped the client.
LEMMA AnswerKeeps == ASSUME NEW c \in Conns, HubInv, Answer(c) PROVE HubInv'
<1>1. CASE c \in closed
  <2>1. dropped # {} \/ hub = "stopped"
    BY <1>1 DEF HubInv, ClosedHaveLeft, Answer
  <2> QED
    BY <1>1, <2>1, SendPanicKeeps DEF Answer
<1>2. CASE c \notin closed
  BY <1>2, HubAssumption DEF HubInv, Answer, HubTypeOK, PanicsHaveCauses, RoomsHoldClients,
     ClientsAreJoined, JoinedAreKnown, TodoIsKnown, ClosedHaveLeft, Read, publishers, Joined, Known
<1> QED
  BY <1>1, <1>2

\* A broadcast starts with clients the hub knows.
LEMMA PublishKeeps == ASSUME NEW p \in Publishers, HubInv, Publish(p) PROVE HubInv'
<1>1. PICK to \in {clients} \union {{c \in Conns : <<r, c>> \in rooms} : r \in Rooms} :
        todo' = [todo EXCEPT ![p] = to]
  BY DEF Publish
<1>2. to \subseteq Conns
  BY DEF HubInv, HubTypeOK
<1>3. ASSUME hub # "stopped", NEW c \in to PROVE c \in Known
  <2>1. CASE to = clients
    BY <1>3, <2>1 DEF Known
  <2>2. CASE to # clients
    <3>1. PICK r \in Rooms : <<r, c>> \in rooms
      BY <1>3, <2>2
    <3> QED
      BY <1>3, <3>1 DEF HubInv, RoomsHoldClients, Known
  <2> QED
    BY <2>1, <2>2
<1>4. TodoIsKnown'
  BY <1>1, <1>3 DEF HubInv, HubTypeOK, TodoIsKnown, Publish, pumps, Known
<1>5. HubTypeOK'
  BY <1>1, <1>2 DEF HubInv, HubTypeOK, Publish, pumps
<1>6. (/\ PanicsHaveCauses /\ RoomsHoldClients /\ ClientsAreJoined
       /\ JoinedAreKnown /\ ClosedHaveLeft)'
  BY DEF HubInv, PanicsHaveCauses, RoomsHoldClients, ClientsAreJoined, JoinedAreKnown,
     ClosedHaveLeft, Publish, pumps, Known
<1> QED
  BY <1>4, <1>5, <1>6 DEF HubInv

\* A broadcast under way finds a channel closed only when one was dropped before.
LEMMA DeliverKeeps ==
  ASSUME NEW p \in Publishers, NEW c \in Conns, HubInv, Deliver(p, c) PROVE HubInv'
<1>1. c \in todo[p] /\ (hub # "stopped" => c \in Known)
  BY DEF Deliver, HubInv, TodoIsKnown
<1>2. CASE c \in closed
  <2>1. dropped # {} \/ hub = "stopped"
    BY <1>1, <1>2, HubAssumption DEF HubInv, ClosedHaveLeft, ClientsAreJoined, Known, Joined
  <2> QED
    BY <1>2, <2>1, SendPanicKeeps DEF Deliver
<1>3. CASE c \notin closed /\ queued[c] < Capacity
  BY <1>3, HubAssumption DEF HubInv, Deliver, HubTypeOK, PanicsHaveCauses, RoomsHoldClients,
     ClientsAreJoined, JoinedAreKnown, TodoIsKnown, ClosedHaveLeft, pumps, Known
<1>4. CASE c \notin closed /\ ~(queued[c] < Capacity)
  BY <1>4, HubAssumption DEF HubInv, Deliver, HubTypeOK, PanicsHaveCauses, RoomsHoldClients,
     ClientsAreJoined, JoinedAreKnown, TodoIsKnown, ClosedHaveLeft, pumps, Known
<1> QED
  BY <1>2, <1>3, <1>4

\* A broadcast that meets another user of the map has just dropped a client.
LEMMA CollideKeeps ==
  ASSUME NEW p \in Publishers, NEW c \in Conns, HubInv, Collide(p, c) PROVE HubInv'
<1>1. Gone /\ hub' = hub /\ crashed' = "map" /\ dropped' = dropped \union {c}
  BY DEF Collide
<1>2. dropped' \subseteq Conns /\ dropped' # {}
  BY <1>1 DEF HubInv, HubTypeOK
<1> QED
  BY <1>1, <1>2, GoneKeeps DEF PanicsHaveCauses

\* The invariant behind HubIsConsistent.
THEOREM HubAlwaysKept == HubSpec => []HubInv
<1>1. ASSUME HubInv, [HubNext]_hubVars PROVE HubInv'
  <2>1. ASSUME NEW c \in Conns, Pump(c) \/ Drain(c) PROVE HubInv'
    BY <1>1, <2>1, QuietStepsKeep, SubscribeKeeps, AnswerKeeps DEF Pump, Drain
  <2>2. ASSUME NEW p \in Publishers, Publish(p) \/ Broadcast(p) PROVE HubInv'
    BY <1>1, <2>2, QuietStepsKeep, PublishKeeps, DeliverKeeps, CollideKeeps DEF Broadcast
  <2>3. CASE Serve
    BY <1>1, <2>3, QuietStepsKeep, UnregisterClientKeeps, CloseAllKeeps DEF Serve
  <2>4. CASE StopStep /\ Up
    BY <1>1, <2>4, QuietStepsKeep, SayByeKeeps DEF StopStep
  <2> QED
    BY <1>1, <2>1, <2>2, <2>3, <2>4, QuietStepsKeep DEF HubNext
<1> QED
  BY <1>1, HubStarts, PTL DEF HubSpec

\* The maps of the hub agree with its connections, and nothing panics but for three
\* causes: a broadcast that drops a client, a close frame of StopGracefully that meets a
\* write of the client's pump, and a hub that has stopped (websocket.go: Hub.Run, the
\* stop and the pumps), for any number of connections, rooms and broadcasters and any
\* capacity.
THEOREM HubConsistent == HubSpec => []HubIsConsistent
<1>1. HubInv => HubIsConsistent
  BY DEF HubInv, HubIsConsistent
<1> QED
  BY <1>1, HubAlwaysKept, PTL

-----------------------------------------------------------------------------
(* The life of the processes.                                              *)

\* The queue and the database stay open while requests may need them, and are
\* closed under one only when the time is up.
OpenWhileNeeded ==
    /\ apiPhase \in {"serving", "signalled", "draining"} => queueOpen /\ poolOpen
    /\ apiPhase \in {"closing", "down"} => ~queueOpen
    /\ apiPhase = "closing" => timeUp \/ \A s \in Submissions : request[s] \in AtRest
    /\ apiPhase = "down" => \A s \in Submissions : request[s] \in AtRest

\* Only an accepted submission is in the memory of the process.
QueuedWasAccepted ==
    /\ \A s \in apiJobs : via[s] = "memory"
    /\ \A s \in Submissions : via[s] # "none" => request[s] = "accepted"

ProcInv == ProcTypeOK /\ OpenWhileNeeded /\ QueuedWasAccepted /\ QueuedRowsHaveJobs

LEMMA ProcStarts == ProcInit => ProcInv
BY DEF ProcInit, ProcInv, ProcTypeOK, OpenWhileNeeded, QueuedWasAccepted, QueuedRowsHaveJobs,
    Phases, AtRest

\* The parts of the invariant, step by step.
LEMMA ProcNextKeeps == ASSUME ProcInv, [ProcNext]_procVars PROVE ProcInv'
<1> USE ProcAssumption DEF ProcInv, ProcTypeOK, OpenWhileNeeded, QueuedWasAccepted,
      QueuedRowsHaveJobs, Phases, AtRest, world, apiState, Unserved, OthersUnchanged
<1>1. CASE StartApi
  BY <1>1 DEF StartApi, ApiMayStart, WorkerStarts, ChosenQueue
<1>2. CASE StartWorker
  BY <1>2 DEF StartWorker, WorkerStarts, ChosenQueue
<1>3. CASE RedisChanges
  BY <1>3 DEF RedisChanges
<1>4. CASE StopWorker
  BY <1>4 DEF StopWorker
<1>5. ASSUME NEW s \in Submissions, Submit(s) PROVE ProcInv'
  <2>1. CASE Arrive(s)
    BY <2>1 DEF Arrive, Serving
  <2>2. CASE Insert(s)
    BY <2>2 DEF Insert
  <2>3. CASE EnqueueJob(s)
    BY <2>3 DEF EnqueueJob
  <2>4. CASE MarkRowFailed(s)
    BY <2>4 DEF MarkRowFailed
  <2>5. CASE Acquire(s, "insert", "inserting") \/ Acquire(s, "mark", "marking")
    BY <2>5 DEF Acquire
  <2>6. CASE Refuse(s, "insert") \/ Refuse(s, "mark")
    BY <2>6 DEF Refuse
  <2> QED
    BY <1>5, <2>1, <2>2, <2>3, <2>4, <2>5, <2>6 DEF Submit
<1>6. ASSUME NEW s \in Submissions, Work(s) PROVE ProcInv'
  BY <1>6 DEF Work
<1>7. CASE Signal
  BY <1>7 DEF Signal
<1>8. CASE StopListening
  BY <1>8 DEF StopListening
<1>9. CASE TimeIsUp
  BY <1>9 DEF TimeIsUp
<1>10. CASE CloseQueue
  BY <1>10 DEF CloseQueue, Drained
<1>11. CASE ClosePool
  BY <1>11 DEF ClosePool
<1>12. CASE ProcExit
  BY <1>12 DEF ProcExit, Holding, ProcessEnds
<1>13. CASE Kill
  BY <1>13 DEF Kill, ProcessEnds
<1>14. CASE UNCHANGED procVars
  BY <1>14 DEF procVars
<1> QED
  BY <1>1, <1>2, <1>3, <1>4, <1>5, <1>6, <1>7, <1>8, <1>9, <1>10, <1>11, <1>12, <1>13, <1>14 DEF ProcNext

\* The invariant behind SubmissionsAreKept and CutOffInTime.
THEOREM ProcessesAlwaysKept == ProcSpec => []ProcInv
BY ProcStarts, ProcNextKeeps, PTL DEF ProcSpec

\* Whatever starts, ends or is killed, a submission is in a queue, on its way, or says that
\* it failed (jobs/service.go: SubmitCalculate), for any submissions and environments.
THEOREM SubmissionsKept == ProcSpec => []SubmissionsAreKept
<1>1. ProcInv => SubmissionsAreKept
  BY DEF ProcInv, SubmissionsAreKept
<1> QED
  BY <1>1, ProcessesAlwaysKept, PTL

\* No request finds the queue or the database closed before the time to shut down is
\* over (main.go: the order of the shutdown).
THEOREM CutOffOnlyInTime == ProcSpec => CutOffInTime
<1>1. ASSUME ProcInv, [ProcNext]_procVars, cutOff' # cutOff PROVE timeUp
  <2>1. \A s \in Submissions : request[s] \notin AtRest => apiPhase # "down"
    BY <1>1 DEF ProcInv, OpenWhileNeeded
  <2>2. ASSUME NEW s \in Submissions, request[s] \notin AtRest, ~queueOpen PROVE timeUp
    BY <1>1, <2>1, <2>2 DEF ProcInv, ProcTypeOK, OpenWhileNeeded
  <2>3. ASSUME NEW s \in Submissions, Submit(s) PROVE timeUp
    <3>1. (Refuse(s, "insert") \/ Refuse(s, "mark") \/ EnqueueJob(s)) /\ ~queueOpen
      BY <1>1, <2>3 DEF Submit, Arrive, Insert, MarkRowFailed, Acquire, Refuse, EnqueueJob,
         ProcInv, ProcTypeOK
    <3>2. request[s] \notin AtRest
      BY <3>1 DEF Refuse, EnqueueJob, AtRest
    <3> QED
      BY <2>2, <3>1, <3>2
  <2>4. CASE ProcExit
    BY <1>1, <2>4 DEF ProcExit, ProcInv, OpenWhileNeeded
  <2>5. \A s \in Submissions : ~Work(s)
    BY <1>1 DEF Work
  <2> QED
    BY <1>1, <2>3, <2>4, <2>5 DEF ProcNext, procVars, StartApi, StartWorker, RedisChanges,
       StopWorker, Signal, StopListening, TimeIsUp, CloseQueue, ClosePool, Kill, OthersUnchanged
<1> QED
  BY <1>1, ProcessesAlwaysKept, PTL DEF ProcSpec, CutOffInTime

-----------------------------------------------------------------------------
(* Single sign-on.                                                         *)

\* A callback that has consumed its state, and one that knows whose it is.
Admitted(c) == place[c] \notin {"wait", "done"} \/ (place[c] = "done" /\ result[c] # Denied)
Named(c) == place[c] \in {"subject", "email", "provision", "link"}

\* The state of a callback that was admitted is gone for good.
ConsumedOnce ==
    /\ \A f \in states : begun[f] \in {"sent", "late"}
    /\ \A c \in Callbacks : Admitted(c) => c[1] \notin states /\ begun[c[1]] \in {"sent", "late"}
    /\ \A c, d \in Callbacks : Admitted(c) /\ Admitted(d) /\ c[1] = d[1] => c = d

\* Between the two statements of a flow nobody else inserts, or it is overtaken.
PrunedIsSmall == (\E f \in Flows : begun[f] = "pruned") => Cardinality(states) <= MaxStates

\* The claims of a callback that has them; two of one subject agree on the email, and
\* so does the link that one of them made, unless the subject has moved.
ClaimsAgree ==
    /\ \A c \in Callbacks : place[c] \in {"wait", "claims"} =>
          who[c] = Unset /\ email[c] = Unset /\ barred[c] = {}
    /\ \A c \in Callbacks : Named(c) \/ result[c] \in Emails =>
          who[c] \in Subjects /\ email[c] \in Emails
    /\ \A c, d \in Callbacks :
          Named(c) /\ Named(d) /\ who[c] = who[d] /\ who[c] \notin moved => email[c] = email[d]
    /\ \A c \in Callbacks :
          place[c] \in {"email", "provision", "link"} /\ who[c] \notin moved =>
              link[who[c]] \in {Unset, email[c]}

\* Accounts that are barred stay so; no subject is linked to one of another tenant.
BarredStay ==
    /\ \A c \in Callbacks : \A e \in barred[c] : account[e] \in {"disabled", "foreign"}
    /\ \A s \in Subjects : link[s] # Unset => account[link[s]] \notin {"foreign", "absent"}
    /\ \A c \in Callbacks : place[c] = "provision" =>
          email[c] \notin barred[c] /\ account[email[c]] # "foreign"
    /\ \A c \in Callbacks : place[c] = "link" =>
          email[c] \notin barred[c] /\ account[email[c]] \in {"active", "disabled"}

SsoInv ==
    /\ SsoTypeOK /\ ConsumedOnce /\ PrunedIsSmall /\ StatesCapped
    /\ ClaimsAgree /\ LinkedLogin /\ BarredStay /\ AccountsGuarded

LEMMA SsoStarts == SsoInit => SsoInv
<1> SUFFICES ASSUME SsoInit PROVE SsoInv
  OBVIOUS
<1>1. SsoTypeOK /\ ConsumedOnce /\ ClaimsAgree /\ LinkedLogin /\ BarredStay /\ AccountsGuarded
  BY SsoAssumption DEF SsoInit, SsoTypeOK, ConsumedOnce, ClaimsAgree, LinkedLogin, BarredStay,
     AccountsGuarded, Admitted, Named, CallbackPlaces
<1>2. Cardinality(states) = 0
  BY FS_EmptySet DEF SsoInit
<1>3. {f \in Flows : begun[f] = "late"} = {}
  BY DEF SsoInit
<1>4. StatesCapped
  BY <1>2, <1>3, SsoAssumption, FS_EmptySet DEF StatesCapped
<1>5. PrunedIsSmall
  BY <1>2, SsoAssumption DEF PrunedIsSmall
<1> QED
  BY <1>1, <1>4, <1>5 DEF SsoInv

Late == {f \in Flows : begun[f] = "late"}

\* A table that loses rows stays within its limits.
LEMMA FewerRows ==
  ASSUME SsoInv, states' \subseteq states, UNCHANGED begun
  PROVE PrunedIsSmall' /\ StatesCapped'
<1>1. IsFiniteSet(states) /\ IsFiniteSet(Late)
  BY SsoAssumption, FS_Subset DEF SsoInv, SsoTypeOK, Late
<1>2. IsFiniteSet(states') /\ Cardinality(states') <= Cardinality(states)
  BY <1>1, FS_Subset
<1>3. Cardinality(states) \in Nat /\ Cardinality(states') \in Nat /\ Cardinality(Late) \in Nat
  BY <1>1, <1>2, FS_CardinalityType
<1>4. {f \in Flows : begun'[f] = "late"} = Late
  BY DEF Late
<1>5. StatesCapped'
  BY <1>2, <1>3, <1>4, SsoAssumption DEF SsoInv, StatesCapped, Late
<1>6. PrunedIsSmall'
  BY <1>2, <1>3, SsoAssumption DEF SsoInv, PrunedIsSmall
<1> QED
  BY <1>5, <1>6

\* What the rows are pruned to is small.
LEMMA PruneKeeps == ASSUME NEW f \in Flows, SsoInv, Prune(f) PROVE SsoInv'
<1>1. PICK valid \in SUBSET states : states' \in Newest(valid)
  BY DEF Prune
<1>2. states' \subseteq valid /\ Cardinality(states') <= MaxStates
  BY <1>1, SsoAssumption DEF Newest
<1>3. IsFiniteSet(states') /\ IsFiniteSet(Late)
  BY <1>1, <1>2, SsoAssumption, FS_Subset DEF SsoInv, SsoTypeOK, Late
<1>4. Cardinality(states') \in Nat /\ Cardinality(Late) \in Nat
  BY <1>3, FS_CardinalityType
<1>5. {g \in Flows : begun'[g] = "late"} = Late
  BY DEF Prune, Late, SsoInv, SsoTypeOK
<1>6. StatesCapped' /\ PrunedIsSmall'
  BY <1>2, <1>4, <1>5, SsoAssumption DEF StatesCapped, PrunedIsSmall
<1>7. SsoTypeOK' /\ ConsumedOnce'
  BY <1>1, <1>2 DEF SsoInv, SsoTypeOK, ConsumedOnce, Prune, Admitted, flows
<1>8. ClaimsAgree' /\ LinkedLogin' /\ BarredStay' /\ AccountsGuarded'
  BY DEF SsoInv, ClaimsAgree, LinkedLogin, BarredStay, AccountsGuarded, Prune, Named, flows
<1> QED
  BY <1>6, <1>7, <1>8 DEF SsoInv

\* An insert that was overtaken makes its flow late; one that was not comes upon the
\* rows its own pruning left.
LEMMA SaveStateKeeps == ASSUME NEW f \in Flows, SsoInv, SaveState(f) PROVE SsoInv'
<1>1. IsFiniteSet(states) /\ IsFiniteSet(Late) /\ IsFiniteSet({g \in Flows : created[g] > 0})
  BY SsoAssumption, FS_Subset DEF SsoInv, SsoTypeOK, Late
<1>2. /\ Cardinality(states) \in Nat /\ Cardinality(Late) \in Nat
      /\ Cardinality({g \in Flows : created[g] > 0}) \in Nat
  BY <1>1, FS_CardinalityType
<1>3. states' = states \union {f} /\ f \notin states /\ f \notin Late
  BY DEF SaveState, SsoInv, ConsumedOnce, Late
<1>4. Cardinality(states') = Cardinality(states) + 1
  BY <1>1, <1>3, FS_AddElement
<1>5. \A g \in Flows : begun'[g] # "pruned"
  BY DEF SaveState, SsoInv, SsoTypeOK
<1>6. StatesCapped'
  <2>1. CASE begun[f] = "pruned"
    <3>1. {g \in Flows : begun'[g] = "late"} = Late
      BY <2>1 DEF SaveState, Late, SsoInv, SsoTypeOK
    <3>2. Cardinality(states) <= MaxStates
      BY <2>1 DEF SsoInv, PrunedIsSmall
    <3> QED
      BY <1>2, <1>4, <3>1, <3>2, SsoAssumption DEF StatesCapped
  <2>2. CASE begun[f] = "overtaken"
    <3>1. {g \in Flows : begun'[g] = "late"} = Late \union {f}
      BY <2>2 DEF SaveState, Late, SsoInv, SsoTypeOK
    <3>2. Cardinality(Late \union {f}) = Cardinality(Late) + 1
      BY <1>1, <1>3, FS_AddElement
    <3> QED
      BY <1>2, <1>4, <3>1, <3>2, SsoAssumption DEF SsoInv, StatesCapped, Late
  <2> QED
    BY <2>1, <2>2 DEF SaveState
<1>7. PrunedIsSmall'
  BY <1>5 DEF PrunedIsSmall
<1>8. SsoTypeOK'
  BY <1>2 DEF SsoInv, SsoTypeOK, SaveState, flows
<1>9. ConsumedOnce'
  <2>1. \A c \in Callbacks : c[1] \in Flows
    BY SsoAssumption DEF Callbacks
  <2>2. \A g \in Flows : begun[g] \in {"sent", "late"} => begun'[g] = begun[g] /\ g # f
    BY DEF SaveState
  <2>3. begun'[f] \in {"sent", "late"}
    BY DEF SaveState
  <2>4. UNCHANGED <<place, result>>
    BY DEF SaveState, flows
  <2> QED
    BY <1>3, <2>1, <2>2, <2>3, <2>4 DEF SsoInv, SsoTypeOK, ConsumedOnce, Admitted
<1>10. ClaimsAgree' /\ LinkedLogin' /\ BarredStay' /\ AccountsGuarded'
  BY DEF SsoInv, ClaimsAgree, LinkedLogin, BarredStay, AccountsGuarded, SaveState, Named, flows
<1> QED
  BY <1>6, <1>7, <1>8, <1>9, <1>10 DEF SsoInv

LEMMA ConsumeKeeps == ASSUME NEW c \in Callbacks, SsoInv, Consume(c) PROVE SsoInv'
<1> USE SsoAssumption DEF MoveOn, Finish, CallbackPlaces, Callbacks
<1>1. PrunedIsSmall' /\ StatesCapped'
  BY FewerRows DEF Consume
<1>2. SsoTypeOK'
  BY DEF SsoInv, SsoTypeOK, Consume
<1>3. ConsumedOnce'
  BY DEF SsoInv, SsoTypeOK, ConsumedOnce, Admitted, Consume
<1>4. ClaimsAgree'
  BY DEF SsoInv, SsoTypeOK, ClaimsAgree, Named, Consume
<1>5. LinkedLogin'
  BY DEF SsoInv, SsoTypeOK, ClaimsAgree, LinkedLogin, Consume
<1>6. BarredStay'
  BY DEF SsoInv, SsoTypeOK, BarredStay, Consume
<1>7. AccountsGuarded'
  BY DEF SsoInv, SsoTypeOK, BarredStay, AccountsGuarded, Consume
<1> QED
  BY <1>1, <1>2, <1>3, <1>4, <1>5, <1>6, <1>7 DEF SsoInv

LEMMA RejectKeeps == ASSUME NEW c \in Callbacks, SsoInv, Reject(c) PROVE SsoInv'
<1> USE SsoAssumption DEF MoveOn, Finish, CallbackPlaces, Callbacks
<1>1. PrunedIsSmall' /\ StatesCapped'
  BY FewerRows DEF Reject
<1>2. SsoTypeOK'
  BY DEF SsoInv, SsoTypeOK, Reject
<1>3. ConsumedOnce'
  BY DEF SsoInv, SsoTypeOK, ConsumedOnce, Admitted, Reject
<1>4. ClaimsAgree'
  BY DEF SsoInv, SsoTypeOK, ClaimsAgree, Named, Reject
<1>5. LinkedLogin'
  BY DEF SsoInv, SsoTypeOK, ClaimsAgree, LinkedLogin, Reject
<1>6. BarredStay'
  BY DEF SsoInv, SsoTypeOK, BarredStay, Reject
<1>7. AccountsGuarded'
  BY DEF SsoInv, SsoTypeOK, BarredStay, AccountsGuarded, Reject
<1> QED
  BY <1>1, <1>2, <1>3, <1>4, <1>5, <1>6, <1>7 DEF SsoInv

LEMMA ClaimsKeeps == ASSUME NEW c \in Callbacks, SsoInv, Claims(c) PROVE SsoInv'
<1> USE SsoAssumption DEF MoveOn, Finish, CallbackPlaces, Callbacks
<1>1. PrunedIsSmall' /\ StatesCapped'
  BY FewerRows DEF Claims
<1>2. SsoTypeOK'
  BY DEF SsoInv, SsoTypeOK, Claims
<1>3. ConsumedOnce'
  BY DEF SsoInv, SsoTypeOK, ConsumedOnce, Admitted, Claims
<1>4. ClaimsAgree'
  BY DEF SsoInv, SsoTypeOK, ClaimsAgree, Named, Claims
<1>5. LinkedLogin'
  BY DEF SsoInv, SsoTypeOK, ClaimsAgree, LinkedLogin, Claims
<1>6. BarredStay'
  BY DEF SsoInv, SsoTypeOK, BarredStay, Claims
<1>7. AccountsGuarded'
  BY DEF SsoInv, SsoTypeOK, BarredStay, AccountsGuarded, Claims
<1> QED
  BY <1>1, <1>2, <1>3, <1>4, <1>5, <1>6, <1>7 DEF SsoInv

LEMMA FindLinkedKeeps == ASSUME NEW c \in Callbacks, SsoInv, FindLinked(c) PROVE SsoInv'
<1> USE SsoAssumption DEF MoveOn, Finish, CallbackPlaces, Callbacks
<1> who[c] \in Subjects /\ email[c] \in Emails
  BY DEF SsoInv, ClaimsAgree, Named, FindLinked
<1>1. PrunedIsSmall' /\ StatesCapped'
  BY FewerRows DEF FindLinked
<1>2. SsoTypeOK'
  BY SMTT(30) DEF SsoInv, SsoTypeOK, FindLinked
<1>3. ConsumedOnce'
  BY DEF SsoInv, SsoTypeOK, ConsumedOnce, Admitted, FindLinked
<1>4. ClaimsAgree'
  BY DEF SsoInv, SsoTypeOK, ClaimsAgree, Named, FindLinked
<1>5. LinkedLogin'
  BY DEF SsoInv, SsoTypeOK, ClaimsAgree, LinkedLogin, FindLinked
<1>6. BarredStay'
  BY DEF SsoInv, SsoTypeOK, BarredStay, FindLinked
<1>7. AccountsGuarded'
  BY DEF SsoInv, SsoTypeOK, BarredStay, AccountsGuarded, FindLinked
<1> QED
  BY <1>1, <1>2, <1>3, <1>4, <1>5, <1>6, <1>7 DEF SsoInv

LEMMA FindEmailKeeps == ASSUME NEW c \in Callbacks, SsoInv, FindEmail(c) PROVE SsoInv'
<1> USE SsoAssumption DEF MoveOn, Finish, CallbackPlaces, Callbacks
<1> who[c] \in Subjects /\ email[c] \in Emails
  BY DEF SsoInv, ClaimsAgree, Named, FindEmail
<1>1. PrunedIsSmall' /\ StatesCapped'
  BY FewerRows DEF FindEmail
<1>2. SsoTypeOK'
  BY DEF SsoInv, SsoTypeOK, FindEmail
<1>3. ConsumedOnce'
  BY DEF SsoInv, SsoTypeOK, ConsumedOnce, Admitted, FindEmail
<1>4. ClaimsAgree'
  BY DEF SsoInv, SsoTypeOK, ClaimsAgree, Named, FindEmail
<1>5. LinkedLogin'
  BY DEF SsoInv, SsoTypeOK, ClaimsAgree, LinkedLogin, FindEmail
<1>6. BarredStay'
  BY DEF SsoInv, SsoTypeOK, BarredStay, FindEmail
<1>7. AccountsGuarded'
  BY DEF SsoInv, SsoTypeOK, BarredStay, AccountsGuarded, FindEmail
<1> QED
  BY <1>1, <1>2, <1>3, <1>4, <1>5, <1>6, <1>7 DEF SsoInv

LEMMA ProvisionKeeps == ASSUME NEW c \in Callbacks, SsoInv, Provision(c) PROVE SsoInv'
<1> USE SsoAssumption DEF MoveOn, Finish, CallbackPlaces, Callbacks
<1> who[c] \in Subjects /\ email[c] \in Emails
  BY DEF SsoInv, ClaimsAgree, Named, Provision
<1>1. PrunedIsSmall' /\ StatesCapped'
  BY FewerRows DEF Provision
<1>2. SsoTypeOK'
  BY DEF SsoInv, SsoTypeOK, Provision
<1>3. ConsumedOnce'
  BY DEF SsoInv, SsoTypeOK, ConsumedOnce, Admitted, Provision
<1>4. ClaimsAgree'
  BY DEF SsoInv, SsoTypeOK, ClaimsAgree, Named, Provision
<1>5. LinkedLogin'
  BY DEF SsoInv, SsoTypeOK, ClaimsAgree, LinkedLogin, Provision
<1>6. BarredStay'
  BY DEF SsoInv, SsoTypeOK, BarredStay, Provision
<1>7. AccountsGuarded'
  BY DEF SsoInv, SsoTypeOK, BarredStay, AccountsGuarded, Provision
<1> QED
  BY <1>1, <1>2, <1>3, <1>4, <1>5, <1>6, <1>7 DEF SsoInv

LEMMA LinkKeeps == ASSUME NEW c \in Callbacks, SsoInv, Link(c) PROVE SsoInv'
<1> USE SsoAssumption DEF MoveOn, Finish, CallbackPlaces, Callbacks
<1> who[c] \in Subjects /\ email[c] \in Emails
  BY DEF SsoInv, ClaimsAgree, Named, Link
<1>1. PrunedIsSmall' /\ StatesCapped'
  BY FewerRows DEF Link
<1>2. SsoTypeOK'
  BY DEF SsoInv, SsoTypeOK, Link
<1>3. ConsumedOnce'
  BY DEF SsoInv, SsoTypeOK, ConsumedOnce, Admitted, Link
<1>4. ClaimsAgree'
  BY DEF SsoInv, SsoTypeOK, ClaimsAgree, Named, Link
<1>5. LinkedLogin'
  BY DEF SsoInv, SsoTypeOK, ClaimsAgree, LinkedLogin, Link
<1>6. BarredStay'
  BY DEF SsoInv, SsoTypeOK, BarredStay, Link
<1>7. AccountsGuarded'
  BY DEF SsoInv, SsoTypeOK, BarredStay, AccountsGuarded, Link
<1> QED
  BY <1>1, <1>2, <1>3, <1>4, <1>5, <1>6, <1>7 DEF SsoInv

\* The worker's task and other people's registrations and administrators.
LEMMA OthersKeep ==
  ASSUME SsoInv, DeleteExpiredSsoStates \/ Others \/ UNCHANGED ssoVars
  PROVE SsoInv'
<1>1. PrunedIsSmall' /\ StatesCapped'
  BY FewerRows DEF DeleteExpiredSsoStates, Others, flows, ssoVars
<1>2. SsoTypeOK' /\ ConsumedOnce'
  BY DEF SsoInv, SsoTypeOK, ConsumedOnce, Admitted, DeleteExpiredSsoStates, Others, flows, ssoVars
<1>3. ClaimsAgree' /\ LinkedLogin' /\ AccountsGuarded'
  BY DEF SsoInv, ClaimsAgree, LinkedLogin, AccountsGuarded, Named, DeleteExpiredSsoStates, Others,
     flows, ssoVars
<1>4. BarredStay'
  BY SsoAssumption DEF SsoInv, SsoTypeOK, BarredStay, ClaimsAgree, Named, DeleteExpiredSsoStates,
     Others, flows, ssoVars
<1> QED
  BY <1>1, <1>2, <1>3, <1>4 DEF SsoInv

\* The invariant behind LoginsAreGenuine.
THEOREM SsoAlwaysKept == SsoSpec => []SsoInv
<1>1. ASSUME SsoInv, [SsoNext]_ssoVars PROVE SsoInv'
  <2>1. ASSUME NEW c \in Callbacks, SsoStep(c) PROVE SsoInv'
    BY <1>1, <2>1, ConsumeKeeps, RejectKeeps, ClaimsKeeps, FindLinkedKeeps, FindEmailKeeps,
       ProvisionKeeps, LinkKeeps DEF SsoStep
  <2> QED
    BY <1>1, <2>1, PruneKeeps, SaveStateKeeps, OthersKeep DEF SsoNext
<1> QED
  BY <1>1, SsoStarts, PTL DEF SsoSpec

\* For any flows, callbacks delivered twice, subjects and accounts: a callback logs in once,
\* into the account its subject is linked to, and into none that is barred (auth/sso.go).
THEOREM LoginsGenuine == SsoSpec => []LoginsAreGenuine
<1>1. SsoInv => OneLoginPerState
  BY SsoAssumption DEF SsoInv, ConsumedOnce, OneLoginPerState, Admitted, Callbacks
<1>2. SsoInv => LoginsAreGenuine
  BY <1>1 DEF SsoInv, LoginsAreGenuine
<1> QED
  BY <1>2, SsoAlwaysKept, PTL

=============================================================================
