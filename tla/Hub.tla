--------------------------------- MODULE Hub ---------------------------------
(***************************************************************************)
(* The WebSocket hub (internal/transport/websocket/websocket.go): the loop  *)
(* of Run, the two pumps of every connection, the rooms, the broadcasts of  *)
(* the event bridge and the stop at shutdown.  A panic here is in a         *)
(* goroutine nobody recovers: the whole process is gone.  It comes from a   *)
(* send on a closed channel or a second close, from two writes to one       *)
(* connection at a time (gorilla/websocket), and from a change of a map     *)
(* that another goroutine uses; the last two are noticed by chance.         *)
(* Sections under the hub's lock that do not wait are one step; a broadcast *)
(* and the stop hold the read lock from their first client to their last.   *)
(***************************************************************************)
EXTENDS Naturals, FiniteSets

CONSTANTS
    Conns,        \* bound: the connections there will be
    Rooms,        \* pipelines one can subscribe to
    Publishers,   \* goroutines that broadcast to a room; the deployed API has none
    Capacity,     \* of a client's send channel, 256 in the code
    NoConn

\* The channel takes at least one message; a nil client is no client.
ASSUME HubAssumption == Capacity \in Nat \ {0} /\ NoConn \notin Conns

VARIABLES
    hub,       \* "running", "closing" (the clients are told), "stopping" (the channel
               \* stop is closed) or "stopped"
    telling,   \* the clients that StopGracefully has yet to write a close frame to
    adding,    \* the client Run has received from register and not yet stored
    clients,   \* h.clients
    rooms,     \* h.rooms: pairs of a room and a client
    queued,    \* messages in each client's send channel
    closed,    \* the clients whose send channel is closed
    reader,    \* readPump of each connection
    writer,    \* writePump: "none", "writing", "muted" (after a close frame) or "gone"
    open,      \* the connections that are not closed
    todo,      \* per publisher: the clients of the room it has yet to visit
    rlocked,    \* the publishers that hold the read lock
    dropped,   \* history: clients a broadcast closed because their channel was full
    crashed    \* what a goroutine panicked of: "no", "send", "write" or "map"

hubVars == <<hub, telling, adding, clients, rooms, queued, closed, reader, writer, open,
          todo, rlocked, dropped, crashed>>
pumps == <<reader, writer, open>>
publishers == <<todo, rlocked, dropped>>

HubInit ==
    /\ hub = "running" /\ dropped = {} /\ crashed = "no"
    /\ adding = NoConn /\ telling = {}
    /\ clients = {} /\ rooms = {} /\ closed = {} /\ open = {}
    /\ queued = [c \in Conns |-> 0]
    /\ reader = [c \in Conns |-> "none"] /\ writer = [c \in Conns |-> "none"]
    /\ todo = [p \in Publishers |-> {}] /\ rlocked = {}

\* The process is gone, and with it its memory.
Gone ==
    /\ adding' = NoConn /\ telling' = {}
    /\ clients' = {} /\ rooms' = {} /\ closed' = {} /\ open' = {}
    /\ queued' = [c \in Conns |-> 0]
    /\ reader' = [c \in Conns |-> "none"] /\ writer' = [c \in Conns |-> "none"]
    /\ todo' = [p \in Publishers |-> {}] /\ rlocked' = {}

Panic(why) == crashed' = why /\ Gone /\ UNCHANGED <<hub, dropped>>

Read(c, s) == reader' = [reader EXCEPT ![c] = s]
Writable == rlocked = {} /\ hub # "closing"   \* the write lock can be taken
Writes(c) == writer[c] = "writing" /\ c \in open   \* the pump, and the connection takes it
WriterGone(c) == writer' = [writer EXCEPT ![c] = "gone"] /\ open' = open \ {c}

\* A handshake that passed authentication and the origin check is upgraded.
Connect(c) ==
    /\ reader[c] = "none"
    /\ Read(c, "registering")
    /\ open' = open \union {c}
    /\ UNCHANGED <<hub, telling, adding, clients, rooms, queued, closed, writer, publishers, crashed>>

\* Run receives from register; the handler goes on and starts the pumps.
RegisterClient(c) ==
    /\ hub # "stopped" /\ adding = NoConn
    /\ reader[c] = "registering"
    /\ adding' = c
    /\ Read(c, "reading")
    /\ writer' = [writer EXCEPT ![c] = "writing"]
    /\ UNCHANGED <<hub, telling, clients, rooms, queued, closed, open, publishers, crashed>>

\* Run stores the client it received.
Add ==
    /\ adding # NoConn /\ Writable
    /\ clients' = clients \union {adding}
    /\ adding' = NoConn
    /\ UNCHANGED <<hub, telling, rooms, queued, closed, pumps, publishers, crashed>>

\* Mutant of UnregisterClient: the client stays in its rooms.
UnregisterOnly(c) ==
    /\ hub # "stopped" /\ adding = NoConn /\ Writable
    /\ reader[c] = "leaving" /\ c \notin closed
    /\ clients' = clients \ {c} /\ closed' = closed \union (clients \intersect {c})
    /\ Read(c, "done")
    /\ open' = open \ {c}
    /\ UNCHANGED <<hub, telling, adding, rooms, queued, writer, publishers, crashed>>

\* Run receives from unregister: the channel is closed, the rooms are left.
UnregisterClient(c) ==
    /\ hub # "stopped" /\ adding = NoConn /\ Writable
    /\ reader[c] = "leaving"
    /\ IF c \in clients \intersect closed THEN Panic("send")
       ELSE /\ IF c \in clients
               THEN /\ clients' = clients \ {c}
                    /\ closed' = closed \union {c}
                    /\ rooms' = {m \in rooms : m[2] # c}
               ELSE UNCHANGED <<clients, closed, rooms>>
            /\ Read(c, "done")
            /\ open' = open \ {c}
            /\ UNCHANGED <<hub, telling, adding, queued, writer, publishers, crashed>>

\* StopGracefully, called once, takes the read lock;
Stop ==
    /\ hub = "running" /\ hub' = "closing" /\ telling' = clients
    /\ UNCHANGED <<adding, clients, rooms, queued, closed, pumps, publishers, crashed>>

\* writes a close frame to each client, where the client's own writePump may be in the
\* middle of a message, a ping or a close frame;
SayBye(c) ==
    /\ c \in telling \intersect clients
    /\ \/ Writes(c) /\ Panic("write")
       \/ /\ telling' = telling \ {c}
          /\ writer' = [writer EXCEPT ![c] = IF Writes(c) THEN "muted" ELSE @]
          /\ UNCHANGED <<hub, adding, clients, rooms, queued, closed, reader, open, publishers,
                         crashed>>

\* and closes the channel stop.
StopDone ==
    /\ hub = "closing" /\ telling \intersect clients = {}
    /\ hub' = "stopping" /\ telling' = {}
    /\ UNCHANGED <<adding, clients, rooms, queued, closed, pumps, publishers, crashed>>

\* Run sees the stop, at any turn of its loop: every client's channel is closed.
CloseAll ==
    /\ hub = "stopping" /\ adding = NoConn /\ Writable
    /\ IF clients \intersect closed # {} THEN Panic("send")
       ELSE /\ hub' = "stopped"
            /\ closed' = closed \union clients
            /\ clients' = {}
            /\ UNCHANGED <<telling, adding, rooms, queued, pumps, publishers, crashed>>

\* readPump: a ping, or a subscription without permission, a room or an answer.
Receive(c) ==
    /\ reader[c] = "reading" /\ c \in open
    /\ Read(c, "answering")
    /\ UNCHANGED <<hub, telling, adding, clients, rooms, queued, closed, writer, open, publishers, crashed>>

\* JoinRoom and LeaveRoom; the acknowledgement follows.
Subscribe(c) ==
    /\ reader[c] = "reading" /\ c \in open /\ Writable
    /\ \E r \in Rooms : rooms' \in {rooms \union {<<r, c>>}, rooms \ {<<r, c>>}}
    /\ Read(c, "answering")
    /\ UNCHANGED <<hub, telling, adding, clients, queued, closed, writer, open, publishers, crashed>>

\* Pong and acknowledgement wait for room in the channel; closed, it panics.
Answer(c) ==
    /\ reader[c] = "answering"
    /\ IF c \in closed THEN Panic("send")
       ELSE /\ queued[c] < Capacity
            /\ queued' = [queued EXCEPT ![c] = @ + 1]
            /\ Read(c, "reading")
            /\ UNCHANGED <<hub, telling, adding, clients, rooms, closed, writer, open,
                           publishers, crashed>>

\* The connection ended or is silent for too long.
ReadFails(c) ==
    /\ reader[c] = "reading"
    /\ Read(c, "leaving")
    /\ UNCHANGED <<hub, telling, adding, clients, rooms, queued, closed, writer, open, publishers, crashed>>

\* Mutant of Write: a message stays in the channel.
WriteAgain(c) ==
    /\ writer[c] = "writing" /\ queued[c] > 0 /\ c \in open
    /\ UNCHANGED hubVars

\* writePump takes the next message; a reader blocked on the full channel gets its
\* answer in at the same moment.  After a close frame nothing can be written any more,
\* nor on a closed connection.
Write(c) ==
    /\ writer[c] \in {"writing", "muted"} /\ queued[c] > 0
    /\ IF reader[c] = "answering" /\ queued[c] = Capacity /\ c \notin closed
       THEN Read(c, "reading") /\ UNCHANGED queued
       ELSE queued' = [queued EXCEPT ![c] = @ - 1] /\ UNCHANGED reader
    /\ IF Writes(c) THEN UNCHANGED <<writer, open>> ELSE WriterGone(c)
    /\ UNCHANGED <<hub, telling, adding, clients, rooms, closed, publishers, crashed>>

\* writePump ends: the channel is closed and empty, or the next ping fails.
WriteEnds(c) ==
    /\ writer[c] \in {"writing", "muted"}
    /\ (c \in closed /\ queued[c] = 0) \/ ~Writes(c)
    /\ WriterGone(c)
    /\ UNCHANGED <<hub, telling, adding, clients, rooms, queued, closed, reader, publishers, crashed>>

\* A write to a client that has gone silent times out.
WriteFails(c) ==
    /\ Writes(c)
    /\ WriterGone(c)
    /\ UNCHANGED <<hub, telling, adding, clients, rooms, queued, closed, reader, publishers, crashed>>

\* BroadcastToRoom, or BroadcastToUser for a user whose connections are all those
\* there are, takes the read lock.
Publish(p) ==
    /\ p \notin rlocked
    /\ \E to \in {clients} \union {{c \in Conns : <<r, c>> \in rooms} : r \in Rooms} :
          todo' = [todo EXCEPT ![p] = to]
    /\ rlocked' = rlocked \union {p}
    /\ UNCHANGED <<hub, telling, adding, clients, rooms, queued, closed, pumps, dropped, crashed>>

\* The next of these clients: its channel takes the message, or is full and is
\* closed, and the client is deleted from the clients but not from the room: under the
\* read lock only, while others may range over the clients.
Deliver(p, c) ==
    /\ c \in todo[p]
    /\ \/ c \in closed /\ Panic("send")
       \/ /\ c \notin closed
          /\ todo' = [todo EXCEPT ![p] = @ \ {c}]
          /\ IF queued[c] < Capacity
             THEN queued' = [queued EXCEPT ![c] = @ + 1] /\ UNCHANGED <<closed, clients, dropped>>
             ELSE /\ closed' = closed \union {c} /\ clients' = clients \ {c}
                  /\ dropped' = dropped \union {c}
                  /\ UNCHANGED queued
          /\ UNCHANGED <<hub, telling, adding, rooms, pumps, rlocked, crashed>>

\* The deletion meets somebody who ranges over the same map or deletes from it too:
\* another broadcast, or the stop.
Collide(p, c) ==
    /\ c \in todo[p] \ closed /\ queued[c] = Capacity
    /\ rlocked # {p} \/ hub = "closing"
    /\ Gone /\ crashed' = "map" /\ dropped' = dropped \union {c} /\ UNCHANGED hub

\* Mutant of Published: the read lock is kept.
PublishedLocked(p) ==
    /\ p \in rlocked /\ todo[p] = {}
    /\ UNCHANGED hubVars

Published(p) ==
    /\ p \in rlocked /\ todo[p] = {}
    /\ rlocked' = rlocked \ {p}
    /\ UNCHANGED <<hub, telling, adding, clients, rooms, queued, closed, pumps, todo, dropped, crashed>>

Serve == Add \/ CloseAll \/ \E c \in Conns : RegisterClient(c) \/ UnregisterClient(c)
StopStep == StopDone \/ \E c \in Conns : SayBye(c)
Pump(c) == Connect(c) \/ Receive(c) \/ Subscribe(c) \/ Answer(c) \/ ReadFails(c) \/ WriteFails(c)
Drain(c) == Write(c) \/ WriteEnds(c)
Broadcast(p) == (\E c \in Conns : Deliver(p, c) \/ Collide(p, c)) \/ Published(p)
Up == crashed = "no"

HubNext ==
    /\ Up
    /\ \/ Serve \/ Stop \/ StopStep
       \/ \E c \in Conns : Pump(c) \/ Drain(c)
       \/ \E p \in Publishers : Publish(p) \/ Broadcast(p)

\* Run, the pumps, a broadcast and a stop under way go on.  Run gets the lock in the
\* end, which Go does not let readers take from a waiting writer for ever.  No write
\* lasts for ever: writePump sets a deadline before each, and before its first the
\* buffers of the connection have room for a close frame.
HubFairness ==
    /\ SF_hubVars(Up /\ Serve) /\ WF_hubVars(Up /\ StopStep)
    /\ \A c \in Conns : WF_hubVars(Up /\ Answer(c)) /\ WF_hubVars(Up /\ Drain(c))
    /\ \A p \in Publishers : WF_hubVars(Up /\ Broadcast(p))

HubSpec == HubInit /\ [][HubNext]_hubVars /\ HubFairness

-----------------------------------------------------------------------------
(* Properties *)

\* The type of the state.
HubTypeOK ==
    /\ hub \in {"running", "closing", "stopping", "stopped"}
    /\ telling \subseteq Conns /\ (telling # {} => hub = "closing") /\ adding \in Conns \union {NoConn}
    /\ clients \subseteq Conns /\ closed \subseteq Conns /\ open \subseteq Conns
    /\ rooms \subseteq Rooms \X Conns
    /\ queued \in [Conns -> 0..Capacity]
    /\ reader \in [Conns -> {"none", "registering", "reading", "answering", "leaving", "done"}]
    /\ writer \in [Conns -> {"none", "writing", "muted", "gone"}]
    /\ todo \in [Publishers -> SUBSET Conns] /\ rlocked \subseteq Publishers
    /\ dropped \subseteq Conns /\ crashed \in {"no", "send", "write", "map"}

\* Nothing is sent on a closed channel, nothing is closed twice and no map changes while
\* another goroutine ranges over it, whatever connects, subscribes, leaves or pings,
\* unless a broadcast found a full channel: from then on the client it dropped is
\* still in its room and its own reader still answers it.  Two goroutines write to one
\* connection only while StopGracefully tells the clients.
PanicsHaveCauses ==
    /\ crashed = "send" => dropped # {} \/ hub = "stopped"
    /\ crashed = "map" => dropped # {}
    /\ crashed = "write" => hub = "closing"

\* A client is in a room only while the hub knows it: it is registered, or about
\* to be stored, or it was dropped by a broadcast, or the hub has stopped.
RoomsHoldClients ==
    hub # "stopped" => \A m \in rooms : m[2] \in clients \union {adding} \union dropped

\* The maps of the hub agree with its connections, and nothing panics but for three causes:
\* a client dropped by a broadcast, the close frames of a stop, a reader that outlives the
\* hub (websocket.go: Run, BroadcastToRoom, StopGracefully and the pumps).
HubIsConsistent == HubTypeOK /\ PanicsHaveCauses /\ RoomsHoldClients

\* StopGracefully tells every client that the server goes away (websocket.go:226).  It
\* does not hold that it gets that far: a write of a client's own pump at the
\* same moment may bring the process down.
StopIsGraceful == hub = "closing" => crashed = "no"

\* A broadcast is no danger to the process (websocket.go:268).  It does not hold: see
\* PanicsHaveCauses.
BroadcastIsHarmless == hub = "running" => crashed = "no"

\* A connection that wants to register or to leave is served, unless the hub has
\* stopped: then nobody receives any more.
HubServes ==
    \A c \in Conns : reader[c] \in {"registering", "leaving"} ~>
        (reader[c] \notin {"registering", "leaving"} \/ hub = "stopped" \/ ~Up)

\* A reader gets its answer into the channel, unless the writer of its connection
\* has gone: then it waits for ever and never unregisters.
ReaderAnswers ==
    \A c \in Conns : reader[c] = "answering" ~>
        (reader[c] # "answering" \/ writer[c] = "gone" \/ ~Up)

\* A stop that has begun comes to its end, however slow the clients are.
StopEnds == hub = "closing" ~> (hub = "stopped" \/ ~Up)

\* No connection waits for the hub or for its own channel for ever, and the hub stops
\* when it is told to (see the parts for the two cases in which a connection does wait).
HubGoesOn == HubServes /\ ReaderAnswers /\ StopEnds
=============================================================================
