------------------------------- MODULE WSHub -------------------------------
(***************************************************************************)
(* WebSocket fan-out on one app node: the hub, the connection handler and  *)
(* the Redis subscription state that survives a connection.                *)
(*                                                                         *)
(* Goroutines: Hub.Run (register, unregister, evict), one NATS callback    *)
(* ("fan"), and per connection a reader, which first restores the saved    *)
(* rooms, and a write pump.  The hub lock makes each hub method one step;  *)
(* the sends the handler itself makes on client.Send are outside it.       *)
(* Room members, buffers and drop counters are modelled; message bodies    *)
(* are reduced to the durable event they carry.                            *)
(***************************************************************************)
EXTENDS Naturals, FiniteSets

CONSTANTS
    Clients,      \* connections; each is opened once
    Keys,         \* resume keys, by default the session id
    KeyOf,        \* the resume key (and session) of a connection
    Rooms,        \* replayable rooms
    MaxEvent,     \* durable events are numbered 1 .. MaxEvent by sequence
    RoomOf,       \* the room of an event
    SendBuf,      \* sendBufSize
    MaxDrops,     \* maxSlowDrops
    ReplayLimit,  \* limit of ReplayRoom
    MaxFaults     \* bound: Redis or database errors and server crashes

Events == 1 .. MaxEvent

ASSUME HubAssumption ==
    /\ KeyOf \in [Clients -> Keys]
    /\ MaxEvent \in Nat
    /\ RoomOf \in [Events -> Rooms]
    /\ SendBuf \in Nat \ {0} /\ MaxDrops \in Nat \ {0}
    /\ ReplayLimit \in Nat \ {0} /\ MaxFaults \in Nat
    /\ "fan" \notin Clients

VARIABLES
    pc,        \* where the connection's reader goroutine is
    todo,      \* saved rooms still to restore
    push,      \* <<room, events>>: replayed events still to send
    clients,   \* Hub.clients
    rooms,     \* Hub.rooms: room |-> members
    buf,       \* messages in client.Send
    drops,     \* client.dropCount
    toEvict,   \* broadcaster |-> slow clients it is about to evict
    saved,     \* Redis ws:subscriptions
    cursor,    \* Redis ws:sequence
    stream,    \* events JetStream stored
    past,      \* events the node's subscription handled or skipped
    marked,    \* events whose row is 'published'
    faults,
    got,       \* history: events put on the connection's Send channel
    whole,     \* history: rooms restored, their replay sent to the end
    atRisk     \* history: events past and unmarked when the connection joined
               \* their room, and events dropped because Send was full

conn == <<pc, todo, push>>
hub == <<clients, rooms, buf, drops, toEvict>>
redis == <<saved, cursor>>
bus == <<stream, past, marked>>
history == <<got, whole, atRisk>>
vars == <<conn, hub, redis, bus, faults, history>>

-----------------------------------------------------------------------------
Broadcasters == Clients \cup {"fan"}
NoPush == [room |-> "none", events |-> {}]

(* "accept": the socket is open and Register waits for the hub; "restore"  *)
(* and "push": restoreSubscriptions; "exit": Unregister waits for the hub. *)
PCs == {"new", "accept", "list", "restore", "replay", "push", "read",
        "exit", "gone"}

(* The shape of every variable; no Send channel holds more than its buffer. *)
TypeOK ==
    /\ pc \in [Clients -> PCs]
    /\ todo \in [Clients -> SUBSET Rooms]
    /\ push \in [Clients -> [room : Rooms \cup {"none"}, events : SUBSET Events]]
    /\ clients \in SUBSET Clients
    /\ rooms \in [Rooms -> SUBSET Clients]
    /\ buf \in [Clients -> 0 .. SendBuf]
    /\ drops \in [Clients -> Nat]
    /\ toEvict \in [Broadcasters -> SUBSET Clients]
    /\ saved \in [Keys -> SUBSET Rooms]
    /\ cursor \in [Keys \X Rooms -> 0 .. MaxEvent]
    /\ stream \in SUBSET Events /\ past \in SUBSET Events
    /\ marked \in SUBSET Events
    /\ faults \in Nat
    /\ got \in [Clients -> SUBSET Events]
    /\ whole \in [Clients -> SUBSET Rooms]
    /\ atRisk \in [Clients -> SUBSET Events]

(* Redis may hold rooms saved by connections before these.                 *)
Init ==
    /\ pc = [c \in Clients |-> "new"]
    /\ todo = [c \in Clients |-> {}]
    /\ push = [c \in Clients |-> NoPush]
    /\ clients = {}
    /\ rooms = [r \in Rooms |-> {}]
    /\ buf = [c \in Clients |-> 0]
    /\ drops = [c \in Clients |-> 0]
    /\ toEvict = [b \in Broadcasters |-> {}]
    /\ saved \in [Keys -> SUBSET Rooms]
    /\ cursor = [x \in Keys \X Rooms |-> 0]
    /\ stream = {} /\ past = {} /\ marked = {}
    /\ faults = 0
    /\ got = [c \in Clients |-> {}]
    /\ whole = [c \in Clients |-> {}]
    /\ atRisk = [c \in Clients |-> {}]

Fault == faults < MaxFaults /\ faults' = faults + 1

(* removeClientLocked closes Send; before Register the channel is open.    *)
Closed(c) == pc[c] \notin {"new", "accept"} /\ c \notin clients

GoTo(c, l) == pc' = [pc EXCEPT ![c] = l]

(* restoreSubscriptions returns before its last room.                      *)
Leave(c, l) ==
    /\ GoTo(c, l)
    /\ todo' = [todo EXCEPT ![c] = {}]
    /\ push' = [push EXCEPT ![c] = NoPush]

InRoom(r) == {n \in Events : RoomOf[n] = r}

-----------------------------------------------------------------------------
(* The hub.                                                                *)

(* removeClientLocked for every client of S.                               *)
RemoveClients(S) ==
    /\ clients' = clients \ S
    /\ rooms' = [r \in Rooms |-> rooms[r] \ S]

(* What is left of connections that ended is garbage.                      *)
Forget(S) ==
    /\ buf' = [c \in Clients |-> IF c \in S THEN 0 ELSE buf[c]]
    /\ drops' = [c \in Clients |-> IF c \in S THEN 0 ELSE drops[c]]
    /\ whole' = [c \in Clients |-> IF c \in S THEN {} ELSE whole[c]]
    /\ atRisk' = [c \in Clients |-> IF c \in S THEN {} ELSE atRisk[c]]

(* Register, taken by Hub.Run.                                             *)
Register(c) ==
    /\ pc[c] = "accept"
    /\ clients' = clients \cup {c}
    /\ GoTo(c, "list")
    /\ UNCHANGED <<todo, push, rooms, buf, drops, toEvict, redis, bus, faults, history>>

(* Mutation: Unregister is lost when the client is no longer registered.   *)
UnregisterOnlyRegistered(c) ==
    /\ pc[c] = "exit"
    /\ c \in clients
    /\ RemoveClients({c})
    /\ Forget({c})
    /\ GoTo(c, "gone")
    /\ UNCHANGED <<todo, push, toEvict, redis, bus, faults, got>>

(* Unregister, taken by Hub.Run; the client may be gone already.           *)
Unregister(c) ==
    /\ pc[c] = "exit"
    /\ RemoveClients({c})
    /\ Forget({c})
    /\ GoTo(c, "gone")
    /\ UNCHANGED <<todo, push, toEvict, redis, bus, faults, got>>

(* EvictSession, taken by Hub.Run: every client of the session.            *)
EvictSession(k) ==
    /\ \E c \in clients : KeyOf[c] = k
    /\ RemoveClients({c \in clients : KeyOf[c] = k})
    /\ UNCHANGED <<conn, buf, drops, toEvict, redis, bus, faults, history>>

(* Mutation: the room is joined whether or not the client still exists.    *)
JoinUnchecked(c, r) ==
    /\ rooms' = [rooms EXCEPT ![r] = @ \cup {c}]
    /\ saved' = [saved EXCEPT ![KeyOf[c]] = @ \cup {r}]
    /\ UNCHANGED faults

(* Subscribe: nothing for a client the hub no longer knows; an error of    *)
(* AddSubscription is logged.                                              *)
Join(c, r) ==
    IF c \in clients
    THEN /\ rooms' = [rooms EXCEPT ![r] = @ \cup {c}]
         /\ \/ saved' = [saved EXCEPT ![KeyOf[c]] = @ \cup {r}] /\ UNCHANGED faults
            \/ UNCHANGED saved /\ Fault
    ELSE UNCHANGED <<rooms, saved, faults>>

(* event.Prepare marshals the body before the INSERT draws the sequence    *)
(* number, so a published body carries none.                               *)
BodySequence(n) == 0

(* dropCount: reset by a delivery, incremented by a drop.                  *)
CountDrops(S, D) ==
    drops' = [c \in Clients |-> IF c \in S THEN 0
                                ELSE IF c \in D THEN drops[c] + 1
                                ELSE drops[c]]

(* The clients of D whose drop reached the limit.                          *)
Slow(D) == {c \in D : drops[c] + 1 >= MaxDrops}

(* BroadcastToRoom under the read lock, by broadcaster b: S got the        *)
(* message, D had a full buffer.                                           *)
Broadcast(b, S, D) ==
    /\ toEvict[b] = {}
    /\ buf' = [c \in Clients |-> IF c \in S THEN buf[c] + 1 ELSE buf[c]]
    /\ CountDrops(S, D)
    /\ toEvict' = [toEvict EXCEPT ![b] = Slow(D)]

(* Members whose Send has room, and members whose Send is full.            *)
Ready(r) == {c \in rooms[r] \cap clients : buf[c] < SendBuf}
Full(r) == {c \in rooms[r] \cap clients : buf[c] = SendBuf}

(* The NATS callback of event n, then recordDelivery for every receiver.   *)
(* JetStream may deliver an unacknowledged message again.                  *)
Forward(n) ==
    /\ n \in stream
    /\ LET r == RoomOf[n] IN
       /\ Broadcast("fan", Ready(r), Full(r))
       /\ got' = [c \in Clients |-> IF c \in Ready(r) THEN got[c] \cup {n} ELSE got[c]]
       /\ atRisk' = [c \in Clients |-> IF c \in Full(r) THEN atRisk[c] \cup {n} ELSE atRisk[c]]
       /\ cursor' = [x \in Keys \X Rooms |->
                        IF /\ x[2] = r /\ \E c \in Ready(r) : KeyOf[c] = x[1]
                           /\ BodySequence(n) > cursor[x]
                        THEN BodySequence(n) ELSE cursor[x]]
    /\ past' = past \cup {n}
    /\ UNCHANGED <<conn, clients, rooms, saved, stream, marked, faults, whole>>

(* Mutation: eviction happens only if the buffer is still full.            *)
EvictSlowIfStillFull(b) ==
    /\ toEvict[b] # {}
    /\ RemoveClients({c \in toEvict[b] : buf[c] = SendBuf})
    /\ toEvict' = [toEvict EXCEPT ![b] = {}]
    /\ UNCHANGED <<conn, buf, drops, redis, bus, faults, history>>

(* evictSlowClients, after the read lock was released.                     *)
EvictSlow(b) ==
    /\ toEvict[b] # {}
    /\ RemoveClients(toEvict[b])
    /\ toEvict' = [toEvict EXCEPT ![b] = {}]
    /\ UNCHANGED <<conn, buf, drops, redis, bus, faults, history>>

(* The write pump takes a message; it may stop for good at any time.       *)
WritePump(c) ==
    /\ buf[c] > 0
    /\ pc[c] \notin {"new", "accept", "gone"}
    /\ buf' = [buf EXCEPT ![c] = @ - 1]
    /\ UNCHANGED <<conn, clients, rooms, drops, toEvict, redis, bus, faults, history>>

-----------------------------------------------------------------------------
(* The connection's reader goroutine.                                      *)

Accept(c) ==
    /\ pc[c] = "new"
    /\ GoTo(c, "accept")
    /\ UNCHANGED <<todo, push, hub, redis, bus, faults, history>>

(* ListSubscriptions; on an error nothing is restored.                     *)
ListSubscriptions(c) ==
    /\ pc[c] = "list"
    /\ \/ /\ todo' = [todo EXCEPT ![c] = saved[KeyOf[c]]]
          /\ GoTo(c, "restore")
          /\ UNCHANGED faults
       \/ Fault /\ GoTo(c, "read") /\ UNCHANGED todo
    /\ UNCHANGED <<push, hub, redis, bus, history>>

RestoreDone(c) ==
    /\ pc[c] = "restore"
    /\ todo[c] = {}
    /\ GoTo(c, "read")
    /\ UNCHANGED <<todo, push, hub, redis, bus, faults, history>>

(* The user may no longer join the room: it is dropped from Redis.         *)
RestoreDenied(c, r) ==
    /\ pc[c] = "restore"
    /\ r \in todo[c]
    /\ todo' = [todo EXCEPT ![c] = @ \ {r}]
    /\ \/ saved' = [saved EXCEPT ![KeyOf[c]] = @ \ {r}] /\ UNCHANGED faults
       \/ UNCHANGED saved /\ Fault
    /\ UNCHANGED <<pc, push, hub, cursor, bus, history>>

RestoreSubscribe(c, r) ==
    /\ pc[c] = "restore"
    /\ r \in todo[c]
    /\ todo' = [todo EXCEPT ![c] = @ \ {r}]
    /\ push' = [push EXCEPT ![c] = [room |-> r, events |-> {}]]
    /\ Join(c, r)
    /\ atRisk' = [atRisk EXCEPT ![c] = @ \cup ((past \ marked) \cap InRoom(r))]
    /\ GoTo(c, "replay")
    /\ UNCHANGED <<clients, buf, drops, toEvict, cursor, bus, got, whole>>

(* Mutation: the replay starts after the first event past the cursor.      *)
ReplaySetSkippingOne(r, after) ==
    {n \in marked \cap InRoom(r) :
        /\ n > after + 1
        /\ Cardinality({m \in marked \cap InRoom(r) : after < m /\ m < n}) < ReplayLimit}

(* ReplayRoom: sequence > after ORDER BY sequence LIMIT ReplayLimit.       *)
ReplaySet(r, after) ==
    {n \in marked \cap InRoom(r) :
        /\ n > after
        /\ Cardinality({m \in marked \cap InRoom(r) : after < m /\ m < n}) < ReplayLimit}

(* LastDeliveredSequence and ReplayRoom; an error skips the room's replay. *)
ReplayRoom(c) ==
    /\ pc[c] = "replay"
    /\ LET r == push[c].room IN
       \/ /\ push' = [push EXCEPT ![c].events = ReplaySet(r, cursor[<<KeyOf[c], r>>])]
          /\ whole' = [whole EXCEPT ![c] = @ \cup {r}]
          /\ GoTo(c, "push")
          /\ UNCHANGED faults
       \/ /\ Fault
          /\ GoTo(c, "restore")
          /\ push' = [push EXCEPT ![c] = NoPush]
          /\ UNCHANGED whole
    /\ UNCHANGED <<todo, hub, redis, bus, got, atRisk>>

(* One replayed event is sent, lowest sequence first.  A full buffer ends  *)
(* the whole restore; a closed channel makes the send panic.               *)
PushReplayed(c) ==
    /\ pc[c] = "push"
    /\ IF push[c].events = {}
       THEN /\ GoTo(c, "restore")
            /\ push' = [push EXCEPT ![c] = NoPush]
            /\ UNCHANGED <<todo, buf, got, whole>>
       ELSE \E n \in push[c].events :
            /\ \A m \in push[c].events : n <= m
            /\ IF Closed(c)
               THEN Leave(c, "exit") /\ UNCHANGED <<buf, got, whole>>
               ELSE IF buf[c] < SendBuf
               THEN /\ buf' = [buf EXCEPT ![c] = @ + 1]
                    /\ got' = [got EXCEPT ![c] = @ \cup {n}]
                    /\ push' = [push EXCEPT ![c].events = @ \ {n}]
                    /\ UNCHANGED <<pc, todo, whole>>
               ELSE /\ Leave(c, "read")
                    /\ whole' = [whole EXCEPT ![c] = @ \ {push[c].room}]
                    /\ UNCHANGED <<buf, got>>
    /\ UNCHANGED <<clients, rooms, drops, toEvict, redis, bus, faults, atRisk>>

(* handleSubscribe, authorized.  No replay: the client loads history.      *)
HandleSubscribe(c, r) ==
    /\ pc[c] = "read"
    /\ c \notin rooms[r]
    /\ Join(c, r)
    /\ UNCHANGED <<conn, clients, buf, drops, toEvict, cursor, bus, history>>

(* handleUnsubscribe.  Nothing happens for a room with no member here.     *)
HandleUnsubscribe(c, r) ==
    /\ pc[c] = "read"
    /\ rooms[r] # {}
    /\ rooms' = [rooms EXCEPT ![r] = @ \ {c}]
    /\ \/ /\ saved' = IF c \in clients
                      THEN [saved EXCEPT ![KeyOf[c]] = @ \ {r}] ELSE saved
          /\ UNCHANGED faults
       \/ c \in clients /\ UNCHANGED saved /\ Fault
    /\ whole' = [whole EXCEPT ![c] = @ \ {r}]
    /\ UNCHANGED <<conn, clients, buf, drops, toEvict, cursor, bus, got, atRisk>>

(* handleTyping: the reader broadcasts an ephemeral message itself.        *)
HandleTyping(c, r) ==
    /\ pc[c] = "read"
    /\ rooms[r] # {}
    /\ Broadcast(c, Ready(r), Full(r))
    /\ UNCHANGED <<conn, clients, rooms, redis, bus, faults, history>>

(* sendError, outside the hub lock: dropped when full, panic when closed.  *)
SendError(c) ==
    /\ pc[c] = "read"
    /\ toEvict[c] = {}
    /\ IF Closed(c)
       THEN GoTo(c, "exit") /\ UNCHANGED buf
       ELSE /\ buf[c] < SendBuf
            /\ buf' = [buf EXCEPT ![c] = @ + 1]
            /\ UNCHANGED pc
    /\ UNCHANGED <<todo, push, clients, rooms, drops, toEvict, redis, bus, faults, history>>

(* conn.Read fails: the peer left, or the hub closed the connection.       *)
ReadError(c) ==
    /\ pc[c] = "read"
    /\ toEvict[c] = {}
    /\ GoTo(c, "exit")
    /\ UNCHANGED <<todo, push, hub, redis, bus, faults, history>>

-----------------------------------------------------------------------------
(* The outbox and the node.                                                *)

StreamStores(n) ==
    /\ n \notin stream
    /\ stream' = stream \cup {n}
    /\ UNCHANGED <<conn, hub, redis, past, marked, faults, history>>

MarkPublished(n) ==
    /\ n \in stream \ marked
    /\ marked' = marked \cup {n}
    /\ UNCHANGED <<conn, hub, redis, stream, past, faults, history>>

(* The process dies with its hub and connections.  The new process         *)
(* subscribes with DeliverNew: what was stored meanwhile is skipped.       *)
ServerCrash ==
    /\ Fault
    /\ pc' = [c \in Clients |-> IF pc[c] = "new" THEN "new" ELSE "gone"]
    /\ clients' = {}
    /\ rooms' = [r \in Rooms |-> {}]
    /\ toEvict' = [b \in Broadcasters |-> {}]
    /\ past' = stream
    /\ todo' = [c \in Clients |-> {}]
    /\ push' = [c \in Clients |-> NoPush]
    /\ Forget(Clients)
    /\ UNCHANGED <<redis, stream, marked, got>>

Next ==
    \/ \E c \in Clients :
          \/ Accept(c) \/ Register(c) \/ Unregister(c) \/ WritePump(c)
          \/ ListSubscriptions(c) \/ RestoreDone(c) \/ ReplayRoom(c)
          \/ PushReplayed(c) \/ SendError(c) \/ ReadError(c)
          \/ \E r \in Rooms :
                \/ RestoreDenied(c, r) \/ RestoreSubscribe(c, r)
                \/ HandleSubscribe(c, r) \/ HandleUnsubscribe(c, r)
                \/ HandleTyping(c, r)
    \/ \E k \in Keys : EvictSession(k)
    \/ \E b \in Broadcasters : EvictSlow(b)
    \/ \E n \in Events : StreamStores(n) \/ Forward(n) \/ MarkPublished(n)
    \/ ServerCrash

Spec == Init /\ [][Next]_vars

(* Hub.Run keeps serving its channels; a reader whose connection was       *)
(* closed gets an error; nothing is assumed of the write pump.             *)
Fairness ==
    /\ \A b \in Broadcasters : WF_vars(EvictSlow(b))
    /\ \A c \in Clients :
          /\ WF_vars(Unregister(c))
          /\ WF_vars(Closed(c) /\ ReadError(c))
          /\ WF_vars(\/ ListSubscriptions(c) \/ RestoreDone(c)
                     \/ ReplayRoom(c) \/ PushReplayed(c)
                     \/ \E r \in Rooms : RestoreDenied(c, r) \/ RestoreSubscribe(c, r))

LiveSpec == Spec /\ Fairness

-----------------------------------------------------------------------------
(* BroadcastToRoom never meets a stale member: whoever is in a room is     *)
(* registered and its channel is open, whichever of Unregister, eviction   *)
(* of a slow client, eviction of a session and a late Subscribe came last. *)
RoomsAreLive ==
    \A r \in Rooms : rooms[r] \subseteq clients

(* A client that reached maxSlowDrops is on its way out: the broadcaster   *)
(* that counted the drop still holds it in toEvict, or it is removed.      *)
SlowClientEvicted ==
    \A c \in clients :
        drops[c] >= MaxDrops => \E b \in Broadcasters : c \in toEvict[b]

(* A restored connection has every published event of a restored room that *)
(* the replay limit reaches, except those past the node before it joined   *)
(* and not yet marked, and those dropped: Subscribe precedes ReplayRoom.   *)
NoGapAfterRestore ==
    \A c \in clients : \A r \in whole[c] :
        pc[c] = "read" /\ c \in rooms[r] =>
            \A n \in (past \cap marked \cap InRoom(r)) \ atRisk[c] :
                Cardinality({m \in marked \cap InRoom(r) : m < n}) < ReplayLimit
                    => n \in got[c]

(* A connection the hub removed, for whatever reason, ends: its reader     *)
(* leaves restore or read and Unregister returns.                          *)
RemovedConnectionEnds ==
    \A c \in Clients : Closed(c) ~> pc[c] = "gone"

-----------------------------------------------------------------------------
(* docs/realtime-reliability.md: "If a client reconnects after missing     *)
(* durable room events, replay fills the gap": once the restore is done,   *)
(* an event is missing only if the replay already sent ReplayLimit events  *)
(* that the earlier, ended connections of the resume key had not got.      *)
Others(c) == {d \in Clients \ {c} : KeyOf[d] = KeyOf[c]}
Earlier(c) == UNION {got[d] : d \in Others(c)}

ReplayFillsGap ==
    \A c \in clients : \A r \in whole[c] :
        pc[c] = "read" /\ c \in rooms[r] /\ (\A d \in Others(c) : pc[d] = "gone") =>
            \/ (past \cap marked \cap InRoom(r)) \ atRisk[c] \subseteq got[c] \cup Earlier(c)
            \/ Cardinality(got[c] \ Earlier(c)) >= ReplayLimit
=============================================================================
