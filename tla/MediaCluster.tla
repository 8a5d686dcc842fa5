---------------------------- MODULE MediaCluster ----------------------------
(***************************************************************************)
(* One call on several media nodes: which node serves it, which nodes      *)
(* relay it to viewers, and the relay itself.                              *)
(*                                                                         *)
(* The nodes share two stores.  In Redis every node keeps a snapshot of    *)
(* itself, which expires when its heartbeat is late; in Postgres a row     *)
(* names the node a call is placed on, and rows of media_relay_edges name  *)
(* the nodes its media is relayed to.  A request of a participant may      *)
(* reach any node; it is a thread, and each of its calls to a store is one *)
(* step.  A node is a number, so that snapshots with equal load are        *)
(* ordered as the code orders them, by node id.                            *)
(***************************************************************************)
EXTENDS Naturals, FiniteSets, Sequences

CONSTANTS
    Nodes,          \* media nodes
    Users,          \* participants, each with one request at a time
    Presenters,     \* participants whose role is not viewer
    MaxRooms,       \* MaxRoomsPerNode
    Hash,           \* the checksum of the call id
    WebinarEdges,   \* relay nodes a webinar above the threshold asks for
    Situations,     \* bound: what a behaviour starts from and what comes up
    None

ASSUME ClusterAssumption ==
    /\ Nodes \subseteq Nat /\ IsFiniteSet(Nodes) /\ None \notin Nodes
    /\ Presenters \subseteq Users
    /\ MaxRooms \in Nat \ {0} /\ Hash \in Nat /\ WebinarEdges \in Nat \ {0}
    /\ \A s \in Situations :
          /\ s.type \in {"group", "meeting", "webinar"}
          /\ DOMAIN s.region \subseteq Nodes
          /\ s.busy \in [DOMAIN s.region -> Nat]
          /\ s.placed \in DOMAIN s.region \cup {None}
          /\ s.requests \in [Users -> Nat]
          /\ s.late \subseteq DOMAIN s.region
          /\ s.shared \subseteq DOMAIN s.region
          /\ s.events \subseteq {"offer", "media", "read", "store",
                                "crash", "drop", "end"}

VARIABLES
    members,      \* the Redis set media:nodes:active
    heard,        \* media:nodes:<id>: rooms in the snapshot, None if expired
    busy,         \* the rooms other calls have on a node
    call,         \* the call row: not there, active or ended
    placement,    \* media_room_placements: the node of the call
    edges,        \* media_relay_edges: the target nodes of the call
    req,          \* the request of a participant
    spent,        \* requests each participant has made
    token,        \* the node in the media token a participant holds
    room,         \* nodes whose SFU has the room of the call
    peers,        \* the participants connected to the room of a node
    own,          \* presenters whose track a node has from their connection
    relayed,      \* presenters whose track a node has from the relay
    sinks,        \* <<presenter, target>>: relay sinks of a track of a node
    attached,     \* targets of the relay observers in a node's room
    keys,         \* Service.relayObservers of a node: targets
    sync,         \* where a node's reconcileRelayObservers is, what it read
    wire,         \* <<presenter, source, target>>: relay packets in flight
    here          \* the situation

registry == <<members, heard, busy>>
rows == <<call, placement, edges>>
clients == <<req, spent, token>>
tracks == <<own, relayed, sinks>>
sfu == <<room, peers, tracks, attached>>
relay == <<keys, sync, wire>>
vars == <<registry, rows, clients, sfu, relay, here>>

-----------------------------------------------------------------------------
(* A request: its node, its step, the steps after it, the nodes ListNodes  *)
(* answered, the placement it has, whether that was in the table, and the  *)
(* edge rows its transaction deletes.                                      *)
Idle == [node |-> None, at |-> "idle", then |-> <<>>, view |-> <<>>,
         stale |-> {}, placed |-> None, found |-> FALSE, snap |-> {}]

Synced == [at |-> "idle", want |-> {}]

(* The nodes of this cluster.                                              *)
Here == DOMAIN here.region

TypeOK ==
    /\ members \subseteq Nodes
    /\ heard \in [Nodes -> Nat \cup {None}] /\ busy \in [Nodes -> Nat]
    /\ call \in {"none", "active", "ended"}
    /\ placement \in Nodes \cup {None} /\ edges \subseteq Nodes
    /\ \A u \in Users :
          /\ req[u].at \in {"idle", "list", "get", "upsert", "delete", "wait",
                            "insert", "room", "token", "edges", "serve",
                            "peer", "close"}
          /\ req[u].at = "idle" <=> req[u].node = None
          /\ req[u].placed \in Nodes \cup {None}
          /\ req[u].snap \subseteq Nodes
    /\ \A u \in Users : spent[u] \in 0 .. here.requests[u]
    /\ token \in [Users -> Nodes \cup {None}]
    /\ room \subseteq Nodes
    /\ peers \in [Nodes -> SUBSET Users]
    /\ own \in [Nodes -> SUBSET Presenters]
    /\ relayed \in [Nodes -> SUBSET Presenters]
    /\ attached \in [Nodes -> SUBSET Nodes] /\ keys \in [Nodes -> SUBSET Nodes]
    /\ \A n \in Nodes :
          /\ sinks[n] \subseteq (own[n] \cup relayed[n]) \X Nodes
          /\ n \notin room => peers[n] \cup own[n] \cup relayed[n] \cup attached[n] = {}
    /\ wire \subseteq Presenters \X Nodes \X Nodes

Init ==
    /\ here \in Situations
    /\ members = Here
    /\ busy = [n \in Nodes |-> IF n \in Here THEN here.busy[n] ELSE 0]
    /\ heard = [n \in Nodes |-> IF n \in Here THEN busy[n] ELSE None]
    /\ placement = here.placed /\ edges = {}
    /\ call = IF here.placed = None THEN "none" ELSE "active"
    /\ req = [u \in Users |-> Idle]
    /\ spent = [u \in Users |-> 0]
    /\ token = [u \in Users |-> None]
    /\ room = {}
    /\ peers = [n \in Nodes |-> {}]
    /\ own = [n \in Nodes |-> {}]
    /\ relayed = [n \in Nodes |-> {}]
    /\ sinks = [n \in Nodes |-> {}]
    /\ attached = [n \in Nodes |-> {}]
    /\ keys = [n \in Nodes |-> {}]
    /\ sync = [n \in Nodes |-> Synced]
    /\ wire = {}

-----------------------------------------------------------------------------
(* PolicyForCall.                                                          *)
SingleNode == here.type = "group"
Cascade == here.type = "meeting"
Overflows == here.type \in {"meeting", "webinar"}

(* The rooms of a node, localNodeSnapshot: those of other calls and ours.  *)
Rooms(n) == busy[n] + Cardinality(room \cap {n})

(* filterAvailableNodes and filterNodesByRegion, on a list of snapshots.   *)
Available(view, S) == {n \in S : view[n] < MaxRooms}
InRegion(S, region) ==
    LET same == {n \in S : here.region[n] = region}
    IN  IF same = {} THEN S ELSE same

(* The order of the snapshots: by load, then by id.                        *)
Before(view, m, n) == view[m] < view[n] \/ (view[m] = view[n] /\ m < n)
Rank(view, S, n) == Cardinality({m \in S : Before(view, m, n)})
Lowest(view, S, k) == {n \in S : Rank(view, S, n) < k}

(* selectNode: the candidates of a node, and the one the hash picks.       *)
Candidates(view, n) ==
    LET near == Available(view, InRegion(DOMAIN view, here.region[n]))
    IN  IF near = {} /\ Overflows THEN Available(view, DOMAIN view) ELSE near

Selected(view, n) ==
    LET S == Candidates(view, n)
    IN  CHOOSE m \in S : Rank(view, S, m) = Hash % Cardinality(S)

(* selectRelayNodes: with a cascade the first node of each region, as many *)
(* as there are other regions, then any; otherwise as many as are asked.   *)
RelayNodes(view, S, source) ==
    LET far == {here.region[n] : n \in S} \ {here.region[source]}
        want == IF ~Cascade THEN WebinarEdges
                ELSE IF far = {} THEN 1 ELSE Cardinality(far)
        heads == {n \in S : \A m \in S : here.region[m] = here.region[n]
                                            => ~Before(view, m, n)}
        first == Lowest(view, IF Cascade THEN heads ELSE S, want)
    IN  first \cup Lowest(view, S \ first, want - Cardinality(first))

(* buildRelayEdges.                                                        *)
RelayEdges(view, source) ==
    IF SingleNode THEN {}
    ELSE RelayNodes(view, Available(view, DOMAIN view) \ {source}, source)

-----------------------------------------------------------------------------
(* Heartbeats: publishNodeHeartbeat, and a key that outlives its TTL.      *)
Heartbeat(n) ==
    /\ members' = members \cup {n}
    /\ heard' = [heard EXCEPT ![n] = Rooms(n)]
    /\ UNCHANGED <<busy, rows, clients, sfu, relay, here>>

KeyExpires(n) ==
    /\ n \in here.late
    /\ heard[n] # None
    /\ heard' = [heard EXCEPT ![n] = None]
    /\ UNCHANGED <<members, busy, rows, clients, sfu, relay, here>>

(* Other calls begin and end on a node, between any two steps of this one; *)
(* they are refused a room under the same limit.                           *)
OpenOther(n) ==
    /\ n \in here.shared
    /\ Rooms(n) < MaxRooms
    /\ busy' = [busy EXCEPT ![n] = @ + 1]
    /\ UNCHANGED <<members, heard, rows, clients, sfu, relay, here>>

CloseOther(n) ==
    /\ n \in here.shared
    /\ busy[n] > 0
    /\ busy' = [busy EXCEPT ![n] = @ - 1]
    /\ UNCHANGED <<members, heard, rows, clients, sfu, relay, here>>

-----------------------------------------------------------------------------
(* What a request does next: its next step, or the end.                    *)
Proceed(r) == IF r.then = <<>> THEN Idle
              ELSE [r EXCEPT !.at = Head(r.then), !.then = Tail(r.then),
                             !.view = <<>>, !.snap = {}, !.found = FALSE]

At(u, step) == req[u].at = step
Goes(u, r) == req' = [req EXCEPT ![u] = r]
Step(u, next) == Goes(u, [req[u] EXCEPT !.at = next])
OnlyRequest == UNCHANGED <<registry, rows, spent, token, sfu, relay, here>>

(* EnsurePlacement returns an error: the call of the request fails, except *)
(* for StartCall, which has no placement then.                             *)
NotEnsured(r) ==
    IF "room" \in {r.then[i] : i \in DOMAIN r.then}
    THEN [Proceed(r) EXCEPT !.placed = None] ELSE Idle

(* A store fails within EnsurePlacement: what was found stays good, a      *)
(* failed refresh of its edges is only logged.                             *)
EnsureFails(r) == IF r.found THEN Proceed(r) ELSE NotEnsured(r)

(* ListNodes: the members whose key is there, or the node itself.          *)
ListNodes(u) ==
    LET n == req[u].node
        live == {m \in members : heard[m] # None}
        view == IF live = {} THEN [m \in {n} |-> Rooms(n)]
                             ELSE [m \in live |-> heard[m]]
    IN  /\ At(u, "list")
        /\ Goes(u, [req[u] EXCEPT !.at = "get", !.view = view,
                                  !.stale = members \ live])
        /\ OnlyRequest

(* ListNodes removes the members whose key it did not find.                *)
PruneMembers(u) ==
    /\ req[u].stale # {}
    /\ members' = members \ req[u].stale
    /\ req' = [req EXCEPT ![u].stale = {}]
    /\ UNCHANGED <<heard, busy, rows, spent, token, sfu, relay, here>>

(* No row: a node is selected, if there is one with capacity.              *)
Select(u) ==
    LET r == req[u]
    IN  IF Candidates(r.view, r.node) = {} THEN Goes(u, NotEnsured(r))
        ELSE Goes(u, [r EXCEPT !.at = "upsert", !.found = FALSE,
                               !.placed = Selected(r.view, r.node)])

(* Mutation: a row of a node that is late or full counts as none.          *)
GetPlacementWithRoom(u) ==
    /\ At(u, "get") /\ req[u].stale = {}
    /\ IF placement \notin Available(req[u].view, DOMAIN req[u].view) THEN Select(u)
       ELSE Goes(u, [req[u] EXCEPT !.at = "upsert", !.found = TRUE,
                                   !.placed = placement])
    /\ OnlyRequest

(* GetPlacement; a row that is found is written back with its edges.       *)
GetPlacement(u) ==
    /\ At(u, "get") /\ req[u].stale = {}
    /\ IF placement = None THEN Select(u)
       ELSE Goes(u, [req[u] EXCEPT !.at = "upsert", !.found = TRUE,
                                   !.placed = placement])
    /\ OnlyRequest

(* The read fails.  The error of the repository is not an AppError, so the *)
(* request goes on as if there were no row.                                *)
GetPlacementFails(u) ==
    /\ "read" \in here.events
    /\ At(u, "get") /\ req[u].stale = {}
    /\ Select(u)
    /\ OnlyRequest

UpsertPlacement(u) ==
    /\ At(u, "upsert")
    /\ placement' = req[u].placed
    /\ Step(u, "delete")
    /\ UNCHANGED <<registry, call, edges, spent, token, sfu, relay, here>>

(* ReplaceRelayEdges deletes the rows it sees; those another transaction   *)
(* has deleted and not committed make it wait.                             *)
Holds(u) == IF At(u, "insert") THEN req[u].snap ELSE {}
LockedBut(u) == UNION {Holds(v) : v \in Users \ {u}}

DeleteEdges(u) ==
    /\ At(u, "delete")
    /\ Goes(u, [req[u] EXCEPT !.snap = edges,
                              !.at = IF edges \cap LockedBut(u) = {}
                                     THEN "insert" ELSE "wait"])
    /\ OnlyRequest

WaitLock(u) ==
    /\ At(u, "wait")
    /\ req[u].snap \cap LockedBut(u) = {}
    /\ Step(u, "insert")
    /\ OnlyRequest

(* The inserts and the commit.  Rows inserted since by another transaction *)
(* stay; one with the same target is a unique violation.                   *)
InsertEdges(u) ==
    LET r == req[u]
        new == RelayEdges(r.view, r.placed)
    IN  /\ At(u, "insert")
        /\ IF new \cap (edges \ r.snap) # {}
           THEN Goes(u, EnsureFails(r)) /\ UNCHANGED edges
           ELSE /\ edges' = (edges \ r.snap) \cup new
                /\ req' = [v \in Users |->
                              IF v = u THEN Proceed(r)
                              ELSE [req[v] EXCEPT !.snap = @ \ r.snap]]
        /\ UNCHANGED <<registry, call, placement, spent, token, sfu, relay, here>>

(* A call to Redis or Postgres fails: a heartbeat listing, a write, or a   *)
(* listing of edges after EnsurePlacement.                                 *)
StoreFails(u) ==
    /\ "store" \in here.events
    /\ req[u].stale = {}
    /\ \/ /\ At(u, "list") /\ Goes(u, NotEnsured(req[u]))
       \/ /\ req[u].at \in {"upsert", "delete", "wait", "insert"}
          /\ Goes(u, EnsureFails(req[u]))
       \/ /\ At(u, "edges")
          /\ Goes(u, Idle)
       \/ /\ At(u, "serve") /\ req[u].placed # req[u].node
          /\ Goes(u, Idle)
    /\ OnlyRequest

-----------------------------------------------------------------------------
(* A request reaches a node.                                               *)
Begin(u, n, steps) ==
    /\ req[u] = Idle /\ spent[u] < here.requests[u]
    /\ spent' = [spent EXCEPT ![u] = @ + 1]
    /\ Goes(u, Proceed([Idle EXCEPT !.node = n, !.then = steps]))

(* StartCall: the transaction commits, then the call is placed.            *)
StartCall(u, n) ==
    /\ call = "none" /\ u \in Presenters
    /\ call' = "active"
    /\ Begin(u, n, <<"list", "room">>)
    /\ UNCHANGED <<registry, placement, edges, token, sfu, relay, here>>

(* IssueMediaJoinToken and ResolveParticipantPlacement.                    *)
(* Mutation: every participant is sent to a relay node.                    *)
IssueEdgeToken(u, n) ==
    /\ call # "none"
    /\ Begin(u, n, IF SingleNode THEN <<"list", "list", "token">>
                                 ELSE <<"list", "list", "edges">>)
    /\ UNCHANGED <<registry, rows, token, sfu, relay, here>>

IssueMediaJoinToken(u, n) ==
    /\ call # "none"
    /\ Begin(u, n, IF u \in Presenters \/ SingleNode
                   THEN <<"list", "list", "token">> ELSE <<"list", "list", "edges">>)
    /\ UNCHANGED <<registry, rows, token, sfu, relay, here>>

(* HandleMediaOffer: CanServeNode before and within ensureMediaRoom.       *)
HandleMediaOffer(u, n) ==
    /\ "offer" \in here.events
    /\ call = "active" /\ token[u] = n
    /\ Begin(u, n, <<"list", "serve", "list", "serve", "peer">>)
    /\ UNCHANGED <<registry, rows, token, sfu, relay, here>>

(* EndCall, by a presenter: the transaction, then the close of the room.   *)
EndCall(u, n) ==
    /\ "end" \in here.events
    /\ call = "active" /\ u \in Presenters
    /\ call' = "ended"
    /\ Begin(u, n, <<"close">>)
    /\ UNCHANGED <<registry, placement, edges, token, sfu, relay, here>>

-----------------------------------------------------------------------------
(* A node may create the room while it is under its limit.                 *)
CanCreate(n) == n \in room \/ Rooms(n) < MaxRooms

(* StartCall creates the room where it is placed, or here without one.     *)
CreateRoom(u) ==
    LET r == req[u]
    IN  /\ At(u, "room")
        /\ room' = IF r.placed \in {r.node, None} /\ CanCreate(r.node)
                   THEN room \cup {r.node} ELSE room
        /\ Goes(u, Idle)
        /\ UNCHANGED <<registry, rows, spent, token, peers, tracks, attached,
                       relay, here>>

(* The answers of IssueMediaJoinToken: the placement, or for a viewer one  *)
(* of the relay nodes: this one, or one of its region, or any.             *)
Pool(n) ==
    IF n \in edges THEN {n} ELSE InRegion(edges, here.region[n])

AnswerToken(u) ==
    /\ At(u, "token") \/ At(u, "edges")
    /\ \E n \in IF At(u, "token") \/ edges = {} THEN {req[u].placed}
                ELSE Pool(req[u].node) :
          token' = [token EXCEPT ![u] = n]
    /\ Goes(u, Idle)
    /\ UNCHANGED <<registry, rows, spent, sfu, relay, here>>

(* CanServeNode; a node that may not ensures the placement once more, to   *)
(* name it in its answer.                                                  *)
CanServeNode(u) ==
    LET r == req[u]
    IN  /\ At(u, "serve")
        /\ Goes(u, IF r.node = r.placed \/ r.node \in edges THEN Proceed(r)
                   ELSE [Idle EXCEPT !.node = r.node, !.at = "list"])
        /\ OnlyRequest

(* The peer joins the room of its node, in place of an earlier one, unless *)
(* it is refused; a presenter who leaves takes the track along.            *)
Without(S, u) == {x \in S : x[1] # u}

AddPeer(u) ==
    LET n == req[u].node
    IN  /\ At(u, "peer")
        /\ Goes(u, Idle)
        /\ IF CanCreate(n)
           THEN /\ room' = room \cup {n}
                /\ \E added \in SUBSET {u} :
                      peers' = [peers EXCEPT ![n] = (@ \ {u}) \cup added]
                /\ own' = [own EXCEPT ![n] = @ \ {u}]
                /\ sinks' = [sinks EXCEPT ![n] =
                                IF u \in own[n] THEN Without(@, u) ELSE @]
           ELSE UNCHANGED <<room, peers, own, sinks>>
        /\ UNCHANGED <<registry, rows, spent, token, relayed, attached, relay, here>>

(* SFU.CloseRoom: everything in the room goes, relayObservers stays.       *)
Emptied(f, S) == [n \in Nodes |-> IF n \in S THEN {} ELSE f[n]]
CloseRoomOf(S) ==
    /\ room' = room \ S
    /\ peers' = Emptied(peers, S)
    /\ own' = Emptied(own, S)
    /\ relayed' = Emptied(relayed, S)
    /\ sinks' = Emptied(sinks, S)
    /\ attached' = Emptied(attached, S)

CloseRoom(u) ==
    /\ At(u, "close")
    /\ CloseRoomOf({req[u].node})
    /\ Goes(u, Idle)
    /\ UNCHANGED <<registry, rows, spent, token, relay, here>>

-----------------------------------------------------------------------------
(* A presenter's track appears; every observer of the room gets a sink.    *)
Publish(u, n) ==
    /\ "media" \in here.events
    /\ u \in Presenters /\ u \in peers[n] \ own[n]
    /\ own' = [own EXCEPT ![n] = @ \cup {u}]
    /\ relayed' = [relayed EXCEPT ![n] = @ \ {u}]
    /\ sinks' = [sinks EXCEPT ![n] = Without(@, u) \cup {u} \X attached[n]]
    /\ UNCHANGED <<registry, rows, clients, room, peers, attached, relay, here>>

(* The connection of a participant fails: RemovePeer.                      *)
Disconnect(u, n) ==
    /\ "drop" \in here.events
    /\ u \in peers[n]
    /\ peers' = [peers EXCEPT ![n] = @ \ {u}]
    /\ own' = [own EXCEPT ![n] = @ \ {u}]
    /\ sinks' = [sinks EXCEPT ![n] = IF u \in own[n] THEN Without(@, u) ELSE @]
    /\ UNCHANGED <<registry, rows, clients, room, relayed, attached, relay, here>>

-----------------------------------------------------------------------------
(* reconcileRelayObservers: the placement, then the edges are read, then   *)
(* the observers of the room are brought in line under Service.mu.  With   *)
(* no room and no observers it would change nothing.                       *)
(* Mutation: the edges are wanted by every node that has the room.         *)
ReadPlacementAnywhere(n) ==
    /\ sync[n].at = "idle"
    /\ n \in room \/ keys[n] # {}
    /\ sync' = [sync EXCEPT ![n] =
                   [at |-> IF n \in room THEN "edges" ELSE "apply", want |-> {}]]
    /\ UNCHANGED <<registry, rows, clients, sfu, keys, wire, here>>

ReadPlacement(n) ==
    /\ sync[n].at = "idle"
    /\ n \in room \/ keys[n] # {}
    /\ sync' = [sync EXCEPT ![n] =
                   [at |-> IF n \in room /\ placement = n THEN "edges" ELSE "apply",
                    want |-> {}]]
    /\ UNCHANGED <<registry, rows, clients, sfu, keys, wire, here>>

ReadEdges(n) ==
    /\ sync[n].at = "edges"
    /\ sync' = [sync EXCEPT ![n] = [at |-> "apply", want |-> edges]]
    /\ UNCHANGED <<registry, rows, clients, sfu, keys, wire, here>>

(* One of the two reads fails: the room has no observers to keep.          *)
RelayReadFails(n) ==
    /\ "store" \in here.events
    /\ keys[n] # {}
    /\ sync[n].at = "edges" \/ (sync[n].at = "idle" /\ n \in room)
    /\ sync' = [sync EXCEPT ![n] = [at |-> "apply", want |-> {}]]
    /\ UNCHANGED <<registry, rows, clients, sfu, keys, wire, here>>

(* Mutation: an observer gets only the tracks that appear after it.        *)
ReconcileLateObservers(n) ==
    LET want == sync[n].want
        new == IF n \in room THEN want \ keys[n] ELSE {}
        gone == keys[n] \ want
    IN  /\ sync[n].at = "apply"
        /\ keys' = [keys EXCEPT ![n] = (@ \ gone) \cup new]
        /\ attached' = [attached EXCEPT ![n] = (@ \ gone) \cup new]
        /\ sync' = [sync EXCEPT ![n] = Synced]
        /\ UNCHANGED <<registry, rows, clients, room, peers, tracks, wire, here>>

(* RemoveObserver leaves the sinks of the tracks that are there.           *)
ReconcileObservers(n) ==
    LET want == sync[n].want
        new == IF n \in room THEN want \ keys[n] ELSE {}
        gone == keys[n] \ want
    IN  /\ sync[n].at = "apply"
        /\ keys' = [keys EXCEPT ![n] = (@ \ gone) \cup new]
        /\ attached' = [attached EXCEPT ![n] = (@ \ gone) \cup new]
        /\ sinks' = [sinks EXCEPT ![n] = @ \cup (own[n] \cup relayed[n]) \X new]
        /\ sync' = [sync EXCEPT ![n] = Synced]
        /\ UNCHANGED <<registry, rows, clients, room, peers, own, relayed, wire, here>>

(* A packet of a presenter goes to the sinks of the track.                 *)
SendPacket(u, n) ==
    /\ u \in own[n]
    /\ wire' = wire \cup {<<u, n, x[2]>> : x \in {y \in sinks[n] : y[1] = u}}
    /\ wire' # wire
    /\ UNCHANGED <<registry, rows, clients, sfu, keys, sync, here>>

(* handleRelayPacket and ensureRelayRoom: unless the packet is the node's  *)
(* own or the call has no placement, the room is there or is created; the  *)
(* track is the room's own, or is injected, with a sink for each observer, *)
(* and the packet goes to the sinks of the track.                          *)
HandleRelayPacket(u, n, m) ==
    LET takes == n # m /\ placement # None /\ CanCreate(m)
        fresh == u \notin own[m] \cup relayed[m]
    IN  /\ <<u, n, m>> \in wire
        /\ IF ~takes THEN wire' = wire \ {<<u, n, m>>} /\ UNCHANGED <<room, relayed, sinks>>
           ELSE /\ room' = room \cup {m}
                /\ relayed' = [relayed EXCEPT ![m] = IF fresh THEN @ \cup {u} ELSE @]
                /\ sinks' = [sinks EXCEPT ![m] =
                                IF fresh THEN @ \cup {u} \X attached[m] ELSE @]
                /\ wire' = (wire \ {<<u, n, m>>})
                              \cup {<<u, m, x[2]>> : x \in {y \in sinks'[m] : y[1] = u}}
        /\ UNCHANGED <<registry, rows, clients, peers, own, attached, keys, sync, here>>

-----------------------------------------------------------------------------
(* A node restarts: its rooms, those of other calls too, its requests and  *)
(* its observers are lost.                                                 *)
Crash(n) ==
    /\ "crash" \in here.events
    /\ n \in room
    /\ CloseRoomOf({n})
    /\ keys' = [keys EXCEPT ![n] = {}]
    /\ sync' = [sync EXCEPT ![n] = Synced]
    /\ req' = [u \in Users |-> IF req[u].node = n THEN Idle ELSE req[u]]
    /\ busy' = [busy EXCEPT ![n] = 0]
    /\ UNCHANGED <<members, heard, rows, spent, token, wire, here>>

-----------------------------------------------------------------------------
Ensure(u) ==
    \/ ListNodes(u) \/ PruneMembers(u)
    \/ GetPlacement(u) \/ GetPlacementFails(u) \/ UpsertPlacement(u)
    \/ DeleteEdges(u) \/ WaitLock(u) \/ InsertEdges(u)
    \/ StoreFails(u)

Answer(u) ==
    \/ CreateRoom(u) \/ AnswerToken(u) \/ CanServeNode(u)
    \/ AddPeer(u) \/ CloseRoom(u)

Reconcile(n) == ReadPlacement(n) \/ ReadEdges(n) \/ ReconcileObservers(n)

Next ==
    \/ \E n \in Here : Heartbeat(n) \/ KeyExpires(n) \/ Crash(n)
    \/ \E n \in Here : OpenOther(n) \/ CloseOther(n)
    \/ \E u \in Users, n \in Here :
          \/ StartCall(u, n) \/ IssueMediaJoinToken(u, n)
          \/ HandleMediaOffer(u, n) \/ EndCall(u, n)
          \/ Publish(u, n) \/ Disconnect(u, n) \/ SendPacket(u, n)
    \/ \E u \in Users : Ensure(u) \/ Answer(u)
    \/ \E n \in Here : Reconcile(n) \/ RelayReadFails(n)
    \/ \E u \in Presenters, n, m \in Here : HandleRelayPacket(u, n, m)

Spec == Init /\ [][Next]_vars

(* The ticker of every node's RunRelayFabric, a presenter who keeps        *)
(* sending, and subscriptions that deliver.  No request need ever end, no  *)
(* heartbeat need be in time.                                              *)
LiveSpec ==
    /\ Spec
    /\ \A n \in Nodes : WF_vars(n \in Here /\ Reconcile(n))
    /\ WF_vars(\E u \in Users, n \in Here : SendPacket(u, n))
    /\ \A m \in Nodes :
          WF_vars(m \in Here /\ \E u \in Presenters, n \in Here : HandleRelayPacket(u, n, m))

-----------------------------------------------------------------------------
(* The placement of a call is agreed on when no request is about to write  *)
(* another one.  It is then kept, and stays agreed on, whatever the load   *)
(* of the nodes becomes, until a read of its row fails: EnsurePlacement    *)
(* writes the row back on every request, of any region, and selects a node *)
(* from what ListNodes says at that time only when it finds no row.        *)
Agreed == placement # None
            /\ \A u \in Users : At(u, "upsert") => req[u].placed = placement
StaysPlaced ==
    [][Agreed => (Agreed' /\ placement' = placement)
                    \/ \E u \in Users : GetPlacementFails(u)]_vars

(* "The serving node becomes the sticky media edge for that room", as the  *)
(* docs say.  Two first requests for a call, or one whose read fails, may  *)
(* select different nodes as the load changes, and the later one wins: no  *)
(* run checks it, the theorems on who relays and who meets assume it.      *)
PlacementKept == [][placement # None => placement' = placement]_placement

(* Only the node of the call relays, and to other nodes: a relayed track   *)
(* that went on to a third node, or back, would go round.                  *)
OnlyPlacementRelays ==
    \A n \in Nodes : \A x \in sinks[n] : n = placement /\ x[2] # n

(* The presenters of a call meet in one room: relay rooms do not relay, so *)
(* a presenter anywhere else would not be seen.                            *)
PresentersMeet ==
    \A n \in Nodes : peers[n] \cap Presenters # {} => n = placement

(* A node that stays a relay node of the call, and able to take its room,  *)
(* gets every track of it.  A node that other calls have filled since it   *)
(* was chosen refuses the room, and is fed when one of them has ended.     *)
Owed(u, m) == m \in edges /\ CanCreate(m) /\ placement # None /\ placement # m
                /\ u \in own[placement]
Fed(u, m) == placement # None /\ <<u, m>> \in sinks[placement] /\ u \in relayed[m]
EdgeIsFed ==
    \A u \in Presenters, m \in Nodes : Owed(u, m) ~> (Fed(u, m) \/ ~Owed(u, m))

(* EndCall closes "the main SFU room, disconnecting all media peers"       *)
(* (service/call/service.go:1007).                                         *)
EndDisconnectsPeers ==
    call = "ended" /\ (\A u \in Users : req[u] = Idle)
        => \A n \in Nodes : peers[n] = {}
=============================================================================
