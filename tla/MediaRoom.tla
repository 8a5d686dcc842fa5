----------------------------- MODULE MediaRoom -----------------------------
(***************************************************************************)
(* One SFU room: the media offers of its participants, the goroutines pion *)
(* starts for tracks and state changes, relayed media and the close.       *)
(*                                                                         *)
(* Every critical section of Room.mu is one step; what the code does after *)
(* it unlocks (closing a connection, adding a layer) is a step of its own. *)
(* A peer connection is named by its offer, a local track by the           *)
(* connection or the relay that feeds it, a SimulcastTrack by the track    *)
(* whose handler created it: the same media may be published again on      *)
(* another connection of the user.  Packets are not modelled.              *)
(***************************************************************************)
EXTENDS Naturals, FiniteSets, Sequences

CONSTANTS
    Users,          \* local participants
    Conns,          \* peer connections, one for each media offer
    Owner,          \* the participant of a connection
    Viewing,        \* connections whose media token has the role viewer
    Plain,          \* track ids of tracks without a RID
    Streams,        \* stream ids of simulcast tracks
    Src,            \* the participant who publishes a track or stream
    Layers,         \* quality layers in use
    Remote,         \* <<connection or Relay, media id, layer>>: remote tracks
    Observers,      \* relay observers, one for each target node
    Appears,        \* bound: sets of offers, remote tracks, observers, users
                    \* who move, failures and the close, if it comes up
                    \* in one behaviour
    Relay,          \* the feed of another media node
    None,
    MaxPresenters, MaxViewers, MaxTracks   \* RoomOptions

Media == Plain \cup Streams
Feeds == Conns \cup {Relay}
Objects == {h \in Remote : h[2] \in Streams}
Plan == {h \in Remote : h[2] \in Plain}
Local == {h \in Remote : h[1] # Relay}
RoomClose == <<None, "closed">>      \* in Appears: the room may be closed
Subs == Feeds \cup [obj : Objects, layer : Layers, feed : Feeds]

ASSUME RoomAssumption ==
    /\ Owner \in [Conns -> Users]
    /\ Viewing \subseteq Conns
    /\ Layers \subseteq {"f", "h", "q"}
    /\ Plain \cap Streams = {}
    /\ \A h \in Remote :
          /\ h[1] \in Feeds /\ h[2] \in Media
          /\ h[3] \in (IF h[2] \in Streams THEN Layers ELSE {None})
          /\ h[1] = Relay <=> Src[h[2]] \notin Users
          /\ h[1] \in Conns => Src[h[2]] = Owner[h[1]] /\ h[1] \notin Viewing
    /\ Appears \subseteq SUBSET (Conns \cup Remote \cup Observers \cup Users
                                 \cup Conns \X {"failed"} \cup {RoomClose})
    /\ None \notin Feeds /\ None \notin Layers /\ None \notin Objects
    /\ None \notin [obj : Objects, layer : Layers, feed : Feeds]
    /\ Relay \notin Conns
    /\ \A c \in Conns : c \notin Objects /\ c \notin Plain \X Feeds
    /\ MaxPresenters \in Nat \ {0} /\ MaxViewers \in Nat \ {0}
    /\ MaxTracks \in Nat \ {0}

VARIABLES
    closed,       \* Room.closed
    presenters,   \* Room.presenters: user |-> connection
    viewers,      \* Room.viewers
    tracks,       \* Room.tracks: id |-> feed of the router, or None
    streams,      \* Room.simulcastTracks: stream id |-> object, or None
    sim,          \* SimulcastTrack: layers, subscribers, closed
    observers,    \* Room.observers
    sinks,        \* <<observer, local track>> of an attached, open sink
    subs,         \* Peer.subscriptions: what the sender for a media id sends
    open,         \* peer connections created and not closed
    closing,      \* connections a RemovePeer or Close is about to close
    dying,        \* what Room.Close has taken out: tracks, objects, peers
    offer,        \* where HandleMediaOffer is; "answered" until it is closed
    waits,        \* the connection its RemovePeer closes first, or None
    notice,       \* <<connection, state>>: state callbacks still to run
    handler,      \* OnTrack handlers: where they are, on which object
    here          \* what comes up in this behaviour

maps == <<presenters, viewers, tracks, streams>>
room == <<closed, maps, sim, observers, sinks, subs>>
peers == <<open, closing, offer, waits, notice>>
rest == <<dying, here>>
vars == <<room, peers, rest, handler>>

-----------------------------------------------------------------------------
NoHandler == [at |-> "idle", obj |-> None, first |-> FALSE]
Done == [NoHandler EXCEPT !.at = "done"]
NewTrack == [layers |-> [q \in Layers |-> None],
             subscribers |-> [u \in Users |-> None], closed |-> FALSE]

TypeOK ==
    /\ closed \in BOOLEAN
    /\ presenters \in [Users -> Conns \cup {None}]
    /\ viewers \in [Users -> Conns \cup {None}]
    /\ tracks \in [Plain -> Feeds \cup {None}]
    /\ streams \in [Streams -> Objects \cup {None}]
    /\ sim \in [Objects -> [layers : [Layers -> Feeds \cup {None}],
                            subscribers : [Users -> Layers \cup {None}],
                            closed : BOOLEAN]]
    /\ observers \subseteq Observers
    /\ \A x \in sinks : x[1] \in Observers
    /\ subs \in [Conns -> [Media -> Subs \cup {None}]]
    /\ open \subseteq Conns /\ closing \subseteq open
    /\ \A x \in dying : x \in open \/ x \in Plain \X Feeds \/ x \in Objects
    /\ offer \in [Conns -> {"new", "removed", "added", "answered", "done"}]
    /\ waits \in [Conns -> Conns \cup {None}]
    /\ notice \subseteq Conns \X {"failed", "closed"}
    /\ handler \in [Remote -> [at : {"idle", "fired", "checked", "found",
                                     "added", "attached", "done"},
                               obj : Objects \cup {None}, first : BOOLEAN]]
    /\ here \in Appears

Init ==
    /\ closed = FALSE
    /\ presenters = [u \in Users |-> None]
    /\ viewers = [u \in Users |-> None]
    /\ tracks = [m \in Plain |-> None]
    /\ streams = [s \in Streams |-> None]
    /\ sim = [o \in Objects |-> NewTrack]
    /\ observers = {} /\ sinks = {}
    /\ subs = [c \in Conns |-> [m \in Media |-> None]]
    /\ open = {} /\ closing = {} /\ dying = {}
    /\ offer = [c \in Conns |-> "new"]
    /\ waits = [c \in Conns |-> None]
    /\ notice = {}
    /\ handler = [h \in Remote |-> NoHandler]
    /\ here \in Appears

Presenting == {u \in Users : presenters[u] # None}
Watching == {u \in Users : viewers[u] # None}

(* findPeerLocked.                                                         *)
Peer(u) == IF presenters[u] # None THEN presenters[u] ELSE viewers[u]
InRoom == {presenters[u] : u \in Presenting} \cup {viewers[u] : u \in Watching}

(* What a participant publishes in the room: publisherTrackCountLocked.    *)
Published(u) == {m \in Plain : tracks[m] # None /\ Src[m] = u}
                    \cup {s \in Streams : streams[s] # None /\ Src[s] = u}

CanPublish(u, m) == m \in Published(u) \/ Cardinality(Published(u)) < MaxTracks

(* BestAvailableLayer: layerPriority(preferred), then QualityHigh.         *)
LayerPriority == [f |-> <<"f", "h", "q">>, h |-> <<"h", "q", "f">>,
                  q |-> <<"q", "h", "f">>]
Has(o, q) == q \in Layers /\ sim[o].layers[q] # None
BestLayer(o, q) ==
    LET have == {i \in 1 .. 3 : Has(o, LayerPriority[q][i])}
    IN  IF have = {} THEN "f"
        ELSE LayerPriority[q][CHOOSE i \in have : \A j \in have : i <= j]

Sender(o, q) == [obj |-> o, layer |-> q, feed |-> sim[o].layers[q]]

(* The local tracks an object or a router feeds, as sinks name them.       *)
LayerTracks(o) == {<<o, q, sim[o].layers[q]>> : q \in {l \in Layers : Has(o, l)}}
TrackOf(m) == <<m, tracks[m]>>
SinksOf(T) == {x \in sinks : x[2] \in T}
AttachAll(T) == sinks \cup (observers \X T)

-----------------------------------------------------------------------------
(* Critical sections shared by several callers.                            *)

(* RemovePeer of a presenter: its routers and simulcast tracks are closed  *)
(* and every remaining peer is unsubscribed from them.                     *)
RemovePresenter(u) ==
    LET gone == Published(u)
        objs == {streams[s] : s \in gone \cap Streams}
    IN  /\ presenters' = [presenters EXCEPT ![u] = None]
        /\ tracks' = [m \in Plain |-> IF m \in gone THEN None ELSE tracks[m]]
        /\ streams' = [s \in Streams |-> IF s \in gone THEN None ELSE streams[s]]
        /\ sim' = [o \in Objects |-> IF o \in objs THEN [sim[o] EXCEPT !.closed = TRUE]
                                     ELSE sim[o]]
        /\ sinks' = sinks \ SinksOf({TrackOf(m) : m \in gone \cap Plain}
                                    \cup UNION {LayerTracks(o) : o \in objs})
        /\ subs' = [c \in Conns |-> [m \in Media |->
                       IF m \in gone /\ c \in InRoom \ {presenters[u]} THEN None
                       ELSE subs[c][m]]]
        /\ UNCHANGED viewers

RemoveViewer(u) ==
    /\ viewers' = [viewers EXCEPT ![u] = None]
    /\ sim' = [o \in Objects |-> IF \E s \in Streams : streams[s] = o
                                 THEN [sim[o] EXCEPT !.subscribers[u] = None]
                                 ELSE sim[o]]
    /\ UNCHANGED <<presenters, tracks, streams, sinks, subs>>

(* RemovePeer up to the unlock; the connection it took out is closed next. *)
RemovePeer(u) ==
    \/ /\ closed \/ Peer(u) = None
       /\ UNCHANGED <<room, closing>>
    \/ /\ ~closed /\ Peer(u) # None
       /\ closing' = closing \cup {Peer(u)}
       /\ IF u \in Presenting THEN RemovePresenter(u) ELSE RemoveViewer(u)
       /\ UNCHANGED <<closed, observers>>

(* subscribePeerToExistingTracks: senders of a new peer c, skipping what a *)
(* presenter publishes itself and simulcast tracks that have no layer yet. *)
Skips(c, m) == c \notin Viewing /\ Src[m] = Owner[c]
Preferred(c) == IF c \in Viewing THEN "h" ELSE "f"
JoinLayer(c, o) == BestLayer(o, Preferred(c))
JoinSubs(c) ==
    [m \in Media |->
        IF Skips(c, m) THEN None
        ELSE IF m \in Plain THEN tracks[m]
        ELSE IF streams[m] # None /\ Has(streams[m], JoinLayer(c, streams[m]))
             THEN Sender(streams[m], JoinLayer(c, streams[m])) ELSE None]
JoinRecords(c) ==
    [o \in Objects |->
        IF \E s \in Streams : streams[s] = o /\ JoinSubs(c)[s] # None
        THEN [sim[o] EXCEPT !.subscribers[Owner[c]] = JoinLayer(c, o)] ELSE sim[o]]

(* Peers that are sent a new track of src: everyone but that presenter.    *)
Audience(src) == {presenters[u] : u \in Presenting \ {src}}
                     \cup {viewers[u] : u \in Watching}

(* A new router: observers are attached and the audience subscribes; a     *)
(* peer that already has a sender for the id keeps it.                     *)
AddRouter(m, feed) ==
    /\ tracks' = [tracks EXCEPT ![m] = feed]
    /\ sinks' = AttachAll({<<m, feed>>})
    /\ subs' = [c \in Conns |->
                   IF c \in Audience(Src[m]) /\ subs[c][m] = None
                   THEN [subs[c] EXCEPT ![m] = feed] ELSE subs[c]]
    /\ UNCHANGED <<closed, presenters, viewers, streams, sim, observers>>

(* subscribeToSimulcastLocked for the whole audience.                      *)
SubscribeAll(o, q) ==
    LET s == o[2] IN
    /\ subs' = [c \in Conns |-> IF c \in Audience(Src[s])
                                THEN [subs[c] EXCEPT ![s] = Sender(o, q)]
                                ELSE subs[c]]
    /\ sim' = [sim EXCEPT ![o].subscribers =
                   [u \in Users |-> IF \E c \in Audience(Src[s]) : Owner[c] = u
                                    THEN q ELSE @[u]]]

-----------------------------------------------------------------------------
(* HandleMediaOffer.                                                       *)

(* The connection is created, the room found, and the old peer removed.    *)
OfferRemovesOld(c) ==
    /\ offer[c] = "new"
    /\ open' = open \cup {c}
    /\ offer' = [offer EXCEPT ![c] = "removed"]
    /\ waits' = [waits EXCEPT ![c] = IF closed THEN None ELSE Peer(Owner[c])]
    /\ RemovePeer(Owner[c])
    /\ UNCHANGED <<notice, rest, handler>>

Ready(c) == offer[c] = "removed" /\ waits[c] \notin closing

Refused(c) ==
    \/ closed
    \/ Peer(Owner[c]) # None
    \/ IF c \in Viewing THEN Cardinality(Watching) >= MaxViewers
       ELSE Cardinality(Presenting) >= MaxPresenters

(* AddPresenter, AddViewer.                                                *)
OfferAdds(c) ==
    /\ Ready(c) /\ ~Refused(c)
    /\ offer' = [offer EXCEPT ![c] = "added"]
    /\ waits' = [waits EXCEPT ![c] = None]
    /\ IF c \in Viewing
       THEN /\ viewers' = [viewers EXCEPT ![Owner[c]] = c]
            /\ UNCHANGED presenters
       ELSE /\ presenters' = [presenters EXCEPT ![Owner[c]] = c]
            /\ UNCHANGED viewers
    /\ subs' = [subs EXCEPT ![c] = JoinSubs(c)]
    /\ sim' = JoinRecords(c)
    /\ UNCHANGED <<closed, tracks, streams, observers, sinks, open, closing,
                   notice, rest, handler>>

\* Mutation: the connection of a refused offer is left open.
OfferRefusedOpen(c) ==
    /\ Ready(c) /\ Refused(c)
    /\ offer' = [offer EXCEPT ![c] = "done"]
    /\ waits' = [waits EXCEPT ![c] = None]
    /\ UNCHANGED <<room, open, closing, notice, rest, handler>>

(* The offer closes its own connection, which has no callbacks yet.        *)
OfferRefused(c) ==
    /\ Ready(c) /\ Refused(c)
    /\ open' = open \ {c}
    /\ offer' = [offer EXCEPT ![c] = "done"]
    /\ waits' = [waits EXCEPT ![c] = None]
    /\ UNCHANGED <<room, closing, notice, rest, handler>>

(* SetRemoteDescription, CreateAnswer and SetLocalDescription succeed ...  *)
OfferAnswered(c) ==
    /\ offer[c] = "added" /\ c \in open
    /\ offer' = [offer EXCEPT ![c] = "answered"]
    /\ UNCHANGED <<room, open, closing, waits, notice, rest, handler>>

(* ... or one fails, and the peer of that user is removed.                 *)
OfferFails(c) ==
    /\ offer[c] = "added"
    /\ offer' = [offer EXCEPT ![c] = "done"]
    /\ RemovePeer(Owner[c])
    /\ UNCHANGED <<open, waits, notice, rest, handler>>

(* Peer.Close; pion reports the state closed on a goroutine of its own.    *)
CloseConn(c) ==
    /\ c \in closing
    /\ closing' = closing \ {c}
    /\ open' = open \ {c}
    /\ offer' = [offer EXCEPT ![c] = IF @ = "answered" THEN "done" ELSE @]
    /\ subs' = [subs EXCEPT ![c] = [m \in Media |-> None]]
    /\ notice' = notice \cup {<<c, "closed">>}
    /\ UNCHANGED <<closed, maps, sim, observers, sinks, waits, rest, handler>>

(* The network path of an established connection breaks.                   *)
NetworkFails(c) ==
    /\ c \in open /\ offer[c] = "answered"
    /\ <<c, "failed">> \in here \ notice
    /\ notice' = notice \cup {<<c, "failed">>}
    /\ UNCHANGED <<room, open, closing, offer, waits, rest, handler>>

(* OnICEConnectionStateChange, OnConnectionStateChange: the peer to remove *)
(* is looked up by the user, not by the connection.                        *)
RunNotice(x) ==
    /\ x \in notice
    /\ notice' = notice \ {x}
    /\ RemovePeer(Owner[x[1]])
    /\ UNCHANGED <<open, offer, waits, rest, handler>>

(* JoinBreakoutRoom takes the user out of the main room.                   *)
MoveToBreakout(u) ==
    /\ RemovePeer(u)
    /\ UNCHANGED <<open, offer, waits, notice, rest, handler>>

-----------------------------------------------------------------------------
(* handleNewTrack and handleSimulcastTrack.                                *)

Goto(h, l) == handler' = [handler EXCEPT ![h].at = l]
Finish(h) == handler' = [handler EXCEPT ![h] = Done]

(* OnTrack of a presenter's established connection.                        *)
TrackFires(h) ==
    /\ h \in Local /\ handler[h].at = "idle"
    /\ h[1] \in open /\ offer[h[1]] = "answered"
    /\ Goto(h, "fired")
    /\ UNCHANGED <<room, peers, rest>>

(* canPublishTrack, under a lock of its own.                               *)
CheckPlain(h) ==
    /\ h \in Plan \cap Local /\ handler[h].at = "fired"
    /\ IF CanPublish(Src[h[2]], h[2]) THEN Goto(h, "checked") ELSE Finish(h)
    /\ UNCHANGED <<room, peers, rest>>

PublishPlain(h) ==
    /\ handler[h].at = "checked"
    /\ Finish(h)
    /\ IF closed THEN UNCHANGED room ELSE AddRouter(h[2], h[1])
    /\ UNCHANGED <<peers, rest>>

(* The stream's object is found, or created and put in the room.           *)
FindStream(h) ==
    /\ h \in Objects /\ handler[h].at = "fired"
    /\ LET s == h[2] IN
       \/ /\ streams[s] # None /\ ~closed
          /\ handler' = [handler EXCEPT ![h] =
                            [at |-> "found", obj |-> streams[s], first |-> FALSE]]
          /\ UNCHANGED room
       \/ /\ streams[s] = None /\ ~closed /\ CanPublish(Src[s], s)
          /\ streams' = [streams EXCEPT ![s] = h]
          /\ handler' = [handler EXCEPT ![h] =
                            [at |-> "found", obj |-> h, first |-> TRUE]]
          /\ UNCHANGED <<closed, presenters, viewers, tracks, sim, observers,
                         sinks, subs>>
       \/ /\ closed \/ (streams[s] = None /\ ~CanPublish(Src[s], s))
          /\ Finish(h)
          /\ UNCHANGED room
    /\ UNCHANGED <<peers, rest>>

(* AddLayer, under the lock of the SimulcastTrack only.                    *)
AddLayer(h) ==
    LET o == handler[h].obj IN
    /\ handler[h].at = "found"
    /\ \/ /\ sim[o].closed
          /\ Finish(h)
          /\ UNCHANGED sim
       \/ /\ ~sim[o].closed
          /\ sim' = [sim EXCEPT ![o].layers[h[3]] = h[1]]
          /\ Goto(h, "added")
    /\ UNCHANGED <<closed, maps, observers, sinks, subs, peers, rest>>

\* Mutation: the audience subscribes to nothing but later layers.
AttachLayerOnly(h) ==
    LET o == handler[h].obj IN
    /\ h \in Local /\ handler[h].at = "added"
    /\ sinks' = AttachAll({<<o, h[3], sim[o].layers[h[3]]>>})
    /\ Finish(h)
    /\ UNCHANGED <<closed, maps, sim, observers, subs, peers, rest>>

(* Observers, then the audience if the handler has created the object.     *)
AttachLayer(h) ==
    LET o == handler[h].obj IN
    /\ h \in Local /\ handler[h].at = "added"
    /\ sinks' = AttachAll({<<o, h[3], sim[o].layers[h[3]]>>})
    /\ IF handler[h].first THEN Goto(h, "attached") ELSE Finish(h)
    /\ UNCHANGED <<closed, maps, sim, observers, subs, peers, rest>>

(* The handler that created the object subscribes the audience.            *)
SubscribeFirst(h) ==
    /\ handler[h].at = "attached"
    /\ SubscribeAll(handler[h].obj, h[3])
    /\ Finish(h)
    /\ UNCHANGED <<closed, maps, observers, sinks, peers, rest>>

-----------------------------------------------------------------------------
(* InjectRelayPacket: the packets of a node's subscription come one after  *)
(* the other, and only the first of a track or layer changes the room.     *)

RelayIdle == \A h \in Remote \ Local : handler[h].at \in {"idle", "done"}

RelayPlain(h) ==
    /\ h \in Plan \ Local /\ RelayIdle /\ handler[h].at = "idle"
    /\ AddRouter(h[2], Relay)
    /\ Finish(h)
    /\ UNCHANGED <<peers, rest>>

RelayFindStream(h) ==
    /\ h \in Objects \ Local /\ RelayIdle /\ handler[h].at = "idle"
    /\ LET s == h[2]
           o == IF streams[s] = None THEN h ELSE streams[s]
       IN  /\ ~Has(o, h[3])
           /\ streams' = [streams EXCEPT ![s] = o]
           /\ handler' = [handler EXCEPT ![h] = [at |-> "found", obj |-> o,
                                                first |-> streams[s] = None]]
    /\ UNCHANGED <<closed, presenters, viewers, tracks, sim, observers, sinks,
                   subs, peers, rest>>

(* Observers and the audience of a new relay layer, in one section.        *)
RelayAttach(h) ==
    LET o == handler[h].obj IN
    /\ h \notin Local /\ handler[h].at = "added"
    /\ sinks' = AttachAll({<<o, h[3], Relay>>})
    /\ IF handler[h].first THEN SubscribeAll(o, h[3]) ELSE UNCHANGED <<subs, sim>>
    /\ Finish(h)
    /\ UNCHANGED <<closed, maps, observers, peers, rest>>

-----------------------------------------------------------------------------
\* Mutation: the layer is recorded as it was asked for.
SetSubscriberQualityAsAsked(u, s, q) ==
    /\ streams[s] # None /\ Peer(u) # None
    /\ LET o == streams[s]
           actual == BestLayer(o, q)
       IN  /\ sim[o].subscribers[u] # actual
           /\ Has(o, actual)
           /\ subs' = [subs EXCEPT ![Peer(u)][s] = Sender(o, actual)]
           /\ sim' = [sim EXCEPT ![o].subscribers[u] = q]
    /\ UNCHANGED <<closed, maps, observers, sinks, peers, rest, handler>>

(* SetSubscriberQuality, for a request of the user, a client report or     *)
(* server telemetry: each may ask for any layer at any time.               *)
SetSubscriberQuality(u, s, q) ==
    /\ streams[s] # None /\ Peer(u) # None
    /\ LET o == streams[s]
           actual == BestLayer(o, q)
       IN  /\ sim[o].subscribers[u] # actual
           /\ Has(o, actual)
           /\ subs' = [subs EXCEPT ![Peer(u)][s] = Sender(o, actual)]
           /\ sim' = [sim EXCEPT ![o].subscribers[u] = actual]
    /\ UNCHANGED <<closed, maps, observers, sinks, peers, rest, handler>>

(* AddObserver attaches the observer to every track and layer there is.    *)
AddObserver(x) ==
    /\ ~closed /\ x \notin observers
    /\ observers' = observers \cup {x}
    /\ sinks' = sinks \cup ({x} \X
          ({TrackOf(m) : m \in {n \in Plain : tracks[n] # None}}
           \cup UNION {LayerTracks(streams[s]) : s \in {t \in Streams : streams[t] # None}}))
    /\ UNCHANGED <<closed, maps, sim, subs, peers, rest, handler>>

(* RemoveObserver leaves the sinks that are attached.                      *)
RemoveObserver(x) ==
    /\ x \in observers
    /\ observers' = observers \ {x}
    /\ UNCHANGED <<closed, maps, sim, sinks, subs, peers, rest, handler>>

\* Mutation: viewers are taken out of the room and not closed.
CloseRoomPresenters ==
    /\ ~closed /\ RoomClose \in here
    /\ closed' = TRUE
    /\ dying' = {TrackOf(m) : m \in {n \in Plain : tracks[n] # None}}
                    \cup ({streams[s] : s \in Streams} \ {None})
                    \cup {presenters[u] : u \in Presenting}
    /\ presenters' = [u \in Users |-> None]
    /\ viewers' = [u \in Users |-> None]
    /\ tracks' = [m \in Plain |-> None]
    /\ streams' = [s \in Streams |-> None]
    /\ UNCHANGED <<sim, observers, sinks, subs, peers, handler, here>>

(* Room.Close empties the maps under the lock; tracks, then peers follow.  *)
CloseRoom ==
    /\ ~closed /\ RoomClose \in here
    /\ closed' = TRUE
    /\ dying' = {TrackOf(m) : m \in {n \in Plain : tracks[n] # None}}
                    \cup ({streams[s] : s \in Streams} \ {None}) \cup InRoom
    /\ presenters' = [u \in Users |-> None]
    /\ viewers' = [u \in Users |-> None]
    /\ tracks' = [m \in Plain |-> None]
    /\ streams' = [s \in Streams |-> None]
    /\ UNCHANGED <<sim, observers, sinks, subs, peers, handler, here>>

CloseTracks ==
    /\ dying # {}
    /\ dying' = {}
    /\ closing' = closing \cup (dying \cap Conns)
    /\ sim' = [o \in Objects |-> IF o \in dying THEN [sim[o] EXCEPT !.closed = TRUE]
                                 ELSE sim[o]]
    /\ sinks' = sinks \ SinksOf(dying \cup UNION {LayerTracks(o) : o \in dying \cap Objects})
    /\ UNCHANGED <<closed, maps, observers, subs, open, offer, waits, notice, handler,
                   here>>

-----------------------------------------------------------------------------
OfferStep(c) == OfferAdds(c) \/ OfferRefused(c) \/ OfferAnswered(c) \/ OfferFails(c)

HandlerStep(h) == \/ CheckPlain(h) \/ PublishPlain(h) \/ FindStream(h)
                  \/ AddLayer(h) \/ AttachLayer(h) \/ SubscribeFirst(h)
                  \/ RelayAttach(h)

Next ==
    \/ \E c \in Conns \cap here : OfferRemovesOld(c)
    \/ \E c \in Conns : OfferStep(c) \/ CloseConn(c) \/ NetworkFails(c)
    \/ \E x \in notice : RunNotice(x)
    \/ \E u \in Users \cap here : MoveToBreakout(u)
    \/ \E h \in Remote \cap here : TrackFires(h) \/ RelayPlain(h) \/ RelayFindStream(h)
    \/ \E h \in Remote : HandlerStep(h)
    \/ \E u \in Users, s \in Streams, q \in Layers : SetSubscriberQuality(u, s, q)
    \/ \E x \in Observers \cap here : AddObserver(x) \/ RemoveObserver(x)
    \/ CloseRoom \/ CloseTracks

Spec == Init /\ [][Next]_vars

(* Goroutines run on; requests, media and network failures need not come.  *)
(* One condition for all connections will do: each has few steps to take.  *)
Fairness ==
    /\ WF_vars(\E c \in Conns : OfferStep(c))
    /\ WF_vars(\E c \in Conns : CloseConn(c))
    /\ WF_vars(\E x \in notice : RunNotice(x))
    /\ WF_vars(CloseTracks)

LiveSpec == Spec /\ Fairness

-----------------------------------------------------------------------------
(* Every peer in the room is sent exactly the plain tracks the room has,   *)
(* except a presenter its own: AddPresenter, AddViewer, handleNewTrack,    *)
(* InjectRelayPacket and RemovePeer race, on different goroutines.         *)
PlainFanout ==
    \A c \in InRoom : \A m \in Plain :
        subs[c][m] # None <=> tracks[m] # None /\ ~Skips(c, m)

(* The same for a simulcast stream once no handler works on its object:    *)
(* nobody who joined while its layers were added is left without it.  The  *)
(* sender may be a dead one, of a handler that ended after its presenter   *)
(* was removed: handleSimulcastTrack locks again and looks at no map.      *)
Busy(o) == \E h \in Remote :
              handler[h].obj = o /\ handler[h].at \in {"found", "added", "attached"}
StreamFanout ==
    \A s \in Streams : LET o == streams[s] IN
        o # None /\ ~Busy(o) => \A c \in InRoom :
            \/ Skips(c, s)
            \/ subs[c][s] # None /\ (subs[c][s].obj = o \/ sim[subs[c][s].obj].closed)

(* The layer a SimulcastTrack records for a peer is the layer its sender   *)
(* sends: SetSubscriberQuality returns early when the record says so.      *)
RecordedLayerIsSent ==
    \A s \in Streams : \A c \in InRoom :
        LET t == subs[c][s] IN
        t # None /\ t.obj = streams[s] => sim[t.obj].subscribers[Owner[c]] = t.layer

(* No peer connection is lost: an open one is in the room, about to be     *)
(* added by its offer, or about to be closed, whichever of offers,         *)
(* callbacks, moves and the close of the room come in between.             *)
NoOrphanConnection ==
    \A c \in open : c \in InRoom \cup closing \cup dying \/ offer[c] = "removed"

(* An observer misses no track or layer of the open room, except a layer   *)
(* whose handler is about to attach it: AddObserver races with tracks.     *)
ObserverSeesAll ==
    ~closed => \A x \in observers :
        /\ \A m \in Plain : tracks[m] # None => <<x, TrackOf(m)>> \in sinks
        /\ \A s \in Streams : streams[s] # None =>
              \A t \in LayerTracks(streams[s]) :
                  \/ <<x, t>> \in sinks
                  \/ \E h \in Remote : /\ handler[h].at = "added"
                                       /\ handler[h].obj = t[1] /\ h[3] = t[2]

(* Whoever is in the room is given all that is published in it.            *)
Fanout == PlainFanout /\ StreamFanout /\ ObserverSeesAll

(* A connection of a closed room, or one that failed, is closed at last.   *)
DeadConnectionEnds ==
    \A c \in Conns :
        c \in open /\ (closed \/ <<c, "failed">> \in notice) ~> c \notin open
=============================================================================
