-------------------------- MODULE MediaRoomProofs --------------------------
(***************************************************************************)
(* Proofs about MediaRoom, for any number of participants, connections,    *)
(* tracks, streams, layers and observers, and any set of offers, tracks    *)
(* and failures that come up together.                                     *)
(*                                                                         *)
(* Most handlers take the room's lock several times. The invariants say    *)
(* what holds between two of them: ConnInv what is still to be closed, and *)
(* FanoutInv that of the handlers of a simulcast stream the one that put   *)
(* the object there has still to give it to whoever is in the room.        *)
(***************************************************************************)
EXTENDS MediaRoom, TLAPS

-----------------------------------------------------------------------------
(* The shape of the state, in parts, and what it keeps besides TypeOK: a   *)
(* connection stands for its owner, in one role; a sender for a stream     *)
(* names an object of that stream.                                         *)
SimRecord == [layers : [Layers -> Feeds \cup {None}],
              subscribers : [Users -> Layers \cup {None}],
              closed : BOOLEAN]
StreamSender(s) == [obj : {o \in Objects : o[2] = s}, layer : Layers, feed : Feeds]
Handler == [at : {"idle", "fired", "checked", "found", "added", "attached", "done"},
            obj : Objects \cup {None}, first : BOOLEAN]
Working == {"found", "added", "attached"}

MemberShape ==
    /\ closed \in BOOLEAN
    /\ presenters \in [Users -> Conns \cup {None}]
    /\ viewers \in [Users -> Conns \cup {None}]
    /\ \A u \in Users :
          /\ presenters[u] # None => Owner[presenters[u]] = u /\ presenters[u] \notin Viewing
          /\ viewers[u] # None => Owner[viewers[u]] = u /\ viewers[u] \in Viewing
          /\ presenters[u] = None \/ viewers[u] = None

ConnShape ==
    /\ open \subseteq Conns
    /\ closing \subseteq open
    /\ \A x \in dying : x \in open \/ x \in Plain \X Feeds \/ x \in Objects
    /\ offer \in [Conns -> {"new", "removed", "added", "answered", "done"}]
    /\ waits \in [Conns -> Conns \cup {None}]
    /\ notice \subseteq Conns \X {"failed", "closed"}
    /\ here \in Appears

TrackShape ==
    /\ tracks \in [Plain -> Feeds \cup {None}]
    /\ streams \in [Streams -> Objects \cup {None}]
    /\ \A s \in Streams : streams[s] # None => streams[s][2] = s
    /\ sim \in [Objects -> SimRecord]
    /\ observers \subseteq Observers
    /\ \A x \in sinks : x[1] \in Observers

SubShape ==
    /\ subs \in [Conns -> [Media -> Subs \cup {None}]]
    /\ \A c \in Conns : /\ \A m \in Plain : subs[c][m] \in Feeds \cup {None}
                        /\ \A s \in Streams : subs[c][s] \in StreamSender(s) \cup {None}

(* What a handler holds: the object of its stream while it works on it,    *)
(* and its layer once it has added it.                                     *)
HandlerShape ==
    /\ handler \in [Remote -> Handler]
    /\ \A h \in Remote :
          /\ handler[h].at \in Working => h \in Objects /\ handler[h].obj \in Objects
                                            /\ handler[h].obj[2] = h[2]
          /\ handler[h].at \notin Working => handler[h].obj = None /\ ~handler[h].first
          /\ handler[h].at = "checked" => h \in Plan \cap Local
          /\ handler[h].first => handler[h].obj = h
          /\ handler[h].at \in {"added", "attached"} => sim[handler[h].obj].layers[h[3]] # None

(* The layers of a relayed stream come from the relay.                     *)
RelayLayers ==
    \A o \in Objects, q \in Layers :
        sim[o].layers[q] # None /\ Src[o[2]] \notin Users => sim[o].layers[q] = Relay

Shapes == MemberShape /\ ConnShape /\ TrackShape /\ SubShape /\ HandlerShape /\ RelayLayers

LEMMA ShapesAreTypes == Shapes => TypeOK
  BY DEF Shapes, MemberShape, ConnShape, TrackShape, SubShape, HandlerShape, TypeOK,
         SimRecord, Handler

LEMMA ShapesInit == Init => Shapes
<1> USE RoomAssumption DEF Init
<1> SUFFICES ASSUME Init PROVE Shapes
    OBVIOUS
<1>1. MemberShape /\ ConnShape
  BY DEF MemberShape, ConnShape
<1>2. TrackShape /\ RelayLayers
  BY DEF TrackShape, RelayLayers, NewTrack, SimRecord
<1>3. SubShape
  BY DEF SubShape, Media
<1>4. HandlerShape
  BY DEF HandlerShape, NoHandler, Handler, Working
<1> QED
  BY <1>1, <1>2, <1>3, <1>4 DEF Shapes

-----------------------------------------------------------------------------
(* What the parts of the model keep or return.                             *)

(* The changes to a SimulcastTrack.                                        *)
LEMMA SimClosed ==
    ASSUME NEW r \in SimRecord, NEW b \in BOOLEAN
    PROVE  /\ [r EXCEPT !.closed = b] \in SimRecord
           /\ [r EXCEPT !.closed = b].layers = r.layers
           /\ [r EXCEPT !.closed = b].subscribers = r.subscribers
           /\ [r EXCEPT !.closed = b].closed = b
  BY DEF SimRecord

LEMMA SimSubscribed ==
    ASSUME NEW r \in SimRecord, NEW f \in [Users -> Layers \cup {None}]
    PROVE  /\ [r EXCEPT !.subscribers = f] \in SimRecord
           /\ [r EXCEPT !.subscribers = f].layers = r.layers
           /\ [r EXCEPT !.subscribers = f].subscribers = f
           /\ [r EXCEPT !.subscribers = f].closed = r.closed
  BY DEF SimRecord

LEMMA SimRecords ==
    ASSUME NEW r \in SimRecord, NEW u \in Users, NEW q \in Layers \cup {None}
    PROVE  /\ [r EXCEPT !.subscribers[u] = q] \in SimRecord
           /\ [r EXCEPT !.subscribers[u] = q].layers = r.layers
           /\ [r EXCEPT !.subscribers[u] = q].closed = r.closed
           /\ \A v \in Users : [r EXCEPT !.subscribers[u] = q].subscribers[v]
                                  = IF v = u THEN q ELSE r.subscribers[v]
  BY DEF SimRecord

LEMMA SimLayered ==
    ASSUME NEW r \in SimRecord, NEW q \in Layers, NEW f \in Feeds
    PROVE  /\ [r EXCEPT !.layers[q] = f] \in SimRecord
           /\ [r EXCEPT !.layers[q] = f].subscribers = r.subscribers
           /\ [r EXCEPT !.layers[q] = f].closed = r.closed
           /\ \A l \in Layers : [r EXCEPT !.layers[q] = f].layers[l]
                                   = IF l = q THEN f ELSE r.layers[l]
  BY DEF SimRecord

(* BestAvailableLayer returns a layer there is, if there is any.           *)
LEMMA BestLayerHas ==
    ASSUME NEW o \in Objects, NEW q \in {"f", "h", "q"}, NEW l \in Layers, Has(o, l)
    PROVE  BestLayer(o, q) \in Layers /\ Has(o, BestLayer(o, q))
<1> DEFINE have == {i \in 1 .. 3 : Has(o, LayerPriority[q][i])}
           least == CHOOSE i \in have : \A j \in have : i <= j
<1>1. l \in {"f", "h", "q"}
  BY RoomAssumption
<1>2. \E i \in 1 .. 3 : LayerPriority[q][i] = l
  <2>1. \A p \in {"f", "h", "q"} :
          {LayerPriority[p][1], LayerPriority[p][2], LayerPriority[p][3]} = {"f", "h", "q"}
    BY DEF LayerPriority
  <2> QED
    BY <1>1, <2>1
<1>3. have # {}
  BY <1>2
<1>4. \E i \in have : \A j \in have : i <= j
  <2>1. CASE 1 \in have
    BY <2>1
  <2>2. CASE 1 \notin have /\ 2 \in have
    BY <2>2
  <2>3. CASE 1 \notin have /\ 2 \notin have
    BY <1>3, <2>3
  <2> QED
    BY <2>1, <2>2, <2>3
<1>5. least \in have
  BY <1>4
<1>6. BestLayer(o, q) = LayerPriority[q][least]
  BY <1>3 DEF BestLayer
<1>7. Has(o, LayerPriority[q][least])
  BY <1>5
<1> QED
  BY <1>6, <1>7 DEF Has

-----------------------------------------------------------------------------
(* Who is in the room, told from the side of the connections.              *)
Seated(c) == presenters[Owner[c]] = c \/ viewers[Owner[c]] = c

RoomIsSeats == InRoom = {d \in Conns : Seated(d)}

LEMMA InRoomIs == MemberShape => RoomIsSeats
<1> SUFFICES ASSUME MemberShape PROVE InRoom = {d \in Conns : Seated(d)}
    BY DEF RoomIsSeats
<1>1. \A c \in InRoom : c \in Conns /\ Seated(c)
  <2>1. \A u \in Presenting : presenters[u] \in Conns /\ Seated(presenters[u])
    BY DEF MemberShape, Presenting, Seated
  <2>2. \A u \in Watching : viewers[u] \in Conns /\ Seated(viewers[u])
    BY DEF MemberShape, Watching, Seated
  <2> QED
    BY <2>1, <2>2 DEF InRoom
<1>2. \A c \in Conns : Seated(c) => c \in InRoom
  <2> SUFFICES ASSUME NEW c \in Conns, Seated(c) PROVE c \in InRoom
      OBVIOUS
  <2>1. Owner[c] \in Users /\ c # None
    BY RoomAssumption DEF Feeds
  <2> QED
    BY <2>1 DEF Seated, InRoom, Presenting, Watching
<1> QED
  BY <1>1, <1>2

(* findPeerLocked finds the one connection of a participant.               *)
LEMMA PeerIs ==
    MemberShape => \A u \in Users :
        /\ Peer(u) = None <=> presenters[u] = None /\ viewers[u] = None
        /\ Peer(u) # None => Peer(u) \in InRoom /\ Owner[Peer(u)] = u
        /\ \A c \in InRoom : Owner[c] = u => c = Peer(u)
<1> SUFFICES ASSUME MemberShape, NEW u \in Users
             PROVE  /\ Peer(u) = None <=> presenters[u] = None /\ viewers[u] = None
                    /\ Peer(u) # None => Peer(u) \in InRoom /\ Owner[Peer(u)] = u
                    /\ \A c \in InRoom : Owner[c] = u => c = Peer(u)
    OBVIOUS
<1>1. InRoom = {c \in Conns : Seated(c)}
  BY InRoomIs DEF RoomIsSeats
<1>2. \A c \in InRoom : c # None
  BY <1>1, RoomAssumption DEF Feeds
<1> QED
  BY <1>1, <1>2 DEF MemberShape, Seated, Peer

(* Everybody in the room is in the audience of a track, except the         *)
(* presenter who publishes it.                                             *)
LEMMA AudienceIs ==
    MemberShape => \A m, c : c \in Audience(Src[m]) <=> c \in InRoom /\ ~Skips(c, m)
<1> SUFFICES ASSUME MemberShape, NEW m, NEW c
             PROVE  c \in Audience(Src[m]) <=> c \in InRoom /\ ~Skips(c, m)
    OBVIOUS
<1>1. InRoom = {d \in Conns : Seated(d)}
  BY InRoomIs DEF RoomIsSeats
<1>2. ASSUME c \in Audience(Src[m]) PROVE c \in InRoom /\ ~Skips(c, m)
  <2>1. CASE \E u \in Presenting \ {Src[m]} : c = presenters[u]
    BY <2>1 DEF MemberShape, Presenting, InRoom, Skips
  <2>2. CASE \E u \in Watching : c = viewers[u]
    BY <2>2 DEF MemberShape, Watching, InRoom, Skips
  <2> QED
    BY <1>2, <2>1, <2>2 DEF Audience
<1>3. ASSUME c \in InRoom, ~Skips(c, m) PROVE c \in Audience(Src[m])
  <2>1. c \in Conns /\ c # None /\ Owner[c] \in Users
    BY <1>1, <1>3, RoomAssumption DEF Feeds
  <2>2. CASE presenters[Owner[c]] = c
    <3>1. Owner[c] \in Presenting
      BY <2>1, <2>2 DEF Presenting
    <3>2. Owner[c] # Src[m]
      BY <1>3, <2>1, <2>2 DEF MemberShape, Skips
    <3> QED
      BY <2>2, <3>1, <3>2 DEF Audience
  <2>3. CASE viewers[Owner[c]] = c
    BY <2>1, <2>3 DEF Audience, Watching
  <2> QED
    BY <1>1, <1>3, <2>2, <2>3 DEF Seated
<1> QED
  BY <1>2, <1>3

(* RemovePeer takes the one connection of the participant out of the room. *)
LEMMA RemoveMembers ==
    ASSUME MemberShape, NEW u \in Users, RemovePeer(u)
    PROVE  /\ MemberShape' /\ closed' = closed
           /\ \/ UNCHANGED <<room, closing>> /\ InRoom' = InRoom
              \/ /\ ~closed /\ Peer(u) \in InRoom
                 /\ InRoom' = InRoom \ {Peer(u)}
                 /\ closing' = closing \cup {Peer(u)}
<1>1. CASE UNCHANGED <<room, closing>>
  BY <1>1 DEF MemberShape, room, maps, InRoom, Presenting, Watching
<1>2. CASE /\ ~closed /\ Peer(u) # None
           /\ closing' = closing \cup {Peer(u)}
           /\ IF u \in Presenting THEN RemovePresenter(u) ELSE RemoveViewer(u)
           /\ UNCHANGED <<closed, observers>>
  <2>1. Peer(u) \in InRoom
    BY <1>2, PeerIs
  <2>2. \/ u \in Presenting /\ presenters' = [presenters EXCEPT ![u] = None] /\ viewers' = viewers
        \/ u \notin Presenting /\ viewers' = [viewers EXCEPT ![u] = None] /\ presenters' = presenters
    BY <1>2 DEF RemovePresenter, RemoveViewer
  <2>3. MemberShape'
    BY <1>2, <2>2 DEF MemberShape
  <2>a. RoomIsSeats'
    BY <2>3, InRoomIs, PTL
  <2>4. (InRoom = {d \in Conns : Seated(d)})'
    BY <2>a DEF RoomIsSeats
  <2>5. InRoom = {c \in Conns : Seated(c)}
    BY InRoomIs DEF RoomIsSeats
  <2>6. \A c \in Conns : Seated(c)' <=> Seated(c) /\ c # Peer(u)
    <3> SUFFICES ASSUME NEW c \in Conns PROVE Seated(c)' <=> Seated(c) /\ c # Peer(u)
        OBVIOUS
    <3>1. c # None /\ Owner[c] \in Users
      BY RoomAssumption DEF Feeds
    <3> QED
      BY <2>2, <3>1 DEF MemberShape, Seated, Peer, Presenting
  <2> QED
    BY <1>2, <2>1, <2>3, <2>4, <2>5, <2>6
<1> QED
  BY <1>1, <1>2 DEF RemovePeer

LEMMA MembersKept ==
    ASSUME MemberShape, UNCHANGED <<closed, presenters, viewers>>
    PROVE  MemberShape' /\ InRoom' = InRoom
  BY DEF MemberShape, InRoom, Presenting, Watching

(* AddPresenter and AddViewer seat a participant who has no seat.          *)
LEMMA AddMembers ==
    ASSUME MemberShape, NEW c \in Conns, OfferAdds(c)
    PROVE  /\ MemberShape' /\ closed' = closed /\ ~closed
           /\ InRoom' = InRoom \cup {c}
           /\ \A d \in InRoom : Owner[d] # Owner[c]
<1>1. /\ closed' = closed /\ ~closed /\ Peer(Owner[c]) = None
      /\ \/ /\ c \in Viewing /\ viewers' = [viewers EXCEPT ![Owner[c]] = c]
            /\ presenters' = presenters
         \/ /\ c \notin Viewing /\ presenters' = [presenters EXCEPT ![Owner[c]] = c]
            /\ viewers' = viewers
  BY DEF OfferAdds, Refused
<1>2. Owner[c] \in Users /\ c # None
  BY RoomAssumption DEF Feeds
<1>3. presenters[Owner[c]] = None /\ viewers[Owner[c]] = None
  BY <1>1, <1>2, PeerIs
<1>4. MemberShape'
  BY <1>1, <1>2, <1>3 DEF MemberShape
<1>a. RoomIsSeats'
  BY <1>4, InRoomIs, PTL
<1>5. (InRoom = {d \in Conns : Seated(d)})'
  BY <1>a DEF RoomIsSeats
<1>6. InRoom = {d \in Conns : Seated(d)}
  BY InRoomIs DEF RoomIsSeats
<1>7. \A d \in Conns : Seated(d)' <=> Seated(d) \/ d = c
  <2> SUFFICES ASSUME NEW d \in Conns PROVE Seated(d)' <=> Seated(d) \/ d = c
      OBVIOUS
  <2>1. d # None /\ Owner[d] \in Users
    BY RoomAssumption DEF Feeds
  <2> QED
    BY <1>1, <1>2, <1>3, <2>1 DEF MemberShape, Seated
<1>8. \A d \in InRoom : Owner[d] # Owner[c]
  <2>1. \A d \in InRoom : d # None
    BY <1>6, RoomAssumption DEF Feeds
  <2> QED
    BY <1>1, <1>2, <2>1, PeerIs
<1> QED
  BY <1>1, <1>4, <1>5, <1>6, <1>7, <1>8

(* The steps that leave the members and the connections alone.             *)
TrackStep ==
    \/ \E h \in Remote : \/ TrackFires(h) \/ RelayPlain(h) \/ RelayFindStream(h)
                         \/ HandlerStep(h)
    \/ \E u \in Users, s \in Streams, q \in Layers : SetSubscriberQuality(u, s, q)
    \/ \E x \in Observers : AddObserver(x) \/ RemoveObserver(x)

LEMMA TrackStepKeeps ==
    ASSUME TrackStep
    PROVE  UNCHANGED <<closed, presenters, viewers, peers, rest>>
<1>1. ASSUME NEW h \in Remote, TrackFires(h) \/ CheckPlain(h)
      PROVE  UNCHANGED <<closed, presenters, viewers, peers, rest>>
  BY <1>1 DEF TrackFires, CheckPlain, room, maps, peers, rest
<1>2. ASSUME NEW h \in Remote, RelayPlain(h) \/ PublishPlain(h)
      PROVE  UNCHANGED <<closed, presenters, viewers, peers, rest>>
  BY <1>2 DEF RelayPlain, PublishPlain, AddRouter, room, maps, peers, rest
<1>3. ASSUME NEW h \in Remote, FindStream(h) \/ RelayFindStream(h)
      PROVE  UNCHANGED <<closed, presenters, viewers, peers, rest>>
  BY <1>3 DEF FindStream, RelayFindStream, room, maps
<1>4. ASSUME NEW h \in Remote,
             AddLayer(h) \/ AttachLayer(h) \/ SubscribeFirst(h) \/ RelayAttach(h)
      PROVE  UNCHANGED <<closed, presenters, viewers, peers, rest>>
  BY <1>4 DEF AddLayer, AttachLayer, SubscribeFirst, RelayAttach, maps
<1>5. ASSUME NEW u \in Users, NEW s \in Streams, NEW q \in Layers, SetSubscriberQuality(u, s, q)
      PROVE  UNCHANGED <<closed, presenters, viewers, peers, rest>>
  BY <1>5 DEF SetSubscriberQuality, maps
<1>6. ASSUME NEW x \in Observers, AddObserver(x) \/ RemoveObserver(x)
      PROVE  UNCHANGED <<closed, presenters, viewers, peers, rest>>
  BY <1>6 DEF AddObserver, RemoveObserver, maps
<1> QED
  BY <1>1, <1>2, <1>3, <1>4, <1>5, <1>6 DEF TrackStep, HandlerStep

(* The rest of the room's steps, by what they do to its members.           *)
RemoveStep ==
    \/ \E c \in Conns : OfferRemovesOld(c) \/ OfferFails(c)
    \/ \E x \in notice : RunNotice(x)
    \/ \E u \in Users : MoveToBreakout(u)

EndStep ==
    \E c \in Conns : \/ OfferRefused(c) \/ OfferAnswered(c) \/ CloseConn(c)
                     \/ NetworkFails(c)

LEMMA NextIs ==
    ASSUME [Next]_vars
    PROVE  \/ TrackStep \/ RemoveStep \/ EndStep
           \/ \E c \in Conns : OfferAdds(c)
           \/ CloseRoom \/ CloseTracks \/ UNCHANGED vars
  BY DEF Next, OfferStep, TrackStep, RemoveStep, EndStep

LEMMA RemoveStepIs ==
    ASSUME ConnShape, RemoveStep
    PROVE  /\ \E u \in Users : RemovePeer(u)
           /\ UNCHANGED <<rest, handler>>
  BY RoomAssumption DEF ConnShape, RemoveStep, OfferRemovesOld, OfferFails, RunNotice,
                        MoveToBreakout

LEMMA MemberStep ==
    ASSUME MemberShape, ConnShape, [Next]_vars
    PROVE  MemberShape'
<1>1. CASE TrackStep
  BY <1>1, TrackStepKeeps, MembersKept
<1>2. CASE RemoveStep
  BY <1>2, RemoveStepIs, RemoveMembers
<1>3. CASE EndStep
  <2>1. UNCHANGED <<closed, presenters, viewers>>
    BY <1>3 DEF EndStep, OfferRefused, OfferAnswered, CloseConn, NetworkFails, room, maps
  <2> QED
    BY <2>1, MembersKept
<1>4. ASSUME NEW c \in Conns, OfferAdds(c) PROVE MemberShape'
  BY <1>4, AddMembers
<1>5. CASE CloseRoom
  BY <1>5 DEF CloseRoom, MemberShape
<1>6. CASE CloseTracks \/ UNCHANGED vars
  <2>1. UNCHANGED <<closed, presenters, viewers>>
    BY <1>6 DEF CloseTracks, vars, room, maps
  <2> QED
    BY <2>1, MembersKept
<1> QED
  BY <1>1, <1>2, <1>3, <1>4, <1>5, <1>6, NextIs

-----------------------------------------------------------------------------
(* Where a connection is: in the room, about to be closed, or taken out by *)
(* Room.Close, and in one of them only; not yet any of them while its      *)
(* offer removes the old peer.  A closed room has nobody.                  *)
ConnInv ==
    /\ InRoom \subseteq open
    /\ InRoom \cap closing = {} /\ InRoom \cap dying = {} /\ closing \cap dying = {}
    /\ closed => InRoom = {}
    /\ ~closed => dying = {}
    /\ \A c \in Conns :
          /\ offer[c] = "new" => c \notin open
          /\ offer[c] = "removed" => c \in open /\ c \notin InRoom \cup closing \cup dying
    /\ NoOrphanConnection

LEMMA ConnInit == Init => ConnInv
  BY DEF Init, ConnInv, NoOrphanConnection, InRoom, Presenting, Watching

LEMMA DyingIsOpen == ASSUME ConnShape PROVE dying \cap Conns \subseteq open
  BY RoomAssumption DEF ConnShape

(* The steps that remove a peer: the connection it found is closed next.   *)
LEMMA ConnRemove ==
    ASSUME MemberShape, ConnShape, ConnInv, RemoveStep
    PROVE  ConnShape' /\ ConnInv'
<1> DEFINE Taken(u) == \/ UNCHANGED <<room, closing>> /\ InRoom' = InRoom
                       \/ /\ ~closed /\ Peer(u) \in InRoom
                          /\ InRoom' = InRoom \ {Peer(u)}
                          /\ closing' = closing \cup {Peer(u)}
<1>1. UNCHANGED rest /\ closed' = closed
  BY RemoveStepIs, RemoveMembers
<1>2. \A u \in Users : Peer(u) \in InRoom => Peer(u) \in open /\ Peer(u) \notin dying
                                              /\ offer[Peer(u)] # "removed"
  BY DEF ConnInv, ConnShape
<1>3. ASSUME NEW c \in Conns, OfferRemovesOld(c) PROVE ConnShape' /\ ConnInv'
  <2>1. /\ offer[c] = "new" /\ open' = open \cup {c}
        /\ offer' = [offer EXCEPT ![c] = "removed"] /\ notice' = notice
    BY <1>3 DEF OfferRemovesOld
  <2>2. Owner[c] \in Users /\ Peer(Owner[c]) \in Conns \cup {None}
    BY RoomAssumption DEF MemberShape, Peer
  <2>3. waits' \in [Conns -> Conns \cup {None}]
    BY <1>3, <2>2 DEF OfferRemovesOld, ConnShape
  <2>4. Taken(Owner[c])
    BY <1>3, <2>2, RemoveMembers DEF OfferRemovesOld
  <2>5. c \notin open /\ c \notin dying /\ c \notin closing /\ c \notin InRoom
    BY <2>1, DyingIsOpen DEF ConnInv, ConnShape
  <2>6. ConnShape'
    BY <1>1, <1>2, <2>1, <2>2, <2>3, <2>4 DEF ConnShape, rest
  <2>7. \A d \in Conns : offer'[d] = IF d = c THEN "removed" ELSE offer[d]
    BY <2>1 DEF ConnShape
  <2>8. /\ InRoom' \subseteq open' /\ InRoom' \cap closing' = {}
        /\ InRoom' \cap dying' = {} /\ closing' \cap dying' = {}
        /\ (closed => InRoom = {})' /\ (~closed => dying = {})'
    BY <1>1, <1>2, <2>1, <2>2, <2>4, <2>5 DEF ConnInv, rest
  <2>9. (\A d \in Conns :
          /\ offer[d] = "new" => d \notin open
          /\ offer[d] = "removed" => d \in open /\ d \notin InRoom \cup closing \cup dying)'
    BY <1>1, <1>2, <2>1, <2>2, <2>4, <2>5, <2>7 DEF ConnInv, rest
  <2>10. NoOrphanConnection'
    BY <1>1, <1>2, <2>1, <2>2, <2>4, <2>5, <2>7 DEF ConnInv, ConnShape, NoOrphanConnection, rest
  <2> QED
    BY <2>6, <2>8, <2>9, <2>10 DEF ConnInv
<1>4. ASSUME NEW u \in Users, RemovePeer(u), UNCHANGED <<open, waits>>, notice' \subseteq notice,
             \/ offer' = offer
             \/ \E c \in Conns : offer[c] = "added" /\ offer' = [offer EXCEPT ![c] = "done"]
      PROVE  ConnShape' /\ ConnInv'
  <2>1. Taken(u)
    BY <1>4, RemoveMembers
  <2>2. /\ offer' \in [Conns -> {"new", "removed", "added", "answered", "done"}]
        /\ \A d \in Conns : offer'[d] \in {"new", "removed"} <=> offer[d] \in {"new", "removed"}
        /\ \A d \in Conns : offer[d] \in {"new", "removed"} => offer'[d] = offer[d]
    BY <1>4 DEF ConnShape
  <2>3. ConnShape'
    BY <1>1, <1>2, <1>4, <2>1, <2>2 DEF ConnShape, rest
  <2>4. /\ InRoom' \subseteq open' /\ InRoom' \cap closing' = {}
        /\ InRoom' \cap dying' = {} /\ closing' \cap dying' = {}
        /\ (closed => InRoom = {})' /\ (~closed => dying = {})'
    BY <1>1, <1>2, <1>4, <2>1 DEF ConnInv, rest
  <2>5. (\A d \in Conns :
          /\ offer[d] = "new" => d \notin open
          /\ offer[d] = "removed" => d \in open /\ d \notin InRoom \cup closing \cup dying)'
    BY <1>1, <1>2, <1>4, <2>1, <2>2 DEF ConnInv, rest
  <2>6. NoOrphanConnection'
    BY <1>1, <1>4, <2>1, <2>2 DEF ConnInv, ConnShape, NoOrphanConnection, rest
  <2> QED
    BY <2>3, <2>4, <2>5, <2>6 DEF ConnInv
<1>5. ASSUME NEW c \in Conns, OfferFails(c) PROVE ConnShape' /\ ConnInv'
  BY <1>4, <1>5, RoomAssumption DEF OfferFails
<1>6. ASSUME NEW x \in notice, RunNotice(x) PROVE ConnShape' /\ ConnInv'
  <2>1. Owner[x[1]] \in Users
    BY RoomAssumption DEF ConnShape
  <2> QED
    BY <1>4, <1>6, <2>1 DEF RunNotice
<1>7. ASSUME NEW u \in Users, MoveToBreakout(u) PROVE ConnShape' /\ ConnInv'
  BY <1>4, <1>7 DEF MoveToBreakout
<1> QED
  BY <1>3, <1>5, <1>6, <1>7 DEF RemoveStep

(* The steps of an offer or a connection on its own.                       *)
LEMMA ConnEnd ==
    ASSUME MemberShape, ConnShape, ConnInv, EndStep
    PROVE  ConnShape' /\ ConnInv'
<1>1. UNCHANGED <<closed, rest>> /\ InRoom' = InRoom
  <2>1. UNCHANGED <<closed, presenters, viewers, rest>>
    BY DEF EndStep, OfferRefused, OfferAnswered, CloseConn, NetworkFails, room, maps
  <2> QED
    BY <2>1, MembersKept
<1>2. PICK c \in Conns : OfferRefused(c) \/ OfferAnswered(c) \/ CloseConn(c) \/ NetworkFails(c)
  BY DEF EndStep
<1>3. CASE OfferRefused(c)
  <2>1. /\ offer[c] = "removed" /\ open' = open \ {c} /\ UNCHANGED <<closing, notice>>
        /\ offer' = [offer EXCEPT ![c] = "done"] /\ waits' = [waits EXCEPT ![c] = None]
    BY <1>3 DEF OfferRefused, Ready
  <2>2. c \notin InRoom \cup closing \cup dying
    BY <2>1 DEF ConnInv
  <2>3. ConnShape'
    BY <1>1, <2>1, <2>2 DEF ConnShape, rest
  <2> QED
    BY <1>1, <2>1, <2>2, <2>3 DEF ConnShape, ConnInv, NoOrphanConnection, rest
<1>4. CASE OfferAnswered(c)
  <2>1. /\ offer[c] = "added" /\ UNCHANGED <<open, closing, notice, waits>>
        /\ offer' = [offer EXCEPT ![c] = "answered"]
    BY <1>4 DEF OfferAnswered
  <2> QED
    BY <1>1, <2>1 DEF ConnShape, ConnInv, NoOrphanConnection, rest
<1>5. CASE CloseConn(c)
  <2>1. /\ c \in closing /\ closing' = closing \ {c} /\ open' = open \ {c}
        /\ offer' = [offer EXCEPT ![c] = IF @ = "answered" THEN "done" ELSE @]
        /\ notice' = notice \cup {<<c, "closed">>} /\ waits' = waits
    BY <1>5 DEF CloseConn
  <2>2. c \notin InRoom \cup dying /\ offer[c] \notin {"new", "removed"}
    BY <2>1 DEF ConnInv, ConnShape
  <2>3. ConnShape'
    BY <1>1, <2>1, <2>2 DEF ConnShape, rest
  <2>4. \A d \in Conns : offer'[d] \in {"new", "removed"} => d # c /\ offer'[d] = offer[d]
    BY <2>1, <2>2 DEF ConnShape
  <2>5. \A d \in Conns : offer[d] = "removed" => offer'[d] = "removed"
    BY <2>1, <2>2 DEF ConnShape
  <2> QED
    BY <1>1, <2>1, <2>2, <2>3, <2>4, <2>5 DEF ConnShape, ConnInv, NoOrphanConnection, rest
<1>6. CASE NetworkFails(c)
  <2>1. notice' = notice \cup {<<c, "failed">>} /\ UNCHANGED <<open, closing, offer, waits>>
    BY <1>6 DEF NetworkFails
  <2> QED
    BY <1>1, <2>1 DEF ConnShape, ConnInv, NoOrphanConnection, rest
<1> QED
  BY <1>2, <1>3, <1>4, <1>5, <1>6

(* Every step leaves each connection in one place.                         *)
LEMMA ConnStep ==
    ASSUME MemberShape, ConnShape, TrackShape, ConnInv, [Next]_vars
    PROVE  ConnShape' /\ ConnInv'
<1>1. ASSUME UNCHANGED <<closed, presenters, viewers, peers, rest>>
      PROVE  ConnShape' /\ ConnInv'
  BY <1>1, MembersKept DEF ConnShape, ConnInv, NoOrphanConnection, peers, rest
<1>2. ASSUME NEW c \in Conns, OfferAdds(c) PROVE ConnShape' /\ ConnInv'
  <2>1. /\ offer[c] = "removed" /\ UNCHANGED <<open, closing, notice, rest>>
        /\ offer' = [offer EXCEPT ![c] = "added"] /\ waits' = [waits EXCEPT ![c] = None]
    BY <1>2 DEF OfferAdds, Ready
  <2>2. closed' = closed /\ ~closed /\ InRoom' = InRoom \cup {c}
    BY <1>2, AddMembers
  <2>3. c \in open /\ c \notin closing \cup dying
    BY <2>1 DEF ConnInv
  <2> QED
    BY <2>1, <2>2, <2>3 DEF ConnShape, ConnInv, NoOrphanConnection, rest
<1>3. CASE CloseRoom
  <2> DEFINE tks == {TrackOf(m) : m \in {n \in Plain : tracks[n] # None}}
             objs == {streams[s] : s \in Streams} \ {None}
  <2>1. /\ ~closed /\ closed' /\ dying' = tks \cup objs \cup InRoom
        /\ UNCHANGED <<peers, here>> /\ InRoom' = {}
    BY <1>3 DEF CloseRoom, InRoom, Presenting, Watching
  <2>2. tks \subseteq Plain \X Feeds /\ objs \subseteq Objects
    BY DEF TrackShape, TrackOf
  <2>3. \A c \in Conns : c \notin tks /\ c \notin objs
    BY <2>2, RoomAssumption
  <2>4. dying = {}
    BY <2>1 DEF ConnInv
  <2> HIDE DEF tks, objs
  <2>5. ConnShape'
    BY <2>1, <2>2 DEF ConnShape, ConnInv, peers
  <2> QED
    BY <2>1, <2>3, <2>4, <2>5 DEF ConnShape, ConnInv, NoOrphanConnection, peers
<1>4. CASE CloseTracks
  <2>1. /\ closed /\ InRoom = {} /\ UNCHANGED <<closed, open, offer, waits, notice, here>>
        /\ dying' = {} /\ closing' = closing \cup (dying \cap Conns)
    BY <1>4 DEF CloseTracks, ConnInv
  <2>2. InRoom' = {}
    BY <1>4, <2>1, MembersKept DEF CloseTracks, maps
  <2> QED
    BY <2>1, <2>2, DyingIsOpen DEF ConnShape, ConnInv, NoOrphanConnection
<1>5. CASE UNCHANGED vars
  BY <1>1, <1>5 DEF vars, room, maps
<1> QED
  BY <1>1, <1>2, <1>3, <1>4, <1>5, TrackStepKeeps, ConnRemove, ConnEnd, NextIs

-----------------------------------------------------------------------------
(* What the steps do to the simulcast tracks: no layer is ever taken out,  *)
(* no closed track opens again, and only AddLayer puts a layer in.         *)
SimCalm ==
    /\ sim' \in [Objects -> SimRecord]
    /\ \A o \in Objects : /\ sim'[o].layers = sim[o].layers
                          /\ sim[o].closed => sim'[o].closed

LEMMA SimRemove ==
    ASSUME TrackShape, NEW u \in Users, RemovePeer(u)
    PROVE  SimCalm
<1>0. \A o \in Objects : sim[o] \in SimRecord
  BY DEF TrackShape
<1>1. CASE UNCHANGED room
  BY <1>1 DEF TrackShape, SimCalm, room
<1>2. ASSUME RemovePresenter(u) PROVE SimCalm
  <2> DEFINE new(o) == IF o \in {streams[s] : s \in Published(u) \cap Streams}
                       THEN [sim[o] EXCEPT !.closed = TRUE] ELSE sim[o]
  <2>1. sim' = [o \in Objects |-> new(o)]
    BY <1>2 DEF RemovePresenter
  <2>2. \A o \in Objects : /\ new(o) \in SimRecord /\ new(o).layers = sim[o].layers
                           /\ sim[o].closed => new(o).closed
    BY <1>0, SimClosed
  <2> HIDE DEF new
  <2> QED
    BY <2>1, <2>2 DEF SimCalm
<1>3. ASSUME RemoveViewer(u) PROVE SimCalm
  <2> DEFINE new(o) == IF \E s \in Streams : streams[s] = o
                       THEN [sim[o] EXCEPT !.subscribers[u] = None] ELSE sim[o]
  <2>1. sim' = [o \in Objects |-> new(o)]
    BY <1>3 DEF RemoveViewer
  <2>2. \A o \in Objects : /\ new(o) \in SimRecord /\ new(o).layers = sim[o].layers
                           /\ sim[o].closed => new(o).closed
    BY <1>0, SimRecords
  <2> HIDE DEF new
  <2> QED
    BY <2>1, <2>2 DEF SimCalm
<1> QED
  BY <1>1, <1>2, <1>3 DEF RemovePeer

LEMMA SimJoin ==
    ASSUME TrackShape, NEW c \in Conns, OfferAdds(c)
    PROVE  SimCalm
<1> DEFINE new(o) == IF \E s \in Streams : streams[s] = o /\ JoinSubs(c)[s] # None
                     THEN [sim[o] EXCEPT !.subscribers[Owner[c]] = JoinLayer(c, o)] ELSE sim[o]
<1>0. \A o \in Objects : sim[o] \in SimRecord
  BY DEF TrackShape
<1>1. sim' = [o \in Objects |-> new(o)]
  BY DEF OfferAdds, JoinRecords
<1>2. \A o \in Objects : (\E s \in Streams : streams[s] = o /\ JoinSubs(c)[s] # None)
                            => JoinLayer(c, o) \in Layers
  BY RoomAssumption DEF JoinSubs, Has, Media
<1>3. \A o \in Objects : /\ new(o) \in SimRecord /\ new(o).layers = sim[o].layers
                         /\ sim[o].closed => new(o).closed
  BY <1>0, <1>2, SimRecords, RoomAssumption
<1> HIDE DEF new
<1> QED
  BY <1>1, <1>3 DEF SimCalm

LEMMA SimSubscribe ==
    ASSUME TrackShape, NEW o \in Objects, NEW q \in Layers, SubscribeAll(o, q)
    PROVE  SimCalm
<1> DEFINE f == [u \in Users |-> IF \E c \in Audience(Src[o[2]]) : Owner[c] = u
                                 THEN q ELSE sim[o].subscribers[u]]
<1>0. sim \in [Objects -> SimRecord]
  BY DEF TrackShape
<1>1. sim' = [sim EXCEPT ![o] = [sim[o] EXCEPT !.subscribers = f]]
  BY <1>0 DEF SubscribeAll
<1>2. f \in [Users -> Layers \cup {None}]
  BY <1>0 DEF SimRecord
<1> HIDE DEF f
<1>3. /\ [sim[o] EXCEPT !.subscribers = f] \in SimRecord
      /\ [sim[o] EXCEPT !.subscribers = f].layers = sim[o].layers
      /\ [sim[o] EXCEPT !.subscribers = f].closed = sim[o].closed
  BY <1>0, <1>2, SimSubscribed
<1> DEFINE new == [sim[o] EXCEPT !.subscribers = f]
<1> HIDE DEF new
<1>4. sim' = [sim EXCEPT ![o] = new] /\ new \in SimRecord /\ new.layers = sim[o].layers
        /\ new.closed = sim[o].closed
  BY <1>1, <1>3 DEF new
<1> QED
  BY <1>0, <1>4 DEF SimCalm

LEMMA SimQuality ==
    ASSUME TrackShape, NEW u \in Users, NEW s \in Streams, NEW q \in Layers,
           SetSubscriberQuality(u, s, q)
    PROVE  SimCalm
<1> DEFINE o == streams[s]
           actual == BestLayer(o, q)
           new == [sim[o] EXCEPT !.subscribers[u] = actual]
<1>0. sim \in [Objects -> SimRecord] /\ o \in Objects
  BY DEF TrackShape, SetSubscriberQuality
<1>1. sim' = [sim EXCEPT ![o] = new] /\ actual \in Layers
  BY DEF SetSubscriberQuality, Has
<1>2. new \in SimRecord /\ new.layers = sim[o].layers /\ new.closed = sim[o].closed
  BY <1>0, <1>1, SimRecords
<1> HIDE DEF new
<1> QED
  BY <1>0, <1>1, <1>2 DEF SimCalm

LEMMA SimCloses ==
    ASSUME TrackShape, CloseTracks
    PROVE  SimCalm
<1> DEFINE new(o) == IF o \in dying THEN [sim[o] EXCEPT !.closed = TRUE] ELSE sim[o]
<1>1. sim' = [o \in Objects |-> new(o)]
  BY DEF CloseTracks
<1>2. \A o \in Objects : /\ new(o) \in SimRecord /\ new(o).layers = sim[o].layers
                         /\ sim[o].closed => new(o).closed
  BY SimClosed DEF TrackShape
<1> HIDE DEF new
<1> QED
  BY <1>1, <1>2 DEF SimCalm

(* AddLayer: the layer is the handler's, the track is not closed.          *)
LEMMA SimAdds ==
    ASSUME TrackShape, HandlerShape, NEW h \in Remote, AddLayer(h)
    PROVE  /\ handler[h].at = "found" /\ handler[h].obj \in Objects
           /\ h[3] \in Layers /\ h[1] \in Feeds
           /\ sim' \in [Objects -> SimRecord]
           /\ \/ /\ sim' = sim /\ handler' = [handler EXCEPT ![h] = Done]
                 /\ sim[handler[h].obj].closed
              \/ /\ ~sim[handler[h].obj].closed
                 /\ handler' = [handler EXCEPT ![h].at = "added"]
                 /\ \A o \in Objects :
                       /\ sim'[o].closed = sim[o].closed
                       /\ sim'[o].subscribers = sim[o].subscribers
                       /\ \A q \in Layers :
                            sim'[o].layers[q] = IF o = handler[h].obj /\ q = h[3]
                                                THEN h[1] ELSE sim[o].layers[q]
<1> DEFINE o == handler[h].obj
           new == [sim[o] EXCEPT !.layers[h[3]] = h[1]]
<1>1. handler[h].at = "found" /\ o \in Objects /\ h \in Objects
  BY DEF AddLayer, HandlerShape, Working
<1>2. h[3] \in Layers /\ h[1] \in Feeds /\ sim[o] \in SimRecord
  BY <1>1, RoomAssumption DEF Objects, TrackShape
<1>3. CASE sim[o].closed /\ Finish(h) /\ UNCHANGED sim
  BY <1>1, <1>2, <1>3 DEF TrackShape, Finish
<1>4. CASE ~sim[o].closed /\ sim' = [sim EXCEPT ![o] = new] /\ Goto(h, "added")
  <2>1. /\ new \in SimRecord /\ new.subscribers = sim[o].subscribers
        /\ new.closed = sim[o].closed
        /\ \A q \in Layers : new.layers[q] = IF q = h[3] THEN h[1] ELSE sim[o].layers[q]
    BY <1>2, SimLayered
  <2> HIDE DEF new
  <2>2. sim' \in [Objects -> SimRecord]
    BY <1>1, <1>4, <2>1 DEF TrackShape
  <2>3. \A p \in Objects : sim'[p] = IF p = o THEN new ELSE sim[p]
    BY <1>1, <1>4 DEF TrackShape
  <2> QED
    BY <1>1, <1>2, <1>4, <2>1, <2>2, <2>3 DEF Goto
<1> QED
  BY <1>3, <1>4 DEF AddLayer

LEMMA SimSame == ASSUME TrackShape, sim' = sim PROVE SimCalm
  BY DEF TrackShape, SimCalm

(* A relayed layer is attached with the audience only by its creator.      *)
LEMMA SimAttach ==
    ASSUME TrackShape, HandlerShape, NEW h \in Remote, SubscribeFirst(h) \/ RelayAttach(h)
    PROVE  SimCalm
<1>1. handler[h].obj \in Objects /\ h[3] \in Layers
  BY RoomAssumption DEF SubscribeFirst, RelayAttach, HandlerShape, Working, Objects
<1> QED
  BY <1>1, SimSubscribe, SimSame DEF SubscribeFirst, RelayAttach

LEMMA SimStep ==
    ASSUME Shapes, [Next]_vars
    PROVE  SimCalm \/ \E h \in Remote : AddLayer(h)
<1> USE DEF Shapes
<1>1. CASE RemoveStep
  BY <1>1, RemoveStepIs, SimRemove
<1>2. ASSUME NEW c \in Conns, OfferAdds(c) PROVE SimCalm
  BY <1>2, SimJoin
<1>3. CASE CloseTracks
  BY <1>3, SimCloses
<1>4. CASE EndStep \/ CloseRoom \/ UNCHANGED vars
  BY <1>4, SimSame DEF EndStep, OfferRefused, OfferAnswered, CloseConn, NetworkFails,
                       CloseRoom, vars, room
<1>5. CASE TrackStep
  <2>1. ASSUME NEW h \in Remote,
               \/ TrackFires(h) \/ RelayPlain(h) \/ RelayFindStream(h) \/ CheckPlain(h)
               \/ PublishPlain(h) \/ FindStream(h) \/ AttachLayer(h)
        PROVE  SimCalm
    BY <2>1, SimSame DEF TrackFires, RelayPlain, RelayFindStream, CheckPlain, PublishPlain,
                         FindStream, AttachLayer, AddRouter, room
  <2>2. ASSUME NEW h \in Remote, SubscribeFirst(h) \/ RelayAttach(h) PROVE SimCalm
    BY <2>2, SimAttach
  <2>3. ASSUME NEW u \in Users, NEW s \in Streams, NEW q \in Layers, SetSubscriberQuality(u, s, q)
        PROVE  SimCalm
    BY <2>3, SimQuality
  <2>4. ASSUME NEW x \in Observers, AddObserver(x) \/ RemoveObserver(x) PROVE SimCalm
    BY <2>4, SimSame DEF AddObserver, RemoveObserver
  <2> QED
    BY <1>5, <2>1, <2>2, <2>3, <2>4 DEF TrackStep, HandlerStep
<1> QED
  BY <1>1, <1>2, <1>3, <1>4, <1>5, NextIs

LEMMA LayersStep ==
    ASSUME Shapes, [Next]_vars
    PROVE  /\ sim' \in [Objects -> SimRecord] /\ RelayLayers'
           /\ \A o \in Objects :
                 /\ sim[o].closed => sim'[o].closed
                 /\ \A q \in Layers : sim[o].layers[q] # None => sim'[o].layers[q] # None
<1>1. CASE SimCalm
  BY <1>1 DEF SimCalm, Shapes, RelayLayers
<1>2. ASSUME NEW h \in Remote, AddLayer(h)
      PROVE  /\ sim' \in [Objects -> SimRecord] /\ RelayLayers'
             /\ \A o \in Objects :
                   /\ sim[o].closed => sim'[o].closed
                   /\ \A q \in Layers : sim[o].layers[q] # None => sim'[o].layers[q] # None
  <2>1. /\ sim' \in [Objects -> SimRecord] /\ h[1] # None
        /\ handler[h].obj[2] = h[2]
        /\ \/ sim' = sim
           \/ \A o \in Objects :
                 /\ sim'[o].closed = sim[o].closed
                 /\ \A q \in Layers :
                      sim'[o].layers[q] = IF o = handler[h].obj /\ q = h[3]
                                          THEN h[1] ELSE sim[o].layers[q]
    BY <1>2, SimAdds, RoomAssumption DEF Shapes, HandlerShape, Working
  <2>2. Src[h[2]] \notin Users => h[1] = Relay
    BY RoomAssumption
  <2>3. RelayLayers'
    BY <2>1, <2>2 DEF Shapes, RelayLayers
  <2> QED
    BY <2>1, <2>3
<1> QED
  BY <1>1, <1>2, SimStep

(* What a handler may do next; everything else leaves it where it is.      *)
LEMMA HandlerStays ==
    ASSUME [Next]_vars
    PROVE  handler' = handler \/ \E h \in Remote :
              \/ TrackFires(h) \/ RelayPlain(h) \/ RelayFindStream(h) \/ HandlerStep(h)
<1>1. CASE RemoveStep \/ EndStep \/ CloseRoom \/ CloseTracks \/ UNCHANGED vars
  BY <1>1 DEF RemoveStep, EndStep, OfferRemovesOld, OfferFails, RunNotice, MoveToBreakout,
              OfferRefused, OfferAnswered, CloseConn, NetworkFails, CloseRoom, CloseTracks, vars
<1>2. ASSUME NEW c \in Conns, OfferAdds(c) PROVE handler' = handler
  BY <1>2 DEF OfferAdds
<1>3. ASSUME NEW u \in Users, NEW s \in Streams, NEW q \in Layers, SetSubscriberQuality(u, s, q)
      PROVE  handler' = handler
  BY <1>3 DEF SetSubscriberQuality
<1>4. ASSUME NEW x \in Observers, AddObserver(x) \/ RemoveObserver(x) PROVE handler' = handler
  BY <1>4 DEF AddObserver, RemoveObserver
<1> QED
  BY <1>1, <1>2, <1>3, <1>4, NextIs DEF TrackStep

(* The records a handler moves to.                                         *)
LEMMA HandlerMoves ==
    ASSUME HandlerShape, NEW h \in Remote
    PROVE  /\ Done \in Handler /\ Done.at = "done" /\ Done.obj = None /\ ~Done.first
           /\ \A l \in {"fired", "checked", "added", "attached"} :
                 /\ [handler[h] EXCEPT !.at = l] \in Handler
                 /\ [handler[h] EXCEPT !.at = l].at = l
                 /\ [handler[h] EXCEPT !.at = l].obj = handler[h].obj
                 /\ [handler[h] EXCEPT !.at = l].first = handler[h].first
<1>1. handler[h] \in Handler
  BY DEF HandlerShape
<1> QED
  BY <1>1 DEF Handler, Done, NoHandler

LEMMA HandlerStepShape ==
    ASSUME Shapes, [Next]_vars
    PROVE  HandlerShape'
<1>0. \A o \in Objects, q \in Layers : sim[o].layers[q] # None => sim'[o].layers[q] # None
  BY LayersStep
<1>1. CASE handler' = handler
  <2>1. \A h \in Remote : handler[h].at \in Working => h[3] \in Layers
    BY RoomAssumption DEF Shapes, HandlerShape, Objects
  <2> QED
    BY <1>0, <1>1, <2>1 DEF Shapes, HandlerShape, Working
<1>2. ASSUME NEW h \in Remote, NEW r \in Handler, handler' = [handler EXCEPT ![h] = r],
             r.at \in Working => h \in Objects /\ r.obj \in Objects /\ r.obj[2] = h[2],
             r.at \notin Working => r.obj = None /\ ~r.first,
             r.at = "checked" => h \in Plan \cap Local,
             r.first => r.obj = h,
             r.at \in {"added", "attached"} => sim'[r.obj].layers[h[3]] # None
      PROVE  HandlerShape'
  <2>1. \A g \in Remote : handler'[g] = IF g = h THEN r ELSE handler[g]
    BY <1>2 DEF Shapes, HandlerShape
  <2>2. \A g \in Remote : handler[g].at \in Working => g[3] \in Layers
    BY RoomAssumption DEF Shapes, HandlerShape, Objects
  <2>3. handler' \in [Remote -> Handler]
    BY <1>2 DEF Shapes, HandlerShape
  <2>4. \A g \in Remote : handler[g].at \in {"added", "attached"}
                             => sim'[handler[g].obj].layers[g[3]] # None
    BY <1>0, <2>2 DEF Shapes, HandlerShape, Working
  <2> QED
    BY <1>2, <2>1, <2>3, <2>4 DEF Shapes, HandlerShape
<1>3. ASSUME NEW h \in Remote, handler' = [handler EXCEPT ![h] = Done] PROVE HandlerShape'
  BY <1>2, <1>3, HandlerMoves DEF Shapes, Working
<1>4. ASSUME NEW h \in Remote, NEW l \in {"fired", "checked", "added", "attached"},
             handler' = [handler EXCEPT ![h].at = l],
             l \in Working <=> handler[h].at \in Working,
             l = "checked" => h \in Plan \cap Local,
             l \in {"added", "attached"} => sim'[handler[h].obj].layers[h[3]] # None
      PROVE  HandlerShape'
  <2> DEFINE r == [handler[h] EXCEPT !.at = l]
  <2>1. r \in Handler /\ r.at = l /\ r.obj = handler[h].obj /\ r.first = handler[h].first
    BY HandlerMoves DEF Shapes
  <2>2. handler' = [handler EXCEPT ![h] = r]
    BY <1>4
  <2> HIDE DEF r
  <2>3. /\ r.at \in Working => h \in Objects /\ r.obj \in Objects /\ r.obj[2] = h[2]
        /\ r.at \notin Working => r.obj = None /\ ~r.first
        /\ r.first => r.obj = h
    BY <1>4, <2>1 DEF Shapes, HandlerShape
  <2>4. /\ r.at = "checked" => h \in Plan \cap Local
        /\ r.at \in {"added", "attached"} => sim'[r.obj].layers[h[3]] # None
    BY <1>4, <2>1
  <2> QED
    BY <1>2, <2>1, <2>2, <2>3, <2>4
<1>5. ASSUME NEW h \in Remote, TrackFires(h) PROVE HandlerShape'
  BY <1>4, <1>5 DEF TrackFires, Goto, Working
<1>6. ASSUME NEW h \in Remote, CheckPlain(h) PROVE HandlerShape'
  BY <1>3, <1>4, <1>6 DEF CheckPlain, Goto, Finish, Working
<1>7. ASSUME NEW h \in Remote, PublishPlain(h) \/ RelayPlain(h) \/ SubscribeFirst(h) \/ RelayAttach(h)
      PROVE  HandlerShape'
  BY <1>3, <1>7 DEF PublishPlain, RelayPlain, SubscribeFirst, RelayAttach, Finish
<1>8. ASSUME NEW h \in Remote, NEW o \in Objects, NEW b \in BOOLEAN, h \in Objects, o[2] = h[2],
             b => o = h, handler' = [handler EXCEPT ![h] = [at |-> "found", obj |-> o, first |-> b]]
      PROVE  HandlerShape'
  <2> DEFINE r == [at |-> "found", obj |-> o, first |-> b]
  <2>1. r \in Handler /\ r.at = "found" /\ r.obj = o /\ r.first = b
    BY DEF Handler
  <2>2. handler' = [handler EXCEPT ![h] = r]
    BY <1>8
  <2> HIDE DEF r
  <2> QED
    BY <1>2, <1>8, <2>1, <2>2 DEF Working
<1>9. ASSUME NEW h \in Remote, FindStream(h) PROVE HandlerShape'
  <2>1. h \in Objects /\ h[2] \in Streams
    BY <1>9 DEF FindStream, Objects
  <2>2. streams[h[2]] # None => streams[h[2]] \in Objects /\ streams[h[2]][2] = h[2]
    BY <2>1 DEF Shapes, TrackShape
  <2> QED
    BY <1>3, <1>8, <1>9, <2>1, <2>2 DEF FindStream, Finish
<1>10. ASSUME NEW h \in Remote, RelayFindStream(h) PROVE HandlerShape'
  <2>1. h \in Objects /\ h[2] \in Streams
    BY <1>10 DEF RelayFindStream, Objects
  <2>2. streams[h[2]] # None => streams[h[2]] \in Objects /\ streams[h[2]][2] = h[2]
    BY <2>1 DEF Shapes, TrackShape
  <2> DEFINE o == IF streams[h[2]] = None THEN h ELSE streams[h[2]]
  <2>3. handler' = [handler EXCEPT ![h] = [at |-> "found", obj |-> o, first |-> streams[h[2]] = None]]
    BY <1>10 DEF RelayFindStream
  <2>4. o \in Objects /\ o[2] = h[2] /\ ((streams[h[2]] = None) => o = h)
    BY <2>1, <2>2
  <2>5. (streams[h[2]] = None) \in BOOLEAN
    OBVIOUS
  <2> QED
    BY <1>8, <2>1, <2>3, <2>4, <2>5
<1>11. ASSUME NEW h \in Remote, AddLayer(h) PROVE HandlerShape'
  <2>1. \/ handler' = [handler EXCEPT ![h] = Done]
        \/ /\ handler' = [handler EXCEPT ![h].at = "added"]
           /\ sim'[handler[h].obj].layers[h[3]] # None
    BY <1>11, SimAdds, RoomAssumption DEF Shapes
  <2>2. handler[h].at \in Working
    BY <1>11 DEF AddLayer, Working
  <2> QED
    BY <1>3, <1>4, <2>1, <2>2 DEF Working
<1>12. ASSUME NEW h \in Remote, AttachLayer(h) PROVE HandlerShape'
  <2>1. /\ handler[h].at = "added" /\ sim' = sim
        /\ handler' = [handler EXCEPT ![h] = Done] \/ handler' = [handler EXCEPT ![h].at = "attached"]
    BY <1>12 DEF AttachLayer, Goto, Finish
  <2>2. sim[handler[h].obj].layers[h[3]] # None
    BY <2>1 DEF Shapes, HandlerShape
  <2> QED
    BY <1>3, <1>4, <2>1, <2>2 DEF Working
<1> QED
  BY <1>1, <1>5, <1>6, <1>7, <1>9, <1>10, <1>11, <1>12, HandlerStays DEF HandlerStep

(* The routers, the streams and the sinks of the room.                     *)
LEMMA TrackStepShape ==
    ASSUME Shapes, [Next]_vars
    PROVE  TrackShape'
<1> DEFINE Maps == /\ tracks' \in [Plain -> Feeds \cup {None}]
                   /\ streams' \in [Streams -> Objects \cup {None}]
                   /\ \A s \in Streams : streams'[s] # None => streams'[s][2] = s
           Watch == observers' \subseteq Observers /\ \A x \in sinks' : x[1] \in Observers
<1> SUFFICES Maps /\ Watch
  BY LayersStep DEF TrackShape
<1>0. /\ tracks \in [Plain -> Feeds \cup {None}]
      /\ streams \in [Streams -> Objects \cup {None}]
      /\ \A s \in Streams : streams[s] # None => streams[s][2] = s
      /\ observers \subseteq Observers /\ \A x \in sinks : x[1] \in Observers
  BY DEF Shapes, TrackShape
<1>1. ASSUME UNCHANGED <<tracks, streams, observers, sinks>> PROVE Maps /\ Watch
  BY <1>0, <1>1
<1>2. ASSUME NEW T, sinks' = AttachAll(T), observers' = observers PROVE Watch
  BY <1>0, <1>2 DEF AttachAll
<1>3. ASSUME NEW m \in Plain, NEW f \in Feeds, AddRouter(m, f) PROVE Maps /\ Watch
  <2>1. Maps
    BY <1>0, <1>3 DEF AddRouter
  <2>2. sinks' = AttachAll({<<m, f>>}) /\ observers' = observers
    BY <1>3 DEF AddRouter
  <2> QED
    BY <1>2, <2>1, <2>2
<1>4. ASSUME NEW u \in Users, RemovePeer(u) PROVE Maps /\ Watch
  <2>1. CASE UNCHANGED room
    BY <1>1, <2>1 DEF room, maps
  <2>2. CASE RemovePresenter(u) /\ UNCHANGED observers
    BY <1>0, <2>2 DEF RemovePresenter
  <2>3. CASE RemoveViewer(u) /\ UNCHANGED observers
    BY <1>1, <2>3 DEF RemoveViewer
  <2> QED
    BY <1>4, <2>1, <2>2, <2>3 DEF RemovePeer
<1>5. CASE RemoveStep
  BY <1>4, <1>5, RemoveStepIs DEF Shapes
<1>6. CASE EndStep \/ UNCHANGED vars \/ \E c \in Conns : OfferAdds(c)
  BY <1>1, <1>6 DEF EndStep, OfferRefused, OfferAnswered, CloseConn, NetworkFails, OfferAdds,
                    vars, room, maps
<1>7. CASE CloseRoom
  BY <1>0, <1>7 DEF CloseRoom
<1>8. CASE CloseTracks
  BY <1>0, <1>8 DEF CloseTracks, maps
<1>9. ASSUME NEW h \in Remote, TrackFires(h) \/ CheckPlain(h) \/ AddLayer(h) PROVE Maps /\ Watch
  BY <1>1, <1>9 DEF TrackFires, CheckPlain, AddLayer, room, maps
<1>10. ASSUME NEW h \in Remote, PublishPlain(h) PROVE Maps /\ Watch
  <2>1. h[1] \in Feeds /\ h[2] \in Plain
    BY <1>10, RoomAssumption DEF PublishPlain, Shapes, HandlerShape, Plan
  <2> QED
    BY <1>1, <1>3, <1>10, <2>1 DEF PublishPlain, room, maps
<1>11. ASSUME NEW h \in Remote, RelayPlain(h) PROVE Maps /\ Watch
  BY <1>3, <1>11 DEF RelayPlain, Plan, Feeds
<1>12. ASSUME NEW h \in Remote, FindStream(h) \/ RelayFindStream(h) PROVE Maps /\ Watch
  <2>1. h \in Objects /\ h[2] \in Streams
    BY <1>12 DEF FindStream, RelayFindStream, Objects
  <2>2. /\ UNCHANGED <<tracks, observers, sinks>>
        /\ streams' = streams \/ streams' = [streams EXCEPT ![h[2]] = h]
                              \/ streams' = [streams EXCEPT ![h[2]] = streams[h[2]]]
    BY <1>12 DEF FindStream, RelayFindStream, room, maps
  <2> QED
    BY <1>0, <2>1, <2>2
<1>13. ASSUME NEW h \in Remote, AttachLayer(h) \/ SubscribeFirst(h) \/ RelayAttach(h)
       PROVE  Maps /\ Watch
  <2>1. UNCHANGED <<tracks, streams, observers>> /\ (sinks' = sinks \/ \E T : sinks' = AttachAll(T))
    BY <1>13 DEF AttachLayer, SubscribeFirst, RelayAttach, maps
  <2> QED
    BY <1>0, <1>2, <2>1
<1>14. ASSUME NEW u \in Users, NEW s \in Streams, NEW q \in Layers, SetSubscriberQuality(u, s, q)
       PROVE  Maps /\ Watch
  BY <1>1, <1>14 DEF SetSubscriberQuality, maps
<1>15. ASSUME NEW x \in Observers, AddObserver(x) \/ RemoveObserver(x) PROVE Maps /\ Watch
  <2>1. UNCHANGED <<tracks, streams>> /\ observers' \subseteq observers \cup {x}
          /\ (sinks' = sinks \/ \E T : sinks' = sinks \cup ({x} \X T))
    BY <1>15 DEF AddObserver, RemoveObserver, maps
  <2> QED
    BY <1>0, <2>1
<1> HIDE DEF Maps, Watch
<1>16. CASE TrackStep
  BY <1>9, <1>10, <1>11, <1>12, <1>13, <1>14, <1>15, <1>16 DEF TrackStep, HandlerStep
<1> QED
  BY <1>5, <1>6, <1>7, <1>8, <1>16, NextIs

(* The senders.                                                            *)
LEMMA SendersAreSubs == Feeds \subseteq Subs /\ \A s \in Streams : StreamSender(s) \subseteq Subs
  BY DEF Subs, StreamSender

LEMMA SenderIs ==
    ASSUME TrackShape, NEW o \in Objects, NEW q \in Layers, sim[o].layers[q] # None
    PROVE  /\ Sender(o, q) \in StreamSender(o[2]) /\ Sender(o, q) \in Subs
           /\ Sender(o, q).obj = o /\ Sender(o, q).layer = q
           /\ Sender(o, q) # None
<1>1. sim[o] \in SimRecord
  BY DEF TrackShape
<1>2. sim[o].layers[q] \in Feeds
  BY <1>1 DEF SimRecord
<1> QED
  BY <1>2, RoomAssumption DEF Sender, StreamSender, Subs

(* A change to some senders of one connection at a time.                   *)
LEMMA SubsMove ==
    ASSUME SubShape, NEW f, subs' = [c \in Conns |-> [m \in Media |-> f[c][m]]],
           \A c \in Conns, m \in Plain : f[c][m] \in Feeds \cup {None},
           \A c \in Conns, s \in Streams : f[c][s] \in StreamSender(s) \cup {None}
    PROVE  SubShape' /\ \A c \in Conns, m \in Media : subs'[c][m] = f[c][m]
<1>1. \A c \in Conns, m \in Media : f[c][m] \in Subs \cup {None}
  BY SendersAreSubs DEF Media
<1>2. subs' \in [Conns -> [Media -> Subs \cup {None}]]
  BY <1>1
<1>3. \A c \in Conns, m \in Media : subs'[c][m] = f[c][m]
  OBVIOUS
<1> QED
  BY <1>2, <1>3 DEF SubShape, Media

LEMMA SubsStep ==
    ASSUME Shapes, [Next]_vars
    PROVE  SubShape'
<1>0. SubShape /\ subs = [c \in Conns |-> [m \in Media |-> subs[c][m]]]
  BY DEF Shapes, SubShape
<1>1. CASE UNCHANGED subs
  BY <1>0, <1>1 DEF SubShape
<1>2. ASSUME NEW f, subs' = [c \in Conns |-> [m \in Media |-> f[c][m]]],
             \A c \in Conns, m \in Media :
                \/ f[c][m] = None \/ f[c][m] = subs[c][m]
                \/ m \in Plain /\ f[c][m] \in Feeds
                \/ m \in Streams /\ f[c][m] \in StreamSender(m)
      PROVE  SubShape'
  <2>1. \A c \in Conns, m \in Plain : f[c][m] \in Feeds \cup {None}
    BY <1>0, <1>2, RoomAssumption DEF SubShape, Media
  <2>2. \A c \in Conns, s \in Streams : f[c][s] \in StreamSender(s) \cup {None}
    BY <1>0, <1>2, RoomAssumption DEF SubShape, Media
  <2> QED
    BY <1>0, <1>2, <2>1, <2>2, SubsMove
<1>3. ASSUME NEW c \in Conns, NEW m \in Media, NEW x, subs' = [subs EXCEPT ![c][m] = x],
             \/ m \in Plain /\ x \in Feeds
             \/ m \in Streams /\ x \in StreamSender(m)
      PROVE  SubShape'
  <2> DEFINE f == [d \in Conns |-> [n \in Media |-> IF d = c /\ n = m THEN x ELSE subs[d][n]]]
  <2>1. subs' = [d \in Conns |-> [n \in Media |-> f[d][n]]]
    BY <1>0, <1>3
  <2>2. \A d \in Conns, n \in Media : f[d][n] = IF d = c /\ n = m THEN x ELSE subs[d][n]
    OBVIOUS
  <2> HIDE DEF f
  <2>3. \A d \in Conns, n \in Media :
          \/ f[d][n] = None \/ f[d][n] = subs[d][n]
          \/ n \in Plain /\ f[d][n] \in Feeds
          \/ n \in Streams /\ f[d][n] \in StreamSender(n)
    BY <1>3, <2>2
  <2> QED
    BY <1>2, <2>1, <2>3
<1>4. ASSUME NEW A, NEW m \in Media, NEW x,
             subs' = [c \in Conns |-> IF c \in A THEN [subs[c] EXCEPT ![m] = x] ELSE subs[c]],
             \/ m \in Plain /\ x \in Feeds
             \/ m \in Streams /\ x \in StreamSender(m)
      PROVE  SubShape'
  <2> DEFINE f == [d \in Conns |-> [n \in Media |-> IF d \in A /\ n = m THEN x ELSE subs[d][n]]]
  <2>1. subs' = [d \in Conns |-> [n \in Media |-> f[d][n]]]
    BY <1>0, <1>4
  <2>2. \A d \in Conns, n \in Media : f[d][n] = IF d \in A /\ n = m THEN x ELSE subs[d][n]
    OBVIOUS
  <2> HIDE DEF f
  <2>3. \A d \in Conns, n \in Media :
          \/ f[d][n] = None \/ f[d][n] = subs[d][n]
          \/ n \in Plain /\ f[d][n] \in Feeds
          \/ n \in Streams /\ f[d][n] \in StreamSender(n)
    BY <1>4, <2>2
  <2> QED
    BY <1>2, <2>1, <2>3
<1>5. ASSUME NEW m \in Plain, NEW feed \in Feeds, AddRouter(m, feed) PROVE SubShape'
  <2> DEFINE A == {c \in Conns : c \in Audience(Src[m]) /\ subs[c][m] = None}
  <2>1. subs' = [c \in Conns |-> IF c \in A THEN [subs[c] EXCEPT ![m] = feed] ELSE subs[c]]
    BY <1>5 DEF AddRouter
  <2> HIDE DEF A
  <2> QED
    BY <1>4, <2>1 DEF Media
<1>6. ASSUME NEW o \in Objects, NEW q \in Layers, sim[o].layers[q] # None, SubscribeAll(o, q)
      PROVE  SubShape'
  <2>1. o[2] \in Streams /\ o[2] \in Media /\ Sender(o, q) \in StreamSender(o[2])
    BY <1>6, SenderIs DEF Objects, Media, Shapes
  <2> QED
    BY <1>4, <1>6, <2>1 DEF SubscribeAll
<1>7. ASSUME NEW u \in Users, RemovePeer(u) PROVE SubShape'
  <2>1. CASE RemovePresenter(u)
    <3> DEFINE f == [c \in Conns |-> [m \in Media |->
                       IF m \in Published(u) /\ c \in InRoom \ {presenters[u]} THEN None
                       ELSE subs[c][m]]]
    <3>1. subs' = [c \in Conns |-> [m \in Media |-> f[c][m]]]
      BY <2>1 DEF RemovePresenter
    <3>2. \A c \in Conns, m \in Media : f[c][m] = None \/ f[c][m] = subs[c][m]
      OBVIOUS
    <3> HIDE DEF f
    <3> QED
      BY <1>2, <3>1, <3>2
  <2> QED
    BY <1>1, <1>7, <2>1 DEF RemovePeer, RemoveViewer, room
<1>8. ASSUME NEW c \in Conns, OfferAdds(c) PROVE SubShape'
  <2> DEFINE f == [d \in Conns |-> [m \in Media |-> IF d = c THEN JoinSubs(c)[m] ELSE subs[d][m]]]
  <2>1. subs' = [d \in Conns |-> [m \in Media |-> f[d][m]]]
    BY <1>0, <1>8 DEF OfferAdds, JoinSubs
  <2>2. \A d \in Conns, m \in Media : f[d][m] = IF d = c THEN JoinSubs(c)[m] ELSE subs[d][m]
    OBVIOUS
  <2>3. \A m \in Plain : JoinSubs(c)[m] \in Feeds \cup {None}
    BY DEF JoinSubs, Media, Shapes, TrackShape
  <2>4. \A s \in Streams : JoinSubs(c)[s] \in StreamSender(s) \cup {None}
    <3> SUFFICES ASSUME NEW s \in Streams, JoinSubs(c)[s] # None
                 PROVE  JoinSubs(c)[s] \in StreamSender(s)
        OBVIOUS
    <3> DEFINE o == streams[s]
               q == JoinLayer(c, streams[s])
    <3>1. s \notin Plain /\ s \in Media
      BY RoomAssumption DEF Media
    <3>2. o # None /\ Has(o, q) /\ JoinSubs(c)[s] = Sender(o, q)
      BY <3>1 DEF JoinSubs
    <3>3. o \in Objects /\ o[2] = s /\ q \in Layers /\ sim[o].layers[q] # None
      BY <3>2 DEF Shapes, TrackShape, Has
    <3> QED
      BY <3>2, <3>3, SenderIs DEF Shapes
  <2> HIDE DEF f
  <2> QED
    BY <1>2, <2>1, <2>2, <2>3, <2>4 DEF Media
<1>9. ASSUME NEW c \in Conns, CloseConn(c) PROVE SubShape'
  <2> DEFINE f == [d \in Conns |-> [m \in Media |-> IF d = c THEN None ELSE subs[d][m]]]
  <2>1. subs' = [d \in Conns |-> [m \in Media |-> f[d][m]]]
    BY <1>0, <1>9 DEF CloseConn
  <2>2. \A d \in Conns, m \in Media : f[d][m] = None \/ f[d][m] = subs[d][m]
    OBVIOUS
  <2> HIDE DEF f
  <2> QED
    BY <1>2, <2>1, <2>2
<1>10. ASSUME NEW h \in Remote, PublishPlain(h) \/ RelayPlain(h) PROVE SubShape'
  <2>1. h[1] \in Feeds /\ h[2] \in Plain /\ Relay \in Feeds
    BY <1>10, RoomAssumption DEF PublishPlain, RelayPlain, Shapes, HandlerShape, Plan, Feeds
  <2> QED
    BY <1>1, <1>5, <1>10, <2>1 DEF PublishPlain, RelayPlain, room
<1>11. ASSUME NEW h \in Remote, SubscribeFirst(h) \/ RelayAttach(h) PROVE SubShape'
  <2>1. /\ handler[h].obj \in Objects /\ h[3] \in Layers
        /\ sim[handler[h].obj].layers[h[3]] # None
    BY <1>11, RoomAssumption DEF SubscribeFirst, RelayAttach, Shapes, HandlerShape, Working, Objects
  <2> QED
    BY <1>1, <1>6, <1>11, <2>1 DEF SubscribeFirst, RelayAttach
<1>12. ASSUME NEW u \in Users, NEW s \in Streams, NEW q \in Layers, SetSubscriberQuality(u, s, q)
       PROVE  SubShape'
  <2> DEFINE o == streams[s]
             actual == BestLayer(o, q)
  <2>1. /\ o \in Objects /\ o[2] = s /\ actual \in Layers /\ sim[o].layers[actual] # None
        /\ Peer(u) # None /\ subs' = [subs EXCEPT ![Peer(u)][s] = Sender(o, actual)]
    BY <1>12 DEF SetSubscriberQuality, Has, Shapes, TrackShape
  <2>2. Peer(u) \in Conns /\ s \in Media /\ Sender(o, actual) \in StreamSender(s)
    BY <2>1, SenderIs DEF Peer, Shapes, MemberShape, Media
  <2> HIDE DEF o, actual
  <2> QED
    BY <1>3, <2>1, <2>2
<1>13. CASE TrackStep
  <2>1. ASSUME NEW h \in Remote,
               \/ TrackFires(h) \/ RelayFindStream(h) \/ CheckPlain(h) \/ FindStream(h)
               \/ AddLayer(h) \/ AttachLayer(h)
        PROVE  UNCHANGED subs
    BY <2>1 DEF TrackFires, RelayFindStream, CheckPlain, FindStream, AddLayer, AttachLayer, room
  <2>2. ASSUME NEW x \in Observers, AddObserver(x) \/ RemoveObserver(x) PROVE UNCHANGED subs
    BY <2>2 DEF AddObserver, RemoveObserver
  <2> QED
    BY <1>1, <1>10, <1>11, <1>12, <1>13, <2>1, <2>2 DEF TrackStep, HandlerStep
<1>14. CASE RemoveStep
  BY <1>7, <1>14, RemoveStepIs DEF Shapes
<1>15. CASE EndStep
  BY <1>1, <1>9, <1>15 DEF EndStep, OfferRefused, OfferAnswered, NetworkFails, room
<1>16. CASE CloseRoom \/ CloseTracks \/ UNCHANGED vars
  BY <1>1, <1>16 DEF CloseRoom, CloseTracks, vars, room
<1> QED
  BY <1>8, <1>13, <1>14, <1>15, <1>16, NextIs

LEMMA ShapesStep == ASSUME Shapes, ConnInv, [Next]_vars PROVE Shapes' /\ ConnInv'
  BY MemberStep, ConnStep, TrackStepShape, SubsStep, HandlerStepShape, LayersStep DEF Shapes

LEMMA RoomAlways == Spec => [](Shapes /\ ConnInv)
<1>1. Init => Shapes /\ ConnInv
  BY ShapesInit, ConnInit
<1>2. Shapes /\ ConnInv /\ [Next]_vars => Shapes' /\ ConnInv'
  BY ShapesStep
<1> QED
  BY <1>1, <1>2, PTL DEF Spec

(* Type correctness, whatever offers, media, failures and moves come up in *)
(* a behaviour, and in whatever order their goroutines take the lock.      *)
THEOREM TypeCorrect == Spec => []TypeOK
<1>1. Shapes => TypeOK
  BY ShapesAreTypes
<1> QED
  BY <1>1, RoomAlways, PTL

(* No peer connection is lost: every open one is in the room, or the one   *)
(* goroutine that has to add or to close it still holds it.                *)
THEOREM NoOrphanConnectionAlways == Spec => []NoOrphanConnection
<1>1. ConnInv => NoOrphanConnection
  BY DEF ConnInv
<1> QED
  BY <1>1, RoomAlways, PTL

-----------------------------------------------------------------------------
(* What each step does to the members, the media and the senders, told     *)
(* value by value: the form the proofs below use.                          *)
SimSays(o, layers, closes) ==
    /\ \A q \in Layers : sim'[o].layers[q] = layers[q]
    /\ sim'[o].closed <=> sim[o].closed \/ closes

(* A participant has left, and what it published is gone with it.          *)
Removed(u, gone) ==
    /\ Peer(u) \in InRoom /\ InRoom' = InRoom \ {Peer(u)} /\ observers' = observers
    /\ \A m \in Plain : tracks'[m] = IF m \in gone THEN None ELSE tracks[m]
    /\ \A s \in Streams : streams'[s] = IF s \in gone THEN None ELSE streams[s]
    /\ \A o \in Objects :
          /\ SimSays(o, sim[o].layers, \E s \in gone \cap Streams : streams[s] = o)
          /\ \A v \in Users \ {u} : sim'[o].subscribers[v] = sim[o].subscribers[v]
    /\ \A c \in Conns, m \in Media : subs'[c][m] = subs[c][m] \/ subs'[c][m] = None
    /\ \A c \in InRoom', m \in Media : subs'[c][m] = IF m \in gone THEN None ELSE subs[c][m]
    /\ \A x \in sinks : \/ x \in sinks'
                        \/ \E m \in gone \cap Plain : x[2] = TrackOf(m)
                        \/ \E s \in gone \cap Streams : x[2] \in LayerTracks(streams[s])

(* A new peer c has joined.                                                *)
Joined(c) ==
    /\ InRoom' = InRoom \cup {c} /\ \A d \in InRoom : Owner[d] # Owner[c]
    /\ UNCHANGED <<tracks, streams, observers, sinks>>
    /\ \A d \in Conns, m \in Media :
          subs'[d][m] = IF d = c THEN JoinSubs(c)[m] ELSE subs[d][m]
    /\ \A o \in Objects :
          /\ SimSays(o, sim[o].layers, FALSE)
          /\ \A v \in Users \ {Owner[c]} : sim'[o].subscribers[v] = sim[o].subscribers[v]
    /\ \A s \in Streams : JoinSubs(c)[s] # None =>
          /\ streams[s] # None /\ JoinSubs(c)[s] = Sender(streams[s], JoinLayer(c, streams[s]))
          /\ JoinLayer(c, streams[s]) \in Layers
          /\ sim[streams[s]].layers[JoinLayer(c, streams[s])] # None
          /\ sim'[streams[s]].subscribers[Owner[c]] = JoinLayer(c, streams[s])

(* The audience of an object has been given a layer of it.                 *)
Subscribed(o, q) ==
    /\ \A c \in Conns, m \in Media :
          subs'[c][m] = IF m = o[2] /\ c \in InRoom /\ ~Skips(c, m) THEN Sender(o, q)
                        ELSE subs[c][m]
    /\ \A p \in Objects :
          /\ SimSays(p, sim[p].layers, FALSE)
          /\ \A u \in Users :
                sim'[p].subscribers[u] =
                    IF p = o /\ \E c \in InRoom : ~Skips(c, o[2]) /\ Owner[c] = u THEN q
                    ELSE sim[p].subscribers[u]

(* Connection c, and no other, sends layer q of the stream s now.          *)
Chosen(c, s, q) ==
    /\ \A d \in Conns, m \in Media :
          subs'[d][m] = IF d = c /\ m = s THEN Sender(streams[s], q) ELSE subs[d][m]
    /\ \A p \in Objects :
          /\ SimSays(p, sim[p].layers, FALSE)
          /\ \A u \in Users : sim'[p].subscribers[u] =
                IF p = streams[s] /\ u = Owner[c] THEN q ELSE sim[p].subscribers[u]

Moved(h, r) == \A g \in Remote : handler'[g] = IF g = h THEN r ELSE handler[g]

LEMMA MovedIs ==
    ASSUME HandlerShape, NEW h \in Remote
    PROVE  /\ \A r : handler' = [handler EXCEPT ![h] = r] => Moved(h, r)
           /\ \A l : handler' = [handler EXCEPT ![h].at = l]
                        => Moved(h, [handler[h] EXCEPT !.at = l])
  BY DEF HandlerShape, Moved

LEMMA RemovedIs ==
    ASSUME Shapes, NEW u \in Users, RemovePeer(u)
    PROVE  \/ UNCHANGED room /\ InRoom' = InRoom
           \/ ~closed /\ \E gone : Removed(u, gone)
<1>0. /\ \A o \in Objects : sim[o] \in SimRecord
      /\ \A s \in Streams : streams[s] # None => streams[s] \in Objects
      /\ subs = [c \in Conns |-> [m \in Media |-> subs[c][m]]]
      /\ \A o \in Objects : o # None
  BY RoomAssumption DEF Shapes, TrackShape, SubShape
<1>1. \/ UNCHANGED room /\ InRoom' = InRoom
      \/ ~closed /\ Peer(u) \in InRoom /\ InRoom' = InRoom \ {Peer(u)}
  BY RemoveMembers DEF Shapes
<1>2. ASSUME Peer(u) \in InRoom, InRoom' = InRoom \ {Peer(u)}, observers' = observers,
             u \in Presenting, RemovePresenter(u)
      PROVE  Removed(u, Published(u))
  <2> DEFINE gone == Published(u)
             objs == {streams[s] : s \in gone \cap Streams}
             new(o) == IF o \in objs THEN [sim[o] EXCEPT !.closed = TRUE] ELSE sim[o]
  <2>1. /\ \A m \in Plain : tracks'[m] = IF m \in gone THEN None ELSE tracks[m]
        /\ \A s \in Streams : streams'[s] = IF s \in gone THEN None ELSE streams[s]
    BY <1>2 DEF RemovePresenter
  <2>2. \A o \in Objects : /\ new(o).layers = sim[o].layers
                           /\ new(o).closed <=> sim[o].closed \/ o \in objs
                           /\ new(o).subscribers = sim[o].subscribers
    BY <1>0, SimClosed
  <2>3. sim' = [o \in Objects |-> new(o)]
    BY <1>2 DEF RemovePresenter
  <2> HIDE DEF new
  <2>4. \A o \in Objects : /\ SimSays(o, sim[o].layers, \E s \in gone \cap Streams : streams[s] = o)
                           /\ sim'[o].subscribers = sim[o].subscribers
    BY <2>2, <2>3 DEF SimSays
  <2>5. \A c \in Conns, m \in Media : subs'[c][m] =
           IF m \in gone /\ c \in InRoom \ {presenters[u]} THEN None ELSE subs[c][m]
    BY <1>2 DEF RemovePresenter
  <2>6. Peer(u) = presenters[u]
    BY <1>2 DEF Peer, Presenting
  <2>7. InRoom' \subseteq Conns
    BY <1>2, InRoomIs DEF RoomIsSeats, Shapes
  <2>8. sinks' = sinks \ SinksOf({TrackOf(m) : m \in gone \cap Plain}
                                    \cup UNION {LayerTracks(o) : o \in objs})
    BY <1>2 DEF RemovePresenter
  <2>9. \A x \in sinks : \/ x \in sinks'
                         \/ \E m \in gone \cap Plain : x[2] = TrackOf(m)
                         \/ \E s \in gone \cap Streams : x[2] \in LayerTracks(streams[s])
    BY <2>8 DEF SinksOf
  <2> HIDE DEF gone
  <2>10. \A c \in Conns, m \in Media : subs'[c][m] = subs[c][m] \/ subs'[c][m] = None
    BY <2>5
  <2>11. \A c \in InRoom', m \in Media : subs'[c][m] = IF m \in gone THEN None ELSE subs[c][m]
    BY <1>2, <2>5, <2>6, <2>7
  <2>12. Removed(u, gone)
    BY <1>2, <2>1, <2>4, <2>9, <2>10, <2>11 DEF Removed
  <2> QED
    BY <2>12 DEF gone
<1>3. ASSUME Peer(u) \in InRoom, InRoom' = InRoom \ {Peer(u)}, observers' = observers,
             RemoveViewer(u)
      PROVE  Removed(u, {})
  <2> DEFINE new(o) == IF \E s \in Streams : streams[s] = o
                       THEN [sim[o] EXCEPT !.subscribers[u] = None] ELSE sim[o]
  <2>1. \A o \in Objects : /\ new(o).layers = sim[o].layers /\ new(o).closed = sim[o].closed
                           /\ \A v \in Users \ {u} :
                                 new(o).subscribers[v] = sim[o].subscribers[v]
    BY <1>0, SimRecords
  <2>2. sim' = [o \in Objects |-> new(o)] /\ UNCHANGED <<tracks, streams, sinks, subs>>
    BY <1>3 DEF RemoveViewer
  <2> HIDE DEF new
  <2> QED
    BY <1>3, <2>1, <2>2 DEF Removed, SimSays
<1>4. CASE UNCHANGED <<room, closing>>
  <2>1. UNCHANGED <<closed, presenters, viewers>> /\ UNCHANGED room
    BY <1>4 DEF room, maps
  <2> QED
    BY <2>1, MembersKept DEF Shapes
<1>5. CASE /\ ~closed /\ Peer(u) # None
           /\ closing' = closing \cup {Peer(u)}
           /\ IF u \in Presenting THEN RemovePresenter(u) ELSE RemoveViewer(u)
           /\ UNCHANGED <<closed, observers>>
  <2>1. ASSUME ~closed, Peer(u) \in InRoom, InRoom' = InRoom \ {Peer(u)}
        PROVE  \E gone : Removed(u, gone)
    <3>1. CASE u \in Presenting
      BY <1>2, <1>5, <2>1, <3>1
    <3>2. CASE u \notin Presenting
      BY <1>3, <1>5, <2>1, <3>2
    <3> QED
      BY <3>1, <3>2
  <2> QED
    BY <1>1, <2>1
<1> QED
  BY <1>4, <1>5 DEF RemovePeer

LEMMA JoinedIs ==
    ASSUME Shapes, NEW c \in Conns, OfferAdds(c)
    PROVE  Joined(c)
<1> DEFINE new(o) == IF \E s \in Streams : streams[s] = o /\ JoinSubs(c)[s] # None
                     THEN [sim[o] EXCEPT !.subscribers[Owner[c]] = JoinLayer(c, o)] ELSE sim[o]
<1>0. /\ \A o \in Objects : sim[o] \in SimRecord
      /\ \A s \in Streams : streams[s] # None => streams[s] \in Objects
      /\ subs = [d \in Conns |-> [m \in Media |-> subs[d][m]]]
      /\ Owner[c] \in Users
  BY RoomAssumption DEF Shapes, TrackShape, SubShape
<1>1. sim' = [o \in Objects |-> new(o)]
  BY DEF OfferAdds, JoinRecords
<1>2. ASSUME NEW s \in Streams, JoinSubs(c)[s] # None
      PROVE  /\ streams[s] # None /\ JoinSubs(c)[s] = Sender(streams[s], JoinLayer(c, streams[s]))
             /\ JoinLayer(c, streams[s]) \in Layers
             /\ sim[streams[s]].layers[JoinLayer(c, streams[s])] # None
  <2>1. s \notin Plain /\ s \in Media
    BY RoomAssumption DEF Media
  <2> QED
    BY <1>2, <2>1 DEF JoinSubs, Has
<1>3. \A o \in Objects :
          /\ new(o).layers = sim[o].layers /\ new(o).closed = sim[o].closed
          /\ \A v \in Users \ {Owner[c]} : new(o).subscribers[v] = sim[o].subscribers[v]
          /\ (\E s \in Streams : streams[s] = o /\ JoinSubs(c)[s] # None)
                => new(o).subscribers[Owner[c]] = JoinLayer(c, o)
  <2> SUFFICES ASSUME NEW o \in Objects
               PROVE  /\ new(o).layers = sim[o].layers /\ new(o).closed = sim[o].closed
                      /\ \A v \in Users \ {Owner[c]} : new(o).subscribers[v] = sim[o].subscribers[v]
                      /\ (\E s \in Streams : streams[s] = o /\ JoinSubs(c)[s] # None)
                            => new(o).subscribers[Owner[c]] = JoinLayer(c, o)
      OBVIOUS
  <2>1. CASE \E s \in Streams : streams[s] = o /\ JoinSubs(c)[s] # None
    <3> DEFINE l == JoinLayer(c, o)
    <3>1. l \in Layers
      BY <1>2, <2>1
    <3>2. new(o) = [sim[o] EXCEPT !.subscribers[Owner[c]] = l]
      BY <2>1
    <3> HIDE DEF l, new
    <3>3. /\ new(o).layers = sim[o].layers /\ new(o).closed = sim[o].closed
          /\ \A v \in Users : new(o).subscribers[v] = IF v = Owner[c] THEN l ELSE sim[o].subscribers[v]
      BY <1>0, <3>1, <3>2, SimRecords
    <3> QED
      BY <1>0, <3>3 DEF l
  <2>2. CASE ~\E s \in Streams : streams[s] = o /\ JoinSubs(c)[s] # None
    BY <2>2
  <2> QED
    BY <2>1, <2>2
<1> HIDE DEF new
<1>4. /\ \A o \in Objects :
            /\ SimSays(o, sim[o].layers, FALSE)
            /\ \A v \in Users \ {Owner[c]} : sim'[o].subscribers[v] = sim[o].subscribers[v]
      /\ \A s \in Streams : JoinSubs(c)[s] # None =>
            sim'[streams[s]].subscribers[Owner[c]] = JoinLayer(c, streams[s])
  BY <1>0, <1>1, <1>2, <1>3 DEF SimSays
<1>5. \A d \in Conns, m \in Media :
          subs'[d][m] = IF d = c THEN JoinSubs(c)[m] ELSE subs[d][m]
  BY <1>0 DEF OfferAdds
<1>6. UNCHANGED <<tracks, streams, observers, sinks>>
  BY DEF OfferAdds
<1>7. InRoom' = InRoom \cup {c} /\ \A d \in InRoom : Owner[d] # Owner[c]
  BY AddMembers DEF Shapes
<1> QED
  BY <1>2, <1>4, <1>5, <1>6, <1>7 DEF Joined

LEMMA SubscribedIs ==
    ASSUME Shapes, NEW o \in Objects, NEW q \in Layers, SubscribeAll(o, q)
    PROVE  Subscribed(o, q)
<1> DEFINE f == [u \in Users |-> IF \E c \in Audience(Src[o[2]]) : Owner[c] = u
                                 THEN q ELSE sim[o].subscribers[u]]
           new == [sim[o] EXCEPT !.subscribers = f]
<1>0. /\ sim \in [Objects -> SimRecord]
      /\ subs = [d \in Conns |-> [m \in Media |-> subs[d][m]]]
      /\ o[2] \in Media
  BY DEF Shapes, TrackShape, SubShape, Objects, Media
<1>1. \A c : c \in Audience(Src[o[2]]) <=> c \in InRoom /\ ~Skips(c, o[2])
  BY AudienceIs DEF Shapes
<1>2. \A c \in Conns, m \in Media :
          subs'[c][m] = IF m = o[2] /\ c \in InRoom /\ ~Skips(c, m) THEN Sender(o, q)
                        ELSE subs[c][m]
  BY <1>0, <1>1 DEF SubscribeAll
<1>3. \A u \in Users : f[u] = IF \E c \in InRoom : ~Skips(c, o[2]) /\ Owner[c] = u THEN q
                              ELSE sim[o].subscribers[u]
  BY <1>1
<1>4. f \in [Users -> Layers \cup {None}]
  BY <1>0 DEF SimRecord
<1>5. sim' = [sim EXCEPT ![o] = new]
  BY <1>0 DEF SubscribeAll
<1> HIDE DEF f
<1>6. new.layers = sim[o].layers /\ new.closed = sim[o].closed /\ new.subscribers = f
  BY <1>0, <1>4, SimSubscribed
<1> HIDE DEF new
<1>7. \A p \in Objects :
          /\ sim'[p].layers = sim[p].layers /\ sim'[p].closed = sim[p].closed
          /\ sim'[p].subscribers = IF p = o THEN f ELSE sim[p].subscribers
  BY <1>0, <1>5, <1>6
<1> QED
  BY <1>2, <1>3, <1>7 DEF Subscribed, SimSays

LEMMA ChosenIs ==
    ASSUME Shapes, NEW u \in Users, NEW s \in Streams, NEW q \in Layers,
           SetSubscriberQuality(u, s, q)
    PROVE  \E l \in Layers : /\ Peer(u) \in InRoom /\ streams[s] # None
                             /\ sim[streams[s]].layers[l] # None
                             /\ Chosen(Peer(u), s, l)
<1> DEFINE o == streams[s]
           l == BestLayer(o, q)
           new == [sim[o] EXCEPT !.subscribers[u] = l]
<1>1. /\ o # None /\ Peer(u) # None /\ l \in Layers /\ sim[o].layers[l] # None
      /\ subs' = [subs EXCEPT ![Peer(u)][s] = Sender(o, l)]
      /\ sim' = [sim EXCEPT ![o] = new]
  BY DEF SetSubscriberQuality, Has
<1>2. /\ o \in Objects /\ sim \in [Objects -> SimRecord]
      /\ subs = [d \in Conns |-> [m \in Media |-> subs[d][m]]]
      /\ Peer(u) \in InRoom /\ Peer(u) \in Conns /\ Owner[Peer(u)] = u /\ s \in Media
  <2>1. Peer(u) \in InRoom /\ Owner[Peer(u)] = u /\ InRoom \subseteq Conns
    BY <1>1, PeerIs, InRoomIs DEF RoomIsSeats, Shapes
  <2> QED
    BY <1>1, <2>1 DEF Shapes, TrackShape, SubShape, Media
<1>3. \A d \in Conns, m \in Media :
          subs'[d][m] = IF d = Peer(u) /\ m = s THEN Sender(o, l) ELSE subs[d][m]
  BY <1>1, <1>2
<1>4. /\ new.layers = sim[o].layers /\ new.closed = sim[o].closed
      /\ \A v \in Users : new.subscribers[v] = IF v = u THEN l ELSE sim[o].subscribers[v]
  BY <1>1, <1>2, SimRecords
<1> HIDE DEF new, l
<1>5. \A p \in Objects :
          /\ SimSays(p, sim[p].layers, FALSE)
          /\ \A v \in Users : sim'[p].subscribers[v] =
                IF p = o /\ v = u THEN l ELSE sim[p].subscribers[v]
  BY <1>1, <1>2, <1>4 DEF SimSays
<1>6. Chosen(Peer(u), s, l)
  BY <1>2, <1>3, <1>5 DEF Chosen
<1> QED
  BY <1>1, <1>2, <1>6

(* Nothing of the media changes, and nobody comes or goes.                 *)
MapsKept == UNCHANGED <<closed, tracks, streams, observers>> /\ InRoom' = InRoom

Quiet ==
    /\ MapsKept /\ UNCHANGED <<sim, sinks>>
    /\ \A c \in Conns, m \in Media : subs'[c][m] = subs[c][m] \/ subs'[c][m] = None
    /\ \A c \in InRoom, m \in Media : subs'[c][m] = subs[c][m]

(* The steps of a handler.                                                 *)
Waited(h) ==
    /\ Quiet /\ handler[h].at \in {"idle", "fired", "checked"}
    /\ \E r \in Handler : /\ Moved(h, r) /\ r.at \in {"fired", "checked", "done"}
                          /\ r.at = "fired" => handler[h].at = "idle"
                          /\ r.obj = None

GaveUp(h) ==
    /\ Quiet /\ handler[h].at = "found" /\ sim[handler[h].obj].closed
    /\ Moved(h, Done)

Routed(h) ==
    /\ handler[h].at \notin Working /\ Moved(h, Done)
    /\ h[1] \in Feeds /\ h[2] \in Plain
    /\ UNCHANGED <<closed, streams, sim, observers>> /\ InRoom' = InRoom
    /\ \A m \in Plain : tracks'[m] = IF m = h[2] THEN h[1] ELSE tracks[m]
    /\ sinks' = AttachAll({<<h[2], h[1]>>})
    /\ \A c \in Conns, m \in Media :
          subs'[c][m] = IF m = h[2] /\ c \in InRoom /\ ~Skips(c, m) /\ subs[c][m] = None
                        THEN h[1] ELSE subs[c][m]

Found(h) ==
    LET s == h[2]
        o == IF streams[s] = None THEN h ELSE streams[s] IN
    /\ h \in Objects /\ handler[h].at \in {"idle", "fired"}
    /\ UNCHANGED <<closed, tracks, sim, observers, sinks, subs>> /\ InRoom' = InRoom
    /\ \A t \in Streams : streams'[t] = IF t = s THEN o ELSE streams[t]
    /\ Moved(h, [at |-> "found", obj |-> o, first |-> streams[s] = None])

Layered(h) ==
    /\ handler[h].at = "found" /\ ~sim[handler[h].obj].closed
    /\ MapsKept /\ UNCHANGED <<sinks, subs>>
    /\ \A o \in Objects :
          /\ SimSays(o, [q \in Layers |-> IF o = handler[h].obj /\ q = h[3] THEN h[1]
                                          ELSE sim[o].layers[q]], FALSE)
          /\ sim'[o].subscribers = sim[o].subscribers
    /\ \E r \in Handler : /\ Moved(h, r) /\ r.at = "added"
                          /\ r.obj = handler[h].obj /\ r.first = handler[h].first

Attached(h) ==
    LET o == handler[h].obj IN
    /\ handler[h].at = "added"
    /\ MapsKept /\ sinks' = AttachAll({<<o, h[3], sim[o].layers[h[3]]>>})
    /\ \/ /\ ~handler[h].first /\ Moved(h, Done)
          /\ UNCHANGED <<sim, subs>>
       \/ /\ UNCHANGED <<sim, subs>>
          /\ \E r \in Handler : /\ Moved(h, r) /\ r.at = "attached"
                                /\ r.obj = o /\ r.first = handler[h].first
       \/ Subscribed(o, h[3]) /\ Moved(h, Done)

Offered(h) ==
    /\ handler[h].at = "attached"
    /\ MapsKept /\ UNCHANGED sinks
    /\ Subscribed(handler[h].obj, h[3]) /\ Moved(h, Done)

HandlerEffect(h) ==
    \/ Waited(h) \/ GaveUp(h) \/ Routed(h) \/ Found(h) \/ Layered(h) \/ Attached(h)
    \/ Offered(h)

LEMMA QuietIs ==
    ASSUME MemberShape, UNCHANGED room
    PROVE  Quiet
  BY MembersKept DEF Quiet, MapsKept, room, maps

(* A new router, whoever's it is.                                          *)
LEMMA RoutedIs ==
    ASSUME Shapes, NEW h \in Remote, AddRouter(h[2], h[1]), Finish(h),
           handler[h].at \notin Working, h \in Plan
    PROVE  Routed(h)
<1>1. Moved(h, Done)
  BY MovedIs DEF Finish, Shapes
<1>2. h[1] \in Feeds /\ h[2] \in Plain /\ h[2] \in Media
  BY RoomAssumption DEF Plan
<1>3. /\ \A c : c \in Audience(Src[h[2]]) <=> c \in InRoom /\ ~Skips(c, h[2])
      /\ InRoom' = InRoom
  BY AudienceIs, MembersKept DEF AddRouter, Shapes
<1>4. /\ \A m \in Plain : tracks'[m] = IF m = h[2] THEN h[1] ELSE tracks[m]
      /\ sinks' = AttachAll({<<h[2], h[1]>>})
      /\ UNCHANGED <<closed, streams, sim, observers>>
  BY <1>2 DEF AddRouter, Shapes, TrackShape
<1>5. \A c \in Conns, m \in Media :
          subs'[c][m] = IF m = h[2] /\ c \in InRoom /\ ~Skips(c, m) /\ subs[c][m] = None
                        THEN h[1] ELSE subs[c][m]
  BY <1>2, <1>3 DEF AddRouter, Shapes, SubShape
<1> QED
  BY <1>1, <1>2, <1>3, <1>4, <1>5 DEF Routed

LEMMA FoundIs ==
    ASSUME Shapes, NEW h \in Remote, FindStream(h) \/ RelayFindStream(h)
    PROVE  Waited(h) \/ Found(h)
<1>1. UNCHANGED <<closed, presenters, viewers, tracks, sim, observers, sinks, subs>>
        /\ h \in Objects /\ handler[h].at \in {"idle", "fired"}
  BY DEF FindStream, RelayFindStream, room, maps
<1>2. InRoom' = InRoom /\ h[2] \in Streams
  BY <1>1, MembersKept DEF Shapes, Objects
<1> DEFINE o == IF streams[h[2]] = None THEN h ELSE streams[h[2]]
           r == [at |-> "found", obj |-> o, first |-> streams[h[2]] = None]
<1>3. ASSUME streams' = streams \/ streams' = [streams EXCEPT ![h[2]] = o],
             streams' = streams => streams[h[2]] # None,
             handler' = [handler EXCEPT ![h] = r]
      PROVE  Found(h)
  <2>1. Moved(h, r)
    BY <1>3, MovedIs DEF Shapes
  <2>2. \A t \in Streams : streams'[t] = IF t = h[2] THEN o ELSE streams[t]
    BY <1>2, <1>3 DEF Shapes, TrackShape
  <2> HIDE DEF o
  <2> QED
    BY <1>1, <1>2, <2>1, <2>2 DEF Found, o
<1>4. CASE UNCHANGED room /\ Finish(h)
  <2>1. Moved(h, Done) /\ Done \in Handler /\ Done.at = "done" /\ Done.obj = None
    BY <1>4, MovedIs, HandlerMoves DEF Finish, Shapes
  <2> QED
    BY <1>1, <1>4, <2>1, QuietIs DEF Waited, Working, Shapes
<1>5. CASE /\ streams[h[2]] # None /\ UNCHANGED room
           /\ handler' = [handler EXCEPT ![h] = [at |-> "found", obj |-> streams[h[2]], first |-> FALSE]]
  <2>1. r = [at |-> "found", obj |-> streams[h[2]], first |-> FALSE]
    BY <1>5
  <2> QED
    BY <1>3, <1>5, <2>1 DEF room, maps
<1>6. CASE /\ streams[h[2]] = None /\ streams' = [streams EXCEPT ![h[2]] = h]
           /\ handler' = [handler EXCEPT ![h] = [at |-> "found", obj |-> h, first |-> TRUE]]
  <2>1. r = [at |-> "found", obj |-> h, first |-> TRUE] /\ o = h
    BY <1>6
  <2>2. streams' # streams
    BY <1>2, <1>6, RoomAssumption, <1>1 DEF Shapes, TrackShape
  <2> QED
    BY <1>3, <1>6, <2>1, <2>2
<1>7. CASE RelayFindStream(h)
  <2>1. streams' = [streams EXCEPT ![h[2]] = o] /\ handler' = [handler EXCEPT ![h] = r]
    BY <1>7 DEF RelayFindStream
  <2>2. streams' = streams => streams[h[2]] # None
    BY <1>1, <1>2, <2>1, RoomAssumption DEF Shapes, TrackShape
  <2> QED
    BY <1>3, <2>1, <2>2
<1> QED
  BY <1>4, <1>5, <1>6, <1>7 DEF FindStream

LEMMA LayeredIs ==
    ASSUME Shapes, NEW h \in Remote, AddLayer(h)
    PROVE  GaveUp(h) \/ Layered(h)
<1>1. /\ handler[h].at = "found" /\ UNCHANGED <<observers, sinks, subs>> /\ MapsKept
      /\ UNCHANGED <<closed, presenters, viewers>>
  <2>1. handler[h].at = "found"
          /\ UNCHANGED <<closed, presenters, viewers, tracks, streams, observers, sinks, subs>>
    BY DEF AddLayer, maps
  <2> QED
    BY <2>1, MembersKept DEF MapsKept, Shapes
<1>2. CASE /\ sim' = sim /\ handler' = [handler EXCEPT ![h] = Done]
           /\ sim[handler[h].obj].closed
  <2>1. Moved(h, Done)
    BY <1>2, MovedIs DEF Shapes
  <2> QED
    BY <1>1, <1>2, <2>1 DEF GaveUp, Quiet
<1>3. CASE /\ ~sim[handler[h].obj].closed
           /\ handler' = [handler EXCEPT ![h].at = "added"]
           /\ \A o \in Objects :
                 /\ sim'[o].closed = sim[o].closed
                 /\ sim'[o].subscribers = sim[o].subscribers
                 /\ \A q \in Layers :
                      sim'[o].layers[q] = IF o = handler[h].obj /\ q = h[3]
                                          THEN h[1] ELSE sim[o].layers[q]
  <2> DEFINE r == [handler[h] EXCEPT !.at = "added"]
  <2>1. /\ Moved(h, r) /\ r \in Handler /\ r.at = "added" /\ r.obj = handler[h].obj
        /\ r.first = handler[h].first
    BY <1>3, MovedIs, HandlerMoves DEF Shapes
  <2> HIDE DEF r
  <2>2. \A o \in Objects :
          /\ SimSays(o, [q \in Layers |-> IF o = handler[h].obj /\ q = h[3] THEN h[1]
                                          ELSE sim[o].layers[q]], FALSE)
          /\ sim'[o].subscribers = sim[o].subscribers
    BY <1>3 DEF SimSays
  <2> QED
    BY <1>1, <1>3, <2>1, <2>2 DEF Layered
<1> QED
  BY <1>2, <1>3, SimAdds DEF Shapes

LEMMA AttachedIs ==
    ASSUME Shapes, NEW h \in Remote, AttachLayer(h) \/ RelayAttach(h)
    PROVE  Attached(h)
<1> DEFINE o == handler[h].obj
<1>1. /\ handler[h].at = "added" /\ o \in Objects /\ h \in Objects /\ o[2] = h[2]
      /\ sim[o].layers[h[3]] # None
  BY DEF AttachLayer, RelayAttach, Shapes, HandlerShape, Working
<1>2. MapsKept
  <2>1. UNCHANGED <<closed, presenters, viewers, tracks, streams, observers>>
    BY DEF AttachLayer, RelayAttach, maps
  <2> QED
    BY <2>1, MembersKept DEF MapsKept, Shapes
<1>3. h[3] \in Layers
  BY <1>1, RoomAssumption DEF Objects
<1>4. CASE AttachLayer(h)
  <2>1. CASE handler[h].first
    <3> DEFINE r == [handler[h] EXCEPT !.at = "attached"]
    <3>1. /\ Moved(h, r) /\ r \in Handler /\ r.at = "attached" /\ r.obj = o
          /\ r.first = handler[h].first
      BY <1>4, <2>1, MovedIs, HandlerMoves DEF AttachLayer, Goto, Shapes
    <3> HIDE DEF r
    <3> QED
      BY <1>1, <1>2, <1>4, <3>1 DEF AttachLayer, Attached
  <2>2. CASE ~handler[h].first
    <3>1. Moved(h, Done)
      BY <1>4, <2>2, MovedIs DEF AttachLayer, Finish, Shapes
    <3> QED
      BY <1>1, <1>2, <1>4, <2>2, <3>1 DEF AttachLayer, Attached
  <2> QED
    BY <2>1, <2>2
<1>5. CASE RelayAttach(h)
  <2>1. Moved(h, Done)
    BY <1>5, MovedIs DEF RelayAttach, Finish, Shapes
  <2>2. sim[o].layers[h[3]] = Relay
    <3>1. h[1] = Relay
      BY <1>5, RoomAssumption DEF RelayAttach, Local
    <3>2. Src[o[2]] \notin Users
      BY <1>1, <3>1, RoomAssumption
    <3> QED
      BY <1>1, <1>3, <3>2 DEF Shapes, RelayLayers
  <2>3. sinks' = AttachAll({<<o, h[3], sim[o].layers[h[3]]>>})
    BY <1>5, <2>2 DEF RelayAttach
  <2>4. IF handler[h].first THEN Subscribed(o, h[3]) ELSE UNCHANGED <<sim, subs>>
    BY <1>1, <1>3, <1>5, SubscribedIs DEF RelayAttach
  <2> QED
    BY <1>1, <1>2, <2>1, <2>3, <2>4 DEF Attached
<1> QED
  BY <1>4, <1>5

LEMMA OfferedIs ==
    ASSUME Shapes, NEW h \in Remote, SubscribeFirst(h)
    PROVE  Offered(h)
<1>1. handler[h].at = "attached" /\ handler[h].obj \in Objects /\ h \in Objects
  BY DEF SubscribeFirst, Shapes, HandlerShape, Working
<1>2. h[3] \in Layers
  BY <1>1, RoomAssumption DEF Objects
<1>3. Moved(h, Done) /\ Subscribed(handler[h].obj, h[3])
  BY <1>1, <1>2, MovedIs, SubscribedIs DEF SubscribeFirst, Finish, Shapes
<1>4. UNCHANGED <<closed, presenters, viewers, tracks, streams, observers, sinks>>
  BY DEF SubscribeFirst, maps
<1> QED
  BY <1>1, <1>3, <1>4, MembersKept DEF Offered, MapsKept, Shapes

(* What a handler's step does.                                             *)
LEMMA HandlerIs ==
    ASSUME Shapes, NEW h \in Remote,
           TrackFires(h) \/ RelayPlain(h) \/ RelayFindStream(h) \/ HandlerStep(h)
    PROVE  HandlerEffect(h)
<1>0. MemberShape /\ HandlerShape
  BY DEF Shapes
<1>1. ASSUME NEW l \in {"fired", "checked"}, Goto(h, l), UNCHANGED room,
             handler[h].at \in {"idle", "fired"}, l = "fired" => handler[h].at = "idle"
      PROVE  Waited(h)
  <2> DEFINE r == [handler[h] EXCEPT !.at = l]
  <2>1. /\ Moved(h, r) /\ r \in Handler /\ r.at = l /\ r.obj = None
    BY <1>0, <1>1, MovedIs, HandlerMoves DEF Goto, HandlerShape, Working
  <2> HIDE DEF r
  <2> QED
    BY <1>0, <1>1, <2>1, QuietIs DEF Waited, Working
<1>2. ASSUME Finish(h), UNCHANGED room, handler[h].at \in {"idle", "fired", "checked"}
      PROVE  Waited(h)
  <2>1. Moved(h, Done) /\ Done \in Handler /\ Done.at = "done" /\ Done.obj = None
    BY <1>0, <1>2, MovedIs, HandlerMoves DEF Finish
  <2> QED
    BY <1>0, <1>2, <2>1, QuietIs DEF Waited
<1>3. CASE TrackFires(h)
  BY <1>1, <1>3 DEF TrackFires, HandlerEffect, Working
<1>4. CASE CheckPlain(h)
  BY <1>1, <1>2, <1>4 DEF CheckPlain, HandlerEffect, Working
<1>5. CASE PublishPlain(h)
  <2>1. handler[h].at = "checked" /\ Finish(h) /\ h \in Plan
    BY <1>0, <1>5 DEF PublishPlain, HandlerShape
  <2>2. UNCHANGED room \/ AddRouter(h[2], h[1])
    BY <1>5 DEF PublishPlain
  <2> QED
    BY <1>2, <2>1, <2>2, RoutedIs DEF HandlerEffect, Working
<1>6. CASE RelayPlain(h)
  <2>1. /\ handler[h].at = "idle" /\ Finish(h) /\ h \in Plan /\ h[1] = Relay
        /\ AddRouter(h[2], Relay)
    BY <1>6 DEF RelayPlain, Local, Plan
  <2> QED
    BY <2>1, RoutedIs DEF HandlerEffect, Working
<1> QED
  BY <1>3, <1>4, <1>5, <1>6, FoundIs, LayeredIs, AttachedIs, OfferedIs
     DEF HandlerStep, HandlerEffect

(* The other steps of the room.                                            *)
Chooses ==
    /\ MapsKept /\ UNCHANGED <<sinks, handler>>
    /\ \E c \in InRoom, s \in Streams, q \in Layers :
          streams[s] # None /\ sim[streams[s]].layers[q] # None /\ Chosen(c, s, q)

Watched ==
    /\ UNCHANGED <<closed, tracks, streams, sim, subs, handler>> /\ InRoom' = InRoom
    /\ \/ \E x \in Observers : AddObserver(x)
       \/ observers' \subseteq observers /\ sinks' = sinks

Ended ==
    /\ closed' /\ InRoom' = {} /\ UNCHANGED <<subs, handler>>
    /\ \A o \in Objects, q \in Layers : sim'[o].layers[q] = sim[o].layers[q]
    /\ \A s \in Streams : streams'[s] \in {streams[s], None}

LEMMA StepIs ==
    ASSUME Shapes, ConnInv, [Next]_vars
    PROVE  \/ Quiet /\ handler' = handler
           \/ \E h \in Remote : HandlerEffect(h)
           \/ /\ ~closed /\ UNCHANGED <<closed, handler>>
              /\ \/ \E u \in Users : \E gone : Removed(u, gone)
                 \/ \E c \in Conns : Joined(c)
           \/ Chooses \/ Watched \/ Ended
<1> USE DEF Shapes
<1>1. CASE RemoveStep
  <2>1. PICK u \in Users : RemovePeer(u)
    BY <1>1, RemoveStepIs
  <2>2. handler' = handler /\ closed' = closed
    BY <1>1, <2>1, RemoveStepIs, RemoveMembers
  <2>3. CASE UNCHANGED room /\ InRoom' = InRoom
    BY <2>2, <2>3, QuietIs
  <2>4. CASE ~closed /\ \E gone : Removed(u, gone)
    BY <2>2, <2>4
  <2> QED
    BY <2>1, <2>3, <2>4, RemovedIs
<1>2. ASSUME NEW c \in Conns, OfferAdds(c)
      PROVE  ~closed /\ UNCHANGED <<closed, handler>> /\ Joined(c)
  <2>1. handler' = handler
    BY <1>2 DEF OfferAdds
  <2> QED
    BY <1>2, <2>1, JoinedIs, AddMembers
<1>3. CASE EndStep
  <2>1. PICK c \in Conns : OfferRefused(c) \/ OfferAnswered(c) \/ CloseConn(c) \/ NetworkFails(c)
    BY <1>3 DEF EndStep
  <2>2. CASE CloseConn(c)
    <3>1. /\ c \in closing /\ subs' = [subs EXCEPT ![c] = [m \in Media |-> None]]
          /\ UNCHANGED <<closed, presenters, viewers, tracks, streams, sim, observers, sinks, handler>>
      BY <2>2 DEF CloseConn, maps
    <3>2. c \notin InRoom /\ InRoom' = InRoom /\ InRoom \subseteq Conns
      BY <3>1, MembersKept, InRoomIs DEF ConnInv, RoomIsSeats
    <3>3. \A d \in Conns, m \in Media : subs'[d][m] = IF d = c THEN None ELSE subs[d][m]
      BY <3>1 DEF SubShape
    <3> QED
      BY <3>1, <3>2, <3>3 DEF Quiet, MapsKept
  <2>3. CASE OfferRefused(c) \/ OfferAnswered(c) \/ NetworkFails(c)
    BY <2>3, QuietIs DEF OfferRefused, OfferAnswered, NetworkFails
  <2> QED
    BY <2>1, <2>2, <2>3
<1>4. CASE CloseRoom
  <2>1. InRoom' = {}
    BY <1>4 DEF CloseRoom, InRoom, Presenting, Watching
  <2>2. \A s \in Streams : streams'[s] \in {streams[s], None}
    BY <1>4 DEF CloseRoom
  <2> QED
    BY <1>4, <2>1, <2>2 DEF CloseRoom, Ended
<1>5. CASE CloseTracks
  <2>1. closed /\ InRoom = {} /\ UNCHANGED <<closed, presenters, viewers, streams, subs, handler>>
    BY <1>5 DEF CloseTracks, ConnInv, maps
  <2>2. InRoom' = {}
    BY <2>1, MembersKept
  <2>3. SimCalm
    BY <1>5, SimCloses
  <2> QED
    BY <2>1, <2>2, <2>3 DEF Ended, SimCalm
<1>6. CASE UNCHANGED vars
  BY <1>6, QuietIs DEF vars
<1>7. CASE TrackStep
  <2>1. ASSUME NEW u \in Users, NEW s \in Streams, NEW q \in Layers, SetSubscriberQuality(u, s, q)
        PROVE  Chooses
    <3>1. UNCHANGED <<closed, presenters, viewers, tracks, streams, observers, sinks, handler>>
      BY <2>1 DEF SetSubscriberQuality, maps
    <3>2. MapsKept
      BY <3>1, MembersKept DEF MapsKept
    <3> QED
      BY <2>1, <3>1, <3>2, ChosenIs DEF Chooses
  <2>2. ASSUME NEW x \in Observers, AddObserver(x) \/ RemoveObserver(x) PROVE Watched
    <3>1. UNCHANGED <<closed, presenters, viewers, tracks, streams, sim, subs, handler>>
      BY <2>2 DEF AddObserver, RemoveObserver, maps
    <3>2. InRoom' = InRoom
      BY <3>1, MembersKept
    <3>3. RemoveObserver(x) => observers' \subseteq observers /\ sinks' = sinks
      BY DEF RemoveObserver
    <3> QED
      BY <2>2, <3>1, <3>2, <3>3 DEF Watched
  <2> QED
    BY <1>7, <2>1, <2>2, HandlerIs DEF TrackStep
<1> QED
  BY <1>1, <1>2, <1>3, <1>4, <1>5, <1>6, <1>7, NextIs

-----------------------------------------------------------------------------
(* PlainFanout needs nothing else.                                         *)
LEMMA PlainStep ==
    ASSUME Shapes, ConnInv, PlainFanout, [Next]_vars
    PROVE  PlainFanout'
<1>0. /\ InRoom \subseteq Conns /\ Plain \subseteq Media /\ \A m \in Plain : m \notin Streams
      /\ \A c, m : Skips(c, m)' <=> Skips(c, m)
      /\ \A f \in Feeds : f # None
  BY InRoomIs, RoomAssumption DEF RoomIsSeats, Shapes, Media, Skips
<1>1. SUFFICES ASSUME NEW c \in InRoom', NEW m \in Plain
               PROVE  subs'[c][m] # None <=> tracks'[m] # None /\ ~Skips(c, m)
  BY <1>0 DEF PlainFanout
<1>2. ASSUME c \in InRoom, subs'[c][m] = subs[c][m], tracks'[m] = tracks[m]
      PROVE  subs'[c][m] # None <=> tracks'[m] # None /\ ~Skips(c, m)
  BY <1>2 DEF PlainFanout
<1>3. CASE Quiet
  BY <1>0, <1>2, <1>3 DEF Quiet, MapsKept
<1>4. ASSUME NEW u, NEW gone, Removed(u, gone)
      PROVE  subs'[c][m] # None <=> tracks'[m] # None /\ ~Skips(c, m)
  BY <1>0, <1>2, <1>4 DEF Removed
<1>5. ASSUME NEW d \in Conns, Joined(d)
      PROVE  subs'[c][m] # None <=> tracks'[m] # None /\ ~Skips(c, m)
  <2>1. CASE c = d
    BY <1>0, <1>5, <2>1 DEF Joined, JoinSubs
  <2>2. CASE c # d
    BY <1>0, <1>2, <1>5, <2>2 DEF Joined
  <2> QED
    BY <2>1, <2>2
<1>6. CASE Chooses
  BY <1>0, <1>2, <1>6 DEF Chooses, Chosen, MapsKept
<1>7. CASE Watched
  BY <1>2, <1>7 DEF Watched
<1>8. CASE Ended
  BY <1>8 DEF Ended
<1>9. ASSUME NEW h \in Remote, HandlerEffect(h)
      PROVE  subs'[c][m] # None <=> tracks'[m] # None /\ ~Skips(c, m)
  <2>1. CASE Waited(h) \/ GaveUp(h)
    BY <1>3, <2>1 DEF Waited, GaveUp
  <2>2. CASE Routed(h)
    BY <1>0, <1>2, <2>2 DEF Routed, PlainFanout
  <2>3. CASE Found(h)
    BY <1>2, <2>3 DEF Found
  <2>4. CASE Layered(h)
    BY <1>2, <2>4 DEF Layered, MapsKept
  <2>5. ASSUME NEW o \in Objects, NEW q, Subscribed(o, q), MapsKept
        PROVE  subs'[c][m] # None <=> tracks'[m] # None /\ ~Skips(c, m)
    BY <1>0, <1>2, <2>5 DEF Subscribed, MapsKept, Objects
  <2>6. CASE Attached(h) \/ Offered(h)
    <3>1. handler[h].obj \in Objects
      BY <2>6 DEF Attached, Offered, Shapes, HandlerShape, Working
    <3> QED
      BY <1>2, <2>5, <2>6, <3>1 DEF Attached, Offered, MapsKept
  <2> QED
    BY <1>9, <2>1, <2>2, <2>3, <2>4, <2>6 DEF HandlerEffect
<1> QED
  BY <1>3, <1>4, <1>5, <1>6, <1>7, <1>8, <1>9, StepIs

(* A SimulcastTrack that no handler has used is nobody's: it has no layer, *)
(* no place in the room and no subscriber.                                 *)
Unused(h) ==
    /\ \A q \in Layers : sim[h].layers[q] = None
    /\ streams[h[2]] # h
    /\ \A g \in Remote : handler[g].obj # h
    /\ \A c \in Conns : subs[c][h[2]] # None => subs[c][h[2]].obj # h

(* Handlers and their SimulcastTracks.  While the room is open a handler   *)
(* works on the track its stream has, or on one RemovePeer has closed; the *)
(* track of a stream was put there by a handler that works on it, or is    *)
(* done with it.                                                           *)
Fresh(h) == handler[h].at \in {"idle", "fired"}
Held(o) == handler[o].at \in Working /\ handler[o].obj = o /\ handler[o].first

ObjInv ==
    /\ \A h \in Objects : Fresh(h) => Unused(h) /\ (closed \/ ~sim[h].closed)
    /\ \A h \in Remote : closed \/ handler[h].obj = None \/ sim[handler[h].obj].closed
                            \/ streams[h[2]] = handler[h].obj
    /\ \A s \in Streams : streams[s] # None =>
          /\ closed \/ ~sim[streams[s]].closed
          /\ Held(streams[s]) \/ handler[streams[s]].at = "done"

LEMMA ObjInit == Init => ObjInv
  BY RoomAssumption DEF Init, ObjInv, Fresh, Unused, NoHandler, NewTrack, Objects, Media

(* Handlers do not come back; a track nobody has used stays unused.        *)
LEMMA FreshBack ==
    ASSUME Shapes, ConnInv, [Next]_vars, NEW h \in Remote, Fresh(h)'
    PROVE  /\ Fresh(h)
           /\ \A g \in Remote : Found(g) \/ Layered(g) \/ Attached(g) \/ Offered(g) => g # h
<1>0. Done.at = "done"
  BY DEF Done, NoHandler
<1>1. ASSUME NEW g \in Remote, HandlerEffect(g)
      PROVE  Fresh(h) /\ (Found(g) \/ Layered(g) \/ Attached(g) \/ Offered(g) => g # h)
  <2>1. CASE Waited(g)
    <3>1. ~(Layered(g) \/ Attached(g) \/ Offered(g))
      BY <2>1 DEF Waited, Layered, Attached, Offered, Working
    <3>2. Found(g) => g # h
      BY DEF Found, Moved, Fresh
    <3>3. Fresh(h)
      BY <2>1 DEF Waited, Moved, Fresh
    <3> QED
      BY <3>1, <3>2, <3>3
  <2>2. CASE GaveUp(g) \/ Routed(g)
    BY <1>0, <2>2 DEF GaveUp, Routed, Moved, Fresh, Found, Layered, Attached, Offered, Working
  <2>3. CASE Found(g)
    <3>1. g # h
      BY <2>3 DEF Found, Moved, Fresh
    <3> QED
      BY <2>3, <3>1 DEF Found, Moved, Fresh
  <2>4. CASE Layered(g) \/ Attached(g) \/ Offered(g)
    <3>1. g # h
      BY <1>0, <2>4 DEF Layered, Attached, Offered, Moved, Fresh
    <3> QED
      BY <2>4, <3>1 DEF Layered, Attached, Offered, Moved, Fresh
  <2> QED
    BY <1>1, <2>1, <2>2, <2>3, <2>4 DEF HandlerEffect
<1>2. ASSUME handler' = handler PROVE Fresh(h)
  BY <1>2 DEF Fresh
<1>3. \A g \in Remote : Found(g) \/ Layered(g) \/ Attached(g) \/ Offered(g) => g # h
  BY <1>1 DEF HandlerEffect
<1>4. Fresh(h)
  BY <1>1, <1>2, StepIs DEF Chooses, Watched, Ended
<1> QED
  BY <1>3, <1>4

LEMMA UnusedStep ==
    ASSUME Shapes, ConnInv, ObjInv, [Next]_vars, NEW h \in Objects, Fresh(h)'
    PROVE  Unused(h)' /\ (closed' \/ ~sim'[h].closed)
<1> DEFINE s == h[2]
           Goal == Unused(h)' /\ (closed' \/ ~sim'[h].closed)
<1> SUFFICES Goal
    OBVIOUS
<1>0. /\ Fresh(h) /\ Unused(h) /\ (closed \/ ~sim[h].closed)
      /\ \A g \in Remote : Found(g) \/ Layered(g) \/ Attached(g) \/ Offered(g) => g # h
      /\ s \in Streams /\ s \in Media /\ s \notin Plain /\ h # None
  BY FreshBack, RoomAssumption DEF ObjInv, Objects, Media
<1>1. ASSUME \A q \in Layers : sim'[h].layers[q] = sim[h].layers[q],
             closed' \/ (closed' = closed /\ (sim'[h].closed => sim[h].closed)),
             streams'[s] # h, \A g \in Remote : handler'[g].obj # h,
             \A c \in Conns : \/ subs'[c][s] = subs[c][s] \/ subs'[c][s] = None
                              \/ subs'[c][s].obj # h
      PROVE  Goal
  BY <1>0, <1>1 DEF Unused
<1>2. \A o, q : Sender(o, q).obj = o
  BY DEF Sender
<1>3. Done.obj = None
  BY DEF Done, NoHandler
<1>4. CASE Quiet /\ \A g \in Remote : handler'[g].obj \in {handler[g].obj, None}
  <2>1. \A g \in Remote : handler'[g].obj # h
    BY <1>0, <1>4 DEF Unused
  <2> QED
    BY <1>0, <1>1, <1>4, <2>1 DEF Unused, Quiet, MapsKept
<1>5. ASSUME NEW u, NEW gone, Removed(u, gone), UNCHANGED <<closed, handler>>
      PROVE  Goal
  <2>1. ~ \E t \in gone \cap Streams : streams[t] = h
    BY <1>0 DEF Unused, Shapes, TrackShape
  <2> QED
    BY <1>0, <1>1, <1>5, <2>1 DEF Removed, Unused, SimSays
<1>6. ASSUME NEW c \in Conns, Joined(c), UNCHANGED <<closed, handler>>
      PROVE  Goal
  <2>1. \A d \in Conns : subs'[d][s] = subs[d][s] \/ subs'[d][s] = None \/ subs'[d][s].obj # h
    BY <1>0, <1>2, <1>6 DEF Joined, Unused
  <2> QED
    BY <1>0, <1>1, <1>6, <2>1 DEF Joined, Unused, SimSays
<1>7. CASE Chooses
  <2>1. \A d \in Conns : subs'[d][s] = subs[d][s] \/ subs'[d][s].obj # h
    BY <1>0, <1>2, <1>7 DEF Chooses, Chosen, Unused
  <2> QED
    BY <1>0, <1>1, <1>7, <2>1 DEF Chooses, Chosen, MapsKept, Unused, SimSays
<1>8. CASE Watched
  BY <1>0, <1>1, <1>8 DEF Watched, Unused
<1>9. CASE Ended
  <2>1. streams'[s] # h
    BY <1>0, <1>9 DEF Ended, Unused
  <2> QED
    BY <1>0, <1>1, <1>9, <2>1 DEF Ended, Unused
<1>10. ASSUME NEW g \in Remote, HandlerEffect(g) PROVE Goal
  <2>1. CASE Waited(g) \/ GaveUp(g)
    BY <1>3, <1>4, <2>1 DEF Waited, GaveUp, Moved
  <2>2. CASE Routed(g)
    <3>1. \A k \in Remote : handler'[k].obj # h
      BY <1>0, <1>3, <2>2 DEF Routed, Moved, Unused
    <3> QED
      BY <1>0, <1>1, <2>2, <3>1 DEF Routed, Unused
  <2>3. CASE Found(g)
    <3> DEFINE o == IF streams[g[2]] = None THEN g ELSE streams[g[2]]
    <3>1. o # h
      BY <1>0, <2>3 DEF Unused, Shapes, TrackShape, Found, Objects
    <3>2. streams'[s] # h
      BY <1>0, <2>3, <3>1 DEF Found, Unused
    <3>3. \A k \in Remote : handler'[k].obj # h
      BY <1>0, <2>3, <3>1 DEF Found, Moved, Unused
    <3> QED
      BY <1>0, <1>1, <2>3, <3>2, <3>3 DEF Found, Unused
  <2>4. CASE Layered(g)
    <3>1. handler[g].obj # h /\ \A k \in Remote : handler'[k].obj # h
      BY <1>0, <2>4 DEF Layered, Moved, Unused
    <3> QED
      BY <1>0, <1>1, <2>4, <3>1 DEF Layered, MapsKept, Unused, SimSays
  <2>5. ASSUME NEW q, Subscribed(handler[g].obj, q) \/ UNCHANGED <<sim, subs>>, MapsKept,
               \A k \in Remote : handler'[k].obj \in {handler[k].obj, None}
        PROVE  Goal
    <3>1. handler[g].obj # h /\ \A k \in Remote : handler'[k].obj # h
      BY <1>0, <2>5 DEF Unused
    <3>2. CASE Subscribed(handler[g].obj, q)
      <4>1. \A c \in Conns : subs'[c][s] = subs[c][s] \/ subs'[c][s] = Sender(handler[g].obj, q)
        BY <1>0, <3>2 DEF Subscribed
      <4>2. SimSays(h, sim[h].layers, FALSE)
        BY <3>2 DEF Subscribed
      <4>3. \A c \in Conns : subs'[c][s] = subs[c][s] \/ subs'[c][s].obj # h
        BY <1>2, <3>1, <4>1
      <4>4. /\ \A l \in Layers : sim'[h].layers[l] = sim[h].layers[l]
            /\ sim'[h].closed => sim[h].closed
        BY <4>2 DEF SimSays
      <4>5. closed' = closed /\ streams'[s] # h
        BY <1>0, <2>5 DEF MapsKept, Unused
      <4> HIDE DEF Goal
      <4> QED
        BY <1>1, <3>1, <4>3, <4>4, <4>5
    <3>3. CASE UNCHANGED <<sim, subs>>
      BY <1>0, <1>1, <2>5, <3>1, <3>3 DEF MapsKept, Unused
    <3> QED
      BY <2>5, <3>2, <3>3
  <2>6. CASE Attached(g) \/ Offered(g)
    BY <1>3, <2>5, <2>6 DEF Attached, Offered, Moved
  <2> QED
    BY <1>10, <2>1, <2>2, <2>3, <2>4, <2>6 DEF HandlerEffect
<1> HIDE DEF Goal
<1> QED
  BY <1>4, <1>5, <1>6, <1>7, <1>8, <1>9, <1>10, StepIs

LEMMA HoldStep ==
    ASSUME Shapes, ConnInv, ObjInv, [Next]_vars, NEW h \in Remote, ~closed', handler'[h].obj # None
    PROVE  sim'[handler'[h].obj].closed \/ streams'[h[2]] = handler'[h].obj
<1> DEFINE o == handler'[h].obj
<1>1. ASSUME closed' = closed, o = handler[h].obj,
             streams'[h[2]] = streams[h[2]] \/ (streams[h[2]] = o => sim'[o].closed)
      PROVE  sim'[o].closed \/ streams'[h[2]] = o
  <2>1. o \in Objects /\ sim[o].closed => sim'[o].closed
    BY LayersStep
  <2>2. o \in Objects
    BY <1>1 DEF Shapes, HandlerShape, Handler
  <2>3. sim[o].closed \/ streams[h[2]] = o
    BY <1>1 DEF ObjInv
  <2> QED
    BY <1>1, <2>1, <2>2, <2>3
<1>2. Done.obj = None
  BY DEF Done, NoHandler
<1>3. CASE Quiet /\ handler'[h].obj = handler[h].obj
  BY <1>1, <1>3 DEF Quiet, MapsKept
<1>4. ASSUME NEW u, NEW gone, Removed(u, gone), UNCHANGED <<closed, handler>>
      PROVE  sim'[o].closed \/ streams'[h[2]] = o
  <2>1. o = handler[h].obj /\ h \in Objects /\ h[2] \in Streams /\ o \in Objects
    BY <1>4 DEF Shapes, HandlerShape, Objects
  <2>2. streams'[h[2]] # streams[h[2]] => h[2] \in gone
    BY <1>4, <2>1 DEF Removed
  <2>3. h[2] \in gone /\ streams[h[2]] = o => sim'[o].closed
    BY <1>4, <2>1 DEF Removed, SimSays
  <2> HIDE DEF o
  <2> QED
    BY <1>1, <1>4, <2>1, <2>2, <2>3
<1>5. ASSUME UNCHANGED <<closed, streams>>, handler'[h].obj = handler[h].obj
      PROVE  sim'[o].closed \/ streams'[h[2]] = o
  BY <1>1, <1>5
<1>6. ASSUME NEW g \in Remote, HandlerEffect(g)
      PROVE  sim'[o].closed \/ streams'[h[2]] = o
  <2>1. CASE Found(g)
    <3>1. g[2] \in Streams /\ closed' = closed /\ (handler[h].obj # None => h[2] \in Streams)
      BY <2>1 DEF Found, Objects, Shapes, HandlerShape
    <3>2. CASE g = h
      BY <2>1, <3>1, <3>2 DEF Found, Moved
    <3>3. CASE g # h
      <4>1. o = handler[h].obj /\ o # None
        BY <2>1, <3>3 DEF Found, Moved
      <4>2. streams[h[2]] = o => streams'[h[2]] = o
        BY <2>1, <3>1, <4>1 DEF Found
      <4>3. streams'[h[2]] # streams[h[2]] => streams[h[2]] # o
        BY <4>2
      <4> HIDE DEF o
      <4> QED
        BY <1>1, <3>1, <4>1, <4>3
    <3> QED
      BY <3>2, <3>3
  <2>2. CASE Waited(g) \/ GaveUp(g) \/ Routed(g) \/ Layered(g) \/ Attached(g) \/ Offered(g)
    <3>1. UNCHANGED <<closed, streams>>
      BY <2>2 DEF Waited, GaveUp, Routed, Layered, Attached, Offered, Quiet, MapsKept
    <3>2. handler'[h].obj = handler[h].obj
      BY <1>2, <2>2 DEF Waited, GaveUp, Routed, Layered, Attached, Offered, Moved
    <3> QED
      BY <1>5, <3>1, <3>2
  <2> QED
    BY <1>6, <2>1, <2>2 DEF HandlerEffect
<1>7. CASE Chooses \/ Watched \/ \E c \in Conns : Joined(c) /\ UNCHANGED <<closed, handler>>
  BY <1>5, <1>7 DEF Chooses, Watched, Joined, MapsKept
<1>8. ~Ended
  BY DEF Ended
<1> QED
  BY <1>3, <1>4, <1>6, <1>7, <1>8, StepIs

LEMMA CreatorStep ==
    ASSUME Shapes, ConnInv, ObjInv, [Next]_vars, NEW s \in Streams, streams'[s] # None
    PROVE  /\ closed' \/ ~sim'[streams'[s]].closed
           /\ Held(streams[s])' \/ handler'[streams'[s]].at = "done"
<1> DEFINE o == streams[s]
           Open == closed' \/ ~sim'[streams'[s]].closed
           By == Held(streams[s])' \/ handler'[streams'[s]].at = "done"
<1> SUFFICES Open /\ By
    OBVIOUS
<1>0. /\ o # None => /\ o \in Objects /\ o \in Remote /\ o[2] = s
                     /\ closed \/ ~sim[o].closed
                     /\ Held(o) \/ handler[o].at = "done"
      /\ Done.at = "done"
  BY DEF Shapes, TrackShape, ObjInv, Objects, Done, NoHandler
<1>1. ASSUME streams'[s] = o, sim'[o].closed => sim[o].closed, closed' \/ closed' = closed
      PROVE  Open
  BY <1>0, <1>1
<1>2. ASSUME streams'[s] = o, handler' = handler PROVE By
  BY <1>0, <1>2 DEF Held
<1>3. ASSUME streams'[s] = o, NEW g \in Remote, HandlerEffect(g), ~Found(g) PROVE By
  <2>1. CASE g # o
    <3>1. handler'[o] = handler[o]
      BY <1>0, <1>3, <2>1 DEF HandlerEffect, Waited, GaveUp, Routed, Layered, Attached,
                              Offered, Moved
    <3> QED
      BY <1>0, <1>3, <3>1 DEF Held
  <2>2. CASE g = o /\ Moved(g, Done)
    BY <1>0, <1>3, <2>2 DEF Moved
  <2>3. CASE /\ g = o /\ handler[o].at \in Working
             /\ \E r \in Handler : /\ Moved(g, r) /\ r.at \in Working
                                   /\ r.obj = handler[o].obj /\ r.first = handler[o].first
    BY <1>0, <1>3, <2>3 DEF Moved, Held, Working
  <2>4. ~(g = o /\ Waited(g))
    BY <1>0, <1>3 DEF Waited, Held, Working
  <2> QED
    BY <1>3, <2>1, <2>2, <2>3, <2>4 DEF HandlerEffect, GaveUp, Routed, Layered, Attached,
                                        Offered, Working
<1>4. ASSUME NEW g \in Remote, Found(g) PROVE Open /\ By
  <2>1. CASE g[2] = s /\ o = None
    <3>1. streams'[s] = g /\ handler'[g] = [at |-> "found", obj |-> g, first |-> TRUE]
      BY <1>4, <2>1 DEF Found, Moved
    <3>2. UNCHANGED <<closed, sim>> /\ (closed \/ ~sim[g].closed)
      BY <1>4 DEF Found, ObjInv, Fresh
    <3> QED
      BY <3>1, <3>2 DEF Held, Working
  <2>2. CASE g[2] # s \/ o # None
    <3>1. streams'[s] = o /\ UNCHANGED <<closed, sim>>
      BY <1>4, <2>2 DEF Found
    <3>2. g # o
      BY <1>0, <1>4, <3>1 DEF Found, Held, Working
    <3>3. handler'[o] = handler[o]
      BY <1>0, <1>4, <3>1, <3>2 DEF Found, Moved
    <3> QED
      BY <1>0, <1>1, <3>1, <3>3 DEF Held
  <2> QED
    BY <2>1, <2>2
<1>5. ASSUME NEW u, NEW gone, Removed(u, gone), UNCHANGED <<closed, handler>>
      PROVE  Open /\ By
  <2>1. streams'[s] = o /\ s \notin gone
    BY <1>5 DEF Removed
  <2>2. ~ \E t \in gone \cap Streams : streams[t] = o
    BY <1>0, <2>1 DEF Shapes, TrackShape
  <2>3. sim'[o].closed => sim[o].closed
    BY <1>0, <1>5, <2>1, <2>2 DEF Removed, SimSays
  <2> QED
    BY <1>1, <1>2, <1>5, <2>1, <2>3
<1>6. ASSUME UNCHANGED <<closed, streams>>, \A p \in Objects : SimSays(p, sim[p].layers, FALSE)
      PROVE  Open
  BY <1>0, <1>1, <1>6 DEF SimSays
<1>7. ASSUME UNCHANGED <<closed, streams, sim>> PROVE Open
  BY <1>1, <1>7
<1>8. CASE Quiet /\ handler' = handler
  BY <1>2, <1>7, <1>8 DEF Quiet, MapsKept
<1>9. CASE Chooses
  BY <1>2, <1>6, <1>9 DEF Chooses, Chosen, MapsKept
<1>10. ASSUME NEW c \in Conns, Joined(c), UNCHANGED <<closed, handler>> PROVE Open /\ By
  BY <1>2, <1>6, <1>10 DEF Joined
<1>11. CASE Watched
  BY <1>2, <1>7, <1>11 DEF Watched
<1>12. CASE Ended
  BY <1>2, <1>12 DEF Ended
<1>13. ASSUME NEW g \in Remote, HandlerEffect(g), ~Found(g) PROVE Open /\ By
  <2>1. UNCHANGED <<closed, streams>>
    BY <1>13 DEF HandlerEffect, Waited, GaveUp, Routed, Layered, Attached, Offered,
                 Quiet, MapsKept
  <2>2. UNCHANGED sim \/ \A p \in Objects : sim'[p].closed => sim[p].closed
    BY <1>13 DEF HandlerEffect, Waited, GaveUp, Routed, Layered, Attached, Offered, Quiet,
                 Subscribed, SimSays
  <2> QED
    BY <1>0, <1>1, <1>3, <1>13, <2>1, <2>2
<1> QED
  BY <1>4, <1>5, <1>8, <1>9, <1>10, <1>11, <1>12, <1>13, StepIs

LEMMA ObjStep ==
    ASSUME Shapes, ConnInv, ObjInv, [Next]_vars
    PROVE  ObjInv'
<1>1. (\A h \in Objects : Fresh(h) => Unused(h) /\ (closed \/ ~sim[h].closed))'
  BY UnusedStep
<1>2. (\A h \in Remote : closed \/ handler[h].obj = None \/ sim[handler[h].obj].closed
                            \/ streams[h[2]] = handler[h].obj)'
  BY HoldStep
<1>3. (\A s \in Streams : streams[s] # None =>
          /\ closed \/ ~sim[streams[s]].closed
          /\ Held(streams[s]) \/ handler[streams[s]].at = "done")'
  BY CreatorStep
<1> QED
  BY <1>1, <1>2, <1>3 DEF ObjInv

-----------------------------------------------------------------------------
(* RecordedLayerIsSent: a new object has no sender yet, and whoever changes *)
(* a record changes the sender of the same peer with it.                   *)
LEMMA SentStep ==
    ASSUME Shapes, ConnInv, ObjInv, RecordedLayerIsSent, [Next]_vars
    PROVE  RecordedLayerIsSent'
<1>1. SUFFICES ASSUME NEW s \in Streams, NEW c \in InRoom', subs'[c][s] # None,
                      subs'[c][s].obj = streams'[s]
               PROVE  sim'[subs'[c][s].obj].subscribers[Owner[c]] = subs'[c][s].layer
  BY DEF RecordedLayerIsSent
<1> DEFINE t == subs'[c][s]
           Goal == sim'[t.obj].subscribers[Owner[c]] = t.layer
<1> SUFFICES Goal
    OBVIOUS
<1>0. /\ MemberShape /\ InRoom \subseteq Conns /\ s \in Media /\ s \notin Plain
      /\ \A d \in Conns : Owner[d] \in Users
      /\ \A d \in Conns : subs[d][s] # None => subs[d][s].obj \in Objects
                                             /\ subs[d][s].obj[2] = s
      /\ streams[s] # None => streams[s] \in Objects /\ streams[s][2] = s
      /\ \A d, e \in InRoom : Owner[d] = Owner[e] => d = e
  <2>1. InRoom \subseteq Conns /\ \A d, e \in InRoom : Owner[d] = Owner[e] => d = e
    BY InRoomIs, PeerIs, RoomAssumption DEF RoomIsSeats, Shapes
  <2> QED
    BY <2>1, RoomAssumption DEF Shapes, SubShape, StreamSender, TrackShape, Media
<1>2. \A o, q : Sender(o, q).obj = o /\ Sender(o, q).layer = q
  BY DEF Sender
<1>3. ASSUME c \in InRoom, subs'[c][s] = subs[c][s], streams'[s] = streams[s],
             streams[s] \in Objects =>
                sim'[streams[s]].subscribers[Owner[c]] = sim[streams[s]].subscribers[Owner[c]]
      PROVE  Goal
  BY <1>0, <1>1, <1>3 DEF RecordedLayerIsSent
<1>4. CASE Quiet
  BY <1>0, <1>1, <1>3, <1>4 DEF Quiet, MapsKept
<1>5. ASSUME NEW u \in Users, NEW gone, Removed(u, gone) PROVE Goal
  <2>1. c \in InRoom /\ c \in Conns /\ subs'[c][s] = subs[c][s] /\ c # Peer(u)
    BY <1>0, <1>1, <1>5 DEF Removed
  <2>2. streams'[s] = streams[s]
    BY <1>0, <1>1, <1>5, <2>1, RoomAssumption DEF Removed
  <2>3. Owner[c] \in Users \ {u}
    BY <1>0, <2>1, PeerIs
  <2> QED
    <3>1. streams[s] \in Objects =>
             sim'[streams[s]].subscribers[Owner[c]] = sim[streams[s]].subscribers[Owner[c]]
      <4>1. \A o \in Objects : \A v \in Users \ {u} :
               sim'[o].subscribers[v] = sim[o].subscribers[v]
        BY <1>5 DEF Removed
      <4> QED
        BY <2>3, <4>1
    <3> HIDE DEF Goal
    <3> QED
      BY <1>3, <2>1, <2>2, <3>1
<1>6. ASSUME NEW d \in Conns, Joined(d) PROVE Goal
  <2>1. streams'[s] = streams[s]
    BY <1>6 DEF Joined
  <2>2. CASE c = d
    <3>1. t = JoinSubs(d)[s]
      BY <1>0, <1>6, <2>2 DEF Joined
    <3> QED
      BY <1>1, <1>2, <1>6, <2>2, <3>1 DEF Joined
  <2>3. CASE c # d
    <3>1. c \in InRoom /\ Owner[c] \in Users \ {Owner[d]}
      BY <1>0, <1>1, <1>6, <2>3 DEF Joined
    <3>2. subs'[c][s] = subs[c][s]
      BY <1>0, <1>6, <2>3, <3>1 DEF Joined
    <3> QED
      BY <1>3, <1>6, <2>1, <3>1, <3>2 DEF Joined
  <2> QED
    BY <2>2, <2>3
<1>7. ASSUME NEW d \in InRoom, NEW r \in Streams, NEW q \in Layers, streams[r] # None,
             Chosen(d, r, q), MapsKept
      PROVE  Goal
  <2>1. c \in InRoom /\ streams'[s] = streams[s] /\ Owner[c] \in Users
    BY <1>0, <1>1, <1>7 DEF MapsKept
  <2>2. CASE c = d /\ s = r
    <3>1. t = Sender(streams[s], q)
      BY <1>0, <1>7, <2>1, <2>2 DEF Chosen
    <3> QED
      <4>1. streams[s] \in Objects /\ sim'[streams[s]].subscribers[Owner[c]] = q
        BY <1>0, <1>7, <2>1, <2>2 DEF Chosen
      <4> QED
        BY <1>2, <3>1, <4>1
  <2>3. CASE c # d \/ s # r
    <3>1. subs'[c][s] = subs[c][s]
      BY <1>0, <1>7, <2>1, <2>3 DEF Chosen
    <3>2. ASSUME streams[s] \in Objects PROVE streams[s] # streams[r] \/ Owner[c] # Owner[d]
      BY <1>0, <1>7, <2>1, <2>3, <3>2, RoomAssumption DEF Shapes, TrackShape
    <3> QED
      BY <1>3, <1>7, <2>1, <3>1, <3>2 DEF Chosen
  <2> QED
    BY <2>2, <2>3
<1>8. CASE Watched
  BY <1>1, <1>3, <1>8 DEF Watched
<1>9. CASE Ended
  BY <1>1, <1>9 DEF Ended
<1>10. ASSUME NEW h \in Remote, Found(h) PROVE Goal
  <2>1. c \in InRoom /\ c \in Conns /\ UNCHANGED <<sim, subs>>
    BY <1>0, <1>1, <1>10 DEF Found
  <2>2. CASE streams'[s] = streams[s]
    BY <1>3, <2>1, <2>2
  <2>3. CASE streams'[s] # streams[s]
    <3>1. streams'[s] = h /\ h[2] = s /\ h \in Objects /\ Fresh(h)
      BY <1>10, <2>3 DEF Found, Fresh
    <3>2. Unused(h)
      BY <3>1 DEF ObjInv
    <3> QED
      BY <1>1, <2>1, <3>1, <3>2 DEF Unused
  <2> QED
    BY <2>2, <2>3
<1>11. ASSUME NEW o \in Objects, NEW q \in Layers, Subscribed(o, q), MapsKept PROVE Goal
  <2>1. c \in InRoom /\ c \in Conns /\ streams'[s] = streams[s] /\ Owner[c] \in Users
    BY <1>0, <1>1, <1>11 DEF MapsKept
  <2>2. CASE s = o[2] /\ ~Skips(c, s)
    <3>1. t = Sender(o, q)
      BY <1>0, <1>11, <2>1, <2>2 DEF Subscribed
    <3>2. sim'[o].subscribers[Owner[c]] = q
      BY <1>11, <2>1, <2>2 DEF Subscribed
    <3> QED
      BY <1>2, <3>1, <3>2
  <2>3. CASE s # o[2] \/ Skips(c, s)
    <3>1. subs'[c][s] = subs[c][s]
      BY <1>0, <1>11, <2>1, <2>3 DEF Subscribed
    <3>2. ASSUME streams[s] \in Objects, streams[s] = o
          PROVE  ~ \E d \in InRoom : ~Skips(d, o[2]) /\ Owner[d] = Owner[c]
      <4>1. o[2] = s
        BY <1>0, <3>2, RoomAssumption
      <4> QED
        BY <1>0, <2>1, <2>3, <4>1
    <3>3. streams[s] \in Objects =>
             sim'[streams[s]].subscribers[Owner[c]] = sim[streams[s]].subscribers[Owner[c]]
      BY <1>11, <2>1, <3>2 DEF Subscribed
    <3> QED
      BY <1>3, <2>1, <3>1, <3>3
  <2> QED
    BY <2>2, <2>3
<1>12. ASSUME NEW h \in Remote, HandlerEffect(h) PROVE Goal
  <2>1. CASE Waited(h) \/ GaveUp(h)
    BY <1>4, <2>1 DEF Waited, GaveUp
  <2>2. CASE Routed(h)
    <3>1. c \in InRoom /\ subs'[c][s] = subs[c][s] /\ UNCHANGED <<streams, sim>>
      BY <1>0, <1>1, <2>2 DEF Routed
    <3> QED
      BY <1>3, <3>1
  <2>3. CASE Layered(h)
    BY <1>1, <1>3, <2>3 DEF Layered, MapsKept
  <2>4. CASE Attached(h) \/ Offered(h)
    <3>1. handler[h].obj \in Objects /\ h \in Objects
      BY <2>4 DEF Attached, Offered, Shapes, HandlerShape, Working
    <3>2. h[3] \in Layers
      BY <3>1, RoomAssumption DEF Objects
    <3>3. MapsKept /\ (UNCHANGED <<sim, subs>> \/ Subscribed(handler[h].obj, h[3]))
      BY <2>4 DEF Attached, Offered
    <3> QED
      BY <1>1, <1>3, <1>11, <3>1, <3>2, <3>3 DEF MapsKept
  <2> QED
    BY <1>10, <1>12, <2>1, <2>2, <2>3, <2>4 DEF HandlerEffect
<1> HIDE DEF Goal
<1> QED
  BY <1>4, <1>5, <1>6, <1>7, <1>8, <1>9, <1>12, StepIs DEF Chooses

-----------------------------------------------------------------------------
(* ObserverSeesAll, track by track and layer by layer.                     *)
SeesPlain == \A x \in observers, m \in Plain :
                tracks[m] # None => <<x, TrackOf(m)>> \in sinks

Adding(o, q) == \E h \in Remote :
                   handler[h].at = "added" /\ handler[h].obj = o /\ h[3] = q

SeesLayers == \A x \in observers, s \in Streams, q \in Layers :
                 streams[s] # None /\ sim[streams[s]].layers[q] # None =>
                    \/ <<x, <<streams[s], q, sim[streams[s]].layers[q]>>>> \in sinks
                    \/ Adding(streams[s], q)

SeesParts == ObserverSeesAll <=> closed \/ (SeesPlain /\ SeesLayers)

LEMMA SeesIs == SeesParts
<1>1. ASSUME NEW x, NEW o
      PROVE  (\A t \in LayerTracks(o) :
                  \/ <<x, t>> \in sinks
                  \/ \E h \in Remote : /\ handler[h].at = "added"
                                       /\ handler[h].obj = t[1] /\ h[3] = t[2])
             <=> \A q \in Layers : sim[o].layers[q] # None =>
                    <<x, <<o, q, sim[o].layers[q]>>>> \in sinks \/ Adding(o, q)
  <2>1. \A q \in Layers : /\ <<o, q, sim[o].layers[q]>>[1] = o
                          /\ <<o, q, sim[o].layers[q]>>[2] = q
    OBVIOUS
  <2> QED
    BY <2>1 DEF LayerTracks, Has, Adding
<1>2. SeesLayers <=>
        \A x \in observers : \A s \in Streams : streams[s] # None =>
           \A q \in Layers : sim[streams[s]].layers[q] # None =>
              \/ <<x, <<streams[s], q, sim[streams[s]].layers[q]>>>> \in sinks
              \/ Adding(streams[s], q)
  BY DEF SeesLayers
<1> QED
  BY <1>1, <1>2 DEF SeesParts, ObserverSeesAll, SeesPlain

LEMMA PairIsNoTriple == \A a, b, c, d, e : <<a, b>> # <<c, d, e>>
<1>1. \A a, b, c, d, e : Len(<<a, b>>) = 2 /\ Len(<<c, d, e>>) = 3
  OBVIOUS
<1> QED
  BY <1>1

LEMMA SeesPlainStep ==
    ASSUME Shapes, ConnInv, SeesPlain, [Next]_vars, ~closed'
    PROVE  SeesPlain'
<1>1. SUFFICES ASSUME NEW x \in observers', NEW m \in Plain, tracks'[m] # None
               PROVE  <<x, <<m, tracks'[m]>>>> \in sinks'
  BY DEF SeesPlain, TrackOf
<1>2. ASSUME x \in observers, tracks'[m] = tracks[m],
             <<x, TrackOf(m)>> \in sinks => <<x, TrackOf(m)>> \in sinks'
      PROVE  <<x, <<m, tracks'[m]>>>> \in sinks'
  BY <1>1, <1>2 DEF SeesPlain, TrackOf
<1>3. \A T : sinks \subseteq AttachAll(T) /\ \A y \in T : <<x, y>> \in AttachAll(T) \/ x \notin observers
  BY DEF AttachAll
<1>4. CASE UNCHANGED <<tracks, observers>> /\ sinks \subseteq sinks'
  BY <1>2, <1>4
<1>5. ASSUME NEW u, NEW gone, Removed(u, gone)
      PROVE  <<x, <<m, tracks'[m]>>>> \in sinks'
  <2>1. m \notin gone /\ tracks'[m] = tracks[m] /\ x \in observers
    BY <1>1, <1>5 DEF Removed
  <2>3. \A n \in gone : TrackOf(m) # TrackOf(n)
    BY <2>1 DEF TrackOf
  <2>4. \A o : TrackOf(m) \notin LayerTracks(o)
    BY PairIsNoTriple DEF TrackOf, LayerTracks
  <2>5. <<x, TrackOf(m)>> \in sinks => <<x, TrackOf(m)>> \in sinks'
    <3>1. <<x, TrackOf(m)>>[2] = TrackOf(m)
      OBVIOUS
    <3> QED
      BY <1>5, <2>3, <2>4, <3>1 DEF Removed
  <2> QED
    BY <1>2, <2>1, <2>5
<1>6. CASE Watched
  <2>1. ASSUME NEW y \in Observers, AddObserver(y) PROVE <<x, <<m, tracks'[m]>>>> \in sinks'
    <3>1. tracks' = tracks /\ x \in observers \cup {y} /\ sinks \subseteq sinks'
            /\ <<y, TrackOf(m)>> \in sinks'
      BY <1>1, <1>6, <2>1 DEF AddObserver, Watched
    <3> QED
      BY <1>2, <3>1 DEF TrackOf
  <2> QED
    BY <1>1, <1>2, <1>6, <2>1 DEF Watched
<1>7. ASSUME NEW h \in Remote, HandlerEffect(h) PROVE <<x, <<m, tracks'[m]>>>> \in sinks'
  <2>1. CASE Routed(h)
    <3>1. CASE m = h[2]
      BY <1>1, <1>3, <2>1, <3>1 DEF Routed
    <3>2. CASE m # h[2]
      BY <1>1, <1>2, <1>3, <2>1, <3>2 DEF Routed
    <3> QED
      BY <3>1, <3>2
  <2>2. CASE Waited(h) \/ GaveUp(h) \/ Found(h) \/ Layered(h) \/ Attached(h) \/ Offered(h)
    <3>1. UNCHANGED <<tracks, observers>>
      BY <2>2 DEF Waited, GaveUp, Found, Layered, Attached, Offered, Quiet, MapsKept
    <3>2. sinks \subseteq sinks'
      <4>1. CASE Attached(h)
        BY <4>1 DEF Attached, AttachAll
      <4> QED
        BY <2>2, <4>1 DEF Waited, GaveUp, Found, Layered, Offered, Quiet
    <3> QED
      BY <1>4, <3>1, <3>2
  <2> QED
    BY <1>7, <2>1, <2>2 DEF HandlerEffect
<1>8. CASE Quiet \/ Chooses \/ \E c \in Conns : Joined(c)
  BY <1>4, <1>8 DEF Quiet, Chooses, Joined, MapsKept
<1> QED
  BY <1>5, <1>6, <1>7, <1>8, StepIs DEF Ended

LEMMA SeesLayersStep ==
    ASSUME Shapes, ConnInv, ObjInv, SeesLayers, [Next]_vars, ~closed'
    PROVE  SeesLayers'
<1>1. SUFFICES ASSUME NEW x \in observers', NEW s \in Streams, NEW q \in Layers,
                      streams'[s] # None, sim'[streams'[s]].layers[q] # None
               PROVE  \/ <<x, <<streams'[s], q, sim'[streams'[s]].layers[q]>>>> \in sinks'
                      \/ Adding(streams[s], q)'
  BY DEF SeesLayers
<1> DEFINE o == streams[s]
           f == sim[o].layers[q]
           Goal == \/ <<x, <<streams'[s], q, sim'[streams'[s]].layers[q]>>>> \in sinks'
                   \/ Adding(streams[s], q)'
<1> SUFFICES Goal
    OBVIOUS
<1>0. /\ o # None => o \in Objects /\ o[2] = s
      /\ Done.at = "done"
  BY DEF Shapes, TrackShape, Done, NoHandler
<1>2. ASSUME x \in observers, streams'[s] = o, sim'[o].layers[q] = f,
             <<x, <<o, q, f>>>> \in sinks => <<x, <<o, q, f>>>> \in sinks',
             Adding(o, q) => Goal
      PROVE  Goal
  BY <1>1, <1>2 DEF SeesLayers
<1>3. ASSUME streams'[s] = o, handler' = handler PROVE Adding(o, q) => Goal
  BY <1>3 DEF Adding
<1>4. ASSUME NEW h \in Remote, NEW r, Moved(h, r), handler[h].at # "added", streams'[s] = o
      PROVE  Adding(o, q) => Goal
  BY <1>4 DEF Adding, Moved
<1>5. \A T : sinks \subseteq AttachAll(T) /\ \A y \in T : <<x, y>> \in AttachAll(T) \/ x \notin observers
  BY DEF AttachAll
<1>6. ASSUME UNCHANGED <<streams, observers>>, sinks \subseteq sinks', sim'[o].layers[q] = f,
             Adding(o, q) => Goal
      PROVE  Goal
  <2> HIDE DEF Goal
  <2> QED
    BY <1>2, <1>6
<1>7. ASSUME NEW u, NEW gone, Removed(u, gone), handler' = handler PROVE Goal
  <2>1. s \notin gone /\ streams'[s] = o /\ x \in observers /\ o \in Objects
    BY <1>0, <1>1, <1>7 DEF Removed
  <2>2. \A t \in gone \cap Streams : streams[t] # o
    BY <1>0, <2>1, RoomAssumption DEF Shapes, TrackShape
  <2>3. \A t \in gone \cap Streams : <<o, q, f>> \notin LayerTracks(streams[t])
    BY <2>2 DEF LayerTracks
  <2>4. \A m : <<o, q, f>> # TrackOf(m)
    BY PairIsNoTriple DEF TrackOf
  <2>5. <<x, <<o, q, f>>>>[2] = <<o, q, f>>
    OBVIOUS
  <2>6. <<x, <<o, q, f>>>> \in sinks => <<x, <<o, q, f>>>> \in sinks'
    BY <1>7, <2>3, <2>4, <2>5 DEF Removed
  <2>7. sim'[o].layers[q] = f
    BY <1>7, <2>1 DEF Removed, SimSays
  <2> HIDE DEF Goal
  <2> QED
    BY <1>2, <1>3, <1>7, <2>1, <2>6, <2>7
<1>8. CASE Watched
  <2>1. UNCHANGED <<streams, sim, handler>>
    BY <1>8 DEF Watched
  <2>2. ASSUME NEW y \in Observers, AddObserver(y) PROVE Goal
    <3>1. /\ x \in observers \cup {y} /\ sinks \subseteq sinks'
          /\ \A l \in LayerTracks(o) : <<y, l>> \in sinks'
      BY <1>1, <2>1, <2>2 DEF AddObserver
    <3>2. <<o, q, f>> \in LayerTracks(o)
      BY <1>1, <2>1 DEF LayerTracks, Has
    <3>3. CASE x = y
      BY <2>1, <3>1, <3>2, <3>3
    <3>4. CASE x # y
      <4> HIDE DEF Goal
      <4> QED
        BY <1>2, <1>3, <2>1, <3>1, <3>4
    <3> QED
      BY <3>3, <3>4
  <2>3. CASE observers' \subseteq observers /\ sinks' = sinks
    <3> HIDE DEF Goal
    <3> QED
      BY <1>1, <1>2, <1>3, <2>1, <2>3
  <2> QED
    BY <1>8, <2>2, <2>3 DEF Watched
<1>9. ASSUME NEW c \in Conns, Joined(c), handler' = handler PROVE Goal
  <2>1. streams' = streams /\ sim'[o].layers[q] = f /\ UNCHANGED <<observers, sinks>>
    BY <1>0, <1>1, <1>9 DEF Joined, SimSays
  <2> HIDE DEF Goal
  <2> QED
    BY <1>3, <1>6, <1>9, <2>1
<1>10. CASE Chooses
  <2>1. UNCHANGED <<streams, observers, sinks, handler>> /\ sim'[o].layers[q] = f
    BY <1>0, <1>1, <1>10 DEF Chooses, Chosen, MapsKept, SimSays
  <2> HIDE DEF Goal
  <2> QED
    BY <1>3, <1>6, <2>1
<1>11. ASSUME Quiet, Adding(o, q) => Goal PROVE Goal
  <2> HIDE DEF Goal
  <2> QED
    BY <1>6, <1>11 DEF Quiet, MapsKept
<1>12. ASSUME NEW h \in Remote, HandlerEffect(h) PROVE Goal
  <2>1. CASE Waited(h) \/ GaveUp(h)
    <3>1. Quiet /\ streams' = streams /\ handler[h].at # "added" /\ \E r : Moved(h, r)
      BY <2>1 DEF Waited, GaveUp, Quiet, MapsKept, Working
    <3> HIDE DEF Goal
    <3> QED
      BY <1>4, <1>11, <3>1
  <2>2. CASE Routed(h)
    <3>1. /\ UNCHANGED <<streams, sim, observers>> /\ sinks \subseteq sinks'
          /\ handler[h].at # "added" /\ Moved(h, Done)
      BY <1>5, <2>2 DEF Routed, Working
    <3> HIDE DEF Goal
    <3> QED
      BY <1>4, <1>6, <3>1
  <2>3. CASE Found(h)
    <3>1. UNCHANGED <<sim, observers, sinks>> /\ handler[h].at # "added" /\ \E r : Moved(h, r)
      BY <2>3 DEF Found
    <3>2. CASE streams'[s] = o
      <4> HIDE DEF Goal
      <4> QED
        BY <1>2, <1>4, <3>1, <3>2
    <3>3. CASE streams'[s] # o
      <4>1. streams'[s] = h /\ h \in Objects /\ Fresh(h)
        BY <2>3, <3>3 DEF Found, Fresh
      <4> QED
        BY <1>1, <3>1, <4>1 DEF ObjInv, Unused
    <3> QED
      BY <3>2, <3>3
  <2>4. CASE Layered(h)
    <3>1. UNCHANGED <<streams, observers, sinks>> /\ handler[h].at = "found" /\ o \in Objects
      BY <1>0, <1>1, <2>4 DEF Layered, MapsKept
    <3>2. CASE o = handler[h].obj /\ q = h[3]
      BY <2>4, <3>1, <3>2 DEF Layered, Moved, Adding
    <3>3. CASE ~(o = handler[h].obj /\ q = h[3])
      <4>1. sim'[o].layers[q] = f /\ \E r : Moved(h, r)
        BY <2>4, <3>1, <3>3 DEF Layered, SimSays
      <4> HIDE DEF Goal
      <4> QED
        BY <1>4, <1>6, <3>1, <4>1
    <3> QED
      BY <3>2, <3>3
  <2>5. CASE Attached(h)
    <3>1. /\ UNCHANGED <<streams, observers>> /\ sinks \subseteq sinks'
          /\ <<x, <<handler[h].obj, h[3], sim[handler[h].obj].layers[h[3]]>>>> \in sinks'
      BY <1>1, <1>5, <2>5 DEF Attached, MapsKept
    <3>2. sim'[o].layers[q] = f /\ \E r : Moved(h, r)
      BY <1>0, <1>1, <2>5, <3>1 DEF Attached, Subscribed, SimSays
    <3>3. CASE o = handler[h].obj /\ q = h[3]
      BY <3>1, <3>2, <3>3
    <3>4. CASE ~(o = handler[h].obj /\ q = h[3])
      <4>1. Adding(o, q) => Goal
        BY <3>1, <3>2, <3>4 DEF Adding, Moved
      <4> HIDE DEF Goal
      <4> QED
        BY <1>6, <3>1, <3>2, <4>1
    <3> QED
      BY <3>3, <3>4
  <2>6. CASE Offered(h)
    <3>1. /\ UNCHANGED <<streams, observers, sinks>> /\ sim'[o].layers[q] = f
          /\ handler[h].at # "added" /\ Moved(h, Done)
      BY <1>0, <1>1, <2>6 DEF Offered, MapsKept, Subscribed, SimSays
    <3> HIDE DEF Goal
    <3> QED
      BY <1>4, <1>6, <3>1
  <2> QED
    BY <1>12, <2>1, <2>2, <2>3, <2>4, <2>5, <2>6 DEF HandlerEffect
<1>13. CASE Quiet /\ handler' = handler
  <2>1. streams'[s] = o
    BY <1>13 DEF Quiet, MapsKept
  <2> HIDE DEF Goal
  <2> QED
    BY <1>3, <1>11, <1>13, <2>1
<1> HIDE DEF Goal
<1> QED
  BY <1>7, <1>8, <1>9, <1>10, <1>12, <1>13, StepIs DEF Ended

-----------------------------------------------------------------------------
(* StreamFanout, from the side of the handler that created the object: it  *)
(* is done with it only after the object has a layer, and everyone in the  *)
(* room a sender.                                                          *)
GivenTo(c, s) ==
    \/ Skips(c, s)
    \/ subs[c][s] # None /\ (subs[c][s].obj = streams[s] \/ sim[subs[c][s].obj].closed)

Given ==
    closed \/ \A s \in Streams :
        streams[s] # None /\ handler[streams[s]].at = "done" =>
           /\ \E q \in Layers : sim[streams[s]].layers[q] # None
           /\ \A c \in InRoom : GivenTo(c, s)

LEMMA GivenIs ==
    ASSUME Shapes, ConnInv, ObjInv, Given
    PROVE  StreamFanout
<1>1. SUFFICES ASSUME NEW s \in Streams, streams[s] # None, ~Busy(streams[s]), NEW c \in InRoom
               PROVE  GivenTo(c, s)
  BY DEF StreamFanout, GivenTo
<1>2. ~closed /\ streams[s] \in Remote
  BY <1>1 DEF ConnInv, Shapes, TrackShape, Objects
<1>3. handler[streams[s]].at = "done"
  BY <1>1, <1>2 DEF ObjInv, Held, Busy, Working
<1> QED
  BY <1>1, <1>2, <1>3 DEF Given

LEMMA RoomKept ==
    ASSUME NEW h \in Remote, HandlerEffect(h)
    PROVE  closed' = closed /\ InRoom' = InRoom
<1>1. CASE Waited(h) \/ GaveUp(h) \/ Layered(h) \/ Offered(h)
  BY <1>1 DEF Waited, GaveUp, Layered, Offered, Quiet, MapsKept
<1>2. CASE Routed(h) \/ Found(h)
  BY <1>2 DEF Routed, Found
<1>3. CASE Attached(h)
  BY <1>3 DEF Attached, MapsKept
<1> QED
  BY <1>1, <1>2, <1>3 DEF HandlerEffect

LEMMA ClosedStays ==
    ASSUME Shapes, ConnInv, [Next]_vars
    PROVE  closed => closed'
  BY StepIs, RoomKept DEF Quiet, MapsKept, Chooses, Watched, Ended

LEMMA GivenStep ==
    ASSUME Shapes, ConnInv, ObjInv, Given, [Next]_vars
    PROVE  Given'
<1>1. SUFFICES ASSUME ~closed', NEW s \in Streams, streams'[s] # None,
                      handler'[streams'[s]].at = "done"
               PROVE  /\ \E q \in Layers : sim'[streams'[s]].layers[q] # None
                      /\ \A c \in InRoom' : GivenTo(c, s)'
  BY DEF Given
<1> DEFINE o == streams[s]
           Layer == \E q \in Layers : sim'[streams'[s]].layers[q] # None
           All == \A c \in InRoom' : GivenTo(c, s)'
<1> SUFFICES Layer /\ All
    OBVIOUS
<1>0. /\ InRoom \subseteq Conns /\ s \in Media /\ s \notin Plain
      /\ \A c : Skips(c, s)' <=> Skips(c, s)
      /\ \A c \in Conns : subs[c][s] # None => subs[c][s].obj \in Objects
      /\ \A p \in Objects : sim[p].closed => sim'[p].closed
      /\ \A p \in Objects, q \in Layers : sim[p].layers[q] # None => sim'[p].layers[q] # None
      /\ o # None => /\ o \in Objects /\ o \in Remote /\ o[2] = s
                     /\ closed \/ ~sim[o].closed
                     /\ Held(o) \/ handler[o].at = "done"
  <2>1. \A p \in Objects : /\ sim[p].closed => sim'[p].closed
                           /\ \A q \in Layers : sim[p].layers[q] # None => sim'[p].layers[q] # None
    BY LayersStep
  <2>2. InRoom \subseteq Conns /\ s \in Media /\ s \notin Plain
    BY InRoomIs, RoomAssumption DEF RoomIsSeats, Shapes, Media
  <2>3. \A c \in Conns : subs[c][s] # None => subs[c][s].obj \in Objects
    BY DEF Shapes, SubShape, StreamSender
  <2> QED
    BY <2>1, <2>2, <2>3 DEF Shapes, TrackShape, ObjInv, Objects, Skips
(* One connection at a time.                                               *)
<1>2. ASSUME NEW c \in InRoom, GivenTo(c, s), subs'[c][s] = subs[c][s], streams'[s] = o
      PROVE  GivenTo(c, s)'
  BY <1>0, <1>2 DEF GivenTo
<1>3. ASSUME NEW c, NEW p \in Objects, NEW q \in Layers, sim[p].layers[q] # None,
             subs'[c][s] = Sender(p, q), p = streams'[s] \/ sim'[p].closed
      PROVE  GivenTo(c, s)'
  <2>1. Sender(p, q) # None /\ Sender(p, q).obj = p
    BY <1>3, SenderIs DEF Shapes
  <2> QED
    BY <1>3, <2>1 DEF GivenTo
<1>4. ASSUME streams'[s] = o, handler[o].at = "done"
      PROVE  /\ Layer
             /\ \E q \in Layers : sim[o].layers[q] # None
             /\ \A c \in InRoom : GivenTo(c, s)
  <2>1. o # None /\ o \in Objects /\ ~closed
    BY <1>0, <1>1, <1>4, ClosedStays
  <2>2. /\ \E q \in Layers : sim[o].layers[q] # None
        /\ \A c \in InRoom : GivenTo(c, s)
    BY <1>4, <2>1 DEF Given
  <2> QED
    BY <1>0, <1>4, <2>1, <2>2
<1>5. ASSUME streams'[s] = o, handler' = handler \/ handler'[o] = handler[o],
             \A c \in InRoom' : c \in InRoom /\ subs'[c][s] = subs[c][s]
      PROVE  Layer /\ All
  <2>1. handler[o].at = "done"
    BY <1>1, <1>5
  <2> QED
    BY <1>2, <1>4, <1>5, <2>1
<1>6. CASE Quiet /\ handler' = handler
  BY <1>0, <1>5, <1>6 DEF Quiet, MapsKept
<1>7. ASSUME NEW u, NEW gone, Removed(u, gone), handler' = handler PROVE Layer /\ All
  <2>1. streams'[s] = o /\ s \notin gone
    BY <1>1, <1>7 DEF Removed
  <2>2. \A c \in InRoom' : c \in InRoom /\ subs'[c][s] = subs[c][s]
    BY <1>0, <1>7, <2>1 DEF Removed
  <2> HIDE DEF Layer, All
  <2> QED
    BY <1>5, <1>7, <2>1, <2>2
<1>8. ASSUME NEW d \in Conns, Joined(d), handler' = handler PROVE Layer /\ All
  <2>1. streams'[s] = o /\ handler[o].at = "done" /\ o # None /\ o \in Objects
    BY <1>0, <1>1, <1>8 DEF Joined
  <2>2. PICK q \in Layers : sim[o].layers[q] # None
    BY <1>4, <2>1
  <2>3. ASSUME NEW c \in InRoom', c # d PROVE GivenTo(c, s)'
    BY <1>0, <1>2, <1>4, <1>8, <2>1, <2>3 DEF Joined
  <2>4. GivenTo(d, s)'
    <3>1. CASE Skips(d, s)
      BY <1>0, <3>1 DEF GivenTo
    <3>2. CASE ~Skips(d, s)
      <4>1. Has(o, q) /\ Preferred(d) \in {"f", "h", "q"}
        BY <2>2 DEF Has, Preferred
      <4>2. JoinLayer(d, o) \in Layers /\ Has(o, JoinLayer(d, o))
        BY <2>1, <4>1, BestLayerHas DEF JoinLayer
      <4>3. JoinSubs(d)[s] = Sender(o, JoinLayer(d, o))
        BY <1>0, <2>1, <3>2, <4>2 DEF JoinSubs
      <4>4. subs'[d][s] = Sender(o, JoinLayer(d, o))
        BY <1>0, <1>8, <4>3 DEF Joined
      <4> QED
        BY <1>3, <2>1, <4>2, <4>4 DEF Has
    <3> QED
      BY <3>1, <3>2
  <2> QED
    BY <1>4, <2>1, <2>3, <2>4
<1>9. ASSUME NEW d \in InRoom, NEW r \in Streams, NEW q \in Layers, streams[r] # None,
             sim[streams[r]].layers[q] # None, Chosen(d, r, q), MapsKept, handler' = handler
      PROVE  Layer /\ All
  <2>1. streams'[s] = o /\ handler[o].at = "done" /\ o # None /\ o \in Objects /\ InRoom' = InRoom
    BY <1>0, <1>1, <1>9 DEF MapsKept
  <2>2. ASSUME NEW c \in InRoom PROVE GivenTo(c, s)'
    <3>1. CASE c = d /\ s = r
      <4>1. subs'[c][s] = Sender(o, q)
        BY <1>0, <1>9, <3>1 DEF Chosen
      <4> QED
        BY <1>3, <1>9, <2>1, <3>1, <4>1
    <3>2. CASE ~(c = d /\ s = r)
      <4>1. subs'[c][s] = subs[c][s]
        BY <1>0, <1>9, <3>2 DEF Chosen
      <4> QED
        BY <1>2, <1>4, <2>1, <4>1
    <3> QED
      BY <3>1, <3>2
  <2> QED
    BY <1>4, <2>1, <2>2
<1>10. CASE Watched
  BY <1>5, <1>10 DEF Watched
<1>11. ~Ended
  BY <1>1 DEF Ended
<1>12. ASSUME NEW h \in Remote, HandlerEffect(h) PROVE Layer /\ All
  <2>0. closed' = closed /\ InRoom' = InRoom /\ ~closed
    BY <1>1, <1>12, RoomKept
  <2>1. CASE Found(h)
    <3>1. h # streams'[s]
      BY <1>1, <2>1 DEF Found, Moved
    <3>2. streams'[s] = o
      BY <2>1, <3>1 DEF Found
    <3>3. handler'[o] = handler[o] /\ \A c \in InRoom : subs'[c][s] = subs[c][s]
      BY <1>0, <1>1, <2>1, <3>1, <3>2 DEF Found, Moved
    <3> HIDE DEF Layer, All
    <3> QED
      BY <1>5, <2>0, <3>2, <3>3
  <2>2. ASSUME ~Found(h) PROVE streams'[s] = o /\ o # None /\ o \in Objects /\ o \in Remote
    <3>1. streams' = streams
      BY <1>12, <2>2 DEF HandlerEffect, Waited, GaveUp, Routed, Layered, Attached, Offered,
           Quiet, MapsKept
    <3> QED
      BY <1>0, <1>1, <3>1
(* A handler that works on the object of the stream, or on a closed one.   *)
  <2>3. ASSUME NEW q \in Layers, h \in Objects, handler[h].at \in {"added", "attached"}, q = h[3],
               Subscribed(handler[h].obj, q), ~Found(h), Moved(h, Done)
        PROVE  Layer /\ All
    <3> DEFINE p == handler[h].obj
    <3>1. /\ p \in Objects /\ p[2] = h[2] /\ sim[p].layers[q] # None
          /\ sim[p].closed \/ streams[h[2]] = p
      BY <2>0, <2>3, RoomAssumption DEF Shapes, HandlerShape, ObjInv, Working
    <3>2. ASSUME NEW c \in InRoom, s = p[2] PROVE GivenTo(c, s)'
      <4>1. CASE Skips(c, s)
        BY <1>0, <4>1 DEF GivenTo
      <4>2. CASE ~Skips(c, s)
        <5>1. subs'[c][s] = Sender(p, q)
          BY <1>0, <2>3, <3>2, <4>2 DEF Subscribed
        <5>2. p = streams'[s] \/ sim'[p].closed
          BY <1>0, <2>2, <2>3, <3>1, <3>2
        <5> QED
          BY <1>3, <3>1, <5>1, <5>2
      <4> QED
        BY <4>1, <4>2
    <3>3. CASE s = p[2]
      <4>1. Layer
        <5>1. CASE handler[o].at = "done"
          BY <1>4, <2>2, <2>3, <5>1
        <5>2. CASE handler[o].at # "done"
          <6>1. o = h /\ p = o
            BY <1>0, <1>1, <2>2, <2>3, <5>2 DEF Moved, Held
          <6> QED
            BY <1>0, <2>2, <2>3, <3>1, <6>1
        <5> QED
          BY <5>1, <5>2
      <4> QED
        BY <2>0, <3>2, <3>3, <4>1
    <3>4. CASE s # p[2]
      <4>1. \A c \in InRoom : subs'[c][s] = subs[c][s]
        BY <1>0, <2>3, <3>4 DEF Subscribed
      <4>2. o # h
        BY <1>0, <2>2, <2>3, <3>1, <3>4
      <4>3. handler'[o] = handler[o]
        BY <2>2, <2>3, <4>2 DEF Moved
      <4> HIDE DEF Layer, All, p
      <4> QED
        BY <1>5, <2>0, <2>2, <2>3, <4>1, <4>3
    <3> QED
      BY <3>3, <3>4
(* A handler that gives nobody a sender is not the creator, or not done.   *)
  <2>4. ASSUME ~Found(h), \A c \in InRoom : subs'[c][s] = subs[c][s], NEW r, Moved(h, r),
               h = o => r.at # "done" \/ handler[h].at = "done"
        PROVE  Layer /\ All
    <3>1. streams'[s] = o /\ handler[o].at = "done"
      BY <1>1, <2>2, <2>4 DEF Moved
    <3>2. \A c \in InRoom : GivenTo(c, s)'
      BY <1>2, <1>4, <2>4, <3>1
    <3> QED
      BY <1>4, <2>0, <3>1, <3>2
  <2>5. CASE Waited(h)
    <3>1. h # o /\ ~Found(h) /\ \A c \in InRoom : subs'[c][s] = subs[c][s]
      BY <1>0, <1>1, <2>5 DEF Waited, Quiet, MapsKept, Held, Working, Found, Moved
    <3> HIDE DEF Layer, All, o
    <3> QED
      BY <2>4, <2>5, <3>1 DEF Waited
  <2>6. CASE GaveUp(h)
    <3>1. ~Found(h) /\ \A c \in InRoom : subs'[c][s] = subs[c][s]
      BY <1>0, <2>6 DEF GaveUp, Quiet, Found
    <3>2. h # o
      BY <1>0, <2>0, <2>2, <2>6, <3>1 DEF GaveUp, Held
    <3> HIDE DEF Layer, All, o
    <3> QED
      BY <2>4, <2>6, <3>1, <3>2 DEF GaveUp
  <2>7. CASE Routed(h)
    <3>1. ~Found(h) /\ \A c \in InRoom : subs'[c][s] = subs[c][s]
      BY <1>0, <2>7, RoomAssumption DEF Routed, Found, Objects
    <3>2. h # o
      BY <1>0, <2>2, <2>7, <3>1 DEF Routed
    <3> HIDE DEF Layer, All, o
    <3> QED
      BY <2>4, <2>7, <3>1, <3>2 DEF Routed
  <2>8. CASE Layered(h)
    <3>1. ~Found(h) /\ \A c \in InRoom : subs'[c][s] = subs[c][s]
      BY <2>8 DEF Layered, Found
    <3> HIDE DEF Layer, All, o
    <3> QED
      BY <2>4, <2>8, <3>1 DEF Layered
  <2>9. CASE Attached(h) \/ Offered(h)
    <3>1. /\ ~Found(h) /\ handler[h].at \in {"added", "attached"}
          /\ h \in Objects /\ h[3] \in Layers
      BY <2>9, RoomAssumption DEF Attached, Offered, Found, Shapes, HandlerShape, Working, Objects
    <3>2. CASE Subscribed(handler[h].obj, h[3]) /\ Moved(h, Done)
      BY <2>3, <3>1, <3>2
    <3>3. CASE ~handler[h].first /\ Moved(h, Done) /\ UNCHANGED <<sim, subs>>
      <4>1. h # o
        BY <1>0, <2>2, <3>1, <3>3 DEF Held
      <4> HIDE DEF Layer, All, o
      <4> QED
        BY <2>4, <3>1, <3>3, <4>1
    <3>4. CASE UNCHANGED subs /\ \E r \in Handler : Moved(h, r) /\ r.at = "attached"
      <4> HIDE DEF Layer, All, o
      <4> QED
        BY <2>4, <3>1, <3>4
    <3> QED
      BY <2>9, <3>2, <3>3, <3>4 DEF Attached, Offered
  <2> QED
    BY <1>12, <2>1, <2>5, <2>6, <2>7, <2>8, <2>9 DEF HandlerEffect
<1> HIDE DEF Layer, All
<1> QED
  BY <1>6, <1>7, <1>8, <1>9, <1>10, <1>11, <1>12, StepIs DEF Chooses

-----------------------------------------------------------------------------
(* All of it together.                                                     *)
FanoutInv == ObjInv /\ Given /\ PlainFanout /\ ObserverSeesAll /\ RecordedLayerIsSent

LEMMA FanoutInit == Init => FanoutInv
<1> SUFFICES ASSUME Init PROVE FanoutInv
    OBVIOUS
<1>1. InRoom = {} /\ observers = {} /\ \A s \in Streams : streams[s] = None
  BY DEF Init, InRoom, Presenting, Watching
<1> QED
  BY <1>1, ObjInit DEF FanoutInv, Given, PlainFanout, ObserverSeesAll, RecordedLayerIsSent

LEMMA ObserverStep ==
    ASSUME Shapes, ConnInv, ObjInv, ObserverSeesAll, [Next]_vars
    PROVE  ObserverSeesAll'
<1>1. SeesParts
  BY SeesIs
<1>2. SeesParts'
  BY SeesIs, PTL
<1>3. ASSUME ~closed' PROVE SeesPlain' /\ SeesLayers'
  <2>1. SeesPlain /\ SeesLayers
    BY <1>1, <1>3, ClosedStays DEF SeesParts
  <2> QED
    BY <1>3, <2>1, SeesPlainStep, SeesLayersStep
<1> QED
  BY <1>2, <1>3 DEF SeesParts

LEMMA FanoutInvAlways == Spec => [](Shapes /\ ConnInv /\ FanoutInv)
<1>1. Init => Shapes /\ ConnInv /\ FanoutInv
  BY ShapesInit, ConnInit, FanoutInit
<1>2. Shapes /\ ConnInv /\ FanoutInv /\ [Next]_vars => (Shapes /\ ConnInv /\ FanoutInv)'
  BY ShapesStep, ObjStep, GivenStep, PlainStep, ObserverStep, SentStep DEF FanoutInv
<1> QED
  BY <1>1, <1>2, PTL DEF Spec

(* Whoever is in the room is given all that is published in it: offers,    *)
(* new tracks, relayed media, observers, quality requests and removals     *)
(* take the lock in any order, and any number of them.                     *)
THEOREM FanoutAlways == Spec => []Fanout
<1>1. Shapes /\ ConnInv /\ FanoutInv => Fanout
  BY GivenIs DEF FanoutInv, Fanout
<1> QED
  BY <1>1, FanoutInvAlways, PTL

(* SetSubscriberQuality's early return is right: the layer recorded for a  *)
(* peer is the one its sender sends.                                       *)
THEOREM RecordedLayerIsSentAlways == Spec => []RecordedLayerIsSent
<1>1. FanoutInv => RecordedLayerIsSent
  BY DEF FanoutInv
<1> QED
  BY <1>1, FanoutInvAlways, PTL
=============================================================================
