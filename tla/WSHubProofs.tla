---------------------------- MODULE WSHubProofs ----------------------------
(***************************************************************************)
(* Proofs about WSHub, for any number of connections, rooms, keys, events, *)
(* buffer sizes and drop limits.                                           *)
(***************************************************************************)
EXTENDS WSHub, FiniteSetTheorems, TLAPS

-----------------------------------------------------------------------------
(* The steps of a reader that leave the hub's rooms and clients alone, and *)
(* those that change them.                                                 *)
LEMMA TypeInit == Init => TypeOK
<1> USE HubAssumption DEF Init, TypeOK
<1> SUFFICES ASSUME Init PROVE TypeOK
    OBVIOUS
<1>1. /\ pc \in [Clients -> PCs] /\ todo \in [Clients -> SUBSET Rooms]
      /\ push \in [Clients -> [room : Rooms \cup {"none"}, events : SUBSET Events]]
  BY DEF PCs, NoPush
<1>2. /\ clients \in SUBSET Clients /\ rooms \in [Rooms -> SUBSET Clients]
      /\ buf \in [Clients -> 0 .. SendBuf] /\ drops \in [Clients -> Nat]
      /\ toEvict \in [Broadcasters -> SUBSET Clients]
      /\ saved \in [Keys -> SUBSET Rooms]
      /\ cursor \in [Keys \X Rooms -> 0 .. MaxEvent]
  OBVIOUS
<1>3. /\ stream \in SUBSET Events /\ past \in SUBSET Events /\ marked \in SUBSET Events
      /\ faults \in Nat /\ got \in [Clients -> SUBSET Events]
      /\ whole \in [Clients -> SUBSET Rooms] /\ atRisk \in [Clients -> SUBSET Events]
  OBVIOUS
<1> QED
  BY <1>1, <1>2, <1>3

(* What the hub's helpers keep of the shape.                               *)
LEMMA RemoveShape ==
    ASSUME TypeOK, NEW S, RemoveClients(S)
    PROVE  clients' \in SUBSET Clients /\ rooms' \in [Rooms -> SUBSET Clients]
  BY DEF TypeOK, RemoveClients

LEMMA ForgetShape ==
    ASSUME TypeOK, NEW S, Forget(S)
    PROVE  /\ buf' \in [Clients -> 0 .. SendBuf] /\ drops' \in [Clients -> Nat]
           /\ whole' \in [Clients -> SUBSET Rooms]
           /\ atRisk' \in [Clients -> SUBSET Events]
  BY HubAssumption DEF TypeOK, Forget

LEMMA JoinShape ==
    ASSUME TypeOK, NEW c \in Clients, NEW r \in Rooms, Join(c, r)
    PROVE  /\ rooms' \in [Rooms -> SUBSET Clients]
           /\ saved' \in [Keys -> SUBSET Rooms] /\ faults' \in Nat
<1>1. CASE c \notin clients
  BY <1>1 DEF TypeOK, Join
<1>2. CASE c \in clients
  <2>1. rooms' = [rooms EXCEPT ![r] = @ \cup {c}]
    BY <1>2 DEF Join
  <2>2. rooms' \in [Rooms -> SUBSET Clients]
    BY <2>1 DEF TypeOK
  <2>3. CASE saved' = [saved EXCEPT ![KeyOf[c]] = @ \cup {r}] /\ UNCHANGED faults
    BY <2>2, <2>3, HubAssumption DEF TypeOK
  <2>4. CASE UNCHANGED saved /\ Fault
    BY <2>2, <2>4 DEF TypeOK, Fault
  <2> QED
    BY <1>2, <2>3, <2>4 DEF Join
<1> QED
  BY <1>1, <1>2

LEMMA BroadcastShape ==
    ASSUME TypeOK, NEW b \in Broadcasters, NEW r \in Rooms,
           Broadcast(b, Ready(r), Full(r))
    PROVE  /\ buf' \in [Clients -> 0 .. SendBuf] /\ drops' \in [Clients -> Nat]
           /\ toEvict' \in [Broadcasters -> SUBSET Clients]
<1>1. Full(r) \subseteq Clients /\ \A c \in Ready(r) : buf[c] < SendBuf
  BY DEF TypeOK, Ready, Full
<1>2. buf' \in [Clients -> 0 .. SendBuf]
  BY <1>1, HubAssumption DEF TypeOK, Broadcast
<1>3. drops' \in [Clients -> Nat]
  BY DEF TypeOK, Broadcast, CountDrops
<1>4. Slow(Full(r)) \in SUBSET Clients
  BY <1>1 DEF Slow
<1>5. toEvict' \in [Broadcasters -> SUBSET Clients]
  BY <1>4 DEF TypeOK, Broadcast
<1> QED
  BY <1>2, <1>3, <1>5

(* A reader that replays a room has one.                                   *)
PushHasRoom == \A c \in Clients : pc[c] \in {"replay", "push"} => push[c].room \in Rooms

(* Every step keeps the shape.                                             *)
LEMMA TypeStep == TypeOK /\ PushHasRoom /\ [Next]_vars => TypeOK'
<1> SUFFICES ASSUME TypeOK, PushHasRoom, [Next]_vars PROVE TypeOK'
    OBVIOUS
<1> USE DEF GoTo, Leave
<1>1. ASSUME NEW c \in Clients, Accept(c) \/ RestoreDone(c) \/ ReadError(c)
      PROVE  TypeOK'
  BY <1>1 DEF TypeOK, Accept, RestoreDone, ReadError, PCs, hub, redis, bus, history
<1>2. ASSUME NEW c \in Clients, Register(c) \/ WritePump(c) PROVE TypeOK'
  <2>1. CASE Register(c)
    BY <2>1 DEF TypeOK, Register, PCs, redis, bus, history
  <2>2. CASE WritePump(c)
    <3>1. buf' \in [Clients -> 0 .. SendBuf]
      BY <2>2, HubAssumption DEF TypeOK, WritePump
    <3> QED
      BY <2>2, <3>1 DEF TypeOK, WritePump, conn, redis, bus, history
  <2> QED
    BY <1>2, <2>1, <2>2
<1>3. ASSUME NEW c \in Clients, Unregister(c) PROVE TypeOK'
  BY <1>3, RemoveShape, ForgetShape DEF TypeOK, Unregister, PCs, redis, bus
<1>4. ASSUME NEW c \in Clients, ListSubscriptions(c) PROVE TypeOK'
  <2>1. pc' \in [Clients -> PCs] /\ faults' \in Nat
    BY <1>4 DEF TypeOK, ListSubscriptions, Fault, PCs
  <2>2. todo' \in [Clients -> SUBSET Rooms]
    BY <1>4, HubAssumption DEF TypeOK, ListSubscriptions
  <2> QED
    BY <1>4, <2>1, <2>2 DEF TypeOK, ListSubscriptions, hub, redis, bus, history
<1>5. ASSUME NEW c \in Clients, NEW r \in Rooms, RestoreDenied(c, r) PROVE TypeOK'
  <2>1. todo' \in [Clients -> SUBSET Rooms] /\ faults' \in Nat
    BY <1>5 DEF TypeOK, RestoreDenied, Fault
  <2>2. saved' \in [Keys -> SUBSET Rooms]
    BY <1>5, HubAssumption DEF TypeOK, RestoreDenied
  <2> QED
    BY <1>5, <2>1, <2>2 DEF TypeOK, RestoreDenied, hub, bus, history
<1>6. ASSUME NEW c \in Clients, NEW r \in Rooms, RestoreSubscribe(c, r) PROVE TypeOK'
  BY <1>6, JoinShape DEF TypeOK, RestoreSubscribe, PCs, InRoom, bus
<1>7. ASSUME NEW c \in Clients, ReplayRoom(c) PROVE TypeOK'
  <2> DEFINE Push == [room : Rooms \cup {"none"}, events : SUBSET Events]
             Replayed == ReplaySet(push[c].room, cursor[<<KeyOf[c], push[c].room>>])
  <2>1. Replayed \in SUBSET Events
    BY DEF ReplaySet, InRoom
  <2>2. push[c].room \in Rooms \cup {"none"}
    BY DEF TypeOK
  <2>3. NoPush \in Push
    BY DEF NoPush
  <2>4. CASE /\ push' = [push EXCEPT ![c].events = Replayed]
             /\ whole' = [whole EXCEPT ![c] = @ \cup {push[c].room}]
             /\ pc' = [pc EXCEPT ![c] = "push"] /\ UNCHANGED faults
    <3>1. [push[c] EXCEPT !.events = Replayed] \in Push
      BY <2>1 DEF TypeOK
    <3>2. push' \in [Clients -> Push]
      BY <2>4, <3>1 DEF TypeOK
    <3>3. push[c].room \in Rooms
      BY <1>7 DEF ReplayRoom, PushHasRoom
    <3> QED
      BY <1>7, <2>4, <3>2, <3>3 DEF TypeOK, ReplayRoom, PCs, hub, redis, bus
  <2>5. CASE Fault /\ pc' = [pc EXCEPT ![c] = "restore"]
             /\ push' = [push EXCEPT ![c] = NoPush] /\ UNCHANGED whole
    BY <1>7, <2>3, <2>5 DEF TypeOK, ReplayRoom, Fault, PCs, hub, redis, bus
  <2> QED
    BY <1>7, <2>4, <2>5 DEF ReplayRoom
<1>8. ASSUME NEW c \in Clients, PushReplayed(c) PROVE TypeOK'
  <2> DEFINE Push == [room : Rooms \cup {"none"}, events : SUBSET Events]
  <2>1. NoPush \in Push /\ push[c].events \in SUBSET Events
    BY DEF NoPush, TypeOK
  <2>2. pc[c] = "push" /\ UNCHANGED <<clients, rooms, drops, toEvict, redis, bus, faults, atRisk>>
    BY <1>8 DEF PushReplayed
  <2>3. CASE pc' = [pc EXCEPT ![c] = "restore"] /\ push' = [push EXCEPT ![c] = NoPush]
             /\ UNCHANGED <<todo, buf, got, whole>>
    BY <2>1, <2>2, <2>3 DEF TypeOK, PCs, redis, bus
  <2>4. CASE Leave(c, "exit") /\ UNCHANGED <<buf, got, whole>>
    BY <2>1, <2>2, <2>4 DEF TypeOK, PCs, redis, bus
  <2>5. ASSUME NEW n \in push[c].events, buf[c] < SendBuf,
               buf' = [buf EXCEPT ![c] = @ + 1], got' = [got EXCEPT ![c] = @ \cup {n}],
               push' = [push EXCEPT ![c].events = @ \ {n}], UNCHANGED <<pc, todo, whole>>
        PROVE  TypeOK'
    <3>1. buf' \in [Clients -> 0 .. SendBuf]
      BY <2>5, HubAssumption DEF TypeOK
    <3>2. [push[c] EXCEPT !.events = @ \ {n}] \in Push
      BY DEF TypeOK
    <3>3. push' \in [Clients -> Push]
      BY <2>5, <3>2 DEF TypeOK
    <3> QED
      BY <2>1, <2>2, <2>5, <3>1, <3>3 DEF TypeOK, redis, bus
  <2>6. CASE Leave(c, "read") /\ whole' = [whole EXCEPT ![c] = @ \ {push[c].room}]
             /\ UNCHANGED <<buf, got>>
    BY <2>1, <2>2, <2>6 DEF TypeOK, PCs, redis, bus
  <2> QED
    BY <1>8, <2>3, <2>4, <2>5, <2>6 DEF PushReplayed
<1>9. ASSUME NEW c \in Clients, NEW r \in Rooms, HandleSubscribe(c, r) PROVE TypeOK'
  BY <1>9, JoinShape DEF TypeOK, HandleSubscribe, conn, bus, history
<1>10. ASSUME NEW c \in Clients, NEW r \in Rooms, HandleUnsubscribe(c, r) PROVE TypeOK'
  <2> DEFINE Left == [saved EXCEPT ![KeyOf[c]] = @ \ {r}]
  <2>1. saved' \in [Keys -> SUBSET Rooms] /\ faults' \in Nat
    <3>1. Left \in [Keys -> SUBSET Rooms]
      BY DEF TypeOK
    <3>2. \/ saved' \in {Left, saved} /\ UNCHANGED faults
          \/ UNCHANGED saved /\ Fault
      BY <1>10 DEF HandleUnsubscribe
    <3> QED
      BY <3>1, <3>2 DEF TypeOK, Fault
  <2>2. rooms' \in [Rooms -> SUBSET Clients] /\ whole' \in [Clients -> SUBSET Rooms]
    BY <1>10 DEF TypeOK, HandleUnsubscribe
  <2> QED
    BY <1>10, <2>1, <2>2 DEF TypeOK, HandleUnsubscribe, conn, bus
<1>11. ASSUME NEW c \in Clients, NEW r \in Rooms, HandleTyping(c, r) PROVE TypeOK'
  BY <1>11, BroadcastShape DEF TypeOK, HandleTyping, Broadcasters, conn, redis, bus, history
<1>12. ASSUME NEW c \in Clients, SendError(c) PROVE TypeOK'
  <2>1. buf' \in [Clients -> 0 .. SendBuf]
    BY <1>12, HubAssumption DEF TypeOK, SendError
  <2>2. pc' \in [Clients -> PCs]
    BY <1>12 DEF TypeOK, SendError, PCs
  <2> QED
    BY <1>12, <2>1, <2>2 DEF TypeOK, SendError, redis, bus, history
<1>13. ASSUME NEW k \in Keys, EvictSession(k) PROVE TypeOK'
  BY <1>13, RemoveShape DEF TypeOK, EvictSession, conn, redis, bus, history
<1>14. ASSUME NEW b \in Broadcasters, EvictSlow(b) PROVE TypeOK'
  BY <1>14, RemoveShape DEF TypeOK, EvictSlow, conn, redis, bus, history
<1>15. ASSUME NEW n \in Events, StreamStores(n) \/ MarkPublished(n) PROVE TypeOK'
  BY <1>15 DEF TypeOK, StreamStores, MarkPublished, conn, hub, redis, history
<1>16. ASSUME NEW n \in Events, Forward(n) PROVE TypeOK'
  <2> DEFINE r == RoomOf[n]
  <2>1. r \in Rooms /\ "fan" \in Broadcasters
    BY HubAssumption DEF Broadcasters
  <2>2. /\ buf' \in [Clients -> 0 .. SendBuf] /\ drops' \in [Clients -> Nat]
        /\ toEvict' \in [Broadcasters -> SUBSET Clients]
    BY <1>16, <2>1, BroadcastShape DEF Forward
  <2>3. /\ got' \in [Clients -> SUBSET Events] /\ atRisk' \in [Clients -> SUBSET Events]
        /\ past' \in SUBSET Events
    BY <1>16 DEF TypeOK, Forward
  <2>4. cursor' \in [Keys \X Rooms -> 0 .. MaxEvent]
    BY <1>16, HubAssumption DEF TypeOK, Forward, BodySequence
  <2> QED
    BY <1>16, <2>2, <2>3, <2>4 DEF TypeOK, Forward, conn
<1>17. CASE ServerCrash
  <2>1. pc' \in [Clients -> PCs] /\ push' \in [Clients -> [room : Rooms \cup {"none"}, events : SUBSET Events]]
    BY <1>17 DEF ServerCrash, PCs, NoPush
  <2>2. /\ todo' \in [Clients -> SUBSET Rooms] /\ clients' \in SUBSET Clients
        /\ rooms' \in [Rooms -> SUBSET Clients]
        /\ toEvict' \in [Broadcasters -> SUBSET Clients] /\ faults' \in Nat
    BY <1>17 DEF TypeOK, ServerCrash, Fault
  <2> QED
    BY <1>17, <2>1, <2>2, ForgetShape DEF TypeOK, ServerCrash, redis
<1>18. CASE UNCHANGED vars
  BY <1>18 DEF TypeOK, vars, conn, hub, redis, bus, history
<1> QED
  BY <1>1, <1>2, <1>3, <1>4, <1>5, <1>6, <1>7, <1>8, <1>9, <1>10, <1>11, <1>12,
     <1>13, <1>14, <1>15, <1>16, <1>17, <1>18 DEF Next

-----------------------------------------------------------------------------
(* A connection the hub has not registered yet has missed nothing.         *)
NewIsClean ==
    \A c \in Clients : pc[c] \in {"new", "accept"} => c \notin clients /\ drops[c] = 0

(* The inductive invariant.                                                *)
IInv == TypeOK /\ PushHasRoom /\ NewIsClean /\ RoomsAreLive /\ SlowClientEvicted

LEMMA InitIInv == Init => IInv
<1> SUFFICES ASSUME Init PROVE IInv
    OBVIOUS
<1>1. TypeOK
  BY TypeInit
<1>2. PushHasRoom /\ NewIsClean /\ RoomsAreLive /\ SlowClientEvicted
  BY DEF Init, PushHasRoom, NewIsClean, RoomsAreLive, SlowClientEvicted
<1> QED
  BY <1>1, <1>2 DEF IInv

(* A reader gets a room when it starts a replay and keeps it to the end.   *)
LEMMA PushStep == TypeOK /\ PushHasRoom /\ [Next]_vars => PushHasRoom'
<1> SUFFICES ASSUME TypeOK, PushHasRoom, [Next]_vars PROVE PushHasRoom'
    OBVIOUS
<1> USE DEF PushHasRoom, GoTo, Leave
<1>1. ASSUME NEW c \in Clients,
             \/ Accept(c) \/ Register(c) \/ Unregister(c) \/ RestoreDone(c)
             \/ ListSubscriptions(c) \/ SendError(c) \/ ReadError(c)
      PROVE  PushHasRoom'
  BY <1>1 DEF TypeOK, Accept, Register, Unregister, RestoreDone, ListSubscriptions,
              SendError, ReadError
<1>2. ASSUME NEW c \in Clients, NEW r \in Rooms, RestoreSubscribe(c, r) PROVE PushHasRoom'
  <2>1. push'[c].room \in Rooms
    BY <1>2 DEF TypeOK, RestoreSubscribe
  <2>2. \A d \in Clients \ {c} : pc'[d] = pc[d] /\ push'[d] = push[d]
    BY <1>2 DEF TypeOK, RestoreSubscribe
  <2> QED
    BY <2>1, <2>2
<1>3. ASSUME NEW c \in Clients, ReplayRoom(c) \/ PushReplayed(c) PROVE PushHasRoom'
  <2>1. \A d \in Clients \ {c} : pc'[d] = pc[d] /\ push'[d] = push[d]
    BY <1>3 DEF TypeOK, ReplayRoom, PushReplayed
  <2>2. pc'[c] \in {"replay", "push"} => push'[c].room = push[c].room
    BY <1>3 DEF TypeOK, ReplayRoom, PushReplayed
  <2>3. pc[c] \in {"replay", "push"}
    BY <1>3 DEF ReplayRoom, PushReplayed
  <2> QED
    BY <2>1, <2>2, <2>3
<1>4. ASSUME NEW c \in Clients, NEW r \in Rooms,
             \/ RestoreDenied(c, r) \/ HandleSubscribe(c, r)
             \/ HandleUnsubscribe(c, r) \/ HandleTyping(c, r)
      PROVE  PushHasRoom'
  BY <1>4 DEF RestoreDenied, HandleSubscribe, HandleUnsubscribe, HandleTyping, conn
<1>5. ASSUME \/ \E c \in Clients : WritePump(c)
             \/ \E k \in Keys : EvictSession(k)
             \/ \E b \in Broadcasters : EvictSlow(b)
             \/ \E n \in Events : StreamStores(n) \/ Forward(n) \/ MarkPublished(n)
             \/ UNCHANGED vars
      PROVE  PushHasRoom'
  BY <1>5 DEF WritePump, EvictSession, EvictSlow, StreamStores, Forward, MarkPublished,
              vars, conn
<1>6. CASE ServerCrash
  BY <1>6 DEF ServerCrash
<1> QED
  BY <1>1, <1>2, <1>3, <1>4, <1>5, <1>6 DEF Next

(* Subscribe joins registered clients only, and whoever is removed leaves  *)
(* every room with it.                                                     *)
LEMMA RoomsStep == TypeOK /\ RoomsAreLive /\ [Next]_vars => RoomsAreLive'
<1> SUFFICES ASSUME TypeOK, RoomsAreLive, [Next]_vars PROVE RoomsAreLive'
    OBVIOUS
<1> USE DEF RoomsAreLive
<1>1. ASSUME NEW S, RemoveClients(S) PROVE RoomsAreLive'
  BY <1>1 DEF RemoveClients
<1>2. ASSUME NEW c \in Clients, NEW r \in Rooms, Join(c, r), UNCHANGED clients
      PROVE  RoomsAreLive'
  BY <1>2 DEF TypeOK, Join
<1>3. ASSUME \/ \E c \in Clients : Unregister(c)
             \/ \E k \in Keys : EvictSession(k)
             \/ \E b \in Broadcasters : EvictSlow(b)
      PROVE  RoomsAreLive'
  BY <1>1, <1>3 DEF Unregister, EvictSession, EvictSlow
<1>4. ASSUME NEW c \in Clients, NEW r \in Rooms,
             RestoreSubscribe(c, r) \/ HandleSubscribe(c, r)
      PROVE  RoomsAreLive'
  BY <1>2, <1>4 DEF RestoreSubscribe, HandleSubscribe
<1>5. ASSUME NEW c \in Clients, Register(c) PROVE RoomsAreLive'
  BY <1>5 DEF Register
<1>6. ASSUME NEW c \in Clients, NEW r \in Rooms, HandleUnsubscribe(c, r) PROVE RoomsAreLive'
  BY <1>6 DEF TypeOK, HandleUnsubscribe
<1>7. CASE ServerCrash
  BY <1>7 DEF ServerCrash
<1>8. CASE UNCHANGED <<clients, rooms>>
  BY <1>8
<1>9. ASSUME NEW c \in Clients,
             \/ Accept(c) \/ WritePump(c) \/ ListSubscriptions(c) \/ RestoreDone(c)
             \/ ReplayRoom(c) \/ PushReplayed(c) \/ SendError(c) \/ ReadError(c)
             \/ \E r \in Rooms : RestoreDenied(c, r) \/ HandleTyping(c, r)
      PROVE  UNCHANGED <<clients, rooms>>
  BY <1>9 DEF Accept, WritePump, ListSubscriptions, RestoreDone, ReplayRoom, PushReplayed,
              SendError, ReadError, RestoreDenied, HandleTyping, hub
<1>10. ASSUME \/ \E n \in Events : StreamStores(n) \/ Forward(n) \/ MarkPublished(n)
              \/ UNCHANGED vars
       PROVE  UNCHANGED <<clients, rooms>>
  BY <1>10 DEF StreamStores, Forward, MarkPublished, vars, hub
<1> QED
  BY <1>3, <1>4, <1>5, <1>6, <1>7, <1>8, <1>9, <1>10 DEF Next

(* Register is the only way in, and only members are counted drops.        *)
LEMMA NewStep == TypeOK /\ NewIsClean /\ [Next]_vars => NewIsClean'
<1> SUFFICES ASSUME TypeOK, NewIsClean, [Next]_vars PROVE NewIsClean'
    OBVIOUS
<1> USE DEF NewIsClean, GoTo, Leave
<1>1. ASSUME NEW c \in Clients, Accept(c) PROVE NewIsClean'
  BY <1>1 DEF TypeOK, Accept, hub
<1>2. ASSUME NEW c \in Clients, Register(c) PROVE NewIsClean'
  BY <1>2 DEF TypeOK, Register
<1>3. ASSUME NEW c \in Clients, Unregister(c) PROVE NewIsClean'
  BY <1>3 DEF TypeOK, Unregister, RemoveClients, Forget
<1>4. ASSUME NEW c \in Clients,
             \/ ListSubscriptions(c) \/ RestoreDone(c) \/ ReplayRoom(c)
             \/ PushReplayed(c) \/ SendError(c) \/ ReadError(c)
             \/ \E r \in Rooms : RestoreSubscribe(c, r)
      PROVE  NewIsClean'
  <2>1. UNCHANGED <<clients, drops>>
    BY <1>4 DEF ListSubscriptions, RestoreDone, ReplayRoom, PushReplayed, SendError,
                ReadError, RestoreSubscribe, hub
  <2>2. pc' = pc \/ \E l \in {"read", "restore", "replay", "push", "exit"} : pc' = [pc EXCEPT ![c] = l]
    BY <1>4 DEF ListSubscriptions, RestoreDone, ReplayRoom, PushReplayed, SendError,
                ReadError, RestoreSubscribe
  <2> QED
    BY <2>1, <2>2 DEF TypeOK
<1>5. ASSUME NEW r \in Rooms, NEW b, Broadcast(b, Ready(r), Full(r)),
             UNCHANGED <<pc, clients>>
      PROVE  NewIsClean'
  BY <1>5 DEF Broadcast, CountDrops, Ready, Full
<1>6. ASSUME \/ \E c \in Clients, r \in Rooms : HandleTyping(c, r)
             \/ \E n \in Events : Forward(n)
      PROVE  NewIsClean'
  BY <1>5, <1>6, HubAssumption DEF HandleTyping, Forward, conn
<1>7. ASSUME \/ \E c \in Clients :
                  \/ WritePump(c)
                  \/ \E r \in Rooms : \/ RestoreDenied(c, r) \/ HandleSubscribe(c, r)
                                        \/ HandleUnsubscribe(c, r)
             \/ \E n \in Events : StreamStores(n) \/ MarkPublished(n)
             \/ UNCHANGED vars
      PROVE  NewIsClean'
  BY <1>7 DEF WritePump, RestoreDenied, HandleSubscribe, HandleUnsubscribe, StreamStores,
              MarkPublished, vars, conn, hub
<1>8. ASSUME \/ \E k \in Keys : EvictSession(k)
             \/ \E b \in Broadcasters : EvictSlow(b)
      PROVE  NewIsClean'
  BY <1>8 DEF EvictSession, EvictSlow, RemoveClients, conn
<1>9. CASE ServerCrash
  BY <1>9 DEF ServerCrash, Forget
<1> QED
  BY <1>1, <1>2, <1>3, <1>4, <1>6, <1>7, <1>8, <1>9 DEF Next

(* A broadcast that counts the last drop of a client takes it along to     *)
(* evictSlowClients, and no other broadcast of that broadcaster comes      *)
(* between; a removal takes it out of the clients.                         *)
LEMMA SlowStep ==
    TypeOK /\ NewIsClean /\ SlowClientEvicted /\ [Next]_vars => SlowClientEvicted'
<1> SUFFICES ASSUME TypeOK, NewIsClean, SlowClientEvicted, [Next]_vars
             PROVE  SlowClientEvicted'
    OBVIOUS
<1> USE DEF SlowClientEvicted
<1>1. ASSUME UNCHANGED <<clients, drops, toEvict>> PROVE SlowClientEvicted'
  BY <1>1
<1>2. ASSUME NEW S, RemoveClients(S), UNCHANGED <<drops, toEvict>> PROVE SlowClientEvicted'
  BY <1>2 DEF RemoveClients
<1>3. ASSUME NEW b \in Broadcasters, NEW r \in Rooms,
             Broadcast(b, Ready(r), Full(r)), UNCHANGED clients
      PROVE  SlowClientEvicted'
  <2> SUFFICES ASSUME NEW c \in clients, drops'[c] >= MaxDrops
               PROVE  \E e \in Broadcasters : c \in toEvict'[e]
    BY <1>3
  <2>1. c \in Clients /\ drops[c] \in Nat
    BY DEF TypeOK
  <2>2. c \notin Ready(r)
    BY <1>3, <2>1, HubAssumption DEF Broadcast, CountDrops
  <2>3. toEvict' = [toEvict EXCEPT ![b] = Slow(Full(r))] /\ toEvict[b] = {}
    BY <1>3 DEF Broadcast
  <2>4. CASE c \in Full(r)
    <3>1. drops[c] + 1 >= MaxDrops
      BY <1>3, <2>1, <2>2, <2>4 DEF Broadcast, CountDrops
    <3>2. c \in toEvict'[b]
      BY <2>3, <2>4, <3>1 DEF Slow, TypeOK
    <3> QED
      BY <3>2
  <2>5. CASE c \notin Full(r)
    <3>1. drops'[c] = drops[c]
      BY <1>3, <2>1, <2>2, <2>5 DEF Broadcast, CountDrops
    <3>2. PICK e \in Broadcasters : c \in toEvict[e]
      BY <3>1
    <3>3. e # b
      BY <2>3, <3>2
    <3> QED
      BY <2>3, <3>2, <3>3 DEF TypeOK
  <2> QED
    BY <2>4, <2>5
<1>4. ASSUME \/ \E c \in Clients, r \in Rooms : HandleTyping(c, r)
             \/ \E n \in Events : Forward(n)
      PROVE  SlowClientEvicted'
  BY <1>3, <1>4, HubAssumption DEF HandleTyping, Forward, Broadcasters
<1>5. ASSUME NEW b \in Broadcasters, EvictSlow(b) PROVE SlowClientEvicted'
  <2> SUFFICES ASSUME NEW c \in clients', drops'[c] >= MaxDrops
               PROVE  \E e \in Broadcasters : c \in toEvict'[e]
    OBVIOUS
  <2>1. c \in clients \ toEvict[b] /\ drops'[c] = drops[c]
    BY <1>5 DEF EvictSlow, RemoveClients
  <2>2. PICK e \in Broadcasters : c \in toEvict[e]
    BY <2>1
  <2> QED
    BY <1>5, <2>1, <2>2 DEF EvictSlow, TypeOK
<1>6. ASSUME NEW c \in Clients, Register(c) PROVE SlowClientEvicted'
  <2>1. drops[c] = 0 /\ clients' = clients \cup {c} /\ UNCHANGED <<drops, toEvict>>
    BY <1>6 DEF Register, NewIsClean
  <2> QED
    BY <2>1, HubAssumption
<1>7. ASSUME NEW c \in Clients, Unregister(c) PROVE SlowClientEvicted'
  <2>1. clients' = clients \ {c} /\ UNCHANGED toEvict
    BY <1>7 DEF Unregister, RemoveClients
  <2>2. \A d \in clients' : drops'[d] = drops[d]
    BY <1>7, <2>1 DEF Unregister, Forget, TypeOK
  <2> QED
    BY <2>1, <2>2
<1>8. ASSUME NEW k \in Keys, EvictSession(k) PROVE SlowClientEvicted'
  BY <1>2, <1>8 DEF EvictSession
<1>9. CASE ServerCrash
  BY <1>9 DEF ServerCrash
<1>10. ASSUME NEW c \in Clients,
              \/ Accept(c) \/ WritePump(c) \/ ListSubscriptions(c) \/ RestoreDone(c)
              \/ ReplayRoom(c) \/ PushReplayed(c) \/ SendError(c) \/ ReadError(c)
              \/ \E r \in Rooms : \/ RestoreDenied(c, r) \/ RestoreSubscribe(c, r)
                                  \/ HandleSubscribe(c, r) \/ HandleUnsubscribe(c, r)
       PROVE  SlowClientEvicted'
  BY <1>1, <1>10 DEF Accept, WritePump, ListSubscriptions, RestoreDone, ReplayRoom,
                     PushReplayed, SendError, ReadError, RestoreDenied, RestoreSubscribe,
                     HandleSubscribe, HandleUnsubscribe, hub
<1>11. ASSUME (\E n \in Events : StreamStores(n) \/ MarkPublished(n)) \/ UNCHANGED vars
       PROVE  SlowClientEvicted'
  BY <1>1, <1>11 DEF StreamStores, MarkPublished, vars, hub
<1> QED
  BY <1>4, <1>5, <1>6, <1>7, <1>8, <1>9, <1>10, <1>11 DEF Next

LEMMA IInvAlways == Spec => []IInv
<1>1. IInv /\ [Next]_vars => IInv'
  BY TypeStep, PushStep, NewStep, RoomsStep, SlowStep DEF IInv
<1> QED
  BY InitIInv, <1>1, PTL DEF Spec

-----------------------------------------------------------------------------
(* Every reachable state of the hub, its readers and its stores has the    *)
(* declared shape: no Send channel holds more than its buffer.             *)
THEOREM TypeCorrect == Spec => []TypeOK
<1>1. IInv => TypeOK
  BY DEF IInv
<1> QED
  BY IInvAlways, <1>1, PTL

(* Whatever the order of subscribe, unregister and the evictions, a        *)
(* broadcast meets registered clients only, whose channels are open.       *)
THEOREM RoomsAreLiveAlways == Spec => []RoomsAreLive
<1>1. IInv => RoomsAreLive
  BY DEF IInv
<1> QED
  BY IInvAlways, <1>1, PTL

(* With any number of broadcasters, a client that reached maxSlowDrops is  *)
(* gone or in the hands of the broadcaster that counted the drop.          *)
THEOREM SlowClientEvictedAlways == Spec => []SlowClientEvicted
<1>1. IInv => SlowClientEvicted
  BY DEF IInv
<1> QED
  BY IInvAlways, <1>1, PTL

-----------------------------------------------------------------------------
(* The replay of a restored room.  From Subscribe on, every event that     *)
(* passes the node reaches the connection or is counted as dropped; what   *)
(* passed before and was marked is in the rows ReplayRoom reads; what it   *)
(* reads is delivered, or still to push.                                   *)

(* Only a body with a sequence number would move a cursor.                 *)
CursorIsZero == \A x \in Keys \X Rooms : cursor[x] = 0

(* The published events of a room below n; what the connection must get.   *)
Before(r, n) == {m \in marked \cap InRoom(r) : m < n}
Due(c, r) == (past \cap InRoom(r)) \ atRisk[c]

(* The room being restored is joined, and until its rows are read nothing  *)
(* due can miss both the Send channel and the rows.                        *)
Replayable(c) ==
    /\ pc[c] \in {"replay", "push"} => c \in rooms[push[c].room]
    /\ pc[c] = "replay" => Due(c, push[c].room) \subseteq got[c] \cup marked

(* After the read, what is due is delivered, out of the limit's reach, or  *)
(* among the events the reader still has to push.                          *)
Delivered(c, r) ==
    \A n \in Due(c, r) :
       \/ n \in got[c]
       \/ n \in marked /\ Cardinality(Before(r, n)) >= ReplayLimit
       \/ pc[c] = "push" /\ push[c].room = r /\ n \in push[c].events

GapOf(c) ==
    /\ pc[c] \in {"new", "accept"} => whole[c] = {}
    /\ c \in clients => /\ Replayable(c)
                        /\ \A r \in whole[c] : c \in rooms[r] /\ Delivered(c, r)

GapInv == CursorIsZero /\ \A c \in Clients : GapOf(c)

(* A room has finitely many events below one of them.                      *)
LEMMA RankIsNat ==
    ASSUME NEW r, NEW n
    PROVE  Cardinality(Before(r, n)) \in Nat
<1>1. IsFiniteSet(Events)
  BY FS_Interval, HubAssumption DEF Events
<1>2. Before(r, n) \in SUBSET Events
  BY DEF Before, InRoom
<1> QED
  BY <1>1, <1>2, FS_Subset, FS_CardinalityType

(* Marking an event never lowers the rank of another one.                  *)
LEMMA RankGrows ==
    ASSUME TypeOK, TypeOK', marked \subseteq marked', NEW r, NEW n \in Events
    PROVE  /\ Cardinality(Before(r, n)) \in Nat
           /\ Cardinality(Before(r, n)') \in Nat
           /\ Cardinality(Before(r, n)) <= Cardinality(Before(r, n)')
<1>1. IsFiniteSet(Events)
  BY FS_Interval, HubAssumption DEF Events
<1>2. Before(r, n) \subseteq Before(r, n)' /\ Before(r, n)' \subseteq Events
  BY DEF Before, InRoom
<1>3. IsFiniteSet(Before(r, n)')
  BY <1>1, <1>2, FS_Subset
<1> QED
  BY <1>2, <1>3, FS_Subset, FS_CardinalityType

(* A step that takes nothing from a connection and is not its replay.      *)
LEMMA GapKept ==
    ASSUME TypeOK, PushHasRoom, NEW c \in Clients, GapOf(c),
           pc'[c] \in {"new", "accept"} => pc[c] \in {"new", "accept"},
           c \in clients' => c \in clients \/ pc[c] \in {"new", "accept"},
           \/ pc'[c] = pc[c] /\ push'[c] = push[c]
           \/ pc[c] # "push" /\ pc'[c] \notin {"replay", "push"},
           whole'[c] \subseteq whole[c],
           c \in clients' => \A r \in Rooms :
              c \in rooms[r] => c \in rooms'[r] \/ (pc[c] = "read" /\ r \notin whole'[c]),
           c \in clients' => got[c] \subseteq got'[c] /\ atRisk[c] \subseteq atRisk'[c],
           c \in clients' \ clients => pc'[c] \notin {"replay", "push"},
           past' = past, marked' = marked
    PROVE  GapOf(c)'
<1>1. (pc[c] \in {"new", "accept"} => whole[c] = {})'
  BY DEF GapOf
<1>2. ASSUME c \in clients', c \in clients PROVE Replayable(c)'
  BY <1>2 DEF GapOf, Replayable, Due, InRoom, PushHasRoom
<1>3. ASSUME c \in clients', c \in clients, NEW r \in whole'[c]
      PROVE  c \in rooms'[r] /\ Delivered(c, r)'
  <2>1. c \in rooms[r] /\ Delivered(c, r) /\ r \in Rooms
    BY <1>3 DEF GapOf, TypeOK
  <2>2. \A n : Before(r, n)' = Before(r, n)
    BY DEF Before, InRoom
  <2> QED
    BY <1>3, <2>1, <2>2 DEF Delivered, Due, InRoom
<1>4. ASSUME c \in clients', c \notin clients
      PROVE  Replayable(c)' /\ whole'[c] = {}
  BY <1>4 DEF GapOf, Replayable
<1> QED
  BY <1>1, <1>2, <1>3, <1>4 DEF GapOf

(* ReplayRoom reads the published events of the lowest ranks.              *)
LEMMA ReplaySetIs ==
    ASSUME NEW r
    PROVE  ReplaySet(r, 0) = {n \in marked \cap InRoom(r) : Cardinality(Before(r, n)) < ReplayLimit}
<1>1. \A n \in InRoom(r) : n > 0
  BY HubAssumption DEF InRoom, Events
<1>2. \A n : {m \in marked \cap InRoom(r) : 0 < m /\ m < n} = Before(r, n)
  BY <1>1 DEF Before
<1> QED
  BY <1>1, <1>2 DEF ReplaySet

(* The event that passes now reaches every member, or is counted dropped.  *)
LEMMA ForwardReaches ==
    ASSUME TypeOK, NEW n \in Events, Forward(n), NEW c \in clients, NEW r, c \in rooms[r]
    PROVE  /\ got[c] \subseteq got'[c]
           /\ Due(c, r)' \subseteq Due(c, r) \cup got'[c]
<1>1. c \in Clients /\ buf[c] \in 0 .. SendBuf
  BY DEF TypeOK
<1>2. /\ got'[c] = IF c \in Ready(RoomOf[n]) THEN got[c] \cup {n} ELSE got[c]
      /\ atRisk'[c] = IF c \in Full(RoomOf[n]) THEN atRisk[c] \cup {n} ELSE atRisk[c]
      /\ past' = past \cup {n}
  BY <1>1 DEF Forward
<1>3. n \in InRoom(r) => c \in Ready(RoomOf[n]) \/ c \in Full(RoomOf[n])
  BY <1>1, HubAssumption DEF InRoom, Ready, Full
<1>4. n \in InRoom(r) => n \in got'[c] \/ n \in atRisk'[c]
  BY <1>2, <1>3
<1> QED
  BY <1>2, <1>4 DEF Due, InRoom

(* Subscribe takes no member from a room.                                  *)
LEMMA JoinAdds ==
    ASSUME TypeOK, NEW c \in Clients, NEW r \in Rooms, Join(c, r)
    PROVE  \A q \in Rooms : rooms[q] \subseteq rooms'[q]
<1>1. CASE c \in clients
  <2>1. rooms' = [rooms EXCEPT ![r] = @ \cup {c}]
    BY <1>1 DEF Join
  <2> QED
    BY <2>1 DEF TypeOK
<1>2. CASE c \notin clients
  BY <1>2 DEF Join
<1> QED
  BY <1>1, <1>2

(* The steps of the NATS callback and of the outbox relay.                 *)
LEMMA GapForward ==
    ASSUME TypeOK, NEW n \in Events, Forward(n), NEW c \in Clients, GapOf(c)
    PROVE  GapOf(c)'
<1>1. UNCHANGED <<pc, push, clients, rooms, whole, marked>>
  BY DEF Forward, conn
<1>2. ASSUME c \in clients PROVE Replayable(c)'
  <2>1. Replayable(c)
    BY <1>2 DEF GapOf
  <2>2. ASSUME pc[c] = "replay"
        PROVE  Due(c, push[c].room)' \subseteq got'[c] \cup marked
    <3> DEFINE r == push[c].room
    <3>1. c \in rooms[r] /\ Due(c, r) \subseteq got[c] \cup marked
      BY <2>1, <2>2 DEF Replayable
    <3>2. got[c] \subseteq got'[c] /\ r' = r
      BY <1>1, <1>2, <3>1, ForwardReaches
    <3>3. \A q : c \in rooms[q] => Due(c, q)' \subseteq Due(c, q) \cup got'[c]
      BY <1>2, ForwardReaches
    <3> QED
      BY <1>1, <3>1, <3>2, <3>3 DEF Due
  <2> QED
    BY <1>1, <2>1, <2>2 DEF Replayable, Due, InRoom
<1>3. ASSUME c \in clients, NEW r \in whole[c] PROVE c \in rooms[r] /\ Delivered(c, r)'
  <2>1. c \in rooms[r] /\ Delivered(c, r)
    BY <1>3 DEF GapOf
  <2>2. got[c] \subseteq got'[c] /\ Due(c, r)' \subseteq Due(c, r) \cup got'[c]
    BY <1>3, <2>1, ForwardReaches
  <2>3. \A m : Before(r, m)' = Before(r, m)
    BY <1>1 DEF Before, InRoom
  <2> QED
    BY <1>1, <2>1, <2>2, <2>3 DEF Delivered
<1> QED
  BY <1>1, <1>2, <1>3 DEF GapOf

(* Marking an event in its row: what was due and unmarked was delivered.   *)
LEMMA GapMark ==
    ASSUME TypeOK, TypeOK', NEW n \in Events, MarkPublished(n), NEW c \in Clients, GapOf(c)
    PROVE  GapOf(c)'
<1>1. /\ marked \subseteq marked'
      /\ UNCHANGED <<pc, push, clients, rooms, whole, past, got, atRisk>>
  BY DEF MarkPublished, conn, hub, history
<1>2. \A r : Due(c, r)' = Due(c, r) /\ Due(c, r) \subseteq Events
  BY <1>1 DEF Due, InRoom
<1>3. c \in clients => Replayable(c)'
  BY <1>1, <1>2 DEF GapOf, Replayable
<1>4. ASSUME c \in clients, NEW r \in whole[c] PROVE c \in rooms[r] /\ Delivered(c, r)'
  <2>1. c \in rooms[r] /\ Delivered(c, r) /\ ReplayLimit \in Nat
    BY <1>4, HubAssumption DEF GapOf
  <2>2. \A m \in Due(c, r) : Cardinality(Before(r, m)) >= ReplayLimit
                               => Cardinality(Before(r, m)') >= ReplayLimit
    <3> SUFFICES ASSUME NEW m \in Due(c, r), Cardinality(Before(r, m)) >= ReplayLimit
                 PROVE  Cardinality(Before(r, m)') >= ReplayLimit
      OBVIOUS
    <3>1. /\ Cardinality(Before(r, m)) \in Nat /\ Cardinality(Before(r, m)') \in Nat
          /\ Cardinality(Before(r, m)) <= Cardinality(Before(r, m)')
      BY <1>1, <1>2, RankGrows
    <3> QED
      BY <2>1, <3>1
  <2> QED
    BY <1>1, <1>2, <2>1, <2>2 DEF Delivered
<1> QED
  BY <1>1, <1>3, <1>4 DEF GapOf

(* The reader's own steps.  Subscribe precedes ReplayRoom: what is past    *)
(* and unmarked at that moment is at risk, the rest of the past is marked. *)
LEMMA GapSubscribe ==
    ASSUME TypeOK, NEW c \in Clients, NEW r \in Rooms, RestoreSubscribe(c, r), GapOf(c)
    PROVE  GapOf(c)'
<1>1. /\ pc[c] = "restore" /\ pc'[c] = "replay"
      /\ push'[c].room = r
      /\ atRisk'[c] = atRisk[c] \cup ((past \ marked) \cap InRoom(r))
      /\ UNCHANGED <<clients, past, marked, got, whole>>
  BY DEF TypeOK, RestoreSubscribe, GoTo, bus
<1>2. ASSUME c \in clients
      PROVE  c \in rooms'[r] /\ \A q \in Rooms : c \in rooms[q] => c \in rooms'[q]
  BY <1>2 DEF TypeOK, RestoreSubscribe, Join
<1>3. c \in clients => Replayable(c)'
  BY <1>1, <1>2 DEF Replayable, Due, InRoom
<1>4. ASSUME c \in clients, NEW q \in whole[c] PROVE c \in rooms'[q] /\ Delivered(c, q)'
  <2>1. c \in rooms[q] /\ Delivered(c, q) /\ q \in Rooms
    BY <1>4 DEF GapOf, TypeOK
  <2>2. Due(c, q)' \subseteq Due(c, q) /\ \A m : Before(q, m)' = Before(q, m)
    BY <1>1 DEF Due, Before, InRoom
  <2> QED
    BY <1>1, <1>2, <1>4, <2>1, <2>2 DEF Delivered
<1> QED
  BY <1>1, <1>3, <1>4 DEF GapOf

(* The rows are read: what is due is delivered, or read, or out of reach.  *)
LEMMA GapReplay ==
    ASSUME TypeOK, PushHasRoom, CursorIsZero, NEW c \in Clients, ReplayRoom(c), GapOf(c)
    PROVE  GapOf(c)'
<1>0. PICK r \in Rooms : r = push[c].room
  BY DEF ReplayRoom, PushHasRoom
<1>1. /\ pc[c] = "replay" /\ r \in Rooms
      /\ UNCHANGED <<clients, rooms, past, marked, got, atRisk>>
  BY DEF ReplayRoom, PushHasRoom, hub, bus
<1>2. \A q : Due(c, q)' = Due(c, q) /\ \A m : Before(q, m)' = Before(q, m)
  BY <1>1 DEF Due, Before, InRoom
<1>3. cursor[<<KeyOf[c], r>>] = 0
  BY HubAssumption DEF CursorIsZero
<1>4. CASE /\ push' = [push EXCEPT ![c].events = ReplaySet(r, 0)]
           /\ whole' = [whole EXCEPT ![c] = @ \cup {r}]
           /\ pc' = [pc EXCEPT ![c] = "push"]
  <2>1. /\ pc'[c] = "push" /\ whole'[c] = whole[c] \cup {r}
        /\ push'[c].room = r /\ push'[c].events = ReplaySet(r, 0)
    BY <1>0, <1>4 DEF TypeOK
  <2>2. c \in clients => c \in rooms[r] /\ Due(c, r) \subseteq got[c] \cup marked
    BY <1>0, <1>1 DEF GapOf, Replayable
  <2>3. ASSUME c \in clients PROVE Delivered(c, r)'
    <3> SUFFICES ASSUME NEW n \in Due(c, r), n \notin got[c], n \notin ReplaySet(r, 0)
                 PROVE  n \in marked /\ Cardinality(Before(r, n)) >= ReplayLimit
      BY <1>1, <1>2, <2>1 DEF Delivered
    <3>1. n \in marked \cap InRoom(r) /\ n \in Events
      BY <2>2, <2>3 DEF Due, InRoom
    <3>2. ~(Cardinality(Before(r, n)) < ReplayLimit)
      BY <3>1, ReplaySetIs
    <3>3. Cardinality(Before(r, n)) \in Nat /\ ReplayLimit \in Nat
      BY RankIsNat, HubAssumption
    <3> QED
      BY <3>1, <3>2, <3>3
  <2>4. ASSUME c \in clients, NEW q \in whole[c] PROVE c \in rooms[q] /\ Delivered(c, q)'
    BY <1>1, <1>2, <2>1, <2>4 DEF GapOf, Delivered
  <2>5. c \in clients => Replayable(c)'
    BY <1>1, <2>1, <2>2 DEF Replayable
  <2> QED
    BY <1>1, <2>1, <2>2, <2>3, <2>4, <2>5 DEF GapOf
<1>5. CASE /\ pc' = [pc EXCEPT ![c] = "restore"]
           /\ push' = [push EXCEPT ![c] = NoPush] /\ UNCHANGED whole
  <2>1. pc'[c] = "restore" /\ whole' = whole
    BY <1>5 DEF TypeOK
  <2> QED
    BY <1>1, <1>2, <2>1 DEF GapOf, Replayable, Delivered
<1> QED
  BY <1>0, <1>3, <1>4, <1>5 DEF ReplayRoom, GoTo

(* The events read are pushed one by one; a full Send ends the restore,    *)
(* and the room then counts as not restored.                               *)
LEMMA GapPush ==
    ASSUME TypeOK, NEW c \in Clients, PushReplayed(c), GapOf(c)
    PROVE  GapOf(c)'
<1>1. /\ pc[c] = "push"
      /\ UNCHANGED <<clients, rooms, past, marked, atRisk>>
  BY DEF PushReplayed, bus
<1>2. \A q : Due(c, q)' = Due(c, q) /\ \A m : Before(q, m)' = Before(q, m)
  BY <1>1 DEF Due, Before, InRoom
<1>3. ASSUME push[c].events = {}, pc' = [pc EXCEPT ![c] = "restore"], UNCHANGED <<got, whole>>
      PROVE  GapOf(c)'
  <2>1. pc'[c] = "restore"
    BY <1>3 DEF TypeOK
  <2> QED
    BY <1>1, <1>2, <1>3, <2>1 DEF GapOf, Replayable, Delivered
<1>4. ASSUME Closed(c), pc' = [pc EXCEPT ![c] = "exit"] PROVE GapOf(c)'
  <2>1. c \notin clients /\ pc'[c] = "exit"
    BY <1>4 DEF Closed, TypeOK
  <2> QED
    BY <1>1, <2>1 DEF GapOf
<1>5. ASSUME NEW n \in push[c].events, got' = [got EXCEPT ![c] = @ \cup {n}],
             push' = [push EXCEPT ![c].events = @ \ {n}], UNCHANGED <<pc, whole>>
      PROVE  GapOf(c)'
  <2>1. /\ got'[c] = got[c] \cup {n} /\ push'[c].room = push[c].room
        /\ push'[c].events = push[c].events \ {n}
    BY <1>5 DEF TypeOK
  <2>2. c \in clients => Replayable(c)'
    BY <1>1, <1>5, <2>1 DEF GapOf, Replayable
  <2>3. ASSUME c \in clients, NEW q \in whole[c] PROVE c \in rooms[q] /\ Delivered(c, q)'
    <3>1. c \in rooms[q] /\ Delivered(c, q)
      BY <2>3 DEF GapOf
    <3> QED
      BY <1>1, <1>2, <1>5, <2>1, <3>1 DEF Delivered
  <2> QED
    BY <1>1, <1>5, <2>2, <2>3 DEF GapOf
<1>6. ASSUME pc' = [pc EXCEPT ![c] = "read"], UNCHANGED got,
             whole' = [whole EXCEPT ![c] = @ \ {push[c].room}]
      PROVE  GapOf(c)'
  <2>1. pc'[c] = "read" /\ whole'[c] = whole[c] \ {push[c].room}
    BY <1>6 DEF TypeOK
  <2> QED
    BY <1>1, <1>2, <1>6, <2>1 DEF GapOf, Replayable, Delivered
<1> QED
  BY <1>3, <1>4, <1>5, <1>6 DEF PushReplayed, GoTo, Leave

(* Nothing ever moves a cursor: no body carries its sequence number.       *)
LEMMA CursorStep == TypeOK /\ CursorIsZero /\ [Next]_vars => CursorIsZero'
<1> SUFFICES ASSUME TypeOK, CursorIsZero, [Next]_vars PROVE CursorIsZero'
    OBVIOUS
<1>1. CASE UNCHANGED cursor
  BY <1>1 DEF CursorIsZero
<1>2. ASSUME NEW n \in Events, Forward(n) PROVE CursorIsZero'
  BY <1>2 DEF Forward, BodySequence, CursorIsZero
<1>3. ASSUME NEW c \in Clients,
             \/ Accept(c) \/ Register(c) \/ Unregister(c) \/ WritePump(c)
             \/ ListSubscriptions(c) \/ RestoreDone(c) \/ ReplayRoom(c)
             \/ PushReplayed(c) \/ SendError(c) \/ ReadError(c)
      PROVE  UNCHANGED cursor
  BY <1>3 DEF Accept, Register, Unregister, WritePump, ListSubscriptions, RestoreDone,
              ReplayRoom, PushReplayed, SendError, ReadError, redis
<1>4. ASSUME NEW c \in Clients, NEW r \in Rooms,
             \/ RestoreDenied(c, r) \/ RestoreSubscribe(c, r) \/ HandleSubscribe(c, r)
             \/ HandleUnsubscribe(c, r) \/ HandleTyping(c, r)
      PROVE  UNCHANGED cursor
  BY <1>4 DEF RestoreDenied, RestoreSubscribe, HandleSubscribe, HandleUnsubscribe,
              HandleTyping, redis
<1>5. ASSUME \/ \E k \in Keys : EvictSession(k)
             \/ \E b \in Broadcasters : EvictSlow(b)
             \/ \E n \in Events : StreamStores(n) \/ MarkPublished(n)
             \/ ServerCrash \/ UNCHANGED vars
      PROVE  UNCHANGED cursor
  BY <1>5 DEF EvictSession, EvictSlow, StreamStores, MarkPublished, ServerCrash, vars, redis
<1> QED
  BY <1>1, <1>2, <1>3, <1>4, <1>5 DEF Next

(* The step of one connection changes nothing of another's replay.         *)
LEMMA GapStep ==
    ASSUME TypeOK, TypeOK', PushHasRoom, NewIsClean, GapInv, [Next]_vars
    PROVE  GapInv'
<1> SUFFICES ASSUME NEW c \in Clients PROVE GapOf(c)'
  BY CursorStep DEF GapInv
<1>0. GapOf(c) /\ CursorIsZero
  BY DEF GapInv
<1>1. ASSUME NEW d \in Clients, Accept(d) PROVE GapOf(c)'
  <2>1. /\ pc[d] = "new" /\ pc' = [pc EXCEPT ![d] = "accept"]
        /\ UNCHANGED <<push, clients, rooms, got, whole, atRisk, past, marked>>
    BY <1>1 DEF Accept, GoTo, hub, bus, history
  <2>2. d \notin clients
    BY <2>1 DEF NewIsClean
  <2> QED
    BY <1>0, <2>1, <2>2, GapKept DEF TypeOK
<1>2. ASSUME NEW d \in Clients, Register(d) PROVE GapOf(c)'
  <2>1. /\ pc[d] = "accept" /\ pc' = [pc EXCEPT ![d] = "list"]
        /\ clients' = clients \cup {d}
        /\ UNCHANGED <<push, rooms, got, whole, atRisk, past, marked>>
    BY <1>2 DEF Register, GoTo, bus, history
  <2> QED
    BY <1>0, <2>1, GapKept DEF TypeOK
<1>3. ASSUME NEW d \in Clients, Unregister(d) PROVE GapOf(c)'
  <2>1. /\ pc[d] = "exit" /\ pc' = [pc EXCEPT ![d] = "gone"]
        /\ clients' = clients \ {d} /\ rooms' = [r \in Rooms |-> rooms[r] \ {d}]
        /\ UNCHANGED <<push, got, past, marked>>
    BY <1>3 DEF Unregister, RemoveClients, GoTo, bus
  <2>2. whole'[c] \subseteq whole[c] /\ (c # d => atRisk'[c] = atRisk[c])
    BY <1>3 DEF Unregister, Forget
  <2> QED
    BY <1>0, <2>1, <2>2, GapKept DEF TypeOK
<1>4. ASSUME NEW d \in Clients,
             ListSubscriptions(d) \/ RestoreDone(d) \/ SendError(d) \/ ReadError(d)
      PROVE  GapOf(c)'
  <2>1. /\ pc[d] \in {"list", "restore", "read"}
        /\ \E l \in {"restore", "read", "exit"} : pc' = [pc EXCEPT ![d] = l] \/ pc' = pc
        /\ UNCHANGED <<push, clients, rooms, got, whole, atRisk, past, marked>>
    BY <1>4 DEF ListSubscriptions, RestoreDone, SendError, ReadError, GoTo, hub, bus, history
  <2> QED
    BY <1>0, <2>1, GapKept DEF TypeOK
<1>5. ASSUME NEW d \in Clients, NEW r \in Rooms, RestoreSubscribe(d, r) PROVE GapOf(c)'
  <2>1. CASE c # d
    <3>1. /\ pc'[c] = pc[c] /\ push'[c] = push[c] /\ atRisk'[c] = atRisk[c]
          /\ UNCHANGED <<clients, past, marked, got, whole>>
      BY <1>5, <2>1 DEF TypeOK, RestoreSubscribe, GoTo, bus
    <3>2. \A q \in Rooms : c \in rooms[q] => c \in rooms'[q]
      BY <1>5, JoinAdds DEF RestoreSubscribe
    <3> QED
      BY <1>0, <3>1, <3>2, GapKept
  <2> QED
    BY <1>0, <1>5, <2>1, GapSubscribe
<1>6. ASSUME NEW d \in Clients, ReplayRoom(d) \/ PushReplayed(d) PROVE GapOf(c)'
  <2>1. CASE c # d
    <3>1. /\ pc'[c] = pc[c] /\ push'[c] = push[c] /\ got'[c] = got[c] /\ whole'[c] = whole[c]
          /\ UNCHANGED <<clients, rooms, past, marked, atRisk>>
      BY <1>6, <2>1 DEF TypeOK, ReplayRoom, PushReplayed, GoTo, Leave, hub, bus
    <3> QED
      BY <1>0, <3>1, GapKept
  <2> QED
    BY <1>0, <1>6, <2>1, GapReplay, GapPush
<1>7. ASSUME NEW d \in Clients, NEW r \in Rooms, HandleSubscribe(d, r) PROVE GapOf(c)'
  <2>1. UNCHANGED <<pc, push, clients, past, marked, got, whole, atRisk>>
    BY <1>7 DEF HandleSubscribe, conn, bus, history
  <2>2. \A q \in Rooms : c \in rooms[q] => c \in rooms'[q]
    BY <1>7, JoinAdds DEF HandleSubscribe
  <2> QED
    BY <1>0, <2>1, <2>2, GapKept
<1>8. ASSUME NEW d \in Clients, NEW r \in Rooms, HandleUnsubscribe(d, r) PROVE GapOf(c)'
  <2>1. /\ pc[d] = "read"
        /\ rooms' = [rooms EXCEPT ![r] = @ \ {d}]
        /\ whole' = [whole EXCEPT ![d] = @ \ {r}]
        /\ UNCHANGED <<pc, push, clients, past, marked, got, atRisk>>
    BY <1>8 DEF HandleUnsubscribe, conn, bus
  <2>2. \A q \in Rooms : c \in rooms[q] => c \in rooms'[q] \/ (c = d /\ q = r)
    BY <2>1 DEF TypeOK
  <2>3. whole'[c] \subseteq whole[c] /\ (c = d => r \notin whole'[c])
    BY <2>1 DEF TypeOK
  <2> QED
    BY <1>0, <2>1, <2>2, <2>3, GapKept
<1>9. ASSUME NEW S, RemoveClients(S), UNCHANGED <<pc, push, past, marked, got, whole, atRisk>>
      PROVE  GapOf(c)'
  <2>1. c \in clients' => c \in clients /\ \A q \in Rooms : c \in rooms[q] => c \in rooms'[q]
    BY <1>9 DEF RemoveClients
  <2> QED
    BY <1>0, <1>9, <2>1, GapKept
<1>10. ASSUME \/ \E k \in Keys : EvictSession(k)
              \/ \E b \in Broadcasters : EvictSlow(b)
       PROVE  GapOf(c)'
  BY <1>9, <1>10 DEF EvictSession, EvictSlow, conn, bus, history
<1>11. ASSUME \/ \E d \in Clients : \/ WritePump(d)
                                    \/ \E r \in Rooms : RestoreDenied(d, r) \/ HandleTyping(d, r)
              \/ \E n \in Events : StreamStores(n)
              \/ UNCHANGED vars
       PROVE  GapOf(c)'
  <2>1. UNCHANGED <<pc, push, clients, rooms, past, marked, got, whole, atRisk>>
    BY <1>11 DEF WritePump, RestoreDenied, HandleTyping, StreamStores, vars, conn, hub, bus, history
  <2> QED
    BY <1>0, <2>1, GapKept
<1>12. ASSUME NEW n \in Events, Forward(n) \/ MarkPublished(n) PROVE GapOf(c)'
  BY <1>0, <1>12, GapForward, GapMark
<1>13. CASE ServerCrash
  BY <1>13 DEF ServerCrash, Forget, GapOf
<1> QED
  BY <1>1, <1>2, <1>3, <1>4, <1>5, <1>6, <1>7, <1>8, <1>10, <1>11, <1>12, <1>13 DEF Next

(* The inductive invariant of the replay, on top of IInv.                  *)
LEMMA GapAlways == Spec => []GapInv
<1>1. Init => GapInv
  BY DEF Init, GapInv, CursorIsZero, GapOf
<1>2. IInv => TypeOK /\ PushHasRoom /\ NewIsClean
  BY DEF IInv
<1>3. TypeOK /\ TypeOK' /\ PushHasRoom /\ NewIsClean /\ GapInv /\ [Next]_vars => GapInv'
  BY GapStep
<1> QED
  BY <1>1, <1>2, <1>3, IInvAlways, PTL DEF Spec

(* For any number of connections, rooms, events and any replay limit: a    *)
(* restored connection has every published event of a restored room the    *)
(* limit reaches, save those at risk before Subscribe and those dropped.   *)
THEOREM NoGapAfterRestoreAlways == Spec => []NoGapAfterRestore
<1>1. ASSUME TypeOK, GapInv PROVE NoGapAfterRestore
  <2> SUFFICES ASSUME NEW c \in clients, NEW r \in whole[c], pc[c] = "read",
                      NEW n \in (past \cap marked \cap InRoom(r)) \ atRisk[c],
                      Cardinality(Before(r, n)) < ReplayLimit
               PROVE  n \in got[c]
    BY DEF NoGapAfterRestore, Before
  <2>1. c \in Clients /\ n \in Due(c, r) /\ n \in Events
    BY <1>1 DEF TypeOK, Due, InRoom
  <2>2. Delivered(c, r)
    BY <1>1, <2>1 DEF GapInv, GapOf
  <2>3. Cardinality(Before(r, n)) \in Nat /\ ReplayLimit \in Nat
    BY RankIsNat, HubAssumption
  <2> QED
    BY <2>1, <2>2, <2>3 DEF Delivered
<1>2. IInv => TypeOK
  BY DEF IInv
<1> QED
  BY <1>1, <1>2, IInvAlways, GapAlways, PTL
=============================================================================
