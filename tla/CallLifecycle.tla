--------------------------- MODULE CallLifecycle ---------------------------
(***************************************************************************)
(* One call of the call service (src/internal/service/call/service.go)     *)
(* over its PostgreSQL rows: the calls row, one call_participants row per  *)
(* user, and the media room of the local SFU.                              *)
(*                                                                         *)
(* A request reads the call, then its own participant row, then (for host  *)
(* operations) the target's row or the list, each in a statement of its    *)
(* own and outside any transaction, and decides.  What it then writes is   *)
(* its `plan', a sequence of statements.  Join, leave and end run their    *)
(* plan in one READ COMMITTED transaction; every other operation commits   *)
(* each statement by itself.  An UPDATE keeps its row locked until the     *)
(* transaction is over, and names its row by primary key only, so it       *)
(* changes whatever the row has become since it was read.                  *)
(*                                                                         *)
(* Join and leave insert their outbox event in the transaction of the row; *)
(* the host operations and media updates publish theirs, an outbox INSERT  *)
(* too, after their write.  Events about the call itself are left out.     *)
(* Audio and video are one mute; a presenter is a participant here.        *)
(***************************************************************************)
EXTENDS Integers, Sequences, FiniteSets

CONSTANTS
    Users,          \* the workspace members who call the service
    Creator,        \* the member who started the call
    Requests,       \* request slots of the server: requests in flight at a time
    Ops,            \* the operations the requests of this instance call
    Webinar,        \* the call is a webinar or selector call, whose joiners are viewers
    StartSettings,  \* the settings a call may be started with
    Patches,        \* per patching operation, the patches it is called with
    MediaUsers,     \* bound: the users who ask for a media token
    Cap,            \* effectiveParticipantCap; 0 means no cap
    ShareLimit,     \* MaxScreenSharesPerCall
    MaxRequests,    \* bound: requests begun in a behaviour
    MaxFaults       \* bound: statements that fail

AllOps == {"join", "leave", "end", "admit", "admitAll", "reject", "remove",
           "role", "settings", "media", "mute", "offer"}

ASSUME CallAssumption ==
    /\ IsFiniteSet(Users)
    /\ Creator \in Users
    /\ MediaUsers \subseteq Users
    /\ Ops \subseteq AllOps
    /\ Webinar \in BOOLEAN
    /\ StartSettings \subseteq [locked : BOOLEAN, waitingRoom : BOOLEAN, screenSharing : BOOLEAN]
    /\ Patches["settings"] \subseteq {"locked", "waitingRoom", "screenSharing"} \X BOOLEAN
    /\ Patches["media"] \subseteq {"muted", "sharing"} \X BOOLEAN
    /\ Patches["mute"] \subseteq {<<"muted", TRUE>>, <<"sharing", FALSE>>}
    /\ Cap \in Nat
    /\ ShareLimit \in Nat \ {0}
    /\ MaxRequests \in Nat
    /\ MaxFaults \in Nat

VARIABLES
    call,       \* the calls row: status and settings
    rows,       \* the call_participants row of each user, or NoRow
    lastEvent,  \* per user, the committed outbox event with the largest sequence,
                \* and whether the user's own request wrote it
    room,       \* the SFU room of the call on this node: whether it exists, and its peers
    tokens,     \* users holding a media token
    req,        \* the requests in flight
    next,       \* next outbox sequence, row id
    begun,      \* requests begun so far
    faults      \* statements that failed so far

vars == <<call, rows, lastEvent, room, tokens, req, next, begun, faults>>

Roles    == {"host", "co_host", "participant", "viewer"}
Statuses == {"connected", "waiting", "disconnected"}

Row == [id : Nat \ {0}, role : Roles, status : Statuses,
        muted : BOOLEAN, sharing : BOOLEAN]

NoRow == [id |-> 0, role |-> "none", status |-> "none",
          muted |-> FALSE, sharing |-> FALSE]

CallSettings == [locked : BOOLEAN, waitingRoom : BOOLEAN, screenSharing : BOOLEAN]

Event == [seq : Nat, own : BOOLEAN,
          what : {"none", "waiting", "joined", "left", "admitted", "rejected", "updated"}]
NoEvent == [seq |-> 0, own |-> FALSE, what |-> "none"]

\* What a transaction has written and not committed.
NoTx == [user |-> Creator, row |-> NoRow, status |-> "none", event |-> NoEvent]

NoCall == [status |-> "none",
           settings |-> [locked |-> FALSE, waitingRoom |-> FALSE, screenSharing |-> TRUE]]

Idle == [pc |-> "idle", op |-> "none", user |-> Creator, target |-> Creator,
         arg |-> <<"none", "none">>, actor |-> "none", call |-> NoCall,
         plan |-> <<>>, tx |-> NoTx, ended |-> FALSE]

----------------------------------------------------------------------------
(* Guards the handlers share. *)

\* requireHostOrCoHost, and the same test written out in the handlers.
IsHost(row) == row.role \in {"host", "co_host"}

\* The statuses a capacity check counts ("joining" is never stored).
Active(row) == row.status = "connected"

ActiveCount(rs) == Cardinality({u \in Users : Active(rs[u])})

\* checkScreenShareCapacity: the others who share.
OtherShares(rs, u) == Cardinality({v \in Users \ {u} : Active(rs[v]) /\ rs[v].sharing})

\* Operations that refuse a call which was ended when they read it.
RefusesEnded == {"join", "end", "remove", "role", "settings", "media", "mute", "offer"}

\* Operations only a host or co-host may call.
HostOps == {"end", "admit", "admitAll", "reject", "remove", "role", "settings", "mute"}

\* Operations whose plan runs in one transaction.
Transactional == {"join", "leave", "end"}

\* Argument values: a settings patch, a media patch, a new role.
Args(op) ==
    CASE op \in {"settings", "media", "mute"} -> Patches[op]
      [] op = "role" -> {"role"} \X (IF Webinar THEN Roles ELSE Roles \ {"viewer"})
      [] OTHER       -> {<<"none", "none">>}

----------------------------------------------------------------------------
(* Statements and the plans made of them. *)

Connect(u, id)    == [do |-> "connect", user |-> u, id |-> id]
Disconnect(u, id) == [do |-> "disconnect", user |-> u, id |-> id]
Delete(u, id)     == [do |-> "delete", user |-> u, id |-> id]
SetRole(u, id, r) == [do |-> "role", user |-> u, id |-> id, role |-> r]
SetMedia(u, row)  == [do |-> "media", user |-> u, id |-> row.id,
                      muted |-> row.muted, sharing |-> row.sharing]
Insert(u, status) == [do |-> "insert", user |-> u, id |-> 0, status |-> status]
Enqueue(u, what)  == [do |-> "event", user |-> u, id |-> 0, what |-> what]
Publish(u, what)  == [do |-> "publish", user |-> u, id |-> 0, what |-> what]
Activate(u)       == [do |-> "activate", user |-> u, id |-> 0]
EndRow(u)         == [do |-> "end", user |-> u, id |-> 0]
EndIfEmpty(u)     == [do |-> "endIfEmpty", user |-> u, id |-> 0]
SetSettings(u, s) == [do |-> "settings", user |-> u, id |-> 0, settings |-> s]

\* Mutation: the call is made active whatever was read.
ActivateAlways(r) == <<Activate(req[r].user)>>

\* A call that was ringing when it was read is made active.
ActivateIfRinging(r) ==
    IF req[r].call.status = "ringing" THEN <<Activate(req[r].user)>> ELSE <<>>

\* A user with a row, whatever its status, is connected again.
RejoinPlan(u, id) == <<Connect(u, id), Enqueue(u, "joined")>>

\* A user without one gets a row; behind the waiting room the call stays as it is.
JoinPlan(r) ==
    LET u == req[r].user IN
    IF req[r].call.settings.waitingRoom
    THEN <<Insert(u, "waiting"), Enqueue(u, "waiting")>>
    ELSE <<Insert(u, "connected")>> \o ActivateIfRinging(r) \o <<Enqueue(u, "joined")>>

\* Mutation: the event's sequence is drawn before the row is locked.
LeavePlanEventFirst(u, id) == <<Enqueue(u, "left"), Disconnect(u, id), EndIfEmpty(u)>>

LeavePlan(u, id) == <<Disconnect(u, id), Enqueue(u, "left"), EndIfEmpty(u)>>

\* Mutation: End also disconnects the host, after the calls row is locked.
EndPlanDisconnecting(u, id) == <<EndRow(u), Disconnect(u, id)>>

EndPlan(u, id) == <<EndRow(u)>>

Admit(u, id) == <<Connect(u, id), Publish(u, "admitted")>>

AdmitPlan(r, u, id) == Admit(u, id) \o ActivateIfRinging(r)

DeletePlan(u, id, what) == <<Delete(u, id), Publish(u, what)>>

RolePlan(u, row, role) ==
    <<SetRole(u, row.id, role)>> \o
    (IF role = "viewer"
     THEN <<SetMedia(u, [row EXCEPT !.muted = TRUE, !.sharing = FALSE])>>
     ELSE <<>>) \o <<Publish(u, "updated")>>

MediaPlan(u, row, arg) ==
    <<SetMedia(u, [row EXCEPT ![arg[1]] = arg[2]]), Publish(u, "updated")>>

----------------------------------------------------------------------------
Init ==
    /\ call = NoCall
    /\ rows = [u \in Users |-> NoRow]
    /\ lastEvent = [u \in Users |-> NoEvent]
    /\ room = [open |-> FALSE, peers |-> {}]
    /\ tokens = {}
    /\ req = [r \in Requests |-> Idle]
    /\ next = 1
    /\ begun = 0
    /\ faults = 0

\* StartCall: the call, its settings and the host's row in one transaction,
\* then the media room, whose failure is not fatal.
StartCall(settings) ==
    /\ call.status = "none"
    /\ call' = [status |-> "ringing", settings |-> settings]
    /\ rows' = [rows EXCEPT ![Creator] =
                    [id |-> next, role |-> "host", status |-> "connected",
                     muted |-> FALSE, sharing |-> FALSE]]
    /\ next' = next + 1
    /\ \E open \in BOOLEAN : room' = [room EXCEPT !.open = open]
    /\ UNCHANGED <<lastEvent, tokens, req, begun, faults>>

\* IssueMediaJoinToken, for a connected participant.
IssueMediaJoinToken(u) ==
    /\ u \in MediaUsers \ tokens
    /\ rows[u].status = "connected"
    /\ tokens' = tokens \cup {u}
    /\ UNCHANGED <<call, rows, lastEvent, room, req, next, begun, faults>>

\* A request arrives and reads the call (requireCallAccess).
Begin(r, op, u, t, arg) ==
    /\ req[r].pc = "idle"
    /\ begun < MaxRequests
    /\ call.status # "none"
    /\ ~(op \in RefusesEnded /\ call.status = "ended")
    /\ op = "offer" => u \in tokens
    /\ req' = [req EXCEPT ![r] =
                [Idle EXCEPT !.pc = IF op = "offer" THEN "room" ELSE "own",
                             !.op = op, !.user = u, !.target = t, !.arg = arg,
                             !.call = call]]
    /\ begun' = begun + 1
    /\ UNCHANGED <<call, rows, lastEvent, room, tokens, next, faults>>

\* Where a request goes after a read: refused, to another read, or to its plan,
\* for which it needs no more than the operation and the status it read.
Refuse(r)      == req' = [req EXCEPT ![r] = Idle]
Read(r, what)  == req' = [req EXCEPT ![r] = [@ EXCEPT !.pc = what, !.actor = rows[req[r].user].role]]
Run(r, plan)   == req' = [req EXCEPT ![r] = [@ EXCEPT !.pc = "run", !.plan = plan, !.actor = "none",
                                             !.target = Creator, !.call.settings = NoCall.settings]]
Check(r, plan) == req' = [req EXCEPT ![r] = [@ EXCEPT !.pc = "list", !.plan = plan]]
DatabaseIsKept == UNCHANGED <<call, rows, lastEvent, room, tokens, next, begun, faults>>

----------------------------------------------------------------------------
(* Reads that decide: each is one statement outside a transaction. *)

\* JoinCall: GetParticipant, then rejoin, refuse, check the cap or join.
JoinOwn(r) ==
    LET u == req[r].user IN
    \/ /\ rows[u] # NoRow
       /\ Run(r, RejoinPlan(u, rows[u].id))
    \/ /\ rows[u] = NoRow
       /\ req[r].call.settings.locked
       /\ Refuse(r)
    \/ /\ rows[u] = NoRow
       /\ ~req[r].call.settings.locked
       /\ IF Cap > 0 THEN Check(r, JoinPlan(r)) ELSE Run(r, JoinPlan(r))

\* LeaveCall: GetParticipant; the row's status is not looked at.
LeaveOwn(r) ==
    LET u == req[r].user IN
    IF rows[u] = NoRow THEN Refuse(r) ELSE Run(r, LeavePlan(u, rows[u].id))

\* The host operations: the actor must be host or co-host.
HostOwn(r) ==
    LET u == req[r].user IN
    \/ /\ ~IsHost(rows[u])
       /\ Refuse(r)
    \/ /\ IsHost(rows[u])
       /\ CASE req[r].op = "end" -> Run(r, EndPlan(u, rows[u].id))
            [] req[r].op = "settings" ->
                 Run(r, <<SetSettings(u, [req[r].call.settings EXCEPT
                                              ![req[r].arg[1]] = req[r].arg[2]])>>)
            [] req[r].op = "admitAll" -> Read(r, "list")
            [] OTHER -> Read(r, "target")

\* UpdateMedia: the patch laid over the row as read, viewers refused, and the
\* limit on screen shares checked when the patch turns sharing on.
MediaOwn(r) ==
    LET u    == req[r].user
        row  == rows[u]
        arg  == req[r].arg
        after == [row EXCEPT ![arg[1]] = arg[2]]
        starts == arg = <<"sharing", TRUE>>
    IN  \/ /\ \/ row = NoRow
             \/ (starts /\ ~req[r].call.settings.screenSharing)
             \/ (row.role = "viewer" /\ (~after.muted \/ after.sharing))
          /\ Refuse(r)
       \/ /\ row # NoRow
          /\ starts => req[r].call.settings.screenSharing
          /\ ~(row.role = "viewer" /\ (~after.muted \/ after.sharing))
          /\ IF starts /\ ~row.sharing
             THEN Check(r, MediaPlan(u, row, arg))
             ELSE Run(r, MediaPlan(u, row, arg))

ReadOwn(r) ==
    /\ req[r].pc = "own"
    /\ CASE req[r].op = "join"  -> JoinOwn(r)
         [] req[r].op = "leave" -> LeaveOwn(r)
         [] req[r].op = "media" -> MediaOwn(r)
         [] OTHER               -> HostOwn(r)
    /\ DatabaseIsKept

\* Mutation: a host may demote itself.
RoleAllowedDemoting(r, row) ==
    LET self == req[r].target = req[r].user
        role == req[r].arg[2]
    IN  /\ row.role = "host" => self
        /\ req[r].actor = "co_host" => role \notin {"host", "co_host"}

\* UpdateParticipantRole: who may give whom which role.
RoleAllowed(r, row) ==
    LET self == req[r].target = req[r].user
        role == req[r].arg[2]
    IN  /\ row.role = "host" => self
        /\ req[r].actor = "co_host" => role \notin {"host", "co_host"}
        /\ self /\ req[r].actor = "host" => role = "host"

\* RemoveParticipant: who may remove whom.
RemoveAllowed(r, row) ==
    /\ req[r].target # req[r].user
    /\ row.role # "host"
    /\ ~(req[r].actor = "co_host" /\ row.role = "co_host")

\* Whether the handler goes on with the target row it has read, and to what.
TargetAllowed(r, row) ==
    /\ row # NoRow
    /\ req[r].op \in {"admit", "reject"} => row.status = "waiting"
    /\ req[r].op = "remove" => RemoveAllowed(r, row)
    /\ req[r].op = "role" => RoleAllowed(r, row)

TargetPlan(r, u, row) ==
    CASE req[r].op = "admit" -> AdmitPlan(r, u, row.id)
      [] req[r].op = "reject" -> DeletePlan(u, row.id, "rejected")
      [] req[r].op = "remove" -> DeletePlan(u, row.id, "left")
      [] req[r].op = "role" -> RolePlan(u, row, req[r].arg[2])
      [] req[r].op = "mute" -> MediaPlan(u, row, req[r].arg)

ReadTarget(r) ==
    LET u == req[r].target IN
    /\ req[r].pc = "target"
    /\ IF TargetAllowed(r, rows[u])
       THEN Run(r, TargetPlan(r, u, rows[u]))
       ELSE Refuse(r)
    /\ DatabaseIsKept

\* The users in the waiting room, in the order of their rows.
Waiting == {u \in Users : rows[u].status = "waiting"}

WaitingLists ==
    {s \in [1 .. Cardinality(Waiting) -> Waiting] :
        \A i, j \in DOMAIN s : i < j => rows[s[i]].id < rows[s[j]].id}

\* AdmitAll: an admission of two statements for each of them.
AdmitAllPlan(s) ==
    [k \in 1 .. 2 * Len(s) |->
        LET u == s[(k + 1) \div 2]
        IN  IF k % 2 = 1 THEN Connect(u, rows[u].id) ELSE Publish(u, "admitted")]

\* ListParticipants: the cap of a join, the limit of a share, the waiting room.
ReadList(r) ==
    /\ req[r].pc = "list"
    /\ \/ /\ req[r].op = "join"
          /\ IF ActiveCount(rows) >= Cap THEN Refuse(r) ELSE Run(r, req[r].plan)
       \/ /\ req[r].op = "media"
          /\ IF OtherShares(rows, req[r].user) >= ShareLimit
             THEN Refuse(r)
             ELSE Run(r, req[r].plan)
       \/ /\ req[r].op = "admitAll"
          /\ \E s \in WaitingLists : Run(r, AdmitAllPlan(s) \o ActivateIfRinging(r))
    /\ DatabaseIsKept

----------------------------------------------------------------------------
(* Statements that write. *)

InTx(r) == req[r].op \in Transactional

\* Row locks other transactions hold until they end.
RowLocked(r, u) ==
    \E s \in Requests \ {r} : req[s].tx.row # NoRow /\ req[s].tx.user = u

CallLocked(r) ==
    \E s \in Requests \ {r} : req[s].tx.status # "none"

Statement(r) == Head(req[r].plan)

AtStatement(r, kinds) ==
    /\ req[r].pc = "run"
    /\ req[r].plan # <<>>
    /\ Statement(r).do \in kinds

\* The row a request would change: what its own transaction wrote, or the stored one.
RowSeen(r, u) ==
    IF req[r].tx.row # NoRow /\ req[r].tx.user = u THEN req[r].tx.row ELSE rows[u]

RowWritten(row, s) ==
    CASE s.do = "connect"    -> [row EXCEPT !.status = "connected"]
      [] s.do = "disconnect" -> [row EXCEPT !.status = "disconnected"]
      [] s.do = "role"       -> [row EXCEPT !.role = s.role]
      [] s.do = "media"      -> [row EXCEPT !.muted = s.muted, !.sharing = s.sharing]
      [] s.do = "delete"     -> NoRow
      [] s.do = "insert"     -> [id |-> next, role |-> IF Webinar THEN "viewer" ELSE "participant",
                                 status |-> s.status, muted |-> FALSE, sharing |-> FALSE]

\* The statement finds its row: the one with the key that was read, or for an
\* insertion none yet (call_participants is unique by call and user).
RowFound(r, s) ==
    IF s.do = "insert" THEN RowSeen(r, s.user) = NoRow ELSE RowSeen(r, s.user).id = s.id

WriteRow(r) ==
    LET s == Statement(r) IN
    /\ AtStatement(r, {"connect", "disconnect", "role", "media", "delete", "insert"})
    /\ ~RowLocked(r, s.user)
    /\ \/ /\ RowFound(r, s)
          /\ LET row == RowWritten(RowSeen(r, s.user), s) IN
             IF InTx(r)
             THEN /\ req' = [req EXCEPT ![r].plan = Tail(@),
                                  ![r].tx.user = s.user, ![r].tx.row = row]
                  /\ rows' = rows
             ELSE /\ req' = [req EXCEPT ![r].plan = Tail(@)]
                  /\ rows' = [rows EXCEPT ![s.user] = row]
          /\ next' = next + (IF s.do = "insert" THEN 1 ELSE 0)
       \/ /\ ~RowFound(r, s)
          /\ IF req[r].op = "admitAll"
             THEN req' = [req EXCEPT ![r].plan = Tail(Tail(@))]
             ELSE Refuse(r)
          /\ UNCHANGED <<rows, next>>
    /\ UNCHANGED <<call, lastEvent, room, tokens, begun, faults>>

\* UpdateStatus(active) and End: the calls row, by id, whatever its status.
WriteCall(r) ==
    LET status == IF Statement(r).do = "end" THEN "ended" ELSE "active" IN
    /\ AtStatement(r, {"activate", "end"})
    /\ ~CallLocked(r)
    /\ IF InTx(r)
       THEN /\ req' = [req EXCEPT ![r].plan = Tail(@), ![r].tx.status = status,
                                  ![r].ended = status = "ended"]
            /\ call' = call
       ELSE /\ req' = [req EXCEPT ![r].plan = Tail(@)]
            /\ call' = [call EXCEPT !.status = status]
    /\ UNCHANGED <<rows, lastEvent, room, tokens, next, begun, faults>>

\* UpdateSettings: the whole settings column, as the patch left the read one.
WriteSettings(r) ==
    /\ AtStatement(r, {"settings"})
    /\ ~CallLocked(r)
    /\ call' = [call EXCEPT !.settings = Statement(r).settings]
    /\ req' = [req EXCEPT ![r].plan = Tail(@)]
    /\ UNCHANGED <<rows, lastEvent, room, tokens, next, begun, faults>>

\* LeaveCall lists the others inside its transaction; each statement sees what
\* is committed when it runs.  With nobody left it goes on to End.
LastOneOut(r, u) == \A v \in Users \ {u} : ~Active(rows[v])

ListAfterLeave(r) ==
    /\ AtStatement(r, {"endIfEmpty"})
    /\ req' = [req EXCEPT ![r].plan =
                  IF LastOneOut(r, req[r].user) /\ req[r].call.status # "ended"
                  THEN <<EndRow(req[r].user)>>
                  ELSE <<>>]
    /\ DatabaseIsKept

\* enqueueParticipantEventTx: the sequence is drawn when the row is inserted,
\* the event is visible when the transaction commits.
EnqueueEvent(r) ==
    /\ AtStatement(r, {"event"})
    /\ req' = [req EXCEPT ![r].plan = Tail(@),
                   ![r].tx.event = [seq |-> next, own |-> TRUE, what |-> Statement(r).what]]
    /\ next' = next + 1
    /\ UNCHANGED <<call, rows, lastEvent, room, tokens, begun, faults>>

\* publishParticipantEvent: an outbox row of its own; its error is only logged.
PublishEvent(r) ==
    LET s == Statement(r) IN
    /\ AtStatement(r, {"publish"})
    /\ req' = [req EXCEPT ![r].plan = Tail(@)]
    /\ \/ /\ lastEvent' = [lastEvent EXCEPT ![s.user] =
                              [seq |-> next, own |-> FALSE, what |-> s.what]]
          /\ next' = next + 1
          /\ faults' = faults
       \/ /\ faults < MaxFaults
          /\ faults' = faults + 1
          /\ UNCHANGED <<lastEvent, next>>
    /\ UNCHANGED <<call, rows, room, tokens, begun>>

Later(e, f) == IF e.seq > f.seq THEN e ELSE f

\* The plan is over: the transaction commits, and a request that ended the call
\* goes on to close its rooms, unless the commit's answer was lost.
Commit(r) ==
    LET tx == req[r].tx IN
    /\ req[r].pc = "run"
    /\ req[r].plan = <<>>
    /\ rows' = IF tx.row # NoRow THEN [rows EXCEPT ![tx.user] = tx.row] ELSE rows
    /\ call' = IF tx.status # "none" THEN [call EXCEPT !.status = tx.status] ELSE call
    /\ lastEvent' = [lastEvent EXCEPT ![req[r].user] = Later(tx.event, @)]
    /\ \/ /\ req' = [req EXCEPT ![r] = IF @.ended THEN [Idle EXCEPT !.pc = "close"] ELSE Idle]
          /\ faults' = faults
       \/ /\ req[r].ended
          /\ faults < MaxFaults
          /\ req' = [req EXCEPT ![r] = Idle]
          /\ faults' = faults + 1
    /\ UNCHANGED <<room, tokens, next, begun>>

\* closeAllBreakoutSFURooms and CloseRoom, after the commit.
CloseRooms(r) ==
    /\ req[r].pc = "close"
    /\ room' = [open |-> FALSE, peers |-> {}]
    /\ req' = [req EXCEPT ![r] = Idle]
    /\ UNCHANGED <<call, rows, lastEvent, tokens, next, begun, faults>>

\* HandleMediaOffer after its checks: the room is found or made, the user's old
\* peer replaced; adding the new one may be refused.
MediaOffer(r) ==
    /\ req[r].pc = "room"
    /\ \E added \in BOOLEAN :
          room' = [open |-> TRUE,
                   peers |-> (room.peers \ {req[r].user})
                             \cup (IF added THEN {req[r].user} ELSE {})]
    /\ req' = [req EXCEPT ![r] = Idle]
    /\ UNCHANGED <<call, rows, lastEvent, tokens, next, begun, faults>>

\* A statement fails: the transaction is rolled back and the request answers an
\* error; AdmitAll skips the participant.
StatementFails(r) ==
    /\ req[r].pc \in {"own", "target", "list", "run"}
    /\ ~AtStatement(r, {"publish"})
    /\ faults < MaxFaults
    /\ faults' = faults + 1
    /\ \/ Refuse(r)
       \/ /\ req[r].op = "admitAll"
          /\ AtStatement(r, {"connect"})
          /\ req' = [req EXCEPT ![r].plan = Tail(Tail(@))]
    /\ UNCHANGED <<call, rows, lastEvent, room, tokens, next, begun>>

----------------------------------------------------------------------------
Next ==
    \/ \E settings \in StartSettings : StartCall(settings)
    \/ \E u \in Users : IssueMediaJoinToken(u)
    \/ \E r \in Requests :
        \/ \E op \in Ops, u, t \in Users :
              /\ op \in {"admit", "reject", "remove", "role", "mute"} \/ t = u
              /\ \E arg \in Args(op) : Begin(r, op, u, t, arg)
        \/ ReadOwn(r)
        \/ ReadTarget(r)
        \/ ReadList(r)
        \/ WriteRow(r)
        \/ WriteCall(r)
        \/ WriteSettings(r)
        \/ ListAfterLeave(r)
        \/ EnqueueEvent(r)
        \/ PublishEvent(r)
        \/ Commit(r)
        \/ CloseRooms(r)
        \/ MediaOffer(r)
        \/ StatementFails(r)

Spec == Init /\ [][Next]_vars

----------------------------------------------------------------------------
\* Every variable has the shape the actions give it; no peer is left in a room
\* that CloseRoom closed, and no write of a transaction is on another's row.
TypeOK ==
    /\ call.status \in {"none", "ringing", "active", "ended"}
    /\ call.settings \in CallSettings
    /\ rows \in [Users -> Row \cup {NoRow}]
    /\ lastEvent \in [Users -> Event]
    /\ room \in [open : BOOLEAN, peers : SUBSET Users]
    /\ room.peers # {} => room.open
    /\ tokens \subseteq Users
    /\ next \in Nat \ {0}
    /\ begun \in 0 .. MaxRequests
    /\ faults \in 0 .. MaxFaults
    /\ \A r \in Requests :
         /\ req[r].pc \in {"idle", "own", "target", "list", "run", "close", "room"}
         /\ req[r].pc # "idle" /\ req[r].pc # "close" => req[r].op \in Ops
         /\ req[r].tx.row \in Row \cup {NoRow}
         /\ req[r].tx # NoTx => InTx(r)
         /\ req[r].tx.row # NoRow => req[r].tx.user = req[r].user

\* The member who started the call is its host for good: no role change, removal
\* or rejection, decided on whatever stale rows, takes the host's row or role
\* away, so that somebody can always end the call.
CreatorHosts ==
    call.status # "none" => rows[Creator].role = "host"

\* A client that replays the outbox in sequence order and ends with an event of
\* the participant's own join or leave ends with what the row says: "left" for a
\* disconnected one, "waiting" for one in the waiting room.  The sequence is
\* drawn while the row is locked, so that it orders the events as the row's
\* writes are ordered.  (The host's operations publish after their commit and
\* promise nothing of the kind.)
OutboxTellsStatus ==
    \A u \in Users :
        lastEvent[u].own =>
            /\ rows[u].status = "disconnected" => lastEvent[u].what = "left"
            /\ rows[u].status = "waiting" => lastEvent[u].what = "waiting"

\* The requests waiting for a row lock of another request.
WaitsFor(r, s) ==
    /\ s # r
    /\ req[r].pc = "run"
    /\ req[r].plan # <<>>
    /\ \/ /\ Statement(r).do \in {"connect", "disconnect", "role", "media", "delete", "insert"}
          /\ req[s].tx.row # NoRow
          /\ req[s].tx.user = Statement(r).user
       \/ /\ Statement(r).do \in {"activate", "end", "settings"}
          /\ req[s].tx.status # "none"

\* The transactions lock a participant row before the calls row and never two
\* participant rows, so no requests wait for each other in a circle.
NoLockCycle ==
    \A S \in (SUBSET Requests) \ {{}} :
        \E r \in S : \A s \in S : ~WaitsFor(r, s)

\* A call that ended comes back only by a request that had read it ringing: once
\* somebody has joined and the requests begun before are over, the end is final.
EndIsFinalForNewRequests ==
    [][call.status = "ended" /\ call'.status # "ended"
         => \E r \in Requests : req[r].call.status = "ringing"]_vars

\* LeaveCall's comment: "If the last participant leaves, the call ends."
LastLeaveEndsCall ==
    (/\ call.status # "none"
     /\ \A r \in Requests : req[r].pc = "idle"
     /\ ActiveCount(rows) = 0)
    => call.status = "ended"

=============================================================================
