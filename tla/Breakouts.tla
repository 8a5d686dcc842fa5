----------------------------- MODULE Breakouts -----------------------------
(***************************************************************************)
(* Breakout rooms of a call (src/internal/service/call/breakout.go): their *)
(* rows, the room each participant's row names, and the SFU rooms of the   *)
(* node.                                                                   *)
(*                                                                         *)
(* No request runs in a transaction: it reads the call, the room and its   *)
(* own row, changes the SFU and writes, each in a step of its own.  A      *)
(* request that creates several rooms is one request each here.  Roles,    *)
(* names and time limits, which nothing enforces, are left out, and so are *)
(* events, lists and broadcasts, which change nothing, and peers: media    *)
(* goes to the call's own SFU room (MediaRoom), whatever the row says.     *)
(***************************************************************************)
EXTENDS FiniteSets

CONSTANTS
    Attendees,      \* members with a row in the call
    Breakout,       \* breakout room ids
    Main,           \* no breakout room
    Desks           \* requests in progress at a time

ASSUME BreakoutAssumption == Main \notin Breakout

VARIABLES
    callStatus, \* status of the call
    row,        \* per attendee: connected or not, and breakout_room_id
    rooms,      \* status of the breakout_rooms rows
    sfuRooms,   \* SFU rooms of breakouts on this node
    task,       \* the request at each desk
    quiet       \* rooms closed while nobody was on the way in (history)

breakoutVars == <<callStatus, row, rooms, sfuRooms, task, quiet>>

\* left: rooms the request has emptied with nobody on the way in (history).
NoTask == [kind |-> "none", at |-> "idle", who |-> Main, room |-> Main,
           todo |-> {}, left |-> {}]

BreakoutInit ==
    /\ callStatus = "active"
    /\ row = [m \in Attendees |-> [on |-> TRUE, room |-> Main]]
    /\ rooms = [r \in Breakout |-> "none"]
    /\ sfuRooms = {}
    /\ task = [d \in Desks |-> NoTask]
    /\ quiet = {}

Doing(d, kind, step) == task[d].kind = kind /\ task[d].at = step
Take(d, new)      == task' = [task EXCEPT ![d] = new]
Turn(d, step)     == task' = [task EXCEPT ![d].at = step]
Leave(d)          == task' = [task EXCEPT ![d] = NoTask]

Active == {r \in Breakout : rooms[r] = "active"}
In(r)  == {m \in Attendees : row[m].room = r}

\* Somebody has read the room as active and will write it into a row.
Entering(r) == \E e \in Desks : task[e].kind = "move" /\ task[e].room = r

----------------------------------------------------------------------------
(* CreateBreakoutRooms: the row, then the SFU room.                        *)

CreateBreakoutRoom(d, r) ==
    /\ task[d] = NoTask /\ callStatus = "active" /\ rooms[r] = "none"
    /\ Take(d, [NoTask EXCEPT !.kind = "create", !.at = "insert", !.room = r])
    /\ UNCHANGED <<callStatus, row, rooms, sfuRooms, quiet>>

InsertRoom(d) ==
    /\ Doing(d, "create", "insert") /\ rooms[task[d].room] = "none"
    /\ rooms' = [rooms EXCEPT ![task[d].room] = "active"]
    /\ Turn(d, "sfu")
    /\ UNCHANGED <<callStatus, row, sfuRooms, quiet>>

OpenRoom(d) ==
    /\ Doing(d, "create", "sfu")
    /\ sfuRooms' = sfuRooms \cup {task[d].room}
    /\ Leave(d)
    /\ UNCHANGED <<callStatus, row, rooms, quiet>>

----------------------------------------------------------------------------
(* JoinBreakoutRoom and ReturnToMainRoom.                                  *)

\* Mutation: the status of the room is not looked at.
JoinableAlways(r) == rooms[r] # "none"

Joinable(r) == rooms[r] = "active"

JoinBreakoutRoom(d, m, r) ==
    /\ task[d] = NoTask /\ callStatus = "active" /\ Joinable(r)
    /\ task' = [e \in Desks |->
          IF e = d THEN [NoTask EXCEPT !.kind = "move", !.at = "self",
                                       !.who = m, !.room = r]
                   ELSE [task[e] EXCEPT !.left = @ \ {r}]]
    /\ UNCHANGED <<callStatus, row, rooms, sfuRooms, quiet>>

\* Reads the attendee's own row.
Participant(d) ==
    /\ Doing(d, "move", "self")
    /\ IF row[task[d].who].on THEN Turn(d, "assign") ELSE Leave(d)
    /\ UNCHANGED <<callStatus, row, rooms, sfuRooms, quiet>>

ReturnToMainRoom(d, m) ==
    /\ task[d] = NoTask /\ row[m].room # Main
    /\ Take(d, [NoTask EXCEPT !.kind = "move", !.at = "assign", !.who = m])
    /\ UNCHANGED <<callStatus, row, rooms, sfuRooms, quiet>>

\* AssignParticipant asks for a connected row, UnassignParticipant does not.
Assign(d) ==
    LET m == task[d].who IN
    /\ Doing(d, "move", "assign")
    /\ row' = IF row[m].on \/ task[d].room = Main
                THEN [row EXCEPT ![m].room = task[d].room] ELSE row
    /\ Leave(d)
    /\ UNCHANGED <<callStatus, rooms, sfuRooms, quiet>>

----------------------------------------------------------------------------
(* CloseBreakoutRoom, CloseAllBreakoutRooms and the end of the call.       *)

CloseBreakoutRoom(d, r) ==
    /\ task[d] = NoTask /\ rooms[r] = "active"
    /\ Take(d, [NoTask EXCEPT !.kind = "close", !.at = "empty",
                              !.room = r, !.todo = {r}])
    /\ UNCHANGED <<callStatus, row, rooms, sfuRooms, quiet>>

CloseAllBreakoutRooms(d) ==
    /\ task[d] = NoTask
    /\ Take(d, [NoTask EXCEPT !.kind = "closeAll", !.at = "empty", !.todo = Active])
    /\ UNCHANGED <<callStatus, row, rooms, sfuRooms, quiet>>

\* The transaction that ends the call, and what is left of the request.
EndCallCommits(d) ==
    /\ task[d] = NoTask /\ callStatus = "active"
    /\ callStatus' = "ended"
    /\ Take(d, [NoTask EXCEPT !.kind = "end", !.at = "list"])
    /\ UNCHANGED <<row, rooms, sfuRooms, quiet>>

ListRooms(d) ==
    /\ Doing(d, "end", "list")
    /\ Take(d, [task[d] EXCEPT !.at = "empty", !.todo = Active])
    /\ UNCHANGED <<callStatus, row, rooms, sfuRooms, quiet>>

\* UnassignAllByRoom and CloseRoom; a failing UPDATE is only logged, and the
\* end of the call leaves the rows as they are.
EmptyRoom(d, r) ==
    LET ends == task[d].kind = "end" IN
    /\ task[d].at = "empty" /\ r \in task[d].todo
    /\ sfuRooms' = sfuRooms \ {r}
    /\ \/ /\ ~ends
          /\ row' = [m \in Attendees |->
                IF m \in In(r) THEN [row[m] EXCEPT !.room = Main] ELSE row[m]]
          /\ Take(d, [task[d] EXCEPT !.todo = @ \ {r},
                         !.left = IF Entering(r) THEN @ ELSE @ \cup {r}])
       \/ Take(d, [task[d] EXCEPT !.todo = @ \ {r}]) /\ UNCHANGED row
    /\ UNCHANGED <<callStatus, rooms, quiet>>

\* Close asks for an active row; CloseAllByCall closes whatever is active.
CloseRows(d) ==
    LET gone == IF task[d].kind = "close" THEN {task[d].room} \cap Active
                                          ELSE Active
    IN
    /\ task[d].at = "empty" /\ task[d].todo = {}
    /\ rooms' = [r \in Breakout |-> IF r \in gone THEN "closed" ELSE rooms[r]]
    /\ quiet' = quiet \cup (gone \cap task[d].left)
    /\ Leave(d)
    /\ UNCHANGED <<callStatus, row, sfuRooms>>

----------------------------------------------------------------------------
\* A statement fails or the server dies: what was written stays.
TaskFails(d) ==
    /\ task[d] # NoTask
    /\ Leave(d)
    /\ UNCHANGED <<callStatus, row, rooms, sfuRooms, quiet>>

\* LeaveCall and JoinCall of somebody with a row keep breakout_room_id.
Rejoin(m) ==
    /\ row[m].on \/ callStatus = "active"
    /\ row' = [row EXCEPT ![m].on = ~@]
    /\ UNCHANGED <<callStatus, rooms, sfuRooms, task, quiet>>

BreakoutNext ==
    \/ \E d \in Desks :
          \/ InsertRoom(d) \/ OpenRoom(d) \/ Participant(d) \/ Assign(d)
          \/ CloseAllBreakoutRooms(d) \/ EndCallCommits(d) \/ ListRooms(d)
          \/ CloseRows(d) \/ TaskFails(d)
          \/ \E r \in Breakout : \/ CreateBreakoutRoom(d, r)
                                 \/ CloseBreakoutRoom(d, r) \/ EmptyRoom(d, r)
          \/ \E m \in Attendees :
                \/ ReturnToMainRoom(d, m)
                \/ \E r \in Breakout : JoinBreakoutRoom(d, m, r)
    \/ \E m \in Attendees : Rejoin(m)

BreakoutSpec == BreakoutInit /\ [][BreakoutNext]_breakoutVars

----------------------------------------------------------------------------
(* CloseBreakoutRoom: "All participants in the room are moved back to the  *)
(* main call".  Whoever comes, goes or is moved at the same time, nobody's *)
(* row names a room that was emptied and closed with nobody on the way in. *)
ClosedRoomIsLeft == \A r \in quiet : In(r) = {}
=============================================================================
