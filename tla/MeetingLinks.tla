---------------------------- MODULE MeetingLinks ----------------------------
(***************************************************************************)
(* Invite links of a meeting: guests without an account join its call by a *)
(* link (src/internal/service/meeting/service.go).                         *)
(*                                                                         *)
(* A join is one request of statements that each commit on their own: it   *)
(* reads link and call, checks them, writes a guest session, takes a seat, *)
(* rings the call on, counts the use, and answers with a token.  Every     *)
(* join makes a guest session, so a guest is its join.  The seat is taken  *)
(* by one INSERT that counts the seats of the snapshot it started with, so *)
(* its count and its row are two steps.  Passcodes, roles and names are    *)
(* left out; host requests are one step each.                              *)
(***************************************************************************)
EXTENDS Integers, FiniteSets

CONSTANTS
    Links,          \* links of the call, with the same max_uses
    MeetingGuests,
    LinkMax,        \* max_uses
    SeatCap,        \* meetingParticipantCap
    AtOnce          \* joins in progress at a time

ASSUME LinkAssumption == {LinkMax, SeatCap, AtOnce} \subseteq Nat \ {0}

VARIABLES
    links,      \* meeting_invite_links
    meeting,    \* status of the call
    doors,      \* settings of the call: locked, waiting room
    seats,      \* participant rows of guests
    joining,    \* the join of each guest
    admissions  \* guests let in from the waiting room (history)

linkVars == <<links, meeting, doors, seats, joining, admissions>>

NoJoin == [pc |-> "new"]

LinkInit ==
    /\ links = [l \in Links |-> [made |-> FALSE, uses |-> 0,
                                 revoked |-> FALSE, expired |-> FALSE]]
    /\ meeting = "ringing"
    /\ doors \in [locked : {FALSE}, waiting : BOOLEAN]
    /\ seats = [g \in MeetingGuests |-> "none"]
    /\ joining = [g \in MeetingGuests |-> NoJoin]
    /\ admissions = {}

InProgress == {g \in MeetingGuests : joining[g].pc \notin {"new", "failed", "answered"}}
Connected == {g \in MeetingGuests : seats[g] = "connected"}

Goto(g, at) == joining' = [joining EXCEPT ![g].pc = at]

-----------------------------------------------------------------------------
(* Join.                                                                   *)

GetInviteLink(g, l) ==
    /\ joining[g] = NoJoin /\ links[l].made /\ Cardinality(InProgress) < AtOnce
    /\ joining' = [joining EXCEPT ![g] =
          [pc |-> "check", link |-> l,
           usable |-> ~links[l].revoked /\ links[l].uses < LinkMax]]
    /\ UNCHANGED <<links, meeting, doors, seats, admissions>>

\* Mutation: a full link is taken for an active one.
Passable(j) == ~links[j.link].expired /\ meeting # "ended"

\* inviteStatus: the link as it was read, against the clock and the call.
InviteActive(j) == j.usable /\ ~links[j.link].expired /\ meeting # "ended"

CheckInvite(g) ==
    /\ joining[g].pc = "check"
    /\ IF InviteActive(joining[g]) /\ ~doors.locked
         THEN joining' = [joining EXCEPT ![g] =
                 [pc |-> "seat", link |-> @.link, rings |-> meeting = "ringing",
                  as |-> IF doors.waiting THEN "waiting" ELSE "connected"]]
         ELSE Goto(g, "failed")
    /\ UNCHANGED <<links, meeting, doors, seats, admissions>>

\* Mutation: a seat is free whatever is taken.
FreeAlways == TRUE

\* The count AddParticipantIfCapacity compares with the cap.
SeatFree == Cardinality(Connected) < SeatCap

CountSeats(g) ==
    /\ joining[g].pc = "seat"
    /\ Goto(g, IF SeatFree THEN "insert" ELSE "failed")
    /\ UNCHANGED <<links, meeting, doors, seats, admissions>>

AddParticipant(g) ==
    /\ joining[g].pc = "insert"
    /\ seats' = [seats EXCEPT ![g] = joining[g].as]
    /\ Goto(g, "ring")
    /\ UNCHANGED <<links, meeting, doors, admissions>>

\* By id: a call that has ended meanwhile is active again.
ActivateCall(g) ==
    /\ joining[g].pc = "ring"
    /\ meeting' = IF joining[g].rings /\ joining[g].as = "connected"
                    THEN "active" ELSE meeting
    /\ Goto(g, "count")
    /\ UNCHANGED <<links, doors, seats, admissions>>

\* Whatever the link has become.
IncrementInviteUseCount(g) ==
    /\ joining[g].pc = "count"
    /\ links' = [links EXCEPT ![joining[g].link].uses = @ + 1]
    /\ Goto(g, "answered")
    /\ UNCHANGED <<meeting, doors, seats, admissions>>

\* A statement fails or the server dies: what was written stays.
JoinFails(g) ==
    /\ g \in InProgress
    /\ Goto(g, "failed")
    /\ UNCHANGED <<links, meeting, doors, seats, admissions>>

-----------------------------------------------------------------------------
(* The hosts, the clock and the guests who leave.                          *)

CreateInviteLink(l) ==
    /\ ~links[l].made /\ meeting # "ended"
    /\ links' = [links EXCEPT ![l].made = TRUE]
    /\ UNCHANGED <<meeting, doors, seats, joining, admissions>>

RevokeInviteLink(l) ==
    /\ links[l].made
    /\ links' = [links EXCEPT ![l].revoked = TRUE]
    /\ UNCHANGED <<meeting, doors, seats, joining, admissions>>

LinkExpires(l) ==
    /\ links[l].made
    /\ links' = [links EXCEPT ![l].expired = TRUE]
    /\ UNCHANGED <<meeting, doors, seats, joining, admissions>>

ChangeDoors ==
    /\ meeting # "ended"
    /\ doors' \in [locked : BOOLEAN, waiting : BOOLEAN]
    /\ UNCHANGED <<links, meeting, seats, joining, admissions>>

EndMeeting ==
    /\ meeting # "ended"
    /\ meeting' = "ended"
    /\ UNCHANGED <<links, doors, seats, joining, admissions>>

\* No capacity is looked at.
AdmitGuest(g) ==
    /\ seats[g] = "waiting"
    /\ seats' = [seats EXCEPT ![g] = "connected"]
    /\ admissions' = admissions \cup {g}
    /\ meeting' = IF meeting = "ringing" THEN "active" ELSE meeting
    /\ UNCHANGED <<links, doors, joining>>

GuestLeaves(g) ==
    /\ seats[g] \in {"waiting", "connected"}
    /\ seats' = [seats EXCEPT ![g] = "disconnected"]
    /\ UNCHANGED <<links, meeting, doors, joining, admissions>>

LinkNext ==
    \/ \E l \in Links : CreateInviteLink(l) \/ RevokeInviteLink(l) \/ LinkExpires(l)
    \/ ChangeDoors \/ EndMeeting
    \/ \E g \in MeetingGuests :
          \/ \E l \in Links : GetInviteLink(g, l)
          \/ CheckInvite(g) \/ CountSeats(g) \/ AddParticipant(g) \/ ActivateCall(g)
          \/ IncrementInviteUseCount(g) \/ JoinFails(g)
          \/ AdmitGuest(g) \/ GuestLeaves(g)

LinkSpec == LinkInit /\ [][LinkNext]_linkVars

-----------------------------------------------------------------------------
(* max_uses: the check is made on a row read before and the UPDATE has no  *)
(* condition, so joins in progress together use a link too often, but each *)
(* of the others only once; and nobody has a token that was not counted.   *)
LinkUses ==
    \A l \in Links :
        /\ links[l].uses < LinkMax + AtOnce
        /\ Cardinality({g \in MeetingGuests :
              joining[g].pc = "answered" /\ joining[g].link = l}) <= links[l].uses

(* AddParticipantIfCapacity: two INSERTs do not see each other's row, so   *)
(* the cap is exceeded, but without admissions only by the joins that are  *)
(* in progress with the one that takes the last seat.                      *)
SeatsBounded == Cardinality(Connected \ admissions) < SeatCap + AtOnce
=============================================================================
