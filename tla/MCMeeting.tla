----------------------------- MODULE MCMeeting -----------------------------
(***************************************************************************)
(* Instances of GuestAccess, Breakouts and MeetingLinks in one run.  They  *)
(* share no state: a behaviour is one of the part it starts with.          *)
(***************************************************************************)
EXTENDS GuestAccess, Breakouts, MeetingLinks, TLC

CONSTANTS i1, i2, a, b, mia, c, any, ann, bob, r1, r2, main, g1, g2, g3, link

VARIABLE part

meetingVars == <<guestVars, breakoutVars, linkVars, part>>

\* For one guest, whoever it is; for a known address, to all channels.
TwoOffers == {[max |-> 1, only |-> any, channels |-> {c}],
              [max |-> 2, only |-> b, channels |-> {}]}

MeetingInit ==
    /\ GuestInit /\ BreakoutInit /\ LinkInit
    /\ part \in {"guests", "breakouts", "links"}
    /\ doors.waiting => part = "links"

MeetingNext ==
    /\ UNCHANGED part
    /\ \/ part = "guests" /\ GuestNext /\ UNCHANGED <<breakoutVars, linkVars>>
       \/ part = "breakouts" /\ BreakoutNext /\ UNCHANGED <<guestVars, linkVars>>
       \/ part = "links" /\ LinkNext /\ UNCHANGED <<guestVars, breakoutVars>>

MeetingSpec == MeetingInit /\ [][MeetingNext]_meetingVars

\* Guests of a link are alike.
Alike == Permutations({g1, g2, g3})
=============================================================================
