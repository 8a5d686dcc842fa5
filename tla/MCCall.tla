------------------------------- MODULE MCCall -------------------------------
(* Instances of CallLifecycle: two members, two requests at a time. *)
EXTENDS CallLifecycle, TLC

CONSTANTS host, ann, r1, r2

Open  == [locked |-> FALSE, waitingRoom |-> FALSE, screenSharing |-> TRUE]
Lobby == [Open EXCEPT !.waitingRoom = TRUE]

\* A call open to all, and one with a waiting room.
OpenOrLobby == {Open, Lobby}
OnlyOpen    == {Open}

\* The patches the instance enumerates, one of a kind.
OnePatchEach ==
    [op \in {"settings", "media", "mute"} |->
        CASE op = "settings" -> {<<"locked", TRUE>>}
          [] op = "media"    -> {<<"sharing", TRUE>>}
          [] op = "mute"     -> {<<"sharing", FALSE>>}]

\* The request slots are alike.
Slots == Permutations(Requests)
=============================================================================
