------------------------------- MODULE MCHub -------------------------------
EXTENDS WSHub, TLC

CONSTANTS c1, c2, k1, r1

(* Two connections of one session: a second tab, or a reconnect.  Nothing  *)
(* tells one from the other.                                               *)
OneKey == [c \in Clients |-> k1]
OneRoom == [n \in 1 .. MaxEvent |-> r1]
Tabs == Permutations(Clients)
=============================================================================
