----------------------------- MODULE MCCluster -----------------------------
EXTENDS MediaCluster

CONSTANTS host, v, east, west

(* Two nodes of one region; two regions; two regions and a third node.     *)
One == [n \in {1, 2} |-> east]
Two == [n \in {1, 2} |-> IF n = 1 THEN east ELSE west]
Three == [n \in {1, 2, 3} |-> IF n = 3 THEN west ELSE east]

Situation(type, region, placed, h, w, events) ==
    [type |-> type, region |-> region, placed |-> placed, events |-> events,
     busy |-> [n \in DOMAIN region |-> 0], late |-> {}, shared |-> {},
     requests |-> [u \in {host, v} |-> IF u = host THEN h ELSE w]]

(* Other calls come and go on a node, on which b are running.              *)
Shared(s, n, b) == [s EXCEPT !.shared = {n}, !.busy[n] = b]

(* A first placement within a region, beside other calls, and calls placed *)
(* already: one whose node fills up while either region asks, one whose    *)
(* row cannot be read, with media to relay, a webinar, a node that fails,  *)
(* one whose heartbeat is late, a store that fails, a call that ends, and  *)
(* relay nodes that other calls fill and leave.                            *)
Kept ==
    {Shared(Situation("meeting", One, None, 1, 1, {}), 1, 1),
     Shared(Situation("meeting", Two, 1, 1, 1, {}), 1, 1),
     Shared(Situation("meeting", One, 1, 2, 0, {"read"}), 1, 1),
     Situation("meeting", Two, 1, 2, 2, {"offer", "media"}),
     Situation("webinar", Three, 1, 2, 1, {"offer", "media"}),
     Situation("meeting", Two, 1, 3, 0, {"offer", "media", "drop", "crash"}),
     [Situation("meeting", Two, 1, 3, 0, {"offer", "media"}) EXCEPT !.late = {2}],
     Situation("meeting", Two, 1, 2, 1, {"offer", "media", "store"}),
     Situation("group", Two, 1, 3, 1, {"offer", "media", "end"}),
     Situation("meeting", Two, 1, 3, 0, {"offer", "media", "end"}),
     Shared(Situation("meeting", Two, 1, 2, 0, {"offer", "media"}), 2, 1)}
=============================================================================
