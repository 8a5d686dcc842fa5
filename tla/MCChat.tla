------------------------------- MODULE MCChat -------------------------------
EXTENDS Chat, Timeline

CONSTANTS m1, m2, g1, f1, c1, c2, a, b, w1, w2, guest, key, reader

Parents == [f \in {f1} |-> m1]
Authors == [m \in {m1, m2, g1} |-> IF m = g1 THEN guest ELSE a]
Keys == [m \in {m1, m2, g1} |-> key]

(* A message under failing and under several workers; edits and a deletion *)
(* beside a reindex; a guest's messages; files of a message that goes, or  *)
(* beside a reindex, or with failing calls; pins and reactions, and pins   *)
(* beside edits of a member and of a guest; channels; a member who leaves  *)
(* while writing; two requests for one direct message; a send that is      *)
(* repeated; a client that pages through the history.                      *)
Together == {{m1, w1, w2, "send", "fault"},
             {m1, w1, w2, "send", "edit"},
             {m1, w1, "send", "edit", "fault"},
             {m1, w1, "send", "edit", "delete", "reindex"},
             {g1, w1, "send", "edit", "fault"},
             {g1, w1, "send", "edit", "delete"},
             {g1, w1, "send", "edit", "reindex"},
             {m1, f1, w1, "send", "delete", "upload", "discard"},
             {m1, f1, w1, "send", "delete", "upload", "reindex"},
             {m1, f1, "send", "upload", "discard", "fault"},
             {m1, "send", "delete", "pin", "unpin", "fault"},
             {m1, "send", "delete", "react", "unreact", "fault"},
             {m1, "send", "edit", "pin", "unpin"},
             {g1, "send", "edit", "pin", "react"},
             {c1, w1, "open", "rename", "reindex", "fault"},
             {m1, a, "send", "edit", "join", "leave"},
             {c1, c2, a, "dm"},
             {m1, m2, a, "send"},
             {"pages"}}

AskedLimits == 0..3

\* The history is a part of its own: it shares no state with Chat.
ChatInit == Init /\ TimelineInit
ChatNext ==
    \/ Next /\ UNCHANGED timelineVars
    \/ "pages" \in here /\ TimelineNext /\ UNCHANGED vars
ChatSpec == ChatInit /\ [][ChatNext]_<<vars, timelineVars>> /\ Fairness
=============================================================================
