------------------------------ MODULE MCAccess ------------------------------
EXTENDS Presence

CONSTANTS u, s1, s2, s3, w1, w2, v, ev

MCTabs == {<<s1, w1>>, <<s1, w2>>, <<s2, w1>>}
Owners == [s \in {s1, s2, s3} |-> u]

(* One more login than the cap allows, with logouts, bulk logouts and      *)
(* listings; failing commands; two refreshes of one session against the    *)
(* touch worker, a logout and the end of its life; an eviction against the *)
(* tabs of two workspaces, and with failing commands; two sessions of one  *)
(* user, and one whose record lapses, against a reader.                    *)
Together == {{s1, s2, s3, "login", "logout"},
             {s1, s2, "login", "logoutAll", "listing", "expire"},
             {s1, s2, "login", "logout", "fail"},
             {s1, "login", "logout", "refresh", "touch", "expire"},
             {s1, w1, w2, "login", "logout", "set", "evict"},
             {s1, w1, "login", "logout", "set", "evict", "fail", "lapse"},
             {s1, s2, w1, "login", "set", "look"},
             {s1, w1, "login", "logout", "set", "offline", "look", "lapse"}}
=============================================================================
