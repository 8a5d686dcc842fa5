------------------------------ MODULE Presence ------------------------------
(***************************************************************************)
(* Presence in Redis on top of the sessions: a record for each session and *)
(* workspace, the index sets of users and sessions, the set of online      *)
(* users, and the eviction of a revoked session.                           *)
(*                                                                         *)
(* A client sets its presence through a tab, one session in one workspace, *)
(* as long as its session is valid.  Status and time of a record are left  *)
(* out.  The online set is one shard.                                      *)
(***************************************************************************)
EXTENDS Sessions

CONSTANTS
    Tabs,           \* <<session, workspace>> pairs in use
    Viewers,        \* requests that read a user's presence
    Evictor         \* the subscriber of the SessionRevoked events

Actors == Tabs \cup Viewers \cup {Evictor}

ASSUME PresenceAssumption ==
    /\ Tabs \subseteq Ids \X Workspaces
    /\ Viewers \cap Tabs = {} /\ Evictor \notin Tabs \cup Viewers

VARIABLES
    records,   \* presence:session:<workspace>:<session> exists
    members,   \* presence:user_sessions:<workspace>:<user>
    online,    \* presence:online:<workspace>
    spaces,    \* presence:workspaces:<session>
    offline,   \* tabs whose user chose to be offline
    strays,    \* tabs saved while their session was evicted (history)
    overtaken, \* tabs saved anew while their user was aggregated (history)
    act        \* the presence operation of each actor

stored == <<records, members, online, spaces>>
history == <<strays, overtaken>>
presenceVars == <<stored, offline, history, act>>
vars == <<sessionVars, presenceVars>>

Free == [at |-> "idle", user |-> None, sid |-> None, ws |-> None,
         ids |-> {}, found |-> FALSE, gone |-> None, rest |-> {}]

Init ==
    /\ SessionInit
    /\ records = {}
    /\ members = [w \in Workspaces |-> [u \in Users |-> {}]]
    /\ online = [w \in Workspaces |-> {}]
    /\ spaces = [s \in Ids |-> {}]
    /\ offline = {}
    /\ strays = {}
    /\ overtaken = {}
    /\ act = [a \in Actors |-> Free]

InUse(t) == {"set", t[1], t[2]} \subseteq here
Become(a, state) == act' = [act EXCEPT ![a] = state]

-----------------------------------------------------------------------------
(* A status request: authenticated first, which defers a touch, then       *)
(* saveSession writes the record and every index in one batch.             *)

Request(t, kind, at) ==
    /\ kind \in here /\ InUse(t) /\ act[t] = Free /\ t \notin offline
    /\ Live(t[1])
    /\ Become(t, [Free EXCEPT !.at = at, !.user = Owner[t[1]], !.sid = t[1],
                              !.ws = t[2]])
    /\ pending' = IF "touch" \in here THEN pending \cup {t[1]} ELSE pending
    /\ UNCHANGED <<here, redis, clock, flushed, events, unchecked, op,
                   stored, history>>

SetPresence(t) == Request(t, "set", "save") /\ UNCHANGED offline
SetOffline(t) == Request(t, "offline", "remove") /\ offline' = offline \cup {t}

(* An aggregation of the tab's user has read the index, and decides by it. *)
Aggregated(t) ==
    \E x \in Actors :
        /\ act[x].at \in {"get", "forget", "settle"}
        /\ act[x].user = Owner[t[1]] /\ act[x].ws = t[2]

(* A record that is there, and is shown, is only renewed.                  *)
Overtaking(t) ==
    IF Aggregated(t) /\ t \notin records \ overtaken
    THEN overtaken \cup {t}
    ELSE overtaken \ {t}

(* Mutation: a record that exists is renewed without its indexes.          *)
SaveRecordOnly(t) ==
    LET a == act[t]
        new == t \notin records IN
    /\ a.at = "save"
    /\ records' = records \cup {t}
    /\ members' = IF new THEN [members EXCEPT ![a.ws][a.user] = @ \cup {a.sid}]
                  ELSE members
    /\ online' = IF new THEN [online EXCEPT ![a.ws] = @ \cup {a.user}] ELSE online
    /\ spaces' = IF new THEN [spaces EXCEPT ![a.sid] = @ \cup {a.ws}] ELSE spaces
    /\ strays' = IF act[Evictor].sid = a.sid THEN strays \cup {t} ELSE strays
    /\ overtaken' = Overtaking(t)
    /\ Become(t, Free)
    /\ UNCHANGED <<sessionVars, offline>>

Save(t) ==
    LET a == act[t] IN
    /\ a.at = "save"
    /\ records' = records \cup {t}
    /\ members' = [members EXCEPT ![a.ws][a.user] = @ \cup {a.sid}]
    /\ online' = [online EXCEPT ![a.ws] = @ \cup {a.user}]
    /\ spaces' = [spaces EXCEPT ![a.sid] = @ \cup {a.ws}]
    /\ strays' = IF act[Evictor].sid = a.sid THEN strays \cup {t} ELSE strays
    /\ overtaken' = Overtaking(t)
    /\ Become(t, Free)
    /\ UNCHANGED <<sessionVars, offline>>

(* removeSessionPresence, of a tab or for the evictor, and then the        *)
(* refreshed aggregate.  When the user could not be looked up the entry in *)
(* the user's index and the aggregate are left.                            *)
Done(x) ==
    IF x # Evictor THEN Free
    ELSE [Free EXCEPT !.sid = act[x].sid, !.rest = act[x].rest,
                      !.at = IF act[x].rest = {} THEN "drop" ELSE "find"]

(* Mutation: leaving one workspace forgets every workspace of the session. *)
RemoveForgetsAll(x) ==
    LET a == act[x] IN
    /\ a.at = "remove"
    /\ records' = records \ {<<a.sid, a.ws>>}
    /\ members' = IF a.user = None THEN members
                  ELSE [members EXCEPT ![a.ws][a.user] = @ \ {a.sid}]
    /\ spaces' = [spaces EXCEPT ![a.sid] = {}]
    /\ strays' = strays \ {<<a.sid, a.ws>>}
    /\ overtaken' = overtaken \ {<<a.sid, a.ws>>}
    /\ Become(x, IF a.user = None THEN Done(x) ELSE [a EXCEPT !.at = "list"])
    /\ UNCHANGED <<sessionVars, online, offline>>

Remove(x) ==
    LET a == act[x] IN
    /\ a.at = "remove"
    /\ records' = records \ {<<a.sid, a.ws>>}
    /\ members' = IF a.user = None THEN members
                  ELSE [members EXCEPT ![a.ws][a.user] = @ \ {a.sid}]
    /\ spaces' = [spaces EXCEPT ![a.sid] = @ \ {a.ws}]
    /\ strays' = strays \ {<<a.sid, a.ws>>}
    /\ overtaken' = overtaken \ {<<a.sid, a.ws>>}
    /\ Become(x, IF a.user = None THEN Done(x) ELSE [a EXCEPT !.at = "list"])
    /\ UNCHANGED <<sessionVars, online, offline>>

-----------------------------------------------------------------------------
(* ClearSession, for a SessionRevoked event: the workspaces are read once, *)
(* each record is looked up for its user (and again, when it is not there) *)
(* and removed, and at the end the set of workspaces goes.                 *)

Evict(s) ==
    /\ "evict" \in here /\ s \in events /\ act[Evictor] = Free
    /\ Become(Evictor, [Free EXCEPT !.sid = s, !.rest = spaces[s],
                           !.at = IF spaces[s] = {} THEN "drop" ELSE "find"])
    /\ events' = events \ {s}
    /\ UNCHANGED <<here, redis, clock, touches, unchecked, op, stored, offline,
                   history>>

Find(w) ==
    LET a == act[Evictor] IN
    /\ \/ a.at = "find" /\ w \in a.rest
       \/ a.at = "again" /\ w = a.ws
    /\ Become(Evictor,
              IF <<a.sid, w>> \in records
              THEN [a EXCEPT !.at = "remove", !.ws = w, !.rest = @ \ {w},
                             !.user = Owner[a.sid]]
              ELSE [a EXCEPT !.at = IF @ = "find" THEN "again" ELSE "remove",
                             !.ws = w, !.rest = @ \ {w}])
    /\ UNCHANGED <<sessionVars, stored, offline, history>>

Drop ==
    /\ act[Evictor].at = "drop"
    /\ spaces' = [spaces EXCEPT ![act[Evictor].sid] = {}]
    /\ Become(Evictor, Free)
    /\ UNCHANGED <<sessionVars, records, members, online, offline, history>>

-----------------------------------------------------------------------------
(* aggregatePresence: the user's sessions, the record of each (one that is *)
(* missing is taken out of the index by a later command), and then, by     *)
(* what was read, the user joins or leaves the online set.                 *)

(* GetPresence, once or for each member of the online set.                 *)
GetPresence(x, u, w) ==
    /\ x \in Viewers /\ {"look", w} \subseteq here /\ act[x] = Free
    /\ Become(x, [Free EXCEPT !.at = "list", !.user = u, !.ws = w])
    /\ UNCHANGED <<sessionVars, stored, offline, history>>

ReadIndex(x) ==
    LET a == act[x] IN
    /\ a.at = "list"
    /\ Become(x, [a EXCEPT !.ids = members[a.ws][a.user],
                     !.at = IF members[a.ws][a.user] = {} THEN "settle" ELSE "get"])
    /\ UNCHANGED <<sessionVars, stored, offline, history>>

ReadRecord(x, s) ==
    LET a == act[x] IN
    /\ a.at = "get" /\ s \in a.ids
    /\ Become(x, IF <<s, a.ws>> \in records
                 THEN [a EXCEPT !.ids = @ \ {s}, !.found = TRUE,
                                !.at = IF a.ids = {s} THEN "settle" ELSE "get"]
                 ELSE [a EXCEPT !.at = "forget", !.gone = s])
    /\ UNCHANGED <<sessionVars, stored, offline, history>>

(* Mutation: a missing record takes the whole index with it.               *)
ForgetUser(x) ==
    LET a == act[x] IN
    /\ a.at = "forget"
    /\ members' = [members EXCEPT ![a.ws][a.user] = {}]
    /\ Become(x, [a EXCEPT !.ids = @ \ {a.gone}, !.gone = None,
                           !.at = IF a.ids = {a.gone} THEN "settle" ELSE "get"])
    /\ UNCHANGED <<sessionVars, records, online, spaces, offline, history>>

Forget(x) ==
    LET a == act[x] IN
    /\ a.at = "forget"
    /\ members' = [members EXCEPT ![a.ws][a.user] = @ \ {a.gone}]
    /\ Become(x, [a EXCEPT !.ids = @ \ {a.gone}, !.gone = None,
                           !.at = IF a.ids = {a.gone} THEN "settle" ELSE "get"])
    /\ UNCHANGED <<sessionVars, records, online, spaces, offline, history>>

Settle(x) ==
    LET a == act[x] IN
    /\ a.at = "settle"
    /\ online' = [online EXCEPT ![a.ws] = IF a.found THEN @ \cup {a.user}
                                          ELSE @ \ {a.user}]
    /\ Become(x, Done(x))
    /\ UNCHANGED <<sessionVars, records, members, spaces, offline, history>>

-----------------------------------------------------------------------------
(* Time to live: 90 seconds for a record, twice that for the sets, which   *)
(* every save renews: a set does not lapse while a record of it exists.    *)
(* The bound leaves out lapses, but for the records of a dead session.     *)

RecordLapse(t) ==
    /\ t \in records /\ ("lapse" \in here \/ ~Live(t[1]))
    /\ records' = records \ {t}
    /\ strays' = strays \ {t}
    /\ overtaken' = overtaken \ {t}
    /\ UNCHANGED <<sessionVars, members, online, spaces, offline, act>>

MembersLapse(w, u) ==
    /\ members[w][u] # {} /\ "lapse" \in here
    /\ \A t \in records : ~(t[2] = w /\ Owner[t[1]] = u)
    /\ members' = [members EXCEPT ![w][u] = {}]
    /\ UNCHANGED <<sessionVars, records, online, spaces, offline, history, act>>

OnlineLapse(w) ==
    /\ online[w] # {} /\ "lapse" \in here
    /\ \A t \in records : t[2] # w
    /\ online' = [online EXCEPT ![w] = {}]
    /\ UNCHANGED <<sessionVars, records, members, spaces, offline, history, act>>

SpacesLapse(s) ==
    /\ spaces[s] # {} /\ "lapse" \in here
    /\ \A t \in records : t[1] # s
    /\ spaces' = [spaces EXCEPT ![s] = {}]
    /\ UNCHANGED <<sessionVars, records, members, online, offline, history, act>>

-----------------------------------------------------------------------------

Next ==
    \/ SessionNext /\ UNCHANGED presenceVars
    \/ \E t \in Tabs : SetPresence(t)
    \/ \E t \in Tabs : SetOffline(t)
    \/ \E t \in Tabs : Save(t)
    \/ \E x \in Actors : Remove(x)
    \/ \E s \in Ids : Evict(s)
    \/ \E w \in Workspaces : Find(w)
    \/ Drop
    \/ \E x \in Viewers, u \in Users, w \in Workspaces : GetPresence(x, u, w)
    \/ \E x \in Actors : ReadIndex(x)
    \/ \E x \in Actors, s \in Ids : ReadRecord(x, s)
    \/ \E x \in Actors : Forget(x)
    \/ \E x \in Actors : Settle(x)
    \/ \E t \in Tabs : RecordLapse(t)
    \/ \E w \in Workspaces, u \in Users : MembersLapse(w, u)
    \/ \E w \in Workspaces : OnlineLapse(w)
    \/ \E s \in Ids : SpacesLapse(s)

Spec == Init /\ [][Next]_vars

(* A request that is being served goes on, and a client that is online     *)
(* sets its presence again before the record lapses.                       *)
Fairness ==
    \A t \in Tabs : WF_vars(SetPresence(t)) /\ WF_vars(Save(t))

LiveSpec == Spec /\ Fairness

-----------------------------------------------------------------------------

(* The keys of sessions and presence, the worker's records and the         *)
(* requests hold what the code puts in them.                               *)
TypeOK ==
    /\ SessionTypeOK
    /\ records \subseteq Tabs /\ offline \subseteq Tabs
    /\ strays \subseteq Tabs /\ overtaken \subseteq records
    /\ members \in [Workspaces -> [Users -> SUBSET Ids]]
    /\ online \in [Workspaces -> SUBSET Users]
    /\ spaces \in [Ids -> SUBSET Workspaces]
    /\ act \in [Actors ->
          [at : {"idle", "save", "remove", "find", "again", "drop", "list",
                 "get", "forget", "settle"},
           user : Users \cup {None}, sid : Ids \cup {None},
           ws : Workspaces \cup {None}, ids : SUBSET Ids, found : BOOLEAN,
           gone : Ids \cup {None}, rest : SUBSET Workspaces]]

(* ClearSession (presence/service.go:199) finds a session's workspaces in  *)
(* one set: every record is in it, so an eviction leaves none behind but   *)
(* the ones saved while it ran.                                            *)
EvictionFindsAll ==
    \A t \in records : t[2] \in spaces[t[1]] \/ t \in strays

Shown(t) == t[1] \in members[t[2]][Owner[t[1]]] /\ Owner[t[1]] \in online[t[2]]

(* aggregatePresence (presence/service.go:305) takes sessions out of the   *)
(* index and the user out of the online set on the strength of keys it     *)
(* read before.  Whoever aggregates, however often and in whatever order,  *)
(* a client is hidden only when its record was stored anew behind the back *)
(* of an aggregation of its user that had read the index already; a record *)
(* that is renewed in time, or stored at any other moment, stays shown.    *)
SavedIsShown ==
    \A t \in records : Shown(t) \/ t \in overtaken

(* And a client that is hidden in that way, and stays online, is shown     *)
(* again and again all the same.                                           *)
OnlineIsShown ==
    \A t \in Tabs :
        []<>(Shown(t) \/ ~Live(t[1]) \/ t \in offline \/ ~InUse(t))
=============================================================================
