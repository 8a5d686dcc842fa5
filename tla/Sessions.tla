------------------------------ MODULE Sessions ------------------------------
(***************************************************************************)
(* Login sessions kept in Redis: the session key, the key of each refresh  *)
(* token and the set of a user's sessions, and the requests of any number  *)
(* of servers that read them and write them back later.                    *)
(*                                                                         *)
(* A Redis command or one pipelined batch is a step; a request is several  *)
(* of them, its local variables are in op.  A session's stored record is   *)
(* abstracted to the number of its current refresh token: the n-th token   *)
(* generated for the session.  Device, address and LastActiveAt are left   *)
(* out, the write of a record read earlier, which LastActiveAt causes, is  *)
(* not.                                                                    *)
(***************************************************************************)
EXTENDS Naturals, FiniteSets

CONSTANTS
    Users,
    Ids,            \* session ids
    Owner,          \* the user each id is generated for
    Procs,          \* requests in progress
    MaxSessions,    \* sessions a user may have (5 in the code)
    MaxTokens,      \* bound: refresh tokens generated for a session
    Workspaces,     \* workspaces, for presence
    Appears,        \* bound: sets of ids, workspaces and kinds of request, of
                    \* which one is what comes up in a behaviour
    None

Requests == {"login", "logout", "logoutAll", "listing", "refresh"}
Kinds == Requests \cup {"touch", "expire", "fail",
                        "evict", "set", "offline", "look", "lapse"}

ASSUME SessionAssumption ==
    /\ Owner \in [Ids -> Users]
    /\ MaxSessions \in Nat \ {0} /\ MaxTokens \in Nat \ {0}
    /\ Appears \subseteq SUBSET (Ids \cup Workspaces \cup Kinds)
    /\ None \notin Ids

VARIABLES
    here,      \* what comes up, chosen at the start
    session,   \* session:<id>: number of the current token, 0 for no key
    refresh,   \* refresh:<hash>: the tokens of each session that have a key
    listed,    \* user_sessions:<user>
    created,   \* CreatedAt, 0 before the login
    issued,    \* tokens generated for each session
    expired,   \* sessions past ExpiresAt
    pending,   \* SessionManager.pendingTouches
    flushed,   \* records the touch worker has read and will write back
    events,    \* SessionRevoked events on their way
    unchecked, \* users whose last cap check failed (history)
    op         \* the request of each process

redis == <<session, refresh, listed>>
clock == <<created, issued, expired>>
touches == <<pending, flushed>>
sessionVars == <<here, redis, clock, touches, events, unchecked, op>>

Idle == [kind |-> "none", at |-> "idle", user |-> None, sid |-> None,
         read |-> 0, new |-> 0, todo |-> {}, found |-> {}]

Live(s) == session[s] # 0
Now == 1 + Cardinality({s \in Ids : created[s] # 0})
Oldest(S, n) == {s \in S : Cardinality({x \in S : created[x] < created[s]}) < n}

SessionInit ==
    /\ here \in Appears
    /\ session = [s \in Ids |-> 0]
    /\ refresh = [s \in Ids |-> {}]
    /\ listed = [u \in Users |-> {}]
    /\ created = [s \in Ids |-> 0]
    /\ issued = [s \in Ids |-> 0]
    /\ expired = {}
    /\ pending = {}
    /\ flushed = [s \in Ids |-> 0]
    /\ events = {}
    /\ unchecked = {}
    /\ op = [p \in Procs |-> Idle]

-----------------------------------------------------------------------------
(* Requests.  All but a login carry the access token of a live session.    *)

Begin(p, request) ==
    /\ op[p] = Idle
    /\ request.kind \in here
    /\ op' = [op EXCEPT ![p] = request]

Goto(p, change) == op' = [op EXCEPT ![p] = change]

Login(p, s) ==
    /\ s \in here
    /\ created[s] = 0
    /\ Begin(p, [Idle EXCEPT !.kind = "login", !.at = "store",
                             !.user = Owner[s], !.sid = s])
    /\ created' = [created EXCEPT ![s] = Now]
    /\ issued' = [issued EXCEPT ![s] = 1]
    /\ UNCHANGED <<here, redis, expired, touches, events, unchecked>>

(* SessionManager.Create: the three keys in one batch.                     *)
Store(p) ==
    LET s == op[p].sid IN
    /\ op[p].at = "store"
    /\ session' = [session EXCEPT ![s] = 1]
    /\ refresh' = [refresh EXCEPT ![s] = {1}]
    /\ listed' = [listed EXCEPT ![op[p].user] = @ \cup {s}]
    /\ Goto(p, [op[p] EXCEPT !.at = "list"])
    /\ UNCHANGED <<here, clock, touches, events, unchecked>>

Ask(p, s, kind, at) ==
    /\ Live(s)
    /\ Begin(p, [Idle EXCEPT !.kind = kind, !.at = at, !.user = Owner[s],
                             !.todo = IF kind = "logout" THEN {s} ELSE {}])
    /\ UNCHANGED <<here, redis, clock, touches, events, unchecked>>

Logout(p, s) == Ask(p, s, "logout", "read")
LogoutAll(p, s) == Ask(p, s, "logoutAll", "list")
ListSessions(p, s) == Ask(p, s, "listing", "list")

-----------------------------------------------------------------------------
(* The list of a user's sessions: capped, listed or revoked.               *)

(* Where a request goes on: the rest of its sessions, or its end.          *)
Rest(o) ==
    IF o.todo # {} THEN [o EXCEPT !.at = "read"]
    ELSE IF o.kind = "logoutAll" THEN [o EXCEPT !.at = "clear"] ELSE Idle

Listed(o, ids) ==
    CASE o.kind = "logoutAll" -> Rest([o EXCEPT !.todo = ids])
      [] o.kind = "login" /\ Cardinality(ids) <= MaxSessions -> Idle
      [] OTHER -> IF ids = {} THEN Idle
                  ELSE [o EXCEPT !.at = "look", !.todo = ids]

(* SMembers: a login that reads the set sees every session a failed check  *)
(* left in it.                                                             *)
List(p) ==
    /\ op[p].at = "list"
    /\ Goto(p, Listed(op[p], listed[op[p].user]))
    /\ unchecked' = IF op[p].kind = "login" THEN unchecked \ {op[p].user}
                    ELSE unchecked
    /\ UNCHANGED <<here, redis, clock, touches, events>>

(* enforceMaxSessions once it has every record: the oldest excess goes.    *)
(* Mutation: only one session goes.                                        *)
LookedEvictsOne(o) ==
    IF o.todo # {} THEN o
    ELSE IF o.kind = "login" /\ Cardinality(o.found) > MaxSessions
    THEN [o EXCEPT !.at = "read", !.found = {}, !.todo = Oldest(o.found, 1)]
    ELSE Idle

Looked(o) ==
    IF o.todo # {} THEN o
    ELSE IF o.kind = "login" /\ Cardinality(o.found) > MaxSessions
    THEN [o EXCEPT !.at = "read", !.found = {},
             !.todo = Oldest(o.found, Cardinality(o.found) - MaxSessions)]
    ELSE Idle

(* One Get of the loop.  An id without a record is taken out of the set;   *)
(* no id is ever put back, so Get and SRem are one step.                   *)
Look(p, s) ==
    /\ op[p].at = "look" /\ s \in op[p].todo
    /\ Goto(p, Looked([op[p] EXCEPT !.todo = @ \ {s},
                          !.found = IF Live(s) THEN @ \cup {s} ELSE @]))
    /\ listed' = IF Live(s) THEN listed
                 ELSE [listed EXCEPT ![op[p].user] = @ \ {s}]
    /\ UNCHANGED <<here, session, refresh, clock, touches, events, unchecked>>

(* Revoke: Get, then the batch that deletes what was read, then the event. *)
RevokeRead(p, s) ==
    /\ op[p].at = "read" /\ s \in op[p].todo
    /\ Goto(p, IF Live(s)
               THEN [op[p] EXCEPT !.at = "delete", !.sid = s,
                                  !.read = session[s]]
               ELSE Rest([op[p] EXCEPT !.todo = @ \ {s}]))
    /\ UNCHANGED <<here, redis, clock, touches, events, unchecked>>

(* Mutation: the session stays in the set of the user.                     *)
RevokeKeepsListed(p) ==
    LET s == op[p].sid IN
    /\ op[p].at = "delete"
    /\ session' = [session EXCEPT ![s] = 0]
    /\ refresh' = [refresh EXCEPT ![s] = @ \ {op[p].read}]
    /\ Goto(p, [op[p] EXCEPT !.at = "notify"])
    /\ UNCHANGED <<here, listed, clock, touches, events, unchecked>>

RevokeDelete(p) ==
    LET s == op[p].sid IN
    /\ op[p].at = "delete"
    /\ session' = [session EXCEPT ![s] = 0]
    /\ refresh' = [refresh EXCEPT ![s] = @ \ {op[p].read}]
    /\ listed' = [listed EXCEPT ![Owner[s]] = @ \ {s}]
    /\ Goto(p, [op[p] EXCEPT !.at = "notify"])
    /\ UNCHANGED <<here, clock, touches, events, unchecked>>

RevokeNotify(p) ==
    LET s == op[p].sid IN
    /\ op[p].at = "notify"
    /\ events' = events \cup {s}
    /\ Goto(p, Rest([op[p] EXCEPT !.todo = @ \ {s}, !.read = 0]))
    /\ UNCHANGED <<here, redis, clock, touches, unchecked>>

(* RevokeAllUserSessions: the set goes, whoever joined it meanwhile.       *)
ClearSet(p) ==
    /\ op[p].at = "clear"
    /\ listed' = [listed EXCEPT ![op[p].user] = {}]
    /\ Goto(p, Idle)
    /\ UNCHANGED <<here, session, refresh, clock, touches, events, unchecked>>

-----------------------------------------------------------------------------
(* RefreshToken: ValidateRefreshToken, then RotateRefreshToken.            *)

(* The Get of the refresh key; a token without one gets no further.        *)
Refresh(p, s) ==
    /\ refresh[s] # {}
    /\ Begin(p, [Idle EXCEPT !.kind = "refresh", !.at = "validate", !.sid = s])
    /\ UNCHANGED <<here, redis, clock, touches, events, unchecked>>

Validate(p) ==
    LET s == op[p].sid IN
    /\ op[p].at = "validate"
    /\ Goto(p, IF Live(s) THEN [op[p] EXCEPT !.at = "touch", !.read = session[s]]
               ELSE Idle)
    /\ UNCHANGED <<here, redis, clock, touches, events, unchecked>>

(* LastActiveAt is updated: the record read is written back.               *)
Touch(p) ==
    LET s == op[p].sid IN
    /\ op[p].at = "touch"
    /\ session' = IF s \in expired THEN session
                  ELSE [session EXCEPT ![s] = op[p].read]
    /\ Goto(p, [op[p] EXCEPT !.at = "rotate", !.read = 0])
    /\ UNCHANGED <<here, refresh, listed, clock, touches, events, unchecked>>

Rotate(p) ==
    LET s == op[p].sid IN
    /\ op[p].at = "rotate"
    /\ IF Live(s) /\ issued[s] < MaxTokens
       THEN /\ issued' = [issued EXCEPT ![s] = @ + 1]
            /\ Goto(p, [op[p] EXCEPT !.at = "swap", !.read = session[s],
                                     !.new = issued[s] + 1])
       ELSE Goto(p, Idle) /\ UNCHANGED issued
    /\ UNCHANGED <<here, redis, created, expired, touches, events, unchecked>>

Swap(p) ==
    LET s == op[p].sid IN
    /\ op[p].at = "swap"
    /\ IF s \in expired THEN UNCHANGED <<session, refresh>>
       ELSE /\ session' = [session EXCEPT ![s] = op[p].new]
            /\ refresh' = [refresh EXCEPT ![s] = (@ \ {op[p].read}) \cup {op[p].new}]
    /\ Goto(p, Idle)
    /\ UNCHANGED <<here, listed, clock, touches, events, unchecked>>

-----------------------------------------------------------------------------
(* An authenticated request defers a touch; the worker reads every pending *)
(* session in one batch and writes the records back in a second one.       *)

DeferTouch(s) ==
    /\ "touch" \in here /\ Live(s) /\ s \notin pending
    /\ pending' = pending \cup {s}
    /\ UNCHANGED <<here, redis, clock, flushed, events, unchecked, op>>

FlushRead ==
    /\ pending # {} /\ \A s \in Ids : flushed[s] = 0
    /\ flushed' = [s \in Ids |-> IF s \in pending THEN session[s] ELSE 0]
    /\ pending' = {}
    /\ UNCHANGED <<here, redis, clock, events, unchecked, op>>

FlushWrite ==
    /\ \E s \in Ids : flushed[s] # 0
    /\ session' = [s \in Ids |-> IF flushed[s] # 0 /\ s \notin expired
                                 THEN flushed[s] ELSE session[s]]
    /\ flushed' = [s \in Ids |-> 0]
    /\ UNCHANGED <<here, refresh, listed, clock, pending, events, unchecked, op>>

(* ExpiresAt passes.  Every key was stored with the time that was left, so *)
(* the session and its tokens lapse together.                              *)
Expire(s) ==
    /\ "expire" \in here /\ s \notin expired
    /\ Live(s) \/ refresh[s] # {}
    /\ expired' = expired \cup {s}
    /\ session' = [session EXCEPT ![s] = 0]
    /\ refresh' = [refresh EXCEPT ![s] = {}]
    /\ UNCHANGED <<here, listed, created, issued, touches, events, unchecked, op>>

(* A command fails.  Most requests end there; a revocation or a record     *)
(* that fails inside a loop is logged and skipped, a cap check that fails  *)
(* is logged, and an event that cannot be published is lost.               *)
Skip(o) ==
    IF o.at = "look" THEN {Looked([o EXCEPT !.todo = @ \ {s}]) : s \in o.todo}
    ELSE IF o.at = "read" THEN {Rest([o EXCEPT !.todo = @ \ {s}]) : s \in o.todo}
    ELSE IF o.at \in {"delete", "notify"}
    THEN {Rest([o EXCEPT !.todo = @ \ {o.sid}, !.read = 0])}
    ELSE {Idle}

Fail(p) ==
    /\ "fail" \in here /\ op[p] # Idle
    /\ \E o \in Skip(op[p]) : Goto(p, o)
    /\ unchecked' = IF op[p].kind = "login"
                    THEN unchecked \cup {op[p].user} ELSE unchecked
    /\ UNCHANGED <<here, redis, clock, touches, events>>

-----------------------------------------------------------------------------

SessionNext ==
    \/ \E p \in Procs, s \in Ids : Login(p, s)
    \/ \E p \in Procs : Store(p)
    \/ \E p \in Procs, s \in Ids : Logout(p, s)
    \/ \E p \in Procs, s \in Ids : LogoutAll(p, s)
    \/ \E p \in Procs, s \in Ids : ListSessions(p, s)
    \/ \E p \in Procs : List(p)
    \/ \E p \in Procs, s \in Ids : Look(p, s)
    \/ \E p \in Procs, s \in Ids : RevokeRead(p, s)
    \/ \E p \in Procs : RevokeDelete(p)
    \/ \E p \in Procs : RevokeNotify(p)
    \/ \E p \in Procs : ClearSet(p)
    \/ \E p \in Procs, s \in Ids : Refresh(p, s)
    \/ \E p \in Procs : Validate(p)
    \/ \E p \in Procs : Touch(p)
    \/ \E p \in Procs : Rotate(p)
    \/ \E p \in Procs : Swap(p)
    \/ \E s \in Ids : DeferTouch(s)
    \/ FlushRead
    \/ FlushWrite
    \/ \E s \in Ids : Expire(s)
    \/ \E p \in Procs : Fail(p)

SessionSpec == SessionInit /\ [][SessionNext]_sessionVars

-----------------------------------------------------------------------------

Requests_ == [kind : Requests \cup {"none"},
              at : {"idle", "store", "list", "look", "read", "delete", "notify",
                    "clear", "validate", "touch", "rotate", "swap"},
              user : Users \cup {None}, sid : Ids \cup {None},
              read : Nat, new : Nat, todo : SUBSET Ids, found : SUBSET Ids]

(* The keys, the worker's records and the requests hold what the code puts *)
(* in them.                                                                *)
SessionTypeOK ==
    /\ here \in Appears
    /\ session \in [Ids -> Nat] /\ refresh \in [Ids -> SUBSET Nat]
    /\ listed \in [Users -> SUBSET Ids]
    /\ created \in [Ids -> Nat] /\ issued \in [Ids -> Nat]
    /\ expired \subseteq Ids /\ pending \subseteq Ids /\ events \subseteq Ids
    /\ flushed \in [Ids -> Nat] /\ unchecked \subseteq Users
    /\ op \in [Procs -> Requests_]

(* The sessions that count for the cap.                                    *)
LiveListed(u) == {s \in listed[u] : Live(s)}

AtMost(S) == Cardinality(S) <= MaxSessions

(* A login that will bring the user's sessions back under the cap: it has  *)
(* yet to read the set, or is looking at every one of them, or will revoke *)
(* all of them but MaxSessions.                                            *)
Covers(o, u) ==
    /\ o.kind = "login" /\ o.user = u
    /\ \/ o.at = "list"
       \/ o.at = "look" /\ LiveListed(u) \subseteq o.todo \cup o.found
       \/ o.at \in {"read", "delete", "notify"} /\ AtMost(LiveListed(u) \ o.todo)

(* enforceMaxSessions (session.go:177) lists, looks and revokes in steps   *)
(* of its own.  Whenever a user has more than MaxSessions sessions, a      *)
(* login in progress is on its way to revoke every one that is too much,   *)
(* however the logins, the revocations and the write-backs interleaved;    *)
(* so once no login is in progress the cap holds.  Users whose last check  *)
(* failed are left out: nobody repeats it before their next login.         *)
SessionCap ==
    \A u \in Users \ unchecked :
        AtMost(LiveListed(u)) \/ \E p \in Procs : Covers(op[p], u)

(* A session the user can see can be continued: it has a refresh token     *)
(* with a key, whatever rotations raced (session.go:295) and whatever      *)
(* stale record was written back (session.go:542).                         *)
ListedCanRefresh ==
    \A u \in Users : \A s \in listed[u] : Live(s) => refresh[s] # {}

=============================================================================
