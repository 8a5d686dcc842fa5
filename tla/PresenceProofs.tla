--------------------------- MODULE PresenceProofs ---------------------------
(***************************************************************************)
(* Theorems of Sessions and Presence, for any number of users, sessions,   *)
(* workspaces and requests in progress.                                    *)
(*                                                                         *)
(* A session goes through three ages: before its keys are stored nobody    *)
(* can hold anything of it (Untouched), from then on its keys are there as *)
(* long as it is listed (Stored), and once it has left the list it never   *)
(* comes back to it, whatever stale record is written back.  The cap rests *)
(* on the last login that has read the list: it will revoke what is too    *)
(* much of it (Covers).  A client that was not overtaken by an aggregation *)
(* that read the index before is safe from all that are under way (Sees).  *)
(***************************************************************************)
EXTENDS Presence, FiniteSetTheorems, WellFoundedInduction, TLAPS

-----------------------------------------------------------------------------
(* What a request carries, by where it is.                                 *)
OpFits(o) ==
    /\ o.at \in {"store", "validate", "touch", "rotate", "swap", "delete", "notify"} => o.sid \in Ids
    /\ o.at \in {"list", "look", "read", "delete", "notify", "clear"} \/ o.kind = "login"
          => o.user \in Users
    /\ o.at \in {"read", "delete", "notify"} =>
          o.kind \in {"login", "logout", "logoutAll"}
    /\ o.at \in {"look", "read", "delete", "notify"} =>
          \A s \in o.todo \cup o.found : Owner[s] = o.user
    /\ o.at \in {"store", "list"} => o.todo \cup o.found = {}
    /\ o.at = "look" => o.todo # {}
    /\ o.at \in {"delete", "notify"} => o.sid \in o.todo
    /\ o.at \in {"store"} => o.kind = "login" /\ o.user = Owner[o.sid]
    /\ o.at \in {"validate", "touch", "rotate", "swap"} => o.kind = "refresh"
    /\ o.at = "touch" => o.read # 0
    /\ o.at = "swap" => o.new # 0
    /\ o.kind = "refresh" => o.at \in {"validate", "touch", "rotate", "swap"}
    /\ o.kind = "login" =>
          o.at \in {"store", "list", "look", "read", "delete", "notify"}

Made == {s \in Ids : created[s] # 0}

RequestsFit ==
    /\ IsFiniteSet(Made)
    /\ \A p \in Procs : OpFits(op[p]) /\ op[p].todo \cup op[p].found \subseteq Made

\* Nobody holds anything of a session whose keys were not stored.
Untouched(s) ==
    /\ session[s] = 0 /\ refresh[s] = {} /\ flushed[s] = 0 /\ s \notin expired
    /\ \A u \in Users : s \notin listed[u]
    /\ \A p \in Procs :
          op[p].at \in {"validate", "touch", "rotate", "swap", "delete", "notify"} => op[p].sid # s

Storing(p, s) == op[p].at = "store" /\ op[p].sid = s

StoredOnce ==
    /\ \A s \in Ids : created[s] = 0 => Untouched(s) /\ \A p \in Procs : ~Storing(p, s)
    /\ \A p \in Procs, s \in Ids : Storing(p, s) =>
          Untouched(s) /\ \A q \in Procs \ {p} : ~Storing(q, s)

\* A listed session has its keys until both expire.
ListedIsStored ==
    /\ \A s \in expired : session[s] = 0
    /\ \A u \in Users : \A s \in listed[u] :
          /\ Owner[s] = u /\ created[s] # 0
          /\ s \notin expired => session[s] # 0 /\ refresh[s] # {}
    /\ \A p \in Procs : op[p].at = "notify" => op[p].sid \notin listed[op[p].user]

SessionInv == SessionTypeOK /\ RequestsFit /\ StoredOnce /\ ListedIsStored /\ SessionCap

-----------------------------------------------------------------------------
(* Where the evictor is, and what it still has to remove.                  *)
Ats == {"idle", "save", "remove", "find", "again", "drop", "list", "get", "forget", "settle"}

ActRecords ==
    [at : Ats, user : Users \cup {None}, sid : Ids \cup {None},
     ws : Workspaces \cup {None}, ids : SUBSET Ids, found : BOOLEAN,
     gone : Ids \cup {None}, rest : SUBSET Workspaces]

ActFit(x, a) ==
    /\ x \in Tabs /\ a.at \in {"save", "remove"} => a.sid = x[1] /\ a.ws = x[2]
    /\ x \in Tabs /\ a.at = "save" => a.user = Owner[x[1]]
    /\ x # Evictor => a.at \notin {"find", "again", "drop"}
    /\ a.at \in {"remove", "again", "list", "get", "forget", "settle"} => a.ws \in Workspaces
    /\ a.at \in {"list", "get", "forget", "settle"} => a.user \in Users
    /\ a.at = "remove" \/ (x = Evictor /\ a.at # "idle") => a.sid \in Ids
    /\ a.at = "forget" => a.gone \in Ids
    /\ a.at = "drop" => a.rest = {}

ActFits == \A x \in Actors : ActFit(x, act[x])

EvictionCovers ==
    \A t \in records :
        \/ t \in strays
        \/ /\ t[2] \in spaces[t[1]]
           /\ act[Evictor].sid = t[1] =>
                \/ t[2] \in act[Evictor].rest
                \/ (act[Evictor].at \in {"again", "remove"} /\ act[Evictor].ws = t[2])

PresenceInv == TypeOK /\ ActFits /\ EvictionCovers

Inv == SessionInv /\ PresenceInv

-----------------------------------------------------------------------------
(* Where a request goes on is again a request.                             *)

LEMMA IdleFits == Idle \in Requests_ /\ OpFits(Idle) /\ Idle.todo \cup Idle.found = {}
  BY DEF Idle, Requests_, Requests, OpFits

LEMMA RestFits ==
  ASSUME NEW o \in Requests_, o.user \in Users,
         o.kind \in {"login", "logout", "logoutAll"},
         \A s \in o.todo \cup o.found : Owner[s] = o.user
  PROVE  /\ Rest(o) \in Requests_
         /\ OpFits(Rest(o))
         /\ Rest(o).todo \cup Rest(o).found \subseteq o.todo \cup o.found
  <1>1. CASE o.todo # {}
    BY <1>1 DEF Rest, Requests_, Requests, OpFits
  <1>2. CASE o.todo = {} /\ o.kind = "logoutAll"
    BY <1>2 DEF Rest, Requests_, Requests, OpFits
  <1>3. CASE o.todo = {} /\ o.kind # "logoutAll"
    BY <1>3, IdleFits DEF Rest
  <1>. QED  BY <1>1, <1>2, <1>3

\* A request that has one session less to see to.
Past(o, x) == [o EXCEPT !.todo = @ \ {x}]
PastRead(o, x) == [o EXCEPT !.todo = @ \ {x}, !.read = 0]

LEMMA PastFits ==
  ASSUME NEW o \in Requests_, NEW x, NEW k \in {Past(o, x), PastRead(o, x)}
  PROVE  /\ k \in Requests_ /\ k.user = o.user /\ k.kind = o.kind /\ k.at = o.at
         /\ k.todo = o.todo \ {x} /\ k.found = o.found
  <1>1. CASE k = Past(o, x)
    BY <1>1 DEF Past, Requests_
  <1>2. CASE k = PastRead(o, x)
    BY <1>2 DEF PastRead, Requests_
  <1>. QED  BY <1>1, <1>2

LEMMA NextFits ==
  ASSUME NEW o \in Requests_, o.user \in Users,
         o.kind \in {"login", "logout", "logoutAll"},
         \A s \in o.todo \cup o.found : Owner[s] = o.user,
         NEW x, NEW k \in {Past(o, x), PastRead(o, x)}
  PROVE  /\ Rest(k) \in Requests_
         /\ OpFits(Rest(k))
         /\ Rest(k).todo \cup Rest(k).found \subseteq o.todo \cup o.found
  <1>1. /\ k \in Requests_ /\ k.user = o.user /\ k.kind = o.kind
        /\ k.todo = o.todo \ {x} /\ k.found = o.found
    BY PastFits
  <1>2. Rest(k) \in Requests_ /\ OpFits(Rest(k)) /\ Rest(k).todo \cup Rest(k).found \subseteq k.todo \cup k.found
    BY <1>1, RestFits
  <1>. QED  BY <1>1, <1>2

LEMMA LookedFits ==
  ASSUME NEW o \in Requests_, o.user \in Users, o.at = "look",
         o.kind # "refresh",
         \A s \in o.todo \cup o.found : Owner[s] = o.user
  PROVE  /\ Looked(o) \in Requests_
         /\ OpFits(Looked(o))
         /\ Looked(o).todo \cup Looked(o).found \subseteq o.todo \cup o.found
  <1>1. CASE o.todo # {}
    BY <1>1 DEF Looked, Requests_, Requests, OpFits
  <1>2. CASE o.todo = {} /\ o.kind = "login" /\ Cardinality(o.found) > MaxSessions
    <2>. DEFINE T == Oldest(o.found, Cardinality(o.found) - MaxSessions)
    <2>1. Looked(o) = [o EXCEPT !.at = "read", !.found = {}, !.todo = T]
      BY <1>2 DEF Looked
    <2>2. T \subseteq o.found
      BY DEF Oldest
    <2>. HIDE DEF T
    <2>. QED  BY <1>2, <2>1, <2>2 DEF Requests_, Requests, OpFits
  <1>3. CASE o.todo = {} /\ ~(o.kind = "login" /\ Cardinality(o.found) > MaxSessions)
    BY <1>3, IdleFits DEF Looked
  <1>. QED  BY <1>1, <1>2, <1>3

LEMMA ListedFits ==
  ASSUME NEW o \in Requests_, OpFits(o), o.at = "list",
         NEW ids \in SUBSET Ids, \A s \in ids : Owner[s] = o.user
  PROVE  /\ Listed(o, ids) \in Requests_
         /\ OpFits(Listed(o, ids))
         /\ Listed(o, ids).todo \cup Listed(o, ids).found \subseteq ids \cup o.todo \cup o.found
  <1>1. CASE o.kind = "logoutAll"
    <2>. DEFINE n == [o EXCEPT !.todo = ids]
    <2>1. n \in Requests_ /\ n.user = o.user /\ n.kind = o.kind /\ n.todo = ids /\ n.found = o.found
      BY DEF Requests_
    <2>2. o.user \in Users /\ o.todo \cup o.found = {}
      BY DEF OpFits
    <2>. HIDE DEF n
    <2>3. /\ Rest(n) \in Requests_ /\ OpFits(Rest(n))
          /\ Rest(n).todo \cup Rest(n).found \subseteq n.todo \cup n.found
      BY <1>1, <2>1, <2>2, RestFits
    <2>. QED  BY <1>1, <2>1, <2>3 DEF Listed, n
  <1>. DEFINE Over == ids = {} \/ (o.kind = "login" /\ Cardinality(ids) <= MaxSessions)
  <1>2. CASE o.kind # "logoutAll" /\ Over
    BY <1>2, IdleFits DEF Listed
  <1>3. CASE o.kind # "logoutAll" /\ ~Over
    <2>1. Listed(o, ids) = [o EXCEPT !.at = "look", !.todo = ids]
      BY <1>3 DEF Listed
    <2>. DEFINE n == [o EXCEPT !.at = "look", !.todo = ids]
    <2>2. /\ n \in Requests_ /\ n.at = "look" /\ n.todo = ids /\ n.found = o.found
          /\ n.user = o.user /\ n.kind = o.kind
      BY DEF Requests_
    <2>3. o.user \in Users /\ o.found = {} /\ o.kind # "refresh"
      BY DEF OpFits
    <2>. HIDE DEF n
    <2>4. OpFits(n)
      BY <1>3, <2>2, <2>3 DEF OpFits
    <2>. QED  BY <2>1, <2>2, <2>4 DEF n
  <1>. HIDE DEF Over
  <1>. QED  BY <1>1, <1>2, <1>3, Zenon
LEMMA GoesOn ==
  ASSUME SessionTypeOK, RequestsFit, NEW p \in Procs, NEW o \in Requests_,
         op' = [op EXCEPT ![p] = o], UNCHANGED created,
         OpFits(o), o.todo \cup o.found \subseteq Made
  PROVE  op' \in [Procs -> Requests_] /\ RequestsFit'
  <1>1. Made' = Made
    BY DEF Made
  <1>2. op \in [Procs -> Requests_]
    BY DEF SessionTypeOK
  <1>3. op' \in [Procs -> Requests_] /\ \A q \in Procs : op'[q] = IF q = p THEN o ELSE op[q]
    BY <1>2
  <1>. QED  BY <1>1, <1>3 DEF RequestsFit

LEMMA Standing ==
  ASSUME RequestsFit, UNCHANGED <<created, op>>
  PROVE  RequestsFit'
  BY DEF RequestsFit, Made

(* The sessions a request still has to see to belong to its user.          *)
LEMMA OwnOnly ==
  ASSUME SessionTypeOK, RequestsFit, NEW p \in Procs,
         op[p].at \in {"look", "read", "delete", "notify"}
  PROVE  /\ op[p] \in Requests_ /\ op[p].user \in Users
         /\ \A s \in op[p].todo \cup op[p].found : s \in Made /\ Owner[s] = op[p].user
  BY DEF SessionTypeOK, RequestsFit, OpFits

LEMMA FailFits ==
  ASSUME SessionTypeOK, RequestsFit, NEW p \in Procs, Fail(p)
  PROVE  SessionTypeOK' /\ RequestsFit'
  <1>. DEFINE o == op[p]
  <1>1. PICK n \in Skip(o) : op' = [op EXCEPT ![p] = n]
    BY DEF Fail, Goto
  <1>2. o \in Requests_ /\ OpFits(o) /\ o.todo \cup o.found \subseteq Made
    BY DEF SessionTypeOK, RequestsFit
  <1>3. n \in Requests_ /\ OpFits(n) /\ n.todo \cup n.found \subseteq Made
    <2>1. CASE o.at = "look"
      <3>1. PICK s \in o.todo : n = Looked(Past(o, s))
        BY <1>1, <2>1 DEF Skip, Past
      <3>. DEFINE k == Past(o, s)
      <3>2. /\ k \in Requests_ /\ k.user = o.user /\ k.kind = o.kind /\ k.at = o.at
            /\ k.todo \subseteq o.todo /\ k.found = o.found
        BY <1>2, PastFits
      <3>3. k.user \in Users /\ k.kind # "refresh" /\ \A x \in k.todo \cup k.found : Owner[x] = k.user
        BY <1>2, <2>1, <3>2 DEF OpFits
      <3>4. n = Looked(k)
        BY <3>1
      <3>. HIDE DEF k
      <3>. QED  BY <1>2, <2>1, <3>2, <3>3, <3>4, LookedFits
    <2>2. CASE o.at \in {"read", "delete", "notify"}
      <3>1. o.user \in Users /\ o.kind \in {"login", "logout", "logoutAll"}
        BY <1>2, <2>2 DEF OpFits
      <3>2. \A x \in o.todo \cup o.found : Owner[x] = o.user
        BY <1>2, <2>2 DEF OpFits
      <3>3. \A x : \A k \in {Past(o, x), PastRead(o, x)} :
               /\ Rest(k) \in Requests_
               /\ OpFits(Rest(k))
               /\ Rest(k).todo \cup Rest(k).found \subseteq o.todo \cup o.found
        <4>. HIDE DEF o
        <4>. QED  BY <1>2, <3>1, <3>2, NextFits
      <3>4. CASE o.at = "read"
        <4>1. PICK s \in o.todo : n = Rest(Past(o, s))
          BY <1>1, <3>4 DEF Skip, Past
        <4>. QED  BY <1>2, <3>3, <4>1
      <3>5. CASE o.at \in {"delete", "notify"}
        <4>1. n = Rest(PastRead(o, o.sid))
          BY <1>1, <3>5 DEF Skip, PastRead
        <4>. QED  BY <1>2, <3>3, <4>1
      <3>. QED  BY <2>2, <3>4, <3>5
    <2>3. CASE o.at \notin {"look", "read", "delete", "notify"}
      BY <1>1, <2>3, IdleFits DEF Skip
    <2>. QED  BY <2>1, <2>2, <2>3
  <1>4. op' \in [Procs -> Requests_] /\ RequestsFit'
    <2>. HIDE DEF o
    <2>1. UNCHANGED created
      BY DEF Fail, clock
    <2>. QED  BY <1>1, <1>3, <2>1, GoesOn
  <1>5. op[p].kind = "login" => op[p].user \in Users
    BY <1>2 DEF OpFits
  <1>. QED  BY <1>4, <1>5 DEF Fail, SessionTypeOK, redis, clock, touches

LEMMA ListFits ==
  ASSUME SessionTypeOK, RequestsFit, ListedIsStored, NEW p \in Procs, List(p)
  PROVE  SessionTypeOK' /\ RequestsFit'
  <1>. DEFINE o == op[p]
              ids == listed[o.user]
              n == Listed(o, ids)
  <1>1. /\ o \in Requests_ /\ OpFits(o) /\ o.todo \cup o.found \subseteq Made
        /\ o.at = "list" /\ o.user \in Users
    BY DEF SessionTypeOK, RequestsFit, List, OpFits
  <1>2. ids \subseteq Made /\ \A s \in ids : Owner[s] = o.user
    BY <1>1 DEF ListedIsStored, SessionTypeOK, Made
  <1>3. n \in Requests_ /\ OpFits(n) /\ n.todo \cup n.found \subseteq Made
    <2>1. ids \in SUBSET Ids
      BY <1>2 DEF Made
    <2>. HIDE DEF o, ids
    <2>. QED  BY <1>1, <1>2, <2>1, ListedFits
  <1>4. op' = [op EXCEPT ![p] = n] /\ UNCHANGED created
    BY DEF List, Goto, clock
  <1>5. op' \in [Procs -> Requests_] /\ RequestsFit'
    <2>. HIDE DEF n
    <2>. QED  BY <1>3, <1>4, GoesOn
  <1>. QED  BY <1>5 DEF List, SessionTypeOK, redis, clock, touches

LEMMA LookFits ==
  ASSUME SessionTypeOK, RequestsFit, NEW p \in Procs, NEW s \in Ids, Look(p, s)
  PROVE  SessionTypeOK' /\ RequestsFit'
  <1>. DEFINE o == op[p]
              F == IF Live(s) THEN o.found \cup {s} ELSE o.found
              k == [o EXCEPT !.todo = @ \ {s}, !.found = F]
  <1>1. /\ o \in Requests_ /\ OpFits(o) /\ o.todo \cup o.found \subseteq Made
        /\ o.at = "look" /\ o.user \in Users /\ s \in o.todo
    BY DEF SessionTypeOK, RequestsFit, Look, OpFits
  <1>2. /\ k \in Requests_ /\ k.user = o.user /\ k.kind = o.kind /\ k.at = o.at
        /\ k.todo \cup k.found \subseteq o.todo \cup o.found
    BY <1>1 DEF Requests_
  <1>3. op' = [op EXCEPT ![p] = Looked(k)] /\ UNCHANGED created
    BY DEF Look, Goto, clock
  <1>4. k.user \in Users /\ k.kind # "refresh" /\ \A x \in k.todo \cup k.found : Owner[x] = k.user
    BY <1>1, <1>2 DEF OpFits
  <1>5. /\ Looked(k) \in Requests_ /\ OpFits(Looked(k))
        /\ Looked(k).todo \cup Looked(k).found \subseteq Made
    <2>. HIDE DEF o, k
    <2>. QED  BY <1>1, <1>2, <1>4, LookedFits
  <1>6. op' \in [Procs -> Requests_] /\ RequestsFit'
    <2>. HIDE DEF k
    <2>. QED  BY <1>3, <1>5, GoesOn
  <1>. QED  BY <1>1, <1>6 DEF Look, SessionTypeOK, clock, touches

LEMMA ReadFits ==
  ASSUME SessionTypeOK, RequestsFit, NEW p \in Procs, NEW s \in Ids, RevokeRead(p, s)
  PROVE  SessionTypeOK' /\ RequestsFit'
  <1>. DEFINE o == op[p]
  <1>1. /\ o \in Requests_ /\ OpFits(o) /\ o.todo \cup o.found \subseteq Made
        /\ o.at = "read" /\ o.user \in Users /\ s \in o.todo
        /\ o.kind \in {"login", "logout", "logoutAll"}
        /\ \A x \in o.todo \cup o.found : Owner[x] = o.user
    BY DEF SessionTypeOK, RequestsFit, RevokeRead, OpFits
  <1>2. op' \in [Procs -> Requests_] /\ RequestsFit'
    <2>1. UNCHANGED created
      BY DEF RevokeRead, clock
    <2>2. CASE Live(s)
      <3>. DEFINE n == [o EXCEPT !.at = "delete", !.sid = s, !.read = session[s]]
      <3>1. session[s] \in Nat
        BY DEF SessionTypeOK
      <3>2. n \in Requests_ /\ OpFits(n) /\ n.todo \cup n.found \subseteq Made
        <4>. HIDE DEF o
        <4>. QED  BY <1>1, <3>1 DEF Requests_, Requests, OpFits
      <3>3. op' = [op EXCEPT ![p] = n]
        BY <2>2 DEF RevokeRead, Goto
      <3>. HIDE DEF n
      <3>. QED  BY <2>1, <3>2, <3>3, GoesOn
    <2>3. CASE ~Live(s)
      <3>. DEFINE n == Rest(Past(o, s))
      <3>1. op' = [op EXCEPT ![p] = n]
        BY <2>3 DEF RevokeRead, Goto, Past
      <3>2. n \in Requests_ /\ OpFits(n) /\ n.todo \cup n.found \subseteq Made
        <4>. HIDE DEF o
        <4>. QED  BY <1>1, NextFits
      <3>. HIDE DEF n
      <3>. QED  BY <2>1, <3>1, <3>2, GoesOn
    <2>. QED  BY <2>2, <2>3
  <1>. QED  BY <1>2 DEF RevokeRead, SessionTypeOK, redis, clock, touches

LEMMA NotifyFits ==
  ASSUME SessionTypeOK, RequestsFit, NEW p \in Procs, RevokeNotify(p)
  PROVE  SessionTypeOK' /\ RequestsFit'
  <1>. DEFINE o == op[p]
              n == Rest(PastRead(o, o.sid))
  <1>1. /\ o \in Requests_ /\ OpFits(o) /\ o.todo \cup o.found \subseteq Made
        /\ o.at = "notify" /\ o.user \in Users /\ o.sid \in Ids
        /\ o.kind \in {"login", "logout", "logoutAll"}
        /\ \A x \in o.todo \cup o.found : Owner[x] = o.user
    BY DEF SessionTypeOK, RequestsFit, RevokeNotify, OpFits
  <1>2. op' = [op EXCEPT ![p] = n] /\ UNCHANGED created
    BY DEF RevokeNotify, Goto, PastRead, clock
  <1>3. n \in Requests_ /\ OpFits(n) /\ n.todo \cup n.found \subseteq Made
    <2>. HIDE DEF o
    <2>. QED  BY <1>1, NextFits
  <1>4. op' \in [Procs -> Requests_] /\ RequestsFit'
    <2>. HIDE DEF n
    <2>. QED  BY <1>2, <1>3, GoesOn
  <1>. QED  BY <1>1, <1>4 DEF RevokeNotify, SessionTypeOK, redis, clock, touches

LEMMA BeginFits ==
  ASSUME SessionTypeOK, RequestsFit, NEW p \in Procs, NEW s \in Ids,
         \/ Login(p, s) \/ Logout(p, s) \/ LogoutAll(p, s) \/ ListSessions(p, s)
         \/ Refresh(p, s),
         created[s] = 0 => ~Live(s)
  PROVE  SessionTypeOK' /\ RequestsFit'
  <1>1. Owner[s] \in Users
    BY SessionAssumption
  <1>2. CASE Login(p, s)
    <2>. DEFINE n == [Idle EXCEPT !.kind = "login", !.at = "store",
                                  !.user = Owner[s], !.sid = s]
    <2>1. n \in Requests_ /\ OpFits(n) /\ n.todo \cup n.found = {}
      BY <1>1 DEF Idle, Requests_, Requests, OpFits
    <2>2. op' = [op EXCEPT ![p] = n]
      BY <1>2 DEF Login, Begin
    <2>. HIDE DEF n
    <2>3. Now \in Nat \ {0}
      <3>1. Cardinality(Made) \in Nat
        BY FS_CardinalityType DEF RequestsFit
      <3>. QED  BY <3>1 DEF Now, Made
    <2>4. created' \in [Ids -> Nat] /\ Made' = Made \cup {s}
      BY <1>2, <2>3 DEF Login, Made, SessionTypeOK
    <2>5. IsFiniteSet(Made')
      BY <2>4, FS_AddElement DEF RequestsFit
    <2>6. op' \in [Procs -> Requests_] /\ \A q \in Procs : op'[q] = IF q = p THEN n ELSE op[q]
      BY <2>1, <2>2 DEF SessionTypeOK
    <2>7. RequestsFit'
      BY <2>1, <2>4, <2>5, <2>6 DEF RequestsFit
    <2>. QED  BY <1>2, <2>4, <2>6, <2>7 DEF Login, SessionTypeOK, redis, touches
  <1>3. CASE Logout(p, s) \/ LogoutAll(p, s) \/ ListSessions(p, s)
    <2>1. PICK kind \in {"logout", "logoutAll", "listing"} :
             Ask(p, s, kind, IF kind = "logout" THEN "read" ELSE "list")
      BY <1>3 DEF Logout, LogoutAll, ListSessions
    <2>. DEFINE n == [Idle EXCEPT !.kind = kind, !.at = IF kind = "logout" THEN "read" ELSE "list",
                          !.user = Owner[s], !.todo = IF kind = "logout" THEN {s} ELSE {}]
    <2>2. /\ op' = [op EXCEPT ![p] = n] /\ Live(s)
          /\ UNCHANGED <<here, redis, clock, touches, events, unchecked>>
      BY <2>1 DEF Ask, Begin
    <2>3. s \in Made
      BY <2>2, s \in Ids DEF Made
    <2>4. n \in Requests_ /\ OpFits(n) /\ n.todo \cup n.found \subseteq Made
      BY <1>1, <2>3 DEF Idle, Requests_, Requests, OpFits
    <2>. HIDE DEF n
    <2>5. op' \in [Procs -> Requests_] /\ RequestsFit'
      BY <2>2, <2>4, GoesOn DEF clock
    <2>. QED  BY <2>2, <2>5 DEF SessionTypeOK, redis, clock, touches
  <1>4. CASE Refresh(p, s)
    <2>. DEFINE n == [Idle EXCEPT !.kind = "refresh", !.at = "validate", !.sid = s]
    <2>1. n \in Requests_ /\ OpFits(n) /\ n.todo \cup n.found \subseteq Made
      BY DEF Idle, Requests_, Requests, OpFits
    <2>2. /\ op' = [op EXCEPT ![p] = n]
          /\ UNCHANGED <<here, redis, clock, touches, events, unchecked>>
      BY <1>4 DEF Refresh, Begin
    <2>. HIDE DEF n
    <2>3. op' \in [Procs -> Requests_] /\ RequestsFit'
      BY <2>1, <2>2, GoesOn DEF clock
    <2>. QED  BY <2>2, <2>3 DEF SessionTypeOK, redis, clock, touches
  <1>. QED  BY <1>2, <1>3, <1>4

LEMMA PlainFits ==
  ASSUME SessionTypeOK, RequestsFit, NEW p \in Procs,
         Store(p) \/ RevokeDelete(p) \/ ClearSet(p) \/ Validate(p) \/ Touch(p)
  PROVE  SessionTypeOK' /\ RequestsFit'
  <1>. DEFINE o == op[p]
  <1>1. o \in Requests_ /\ OpFits(o) /\ o.todo \cup o.found \subseteq Made
    BY DEF SessionTypeOK, RequestsFit
  <1>2. UNCHANGED created
    BY DEF Store, RevokeDelete, ClearSet, Validate, Touch, clock
  <1>3. CASE Store(p)
    <2>. DEFINE n == [o EXCEPT !.at = "list"]
    <2>1. o.at = "store" /\ op' = [op EXCEPT ![p] = n]
      BY <1>3 DEF Store, Goto
    <2>2. n \in Requests_ /\ OpFits(n) /\ n.todo \cup n.found \subseteq Made
      <3>. HIDE DEF o
      <3>. QED  BY <1>1, <2>1 DEF Requests_, Requests, OpFits
    <2>. HIDE DEF n
    <2>3. op' \in [Procs -> Requests_] /\ RequestsFit'
      BY <1>2, <2>1, <2>2, GoesOn
    <2>4. o.sid \in Ids /\ o.user \in Users
      BY <1>1, <2>1 DEF OpFits
    <2>. QED  BY <1>3, <2>3, <2>4 DEF Store, SessionTypeOK, clock, touches
  <1>4. CASE RevokeDelete(p)
    <2>. DEFINE n == [o EXCEPT !.at = "notify"]
    <2>1. o.at = "delete" /\ op' = [op EXCEPT ![p] = n]
      BY <1>4 DEF RevokeDelete, Goto
    <2>2. n \in Requests_ /\ OpFits(n) /\ n.todo \cup n.found \subseteq Made
      <3>. HIDE DEF o
      <3>. QED  BY <1>1, <2>1 DEF Requests_, Requests, OpFits
    <2>. HIDE DEF n
    <2>3. op' \in [Procs -> Requests_] /\ RequestsFit'
      BY <1>2, <2>1, <2>2, GoesOn
    <2>4. o.sid \in Ids /\ Owner[o.sid] \in Users
      BY <1>1, <2>1, SessionAssumption DEF OpFits
    <2>. QED  BY <1>4, <2>3, <2>4 DEF RevokeDelete, SessionTypeOK, clock, touches
  <1>5. CASE ClearSet(p)
    <2>1. o.at = "clear" /\ op' = [op EXCEPT ![p] = Idle]
      BY <1>5 DEF ClearSet, Goto
    <2>2. op' \in [Procs -> Requests_] /\ RequestsFit'
      BY <1>2, <2>1, IdleFits, GoesOn
    <2>3. o.user \in Users
      BY <1>1, <2>1 DEF OpFits
    <2>. QED  BY <1>5, <2>2, <2>3 DEF ClearSet, SessionTypeOK, clock, touches
  <1>6. CASE Validate(p)
    <2>1. o.at = "validate" /\ o.sid \in Ids /\ session[o.sid] \in Nat
      BY <1>1, <1>6 DEF Validate, OpFits, SessionTypeOK
    <2>. DEFINE n == [o EXCEPT !.at = "touch", !.read = session[o.sid]]
    <2>2. op' \in [Procs -> Requests_] /\ RequestsFit'
      <3>1. CASE Live(o.sid)
        <4>1. op' = [op EXCEPT ![p] = n]
          BY <1>6, <3>1 DEF Validate, Goto
        <4>2. session[o.sid] # 0
          BY <3>1 DEF Live
        <4>3. n \in Requests_ /\ OpFits(n) /\ n.todo \cup n.found \subseteq Made
          <5>. HIDE DEF o
          <5>. QED  BY <1>1, <2>1, <4>2 DEF Requests_, Requests, OpFits
        <4>. HIDE DEF n
        <4>. QED  BY <1>2, <4>1, <4>3, GoesOn
      <3>2. CASE ~Live(o.sid)
        <4>1. op' = [op EXCEPT ![p] = Idle]
          BY <1>6, <3>2 DEF Validate, Goto
        <4>. QED  BY <1>2, <4>1, IdleFits, GoesOn
      <3>. QED  BY <3>1, <3>2
    <2>. QED  BY <1>6, <2>2 DEF Validate, SessionTypeOK, redis, clock, touches
  <1>7. CASE Touch(p)
    <2>. DEFINE n == [o EXCEPT !.at = "rotate", !.read = 0]
    <2>1. o.at = "touch" /\ op' = [op EXCEPT ![p] = n]
      BY <1>7 DEF Touch, Goto
    <2>2. n \in Requests_ /\ OpFits(n) /\ n.todo \cup n.found \subseteq Made
      <3>. HIDE DEF o
      <3>. QED  BY <1>1, <2>1 DEF Requests_, Requests, OpFits
    <2>. HIDE DEF n
    <2>3. op' \in [Procs -> Requests_] /\ RequestsFit'
      BY <1>2, <2>1, <2>2, GoesOn
    <2>4. o.read \in Nat
      BY <1>1 DEF Requests_
    <2>. QED  BY <1>7, <2>3, <2>4 DEF Touch, SessionTypeOK, clock, touches
  <1>. QED  BY <1>3, <1>4, <1>5, <1>6, <1>7

LEMMA RotationFits ==
  ASSUME SessionTypeOK, RequestsFit, NEW p \in Procs, Rotate(p) \/ Swap(p)
  PROVE  SessionTypeOK' /\ RequestsFit'
  <1>. DEFINE o == op[p]
  <1>1. o \in Requests_ /\ OpFits(o) /\ o.todo \cup o.found \subseteq Made
    BY DEF SessionTypeOK, RequestsFit
  <1>2. UNCHANGED created
    BY DEF Rotate, Swap, clock
  <1>3. CASE Rotate(p)
    <2>1. o.at = "rotate" /\ o.sid \in Ids /\ session[o.sid] \in Nat /\ issued[o.sid] \in Nat
      BY <1>1, <1>3 DEF Rotate, OpFits, SessionTypeOK
    <2>. DEFINE r == session[o.sid]
                i == issued[o.sid] + 1
                n == [o EXCEPT !.at = "swap", !.read = r, !.new = i]
    <2>2. op' \in [Procs -> Requests_] /\ RequestsFit'
      <3>1. CASE op' = [op EXCEPT ![p] = n]
        <4>1. /\ n \in Requests_ /\ n.at = "swap" /\ n.new # 0 /\ n.sid = o.sid
              /\ n.kind = o.kind /\ n.user = o.user
              /\ n.todo = o.todo /\ n.found = o.found
          <5>1. r \in Nat /\ i \in Nat \ {0}
            BY <2>1
          <5>. HIDE DEF o, r, i
          <5>. QED  BY <1>1, <5>1 DEF Requests_
        <4>. HIDE DEF n
        <4>2. OpFits(n)
          BY <1>1, <2>1, <4>1 DEF OpFits
        <4>. QED  BY <1>1, <1>2, <3>1, <4>1, <4>2, GoesOn
      <3>2. CASE op' = [op EXCEPT ![p] = Idle]
        BY <1>2, <3>2, IdleFits, GoesOn
      <3>. QED  BY <1>3, <3>1, <3>2 DEF Rotate, Goto
    <2>3. issued' \in [Ids -> Nat]
      BY <1>3, <2>1 DEF Rotate, SessionTypeOK
    <2>. QED  BY <1>3, <2>2, <2>3 DEF Rotate, SessionTypeOK, redis, touches
  <1>4. CASE Swap(p)
    <2>1. o.at = "swap" /\ op' = [op EXCEPT ![p] = Idle]
      BY <1>4 DEF Swap, Goto
    <2>2. op' \in [Procs -> Requests_] /\ RequestsFit'
      BY <1>2, <2>1, IdleFits, GoesOn
    <2>3. o.sid \in Ids /\ o.new \in Nat
      BY <1>1, <2>1 DEF OpFits, Requests_
    <2>4. session' \in [Ids -> Nat] /\ refresh' \in [Ids -> SUBSET Nat]
      BY <1>4, <2>3 DEF Swap, SessionTypeOK
    <2>. QED  BY <1>4, <2>2, <2>4 DEF Swap, SessionTypeOK, clock, touches
  <1>. QED  BY <1>3, <1>4

LEMMA WorkerFits ==
  ASSUME SessionTypeOK, RequestsFit,
         \/ \E s \in Ids : DeferTouch(s)
         \/ FlushRead \/ FlushWrite
         \/ \E s \in Ids : Expire(s)
  PROVE  SessionTypeOK' /\ RequestsFit'
  <1>1. UNCHANGED <<created, op>>
    BY DEF DeferTouch, FlushRead, FlushWrite, Expire, clock
  <1>2. RequestsFit'
    BY <1>1, Standing
  <1>3. CASE \E s \in Ids : DeferTouch(s)
    BY <1>2, <1>3 DEF DeferTouch, SessionTypeOK, redis, clock
  <1>4. CASE FlushRead
    <2>1. flushed' \in [Ids -> Nat]
      BY <1>4 DEF FlushRead, SessionTypeOK
    <2>. QED  BY <1>2, <1>4, <2>1 DEF FlushRead, SessionTypeOK, redis, clock
  <1>5. CASE FlushWrite
    <2>1. session' \in [Ids -> Nat] /\ flushed' \in [Ids -> Nat]
      BY <1>5 DEF FlushWrite, SessionTypeOK
    <2>. QED  BY <1>2, <1>5, <2>1 DEF FlushWrite, SessionTypeOK, clock
  <1>6. CASE \E s \in Ids : Expire(s)
    BY <1>2, <1>6 DEF Expire, SessionTypeOK, touches
  <1>. QED  BY <1>3, <1>4, <1>5, <1>6

LEMMA RequestsStep ==
  ASSUME SessionTypeOK, RequestsFit, StoredOnce, ListedIsStored, SessionNext
  PROVE  SessionTypeOK' /\ RequestsFit'
  <1>1. \A s \in Ids : created[s] = 0 => ~Live(s)
    BY DEF StoredOnce, Untouched, Live
  <1>2. ASSUME NEW p \in Procs, NEW s \in Ids,
               \/ Login(p, s) \/ Logout(p, s) \/ LogoutAll(p, s) \/ ListSessions(p, s)
               \/ Refresh(p, s) \/ Look(p, s) \/ RevokeRead(p, s)
        PROVE  SessionTypeOK' /\ RequestsFit'
    BY <1>1, <1>2, BeginFits, LookFits, ReadFits
  <1>3. ASSUME NEW p \in Procs,
               \/ Store(p) \/ RevokeDelete(p) \/ ClearSet(p) \/ Validate(p)
               \/ Touch(p) \/ Rotate(p) \/ Swap(p)
               \/ List(p) \/ RevokeNotify(p) \/ Fail(p)
        PROVE  SessionTypeOK' /\ RequestsFit'
    BY <1>3, PlainFits, RotationFits, ListFits, NotifyFits, FailFits
  <1>. QED  BY <1>2, <1>3, WorkerFits DEF SessionNext

-----------------------------------------------------------------------------
(* Sessions before and after their keys are stored.                        *)

Loose == {"idle", "list", "look", "read", "clear"}

LEMMA LooseEnds ==
  ASSUME NEW o
  PROVE  /\ Idle.at = "idle"
         /\ o \in Requests_ => Rest(o).at \in Loose
         /\ o \in Requests_ /\ o.at = "look" => Looked(o).at \in Loose
  <1>1. Idle.at = "idle"
    BY DEF Idle
  <1>2. ASSUME o \in Requests_ PROVE Rest(o).at \in Loose
    BY <1>1, <1>2 DEF Rest, Loose, Requests_
  <1>3. ASSUME o \in Requests_, o.at = "look" PROVE Looked(o).at \in Loose
    BY <1>1, <1>3 DEF Looked, Loose, Requests_
  <1>. QED  BY <1>1, <1>2, <1>3

LEMMA SkipIsLoose ==
  ASSUME NEW o \in Requests_, NEW n \in Skip(o)
  PROVE  n.at \in Loose
  <1>1. \A x : \A k \in {Past(o, x), PastRead(o, x)} : k \in Requests_ /\ k.at = o.at
    BY PastFits
  <1>2. CASE o.at = "look"
    <2>1. PICK x \in o.todo : n = Looked(Past(o, x))
      BY <1>2 DEF Skip, Past
    <2>. QED  BY <1>1, <1>2, <2>1, LooseEnds
  <1>3. CASE o.at = "read"
    <2>1. PICK x \in o.todo : n = Rest(Past(o, x))
      BY <1>3 DEF Skip, Past
    <2>. QED  BY <1>1, <2>1, LooseEnds
  <1>4. CASE o.at \in {"delete", "notify"}
    <2>1. n = Rest(PastRead(o, o.sid))
      BY <1>4 DEF Skip, PastRead
    <2>. QED  BY <1>1, <2>1, LooseEnds
  <1>5. CASE o.at \notin {"look", "read", "delete", "notify"}
    BY <1>5, LooseEnds DEF Skip, Loose
  <1>. QED  BY <1>2, <1>3, <1>4, <1>5

LEMMA ListedIsLoose ==
  ASSUME NEW o \in Requests_, NEW ids \in SUBSET Ids
  PROVE  Listed(o, ids).at \in Loose
  <1>. DEFINE n == [o EXCEPT !.todo = ids]
              k == [o EXCEPT !.at = "look", !.todo = ids]
  <1>1. n \in Requests_ /\ k.at = "look"
    BY DEF Requests_
  <1>2. Listed(o, ids) \in {Rest(n), Idle, k}
    BY DEF Listed
  <1>. HIDE DEF n, k
  <1>. QED  BY <1>1, <1>2, LooseEnds DEF Loose

\* How a request comes to concern a session.
Concerns(q) ==
    \/ op'[q] = op[q]
    \/ op'[q].at \in Loose
    \/ /\ op'[q].at \in {"touch", "rotate", "swap", "notify"} /\ op'[q].sid = op[q].sid
       /\ op'[q].at = "notify" => RevokeDelete(q) /\ op'[q].user = op[q].user
       /\ op[q].at \in {"validate", "touch", "rotate", "delete"}
    \/ /\ op'[q].at \in {"validate", "delete"}
       /\ op'[q].sid \in Ids
       /\ session[op'[q].sid] # 0 \/ refresh[op'[q].sid] # {}
    \/ /\ op'[q].at = "store" /\ op'[q].sid \in Ids
       /\ created[op'[q].sid] = 0 /\ created'[op'[q].sid] # 0

LEMMA OpMoves ==
  ASSUME SessionTypeOK, RequestsFit, ListedIsStored, SessionNext, NEW q \in Procs
  PROVE  Concerns(q)
  <1>1. ASSUME NEW p \in Procs, NEW o, op' = [op EXCEPT ![p] = o]
        PROVE  op'[q] = op[q] \/ (p = q /\ op'[q] = o)
    BY <1>1 DEF SessionTypeOK
  <1>2. op[q] \in Requests_
    BY DEF SessionTypeOK
  <1>3. ASSUME NEW p \in Procs, NEW s \in Ids, Login(p, s)
        PROVE  Concerns(q)
    <2>. DEFINE n == [Idle EXCEPT !.kind = "login", !.at = "store",
                                  !.user = Owner[s], !.sid = s]
    <2>1. op' = [op EXCEPT ![p] = n] /\ created[s] = 0 /\ created' = [created EXCEPT ![s] = Now]
      BY <1>3 DEF Login, Begin
    <2>2. n.at = "store" /\ n.sid = s
      BY DEF Idle
    <2>3. created'[s] # 0
      <3>1. Cardinality(Made) \in Nat
        BY FS_CardinalityType DEF RequestsFit
      <3>2. Now # 0
        BY <3>1 DEF Now, Made
      <3>. QED  BY <2>1, <3>2 DEF SessionTypeOK
    <2>. HIDE DEF n
    <2>. QED  BY <1>1, <2>1, <2>2, <2>3 DEF Concerns
  <1>4. ASSUME NEW p \in Procs, NEW s \in Ids, Logout(p, s) \/ LogoutAll(p, s) \/ ListSessions(p, s)
        PROVE  Concerns(q)
    <2>1. PICK kind \in {"logout", "logoutAll", "listing"} :
             Ask(p, s, kind, IF kind = "logout" THEN "read" ELSE "list")
      BY <1>4 DEF Logout, LogoutAll, ListSessions
    <2>. DEFINE n == [Idle EXCEPT !.kind = kind, !.at = IF kind = "logout" THEN "read" ELSE "list",
                          !.user = Owner[s], !.todo = IF kind = "logout" THEN {s} ELSE {}]
    <2>2. op' = [op EXCEPT ![p] = n]
      BY <2>1 DEF Ask, Begin
    <2>3. n.at \in Loose
      BY DEF Idle, Loose
    <2>. HIDE DEF n
    <2>. QED  BY <1>1, <2>2, <2>3 DEF Concerns
  <1>5. ASSUME NEW p \in Procs, NEW s \in Ids, Refresh(p, s)
        PROVE  Concerns(q)
    <2>. DEFINE n == [Idle EXCEPT !.kind = "refresh", !.at = "validate", !.sid = s]
    <2>1. op' = [op EXCEPT ![p] = n] /\ refresh[s] # {}
      BY <1>5 DEF Refresh, Begin
    <2>2. n.at = "validate" /\ n.sid = s
      BY DEF Idle
    <2>. HIDE DEF n
    <2>. QED  BY <1>1, <2>1, <2>2 DEF Concerns
  <1>6. ASSUME NEW p \in Procs, NEW s \in Ids, Look(p, s)
        PROVE  Concerns(q)
    <2>. DEFINE o == op[p]
                F == IF Live(s) THEN o.found \cup {s} ELSE o.found
                k == [o EXCEPT !.todo = @ \ {s}, !.found = F]
    <2>1. op' = [op EXCEPT ![p] = Looked(k)] /\ o.at = "look" /\ o \in Requests_
      BY <1>6 DEF Look, Goto, SessionTypeOK
    <2>2. k \in Requests_ /\ k.at = "look"
      BY <2>1 DEF Requests_
    <2>. HIDE DEF k
    <2>. QED  BY <1>1, <2>1, <2>2, LooseEnds DEF Concerns
  <1>7. ASSUME NEW p \in Procs, NEW s \in Ids, RevokeRead(p, s)
        PROVE  Concerns(q)
    <2>. DEFINE o == op[p]
                n == [o EXCEPT !.at = "delete", !.sid = s, !.read = session[s]]
    <2>1. o \in Requests_
      BY DEF SessionTypeOK
    <2>2. CASE Live(s)
      <3>1. op' = [op EXCEPT ![p] = n]
        BY <1>7, <2>2 DEF RevokeRead, Goto
      <3>2. n.at = "delete" /\ n.sid = s
        BY <2>1 DEF Requests_
      <3>. HIDE DEF n
      <3>. QED  BY <1>1, <2>2, <3>1, <3>2 DEF Concerns, Live
    <2>3. CASE ~Live(s)
      <3>1. op' = [op EXCEPT ![p] = Rest(Past(o, s))]
        BY <1>7, <2>3 DEF RevokeRead, Goto, Past
      <3>2. Rest(Past(o, s)).at \in Loose
        BY <2>1, PastFits, LooseEnds
      <3>. QED  BY <1>1, <3>1, <3>2 DEF Concerns
    <2>. QED  BY <2>2, <2>3
  <1>8. ASSUME NEW p \in Procs, Store(p) \/ RevokeDelete(p) \/ Touch(p)
        PROVE  Concerns(q)
    <2>. DEFINE o == op[p]
    <2>1. o \in Requests_
      BY DEF SessionTypeOK
    <2>2. CASE Store(p)
      <3>. DEFINE n == [o EXCEPT !.at = "list"]
      <3>1. op' = [op EXCEPT ![p] = n]
        BY <2>2 DEF Store, Goto
      <3>2. n.at = "list"
        BY <2>1 DEF Requests_
      <3>. HIDE DEF n
      <3>. QED  BY <1>1, <3>1, <3>2 DEF Concerns, Loose
    <2>3. CASE RevokeDelete(p)
      <3>. DEFINE n == [o EXCEPT !.at = "notify"]
      <3>1. op' = [op EXCEPT ![p] = n] /\ o.at = "delete"
        BY <2>3 DEF RevokeDelete, Goto
      <3>2. n.at = "notify" /\ n.sid = o.sid /\ n.user = o.user
        BY <2>1 DEF Requests_
      <3>. HIDE DEF n
      <3>. QED  BY <1>1, <2>3, <3>1, <3>2 DEF Concerns
    <2>4. CASE Touch(p)
      <3>. DEFINE n == [o EXCEPT !.at = "rotate", !.read = 0]
      <3>1. op' = [op EXCEPT ![p] = n] /\ o.at = "touch"
        BY <2>4 DEF Touch, Goto
      <3>2. n.at = "rotate" /\ n.sid = o.sid
        BY <2>1 DEF Requests_
      <3>. HIDE DEF n
      <3>. QED  BY <1>1, <3>1, <3>2 DEF Concerns
    <2>. QED  BY <1>8, <2>2, <2>3, <2>4
  <1>9. ASSUME NEW p \in Procs, ClearSet(p) \/ Swap(p)
        PROVE  Concerns(q)
    <2>1. op' = [op EXCEPT ![p] = Idle]
      BY <1>9 DEF ClearSet, Swap, Goto
    <2>. QED  BY <1>1, <2>1, LooseEnds DEF Concerns, Loose
  <1>10. ASSUME NEW p \in Procs, Validate(p) \/ Rotate(p)
         PROVE  Concerns(q)
    <2>. DEFINE o == op[p]
                r == session[o.sid]
                i == issued[o.sid] + 1
                n == [o EXCEPT !.at = "touch", !.read = r]
                k == [o EXCEPT !.at = "swap", !.read = r, !.new = i]
    <2>1. o \in Requests_ /\ o.at \in {"validate", "rotate"}
      BY <1>10 DEF SessionTypeOK, Validate, Rotate
    <2>2. \E m \in {Idle, n, k} : op' = [op EXCEPT ![p] = m]
      BY <1>10 DEF Validate, Rotate, Goto
    <2>. HIDE DEF r, i
    <2>3. n.at = "touch" /\ n.sid = o.sid /\ k.at = "swap" /\ k.sid = o.sid
      <3>. HIDE DEF o
      <3>. QED  BY <2>1 DEF Requests_
    <2>. HIDE DEF n, k
    <2>. QED  BY <1>1, <2>1, <2>2, <2>3, LooseEnds DEF Concerns, Loose
  <1>11. ASSUME NEW p \in Procs, List(p)
         PROVE  Concerns(q)
    <2>1. op' = [op EXCEPT ![p] = Listed(op[p], listed[op[p].user])]
      BY <1>11 DEF List, Goto
    <2>2. op[p] \in Requests_ /\ op[p].user \in Users
      BY <1>11 DEF List, SessionTypeOK, RequestsFit, OpFits
    <2>3. listed[op[p].user] \in SUBSET Ids
      BY <2>2 DEF SessionTypeOK
    <2>4. Listed(op[p], listed[op[p].user]).at \in Loose
      BY <2>2, <2>3, ListedIsLoose
    <2>. QED  BY <1>1, <2>1, <2>4 DEF Concerns
  <1>12. ASSUME NEW p \in Procs, RevokeNotify(p)
         PROVE  Concerns(q)
    <2>1. op' = [op EXCEPT ![p] = Rest(PastRead(op[p], op[p].sid))]
      BY <1>12 DEF RevokeNotify, Goto, PastRead
    <2>2. Rest(PastRead(op[p], op[p].sid)).at \in Loose
      BY PastFits, LooseEnds DEF SessionTypeOK
    <2>. QED  BY <1>1, <2>1, <2>2 DEF Concerns
  <1>13. ASSUME NEW p \in Procs, Fail(p)
         PROVE  Concerns(q)
    <2>1. PICK n \in Skip(op[p]) : op' = [op EXCEPT ![p] = n]
      BY <1>13 DEF Fail, Goto
    <2>2. n.at \in Loose
      BY SkipIsLoose DEF SessionTypeOK
    <2>. QED  BY <1>1, <2>1, <2>2 DEF Concerns
  <1>14. ASSUME op' = op PROVE Concerns(q)
    BY <1>14 DEF Concerns
  <1>. QED
    BY <1>3, <1>4, <1>5, <1>6, <1>7, <1>8, <1>9, <1>10, <1>11, <1>12, <1>13, <1>14
    DEF SessionNext, DeferTouch, FlushRead, FlushWrite, Expire

LEMMA UntouchedStays ==
  ASSUME SessionTypeOK, RequestsFit, ListedIsStored, SessionNext,
         NEW s \in Ids, Untouched(s), created'[s] = created[s] \/ created[s] = 0,
         \A p \in Procs : Storing(p, s) => ~Store(p)
  PROVE  Untouched(s)'
  <1>1. ASSUME NEW q \in Procs,
               op'[q].at \in {"validate", "touch", "rotate", "swap", "delete", "notify"}
        PROVE  op'[q].sid # s
    <2>1. Concerns(q)
      BY OpMoves
    <2>. QED  BY <1>1, <2>1 DEF Concerns, Loose, Untouched
  <1>. DEFINE Bare == /\ session'[s] = 0 /\ refresh'[s] = {} /\ flushed'[s] = 0 /\ s \notin expired'
                      /\ \A u \in Users : s \notin listed'[u]
  <1>2. SUFFICES Bare
    BY <1>1 DEF Untouched
  <1>3. CASE UNCHANGED <<redis, flushed, expired>>
    BY <1>3 DEF redis, Untouched
  <1>4. ASSUME NEW p \in Procs, Store(p) PROVE Bare
    <2>1. op[p].sid # s
      BY <1>4 DEF Store, Storing
    <2>. QED  BY <1>4, <2>1 DEF Store, clock, touches, Untouched, SessionTypeOK
  <1>5. ASSUME NEW p \in Procs, NEW x \in Ids, Look(p, x) PROVE Bare
    BY <1>5 DEF Look, clock, touches, Untouched, SessionTypeOK
  <1>6. ASSUME NEW p \in Procs, RevokeDelete(p) PROVE Bare
    BY <1>6 DEF RevokeDelete, clock, touches, Untouched, SessionTypeOK
  <1>7. ASSUME NEW p \in Procs, ClearSet(p) PROVE Bare
    BY <1>7 DEF ClearSet, clock, touches, Untouched, SessionTypeOK
  <1>8. ASSUME NEW p \in Procs, Touch(p) \/ Swap(p) PROVE Bare
    <2>1. op[p].sid # s
      BY <1>8 DEF Touch, Swap, Untouched
    <2>. QED  BY <1>8, <2>1 DEF Touch, Swap, clock, touches, Untouched, SessionTypeOK
  <1>9. CASE FlushRead
    BY <1>9 DEF FlushRead, redis, clock, Untouched, SessionTypeOK
  <1>10. CASE FlushWrite
    BY <1>10 DEF FlushWrite, clock, Untouched, SessionTypeOK
  <1>11. ASSUME NEW x \in Ids, Expire(x) PROVE Bare
    BY <1>11 DEF Expire, touches, Live, Untouched, SessionTypeOK
  <1>12. ASSUME NEW p \in Procs, NEW x \in Ids,
                \/ Login(p, x) \/ Logout(p, x) \/ LogoutAll(p, x) \/ ListSessions(p, x)
                \/ RevokeRead(p, x) \/ Refresh(p, x)
         PROVE  Bare
    BY <1>12, <1>3 DEF Login, Logout, LogoutAll, ListSessions, Ask, RevokeRead, Refresh,
                       clock, touches
  <1>13. ASSUME NEW p \in Procs, List(p) \/ RevokeNotify(p) \/ Validate(p) \/ Rotate(p) \/ Fail(p)
         PROVE  Bare
    BY <1>13, <1>3 DEF List, RevokeNotify, Validate, Rotate, Fail, clock, touches
  <1>14. ASSUME NEW x \in Ids, DeferTouch(x) PROVE Bare
    BY <1>14, <1>3 DEF DeferTouch, clock
  <1>. QED
    <2>. HIDE DEF Bare
    <2>. QED  BY <1>4, <1>5, <1>6, <1>7, <1>8, <1>9, <1>10, <1>11, <1>12, <1>13, <1>14
              DEF SessionNext

\* Only a login makes a session, and it is the only request that does.
LEMMA CreatedByLogin ==
  ASSUME SessionTypeOK, RequestsFit, SessionNext
  PROVE  \/ UNCHANGED created
         \/ \E p \in Procs, s \in Ids :
               /\ created[s] = 0 /\ created'[s] # 0
               /\ \A x \in Ids \ {s} : created'[x] = created[x]
               /\ \A q \in Procs \ {p} : op'[q] = op[q]
  <1>1. ASSUME NEW p \in Procs, NEW s \in Ids, Login(p, s)
        PROVE  /\ created[s] = 0 /\ created'[s] # 0
               /\ \A x \in Ids \ {s} : created'[x] = created[x]
               /\ \A q \in Procs \ {p} : op'[q] = op[q]
    <2>. DEFINE n == [Idle EXCEPT !.kind = "login", !.at = "store",
                                  !.user = Owner[s], !.sid = s]
    <2>1. op' = [op EXCEPT ![p] = n] /\ created[s] = 0 /\ created' = [created EXCEPT ![s] = Now]
      BY <1>1 DEF Login, Begin
    <2>2. Now # 0
      <3>1. Cardinality(Made) \in Nat
        BY FS_CardinalityType DEF RequestsFit
      <3>. QED  BY <3>1 DEF Now, Made
    <2>. HIDE DEF n
    <2>. QED  BY <2>1, <2>2 DEF SessionTypeOK
  <1>2. ASSUME NEW p \in Procs, NEW s \in Ids,
               \/ Logout(p, s) \/ LogoutAll(p, s) \/ ListSessions(p, s)
               \/ Look(p, s) \/ RevokeRead(p, s) \/ Refresh(p, s)
        PROVE  UNCHANGED created
    BY <1>2 DEF Logout, LogoutAll, ListSessions, Ask, Look, RevokeRead, Refresh, clock
  <1>3. ASSUME NEW p \in Procs,
               \/ Store(p) \/ List(p) \/ RevokeDelete(p) \/ RevokeNotify(p) \/ ClearSet(p)
               \/ Validate(p) \/ Touch(p) \/ Rotate(p) \/ Swap(p) \/ Fail(p)
        PROVE  UNCHANGED created
    BY <1>3 DEF Store, List, RevokeDelete, RevokeNotify, ClearSet, Validate, Touch, Rotate,
                Swap, Fail, clock
  <1>4. ASSUME NEW s \in Ids, DeferTouch(s) \/ FlushRead \/ FlushWrite \/ Expire(s)
        PROVE  UNCHANGED created
    BY <1>4 DEF DeferTouch, FlushRead, FlushWrite, Expire, clock
  <1>5. CASE FlushRead \/ FlushWrite
    BY <1>5 DEF FlushRead, FlushWrite, clock
  <1>. QED  BY <1>1, <1>2, <1>3, <1>4, <1>5 DEF SessionNext

LEMMA StoredStep ==
  ASSUME SessionTypeOK, RequestsFit, StoredOnce, ListedIsStored, SessionNext
  PROVE  StoredOnce'
  <1>1. ASSUME NEW p \in Procs, NEW s \in Ids, Storing(p, s)'
        PROVE  Storing(p, s) \/ (created[s] = 0 /\ created'[s] # 0)
    <2>1. Concerns(p)
      BY OpMoves
    <2>. QED  BY <1>1, <2>1 DEF Concerns, Loose, Storing
  <1>2. \A s \in Ids : created[s] # 0 => created'[s] = created[s]
    BY CreatedByLogin
  <1>3. ASSUME NEW p \in Procs, NEW s \in Ids, Store(p), Storing(p, s)
        PROVE  ~Storing(p, s)'
    <2>1. op'[p] = [op[p] EXCEPT !.at = "list"] /\ op[p] \in Requests_
      BY <1>3 DEF Store, Goto, SessionTypeOK
    <2>. QED  BY <2>1 DEF Storing, Requests_
  <1>4. ASSUME NEW s \in Ids, Untouched(s), \A p \in Procs : Storing(p, s) => ~Store(p)
        PROVE  Untouched(s)'
    BY <1>2, <1>4, UntouchedStays
  <1>5. ASSUME NEW s \in Ids, created'[s] = 0
        PROVE  Untouched(s)' /\ \A p \in Procs : ~Storing(p, s)'
    <2>1. created[s] = 0
      BY <1>2, <1>5
    <2>2. Untouched(s) /\ \A p \in Procs : ~Storing(p, s)
      BY <2>1 DEF StoredOnce
    <2>. QED  BY <1>1, <1>4, <1>5, <2>2
  <1>6. ASSUME NEW p \in Procs, NEW s \in Ids, Storing(p, s)'
        PROVE  Untouched(s)' /\ \A q \in Procs \ {p} : ~Storing(q, s)'
    <2>1. CASE Storing(p, s)
      <3>1. Untouched(s) /\ created[s] # 0 /\ \A q \in Procs \ {p} : ~Storing(q, s)
        BY <2>1 DEF StoredOnce
      <3>2. \A q \in Procs : Storing(q, s) => ~Store(q)
        BY <1>3, <1>6, <3>1
      <3>. QED  BY <1>1, <1>4, <3>1, <3>2
    <2>2. CASE created[s] = 0 /\ created'[s] # 0
      <3>1. Untouched(s) /\ \A q \in Procs : ~Storing(q, s)
        BY <2>2 DEF StoredOnce
      <3>2. \A q \in Procs \ {p} : ~Storing(q, s)'
        <4>1. PICK r \in Procs : \A q \in Procs \ {r} : op'[q] = op[q]
          BY <2>2, CreatedByLogin
        <4>2. \A q \in Procs \ {r} : ~Storing(q, s)'
          BY <3>1, <4>1 DEF Storing
        <4>. QED  BY <1>6, <4>2
      <3>. QED  BY <1>4, <3>1, <3>2
    <2>. QED  BY <1>1, <1>6, <2>1, <2>2
  <1>. QED  BY <1>5, <1>6 DEF StoredOnce

\* A session leaves a list, or a login that stores it puts it there.
LEMMA ListGrows ==
  ASSUME SessionTypeOK, RequestsFit, SessionNext,
         NEW u \in Users, NEW s \in listed'[u], s \notin listed[u]
  PROVE  \E p \in Procs : Store(p) /\ Storing(p, s) /\ u = Owner[s]
  <1>1. ASSUME NEW p \in Procs, Store(p)
        PROVE  \E q \in Procs : Store(q) /\ Storing(q, s) /\ u = Owner[s]
    <2>1. /\ op[p].at = "store" /\ op[p].user = Owner[op[p].sid]
          /\ listed' = [listed EXCEPT ![op[p].user] = @ \cup {op[p].sid}]
      BY <1>1 DEF Store, RequestsFit, OpFits
    <2>2. s = op[p].sid /\ u = op[p].user
      BY <2>1 DEF SessionTypeOK
    <2>. QED  BY <1>1, <2>1, <2>2 DEF Storing
  <1>2. ASSUME NEW p \in Procs, NEW x \in Ids,
               \/ Login(p, x) \/ Logout(p, x) \/ LogoutAll(p, x) \/ ListSessions(p, x)
               \/ Look(p, x) \/ RevokeRead(p, x) \/ Refresh(p, x)
        PROVE  FALSE
    BY <1>2 DEF Login, Logout, LogoutAll, ListSessions, Ask, Look, RevokeRead, Refresh, redis,
                SessionTypeOK
  <1>3. ASSUME NEW p \in Procs,
               \/ List(p) \/ RevokeDelete(p) \/ RevokeNotify(p) \/ ClearSet(p)
               \/ Validate(p) \/ Touch(p) \/ Rotate(p) \/ Swap(p) \/ Fail(p)
        PROVE  FALSE
    BY <1>3 DEF List, RevokeDelete, RevokeNotify, ClearSet, Validate, Touch, Rotate,
                Swap, Fail, redis, SessionTypeOK
  <1>4. ASSUME NEW x \in Ids, DeferTouch(x) \/ FlushRead \/ FlushWrite \/ Expire(x)
        PROVE  FALSE
    BY <1>4 DEF DeferTouch, FlushRead, FlushWrite, Expire, redis
  <1>5. ~FlushRead /\ ~FlushWrite
    BY DEF FlushRead, FlushWrite, redis
  <1>. QED  BY <1>1, <1>2, <1>3, <1>4, <1>5 DEF SessionNext

LEMMA ExpiredStays ==
  ASSUME SessionNext
  PROVE  expired \subseteq expired'
  <1>1. ASSUME NEW p \in Procs, NEW x \in Ids,
               \/ Login(p, x) \/ Logout(p, x) \/ LogoutAll(p, x) \/ ListSessions(p, x)
               \/ Look(p, x) \/ RevokeRead(p, x) \/ Refresh(p, x)
        PROVE  expired \subseteq expired'
    BY <1>1 DEF Login, Logout, LogoutAll, ListSessions, Ask, Look, RevokeRead, Refresh, clock
  <1>2. ASSUME NEW p \in Procs,
               \/ Store(p) \/ List(p) \/ RevokeDelete(p) \/ RevokeNotify(p) \/ ClearSet(p)
               \/ Validate(p) \/ Touch(p) \/ Rotate(p) \/ Swap(p) \/ Fail(p)
        PROVE  expired \subseteq expired'
    BY <1>2 DEF Store, List, RevokeDelete, RevokeNotify, ClearSet, Validate, Touch, Rotate,
                Swap, Fail, clock
  <1>3. ASSUME NEW s \in Ids, DeferTouch(s) \/ Expire(s)
        PROVE  expired \subseteq expired'
    BY <1>3 DEF DeferTouch, Expire, clock
  <1>4. CASE FlushRead \/ FlushWrite
    BY <1>4 DEF FlushRead, FlushWrite, clock
  <1>. QED  BY <1>1, <1>2, <1>3, <1>4 DEF SessionNext

\* The keys of a session that stays listed stay, unless it expires.
LEMMA KeysStay ==
  ASSUME SessionTypeOK, RequestsFit, StoredOnce, ListedIsStored, SessionNext,
         NEW u \in Users, NEW s \in listed[u], s \in listed'[u], s \notin expired'
  PROVE  session'[s] # 0 /\ refresh'[s] # {}
  <1>. DEFINE Kept == session'[s] # 0 /\ refresh'[s] # {}
  <1>1. s \in Ids /\ Owner[s] = u
    BY DEF SessionTypeOK, ListedIsStored
  <1>2. expired \subseteq expired'
    BY ExpiredStays
  <1>3. s \notin expired /\ session[s] # 0 /\ refresh[s] # {}
    BY <1>2 DEF ListedIsStored
  <1>4. CASE UNCHANGED <<session, refresh>>
    BY <1>3, <1>4
  <1>5. ASSUME NEW p \in Procs, Store(p) PROVE Kept
    <2>1. s \in DOMAIN session /\ s \in DOMAIN refresh
      BY <1>1 DEF SessionTypeOK
    <2>2. /\ session' = [session EXCEPT ![op[p].sid] = 1]
          /\ refresh' = [refresh EXCEPT ![op[p].sid] = {1}]
      BY <1>5 DEF Store
    <2>. QED  BY <1>3, <2>1, <2>2
  <1>6. ASSUME NEW p \in Procs, RevokeDelete(p) PROVE Kept
    <2>1. op[p].sid # s
      BY <1>1, <1>6 DEF RevokeDelete, SessionTypeOK
    <2>. QED  BY <1>1, <1>3, <1>6, <2>1 DEF RevokeDelete, SessionTypeOK
  <1>7. ASSUME NEW p \in Procs, Touch(p) PROVE Kept
    <2>1. op[p].read # 0
      BY <1>7 DEF Touch, RequestsFit, OpFits
    <2>. QED  BY <1>1, <1>3, <1>7, <2>1 DEF Touch, SessionTypeOK
  <1>8. ASSUME NEW p \in Procs, Swap(p) PROVE Kept
    <2>1. op[p].new # 0
      BY <1>8 DEF Swap, RequestsFit, OpFits
    <2>. QED  BY <1>1, <1>3, <1>8, <2>1 DEF Swap, SessionTypeOK
  <1>9. CASE FlushWrite
    BY <1>1, <1>3, <1>9 DEF FlushWrite, SessionTypeOK
  <1>10. ASSUME NEW x \in Ids, Expire(x) PROVE Kept
    BY <1>1, <1>3, <1>10 DEF Expire, SessionTypeOK
  <1>11. ASSUME NEW p \in Procs, NEW x \in Ids,
                \/ Login(p, x) \/ Logout(p, x) \/ LogoutAll(p, x) \/ ListSessions(p, x)
                \/ Look(p, x) \/ RevokeRead(p, x) \/ Refresh(p, x)
         PROVE  Kept
    BY <1>4, <1>11 DEF Login, Logout, LogoutAll, ListSessions, Ask, Look, RevokeRead, Refresh, redis
  <1>12. ASSUME NEW p \in Procs,
                \/ List(p) \/ RevokeNotify(p) \/ ClearSet(p)
                \/ Validate(p) \/ Rotate(p) \/ Fail(p)
         PROVE  Kept
    BY <1>4, <1>12 DEF List, RevokeNotify, ClearSet, Validate, Rotate, Fail, redis
  <1>13. ASSUME NEW x \in Ids, DeferTouch(x) \/ FlushRead PROVE Kept
    BY <1>4, <1>13 DEF DeferTouch, FlushRead, redis
  <1>14. CASE FlushRead
    BY <1>4, <1>14 DEF FlushRead, redis
  <1>. QED
    BY <1>5, <1>6, <1>7, <1>8, <1>9, <1>10, <1>11, <1>12, <1>13, <1>14 DEF SessionNext

LEMMA ListedStep ==
  ASSUME SessionTypeOK, RequestsFit, StoredOnce, ListedIsStored, SessionNext, SessionTypeOK'
  PROVE  ListedIsStored'
  <1>1. ASSUME NEW s \in expired' PROVE session'[s] = 0
    <2>1. s \in expired => session[s] = 0
      BY DEF ListedIsStored
    <2>2. s \in Ids
      BY DEF SessionTypeOK
    <2>3. \A p \in Procs : Storing(p, s) => s \notin expired
      BY <2>2 DEF StoredOnce, Untouched
    <2>4. ASSUME NEW p \in Procs, Store(p) PROVE session'[s] = 0
      BY <1>1, <2>1, <2>3, <2>4 DEF Store, Storing, SessionTypeOK, clock
    <2>5. ASSUME NEW p \in Procs, RevokeDelete(p) \/ Touch(p) \/ Swap(p) PROVE session'[s] = 0
      <3>1. CASE RevokeDelete(p)
        BY <1>1, <2>1, <2>2, <3>1 DEF RevokeDelete, SessionTypeOK, clock
      <3>2. CASE Touch(p)
        BY <1>1, <2>1, <2>2, <3>2 DEF Touch, SessionTypeOK, clock
      <3>3. CASE Swap(p)
        BY <1>1, <2>1, <2>2, <3>3 DEF Swap, SessionTypeOK, clock
      <3>. QED  BY <2>5, <3>1, <3>2, <3>3
    <2>6. CASE FlushWrite
      BY <1>1, <2>1, <2>2, <2>6 DEF FlushWrite, clock
    <2>7. ASSUME NEW x \in Ids, Expire(x) PROVE session'[s] = 0
      BY <1>1, <2>1, <2>2, <2>7 DEF Expire, SessionTypeOK
    <2>8. CASE UNCHANGED <<session, expired>>
      BY <1>1, <2>1, <2>8
    <2>9. ASSUME NEW p \in Procs, NEW x \in Ids,
                 \/ Login(p, x) \/ Logout(p, x) \/ LogoutAll(p, x) \/ ListSessions(p, x)
                 \/ Look(p, x) \/ RevokeRead(p, x) \/ Refresh(p, x)
          PROVE  session'[s] = 0
      BY <2>8, <2>9 DEF Login, Logout, LogoutAll, ListSessions, Ask, Look, RevokeRead, Refresh,
                        redis, clock
    <2>10. ASSUME NEW p \in Procs,
                  \/ List(p) \/ RevokeNotify(p) \/ ClearSet(p)
                  \/ Validate(p) \/ Rotate(p) \/ Fail(p)
           PROVE  session'[s] = 0
      BY <2>8, <2>10 DEF List, RevokeNotify, ClearSet, Validate, Rotate, Fail, redis, clock
    <2>11. ASSUME NEW x \in Ids, DeferTouch(x) PROVE session'[s] = 0
      BY <2>8, <2>11 DEF DeferTouch, redis, clock
    <2>12. CASE FlushRead
      BY <2>8, <2>12 DEF FlushRead, redis, clock
    <2>. QED  BY <2>4, <2>5, <2>6, <2>7, <2>9, <2>10, <2>11, <2>12 DEF SessionNext
  <1>2. \A s \in Ids : created[s] # 0 => created'[s] # 0
    BY CreatedByLogin
  <1>3. ASSUME NEW u \in Users, NEW s \in listed'[u]
        PROVE  /\ Owner[s] = u /\ created'[s] # 0
               /\ s \notin expired' => session'[s] # 0 /\ refresh'[s] # {}
    <2>1. s \in Ids
      BY DEF SessionTypeOK
    <2>2. CASE s \in listed[u]
      BY <1>2, <1>3, <2>1, <2>2, KeysStay DEF ListedIsStored
    <2>3. CASE s \notin listed[u]
      <3>1. PICK p \in Procs : Store(p) /\ Storing(p, s) /\ u = Owner[s]
        BY <2>3, ListGrows
      <3>2. created[s] # 0
        BY <2>1, <3>1 DEF StoredOnce
      <3>3. session'[s] = 1 /\ refresh'[s] = {1}
        BY <2>1, <3>1 DEF Store, Storing, SessionTypeOK
      <3>. QED  BY <1>2, <2>1, <3>1, <3>2, <3>3
    <2>. QED  BY <2>2, <2>3
  <1>4. ASSUME NEW p \in Procs, op'[p].at = "notify"
        PROVE  op'[p].sid \notin listed'[op'[p].user]
    <2>1. Concerns(p)
      BY OpMoves
    <2>. DEFINE x == op'[p].sid
                u == op'[p].user
    <2>2. op'[p].at \in {"delete", "notify"} => u \in Users /\ x \in Ids
      <3>1. RequestsFit'
        BY RequestsStep
      <3>. QED  BY <3>1 DEF RequestsFit, OpFits
    <2>3. CASE op'[p] = op[p]
      <3>1. op[p].at = "notify" /\ x \notin listed[u]
        BY <1>4, <2>3 DEF ListedIsStored
      <3>2. ASSUME x \in listed'[u] PROVE FALSE
        <4>1. PICK q \in Procs : Store(q) /\ Storing(q, x)
          BY <1>4, <2>2, <3>1, <3>2, ListGrows
        <4>2. Untouched(x)
          BY <1>4, <2>2, <4>1 DEF StoredOnce
        <4>. QED  BY <2>3, <3>1, <4>2 DEF Untouched
      <3>. QED  BY <3>2
    <2>4. CASE RevokeDelete(p) /\ x = op[p].sid /\ u = op[p].user
      <3>1. op[p].at = "delete" /\ listed' = [listed EXCEPT ![Owner[op[p].sid]] = @ \ {op[p].sid}]
        BY <2>4 DEF RevokeDelete
      <3>2. op[p].user \in Users /\ Owner[op[p].sid] = op[p].user
        BY <3>1 DEF RequestsFit, OpFits
      <3>. QED  BY <2>4, <3>1, <3>2 DEF SessionTypeOK
    <2>. QED  BY <1>4, <2>1, <2>3, <2>4 DEF Concerns, Loose
  <1>. QED  BY <1>1, <1>3, <1>4 DEF ListedIsStored

-----------------------------------------------------------------------------
(* The cap of a user's sessions.                                           *)

LEMMA AtMostFewer ==
  ASSUME NEW S, IsFiniteSet(S), AtMost(S), NEW T \in SUBSET S
  PROVE  AtMost(T)
  <1>1. Cardinality(T) <= Cardinality(S) /\ Cardinality(T) \in Nat /\ Cardinality(S) \in Nat
    BY FS_Subset, FS_CardinalityType
  <1>. QED  BY <1>1, SessionAssumption DEF AtMost

LEMMA ListedFinite ==
  ASSUME RequestsFit, ListedIsStored, SessionTypeOK, NEW u \in Users
  PROVE  listed[u] \subseteq Made /\ IsFiniteSet(listed[u]) /\ IsFiniteSet(LiveListed(u))
  <1>1. listed[u] \subseteq Made /\ LiveListed(u) \subseteq Made
    BY DEF ListedIsStored, SessionTypeOK, Made, LiveListed
  <1>. QED  BY <1>1, FS_Subset DEF RequestsFit

(* A set of natural numbers has a least one.                               *)
LEMMA LeastNatural ==
  ASSUME NEW T, T \subseteq Nat, T # {}
  PROVE  \E x \in T : \A y \in T : x <= y
  <1>. DEFINE R == OpToRel(<, Nat)
  <1>1. IsWellFoundedOn(R, Nat)
    BY NatLessThanWellFounded
  <1>2. \A x, y \in Nat : <<y, x>> \in R <=> y < x
    BY DEF OpToRel
  <1>. HIDE DEF R
  <1>3. PICK x \in T : \A y \in T : ~(<<y, x>> \in R)
    BY <1>1, WFMin
  <1>4. ASSUME NEW y \in T PROVE x <= y
    <2>1. x \in Nat /\ y \in Nat /\ ~(<<y, x>> \in R)
      BY <1>3
    <2>. QED  BY <1>2, <2>1
  <1>. QED  BY <1>4

(* Oldest(S, n) holds at least n of S: what is left out has n before it,   *)
(* and the first one left out has them all in Oldest(S, n).                *)
LEMMA OldestEnough ==
  ASSUME created \in [Ids -> Nat], NEW S \in SUBSET Ids, IsFiniteSet(S),
         NEW n \in Nat, n <= Cardinality(S)
  PROVE  /\ Oldest(S, n) \subseteq S
         /\ Cardinality(S \ Oldest(S, n)) <= Cardinality(S) - n
  <1>. DEFINE C == Oldest(S, n)
              Before(s) == {x \in S : created[x] < created[s]}
  <1>1. C \subseteq S /\ IsFiniteSet(C) /\ Cardinality(C) \in Nat /\ Cardinality(S) \in Nat
    <2>1. C \subseteq S
      BY DEF Oldest
    <2>. QED  BY <2>1, FS_Subset, FS_CardinalityType
  <1>2. Cardinality(C) >= n
    <2>1. CASE C = S
      BY <2>1, <1>1
    <2>2. CASE C # S
      <3>. DEFINE T == {created[s] : s \in S \ C}
      <3>1. T \subseteq Nat /\ T # {}
        BY <1>1, <2>2
      <3>2. PICK t \in T : \A y \in T : t <= y
        BY <3>1, LeastNatural
      <3>3. PICK s \in S \ C : created[s] = t
        BY <3>2
      <3>4. \A x \in S \ C : created[s] <= created[x]
        BY <3>2, <3>3
      <3>5. Before(s) \subseteq C
        BY <3>4
      <3>6. ~(Cardinality(Before(s)) < n)
        BY <3>3 DEF Oldest
      <3>7. Cardinality(Before(s)) <= Cardinality(C) /\ Cardinality(Before(s)) \in Nat
        BY <3>5, <1>1, FS_Subset, FS_CardinalityType
      <3>. QED  BY <1>1, <3>6, <3>7
    <2>. QED  BY <2>1, <2>2
  <1>3. Cardinality(S \ C) = Cardinality(S) - Cardinality(S \cap C)
    BY FS_Difference
  <1>. HIDE DEF C
  <1>4. Cardinality(S \cap C) = Cardinality(C)
    <2>1. S \cap C = C
      BY <1>1
    <2>. QED  BY <2>1, Zenon
  <1>5. Cardinality(S \ C) <= Cardinality(S) - n
    BY <1>1, <1>2, <1>3, <1>4
  <1>. QED  BY <1>1, <1>5 DEF C

\* Only a login brings a live session to a user's list.
LEMMA LiveShrinks ==
  ASSUME SessionTypeOK, RequestsFit, StoredOnce, ListedIsStored, SessionNext,
         SessionTypeOK', ListedIsStored',
         NEW u \in Users, \A p \in Procs : Store(p) => op[p].user # u
  PROVE  LiveListed(u)' \subseteq LiveListed(u)
  <1>1. ASSUME NEW s \in listed'[u], session'[s] # 0
        PROVE  s \in listed[u] /\ session[s] # 0
    <2>1. s \in listed[u]
      <3>1. ASSUME NEW p \in Procs, Store(p), Storing(p, s), u = Owner[s]
            PROVE  FALSE
        BY <3>1 DEF Storing, RequestsFit, OpFits
      <3>. QED  BY <3>1, ListGrows
    <2>2. s \notin expired'
      BY <1>1 DEF ListedIsStored
    <2>3. s \notin expired
      BY <2>2, ExpiredStays
    <2>. QED  BY <2>1, <2>3 DEF ListedIsStored
  <1>. QED  BY <1>1 DEF LiveListed, Live

LEMMA CoverStays ==
  ASSUME RequestsFit, ListedIsStored, SessionTypeOK,
         NEW u \in Users, LiveListed(u)' \subseteq LiveListed(u),
         NEW p \in Procs, op'[p] = op[p], Covers(op[p], u)
  PROVE  Covers(op[p], u)'
  <1>1. AtMost(LiveListed(u) \ op[p].todo) => AtMost(LiveListed(u)' \ op[p].todo)
    <2>1. IsFiniteSet(LiveListed(u) \ op[p].todo)
      BY ListedFinite, FS_Difference
    <2>2. LiveListed(u)' \ op[p].todo \subseteq LiveListed(u) \ op[p].todo
      OBVIOUS
    <2>. QED  BY <2>1, <2>2, AtMostFewer
  <1>. QED  BY <1>1 DEF Covers, AtMost

LEMMA ListCovers ==
  ASSUME SessionTypeOK, RequestsFit, ListedIsStored,
         NEW p \in Procs, List(p), op[p].kind = "login", NEW u \in Users, u = op[p].user
  PROVE  AtMost(LiveListed(u))' \/ Covers(op[p], u)'
  <1>. DEFINE o == op[p]
              ids == listed[u]
              n == [o EXCEPT !.at = "look", !.todo = ids]
  <1>1. o \in Requests_ /\ op' = [op EXCEPT ![p] = Listed(o, ids)] /\ listed' = listed /\ session' = session
    BY DEF List, Goto, SessionTypeOK, redis
  <1>2. op'[p] = Listed(o, ids)
    BY <1>1 DEF SessionTypeOK
  <1>3. IsFiniteSet(ids) /\ LiveListed(u)' \subseteq ids
    BY <1>1, ListedFinite DEF LiveListed
  <1>4. CASE Cardinality(ids) <= MaxSessions
    <2>1. AtMost(ids)
      BY <1>4 DEF AtMost
    <2>2. AtMost(LiveListed(u)')
      BY <1>3, <2>1, AtMostFewer
    <2>. QED  BY <2>2 DEF AtMost
  <1>5. CASE ~(Cardinality(ids) <= MaxSessions)
    <2>1. ids # {}
      <3>1. ids = {} => Cardinality(ids) = 0
        BY FS_EmptySet
      <3>. QED  BY <1>5, <3>1, SessionAssumption
    <2>2. Listed(o, ids) = n
      BY <1>5, <2>1 DEF Listed
    <2>3. n.kind = "login" /\ n.user = u /\ n.at = "look" /\ n.todo = ids
      BY <1>1 DEF Requests_
    <2>. HIDE DEF n
    <2>. QED  BY <1>2, <1>3, <2>2, <2>3 DEF Covers
  <1>. QED  BY <1>4, <1>5

LEMMA RestCovers ==
  ASSUME NEW u \in Users, NEW p \in Procs, NEW k \in Requests_,
         k.kind = "login", k.user = u, op'[p] = Rest(k), AtMost(LiveListed(u)' \ k.todo)
  PROVE  AtMost(LiveListed(u))' \/ Covers(op[p], u)'
  <1>1. CASE k.todo # {}
    <2>. DEFINE n == [k EXCEPT !.at = "read"]
    <2>1. n.kind = "login" /\ n.user = u /\ n.at = "read" /\ n.todo = k.todo
      BY DEF Requests_
    <2>2. op'[p] = n
      BY <1>1 DEF Rest
    <2>. HIDE DEF n
    <2>. QED  BY <2>1, <2>2 DEF Covers, AtMost
  <1>2. CASE k.todo = {}
    <2>1. LiveListed(u)' \ k.todo = LiveListed(u)'
      BY <1>2
    <2>2. AtMost(LiveListed(u)')
      BY <2>1, Zenon
    <2>. QED  BY <2>2 DEF AtMost
  <1>. QED  BY <1>1, <1>2

LEMMA LookCovers ==
  ASSUME SessionTypeOK, RequestsFit, ListedIsStored,
         NEW u \in Users, LiveListed(u)' \subseteq LiveListed(u),
         NEW p \in Procs, NEW s \in Ids, Look(p, s), Covers(op[p], u)
  PROVE  AtMost(LiveListed(u))' \/ Covers(op[p], u)'
  <1>. DEFINE o == op[p]
              F == IF Live(s) THEN o.found \cup {s} ELSE o.found
              k == [o EXCEPT !.todo = @ \ {s}, !.found = F]
  <1>1. /\ o \in Requests_ /\ o.at = "look" /\ s \in o.todo /\ o.kind = "login" /\ o.user = u
        /\ op' = [op EXCEPT ![p] = Looked(k)]
    BY DEF Look, Goto, Covers, SessionTypeOK
  <1>2. op'[p] = Looked(k)
    BY <1>1 DEF SessionTypeOK
  <1>3. LiveListed(u) \subseteq o.todo \cup o.found
    BY <1>1 DEF Covers
  <1>4. F \subseteq Made /\ IsFiniteSet(F) /\ Cardinality(F) \in Nat
    <2>1. o.todo \cup o.found \subseteq Made
      BY DEF RequestsFit
    <2>2. F \subseteq Made
      BY <1>1, <2>1
    <2>. QED  BY <2>2, FS_Subset, FS_CardinalityType DEF RequestsFit
  <1>5. /\ k \in Requests_ /\ k.kind = "login" /\ k.user = u /\ k.at = "look"
        /\ k.todo = o.todo \ {s} /\ k.found = F
    <2>1. F \in SUBSET Ids
      BY <1>4 DEF Made
    <2>. HIDE DEF o, F
    <2>. QED  BY <1>1, <2>1 DEF Requests_
  <1>6. LiveListed(u)' \subseteq k.todo \cup F
    BY <1>3, <1>5 DEF LiveListed
  <1>7. CASE k.todo # {}
    <2>1. op'[p] = k
      BY <1>2, <1>7 DEF Looked
    <2>. HIDE DEF k
    <2>. QED  BY <1>5, <1>6, <2>1 DEF Covers
  <1>8. CASE k.todo = {} /\ Cardinality(F) <= MaxSessions
    <2>1. AtMost(LiveListed(u)')
      <3>. HIDE DEF F, k
      <3>. QED  BY <1>4, <1>6, <1>8, AtMostFewer DEF AtMost
    <2>. QED  BY <2>1 DEF AtMost
  <1>9. CASE k.todo = {} /\ ~(Cardinality(F) <= MaxSessions)
    <2>. DEFINE n == Cardinality(F) - MaxSessions
                T == Oldest(F, n)
                m == [k EXCEPT !.at = "read", !.found = {}, !.todo = T]
    <2>1. n \in Nat /\ n <= Cardinality(F) /\ Cardinality(F) - n = MaxSessions
      BY <1>4, <1>9, SessionAssumption
    <2>2. Cardinality(F \ T) <= Cardinality(F) - n
      <3>1. F \in SUBSET Ids /\ created \in [Ids -> Nat]
        BY <1>4 DEF Made, SessionTypeOK
      <3>. HIDE DEF F, n
      <3>. QED  BY <1>4, <2>1, <3>1, OldestEnough
    <2>3. AtMost(F \ T) /\ IsFiniteSet(F \ T)
      <3>. HIDE DEF F, n, T
      <3>. QED  BY <1>4, <2>1, <2>2, FS_Difference DEF AtMost
    <2>4. AtMost(LiveListed(u)' \ T)
      <3>1. LiveListed(u)' \ T \subseteq F \ T
        BY <1>6, <1>9
      <3>. HIDE DEF F, T
      <3>. QED  BY <2>3, <3>1, AtMostFewer
    <2>5. op'[p] = m
      <3>1. k.kind = "login" /\ Cardinality(k.found) > MaxSessions /\ k.todo = {} /\ k.found = F
        <4>1. Cardinality(k.found) = Cardinality(F)
          BY <1>5
        <4>. QED  BY <1>4, <1>5, <1>9, <4>1, SessionAssumption
      <3>. HIDE DEF k, F
      <3>. QED  BY <1>2, <3>1 DEF Looked
    <2>6. m.kind = "login" /\ m.user = u /\ m.at = "read" /\ m.todo = T
      <3>. HIDE DEF k, T
      <3>. QED  BY <1>5 DEF Requests_
    <2>. HIDE DEF m, T
    <2>. QED  BY <2>4, <2>5, <2>6 DEF Covers, AtMost
  <1>. QED
    <2>. HIDE DEF k, F
    <2>. QED  BY <1>7, <1>8, <1>9

LEMMA RevokeCovers ==
  ASSUME SessionTypeOK, RequestsFit, ListedIsStored,
         NEW u \in Users, LiveListed(u)' \subseteq LiveListed(u),
         NEW p \in Procs, Covers(op[p], u),
         (\E s \in Ids : RevokeRead(p, s)) \/ RevokeDelete(p) \/ RevokeNotify(p)
  PROVE  AtMost(LiveListed(u))' \/ Covers(op[p], u)'
  <1>. DEFINE o == op[p]
  <1>1. /\ o \in Requests_ /\ o.at \in {"read", "delete", "notify"}
        /\ o.kind = "login" /\ o.user = u
    BY DEF RevokeRead, RevokeDelete, RevokeNotify, Covers, SessionTypeOK
  <1>2. AtMost(LiveListed(u) \ o.todo) /\ IsFiniteSet(LiveListed(u) \ o.todo)
    BY <1>1, ListedFinite, FS_Difference DEF Covers
  <1>3. ASSUME NEW S, LiveListed(u)' \ S \subseteq LiveListed(u) \ o.todo
        PROVE  AtMost(LiveListed(u)' \ S)
    BY <1>2, <1>3, AtMostFewer
  <1>4. ASSUME NEW n \in Requests_, op'[p] = n, n.at \in {"delete", "notify"},
               n.kind = o.kind, n.user = o.user, n.todo = o.todo
        PROVE  Covers(op[p], u)'
    <2>1. AtMost(LiveListed(u)' \ o.todo)
      BY <1>3
    <2>. QED  BY <1>1, <1>4, <2>1 DEF Covers, AtMost
  <1>5. ASSUME NEW s \in Ids, RevokeRead(p, s), Live(s)
        PROVE  Covers(op[p], u)'
    <2>. DEFINE r == session[s]
                n == [o EXCEPT !.at = "delete", !.sid = s, !.read = r]
    <2>1. op' = [op EXCEPT ![p] = n]
      BY <1>5 DEF RevokeRead, Goto
    <2>2. op'[p] = n
      BY <2>1 DEF SessionTypeOK
    <2>3. r \in Nat
      BY DEF SessionTypeOK
    <2>. HIDE DEF r
    <2>4. n \in Requests_ /\ n.at = "delete" /\ n.kind = o.kind /\ n.user = o.user /\ n.todo = o.todo
      <3>. HIDE DEF o
      <3>. QED  BY <1>1, <2>3 DEF Requests_
    <2>. HIDE DEF n
    <2>. QED  BY <1>4, <2>2, <2>4
  <1>6. ASSUME NEW s \in Ids, RevokeRead(p, s), ~Live(s)
        PROVE  AtMost(LiveListed(u))' \/ Covers(op[p], u)'
    <2>. DEFINE k == Past(o, s)
    <2>1. op' = [op EXCEPT ![p] = Rest(k)]
      BY <1>6 DEF RevokeRead, Goto, Past
    <2>2. op'[p] = Rest(k)
      BY <2>1 DEF SessionTypeOK
    <2>3. k \in Requests_ /\ k.kind = "login" /\ k.user = u /\ k.todo = o.todo \ {s}
      BY <1>1, PastFits
    <2>4. LiveListed(u)' \ (o.todo \ {s}) \subseteq LiveListed(u) \ o.todo
      BY <1>6 DEF LiveListed
    <2>5. AtMost(LiveListed(u)' \ k.todo)
      BY <1>3, <2>3, <2>4
    <2>. HIDE DEF k
    <2>. QED  BY <2>2, <2>3, <2>5, RestCovers
  <1>7. ASSUME RevokeDelete(p)
        PROVE  Covers(op[p], u)'
    <2>. DEFINE n == [o EXCEPT !.at = "notify"]
    <2>1. op' = [op EXCEPT ![p] = n]
      BY <1>7 DEF RevokeDelete, Goto
    <2>2. op'[p] = n
      BY <2>1 DEF SessionTypeOK
    <2>3. n \in Requests_ /\ n.at = "notify" /\ n.kind = o.kind /\ n.user = o.user /\ n.todo = o.todo
      <3>. HIDE DEF o
      <3>. QED  BY <1>1 DEF Requests_
    <2>. HIDE DEF n
    <2>. QED  BY <1>4, <2>2, <2>3
  <1>8. ASSUME RevokeNotify(p)
        PROVE  AtMost(LiveListed(u))' \/ Covers(op[p], u)'
    <2>. DEFINE k == PastRead(o, o.sid)
    <2>1. op' = [op EXCEPT ![p] = Rest(k)]
      BY <1>8 DEF RevokeNotify, Goto, PastRead
    <2>2. op'[p] = Rest(k)
      BY <2>1 DEF SessionTypeOK
    <2>3. k \in Requests_ /\ k.kind = "login" /\ k.user = u /\ k.todo = o.todo \ {o.sid}
      BY <1>1, PastFits
    <2>4. o.sid \notin listed[u]
      BY <1>1, <1>8 DEF RevokeNotify, ListedIsStored
    <2>5. LiveListed(u)' \ (o.todo \ {o.sid}) \subseteq LiveListed(u) \ o.todo
      BY <2>4 DEF LiveListed
    <2>6. AtMost(LiveListed(u)' \ k.todo)
      BY <1>3, <2>3, <2>5
    <2>. HIDE DEF k
    <2>. QED  BY <2>2, <2>3, <2>6, RestCovers
  <1>. QED  BY <1>5, <1>6, <1>7, <1>8

\* What a login that is responsible for the cap can do next.
LEMMA CoverActs ==
  ASSUME SessionTypeOK, SessionNext, NEW u \in Users, NEW p \in Procs, Covers(op[p], u)
  PROVE  \/ op'[p] = op[p]
         \/ List(p)
         \/ \E s \in Ids : Look(p, s)
         \/ (\E s \in Ids : RevokeRead(p, s)) \/ RevokeDelete(p) \/ RevokeNotify(p)
         \/ Fail(p)
  <1>1. op[p] # Idle /\ op[p].at \in {"list", "look", "read", "delete", "notify"}
    BY DEF Covers, Idle
  <1>2. ASSUME NEW q \in Procs, NEW o, op' = [op EXCEPT ![q] = o], q # p
        PROVE  op'[p] = op[p]
    BY <1>2 DEF SessionTypeOK
  <1>3. ASSUME NEW q \in Procs, NEW x \in Ids,
               \/ Login(q, x) \/ Logout(q, x) \/ LogoutAll(q, x) \/ ListSessions(q, x)
               \/ Refresh(q, x)
        PROVE  op'[p] = op[p]
    BY <1>1, <1>2, <1>3 DEF Login, Logout, LogoutAll, ListSessions, Ask, Refresh, Begin
  <1>4. ASSUME NEW q \in Procs,
               \/ Store(q) \/ ClearSet(q) \/ Validate(q) \/ Touch(q) \/ Rotate(q) \/ Swap(q)
        PROVE  op'[p] = op[p]
    BY <1>1, <1>2, <1>4 DEF Store, ClearSet, Validate, Touch, Rotate, Swap, Goto
  <1>5. ASSUME NEW q \in Procs, q # p,
               \/ List(q) \/ (\E s \in Ids : Look(q, s)) \/ (\E s \in Ids : RevokeRead(q, s))
               \/ RevokeDelete(q) \/ RevokeNotify(q) \/ Fail(q)
        PROVE  op'[p] = op[p]
    BY <1>2, <1>5 DEF List, Look, RevokeRead, RevokeDelete, RevokeNotify, Fail, Goto
  <1>6. ASSUME NEW x \in Ids, DeferTouch(x) \/ Expire(x) PROVE op'[p] = op[p]
    BY <1>6 DEF DeferTouch, Expire
  <1>7. CASE FlushRead \/ FlushWrite
    BY <1>7 DEF FlushRead, FlushWrite
  <1>. QED  BY <1>3, <1>4, <1>5, <1>6, <1>7 DEF SessionNext

\* A user leaves unchecked with a login that reads the list.
LEMMA CheckedByList ==
  ASSUME SessionNext, NEW u \in unchecked, u \notin unchecked'
  PROVE  \E p \in Procs : List(p) /\ op[p].kind = "login" /\ op[p].user = u
  <1>1. ASSUME NEW q \in Procs, NEW x \in Ids,
               \/ Login(q, x) \/ Logout(q, x) \/ LogoutAll(q, x) \/ ListSessions(q, x)
               \/ Refresh(q, x) \/ Look(q, x) \/ RevokeRead(q, x)
        PROVE  FALSE
    BY <1>1 DEF Login, Logout, LogoutAll, ListSessions, Ask, Refresh, Look, RevokeRead
  <1>2. ASSUME NEW q \in Procs,
               \/ Store(q) \/ ClearSet(q) \/ Validate(q) \/ Touch(q) \/ Rotate(q) \/ Swap(q)
               \/ RevokeDelete(q) \/ RevokeNotify(q) \/ Fail(q)
        PROVE  FALSE
    BY <1>2 DEF Store, ClearSet, Validate, Touch, Rotate, Swap, RevokeDelete, RevokeNotify, Fail
  <1>3. ASSUME NEW x \in Ids, DeferTouch(x) \/ Expire(x) PROVE FALSE
    BY <1>3 DEF DeferTouch, Expire
  <1>4. ~FlushRead /\ ~FlushWrite
    BY DEF FlushRead, FlushWrite
  <1>5. PICK p \in Procs : List(p)
    BY <1>1, <1>2, <1>3, <1>4 DEF SessionNext
  <1>. QED  BY <1>5 DEF List

LEMMA CapStep ==
  ASSUME SessionInv, SessionNext, SessionTypeOK', RequestsFit', ListedIsStored'
  PROVE  SessionCap'
  <1>. USE DEF SessionInv
  <1>1. SUFFICES ASSUME NEW u \in Users, u \notin unchecked'
                 PROVE  AtMost(LiveListed(u))' \/ \E p \in Procs : Covers(op[p], u)'
    BY DEF SessionCap
  <1>2. CASE \E p \in Procs : Store(p) /\ op[p].user = u
    <2>1. PICK p \in Procs : Store(p) /\ op[p].user = u
      BY <1>2
    <2>2. op[p] \in Requests_ /\ op[p].kind = "login"
      BY <2>1 DEF Store, SessionTypeOK, RequestsFit, OpFits
    <2>3. op'[p] = [op[p] EXCEPT !.at = "list"]
      BY <2>1 DEF Store, Goto, SessionTypeOK
    <2>4. op'[p].kind = "login" /\ op'[p].user = u /\ op'[p].at = "list"
      BY <2>1, <2>2, <2>3 DEF Requests_
    <2>. QED  BY <2>4 DEF Covers
  <1>3. CASE \A p \in Procs : Store(p) => op[p].user # u
    <2>1. LiveListed(u)' \subseteq LiveListed(u)
      BY <1>3, LiveShrinks
    <2>2. CASE u \in unchecked
      BY <1>1, <2>2, CheckedByList, ListCovers
    <2>3. CASE AtMost(LiveListed(u))
      <3>1. AtMost(LiveListed(u)')
        BY <2>1, <2>3, ListedFinite, AtMostFewer
      <3>. QED  BY <3>1 DEF AtMost
    <2>4. ASSUME NEW p \in Procs, Covers(op[p], u)
          PROVE  AtMost(LiveListed(u))' \/ Covers(op[p], u)'
      <3>1. op[p].kind = "login" /\ op[p].user = u
        BY <2>4 DEF Covers
      <3>2. CASE op'[p] = op[p]
        BY <2>1, <2>4, <3>2, CoverStays
      <3>3. CASE List(p)
        BY <3>1, <3>3, ListCovers
      <3>4. CASE \E s \in Ids : Look(p, s)
        BY <2>1, <2>4, <3>4, LookCovers
      <3>5. CASE (\E s \in Ids : RevokeRead(p, s)) \/ RevokeDelete(p) \/ RevokeNotify(p)
        BY <2>1, <2>4, <3>5, RevokeCovers
      <3>6. ~Fail(p)
        BY <1>1, <3>1 DEF Fail
      <3>. QED  BY <2>4, <3>2, <3>3, <3>4, <3>5, <3>6, CoverActs
    <2>. QED  BY <2>2, <2>3, <2>4 DEF SessionCap
  <1>. QED  BY <1>2, <1>3

LEMMA SessionInit1 ==
  ASSUME SessionInit
  PROVE  SessionInv
  <1>. USE DEF SessionInit
  <1>1. Made = {} /\ IsFiniteSet(Made)
    BY FS_EmptySet DEF Made
  <1>2. SessionTypeOK
    BY IdleFits DEF SessionTypeOK
  <1>3. RequestsFit
    BY <1>1, IdleFits DEF RequestsFit
  <1>4. StoredOnce
    BY DEF StoredOnce, Untouched, Storing, Idle
  <1>5. ListedIsStored
    BY DEF ListedIsStored, Idle
  <1>6. SessionCap
    <2>1. \A u \in Users : LiveListed(u) = {}
      BY DEF LiveListed
    <2>2. Cardinality({}) <= MaxSessions
      BY FS_EmptySet, SessionAssumption
    <2>3. \A u \in Users : Cardinality(LiveListed(u)) <= MaxSessions
      BY <2>1, <2>2
    <2>. QED  BY <2>3 DEF SessionCap, AtMost
  <1>. QED  BY <1>2, <1>3, <1>4, <1>5, <1>6 DEF SessionInv

LEMMA SessionStep ==
  ASSUME SessionInv, SessionNext
  PROVE  SessionInv'
  <1>1. SessionTypeOK' /\ RequestsFit'
    BY RequestsStep DEF SessionInv
  <1>2. StoredOnce'
    BY StoredStep DEF SessionInv
  <1>3. ListedIsStored'
    BY <1>1, ListedStep DEF SessionInv
  <1>4. SessionCap'
    BY <1>1, <1>3, CapStep
  <1>. QED  BY <1>1, <1>2, <1>3, <1>4 DEF SessionInv

\* Presence defers touches and takes events; sessions are not its own.
LEMMA SessionsUndisturbed ==
  ASSUME SessionInv, UNCHANGED <<here, redis, clock, flushed, unchecked, op>>,
         pending' \subseteq Ids, events' \subseteq Ids
  PROVE  SessionInv'
  <1>. USE DEF SessionInv, redis, clock
  <1>1. SessionTypeOK'
    BY DEF SessionTypeOK
  <1>2. RequestsFit'
    BY Standing
  <1>3. StoredOnce'
    BY DEF StoredOnce, Untouched, Storing
  <1>4. ListedIsStored'
    BY DEF ListedIsStored
  <1>5. SessionCap'
    <2>1. \A u \in Users : LiveListed(u)' \subseteq LiveListed(u)
      BY DEF LiveListed, Live
    <2>2. ASSUME NEW u \in Users, AtMost(LiveListed(u))
          PROVE  AtMost(LiveListed(u)')
      BY <2>1, <2>2, ListedFinite, AtMostFewer
    <2>3. ASSUME NEW u \in Users, NEW p \in Procs, Covers(op[p], u)
          PROVE  Covers(op[p], u)'
      BY <2>1, <2>3, CoverStays
    <2>4. \A u \in Users : AtMost(LiveListed(u)) => AtMost(LiveListed(u))'
      BY <2>2 DEF AtMost
    <2>. QED  BY <2>3, <2>4 DEF SessionCap
  <1>. QED  BY <1>1, <1>2, <1>3, <1>4, <1>5

-----------------------------------------------------------------------------
(* Presence: what each actor is doing.                                     *)

LEMMA Becomes ==
  ASSUME TypeOK, ActFits, NEW x \in Actors, NEW a \in ActRecords, ActFit(x, a), Become(x, a)
  PROVE  /\ act' \in [Actors -> ActRecords] /\ ActFits'
         /\ act'[x] = a /\ \A y \in Actors \ {x} : act'[y] = act[y]
  <1>1. act \in [Actors -> ActRecords]
    BY DEF TypeOK, ActRecords, Ats
  <1>2. /\ act' \in [Actors -> ActRecords] /\ act'[x] = a
        /\ \A y \in Actors \ {x} : act'[y] = act[y]
    BY <1>1 DEF Become
  <1>. QED  BY <1>2 DEF ActFits

LEMMA FreeFits ==
  ASSUME NEW x
  PROVE  Free \in ActRecords /\ ActFit(x, Free) /\ Free.at = "idle" /\ Free.sid = None
  BY DEF Free, ActRecords, Ats, ActFit

LEMMA DoneFits ==
  ASSUME TypeOK, NEW x \in Actors, ActFit(x, act[x]), act[x].at # "idle"
  PROVE  /\ Done(x) \in ActRecords /\ ActFit(x, Done(x))
         /\ x = Evictor => /\ Done(x).sid = act[x].sid /\ Done(x).rest = act[x].rest
                           /\ Done(x).at \in {"drop", "find"}
  <1>1. CASE x # Evictor
    BY <1>1, FreeFits DEF Done
  <1>2. CASE x = Evictor
    <2>. DEFINE a == act[x]
                at == IF a.rest = {} THEN "drop" ELSE "find"
                n == [Free EXCEPT !.sid = a.sid, !.rest = a.rest, !.at = at]
    <2>1. Done(x) = n
      BY <1>2 DEF Done
    <2>2. a.rest \in SUBSET Workspaces /\ a.sid \in Ids /\ at \in {"drop", "find"}
      BY <1>2 DEF TypeOK, ActFit
    <2>3. at = "drop" => a.rest = {}
      OBVIOUS
    <2>. HIDE DEF a, at
    <2>4. n \in ActRecords /\ n.sid = a.sid /\ n.rest = a.rest /\ n.at = at
      BY <2>2 DEF Free, ActRecords, Ats
    <2>. HIDE DEF n
    <2>5. ActFit(x, n)
      <3>1. x \notin Tabs
        BY <1>2, PresenceAssumption
      <3>. QED  BY <1>2, <2>2, <2>3, <2>4, <3>1 DEF ActFit
    <2>. QED  BY <2>1, <2>2, <2>4, <2>5 DEF a
  <1>. QED  BY <1>1, <1>2

LEMMA TabFacts ==
  ASSUME NEW t \in Tabs
  PROVE  /\ t[1] \in Ids /\ t[2] \in Workspaces /\ t = <<t[1], t[2]>>
         /\ t \in Actors /\ t # Evictor /\ Owner[t[1]] \in Users
  BY PresenceAssumption, SessionAssumption DEF Actors

\* What an action of presence does to the sessions, if anything.
PresenceActs ==
    /\ SessionTypeOK' /\ act' \in [Actors -> ActRecords]
    /\ records' \subseteq Tabs /\ offline' \subseteq Tabs
    /\ strays' \subseteq Tabs /\ overtaken' \subseteq records'
    /\ members' \in [Workspaces -> [Users -> SUBSET Ids]]
    /\ online' \in [Workspaces -> SUBSET Users]
    /\ spaces' \in [Ids -> SUBSET Workspaces]

LEMMA ActsTyped ==
  ASSUME PresenceActs
  PROVE  TypeOK'
  BY DEF PresenceActs, TypeOK, ActRecords, Ats

LEMMA StatusStep ==
  ASSUME SessionInv, PresenceInv, NEW t \in Tabs, SetPresence(t) \/ SetOffline(t)
  PROVE  SessionInv' /\ PresenceInv'
  <1>. USE DEF PresenceInv
  <1>1. PICK at \in {"save", "remove"} : Request(t, "set", at) \/ Request(t, "offline", at)
    BY DEF SetPresence, SetOffline
  <1>. DEFINE a == [Free EXCEPT !.at = at, !.user = Owner[t[1]], !.sid = t[1], !.ws = t[2]]
  <1>2. /\ Become(t, a) /\ pending' \in {pending, pending \cup {t[1]}}
        /\ UNCHANGED <<here, redis, clock, flushed, events, unchecked, op, stored, history>>
        /\ offline' \subseteq Tabs
    BY <1>1 DEF Request, SetPresence, SetOffline, TypeOK
  <1>3. SessionInv'
    <2>1. pending' \subseteq Ids /\ events' \subseteq Ids
      BY <1>2, TabFacts DEF SessionInv, SessionTypeOK
    <2>. QED  BY <1>2, <2>1, SessionsUndisturbed
  <1>4. a \in ActRecords /\ a.at = at /\ a.user = Owner[t[1]] /\ a.sid = t[1] /\ a.ws = t[2]
    BY TabFacts DEF Free, ActRecords, Ats
  <1>5. ActFit(t, a)
    <2>. HIDE DEF a
    <2>. QED  BY <1>4, TabFacts DEF ActFit
  <1>6. /\ act' \in [Actors -> ActRecords] /\ ActFits' /\ act'[Evictor] = act[Evictor]
    <2>. HIDE DEF a
    <2>1. Evictor \in Actors
      BY DEF Actors
    <2>. QED  BY <1>2, <1>4, <1>5, <2>1, TabFacts, Becomes
  <1>7. TypeOK'
    <2>1. PresenceActs
      BY <1>2, <1>3, <1>6 DEF PresenceActs, history, TypeOK, stored, SessionInv
    <2>. QED  BY <2>1, ActsTyped
  <1>8. EvictionCovers'
    BY <1>2, <1>6 DEF EvictionCovers, history, stored
  <1>. QED  BY <1>3, <1>6, <1>7, <1>8

LEMMA SessionsSame ==
  ASSUME SessionInv, UNCHANGED sessionVars
  PROVE  SessionInv'
  <1>1. pending' \subseteq Ids /\ events' \subseteq Ids
    BY DEF SessionInv, SessionTypeOK, sessionVars, touches
  <1>. QED  BY <1>1, SessionsUndisturbed DEF sessionVars, touches

LEMMA SaveStep ==
  ASSUME SessionInv, PresenceInv, NEW t \in Tabs, Save(t)
  PROVE  SessionInv' /\ PresenceInv'
  <1>. USE DEF PresenceInv
  <1>. DEFINE a == act[t]
  <1>1. a.at = "save" /\ a.sid = t[1] /\ a.ws = t[2] /\ a.user = Owner[t[1]]
    BY TabFacts DEF Save, ActFits, ActFit
  <1>2. SessionInv'
    BY SessionsSame DEF Save
  <1>3. /\ act' \in [Actors -> ActRecords] /\ ActFits' /\ act'[Evictor] = act[Evictor]
    <2>1. Become(t, Free) /\ Evictor \in Actors
      BY DEF Save, Actors
    <2>. QED  BY <2>1, TabFacts, FreeFits, Becomes
  <1>4. /\ records' = records \cup {t}
        /\ members' = [members EXCEPT ![t[2]][Owner[t[1]]] = @ \cup {t[1]}]
        /\ online' = [online EXCEPT ![t[2]] = @ \cup {Owner[t[1]]}]
        /\ spaces' = [spaces EXCEPT ![t[1]] = @ \cup {t[2]}]
        /\ strays' = IF act[Evictor].sid = t[1] THEN strays \cup {t} ELSE strays
        /\ overtaken' \subseteq overtaken \cup {t}
        /\ offline' = offline
    BY <1>1 DEF Save, Overtaking
  <1>5. TypeOK'
    <2>1. PresenceActs
      BY <1>2, <1>3, <1>4, TabFacts DEF PresenceActs, TypeOK, SessionInv
    <2>. QED  BY <2>1, ActsTyped
  <1>6. EvictionCovers'
    <2>1. spaces' \in [Ids -> SUBSET Workspaces] /\ spaces \in [Ids -> SUBSET Workspaces]
      BY <1>5 DEF TypeOK
    <2>2. ASSUME NEW x \in records', x \notin strays'
          PROVE  /\ x[2] \in spaces'[x[1]]
                 /\ act'[Evictor].sid = x[1] =>
                      \/ x[2] \in act'[Evictor].rest
                      \/ (act'[Evictor].at \in {"again", "remove"} /\ act'[Evictor].ws = x[2])
      <3>1. CASE x = t
        BY <1>3, <1>4, <2>1, <2>2, <3>1, TabFacts
      <3>2. CASE x # t
        <4>1. x \in records /\ x \notin strays /\ x \in Tabs
          BY <1>4, <2>2, <3>2 DEF TypeOK
        <4>2. x[1] \in Ids
          BY <4>1, TabFacts
        <4>. QED  BY <1>3, <1>4, <2>1, <4>1, <4>2 DEF EvictionCovers
      <3>. QED  BY <3>1, <3>2
    <2>. QED  BY <2>2 DEF EvictionCovers
  <1>. QED  BY <1>2, <1>3, <1>5, <1>6

LEMMA RemoveStep ==
  ASSUME SessionInv, PresenceInv, NEW x \in Actors, Remove(x)
  PROVE  SessionInv' /\ PresenceInv'
  <1>. USE DEF PresenceInv
  <1>. DEFINE a == act[x]
              n == [a EXCEPT !.at = "list"]
  <1>1. /\ a \in ActRecords /\ ActFit(x, a) /\ a.at = "remove"
        /\ a.sid \in Ids /\ a.ws \in Workspaces
    BY DEF Remove, ActFits, ActFit, TypeOK, ActRecords, Ats
  <1>2. SessionInv'
    BY SessionsSame DEF Remove
  <1>3. PICK m : /\ Become(x, m) /\ m \in ActRecords /\ ActFit(x, m)
                 /\ x = Evictor => /\ m.sid = a.sid /\ m.rest = a.rest
                                   /\ m.at \notin {"again", "remove"}
    <2>1. CASE a.user = None
      <3>1. Become(x, Done(x))
        BY <2>1 DEF Remove
      <3>2. /\ Done(x) \in ActRecords /\ ActFit(x, Done(x))
            /\ x = Evictor => /\ Done(x).sid = act[x].sid /\ Done(x).rest = act[x].rest
                              /\ Done(x).at \in {"drop", "find"}
        BY <1>1, DoneFits
      <3>. QED  BY <3>1, <3>2
    <2>2. CASE a.user # None
      <3>1. Become(x, n)
        BY <2>2 DEF Remove
      <3>2. a.user \in Users
        BY <1>1, <2>2 DEF ActRecords
      <3>3. /\ n \in ActRecords /\ n.at = "list" /\ n.sid = a.sid /\ n.rest = a.rest
            /\ n.user = a.user /\ n.ws = a.ws
        <4>. HIDE DEF a
        <4>. QED  BY <1>1 DEF ActRecords, Ats
      <3>. HIDE DEF n
      <3>4. ActFit(x, n)
        BY <1>1, <3>2, <3>3 DEF ActFit
      <3>. QED  BY <3>1, <3>3, <3>4
    <2>. QED  BY <2>1, <2>2
  <1>4. /\ act' \in [Actors -> ActRecords] /\ ActFits' /\ act'[x] = m
        /\ x # Evictor => act'[Evictor] = act[Evictor]
    <2>1. Evictor \in Actors
      BY DEF Actors
    <2>. QED  BY <1>3, <2>1, Becomes
  <1>5. /\ records' = records \ {<<a.sid, a.ws>>} /\ strays' = strays \ {<<a.sid, a.ws>>}
        /\ spaces' = [spaces EXCEPT ![a.sid] = @ \ {a.ws}]
        /\ members' = IF a.user = None THEN members
                      ELSE [members EXCEPT ![a.ws][a.user] = @ \ {a.sid}]
        /\ overtaken' = overtaken \ {<<a.sid, a.ws>>}
        /\ UNCHANGED <<online, offline>>
    BY DEF Remove
  <1>6. TypeOK'
    <2>1. members' \in [Workspaces -> [Users -> SUBSET Ids]]
      <3>1. a.user = None \/ a.user \in Users
        BY <1>1 DEF ActRecords
      <3>. HIDE DEF a
      <3>. QED  BY <1>1, <1>5, <3>1 DEF TypeOK
    <2>2. PresenceActs
      BY <1>1, <1>2, <1>4, <1>5, <2>1 DEF PresenceActs, TypeOK, SessionInv
    <2>. QED  BY <2>2, ActsTyped
  <1>7. EvictionCovers'
    <2>1. ASSUME NEW t \in records', t \notin strays'
          PROVE  /\ t[2] \in spaces'[t[1]]
                 /\ act'[Evictor].sid = t[1] =>
                      \/ t[2] \in act'[Evictor].rest
                      \/ (act'[Evictor].at \in {"again", "remove"} /\ act'[Evictor].ws = t[2])
      <3>1. /\ t \in records /\ t \notin strays /\ t # <<a.sid, a.ws>>
            /\ t[1] \in Ids /\ t = <<t[1], t[2]>>
        BY <1>5, <2>1, TabFacts DEF TypeOK
      <3>2. /\ t[2] \in spaces[t[1]]
            /\ act[Evictor].sid = t[1] =>
                 \/ t[2] \in act[Evictor].rest
                 \/ (act[Evictor].at \in {"again", "remove"} /\ act[Evictor].ws = t[2])
        BY <3>1 DEF EvictionCovers
      <3>3. t[1] = a.sid => t[2] # a.ws
        BY <3>1
      <3>4. t[2] \in spaces'[t[1]]
        BY <1>5, <3>1, <3>2, <3>3 DEF TypeOK
      <3>5. CASE x # Evictor
        BY <1>4, <3>2, <3>4, <3>5
      <3>6. CASE x = Evictor
        BY <1>3, <1>4, <3>2, <3>3, <3>4, <3>6
      <3>. QED  BY <3>5, <3>6
    <2>. QED  BY <2>1 DEF EvictionCovers
  <1>. QED  BY <1>2, <1>4, <1>6, <1>7

LEMMA EvictStep ==
  ASSUME SessionInv, PresenceInv, NEW s \in Ids, Evict(s)
  PROVE  SessionInv' /\ PresenceInv'
  <1>. USE DEF PresenceInv
  <1>. DEFINE at == IF spaces[s] = {} THEN "drop" ELSE "find"
              a == [Free EXCEPT !.sid = s, !.rest = spaces[s], !.at = at]
  <1>1. /\ Become(Evictor, a) /\ events' = events \ {s}
        /\ UNCHANGED <<here, redis, clock, touches, unchecked, op, stored, offline, history>>
    BY DEF Evict
  <1>2. SessionInv'
    <2>1. pending' \subseteq Ids /\ events' \subseteq Ids
      BY <1>1 DEF SessionInv, SessionTypeOK, touches
    <2>. QED  BY <1>1, <2>1, SessionsUndisturbed DEF touches
  <1>3. spaces[s] \in SUBSET Workspaces /\ at \in {"drop", "find"} /\ (at = "drop" => spaces[s] = {})
    BY DEF TypeOK
  <1>4. a \in ActRecords /\ a.sid = s /\ a.rest = spaces[s] /\ a.at = at
    <2>. HIDE DEF at
    <2>. QED  BY <1>3 DEF Free, ActRecords, Ats
  <1>5. ActFit(Evictor, a)
    <2>1. Evictor \notin Tabs
      BY PresenceAssumption
    <2>. HIDE DEF a, at
    <2>. QED  BY <1>3, <1>4, <2>1 DEF ActFit
  <1>6. act' \in [Actors -> ActRecords] /\ ActFits' /\ act'[Evictor] = a
    <2>. HIDE DEF a
    <2>1. Evictor \in Actors
      BY DEF Actors
    <2>. QED  BY <1>1, <1>4, <1>5, <2>1, Becomes
  <1>7. TypeOK'
    <2>1. PresenceActs
      BY <1>1, <1>2, <1>6 DEF PresenceActs, history, TypeOK, stored, SessionInv
    <2>. QED  BY <2>1, ActsTyped
  <1>8. EvictionCovers'
    <2>. HIDE DEF a, at
    <2>. QED  BY <1>1, <1>4, <1>6 DEF EvictionCovers, history, stored
  <1>. QED  BY <1>2, <1>6, <1>7, <1>8

\* An actor that reads keeps to its session and to what is left to evict.
LEMMA ReaderStep ==
  ASSUME SessionInv, PresenceInv, NEW x \in Actors, NEW m \in ActRecords, ActFit(x, m),
         Become(x, m), UNCHANGED <<sessionVars, records, spaces, offline, history>>,
         members' \in [Workspaces -> [Users -> SUBSET Ids]],
         online' \in [Workspaces -> SUBSET Users],
         x = Evictor => /\ m.sid = act[x].sid /\ m.rest = act[x].rest
                        /\ act[x].at \notin {"again", "remove"}
  PROVE  SessionInv' /\ PresenceInv'
  <1>. USE DEF PresenceInv
  <1>1. SessionInv'
    BY SessionsSame
  <1>2. /\ act' \in [Actors -> ActRecords] /\ ActFits' /\ act'[x] = m
        /\ x # Evictor => act'[Evictor] = act[Evictor]
    <2>1. Evictor \in Actors
      BY DEF Actors
    <2>. QED  BY <2>1, Becomes
  <1>3. TypeOK'
    <2>1. PresenceActs
      BY <1>1, <1>2 DEF PresenceActs, history, TypeOK, SessionInv
    <2>. QED  BY <2>1, ActsTyped
  <1>4. EvictionCovers'
    <2>1. CASE x # Evictor
      BY <1>2, <2>1 DEF EvictionCovers, history
    <2>2. CASE x = Evictor
      BY <1>2, <2>2 DEF EvictionCovers, history
    <2>. QED  BY <2>1, <2>2
  <1>. QED  BY <1>1, <1>2, <1>3, <1>4

LEMMA AggregateStep ==
  ASSUME SessionInv, PresenceInv, NEW x \in Actors,
         ReadIndex(x) \/ (\E s \in Ids : ReadRecord(x, s)) \/ Forget(x) \/ Settle(x)
  PROVE  SessionInv' /\ PresenceInv'
  <1>. USE DEF PresenceInv
  <1>. DEFINE a == act[x]
  <1>1. /\ a \in ActRecords /\ ActFit(x, a) /\ a.at \in {"list", "get", "forget", "settle"}
        /\ a.ws \in Workspaces /\ a.user \in Users
    <2>1. a \in ActRecords /\ ActFit(x, a)
      BY DEF TypeOK, ActFits, ActRecords, Ats
    <2>2. a.at \in {"list", "get", "forget", "settle"}
      BY DEF ReadIndex, ReadRecord, Forget, Settle
    <2>. QED  BY <2>1, <2>2 DEF ActFit
  <1>2. ASSUME NEW m \in ActRecords, m.user = a.user, m.sid = a.sid, m.ws = a.ws, m.rest = a.rest,
               m.at \in {"get", "forget", "settle"}, m.at = "forget" => m.gone \in Ids
        PROVE  ActFit(x, m)
    BY <1>1, <1>2 DEF ActFit
  <1>3. CASE ReadIndex(x)
    <2>. DEFINE ids == members[a.ws][a.user]
                at == IF ids = {} THEN "settle" ELSE "get"
                m == [a EXCEPT !.ids = ids, !.at = at]
    <2>1. Become(x, m) /\ UNCHANGED <<sessionVars, stored, offline, history>>
      BY <1>3 DEF ReadIndex
    <2>2. ids \in SUBSET Ids /\ at \in {"settle", "get"}
      BY <1>1 DEF TypeOK
    <2>3. /\ m \in ActRecords /\ m.user = a.user /\ m.sid = a.sid /\ m.ws = a.ws
          /\ m.rest = a.rest /\ m.at = at
      <3>. HIDE DEF a, ids, at
      <3>. QED  BY <1>1, <2>2 DEF ActRecords, Ats
    <2>. HIDE DEF m, at
    <2>4. ActFit(x, m)
      BY <1>2, <2>2, <2>3
    <2>. QED  BY <1>1, <2>1, <2>3, <2>4, ReaderStep DEF stored, TypeOK
  <1>4. ASSUME NEW s \in Ids, ReadRecord(x, s)
        PROVE  SessionInv' /\ PresenceInv'
    <2>. DEFINE rest == a.ids \ {s}
                at == IF a.ids = {s} THEN "settle" ELSE "get"
                m == [a EXCEPT !.ids = rest, !.found = TRUE, !.at = at]
                n == [a EXCEPT !.at = "forget", !.gone = s]
    <2>1. /\ Become(x, m) \/ Become(x, n)
          /\ UNCHANGED <<sessionVars, stored, offline, history>>
      BY <1>4 DEF ReadRecord
    <2>2. rest \in SUBSET Ids /\ at \in {"settle", "get"}
      BY <1>1 DEF ActRecords
    <2>3. /\ m \in ActRecords /\ m.user = a.user /\ m.sid = a.sid /\ m.ws = a.ws
          /\ m.rest = a.rest /\ m.at = at
      <3>. HIDE DEF a, rest, at
      <3>. QED  BY <1>1, <2>2 DEF ActRecords, Ats
    <2>4. /\ n \in ActRecords /\ n.user = a.user /\ n.sid = a.sid /\ n.ws = a.ws
          /\ n.rest = a.rest /\ n.at = "forget" /\ n.gone = s
      <3>. HIDE DEF a
      <3>. QED  BY <1>1 DEF ActRecords, Ats
    <2>. HIDE DEF m, n, at
    <2>5. ActFit(x, m) /\ ActFit(x, n)
      BY <1>2, <2>2, <2>3, <2>4
    <2>. QED  BY <1>1, <2>1, <2>3, <2>4, <2>5, ReaderStep DEF stored, TypeOK
  <1>5. CASE Forget(x)
    <2>. DEFINE rest == a.ids \ {a.gone}
                at == IF a.ids = {a.gone} THEN "settle" ELSE "get"
                m == [a EXCEPT !.ids = rest, !.gone = None, !.at = at]
    <2>1. /\ Become(x, m) /\ UNCHANGED <<sessionVars, records, online, spaces, offline, history>>
          /\ members' = [members EXCEPT ![a.ws][a.user] = @ \ {a.gone}]
      BY <1>5 DEF Forget
    <2>2. rest \in SUBSET Ids /\ at \in {"settle", "get"}
      BY <1>1 DEF ActRecords
    <2>3. /\ m \in ActRecords /\ m.user = a.user /\ m.sid = a.sid /\ m.ws = a.ws
          /\ m.rest = a.rest /\ m.at = at
      <3>. HIDE DEF a, rest, at
      <3>. QED  BY <1>1, <2>2 DEF ActRecords, Ats
    <2>4. members' \in [Workspaces -> [Users -> SUBSET Ids]]
      <3>. HIDE DEF a, m
      <3>. QED  BY <1>1, <2>1 DEF TypeOK
    <2>. HIDE DEF m, at
    <2>5. ActFit(x, m)
      BY <1>2, <2>2, <2>3
    <2>. QED  BY <1>1, <2>1, <2>3, <2>4, <2>5, ReaderStep DEF TypeOK
  <1>6. CASE Settle(x)
    <2>1. /\ Become(x, Done(x)) /\ UNCHANGED <<sessionVars, records, members, spaces, offline, history>>
          /\ online' = [online EXCEPT ![a.ws] = IF a.found THEN @ \cup {a.user} ELSE @ \ {a.user}]
      BY <1>6 DEF Settle
    <2>2. /\ Done(x) \in ActRecords /\ ActFit(x, Done(x))
          /\ x = Evictor => Done(x).sid = act[x].sid /\ Done(x).rest = act[x].rest
      BY <1>1, DoneFits
    <2>3. online' \in [Workspaces -> SUBSET Users]
      <3>. HIDE DEF a
      <3>. QED  BY <1>1, <2>1 DEF TypeOK
    <2>. QED  BY <1>1, <2>1, <2>2, <2>3, ReaderStep DEF TypeOK
  <1>. QED  BY <1>3, <1>4, <1>5, <1>6

LEMMA GetStep ==
  ASSUME SessionInv, PresenceInv, NEW x \in Viewers, NEW u \in Users, NEW w \in Workspaces,
         GetPresence(x, u, w)
  PROVE  SessionInv' /\ PresenceInv'
  <1>. DEFINE m == [Free EXCEPT !.at = "list", !.user = u, !.ws = w]
  <1>1. m \in ActRecords /\ m.at = "list" /\ m.user = u /\ m.ws = w
    BY DEF Free, ActRecords, Ats
  <1>2. x \in Actors /\ x # Evictor /\ x \notin Tabs
    BY PresenceAssumption DEF Actors
  <1>3. Become(x, m) /\ UNCHANGED <<sessionVars, stored, offline, history>>
    BY DEF GetPresence
  <1>. HIDE DEF m
  <1>4. ActFit(x, m)
    BY <1>1, <1>2 DEF ActFit
  <1>. QED  BY <1>1, <1>2, <1>3, <1>4, ReaderStep DEF stored, TypeOK, PresenceInv

LEMMA FindStep ==
  ASSUME SessionInv, PresenceInv, NEW w \in Workspaces, Find(w)
  PROVE  SessionInv' /\ PresenceInv'
  <1>. USE DEF PresenceInv
  <1>. DEFINE a == act[Evictor]
              left == a.rest \ {w}
              at == IF a.at = "find" THEN "again" ELSE "remove"
              m == [a EXCEPT !.at = "remove", !.ws = w, !.rest = left, !.user = Owner[a.sid]]
              n == [a EXCEPT !.at = at, !.ws = w, !.rest = left]
  <1>1. Evictor \in Actors /\ Evictor \notin Tabs
    BY PresenceAssumption DEF Actors
  <1>2. /\ a \in ActRecords /\ ActFit(Evictor, a) /\ a.at \in {"find", "again"} /\ a.sid \in Ids
        /\ a.at = "again" => w = a.ws
    BY <1>1 DEF Find, TypeOK, ActFits, ActFit, ActRecords, Ats
  <1>3. /\ <<a.sid, w>> \in records => Become(Evictor, m)
        /\ <<a.sid, w>> \notin records => Become(Evictor, n)
        /\ UNCHANGED <<sessionVars, stored, offline, history>>
    BY DEF Find
  <1>4. left \in SUBSET Workspaces /\ at \in {"again", "remove"} /\ Owner[a.sid] \in Users
    BY <1>2, SessionAssumption DEF ActRecords
  <1>5. /\ m \in ActRecords /\ m.at = "remove" /\ m.ws = w /\ m.sid = a.sid /\ m.rest = left
    <2>. DEFINE u == Owner[a.sid]
    <2>. HIDE DEF a, left, u
    <2>. QED  BY <1>2, <1>4 DEF ActRecords, Ats, u
  <1>6. /\ n \in ActRecords /\ n.at = at /\ n.ws = w /\ n.sid = a.sid /\ n.rest = left
    <2>. HIDE DEF a, left, at
    <2>. QED  BY <1>2, <1>4 DEF ActRecords, Ats
  <1>7. ActFit(Evictor, m) /\ ActFit(Evictor, n)
    <2>. HIDE DEF a, m, n, at, left
    <2>. QED  BY <1>1, <1>2, <1>4, <1>5, <1>6 DEF ActFit
  <1>8. PICK k \in {m, n} :
           /\ Become(Evictor, k)
           /\ <<a.sid, w>> \in records => k.at = "remove"
           /\ k.at \in {"again", "remove"} /\ k.ws = w /\ k.sid = a.sid /\ k.rest = left
    <2>. HIDE DEF a, m, n, at, left
    <2>. QED  BY <1>3, <1>4, <1>5, <1>6
  <1>9. act' \in [Actors -> ActRecords] /\ ActFits' /\ act'[Evictor] = k
    <2>. HIDE DEF m, n
    <2>. QED  BY <1>1, <1>5, <1>6, <1>7, <1>8, Becomes
  <1>10. SessionInv'
    BY <1>3, SessionsSame
  <1>11. TypeOK'
    <2>1. PresenceActs
      BY <1>3, <1>9, <1>10 DEF PresenceActs, history, TypeOK, SessionInv, stored
    <2>. QED  BY <2>1, ActsTyped
  <1>12. EvictionCovers'
    <2>. HIDE DEF m, n, at
    <2>. QED  BY <1>2, <1>3, <1>8, <1>9 DEF EvictionCovers, history, stored
  <1>. QED  BY <1>9, <1>10, <1>11, <1>12

LEMMA DropStep ==
  ASSUME SessionInv, PresenceInv, Drop
  PROVE  SessionInv' /\ PresenceInv'
  <1>. USE DEF PresenceInv
  <1>1. Evictor \in Actors /\ act[Evictor].at = "drop" /\ act[Evictor].rest = {} /\ act[Evictor].sid \in Ids
    <2>1. Evictor \in Actors /\ act[Evictor].at = "drop"
      BY DEF Drop, Actors
    <2>. QED  BY <2>1 DEF ActFits, ActFit
  <1>2. SessionInv'
    BY SessionsSame DEF Drop
  <1>3. act' \in [Actors -> ActRecords] /\ ActFits' /\ act'[Evictor] = Free
    BY <1>1, FreeFits, Becomes DEF Drop
  <1>4. TypeOK'
    <2>1. PresenceActs
      BY <1>1, <1>2, <1>3 DEF PresenceActs, history, TypeOK, SessionInv, Drop
    <2>. QED  BY <2>1, ActsTyped
  <1>5. EvictionCovers'
    <2>1. ASSUME NEW t \in records, t \notin strays
          PROVE  t[2] \in spaces'[t[1]] /\ act'[Evictor].sid # t[1]
      <3>1. t[1] \in Ids
        BY TabFacts DEF TypeOK
      <3>2. t[1] # act[Evictor].sid
        BY <1>1, <2>1 DEF EvictionCovers, history
      <3>3. t[2] \in spaces'[t[1]]
        BY <2>1, <3>1, <3>2 DEF EvictionCovers, history, Drop, TypeOK
      <3>4. act'[Evictor].sid = None
        BY <1>3, FreeFits
      <3>. QED  BY <3>1, <3>3, <3>4, SessionAssumption
    <2>. QED  BY <2>1 DEF EvictionCovers, history, Drop
  <1>. QED  BY <1>2, <1>3, <1>4, <1>5

LEMMA LapseStep ==
  ASSUME SessionInv, PresenceInv,
         \/ \E t \in Tabs : RecordLapse(t)
         \/ \E w \in Workspaces, u \in Users : MembersLapse(w, u)
         \/ \E w \in Workspaces : OnlineLapse(w)
         \/ \E s \in Ids : SpacesLapse(s)
  PROVE  SessionInv' /\ PresenceInv'
  <1>. USE DEF PresenceInv
  <1>1. UNCHANGED <<sessionVars, act, offline>>
    BY DEF RecordLapse, MembersLapse, OnlineLapse, SpacesLapse
  <1>2. SessionInv'
    BY <1>1, SessionsSame
  <1>3. ActFits' /\ act' \in [Actors -> ActRecords]
    BY <1>1 DEF ActFits, TypeOK, ActRecords, Ats
  <1>4. CASE \E t \in Tabs : RecordLapse(t)
    <2>1. PresenceActs
      BY <1>1, <1>2, <1>3, <1>4 DEF PresenceActs, history, TypeOK, SessionInv, RecordLapse
    <2>2. EvictionCovers'
      BY <1>1, <1>4 DEF EvictionCovers, history, RecordLapse
    <2>. QED  BY <1>2, <1>3, <2>1, <2>2, ActsTyped
  <1>5. CASE \E w \in Workspaces, u \in Users : MembersLapse(w, u)
    <2>1. PresenceActs
      BY <1>1, <1>2, <1>3, <1>5 DEF PresenceActs, history, TypeOK, SessionInv, MembersLapse
    <2>2. EvictionCovers'
      BY <1>1, <1>5 DEF EvictionCovers, history, MembersLapse
    <2>. QED  BY <1>2, <1>3, <2>1, <2>2, ActsTyped
  <1>6. CASE \E w \in Workspaces : OnlineLapse(w)
    <2>1. PresenceActs
      BY <1>1, <1>2, <1>3, <1>6 DEF PresenceActs, history, TypeOK, SessionInv, OnlineLapse
    <2>2. EvictionCovers'
      BY <1>1, <1>6 DEF EvictionCovers, history, OnlineLapse
    <2>. QED  BY <1>2, <1>3, <2>1, <2>2, ActsTyped
  <1>7. CASE \E s \in Ids : SpacesLapse(s)
    <2>1. PresenceActs
      BY <1>1, <1>2, <1>3, <1>7 DEF PresenceActs, history, TypeOK, SessionInv, SpacesLapse
    <2>2. EvictionCovers'
      BY <1>1, <1>7 DEF EvictionCovers, history, SpacesLapse, TypeOK
    <2>. QED  BY <1>2, <1>3, <2>1, <2>2, ActsTyped
  <1>. QED  BY <1>4, <1>5, <1>6, <1>7

-----------------------------------------------------------------------------

LEMMA InvInit ==
  ASSUME Init
  PROVE  Inv
  <1>1. SessionInv
    BY SessionInit1 DEF Init
  <1>2. \A x \in Actors : act[x] = Free /\ ActFit(x, act[x])
    BY FreeFits DEF Init
  <1>3. TypeOK
    BY <1>1, FreeFits DEF Init, TypeOK, SessionInv, ActRecords, Ats
  <1>4. EvictionCovers
    BY DEF Init, EvictionCovers
  <1>. QED  BY <1>1, <1>2, <1>3, <1>4 DEF Inv, PresenceInv, ActFits

LEMMA InvStep ==
  ASSUME Inv, [Next]_vars
  PROVE  Inv'
  <1>. USE DEF Inv
  <1>1. CASE SessionNext /\ UNCHANGED presenceVars
    <2>1. SessionInv'
      BY <1>1, SessionStep
    <2>2. PresenceInv'
      BY <1>1, <2>1 DEF PresenceInv, TypeOK, SessionInv, ActFits, EvictionCovers, presenceVars, history, stored
    <2>. QED  BY <2>1, <2>2
  <1>2. CASE UNCHANGED vars
    <2>1. SessionInv'
      BY <1>2, SessionsSame DEF vars
    <2>2. PresenceInv'
      BY <1>2, <2>1 DEF PresenceInv, TypeOK, SessionInv, ActFits, EvictionCovers, vars, presenceVars, history, stored
    <2>. QED  BY <2>1, <2>2
  <1>3. CASE \E x \in Actors : Remove(x) \/ ReadIndex(x) \/ (\E s \in Ids : ReadRecord(x, s))
                                 \/ Forget(x) \/ Settle(x)
    BY <1>3, RemoveStep, AggregateStep
  <1>. QED
    BY <1>1, <1>2, <1>3, StatusStep, SaveStep, EvictStep, FindStep, DropStep, GetStep, LapseStep
    DEF Next

-----------------------------------------------------------------------------
(* Shown: a client that was not overtaken is in the index and in the       *)
(* online set, and no aggregation of its user will take it out of either.  *)

Sees(a, t) ==
    a.user = Owner[t[1]] /\ a.ws = t[2] =>
        /\ a.at \in {"get", "forget"} => a.found \/ t[1] \in a.ids
        /\ a.at = "forget" => a.gone # t[1]
        /\ a.at = "settle" => a.found

ShownKept ==
    \A t \in records \ overtaken : Shown(t) /\ \A x \in Actors : Sees(act[x], t)

LEMMA Reading ==
  ASSUME TypeOK, ShownKept, NEW x \in Actors, NEW m, Become(x, m),
         records' \ overtaken' \subseteq records \ overtaken,
         \A t \in records' \ overtaken' : Shown(t)' /\ Sees(m, t)
  PROVE  ShownKept'
  <1>1. /\ act'[x] = m /\ \A y \in Actors \ {x} : act'[y] = act[y]
    BY DEF TypeOK, Become
  <1>2. ASSUME NEW t \in records' \ overtaken', NEW y \in Actors
        PROVE  Sees(act'[y], t)
    BY <1>1, <1>2 DEF ShownKept
  <1>. QED  BY <1>2 DEF ShownKept, Sees

\* What an actor does before it reads the index, or after it has settled.
LEMMA NotReading ==
  ASSUME NEW m, m.at \notin {"get", "forget", "settle"}, NEW t
  PROVE  Sees(m, t)
  BY DEF Sees

LEMMA ShownByStatus ==
  ASSUME PresenceInv, ShownKept,
         \/ \E t \in Tabs : SetPresence(t) \/ SetOffline(t)
         \/ \E s \in Ids : Evict(s)
         \/ \E w \in Workspaces : Find(w)
         \/ Drop
         \/ \E x \in Viewers, u \in Users, w \in Workspaces : GetPresence(x, u, w)
  PROVE  ShownKept'
  <1>1. UNCHANGED <<records, members, online, history>>
    BY DEF SetPresence, SetOffline, Request, Evict, Find, Drop, GetPresence, stored
  <1>2. ASSUME NEW x \in Actors, NEW m, Become(x, m), m.at \notin {"get", "forget", "settle"}
        PROVE  ShownKept'
    <2>1. \A t \in records' \ overtaken' : Shown(t)' /\ Sees(m, t)
      BY <1>1, <1>2, NotReading DEF ShownKept, Shown, history
    <2>. QED  BY <1>1, <1>2, <2>1, Reading DEF PresenceInv, history
  <1>3. ASSUME NEW t \in Tabs, SetPresence(t) \/ SetOffline(t)
        PROVE  ShownKept'
    <2>1. PICK at \in {"save", "remove"} :
             Become(t, [Free EXCEPT !.at = at, !.user = Owner[t[1]], !.sid = t[1], !.ws = t[2]])
      BY <1>3 DEF SetPresence, SetOffline, Request
    <2>. DEFINE m == [Free EXCEPT !.at = at, !.user = Owner[t[1]], !.sid = t[1], !.ws = t[2]]
    <2>2. m.at = at
      BY DEF Free
    <2>. HIDE DEF m
    <2>. QED  BY <1>2, <2>1, <2>2, TabFacts DEF m
  <1>4. Evictor \in Actors
    BY DEF Actors
  <1>5. ASSUME NEW s \in Ids, Evict(s)
        PROVE  ShownKept'
    <2>. DEFINE at == IF spaces[s] = {} THEN "drop" ELSE "find"
                m == [Free EXCEPT !.sid = s, !.rest = spaces[s], !.at = at]
    <2>1. Become(Evictor, m)
      BY <1>5 DEF Evict
    <2>2. m.at = at /\ at \in {"drop", "find"}
      BY DEF Free
    <2>. HIDE DEF m
    <2>. QED  BY <1>2, <1>4, <2>1, <2>2
  <1>6. ASSUME NEW w \in Workspaces, Find(w)
        PROVE  ShownKept'
    <2>. DEFINE a == act[Evictor]
                at == IF a.at = "find" THEN "again" ELSE "remove"
                m == [a EXCEPT !.at = "remove", !.ws = w, !.rest = @ \ {w}, !.user = Owner[a.sid]]
                n == [a EXCEPT !.at = at, !.ws = w, !.rest = @ \ {w}]
    <2>1. Become(Evictor, m) \/ Become(Evictor, n)
      BY <1>6 DEF Find
    <2>2. a \in ActRecords
      BY <1>4 DEF PresenceInv, TypeOK, ActRecords, Ats
    <2>3. m.at = "remove" /\ n.at = at
      <3>. HIDE DEF a, at
      <3>. QED  BY <2>2 DEF ActRecords
    <2>. HIDE DEF m, n, a
    <2>. QED  BY <1>2, <1>4, <2>1, <2>3
  <1>7. Drop => ShownKept'
    BY <1>2, <1>4, FreeFits DEF Drop
  <1>8. ASSUME NEW x \in Viewers, NEW u \in Users, NEW w \in Workspaces, GetPresence(x, u, w)
        PROVE  ShownKept'
    <2>. DEFINE m == [Free EXCEPT !.at = "list", !.user = u, !.ws = w]
    <2>1. Become(x, m) /\ m.at = "list" /\ x \in Actors
      BY <1>8 DEF GetPresence, Free, Actors
    <2>. HIDE DEF m
    <2>. QED  BY <1>2, <2>1
  <1>. QED  BY <1>3, <1>5, <1>6, <1>7, <1>8

\* A record stored anew is shown; no aggregation that read before it is
\* under way, or it counts as overtaken.
LEMMA ShownBySave ==
  ASSUME PresenceInv, ShownKept, NEW t \in Tabs, Save(t)
  PROVE  ShownKept'
  <1>1. /\ act[t].sid = t[1] /\ act[t].ws = t[2] /\ act[t].user = Owner[t[1]]
        /\ t \in Actors /\ t[1] \in Ids /\ t[2] \in Workspaces /\ Owner[t[1]] \in Users
    BY TabFacts DEF Save, PresenceInv, ActFits, ActFit
  <1>2. /\ members' = [members EXCEPT ![t[2]][Owner[t[1]]] = @ \cup {t[1]}]
        /\ online' = [online EXCEPT ![t[2]] = @ \cup {Owner[t[1]]}]
        /\ records' = records \cup {t} /\ overtaken' = Overtaking(t)
        /\ Become(t, Free)
    BY <1>1 DEF Save
  <1>3. \A y \in Actors : act'[y] = act[y] \/ act'[y] = Free
    BY <1>1, <1>2 DEF PresenceInv, TypeOK, Become
  <1>4. ASSUME NEW r \in records' \ overtaken'
        PROVE  Shown(r)' /\ \A x \in Actors : Sees(act[x], r)
    <2>1. r \in Tabs /\ r[1] \in Ids /\ r[2] \in Workspaces /\ Owner[r[1]] \in Users
      BY <1>2, TabFacts DEF PresenceInv, TypeOK
    <2>2. CASE r \in records \ overtaken
      <3>1. Shown(r)'
        BY <1>1, <1>2, <2>1, <2>2 DEF ShownKept, Shown, PresenceInv, TypeOK
      <3>. QED  BY <2>2, <3>1 DEF ShownKept
    <2>3. CASE r \notin records \ overtaken
      <3>1. r = t /\ ~Aggregated(t)
        BY <1>2, <2>3 DEF Overtaking
      <3>2. Shown(r)'
        BY <1>1, <1>2, <3>1 DEF Shown, PresenceInv, TypeOK
      <3>3. \A x \in Actors : Sees(act[x], r)
        BY <3>1 DEF Aggregated, Sees
      <3>. QED  BY <3>2, <3>3
    <2>. QED  BY <2>2, <2>3
  <1>5. \A r : Sees(Free, r)
    BY FreeFits, NotReading
  <1>6. ASSUME NEW r \in records' \ overtaken', NEW y \in Actors
        PROVE  Sees(act'[y], r)
    BY <1>3, <1>4, <1>5
  <1>. QED  BY <1>4, <1>6 DEF ShownKept, Sees

LEMMA ShownByRemove ==
  ASSUME PresenceInv, ShownKept, NEW x \in Actors, Remove(x)
  PROVE  ShownKept'
  <1>. DEFINE a == act[x]
              n == [a EXCEPT !.at = "list"]
  <1>1. a \in ActRecords /\ ActFit(x, a) /\ a.at = "remove" /\ a.sid \in Ids /\ a.ws \in Workspaces
    BY DEF Remove, PresenceInv, ActFits, ActFit, TypeOK, ActRecords, Ats
  <1>2. PICK m : Become(x, m) /\ m.at \in {"idle", "drop", "find", "list"}
    <2>1. Become(x, Done(x)) \/ Become(x, n)
      BY DEF Remove
    <2>2. n.at = "list"
      <3>. HIDE DEF a
      <3>. QED  BY <1>1 DEF ActRecords
    <2>3. Done(x).at \in {"idle", "drop", "find"}
      BY <1>1, DoneFits, FreeFits DEF PresenceInv, Done
    <2>. QED  BY <2>1, <2>2, <2>3
  <1>3. /\ records' = records \ {<<a.sid, a.ws>>} /\ overtaken' = overtaken \ {<<a.sid, a.ws>>}
        /\ members' = IF a.user = None THEN members
                      ELSE [members EXCEPT ![a.ws][a.user] = @ \ {a.sid}]
        /\ online' = online
    BY DEF Remove
  <1>4. ASSUME NEW t \in records' \ overtaken'
        PROVE  t \in records \ overtaken /\ Shown(t)'
    <2>1. /\ t \in records \ overtaken /\ t # <<a.sid, a.ws>> /\ t = <<t[1], t[2]>>
          /\ t[1] \in Ids /\ t[2] \in Workspaces /\ Owner[t[1]] \in Users
      BY <1>3, TabFacts DEF PresenceInv, TypeOK
    <2>2. t[1] # a.sid \/ t[2] # a.ws
      BY <2>1
    <2>3. Shown(t)
      BY <2>1 DEF ShownKept
    <2>. HIDE DEF a
    <2>4. t[1] \in members'[t[2]][Owner[t[1]]]
      BY <1>1, <1>3, <2>1, <2>2, <2>3 DEF Shown, PresenceInv, TypeOK
    <2>. QED  BY <1>3, <2>1, <2>3, <2>4 DEF Shown
  <1>5. \A t : Sees(m, t)
    BY <1>2, NotReading
  <1>. QED  BY <1>2, <1>4, <1>5, Reading DEF PresenceInv

LEMMA ShownByAggregate ==
  ASSUME PresenceInv, ShownKept, NEW x \in Actors,
         ReadIndex(x) \/ (\E s \in Ids : ReadRecord(x, s)) \/ Forget(x) \/ Settle(x)
  PROVE  ShownKept'
  <1>. DEFINE a == act[x]
  <1>1. /\ a \in ActRecords /\ a.at \in {"list", "get", "forget", "settle"}
        /\ a.ws \in Workspaces /\ a.user \in Users
    <2>1. a \in ActRecords /\ ActFit(x, a)
      BY DEF PresenceInv, TypeOK, ActFits, ActRecords, Ats
    <2>2. a.at \in {"list", "get", "forget", "settle"}
      BY DEF ReadIndex, ReadRecord, Forget, Settle
    <2>. QED  BY <2>1, <2>2 DEF ActFit
  <1>2. ASSUME NEW t \in records \ overtaken
        PROVE  /\ t = <<t[1], t[2]>> /\ t[1] \in Ids /\ t[2] \in Workspaces
               /\ Owner[t[1]] \in Users /\ Shown(t) /\ Sees(a, t)
    BY <1>2, TabFacts DEF PresenceInv, TypeOK, ShownKept
  <1>3. CASE ReadIndex(x)
    <2>. DEFINE ids == members[a.ws][a.user]
                at == IF ids = {} THEN "settle" ELSE "get"
                m == [a EXCEPT !.ids = ids, !.at = at]
    <2>1. Become(x, m) /\ UNCHANGED <<stored, history>>
      BY <1>3 DEF ReadIndex
    <2>2. m.user = a.user /\ m.ws = a.ws /\ m.ids = ids /\ m.at = at
      <3>. HIDE DEF a, ids, at
      <3>. QED  BY <1>1 DEF ActRecords
    <2>. HIDE DEF m
    <2>3. \A t \in records \ overtaken : Sees(m, t)
      BY <1>2, <2>2 DEF Sees, Shown
    <2>. QED  BY <1>2, <2>1, <2>3, Reading DEF stored, history, Shown, PresenceInv
  <1>4. ASSUME NEW s \in Ids, ReadRecord(x, s)
        PROVE  ShownKept'
    <2>. DEFINE at == IF a.ids = {s} THEN "settle" ELSE "get"
                m == [a EXCEPT !.ids = @ \ {s}, !.found = TRUE, !.at = at]
                n == [a EXCEPT !.at = "forget", !.gone = s]
    <2>1. /\ <<s, a.ws>> \in records => Become(x, m)
          /\ <<s, a.ws>> \notin records => Become(x, n)
          /\ a.at = "get" /\ UNCHANGED <<stored, history>>
      BY <1>4 DEF ReadRecord
    <2>2. /\ m.user = a.user /\ m.ws = a.ws /\ m.found = TRUE /\ m.at = at
          /\ n.user = a.user /\ n.ws = a.ws /\ n.found = a.found /\ n.ids = a.ids
          /\ n.at = "forget" /\ n.gone = s
      <3>. HIDE DEF a, at
      <3>. QED  BY <1>1 DEF ActRecords
    <2>. HIDE DEF m, n, a
    <2>3. \A t \in records \ overtaken : Sees(m, t)
      BY <2>2 DEF Sees
    <2>4. ASSUME <<s, a.ws>> \notin records, NEW t \in records \ overtaken
          PROVE  Sees(n, t)
      <3>1. s = t[1] => a.ws # t[2]
        BY <1>2, <2>4
      <3>. QED  BY <1>2, <2>1, <2>2, <3>1 DEF Sees
    <2>5. PICK k : Become(x, k) /\ \A t \in records \ overtaken : Sees(k, t)
      BY <2>1, <2>3, <2>4
    <2>. QED  BY <1>2, <2>1, <2>5, Reading DEF stored, history, Shown, PresenceInv
  <1>5. CASE Forget(x)
    <2>. DEFINE at == IF a.ids = {a.gone} THEN "settle" ELSE "get"
                m == [a EXCEPT !.ids = @ \ {a.gone}, !.gone = None, !.at = at]
    <2>1. /\ a.at = "forget" /\ Become(x, m) /\ UNCHANGED <<records, online, history>>
          /\ members' = [members EXCEPT ![a.ws][a.user] = @ \ {a.gone}]
      BY <1>5 DEF Forget
    <2>2. /\ m.user = a.user /\ m.ws = a.ws /\ m.found = a.found
          /\ m.ids = a.ids \ {a.gone} /\ m.at = at
      <3>. HIDE DEF a, at
      <3>. QED  BY <1>1 DEF ActRecords
    <2>. HIDE DEF m, a
    <2>3. ASSUME NEW t \in records \ overtaken
          PROVE  Sees(m, t) /\ Shown(t)'
      <3>1. Sees(m, t)
        BY <1>2, <2>1, <2>2 DEF Sees
      <3>2. t[1] \in members'[t[2]][Owner[t[1]]]
        BY <1>1, <1>2, <2>1 DEF Sees, Shown, PresenceInv, TypeOK
      <3>. QED  BY <1>2, <2>1, <3>1, <3>2 DEF Shown
    <2>. QED  BY <2>1, <2>3, Reading DEF history, PresenceInv
  <1>6. CASE Settle(x)
    <2>1. /\ a.at = "settle" /\ Become(x, Done(x)) /\ UNCHANGED <<records, members, history>>
          /\ online' = [online EXCEPT ![a.ws] = IF a.found THEN @ \cup {a.user} ELSE @ \ {a.user}]
      BY <1>6 DEF Settle
    <2>2. Done(x).at \in {"idle", "drop", "find"}
      <3>1. ActFit(x, act[x]) /\ act[x].at # "idle"
        BY <2>1 DEF PresenceInv, ActFits
      <3>. QED  BY <3>1, DoneFits, FreeFits DEF PresenceInv, Done
    <2>. HIDE DEF a
    <2>3. ASSUME NEW t \in records \ overtaken
          PROVE  Sees(Done(x), t) /\ Shown(t)'
      <3>1. Owner[t[1]] \in online'[t[2]]
        BY <1>1, <1>2, <2>1 DEF Sees, Shown, PresenceInv, TypeOK
      <3>. QED  BY <1>2, <2>1, <2>2, <3>1, NotReading DEF Shown
    <2>. QED  BY <2>1, <2>3, Reading DEF history, PresenceInv
  <1>. QED  BY <1>3, <1>4, <1>5, <1>6

LEMMA ShownByLapse ==
  ASSUME PresenceInv, ShownKept,
         \/ \E t \in Tabs : RecordLapse(t)
         \/ \E w \in Workspaces, u \in Users : MembersLapse(w, u)
         \/ \E w \in Workspaces : OnlineLapse(w)
         \/ \E s \in Ids : SpacesLapse(s)
  PROVE  ShownKept'
  <1>1. act' = act /\ records' \ overtaken' \subseteq records \ overtaken
    BY DEF RecordLapse, MembersLapse, OnlineLapse, SpacesLapse, history
  <1>2. ASSUME NEW t \in records' \ overtaken'
        PROVE  Shown(t)'
    <2>1. /\ t \in records /\ t[1] \in Ids /\ t[2] \in Workspaces /\ Owner[t[1]] \in Users /\ Shown(t)
      BY <1>1, TabFacts DEF PresenceInv, TypeOK, ShownKept
    <2>2. t[1] \in members'[t[2]][Owner[t[1]]]
      <3>1. CASE members' = members
        BY <2>1, <3>1 DEF Shown
      <3>2. CASE \E w \in Workspaces, u \in Users : MembersLapse(w, u)
        <4>1. PICK w \in Workspaces, u \in Users : MembersLapse(w, u)
          BY <3>2
        <4>2. ~(t[2] = w /\ Owner[t[1]] = u)
          BY <2>1, <4>1 DEF MembersLapse
        <4>3. members' = [members EXCEPT ![w][u] = {}]
          BY <4>1 DEF MembersLapse
        <4>4. members'[t[2]][Owner[t[1]]] = members[t[2]][Owner[t[1]]]
          BY <2>1, <4>2, <4>3 DEF PresenceInv, TypeOK
        <4>. QED  BY <2>1, <4>4 DEF Shown
      <3>. QED  BY <3>1, <3>2 DEF RecordLapse, OnlineLapse, SpacesLapse
    <2>3. Owner[t[1]] \in online'[t[2]]
      BY <2>1 DEF RecordLapse, MembersLapse, OnlineLapse, SpacesLapse, Shown, PresenceInv, TypeOK
    <2>. QED  BY <2>2, <2>3 DEF Shown
  <1>. QED  BY <1>1, <1>2 DEF ShownKept, Sees

LEMMA ShownStep ==
  ASSUME Inv, ShownKept, [Next]_vars
  PROVE  ShownKept'
  <1>. USE DEF Inv
  <1>1. CASE UNCHANGED presenceVars
    BY <1>1 DEF presenceVars, stored, history, ShownKept, Shown, Sees
  <1>2. CASE \E x \in Actors : Remove(x)
    BY <1>2, ShownByRemove
  <1>3. CASE \E x \in Actors : ReadIndex(x) \/ (\E s \in Ids : ReadRecord(x, s)) \/ Forget(x) \/ Settle(x)
    BY <1>3, ShownByAggregate
  <1>4. CASE \/ \E t \in Tabs : SetPresence(t) \/ SetOffline(t)
             \/ \E s \in Ids : Evict(s)
             \/ \E w \in Workspaces : Find(w)
             \/ Drop
             \/ \E x \in Viewers, u \in Users, w \in Workspaces : GetPresence(x, u, w)
    BY <1>4, ShownByStatus
  <1>5. CASE \E t \in Tabs : Save(t)
    BY <1>5, ShownBySave
  <1>6. CASE \/ \E t \in Tabs : RecordLapse(t)
             \/ \E w \in Workspaces, u \in Users : MembersLapse(w, u)
             \/ \E w \in Workspaces : OnlineLapse(w)
             \/ \E s \in Ids : SpacesLapse(s)
    BY <1>6, ShownByLapse
  <1>. QED  BY <1>1, <1>2, <1>3, <1>4, <1>5, <1>6 DEF Next, vars

\* Every reachable state.
LEMMA Invariance == Spec => []Inv
  <1>1. Init => Inv
    BY InvInit
  <1>2. Inv /\ [Next]_vars => Inv'
    BY InvStep
  <1>. QED  BY <1>1, <1>2, PTL DEF Spec

(* The keys of sessions and presence, the touch worker's records and the   *)
(* requests hold what the code puts in them, whatever interleaves.         *)
THEOREM TypeCorrect == Spec => []TypeOK
  <1>1. Inv => TypeOK
    BY DEF Inv, PresenceInv
  <1>. QED  BY <1>1, Invariance, PTL

(* enforceMaxSessions (session.go:177) lists, looks and revokes in steps   *)
(* of its own, and several logins may do so at once: whenever a user has   *)
(* more than MaxSessions sessions, a login in progress is on its way to    *)
(* revoke all that are too much.  The last login to read the set saw every *)
(* session in it.  Users whose last check failed are left out.             *)
THEOREM SessionCapAlways == Spec => []SessionCap
  <1>1. Inv => SessionCap
    BY DEF Inv, SessionInv
  <1>. QED  BY <1>1, Invariance, PTL

(* Rotations that race (session.go:295) and stale records written back     *)
(* (session.go:542) leave every listed session a refresh token that has a  *)
(* key: a user is never shown a session that cannot be continued.          *)
THEOREM ListedCanRefreshAlways == Spec => []ListedCanRefresh
  <1>1. Inv => ListedCanRefresh
    BY DEF Inv, SessionInv, ListedIsStored, ListedCanRefresh, Live
  <1>. QED  BY <1>1, Invariance, PTL

(* ClearSession (presence/service.go:199) finds a session's workspaces in  *)
(* one set that was read once: whatever is saved, removed or has lapsed    *)
(* meanwhile, no record is outside of it but one saved during an eviction. *)
THEOREM EvictionFindsAllAlways == Spec => []EvictionFindsAll
  <1>1. Inv => EvictionFindsAll
    BY DEF Inv, PresenceInv, EvictionCovers, EvictionFindsAll
  <1>. QED  BY <1>1, Invariance, PTL

(* aggregatePresence (presence/service.go:305) takes sessions out of the   *)
(* index and users out of the online set on the strength of keys it read   *)
(* before: with any number of readers, tabs and evictions, a client is     *)
(* hidden only when its record was stored anew during an aggregation of    *)
(* its user that had read the index before.                                *)
THEOREM SavedIsShownAlways == Spec => []SavedIsShown
  <1>1. Init => ShownKept
    BY DEF Init, ShownKept
  <1>2. Inv /\ ShownKept /\ [Next]_vars => ShownKept'
    BY ShownStep
  <1>3. ShownKept => SavedIsShown
    BY DEF ShownKept, SavedIsShown
  <1>. QED  BY <1>1, <1>2, <1>3, Invariance, PTL DEF Spec
=============================================================================
