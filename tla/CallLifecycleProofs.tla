------------------------ MODULE CallLifecycleProofs ------------------------
(***************************************************************************)
(* Proofs about CallLifecycle, for any number of members and of requests   *)
(* in flight.  What a request may do is settled by what it carries: its    *)
(* plan, and what its transaction has written.  The invariant says, request *)
(* by request, what plan each operation may carry (Fits), so that a step of *)
(* one request is looked at without the others.                            *)
(***************************************************************************)
EXTENDS CallLifecycle, FiniteSetTheorems, TLAPS

-----------------------------------------------------------------------------
(* The statements a plan is made of.  None takes the creator's row or the  *)
(* creator's role away.                                                    *)
RowKinds  == {"connect", "disconnect", "delete", "role", "media", "insert"}
CallKinds == {"activate", "end", "settings"}
Key       == Nat \ {0}

StatusStatements == [do : {"connect", "disconnect"}, user : Users, id : Key]
Deletions        == [do : {"delete"}, user : Users \ {Creator}, id : Key]
RoleStatements   == {s \in [do : {"role"}, user : Users, id : Key, role : Roles] :
                        s.user = Creator => s.role = "host"}
MediaStatements  == [do : {"media"}, user : Users, id : Key, muted : BOOLEAN, sharing : BOOLEAN]
Insertions       == [do : {"insert"}, user : Users, id : {0}, status : {"waiting", "connected"}]
EventStatements  == [do : {"event", "publish"}, user : Users, id : {0},
                     what : {"waiting", "joined", "left", "admitted", "rejected", "updated"}]
CallStatements   == [do : {"activate", "end", "endIfEmpty"}, user : Users, id : {0}]
SettingsStatements == [do : {"settings"}, user : Users, id : {0}, settings : CallSettings]

Statements == StatusStatements \cup Deletions \cup RoleStatements \cup MediaStatements
              \cup Insertions \cup EventStatements \cup CallStatements \cup SettingsStatements

Arguments == {<<"none", "none">>} \cup ({"role"} \X Roles)
             \cup ({"locked", "waitingRoom", "screenSharing"} \X BOOLEAN)
             \cup ({"muted", "sharing"} \X BOOLEAN)

CallStatuses == {"none", "ringing", "active", "ended"}
Transactions == [user : Users, row : Row \cup {NoRow},
                 status : {"none", "active", "ended"}, event : Event]

RequestRecords ==
    [pc : {"idle", "own", "target", "list", "run", "close", "room"},
     op : AllOps \cup {"none"}, user : Users, target : Users, arg : Arguments,
     actor : Roles \cup {"none"}, call : [status : CallStatuses, settings : CallSettings],
     plan : Seq(Statements), tx : Transactions, ended : BOOLEAN]

-----------------------------------------------------------------------------
(* What a request q carries, by what it is doing.                          *)
OpFits(q) ==
    /\ q.pc \in {"own", "run"} => q.op \in Ops \ {"offer"}
    /\ q.pc = "target" => q.op \in Ops \cap {"admit", "reject", "remove", "role", "mute"}
    /\ q.pc = "list" => q.op \in Ops \cap {"join", "media", "admitAll"}
    /\ q.pc = "room" => q.op \in Ops
    /\ q.op # "none" => q.arg \in Args(q.op)
    /\ q.pc = "target" /\ q.user = Creator => q.actor = "host"

\* One statement of a plan, the i-th, and those after it.
StatementFits(q, i) ==
    LET s == q.plan[i] IN
    /\ s.do = "activate" => q.call.status = "ringing"
    /\ s.do \in {"insert", "disconnect", "event", "endIfEmpty"} => q.op \in Transactional
    /\ q.op \in Transactional /\ s.do \in RowKinds => s.user = q.user
    /\ q.op = "admitAll" /\ s.do \in RowKinds => s.do = "connect" /\ i < Len(q.plan)
    /\ q.op \in Transactional =>
         \A j \in 1 .. Len(q.plan) : i < j =>
            /\ q.plan[j].do \notin RowKinds
            /\ s.do \in CallKinds => q.plan[j].do = "event"
    /\ q.tx.row # NoRow => s.do \notin RowKinds
    /\ q.tx.status # "none" => s.do = "event"

PlanFits(q) == \A i \in 1 .. Len(q.plan) : StatementFits(q, i)

Hosts(row) == row.role = "host" /\ row.status # "waiting"

TxFits(q) ==
    /\ q.tx # NoTx => q.op \in Transactional /\ q.pc = "run"
    /\ q.tx.row # NoRow => q.tx.user = q.user
    /\ q.tx.row # NoRow /\ q.tx.user = Creator => Hosts(q.tx.row)
    /\ q.tx.status = "active" => q.call.status = "ringing"

Fits(q) ==
    /\ q \in RequestRecords
    /\ OpFits(q)
    /\ PlanFits(q)
    /\ TxFits(q)

\* The tables, the room and the counters.
TablesOK ==
    /\ call \in [status : CallStatuses, settings : CallSettings]
    /\ rows \in [Users -> Row \cup {NoRow}]
    /\ lastEvent \in [Users -> Event]
    /\ room \in [open : BOOLEAN, peers : SUBSET Users]
    /\ room.peers # {} => room.open
    /\ call.status = "none" => room.peers = {}
    /\ tokens \in SUBSET Users
    /\ next \in Key
    /\ begun \in 0 .. MaxRequests
    /\ faults \in 0 .. MaxFaults

RequestsFit == req \in [Requests -> RequestRecords] /\ \A r \in Requests : Fits(req[r])

CreatorIsSafe ==
    /\ call.status = "none" => \A r \in Requests : req[r] = Idle
    /\ call.status # "none" => Hosts(rows[Creator])

CallInv == TablesOK /\ RequestsFit /\ CreatorIsSafe

-----------------------------------------------------------------------------
(* A request that is over, or was refused, carries nothing.                *)
LEMMA IdleFits == Fits(Idle)
<1> USE CallAssumption
<1>1. NoTx \in Transactions /\ NoCall \in [status : CallStatuses, settings : CallSettings]
  BY DEF NoTx, Transactions, NoCall, CallStatuses, CallSettings, NoEvent, Event
<1>2. /\ Idle \in RequestRecords /\ Idle.plan = <<>> /\ Idle.tx = NoTx
      /\ Idle.pc = "idle" /\ Idle.op = "none"
  BY <1>1 DEF Idle, RequestRecords, Arguments
<1>3. PlanFits(Idle)
  BY <1>2 DEF PlanFits
<1>4. OpFits(Idle) /\ TxFits(Idle)
  BY <1>2 DEF OpFits, TxFits, NoTx
<1> QED
  BY <1>2, <1>3, <1>4 DEF Fits

(* What the kind of a statement says about it.                             *)
LEMMA StatementShape ==
    ASSUME NEW s \in Statements
    PROVE  /\ s.user \in Users
           /\ s.do \in RowKinds \cup CallKinds \cup {"event", "publish", "endIfEmpty"}
           /\ s.do \in RowKinds \ {"insert"} => s.id \in Key
           /\ s.do = "delete" => s.user # Creator
           /\ s.do = "role" => s.role \in Roles /\ (s.user = Creator => s.role = "host")
           /\ s.do = "media" => s.muted \in BOOLEAN /\ s.sharing \in BOOLEAN
           /\ s.do = "insert" => s.status \in {"waiting", "connected"}
           /\ s.do = "settings" => s.settings \in CallSettings
           /\ s.do \in {"event", "publish"} =>
                s.what \in {"waiting", "joined", "left", "admitted", "rejected", "updated"}
<1> USE DEF RowKinds, CallKinds
<1>1. CASE s \in StatusStatements
  BY <1>1 DEF StatusStatements
<1>2. CASE s \in Deletions
  BY <1>2 DEF Deletions
<1>3. CASE s \in RoleStatements
  BY <1>3 DEF RoleStatements
<1>4. CASE s \in MediaStatements
  BY <1>4 DEF MediaStatements
<1>5. CASE s \in Insertions
  BY <1>5 DEF Insertions
<1>6. CASE s \in EventStatements
  BY <1>6 DEF EventStatements
<1>7. CASE s \in CallStatements
  BY <1>7 DEF CallStatements
<1>8. CASE s \in SettingsStatements
  BY <1>8 DEF SettingsStatements
<1> QED
  BY <1>1, <1>2, <1>3, <1>4, <1>5, <1>6, <1>7, <1>8 DEF Statements

(* A request that goes on to its next statement.                           *)
LEMMA NextStatementFits ==
    ASSUME NEW q, Fits(q), q.plan # <<>>
    PROVE  /\ Tail(q.plan) \in Seq(Statements)
           /\ Fits([q EXCEPT !.plan = Tail(@)])
<1> DEFINE n == [q EXCEPT !.plan = Tail(@)]
<1>1. q.plan \in Seq(Statements) /\ q \in RequestRecords
  BY DEF Fits, RequestRecords
<1>2. /\ Tail(q.plan) \in Seq(Statements) /\ Len(Tail(q.plan)) = Len(q.plan) - 1
      /\ \A i \in 1 .. Len(Tail(q.plan)) : Tail(q.plan)[i] = q.plan[i + 1]
  BY <1>1
<1>3. n \in RequestRecords /\ n.plan = Tail(q.plan)
  BY <1>1, <1>2 DEF RequestRecords
<1>4. /\ n.op = q.op /\ n.pc = q.pc /\ n.user = q.user /\ n.actor = q.actor
      /\ n.call = q.call /\ n.tx = q.tx /\ n.arg = q.arg
  BY <1>1 DEF RequestRecords
<1>5. Len(q.plan) \in Nat
  BY <1>1
<1>6. ASSUME NEW i \in 1 .. Len(n.plan) PROVE StatementFits(n, i)
  <2>1. i + 1 \in 1 .. Len(q.plan) /\ n.plan[i] = q.plan[i + 1]
    BY <1>2, <1>3, <1>5
  <2>2. StatementFits(q, i + 1)
    BY <2>1 DEF Fits, PlanFits
  <2>3. \A j \in 1 .. Len(n.plan) : j + 1 \in 1 .. Len(q.plan) /\ n.plan[j] = q.plan[j + 1]
    BY <1>2, <1>3, <1>5
  <2>4. q.op = "admitAll" /\ q.plan[i + 1].do \in RowKinds =>
          q.plan[i + 1].do = "connect" /\ i < Len(n.plan)
    BY <2>1, <2>2, <1>2, <1>3, <1>5 DEF StatementFits
  <2>5. q.op \in Transactional =>
          \A j \in 1 .. Len(n.plan) : i < j =>
             /\ n.plan[j].do \notin RowKinds
             /\ n.plan[i].do \in CallKinds => n.plan[j].do = "event"
    BY <2>1, <2>2, <2>3 DEF StatementFits
  <2> QED
    BY <2>1, <2>2, <2>4, <2>5, <1>4 DEF StatementFits
<1>7. OpFits(n) /\ TxFits(n)
  BY <1>4 DEF Fits, OpFits, TxFits
<1> QED
  BY <1>2, <1>3, <1>6, <1>7 DEF Fits, PlanFits

-----------------------------------------------------------------------------
(* Plans.  A plan suits a request that has written nothing yet.            *)
Suits(q, p) == PlanFits([q EXCEPT !.plan = p])

LEMMA PlanTaken ==
    ASSUME NEW q, Fits(q), q.pc \in {"own", "target", "list"},
           NEW p \in Seq(Statements), Suits(q, p)
    PROVE  /\ Fits([q EXCEPT !.pc = "run", !.plan = p, !.actor = "none",
                             !.target = Creator, !.call.settings = NoCall.settings])
           /\ q.op \in {"join", "media"} => Fits([q EXCEPT !.pc = "list", !.plan = p])
<1> DEFINE run  == [q EXCEPT !.pc = "run", !.plan = p, !.actor = "none",
                             !.target = Creator, !.call.settings = NoCall.settings]
           list == [q EXCEPT !.pc = "list", !.plan = p]
           same == [q EXCEPT !.plan = p]
<1>1. q \in RequestRecords /\ q.tx = NoTx /\ q.op \in Ops \ {"offer"}
  BY DEF Fits, OpFits, TxFits
<1>2. /\ run \in RequestRecords /\ run.plan = p /\ run.pc = "run" /\ run.op = q.op
      /\ run.user = q.user /\ run.arg = q.arg /\ run.tx = q.tx
      /\ run.call.status = q.call.status
  BY <1>1, CallAssumption DEF RequestRecords, NoCall, CallSettings
<1>3. /\ list \in RequestRecords /\ list.plan = p /\ list.pc = "list" /\ list.op = q.op
      /\ list.user = q.user /\ list.arg = q.arg /\ list.tx = q.tx
      /\ list.call = q.call
  BY <1>1 DEF RequestRecords
<1>4. same.plan = p /\ same.op = q.op /\ same.user = q.user /\ same.tx = q.tx
      /\ same.call = q.call
  BY <1>1 DEF RequestRecords
<1>5. PlanFits(run)
  <2> SUFFICES ASSUME NEW i \in 1 .. Len(p) PROVE StatementFits(run, i)
    BY <1>2 DEF PlanFits
  <2>1. StatementFits(same, i)
    BY <1>4 DEF Suits, PlanFits
  <2> QED
    BY <2>1, <1>2, <1>4 DEF StatementFits
<1>6. PlanFits(list)
  <2> SUFFICES ASSUME NEW i \in 1 .. Len(p) PROVE StatementFits(list, i)
    BY <1>3 DEF PlanFits
  <2>1. StatementFits(same, i)
    BY <1>4 DEF Suits, PlanFits
  <2> QED
    BY <2>1, <1>3, <1>4 DEF StatementFits
<1>7. OpFits(run) /\ TxFits(run)
  BY <1>1, <1>2 DEF Fits, OpFits, TxFits, NoTx
<1>8. q.op \in {"join", "media"} => OpFits(list) /\ TxFits(list)
  BY <1>1, <1>3 DEF Fits, OpFits, TxFits, NoTx
<1> QED
  BY <1>2, <1>3, <1>5, <1>6, <1>7, <1>8 DEF Fits

(* An operation without a transaction may carry anything but the           *)
(* statements of one.                                                      *)
PlainStatements(q) ==
    {s \in Statements : /\ s.do \notin {"insert", "disconnect", "event", "endIfEmpty"}
                        /\ s.do = "activate" => q.call.status = "ringing"}

LEMMA PlainPlanSuits ==
    ASSUME NEW q, Fits(q), q.tx = NoTx, q.op \notin Transactional,
           NEW p \in Seq(PlainStatements(q)),
           q.op = "admitAll" =>
              \A i \in 1 .. Len(p) : p[i].do \in RowKinds => p[i].do = "connect" /\ i < Len(p)
    PROVE  p \in Seq(Statements) /\ Suits(q, p)
<1> DEFINE n == [q EXCEPT !.plan = p]
<1>1. n.plan = p /\ n.op = q.op /\ n.tx = NoTx /\ n.call = q.call
  BY DEF Fits, RequestRecords
<1>2. \A i \in 1 .. Len(p) : p[i] \in PlainStatements(q)
  OBVIOUS
<1>3. p \in Seq(Statements)
  BY <1>2 DEF PlainStatements
<1>4. ASSUME NEW i \in 1 .. Len(p) PROVE StatementFits(n, i)
  <2>1. /\ p[i].do \notin {"insert", "disconnect", "event", "endIfEmpty"}
        /\ p[i].do = "activate" => q.call.status = "ringing"
    BY <1>2 DEF PlainStatements
  <2> QED
    BY <1>1, <2>1 DEF StatementFits, NoTx
<1> QED
  BY <1>1, <1>3, <1>4 DEF Suits, PlanFits

(* Two places of up to three.                                              *)
LEMMA PlacesOfThree ==
    ASSUME NEW n \in 1 .. 3, NEW i \in 1 .. n
    PROVE  /\ i = 1 \/ (i = 2 /\ n > 1) \/ (i = 3 /\ n > 2)
           /\ \A j \in 1 .. n : i < j =>
                /\ (j = 2 /\ n > 1) \/ (j = 3 /\ n > 2)
                /\ (i = 1 /\ n # 1) \/ (i = 2 /\ j = 3 /\ n > 2)
  OBVIOUS

(* A transaction has up to three statements: its row first, then events    *)
(* and the call.                                                           *)
LEMMA ShortPlanSuits ==
    ASSUME NEW q, Fits(q), q.tx = NoTx, q.op \in Transactional,
           NEW p \in Seq(Statements), Len(p) \in 1 .. 3,
           p[1].do \in RowKinds => p[1].user = q.user,
           p[1].do # "activate",
           Len(p) = 1 \/ p[1].do \notin CallKinds,
           Len(p) > 1 => \/ p[2].do = "event"
                         \/ p[2].do = "activate" /\ q.call.status = "ringing",
           Len(p) > 2 => \/ p[3].do = "event"
                         \/ p[3].do = "endIfEmpty" /\ p[2].do = "event"
    PROVE  Suits(q, p)
<1> DEFINE n == [q EXCEPT !.plan = p]
<1>1. /\ n.plan = p /\ n.op = q.op /\ n.tx = NoTx /\ n.call = q.call /\ n.user = q.user
  BY DEF Fits, RequestRecords
<1> SUFFICES ASSUME NEW i \in 1 .. Len(p) PROVE StatementFits(n, i)
  BY <1>1 DEF Suits, PlanFits
<1> HIDE DEF n
<1>3. /\ i = 1 \/ (i = 2 /\ Len(p) > 1) \/ (i = 3 /\ Len(p) > 2)
      /\ \A j \in 1 .. Len(p) : i < j =>
            /\ (j = 2 /\ Len(p) > 1) \/ (j = 3 /\ Len(p) > 2)
            /\ (i = 1 /\ Len(p) # 1) \/ (i = 2 /\ j = 3 /\ Len(p) > 2)
  BY PlacesOfThree
<1>2. \A j \in 1 .. Len(p) : i < j => p[j].do \in {"event", "activate", "endIfEmpty"}
  BY <1>3
<1>4. /\ p[i].do = "activate" => q.call.status = "ringing"
      /\ p[i].do \in RowKinds => p[i].user = q.user
  BY <1>3 DEF RowKinds
<1>5. ASSUME NEW j \in 1 .. Len(p), i < j, p[i].do \in CallKinds
      PROVE  p[j].do = "event"
  BY <1>3, <1>5 DEF CallKinds
<1> QED
  BY <1>1, <1>2, <1>4, <1>5 DEF StatementFits, NoTx, Transactional, RowKinds

-----------------------------------------------------------------------------
(* The statements and plans of the handlers.                               *)
LEMMA StatementsMade ==
    ASSUME NEW u \in Users
    PROVE  /\ \A id \in Key : Connect(u, id) \in Statements /\ Disconnect(u, id) \in Statements
           /\ u # Creator => \A id \in Key : Delete(u, id) \in Statements
           /\ \A id \in Key, role \in Roles :
                (u = Creator => role = "host") => SetRole(u, id, role) \in Statements
           /\ \A row \in Row : SetMedia(u, row) \in Statements
           /\ Insert(u, "waiting") \in Statements /\ Insert(u, "connected") \in Statements
           /\ \A w \in {"waiting", "joined", "left", "admitted", "rejected", "updated"} :
                Enqueue(u, w) \in Statements /\ Publish(u, w) \in Statements
           /\ Activate(u) \in Statements /\ EndRow(u) \in Statements
           /\ EndIfEmpty(u) \in Statements
           /\ \A set \in CallSettings : SetSettings(u, set) \in Statements
<1> USE DEF Statements
<1>1. \A id \in Key : Connect(u, id) \in Statements /\ Disconnect(u, id) \in Statements
  BY DEF Connect, Disconnect, StatusStatements
<1>2. u # Creator => \A id \in Key : Delete(u, id) \in Statements
  BY DEF Delete, Deletions
<1>3. \A id \in Key, role \in Roles :
        (u = Creator => role = "host") => SetRole(u, id, role) \in Statements
  BY DEF SetRole, RoleStatements
<1>4. \A row \in Row : SetMedia(u, row) \in Statements
  BY DEF SetMedia, MediaStatements, Row, Key
<1>5. Insert(u, "waiting") \in Statements /\ Insert(u, "connected") \in Statements
  BY DEF Insert, Insertions
<1>6. \A w \in {"waiting", "joined", "left", "admitted", "rejected", "updated"} :
        Enqueue(u, w) \in Statements /\ Publish(u, w) \in Statements
  BY DEF Enqueue, Publish, EventStatements
<1>7. /\ Activate(u) \in Statements /\ EndRow(u) \in Statements
      /\ EndIfEmpty(u) \in Statements
  BY DEF Activate, EndRow, EndIfEmpty, CallStatements
<1>8. \A set \in CallSettings : SetSettings(u, set) \in Statements
  BY DEF SetSettings, SettingsStatements
<1> QED
  BY <1>1, <1>2, <1>3, <1>4, <1>5, <1>6, <1>7, <1>8

(* Single statements put one after another.                                *)
LEMMA Appended ==
    ASSUME NEW S, NEW s \in Seq(S), NEW c \in S
    PROVE  /\ s \o <<c>> \in Seq(S) /\ Len(s \o <<c>>) = Len(s) + 1
           /\ (s \o <<c>>)[Len(s) + 1] = c
           /\ \A i \in 1 .. Len(s) : (s \o <<c>>)[i] = s[i]
<1>1. <<c>> \in Seq(S) /\ Len(<<c>>) = 1 /\ <<c>>[1] = c
  OBVIOUS
<1> QED
  BY <1>1

LEMMA Joined ==
    ASSUME NEW S, NEW a \in S, NEW b \in S, NEW c \in S
    PROVE  /\ LET s == <<a>> \o <<b>> \o <<c>> IN
              s \in Seq(S) /\ Len(s) = 3 /\ s[1] = a /\ s[2] = b /\ s[3] = c
           /\ LET s == <<a>> \o <<>> \o <<c>> IN
              s \in Seq(S) /\ Len(s) = 2 /\ s[1] = a /\ s[2] = c
<1>1. <<a>> \in Seq(S) /\ <<b>> \in Seq(S) /\ <<>> \in Seq(S)
  OBVIOUS
<1>2. \A s \in Seq(S) :
         /\ s \o <<c>> \in Seq(S) /\ Len(s \o <<c>>) = Len(s) + 1
         /\ (s \o <<c>>)[Len(s) + 1] = c
         /\ \A i \in 1 .. Len(s) : (s \o <<c>>)[i] = s[i]
  BY Appended
<1>3. /\ <<a>> \o <<b>> \in Seq(S) /\ Len(<<a>> \o <<b>>) = 2
      /\ (<<a>> \o <<b>>)[1] = a /\ (<<a>> \o <<b>>)[2] = b
  BY <1>1
<1>4. PICK s \in Seq(S) : /\ s = <<a>> \o <<b>>
                          /\ Len(s) = 2 /\ s[1] = a /\ s[2] = b
  BY <1>3, Zenon
<1>5. /\ <<a>> \o <<>> \in Seq(S) /\ Len(<<a>> \o <<>>) = 1
      /\ (<<a>> \o <<>>)[1] = a
  BY <1>1
<1>6. PICK t \in Seq(S) : t = <<a>> \o <<>> /\ Len(t) = 1 /\ t[1] = a
  BY <1>5, Zenon
<1>7. /\ s \o <<c>> \in Seq(S) /\ Len(s \o <<c>>) = 3
      /\ (s \o <<c>>)[1] = a /\ (s \o <<c>>)[2] = b /\ (s \o <<c>>)[3] = c
  <2> DEFINE n == s \o <<c>>
  <2>1. n \in Seq(S) /\ Len(n) = 2 + 1 /\ n[2 + 1] = c /\ \A i \in 1 .. 2 : n[i] = s[i]
    BY <1>2, <1>4
  <2> HIDE DEF n
  <2>2. n \in Seq(S) /\ Len(n) = 3 /\ n[1] = a /\ n[2] = b /\ n[3] = c
    BY <2>1, <1>4
  <2> QED
    BY <2>2 DEF n
<1>8. /\ t \o <<c>> \in Seq(S) /\ Len(t \o <<c>>) = 2
      /\ (t \o <<c>>)[1] = a /\ (t \o <<c>>)[2] = c
  <2> DEFINE n == t \o <<c>>
  <2>1. n \in Seq(S) /\ Len(n) = 1 + 1 /\ n[1 + 1] = c /\ \A i \in 1 .. 1 : n[i] = t[i]
    BY <1>2, <1>6
  <2> HIDE DEF n
  <2>2. n \in Seq(S) /\ Len(n) = 2 /\ n[1] = a /\ n[2] = c
    BY <2>1, <1>6
  <2> QED
    BY <2>2 DEF n
<1> QED
  BY <1>4, <1>6, <1>7, <1>8

LEMMA JoinPlansSuit ==
    ASSUME RequestsFit, NEW r \in Requests, req[r].pc = "own", req[r].op = "join",
           NEW id \in Key
    PROVE  /\ RejoinPlan(req[r].user, id) \in Seq(Statements)
           /\ Suits(req[r], RejoinPlan(req[r].user, id))
           /\ JoinPlan(r) \in Seq(Statements)
           /\ Suits(req[r], JoinPlan(r))
<1> DEFINE u == req[r].user
<1>1. Fits(req[r]) /\ req[r].tx = NoTx /\ u \in Users /\ req[r].op \in Transactional
  BY DEF RequestsFit, Fits, TxFits, RequestRecords, Transactional
<1> HIDE DEF u
<1>2. /\ Connect(u, id) \in Statements /\ Enqueue(u, "joined") \in Statements
      /\ Enqueue(u, "waiting") \in Statements /\ Activate(u) \in Statements
      /\ Insert(u, "waiting") \in Statements /\ Insert(u, "connected") \in Statements
  BY <1>1, StatementsMade
<1>3. RejoinPlan(u, id) \in Seq(Statements) /\ Suits(req[r], RejoinPlan(u, id))
  <2>1. RejoinPlan(u, id) \in Seq(Statements)
    BY <1>2 DEF RejoinPlan
  <2>2. /\ Len(RejoinPlan(u, id)) = 2 /\ RejoinPlan(u, id)[1].do = "connect"
        /\ RejoinPlan(u, id)[1].user = u /\ RejoinPlan(u, id)[2].do = "event"
    BY DEF RejoinPlan, Connect, Enqueue
  <2> QED
    BY <1>1, <2>1, <2>2, ShortPlanSuits DEF u, RowKinds, CallKinds
<1>4. CASE req[r].call.settings.waitingRoom
  <2>1. JoinPlan(r) = <<Insert(u, "waiting"), Enqueue(u, "waiting")>>
    BY <1>4 DEF JoinPlan, u
  <2>2. JoinPlan(r) \in Seq(Statements)
    BY <2>1, <1>2
  <2>3. /\ Len(JoinPlan(r)) = 2 /\ JoinPlan(r)[1].do = "insert"
        /\ JoinPlan(r)[1].user = u /\ JoinPlan(r)[2].do = "event"
    BY <2>1 DEF Insert, Enqueue
  <2>4. Suits(req[r], JoinPlan(r))
    BY <1>1, <2>2, <2>3, ShortPlanSuits DEF u, RowKinds, CallKinds
  <2> QED
    BY <1>3, <2>2, <2>4 DEF u
<1>5. CASE ~req[r].call.settings.waitingRoom /\ req[r].call.status = "ringing"
  <2>1. JoinPlan(r) = <<Insert(u, "connected")>> \o <<Activate(u)>> \o <<Enqueue(u, "joined")>>
    BY <1>5 DEF JoinPlan, ActivateIfRinging, u
  <2>2. JoinPlan(r) \in Seq(Statements)
    BY <2>1, <1>2, Joined
  <2>3. /\ Len(JoinPlan(r)) = 3 /\ JoinPlan(r)[1].do = "insert"
        /\ JoinPlan(r)[1].user = u /\ JoinPlan(r)[2].do = "activate"
        /\ JoinPlan(r)[3].do = "event"
    BY <2>1, <1>2, Joined DEF Insert, Activate, Enqueue
  <2>4. Suits(req[r], JoinPlan(r))
    BY <1>1, <1>5, <2>2, <2>3, ShortPlanSuits DEF u, RowKinds, CallKinds
  <2> QED
    BY <1>3, <2>2, <2>4 DEF u
<1>6. CASE ~req[r].call.settings.waitingRoom /\ req[r].call.status # "ringing"
  <2>1. JoinPlan(r) = <<Insert(u, "connected")>> \o <<>> \o <<Enqueue(u, "joined")>>
    BY <1>6 DEF JoinPlan, ActivateIfRinging, u
  <2>2. JoinPlan(r) \in Seq(Statements)
    BY <2>1, <1>2, Joined
  <2>3. /\ Len(JoinPlan(r)) = 2 /\ JoinPlan(r)[1].do = "insert"
        /\ JoinPlan(r)[1].user = u /\ JoinPlan(r)[2].do = "event"
    BY <2>1, <1>2, Joined DEF Insert, Enqueue
  <2>4. Suits(req[r], JoinPlan(r))
    BY <1>1, <2>2, <2>3, ShortPlanSuits DEF u, RowKinds, CallKinds
  <2> QED
    BY <1>3, <2>2, <2>4 DEF u
<1> QED
  BY <1>4, <1>5, <1>6

LEMMA LeaveAndEndPlansSuit ==
    ASSUME RequestsFit, NEW r \in Requests, req[r].pc = "own", req[r].op \in {"leave", "end"},
           NEW id \in Key
    PROVE  /\ LeavePlan(req[r].user, id) \in Seq(Statements)
           /\ Suits(req[r], LeavePlan(req[r].user, id))
           /\ \A k : /\ EndPlan(req[r].user, k) \in Seq(Statements)
                     /\ Suits(req[r], EndPlan(req[r].user, k))
<1> DEFINE u == req[r].user
<1>1. Fits(req[r]) /\ req[r].tx = NoTx /\ u \in Users /\ req[r].op \in Transactional
  BY DEF RequestsFit, Fits, TxFits, RequestRecords, Transactional
<1> HIDE DEF u
<1>2. /\ Disconnect(u, id) \in Statements /\ Enqueue(u, "left") \in Statements
      /\ EndIfEmpty(u) \in Statements /\ EndRow(u) \in Statements
  BY <1>1, StatementsMade
<1>3. LeavePlan(u, id) \in Seq(Statements)
  BY <1>2 DEF LeavePlan
<1>4. Suits(req[r], LeavePlan(u, id))
  <2>1. /\ Len(LeavePlan(u, id)) = 3 /\ LeavePlan(u, id)[1].do = "disconnect"
        /\ LeavePlan(u, id)[1].user = u /\ LeavePlan(u, id)[2].do = "event"
        /\ LeavePlan(u, id)[3].do = "endIfEmpty"
    BY DEF LeavePlan, Disconnect, Enqueue, EndIfEmpty
  <2> QED
    BY <1>1, <1>3, <2>1, ShortPlanSuits DEF u, RowKinds, CallKinds
<1>5. ASSUME NEW k PROVE EndPlan(u, k) \in Seq(Statements) /\ Suits(req[r], EndPlan(u, k))
  <2>1. EndPlan(u, k) \in Seq(Statements)
    BY <1>2 DEF EndPlan
  <2>2. Len(EndPlan(u, k)) = 1 /\ EndPlan(u, k)[1].do = "end"
    BY DEF EndPlan, EndRow
  <2> QED
    BY <1>1, <2>1, <2>2, ShortPlanSuits DEF u, RowKinds, CallKinds
<1> QED
  BY <1>3, <1>4, <1>5 DEF u

(* The plans of the host's operations and of media updates.                *)
LEMMA PlainMade ==
    ASSUME RequestsFit, NEW r \in Requests, NEW u \in Users
    PROVE  LET P == PlainStatements(req[r]) IN
           /\ \A id \in Key : Connect(u, id) \in P
           /\ u # Creator => \A id \in Key : Delete(u, id) \in P
           /\ \A id \in Key, role \in Roles :
                (u = Creator => role = "host") => SetRole(u, id, role) \in P
           /\ \A row \in Row : SetMedia(u, row) \in P
           /\ \A w \in {"admitted", "rejected", "left", "updated"} : Publish(u, w) \in P
           /\ \A set \in CallSettings : SetSettings(u, set) \in P
           /\ ActivateIfRinging(r) \in Seq(P)
<1> DEFINE P == PlainStatements(req[r])
<1>1. /\ \A id \in Key : Connect(u, id) \in P
      /\ u # Creator => \A id \in Key : Delete(u, id) \in P
  BY StatementsMade DEF PlainStatements, Connect, Delete
<1>2. \A id \in Key, role \in Roles :
        (u = Creator => role = "host") => SetRole(u, id, role) \in P
  BY StatementsMade DEF PlainStatements, SetRole
<1>3. /\ \A row \in Row : SetMedia(u, row) \in P
      /\ \A set \in CallSettings : SetSettings(u, set) \in P
  BY StatementsMade DEF PlainStatements, SetMedia, SetSettings
<1>4. \A w \in {"admitted", "rejected", "left", "updated"} : Publish(u, w) \in P
  BY StatementsMade DEF PlainStatements, Publish
<1>5. ActivateIfRinging(r) \in Seq(P)
  <2>1. CASE req[r].call.status = "ringing"
    <3>1. req[r].user \in Users
      BY DEF RequestsFit, RequestRecords
    <3>2. Activate(req[r].user) \in P
      BY <2>1, <3>1, StatementsMade DEF PlainStatements, Activate
    <3> HIDE DEF P
    <3> QED
      BY <2>1, <3>2 DEF ActivateIfRinging
  <2>2. CASE req[r].call.status # "ringing"
    BY <2>2 DEF ActivateIfRinging
  <2> QED
    BY <2>1, <2>2
<1> QED
  BY <1>1, <1>2, <1>3, <1>4, <1>5

LEMMA HostPlansSuit ==
    ASSUME RequestsFit, NEW r \in Requests, req[r].pc # "run", req[r].op \in AllOps,
           req[r].op \notin Transactional \cup {"admitAll"}, NEW u \in Users
    PROVE  LET Fine(p) == p \in Seq(Statements) /\ Suits(req[r], p) IN
           /\ \A id \in Key : Fine(AdmitPlan(r, u, id))
           /\ u # Creator => \A id \in Key, w \in {"rejected", "left"} : Fine(DeletePlan(u, id, w))
           /\ \A row \in Row, role \in Roles :
                (u = Creator => role = "host") => Fine(RolePlan(u, row, role))
           /\ \A row \in Row, arg \in {"muted", "sharing"} \X BOOLEAN :
                Fine(MediaPlan(u, row, arg))
           /\ \A set \in CallSettings : Fine(<<SetSettings(u, set)>>)
<1> DEFINE P == PlainStatements(req[r])
<1>1. Fits(req[r]) /\ req[r].tx = NoTx
  BY DEF RequestsFit, Fits, TxFits
<1>2. ASSUME NEW p \in Seq(P) PROVE p \in Seq(Statements) /\ Suits(req[r], p)
  BY <1>1, <1>2, PlainPlanSuits
<1> HIDE DEF P
<1>3. ASSUME NEW id \in Key PROVE AdmitPlan(r, u, id) \in Seq(P)
  <2>1. /\ Connect(u, id) \in P /\ Publish(u, "admitted") \in P
        /\ ActivateIfRinging(r) \in Seq(P)
    BY PlainMade DEF P
  <2>2. Admit(u, id) \in Seq(P)
    BY <2>1 DEF Admit
  <2> QED
    BY <2>1, <2>2 DEF AdmitPlan
<1>4. ASSUME u # Creator, NEW id \in Key, NEW w \in {"rejected", "left"}
      PROVE  DeletePlan(u, id, w) \in Seq(P)
  <2>1. Delete(u, id) \in P /\ Publish(u, w) \in P
    BY <1>4, PlainMade DEF P
  <2> QED
    BY <2>1 DEF DeletePlan
<1>5. ASSUME NEW row \in Row, NEW role \in Roles, u = Creator => role = "host"
      PROVE  RolePlan(u, row, role) \in Seq(P)
  <2> DEFINE quiet == [row EXCEPT !.muted = TRUE, !.sharing = FALSE]
  <2>1. row.id \in Key /\ quiet \in Row
    BY DEF Row, Key
  <2>2. /\ SetRole(u, row.id, role) \in P /\ SetMedia(u, quiet) \in P
        /\ Publish(u, "updated") \in P
    BY <1>5, <2>1, PlainMade DEF P
  <2> HIDE DEF quiet
  <2>3. /\ <<SetRole(u, row.id, role)>> \in Seq(P) /\ <<Publish(u, "updated")>> \in Seq(P)
        /\ (IF role = "viewer" THEN <<SetMedia(u, quiet)>> ELSE <<>>) \in Seq(P)
    BY <2>2
  <2> QED
    BY <2>3 DEF RolePlan, quiet
<1>6. ASSUME NEW row \in Row, NEW arg \in {"muted", "sharing"} \X BOOLEAN
      PROVE  MediaPlan(u, row, arg) \in Seq(P)
  <2> DEFINE new == [row EXCEPT ![arg[1]] = arg[2]]
  <2>1. new \in Row
    BY DEF Row
  <2>2. SetMedia(u, new) \in P /\ Publish(u, "updated") \in P
    BY <2>1, PlainMade DEF P
  <2> HIDE DEF new
  <2>3. <<SetMedia(u, new), Publish(u, "updated")>> \in Seq(P)
    BY <2>2
  <2> QED
    BY <2>3 DEF MediaPlan, new
<1>7. ASSUME NEW set \in CallSettings PROVE <<SetSettings(u, set)>> \in Seq(P)
  <2>1. SetSettings(u, set) \in P
    BY PlainMade DEF P
  <2> QED
    BY <2>1
<1> QED
  BY <1>2, <1>3, <1>4, <1>5, <1>6, <1>7

(* AdmitAll connects nobody without the event that follows.                *)
LEMMA AdmitAllSuits ==
    ASSUME TablesOK, RequestsFit, NEW r \in Requests, req[r].pc = "list",
           req[r].op = "admitAll", NEW s \in WaitingLists
    PROVE  LET p == AdmitAllPlan(s) \o ActivateIfRinging(r)
           IN  p \in Seq(Statements) /\ Suits(req[r], p)
<1> DEFINE P == PlainStatements(req[r])
           a == AdmitAllPlan(s)
           b == ActivateIfRinging(r)
<1>1. Fits(req[r]) /\ req[r].tx = NoTx /\ req[r].op \notin Transactional
  BY DEF RequestsFit, Fits, TxFits, Transactional
<1>2. s \in Seq(Waiting) /\ Len(s) \in Nat
  <2>1. Cardinality(Waiting) \in Nat
    BY CallAssumption, FS_Subset, FS_CardinalityType DEF Waiting
  <2> QED
    BY <2>1 DEF WaitingLists
<1>3. ASSUME NEW k \in 1 .. 2 * Len(s)
      PROVE  /\ a[k] \in P
             /\ a[k].do \in RowKinds => a[k].do = "connect" /\ k < 2 * Len(s)
  <2> DEFINE u == s[(k + 1) \div 2]
  <2>1. (k + 1) \div 2 \in 1 .. Len(s) /\ (k % 2 = 1 => k < 2 * Len(s))
    BY <1>2
  <2>2. u \in Waiting
    BY <1>2, <2>1
  <2>3. u \in Users /\ rows[u].id \in Key
    BY <2>2 DEF Waiting, TablesOK, Row, NoRow, Key
  <2> HIDE DEF u
  <2>4. Connect(u, rows[u].id) \in P /\ Publish(u, "admitted") \in P
    BY <2>3, PlainMade
  <2>5. a[k] = IF k % 2 = 1 THEN Connect(u, rows[u].id) ELSE Publish(u, "admitted")
    BY DEF AdmitAllPlan, u
  <2>6. a[k].do \in RowKinds => a[k].do = "connect" /\ k % 2 = 1
    BY <2>5 DEF Publish, Connect, RowKinds
  <2> QED
    BY <2>1, <2>4, <2>5, <2>6
<1>4. a \in [1 .. 2 * Len(s) -> P] /\ a \in Seq(P) /\ Len(a) = 2 * Len(s)
  <2>1. a \in [1 .. 2 * Len(s) -> P]
    BY <1>3 DEF AdmitAllPlan
  <2> QED
    BY <2>1, <1>2
<1>5. b \in Seq(P) /\ \A i \in 1 .. Len(b) : b[i].do = "activate"
  <2>1. b \in Seq(P)
    BY CallAssumption, PlainMade
  <2> QED
    BY <2>1 DEF ActivateIfRinging, Activate
<1> HIDE DEF P, a, b
<1>6. a \o b \in Seq(P) /\ Len(a \o b) = Len(a) + Len(b)
  BY <1>4, <1>5
<1>7. ASSUME NEW i \in 1 .. Len(a \o b), (a \o b)[i].do \in RowKinds
      PROVE  (a \o b)[i].do = "connect" /\ i < Len(a \o b)
  <2>1. CASE i \in 1 .. Len(a)
    <3>1. (a \o b)[i] = a[i]
      BY <1>4, <1>5, <2>1
    <3> QED
      BY <1>2, <1>3, <1>4, <1>5, <1>6, <1>7, <2>1, <3>1
  <2>2. CASE i > Len(a)
    <3>1. i - Len(a) \in 1 .. Len(b) /\ (a \o b)[i] = b[i - Len(a)]
      BY <1>4, <1>5, <1>6, <2>2
    <3> QED
      BY <1>5, <1>7, <3>1 DEF RowKinds
  <2> QED
    BY <1>2, <1>4, <1>6, <2>1, <2>2
<1> QED
  BY <1>1, <1>6, <1>7, PlainPlanSuits DEF P, a, b

-----------------------------------------------------------------------------
(* Steps of one request.                                                   *)
LEMMA OneRequest ==
    ASSUME RequestsFit, NEW r \in Requests, NEW x, Fits(x), req' = [req EXCEPT ![r] = x]
    PROVE  RequestsFit' /\ req'[r] = x /\ \A q \in Requests \ {r} : req'[q] = req[q]
<1>1. x \in RequestRecords
  BY DEF Fits
<1>2. /\ req' \in [Requests -> RequestRecords]
      /\ req'[r] = x /\ \A q \in Requests \ {r} : req'[q] = req[q]
  BY <1>1 DEF RequestsFit
<1>3. \A q \in Requests : Fits(req[q])'
  <2> SUFFICES ASSUME NEW q \in Requests PROVE Fits(req'[q])
    BY DEF Fits, OpFits, PlanFits, StatementFits, TxFits
  <2> QED
    BY <1>2 DEF RequestsFit
<1> QED
  BY <1>2, <1>3 DEF RequestsFit

LEMMA CallStarted ==
    ASSUME CallInv, NEW r \in Requests, req[r].pc # "idle"
    PROVE  call.status # "none" /\ Hosts(rows[Creator])
<1>1. req[r] # Idle
  BY DEF Idle
<1> QED
  BY <1>1 DEF CallInv, CreatorIsSafe

LEMMA ReadStep ==
    ASSUME CallInv, NEW r \in Requests, req[r].pc # "idle", DatabaseIsKept,
           NEW x, Fits(x), req' = [req EXCEPT ![r] = x]
    PROVE  CallInv'
<1>1. TablesOK'
  BY DEF CallInv, TablesOK, DatabaseIsKept
<1>2. RequestsFit'
  BY OneRequest DEF CallInv
<1>3. CreatorIsSafe'
  BY CallStarted DEF CreatorIsSafe, DatabaseIsKept, Hosts
<1> QED
  BY <1>1, <1>2, <1>3 DEF CallInv

LEMMA RefuseStep ==
    ASSUME CallInv, NEW r \in Requests, req[r].pc # "idle", DatabaseIsKept, Refuse(r)
    PROVE  CallInv'
  BY ReadStep, IdleFits DEF Refuse

LEMMA RunStep ==
    ASSUME CallInv, NEW r \in Requests, req[r].pc \in {"own", "target", "list"},
           DatabaseIsKept, NEW p \in Seq(Statements), Suits(req[r], p), Run(r, p)
    PROVE  CallInv'
<1> DEFINE x == [req[r] EXCEPT !.pc = "run", !.plan = p, !.actor = "none",
                               !.target = Creator, !.call.settings = NoCall.settings]
<1>1. Fits(req[r]) /\ req \in [Requests -> RequestRecords]
  BY DEF CallInv, RequestsFit
<1>2. Fits(x)
  BY <1>1, PlanTaken
<1>3. req' = [req EXCEPT ![r] = x]
  BY <1>1 DEF Run
<1> HIDE DEF x
<1> QED
  BY <1>2, <1>3, ReadStep

LEMMA CheckStep ==
    ASSUME CallInv, NEW r \in Requests, req[r].pc = "own", req[r].op \in {"join", "media"},
           DatabaseIsKept, NEW p \in Seq(Statements), Suits(req[r], p), Check(r, p)
    PROVE  CallInv'
<1> DEFINE x == [req[r] EXCEPT !.pc = "list", !.plan = p]
<1>1. Fits(req[r]) /\ req \in [Requests -> RequestRecords]
  BY DEF CallInv, RequestsFit
<1>2. Fits(x)
  BY <1>1, PlanTaken
<1>3. req' = [req EXCEPT ![r] = x]
  BY <1>1 DEF Check
<1> HIDE DEF x
<1> QED
  BY <1>2, <1>3, ReadStep

(* The creator who reads its own row is host: that is what a later check   *)
(* of its role, on the row of another, goes by.                            *)
LEMMA NextReadStep ==
    ASSUME CallInv, NEW r \in Requests, req[r].pc = "own", DatabaseIsKept,
           NEW what \in {"target", "list"}, Read(r, what), IsHost(rows[req[r].user]),
           what = "target" => req[r].op \in {"admit", "reject", "remove", "role", "mute"},
           what = "list" => req[r].op = "admitAll"
    PROVE  CallInv'
<1> DEFINE q == req[r]
           x == [q EXCEPT !.pc = what, !.actor = rows[q.user].role]
<1>1. /\ Fits(q) /\ req \in [Requests -> RequestRecords]
      /\ q \in RequestRecords /\ q.tx = NoTx /\ q.op \in Ops
  BY DEF CallInv, RequestsFit, Fits, OpFits, TxFits
<1>2. rows[q.user].role \in Roles /\ (q.user = Creator => rows[q.user].role = "host")
  BY <1>1, CallStarted DEF IsHost, Roles, Hosts
<1>3. /\ x \in RequestRecords /\ x.pc = what /\ x.actor = rows[q.user].role
      /\ x.plan = q.plan /\ x.op = q.op /\ x.user = q.user /\ x.call = q.call
      /\ x.tx = q.tx /\ x.arg = q.arg
  BY <1>1, <1>2 DEF RequestRecords
<1>4. req' = [req EXCEPT ![r] = x]
  BY <1>1 DEF Read
<1> HIDE DEF x, q
<1>5. PlanFits(x)
  <2> SUFFICES ASSUME NEW i \in 1 .. Len(q.plan) PROVE StatementFits(x, i)
    BY <1>3 DEF PlanFits
  <2>1. StatementFits(q, i)
    BY <1>1 DEF Fits, PlanFits
  <2> QED
    BY <2>1, <1>3 DEF StatementFits
<1>6. OpFits(x) /\ TxFits(x)
  BY <1>1, <1>2, <1>3 DEF Fits, OpFits, TxFits, q
<1> QED
  BY <1>3, <1>4, <1>5, <1>6, ReadStep DEF Fits, q

-----------------------------------------------------------------------------
(* The reads that decide.                                                  *)
LEMMA RequestShape ==
    ASSUME CallInv, NEW r \in Requests
    PROVE  /\ req[r].user \in Users /\ req[r].target \in Users
           /\ req[r].call \in [status : CallStatuses, settings : CallSettings]
           /\ req[r].plan \in Seq(Statements) /\ req[r].tx \in Transactions
           /\ req[r].op \in AllOps \cup {"none"}
           /\ \A u \in Users : rows[u] # NoRow => rows[u] \in Row /\ rows[u].id \in Key
  BY DEF CallInv, RequestsFit, RequestRecords, TablesOK, Row, Key

LEMMA JoinOwnStep ==
    ASSUME CallInv, NEW r \in Requests, req[r].pc = "own", req[r].op = "join",
           DatabaseIsKept, JoinOwn(r)
    PROVE  CallInv'
<1> DEFINE u == req[r].user
<1>1. RequestsFit /\ u \in Users /\ 1 \in Key
  BY RequestShape DEF CallInv, Key
<1>2. CASE rows[u] # NoRow /\ Run(r, RejoinPlan(u, rows[u].id))
  <2>1. rows[u].id \in Key
    BY <1>1, <1>2, RequestShape
  <2> QED
    BY <1>1, <1>2, <2>1, JoinPlansSuit, RunStep
<1>3. CASE Refuse(r)
  BY <1>3, RefuseStep
<1>4. CASE Check(r, JoinPlan(r))
  BY <1>1, <1>4, JoinPlansSuit, CheckStep
<1>5. CASE Run(r, JoinPlan(r))
  BY <1>1, <1>5, JoinPlansSuit, RunStep
<1> QED
  BY <1>2, <1>3, <1>4, <1>5 DEF JoinOwn

LEMMA LeaveOwnStep ==
    ASSUME CallInv, NEW r \in Requests, req[r].pc = "own", req[r].op = "leave",
           DatabaseIsKept, LeaveOwn(r)
    PROVE  CallInv'
<1> DEFINE u == req[r].user
<1>1. RequestsFit /\ u \in Users
  BY RequestShape DEF CallInv
<1>2. CASE rows[u] # NoRow /\ Run(r, LeavePlan(u, rows[u].id))
  <2>1. rows[u].id \in Key
    BY <1>1, <1>2, RequestShape
  <2> QED
    BY <1>1, <1>2, <2>1, LeaveAndEndPlansSuit, RunStep
<1>3. CASE Refuse(r)
  BY <1>3, RefuseStep
<1> QED
  BY <1>2, <1>3 DEF LeaveOwn

LEMMA MediaOwnStep ==
    ASSUME CallInv, NEW r \in Requests, req[r].pc = "own", req[r].op = "media",
           DatabaseIsKept, MediaOwn(r)
    PROVE  CallInv'
<1> DEFINE u == req[r].user
           p == MediaPlan(u, rows[u], req[r].arg)
<1>1. RequestsFit /\ u \in Users
  BY RequestShape DEF CallInv
<1>2. CASE Refuse(r)
  BY <1>2, RefuseStep
<1>3. CASE rows[u] # NoRow /\ (Check(r, p) \/ Run(r, p))
  <2>1. rows[u] \in Row
    BY <1>1, <1>3, RequestShape
  <2>2. req[r].arg \in {"muted", "sharing"} \X BOOLEAN
    BY CallAssumption DEF CallInv, RequestsFit, Fits, OpFits, Args
  <2>3. p \in Seq(Statements) /\ Suits(req[r], p)
    BY <1>1, <2>1, <2>2, HostPlansSuit DEF AllOps, Transactional
  <2> HIDE DEF p
  <2> QED
    BY <1>3, <2>3, CheckStep, RunStep
<1> QED
  BY <1>2, <1>3 DEF MediaOwn

LEMMA HostOwnStep ==
    ASSUME CallInv, NEW r \in Requests, req[r].pc = "own",
           req[r].op \in AllOps \ {"join", "leave", "media", "offer"},
           DatabaseIsKept, HostOwn(r)
    PROVE  CallInv'
<1> DEFINE u == req[r].user
<1>1. RequestsFit /\ u \in Users
  BY RequestShape DEF CallInv
<1>2. CASE Refuse(r)
  BY <1>2, RefuseStep
<1>3. CASE req[r].op = "end" /\ Run(r, EndPlan(u, rows[u].id))
  <2>1. 1 \in Key
    BY DEF Key
  <2>2. EndPlan(u, rows[u].id) \in Seq(Statements) /\ Suits(req[r], EndPlan(u, rows[u].id))
    BY <1>1, <1>3, <2>1, LeaveAndEndPlansSuit
  <2> QED
    BY <1>3, <2>2, RunStep
<1>4. CASE /\ req[r].op = "settings"
           /\ Run(r, <<SetSettings(u, [req[r].call.settings EXCEPT
                                         ![req[r].arg[1]] = req[r].arg[2]])>>)
  <2> DEFINE set == [req[r].call.settings EXCEPT ![req[r].arg[1]] = req[r].arg[2]]
  <2>1. req[r].arg \in {"locked", "waitingRoom", "screenSharing"} \X BOOLEAN
    BY <1>4, CallAssumption DEF CallInv, RequestsFit, Fits, OpFits, Args
  <2>2. req[r].call.settings \in CallSettings
    BY RequestShape
  <2>3. set \in CallSettings
    BY <2>1, <2>2 DEF CallSettings
  <2> HIDE DEF set
  <2>4. /\ <<SetSettings(u, set)>> \in Seq(Statements)
        /\ Suits(req[r], <<SetSettings(u, set)>>)
    BY <1>1, <1>4, <2>3, HostPlansSuit DEF Transactional, AllOps
  <2>5. Run(r, <<SetSettings(u, set)>>)
    BY <1>4 DEF set
  <2> QED
    BY <2>4, <2>5, RunStep
<1>5. CASE IsHost(rows[u]) /\ req[r].op = "admitAll" /\ Read(r, "list")
  BY <1>5, NextReadStep
<1>6. CASE /\ IsHost(rows[u]) /\ req[r].op \in {"admit", "reject", "remove", "role", "mute"}
           /\ Read(r, "target")
  BY <1>6, NextReadStep
<1> QED
  BY <1>2, <1>3, <1>4, <1>5, <1>6 DEF HostOwn, AllOps

LEMMA ReadOwnStep ==
    ASSUME CallInv, NEW r \in Requests, ReadOwn(r)
    PROVE  CallInv'
<1>1. req[r].pc = "own" /\ DatabaseIsKept
  BY DEF ReadOwn
<1>2. req[r].op \in AllOps \ {"offer"}
  BY <1>1, CallAssumption DEF CallInv, RequestsFit, Fits, OpFits
<1>3. CASE req[r].op = "join"
  BY <1>1, <1>3, JoinOwnStep DEF ReadOwn
<1>4. CASE req[r].op = "leave"
  BY <1>1, <1>4, LeaveOwnStep DEF ReadOwn
<1>5. CASE req[r].op = "media"
  BY <1>1, <1>5, MediaOwnStep DEF ReadOwn
<1>6. CASE req[r].op \notin {"join", "leave", "media"}
  <2>1. HostOwn(r)
    BY <1>6 DEF ReadOwn
  <2> QED
    BY <1>1, <1>2, <1>6, <2>1, HostOwnStep
<1> QED
  BY <1>3, <1>4, <1>5, <1>6

(* Nothing a host may do to another reaches the creator's row: it is the   *)
(* host's, and it does not wait.                                           *)
LEMMA TargetPlanSuits ==
    ASSUME CallInv, NEW r \in Requests, req[r].pc = "target",
           TargetAllowed(r, rows[req[r].target])
    PROVE  LET p == TargetPlan(r, req[r].target, rows[req[r].target])
           IN  p \in Seq(Statements) /\ Suits(req[r], p)
<1> DEFINE t == req[r].target
           row == rows[t]
           p == TargetPlan(r, t, row)
<1>1. RequestsFit /\ t \in Users
  BY RequestShape DEF CallInv
<1>2. row \in Row /\ row.id \in Key
  BY <1>1, RequestShape DEF TargetAllowed
<1>3. /\ req[r].op \in {"admit", "reject", "remove", "role", "mute"}
      /\ req[r].op \in AllOps \ (Transactional \cup {"admitAll"})
      /\ req[r].user = Creator => req[r].actor = "host"
      /\ req[r].arg \in Args(req[r].op)
  BY DEF CallInv, RequestsFit, Fits, OpFits, Transactional, AllOps
<1>4. Hosts(rows[Creator])
  BY CallStarted
<1>5. req[r].pc # "run"
  OBVIOUS
<1>6. CASE req[r].op = "admit"
  <2>1. p = AdmitPlan(r, t, row.id)
    BY <1>6 DEF TargetPlan
  <2> QED
    BY <1>1, <1>2, <1>3, <1>5, <2>1, HostPlansSuit
<1>7. CASE req[r].op = "reject"
  <2>1. p = DeletePlan(t, row.id, "rejected") /\ t # Creator
    BY <1>4, <1>7 DEF TargetPlan, TargetAllowed, Hosts
  <2> QED
    BY <1>1, <1>2, <1>3, <1>5, <2>1, HostPlansSuit
<1>8. CASE req[r].op = "remove"
  <2>1. p = DeletePlan(t, row.id, "left") /\ t # Creator
    BY <1>4, <1>8 DEF TargetPlan, TargetAllowed, RemoveAllowed, Hosts
  <2> QED
    BY <1>1, <1>2, <1>3, <1>5, <2>1, HostPlansSuit
<1>9. CASE req[r].op = "role"
  <2>1. p = RolePlan(t, row, req[r].arg[2]) /\ req[r].arg[2] \in Roles
    BY <1>3, <1>9 DEF TargetPlan, Args
  <2>2. t = Creator => req[r].arg[2] = "host"
    BY <1>3, <1>4, <1>9 DEF TargetAllowed, RoleAllowed, Hosts
  <2> QED
    BY <1>1, <1>2, <1>3, <1>5, <2>1, <2>2, HostPlansSuit
<1>10. CASE req[r].op = "mute"
  <2>1. p = MediaPlan(t, row, req[r].arg)
    BY <1>10 DEF TargetPlan
  <2>2. req[r].arg \in {"muted", "sharing"} \X BOOLEAN
    <3>1. req[r].arg \in Patches["mute"]
      BY <1>3, <1>10 DEF Args
    <3>2. req[r].arg = <<"muted", TRUE>> \/ req[r].arg = <<"sharing", FALSE>>
      BY <3>1, CallAssumption
    <3>3. /\ <<"muted", TRUE>> \in {"muted", "sharing"} \X BOOLEAN
          /\ <<"sharing", FALSE>> \in {"muted", "sharing"} \X BOOLEAN
      OBVIOUS
    <3> QED
      BY <3>2, <3>3, Zenon
  <2> QED
    BY <1>1, <1>2, <1>3, <1>5, <2>1, <2>2, HostPlansSuit
<1> QED
  BY <1>3, <1>6, <1>7, <1>8, <1>9, <1>10

LEMMA ReadTargetStep ==
    ASSUME CallInv, NEW r \in Requests, ReadTarget(r)
    PROVE  CallInv'
<1>1. req[r].pc = "target" /\ DatabaseIsKept
  BY DEF ReadTarget
<1>2. CASE /\ TargetAllowed(r, rows[req[r].target])
           /\ Run(r, TargetPlan(r, req[r].target, rows[req[r].target]))
  BY <1>1, <1>2, TargetPlanSuits, RunStep
<1>3. CASE Refuse(r)
  BY <1>1, <1>3, RefuseStep
<1> QED
  BY <1>2, <1>3 DEF ReadTarget

LEMMA ReadListStep ==
    ASSUME CallInv, NEW r \in Requests, ReadList(r)
    PROVE  CallInv'
<1>1. req[r].pc = "list" /\ DatabaseIsKept
  BY DEF ReadList
<1>2. CASE Refuse(r)
  BY <1>1, <1>2, RefuseStep
<1>3. CASE Run(r, req[r].plan)
  <2> DEFINE q == req[r]
             x == [q EXCEPT !.plan = q.plan]
  <2>1. Fits(q) /\ q \in RequestRecords /\ q.plan \in Seq(Statements)
    BY DEF CallInv, RequestsFit, Fits, RequestRecords
  <2>2. x = q
    BY <2>1 DEF RequestRecords
  <2>3. PlanFits(x)
    BY <2>1, <2>2, Zenon DEF Fits
  <2>4. Suits(q, q.plan)
    BY <2>3 DEF Suits
  <2> QED
    BY <1>1, <1>3, <2>1, <2>4, RunStep
<1>4. CASE /\ req[r].op = "admitAll"
           /\ \E s \in WaitingLists : Run(r, AdmitAllPlan(s) \o ActivateIfRinging(r))
  <2>1. PICK s \in WaitingLists : Run(r, AdmitAllPlan(s) \o ActivateIfRinging(r))
    BY <1>4
  <2>2. LET p == AdmitAllPlan(s) \o ActivateIfRinging(r)
        IN  p \in Seq(Statements) /\ Suits(req[r], p)
    BY <1>1, <1>4, AdmitAllSuits DEF CallInv
  <2> QED
    BY <1>1, <2>1, <2>2, RunStep
<1> QED
  BY <1>2, <1>3, <1>4 DEF ReadList

-----------------------------------------------------------------------------
(* Steps that touch no row and no request's plan.                          *)
LEMMA RequestsKept ==
    ASSUME RequestsFit, UNCHANGED req
    PROVE  RequestsFit'
<1>1. \A q \in Requests : Fits(req[q])'
  <2> SUFFICES ASSUME NEW q \in Requests PROVE Fits(req'[q])
    BY DEF Fits, OpFits, PlanFits, StatementFits, TxFits
  <2> QED
    BY DEF RequestsFit
<1> QED
  BY <1>1 DEF RequestsFit

LEMMA InitInv == Init => CallInv
<1> SUFFICES ASSUME Init PROVE CallInv
  OBVIOUS
<1>1. TablesOK
  <2>1. NoCall \in [status : CallStatuses, settings : CallSettings]
    BY DEF NoCall, CallStatuses, CallSettings
  <2>2. NoEvent \in Event
    BY DEF NoEvent, Event
  <2> QED
    BY <2>1, <2>2, CallAssumption DEF Init, TablesOK, Key
<1>2. RequestsFit
  BY IdleFits DEF Init, RequestsFit, Fits
<1>3. CreatorIsSafe
  BY DEF Init, CreatorIsSafe, NoCall
<1> QED
  BY <1>1, <1>2, <1>3 DEF CallInv

LEMMA StartCallStep ==
    ASSUME CallInv, NEW settings \in StartSettings, StartCall(settings)
    PROVE  CallInv'
<1>1. settings \in CallSettings
  BY CallAssumption DEF CallSettings
<1>2. /\ call' \in [status : CallStatuses, settings : CallSettings]
      /\ call'.status # "none"
  BY <1>1 DEF StartCall, CallStatuses
<1>3. rows' \in [Users -> Row \cup {NoRow}] /\ Hosts(rows'[Creator])
  <2> DEFINE row == [id |-> next, role |-> "host", status |-> "connected",
                     muted |-> FALSE, sharing |-> FALSE]
  <2>1. row \in Row /\ Hosts(row)
    BY DEF Row, Roles, Statuses, Hosts, CallInv, TablesOK, Key
  <2>2. rows' = [rows EXCEPT ![Creator] = row]
    BY DEF StartCall
  <2> HIDE DEF row
  <2> QED
    BY <2>1, <2>2, CallAssumption DEF CallInv, TablesOK
<1>4. TablesOK'
  <2>1. room' \in [open : BOOLEAN, peers : SUBSET Users] /\ room'.peers = {}
    BY DEF CallInv, TablesOK, StartCall
  <2> QED
    BY <1>2, <1>3, <2>1 DEF CallInv, TablesOK, StartCall, Key
<1>5. RequestsFit'
  BY RequestsKept DEF CallInv, StartCall
<1>6. CreatorIsSafe'
  BY <1>2, <1>3 DEF CreatorIsSafe, Hosts
<1> QED
  BY <1>4, <1>5, <1>6 DEF CallInv

LEMMA TokenStep ==
    ASSUME CallInv, NEW u \in Users, IssueMediaJoinToken(u)
    PROVE  CallInv'
<1>1. TablesOK'
  BY DEF CallInv, TablesOK, IssueMediaJoinToken
<1>2. RequestsFit'
  BY RequestsKept DEF CallInv, IssueMediaJoinToken
<1>3. CreatorIsSafe'
  BY DEF CallInv, CreatorIsSafe, IssueMediaJoinToken, Hosts
<1> QED
  BY <1>1, <1>2, <1>3 DEF CallInv

LEMMA ArgsShape ==
    ASSUME NEW op \in AllOps
    PROVE  Args(op) \subseteq Arguments
<1>1. CASE op = "settings"
  BY <1>1, CallAssumption DEF Args, Arguments
<1>2. CASE op = "media"
  BY <1>2, CallAssumption DEF Args, Arguments
<1>3. CASE op = "mute"
  <2>1. Args(op) \subseteq {<<"muted", TRUE>>, <<"sharing", FALSE>>}
    BY <1>3, CallAssumption DEF Args
  <2>2. /\ <<"muted", TRUE>> \in {"muted", "sharing"} \X BOOLEAN
        /\ <<"sharing", FALSE>> \in {"muted", "sharing"} \X BOOLEAN
    OBVIOUS
  <2> QED
    BY <2>1, <2>2, Zenon DEF Arguments
<1>4. CASE op = "role"
  BY <1>4 DEF Args, Arguments, Roles
<1>5. CASE op \notin {"settings", "media", "mute", "role"}
  BY <1>5 DEF Args, Arguments
<1> QED
  BY <1>1, <1>2, <1>3, <1>4, <1>5

LEMMA BeginStep ==
    ASSUME CallInv, NEW r \in Requests, NEW op \in Ops, NEW u \in Users, NEW t \in Users,
           NEW arg \in Args(op), Begin(r, op, u, t, arg)
    PROVE  CallInv'
<1> DEFINE x == [Idle EXCEPT !.pc = IF op = "offer" THEN "room" ELSE "own",
                             !.op = op, !.user = u, !.target = t, !.arg = arg,
                             !.call = call]
<1>1. op \in AllOps /\ arg \in Arguments
  BY CallAssumption, ArgsShape
<1>2. /\ Idle \in RequestRecords /\ Idle.plan = <<>> /\ Idle.tx = NoTx
  BY IdleFits DEF Fits, Idle
<1>3. /\ x \in RequestRecords /\ x.plan = <<>> /\ x.tx = NoTx /\ x.op = op
      /\ x.pc = (IF op = "offer" THEN "room" ELSE "own") /\ x.arg = arg
  BY <1>1, <1>2 DEF RequestRecords, CallInv, TablesOK
<1>4. req' = [req EXCEPT ![r] = x]
  BY DEF Begin
<1> HIDE DEF x
<1>5. PlanFits(x)
  BY <1>3 DEF PlanFits
<1>6. OpFits(x) /\ TxFits(x)
  BY <1>3 DEF OpFits, TxFits, NoTx
<1>7. RequestsFit'
  BY <1>3, <1>4, <1>5, <1>6, OneRequest DEF Fits, CallInv
<1>8. TablesOK'
  <2>1. begun' \in 0 .. MaxRequests
    BY CallAssumption DEF Begin, CallInv, TablesOK
  <2> QED
    BY <2>1 DEF Begin, CallInv, TablesOK
<1>9. CreatorIsSafe'
  BY DEF Begin, CallInv, CreatorIsSafe, Hosts
<1> QED
  BY <1>7, <1>8, <1>9 DEF CallInv

-----------------------------------------------------------------------------
(* Statements.  What is next in a plan, and what it may be.                *)
LEMMA NextStatement ==
    ASSUME CallInv, NEW r \in Requests, req[r].pc = "run", req[r].plan # <<>>
    PROVE  /\ Statement(r) \in Statements /\ StatementFits(req[r], 1)
           /\ Statement(r) = req[r].plan[1] /\ Len(req[r].plan) \in Nat \ {0}
           /\ Fits(req[r]) /\ req[r] \in RequestRecords
           /\ Fits([req[r] EXCEPT !.plan = Tail(@)])
<1>1. Fits(req[r]) /\ req[r] \in RequestRecords /\ req[r].plan \in Seq(Statements)
  BY DEF CallInv, RequestsFit, Fits, RequestRecords
<1>2. /\ Head(req[r].plan) \in Statements /\ Head(req[r].plan) = req[r].plan[1]
      /\ Len(req[r].plan) \in Nat \ {0} /\ 1 \in 1 .. Len(req[r].plan)
  BY <1>1
<1>3. StatementFits(req[r], 1)
  BY <1>1, <1>2 DEF Fits, PlanFits
<1> QED
  BY <1>1, <1>2, <1>3, NextStatementFits DEF Statement

(* A transaction that has written and goes on.                             *)
LEMMA WrittenInTx ==
    ASSUME NEW q, Fits(q), q.pc = "run", q.op \in Transactional, q.plan # <<>>,
           NEW tx \in Transactions, NEW ended \in BOOLEAN,
           tx.row # NoRow => tx.user = q.user,
           tx.row # NoRow /\ tx.user = Creator => Hosts(tx.row),
           tx.status = "active" => q.call.status = "ringing",
           tx.status # "none" => q.tx.status # "none" \/ q.plan[1].do \in CallKinds
    PROVE  Fits([q EXCEPT !.plan = Tail(@), !.tx = tx, !.ended = ended])
<1> DEFINE m == [q EXCEPT !.plan = Tail(@)]
           n == [q EXCEPT !.plan = Tail(@), !.tx = tx, !.ended = ended]
<1>1. q.plan \in Seq(Statements) /\ q \in RequestRecords
  BY DEF Fits, RequestRecords
<1>2. /\ Tail(q.plan) \in Seq(Statements) /\ Len(Tail(q.plan)) = Len(q.plan) - 1
      /\ \A i \in 1 .. Len(Tail(q.plan)) : Tail(q.plan)[i] = q.plan[i + 1]
      /\ Len(q.plan) \in Nat /\ 1 \in 1 .. Len(q.plan)
  BY <1>1
<1>3. /\ m.plan = Tail(q.plan) /\ m.op = q.op /\ m.user = q.user /\ m.call = q.call
      /\ m.tx = q.tx /\ Fits(m)
  BY <1>1, NextStatementFits DEF RequestRecords
<1>4. /\ n \in RequestRecords /\ n.plan = Tail(q.plan) /\ n.op = q.op /\ n.user = q.user
      /\ n.call = q.call /\ n.tx = tx /\ n.pc = q.pc /\ n.arg = q.arg /\ n.actor = q.actor
  BY <1>1, <1>2 DEF RequestRecords
<1> HIDE DEF m, n
<1>5. ASSUME NEW i \in 1 .. Len(n.plan) PROVE StatementFits(n, i)
  <2>1. StatementFits(m, i) /\ n.plan = m.plan
    BY <1>3, <1>4 DEF Fits, PlanFits
  <2>2. StatementFits(q, 1)
    BY <1>2 DEF Fits, PlanFits
  <2>3. i + 1 \in 1 .. Len(q.plan) /\ 1 < i + 1 /\ n.plan[i] = q.plan[i + 1]
    BY <1>2, <1>4
  <2>4. n.plan[i].do \notin RowKinds
    BY <2>2, <2>3 DEF StatementFits
  <2>5. tx.status # "none" => n.plan[i].do = "event"
    <3>1. CASE q.tx.status # "none"
      BY <1>3, <2>1, <3>1 DEF StatementFits
    <3>2. CASE q.plan[1].do \in CallKinds
      BY <2>2, <2>3, <3>2 DEF StatementFits
    <3> QED
      BY <3>1, <3>2
  <2> QED
    BY <1>3, <1>4, <2>1, <2>4, <2>5 DEF StatementFits
<1>6. OpFits(n) /\ TxFits(n)
  BY <1>4 DEF Fits, OpFits, TxFits
<1> QED
  BY <1>4, <1>5, <1>6 DEF Fits, PlanFits, n

(* What a statement makes of the row it found.                             *)
LEMMA RowWrittenShape ==
    ASSUME next \in Key, NEW s \in Statements, s.do \in RowKinds,
           NEW row \in Row \cup {NoRow}, s.do # "insert" => row # NoRow
    PROVE  /\ RowWritten(row, s) \in Row \cup {NoRow}
           /\ s.do # "insert" /\ s.user = Creator /\ Hosts(row) => Hosts(RowWritten(row, s))
<1> USE StatementShape
<1>1. CASE s.do \in {"connect", "disconnect"}
  BY <1>1 DEF RowWritten, Row, Statuses, Hosts
<1>2. CASE s.do = "role"
  BY <1>2 DEF RowWritten, Row, Hosts
<1>3. CASE s.do = "media"
  BY <1>3 DEF RowWritten, Row, Hosts
<1>4. CASE s.do = "delete"
  BY <1>4 DEF RowWritten
<1>5. CASE s.do = "insert"
  BY <1>5 DEF RowWritten, Row, Roles, Statuses, Key
<1> QED
  BY <1>1, <1>2, <1>3, <1>4, <1>5 DEF RowKinds

(* The plan of a request that is past a statement, or two.                 *)
LEMMA SkipFits ==
    ASSUME CallInv, NEW r \in Requests, req[r].pc = "run", req[r].plan # <<>>,
           req[r].op = "admitAll", Statement(r).do \in RowKinds
    PROVE  Fits([req[r] EXCEPT !.plan = Tail(Tail(@))])
<1> DEFINE q == req[r]
           m == [q EXCEPT !.plan = Tail(@)]
<1>1. /\ Fits(q) /\ q \in RequestRecords /\ StatementFits(q, 1)
      /\ q.plan[1].do \in RowKinds /\ Len(q.plan) \in Nat \ {0} /\ Fits(m)
  BY NextStatement
<1>2. q.plan \in Seq(Statements)
  BY <1>1 DEF RequestRecords
<1>3. 1 < Len(q.plan)
  BY <1>1 DEF StatementFits
<1>4. m.plan = Tail(q.plan) /\ Tail(q.plan) # <<>>
  <2>1. Len(Tail(q.plan)) = Len(q.plan) - 1 /\ Tail(q.plan) \in Seq(Statements)
    BY <1>2, <1>3
  <2>2. Len(q.plan) \in Nat
    BY <1>1
  <2>3. Tail(q.plan) # <<>>
    <3> DEFINE t == Tail(q.plan)
               n == Len(q.plan)
    <3>1. Len(t) = n - 1 /\ n \in Nat /\ 1 < n
      BY <1>3, <2>1, <2>2
    <3> HIDE DEF t, n
    <3>2. t # <<>>
      BY <3>1
    <3> QED
      BY <3>2 DEF t
  <2> QED
    BY <1>1, <2>3 DEF RequestRecords
<1>5. Fits([m EXCEPT !.plan = Tail(@)])
  BY <1>1, <1>4, NextStatementFits
<1>6. [m EXCEPT !.plan = Tail(@)] = [q EXCEPT !.plan = Tail(Tail(@))]
  BY <1>1, <1>4 DEF RequestRecords
<1> HIDE DEF m
<1> QED
  BY <1>5, <1>6, Zenon

LEMMA PastStatement ==
    ASSUME CallInv, NEW r \in Requests, req[r].pc = "run", req[r].plan # <<>>,
           req' = [req EXCEPT ![r].plan = Tail(@)]
    PROVE  RequestsFit'
<1> DEFINE x == [req[r] EXCEPT !.plan = Tail(@)]
<1>1. Fits(x)
  BY NextStatement
<1>2. req' = [req EXCEPT ![r] = x]
  BY DEF CallInv, RequestsFit
<1> HIDE DEF x
<1> QED
  BY <1>1, <1>2, OneRequest DEF CallInv

(* The row a statement finds: never the creator's for an insertion.        *)
LEMMA RowFoundShape ==
    ASSUME CallInv, NEW r \in Requests, req[r].pc = "run", req[r].plan # <<>>,
           Statement(r).do \in RowKinds, RowFound(r, Statement(r))
    PROVE  LET s == Statement(r)
               row == RowWritten(RowSeen(r, s.user), s)
           IN  /\ row \in Row \cup {NoRow}
               /\ s.user = Creator => Hosts(row)
<1> DEFINE s == Statement(r)
           seen == RowSeen(r, s.user)
<1>1. /\ s \in Statements /\ s.user \in Users /\ Fits(req[r])
      /\ s.do \in RowKinds \ {"insert"} => s.id \in Key
  BY NextStatement, StatementShape
<1>2. seen \in Row \cup {NoRow} /\ (s.user = Creator => Hosts(seen))
  <2>1. req[r].tx.row \in Row \cup {NoRow}
    BY RequestShape DEF Transactions
  <2>2. rows[s.user] \in Row \cup {NoRow} /\ Hosts(rows[Creator])
    BY <1>1, CallStarted DEF CallInv, TablesOK
  <2>3. req[r].tx.row # NoRow /\ req[r].tx.user = Creator => Hosts(req[r].tx.row)
    BY <1>1 DEF Fits, TxFits
  <2> QED
    BY <2>1, <2>2, <2>3 DEF RowSeen
<1>3. s.do # "insert" => seen # NoRow
  BY <1>1 DEF RowFound, NoRow, Key
<1>4. s.do = "insert" => s.user # Creator
  BY <1>2 DEF RowFound, Hosts, NoRow
<1>5. next \in Key
  BY DEF CallInv, TablesOK
<1> HIDE DEF s, seen
<1>6. /\ RowWritten(seen, s) \in Row \cup {NoRow}
      /\ s.do # "insert" /\ s.user = Creator /\ Hosts(seen) => Hosts(RowWritten(seen, s))
  BY <1>1, <1>2, <1>3, <1>5, RowWrittenShape DEF s
<1> QED
  BY <1>2, <1>4, <1>6 DEF s, seen

LEMMA WriteRowStep ==
    ASSUME CallInv, NEW r \in Requests, WriteRow(r)
    PROVE  CallInv'
<1> DEFINE s == Statement(r)
           row == RowWritten(RowSeen(r, s.user), s)
<1>1. /\ req[r].pc = "run" /\ req[r].plan # <<>> /\ s.do \in RowKinds
      /\ UNCHANGED <<call, lastEvent, room, tokens, begun, faults>>
  BY DEF WriteRow, AtStatement, RowKinds
<1>2. s \in Statements /\ s.user \in Users /\ Fits(req[r]) /\ StatementFits(req[r], 1)
      /\ s = req[r].plan[1]
  BY <1>1, NextStatement, StatementShape
<1>3. call.status # "none" /\ Hosts(rows[Creator])
  BY <1>1, CallStarted
<1>4. CASE RowFound(r, s)  /\ InTx(r)
           /\ req' = [req EXCEPT ![r].plan = Tail(@),
                                 ![r].tx.user = s.user, ![r].tx.row = row]
           /\ rows' = rows /\ next' = next + (IF s.do = "insert" THEN 1 ELSE 0)
  <2> DEFINE tx == [req[r].tx EXCEPT !.user = s.user, !.row = row]
             x  == [req[r] EXCEPT !.plan = Tail(@), !.tx = tx, !.ended = req[r].ended]
  <2>1. row \in Row \cup {NoRow} /\ (s.user = Creator => Hosts(row))
    BY <1>1, <1>4, RowFoundShape
  <2> HIDE DEF s, row
  <2>2. /\ req[r] \in RequestRecords /\ req[r].tx \in Transactions
        /\ req[r].ended \in BOOLEAN
    BY <1>2 DEF Fits, RequestRecords
  <2>3. /\ tx \in Transactions /\ tx.user = s.user /\ tx.row = row
        /\ tx.status = req[r].tx.status
    BY <1>2, <2>1, <2>2 DEF Transactions
  <2>4. s.user = req[r].user
    BY <1>1, <1>2, <1>4 DEF StatementFits, InTx
  <2>5. tx.status = "active" => req[r].call.status = "ringing"
    BY <1>2, <2>3 DEF Fits, TxFits
  <2>6. req' = [req EXCEPT ![r] = x]
    BY <1>4, <2>2 DEF CallInv, RequestsFit, RequestRecords, Transactions
  <2> HIDE DEF tx
  <2>7. Fits(x)
    BY <1>1, <1>2, <1>4, <2>1, <2>2, <2>3, <2>4, <2>5, WrittenInTx DEF InTx
  <2> HIDE DEF x
  <2>8. RequestsFit'
    BY <2>6, <2>7, OneRequest DEF CallInv
  <2>9. next' \in Key
    BY <1>4 DEF CallInv, TablesOK, Key
  <2> QED
    BY <1>1, <1>3, <1>4, <2>8, <2>9 DEF CallInv, TablesOK, CreatorIsSafe, Hosts
<1>5. CASE RowFound(r, s)  /\ ~InTx(r)
           /\ req' = [req EXCEPT ![r].plan = Tail(@)]
           /\ rows' = [rows EXCEPT ![s.user] = row]
           /\ next' = next + (IF s.do = "insert" THEN 1 ELSE 0)
  <2>1. row \in Row \cup {NoRow} /\ (s.user = Creator => Hosts(row))
    BY <1>1, <1>5, RowFoundShape
  <2>2. RequestsFit'
    BY <1>1, <1>5, PastStatement
  <2> HIDE DEF s, row
  <2>3. rows' \in [Users -> Row \cup {NoRow}] /\ Hosts(rows'[Creator])
    BY <1>2, <1>3, <1>5, <2>1, CallAssumption DEF CallInv, TablesOK
  <2>4. next' \in Key
    BY <1>5 DEF CallInv, TablesOK, Key
  <2> QED
    BY <1>1, <1>3, <2>2, <2>3, <2>4 DEF CallInv, TablesOK, CreatorIsSafe, Hosts
<1>6. CASE req[r].op = "admitAll" /\ req' = [req EXCEPT ![r].plan = Tail(Tail(@))]
           /\ UNCHANGED <<rows, next>>
  <2> DEFINE x == [req[r] EXCEPT !.plan = Tail(Tail(@))]
  <2>1. Fits(x)
    BY <1>1, <1>6, SkipFits
  <2>2. req' = [req EXCEPT ![r] = x]
    BY <1>6 DEF CallInv, RequestsFit
  <2> HIDE DEF x
  <2>3. RequestsFit'
    BY <2>1, <2>2, OneRequest DEF CallInv
  <2> QED
    BY <1>1, <1>3, <1>6, <2>3 DEF CallInv, TablesOK, CreatorIsSafe, Hosts
<1>7. CASE Refuse(r) /\ UNCHANGED <<rows, next>>
  BY <1>1, <1>7, RefuseStep DEF DatabaseIsKept
<1> QED
  BY <1>4, <1>5, <1>6, <1>7 DEF WriteRow

LEMMA WriteCallStep ==
    ASSUME CallInv, NEW r \in Requests, WriteCall(r)
    PROVE  CallInv'
<1> DEFINE s == Statement(r)
           status == IF s.do = "end" THEN "ended" ELSE "active"
<1>1. /\ req[r].pc = "run" /\ req[r].plan # <<>> /\ s.do \in {"activate", "end"}
      /\ UNCHANGED <<rows, lastEvent, room, tokens, next, begun, faults>>
  BY DEF WriteCall, AtStatement
<1>2. Fits(req[r]) /\ StatementFits(req[r], 1) /\ s = req[r].plan[1]
  BY <1>1, NextStatement
<1>3. call.status # "none" /\ Hosts(rows[Creator])
  BY <1>1, CallStarted
<1>4. CASE /\ InTx(r) /\ call' = call
           /\ req' = [req EXCEPT ![r].plan = Tail(@), ![r].tx.status = status,
                                 ![r].ended = status = "ended"]
  <2> DEFINE tx == [req[r].tx EXCEPT !.status = status]
             ended == status = "ended"
             x  == [req[r] EXCEPT !.plan = Tail(@), !.tx = tx, !.ended = ended]
  <2>1. req[r] \in RequestRecords /\ req[r].tx \in Transactions /\ ended \in BOOLEAN
    BY <1>2 DEF Fits, RequestRecords
  <2>2. /\ tx \in Transactions /\ tx.user = req[r].tx.user /\ tx.row = req[r].tx.row
        /\ tx.status = status
    BY <2>1 DEF Transactions
  <2>3. tx.status = "active" => req[r].call.status = "ringing"
    BY <1>1, <1>2, <2>2 DEF StatementFits
  <2>4. req' = [req EXCEPT ![r] = x]
    BY <1>4, <2>1 DEF CallInv, RequestsFit, RequestRecords, Transactions
  <2>5. tx.status # "none" => req[r].plan[1].do \in CallKinds
    BY <1>1, <1>2 DEF CallKinds
  <2>6. /\ tx.row # NoRow => tx.user = req[r].user
        /\ tx.row # NoRow /\ tx.user = Creator => Hosts(tx.row)
    BY <1>2, <2>2 DEF Fits, TxFits
  <2> HIDE DEF tx, ended
  <2>7. Fits(x)
    BY <1>1, <1>2, <1>4, <2>1, <2>2, <2>3, <2>5, <2>6, WrittenInTx DEF InTx
  <2> HIDE DEF x
  <2>8. RequestsFit'
    BY <2>4, <2>7, OneRequest DEF CallInv
  <2> QED
    BY <1>1, <1>3, <1>4, <2>8 DEF CallInv, TablesOK, CreatorIsSafe, Hosts
<1>5. CASE /\ ~InTx(r) /\ req' = [req EXCEPT ![r].plan = Tail(@)]
           /\ call' = [call EXCEPT !.status = status]
  <2>1. RequestsFit'
    BY <1>1, <1>5, PastStatement
  <2>2. call' \in [status : CallStatuses, settings : CallSettings] /\ call'.status # "none"
    BY <1>5 DEF CallInv, TablesOK, CallStatuses
  <2> QED
    BY <1>1, <1>3, <2>1, <2>2 DEF CallInv, TablesOK, CreatorIsSafe, Hosts
<1> QED
  BY <1>4, <1>5 DEF WriteCall

LEMMA WriteSettingsStep ==
    ASSUME CallInv, NEW r \in Requests, WriteSettings(r)
    PROVE  CallInv'
<1>1. /\ req[r].pc = "run" /\ req[r].plan # <<>> /\ Statement(r).do = "settings"
      /\ UNCHANGED <<rows, lastEvent, room, tokens, next, begun, faults>>
      /\ req' = [req EXCEPT ![r].plan = Tail(@)]
      /\ call' = [call EXCEPT !.settings = Statement(r).settings]
  BY DEF WriteSettings, AtStatement
<1>2. RequestsFit'
  BY <1>1, PastStatement
<1>3. call' \in [status : CallStatuses, settings : CallSettings] /\ call'.status = call.status
  BY <1>1, NextStatement, StatementShape DEF CallInv, TablesOK
<1> QED
  BY <1>1, <1>2, <1>3, CallStarted DEF CallInv, TablesOK, CreatorIsSafe, Hosts

LEMMA ListAfterLeaveStep ==
    ASSUME CallInv, NEW r \in Requests, ListAfterLeave(r)
    PROVE  CallInv'
<1> DEFINE q == req[r]
           p == IF LastOneOut(r, q.user) /\ q.call.status # "ended"
                THEN <<EndRow(q.user)>> ELSE <<>>
           x == [q EXCEPT !.plan = p]
<1>1. /\ q.pc = "run" /\ q.plan # <<>> /\ Statement(r).do = "endIfEmpty"
      /\ DatabaseIsKept /\ req' = [req EXCEPT ![r].plan = p]
  BY DEF ListAfterLeave, AtStatement
<1>2. /\ Fits(q) /\ StatementFits(q, 1) /\ Statement(r) = q.plan[1]
      /\ q \in RequestRecords /\ q.user \in Users
  BY <1>1, NextStatement, RequestShape
<1>3. /\ q.op \in Transactional /\ q.tx.status = "none"
  BY <1>1, <1>2 DEF StatementFits, RequestRecords, Transactions
<1>4. EndRow(q.user) \in Statements /\ EndRow(q.user).do = "end"
  BY <1>2, StatementsMade DEF EndRow
<1>5. p \in Seq(Statements) /\ Len(p) \in {0, 1}
      /\ (\A i \in 1 .. Len(p) : i = 1 /\ p[i].do = "end")
  BY <1>4
<1> HIDE DEF p
<1>6. /\ x \in RequestRecords /\ x.plan = p /\ x.op = q.op /\ x.user = q.user
      /\ x.call = q.call /\ x.tx = q.tx /\ x.pc = q.pc /\ x.arg = q.arg /\ x.actor = q.actor
  BY <1>2, <1>5 DEF RequestRecords
<1>7. req' = [req EXCEPT ![r] = x]
  BY <1>1 DEF CallInv, RequestsFit
<1> HIDE DEF x, q
<1>8. ASSUME NEW i \in 1 .. Len(p) PROVE StatementFits(x, i)
  BY <1>3, <1>5, <1>6 DEF StatementFits, RowKinds, Transactional
<1>9. OpFits(x) /\ TxFits(x)
  BY <1>2, <1>6 DEF Fits, OpFits, TxFits
<1> QED
  BY <1>1, <1>6, <1>7, <1>8, <1>9, ReadStep DEF Fits, PlanFits, q

LEMMA EnqueueEventStep ==
    ASSUME CallInv, NEW r \in Requests, EnqueueEvent(r)
    PROVE  CallInv'
<1> DEFINE e == [seq |-> next, own |-> TRUE, what |-> Statement(r).what]
           tx == [req[r].tx EXCEPT !.event = e]
           x  == [req[r] EXCEPT !.plan = Tail(@), !.tx = tx, !.ended = req[r].ended]
<1>1. /\ req[r].pc = "run" /\ req[r].plan # <<>> /\ Statement(r).do = "event"
      /\ next' = next + 1 /\ UNCHANGED <<call, rows, lastEvent, room, tokens, begun, faults>>
      /\ req' = [req EXCEPT ![r].plan = Tail(@), ![r].tx.event = e]
  BY DEF EnqueueEvent, AtStatement
<1>2. /\ Fits(req[r]) /\ StatementFits(req[r], 1) /\ Statement(r) = req[r].plan[1]
      /\ req[r] \in RequestRecords /\ Statement(r) \in Statements
  BY <1>1, NextStatement
<1>3. e \in Event
  BY <1>1, <1>2, StatementShape DEF CallInv, TablesOK, Key, Event
<1> HIDE DEF e
<1>4. req[r].tx \in Transactions /\ req[r].ended \in BOOLEAN
  BY <1>2 DEF RequestRecords
<1>5. /\ tx \in Transactions /\ tx.user = req[r].tx.user /\ tx.row = req[r].tx.row
      /\ tx.status = req[r].tx.status
  BY <1>3, <1>4 DEF Transactions
<1>6. req' = [req EXCEPT ![r] = x]
  BY <1>1, <1>2 DEF CallInv, RequestsFit, RequestRecords, Transactions
<1>7. /\ tx.row # NoRow => tx.user = req[r].user
      /\ tx.row # NoRow /\ tx.user = Creator => Hosts(tx.row)
      /\ tx.status = "active" => req[r].call.status = "ringing"
      /\ req[r].op \in Transactional
  BY <1>1, <1>2, <1>5 DEF Fits, TxFits, StatementFits
<1> HIDE DEF tx
<1>8. Fits(x)
  BY <1>1, <1>2, <1>4, <1>5, <1>7, WrittenInTx
<1> HIDE DEF x
<1>9. RequestsFit'
  BY <1>6, <1>8, OneRequest DEF CallInv
<1>10. next' \in Key
  BY <1>1 DEF CallInv, TablesOK, Key
<1> QED
  BY <1>1, <1>9, <1>10, CallStarted DEF CallInv, TablesOK, CreatorIsSafe, Hosts

LEMMA PublishEventStep ==
    ASSUME CallInv, NEW r \in Requests, PublishEvent(r)
    PROVE  CallInv'
<1> DEFINE s == Statement(r)
<1>1. /\ req[r].pc = "run" /\ req[r].plan # <<>> /\ s.do = "publish"
      /\ UNCHANGED <<call, rows, room, tokens, begun>>
      /\ req' = [req EXCEPT ![r].plan = Tail(@)]
  BY DEF PublishEvent, AtStatement
<1>2. s \in Statements /\ s.user \in Users
  BY <1>1, NextStatement, StatementShape
<1>3. RequestsFit'
  BY <1>1, PastStatement
<1>4. lastEvent' \in [Users -> Event] /\ next' \in Key /\ faults' \in 0 .. MaxFaults
  <2> DEFINE e == [seq |-> next, own |-> FALSE, what |-> s.what]
  <2>1. e \in Event
    BY <1>1, <1>2, StatementShape DEF CallInv, TablesOK, Key, Event
  <2>2. CASE lastEvent' = [lastEvent EXCEPT ![s.user] = e] /\ next' = next + 1 /\ faults' = faults
    <3> HIDE DEF e, s
    <3>1. lastEvent' \in [Users -> Event]
      BY <1>2, <2>1, <2>2 DEF CallInv, TablesOK
    <3> QED
      BY <2>2, <3>1 DEF CallInv, TablesOK, Key
  <2>3. CASE faults < MaxFaults /\ faults' = faults + 1 /\ UNCHANGED <<lastEvent, next>>
    BY <2>3, CallAssumption DEF CallInv, TablesOK
  <2> QED
    BY <2>2, <2>3 DEF PublishEvent
<1> QED
  BY <1>1, <1>3, <1>4, CallStarted DEF CallInv, TablesOK, CreatorIsSafe, Hosts

(* The end of a plan.                                                      *)
LEMMA ClosingFits == Fits([Idle EXCEPT !.pc = "close"])
<1> DEFINE x == [Idle EXCEPT !.pc = "close"]
<1>1. Idle \in RequestRecords /\ Idle.plan = <<>> /\ Idle.tx = NoTx /\ Idle.op = "none"
  BY IdleFits DEF Fits, Idle
<1>2. /\ x \in RequestRecords /\ x.plan = <<>> /\ x.tx = NoTx /\ x.op = "none"
      /\ x.pc = "close"
  BY <1>1 DEF RequestRecords
<1> HIDE DEF x
<1>3. PlanFits(x)
  BY <1>2 DEF PlanFits
<1>4. OpFits(x) /\ TxFits(x)
  BY <1>2 DEF OpFits, TxFits, NoTx
<1> QED
  BY <1>2, <1>3, <1>4 DEF Fits, x

LEMMA CommitStep ==
    ASSUME CallInv, NEW r \in Requests, Commit(r)
    PROVE  CallInv'
<1> DEFINE tx == req[r].tx
<1>1. req[r].pc = "run" /\ UNCHANGED <<room, tokens, next, begun>>
  BY DEF Commit
<1>2. /\ Fits(req[r]) /\ tx \in Transactions /\ req[r].user \in Users
      /\ req \in [Requests -> RequestRecords]
  BY RequestShape DEF CallInv, RequestsFit
<1>3. call.status # "none" /\ Hosts(rows[Creator])
  BY <1>1, CallStarted
<1>4. rows' \in [Users -> Row \cup {NoRow}] /\ Hosts(rows'[Creator])
  <2>1. tx.row # NoRow /\ tx.user = Creator => Hosts(tx.row)
    BY <1>2 DEF Fits, TxFits
  <2>2. tx.user \in Users /\ tx.row \in Row \cup {NoRow}
    BY <1>2 DEF Transactions
  <2>3. rows' = IF tx.row # NoRow THEN [rows EXCEPT ![tx.user] = tx.row] ELSE rows
    BY DEF Commit
  <2> HIDE DEF tx
  <2> QED
    BY <1>3, <2>1, <2>2, <2>3, CallAssumption DEF CallInv, TablesOK
<1>5. call' \in [status : CallStatuses, settings : CallSettings] /\ call'.status # "none"
  <2>1. tx.status \in {"none", "active", "ended"}
    BY <1>2 DEF Transactions
  <2>2. call' = IF tx.status # "none" THEN [call EXCEPT !.status = tx.status] ELSE call
    BY DEF Commit
  <2> HIDE DEF tx
  <2> QED
    BY <1>3, <2>1, <2>2 DEF CallInv, TablesOK, CallStatuses
<1>6. lastEvent' \in [Users -> Event]
  <2>1. tx.event \in Event
    BY <1>2 DEF Transactions
  <2>2. lastEvent' = [lastEvent EXCEPT ![req[r].user] = Later(tx.event, @)]
    BY DEF Commit
  <2>3. lastEvent \in [Users -> Event]
    BY DEF CallInv, TablesOK
  <2> HIDE DEF tx
  <2>4. Later(tx.event, lastEvent[req[r].user]) \in Event
    BY <1>2, <2>1, <2>3 DEF Later
  <2> QED
    BY <2>2, <2>3, <2>4
<1>7. RequestsFit' /\ faults' \in 0 .. MaxFaults
  <2>1. CASE req' = [req EXCEPT ![r] = Idle] /\ faults' = faults
    BY <2>1, IdleFits, OneRequest DEF CallInv, TablesOK
  <2>2. CASE req' = [req EXCEPT ![r] = [Idle EXCEPT !.pc = "close"]] /\ faults' = faults
    <3> DEFINE x == [Idle EXCEPT !.pc = "close"]
    <3>1. Fits(x) /\ req' = [req EXCEPT ![r] = x]
      BY <2>2, ClosingFits
    <3> HIDE DEF x
    <3> QED
      BY <2>2, <3>1, OneRequest DEF CallInv, TablesOK
  <2>3. CASE req' = [req EXCEPT ![r] = Idle] /\ faults < MaxFaults /\ faults' = faults + 1
    <3>1. faults' \in 0 .. MaxFaults
      BY <2>3, CallAssumption DEF CallInv, TablesOK
    <3>2. RequestsFit'
      BY <2>3, IdleFits, OneRequest DEF CallInv
    <3> QED
      BY <3>1, <3>2
  <2> QED
    BY <1>2, <2>1, <2>2, <2>3 DEF Commit
<1> QED
  BY <1>1, <1>3, <1>4, <1>5, <1>6, <1>7 DEF CallInv, TablesOK, CreatorIsSafe, Hosts

LEMMA RoomStep ==
    ASSUME CallInv, NEW r \in Requests, CloseRooms(r) \/ MediaOffer(r)
    PROVE  CallInv'
<1>1. /\ req[r].pc # "idle" /\ req' = [req EXCEPT ![r] = Idle]
      /\ UNCHANGED <<call, rows, lastEvent, tokens, next, begun, faults>>
  BY DEF CloseRooms, MediaOffer
<1>2. call.status # "none" /\ Hosts(rows[Creator])
  BY <1>1, CallStarted
<1>3. RequestsFit'
  BY <1>1, IdleFits, OneRequest DEF CallInv
<1>4. room' \in [open : BOOLEAN, peers : SUBSET Users] /\ (room'.peers # {} => room'.open)
  <2>1. CASE CloseRooms(r)
    BY <2>1 DEF CloseRooms
  <2>2. CASE MediaOffer(r)
    <3>1. req[r].user \in Users
      BY RequestShape
    <3> QED
      BY <2>2, <3>1 DEF MediaOffer, CallInv, TablesOK
  <2> QED
    BY <2>1, <2>2
<1> QED
  BY <1>1, <1>2, <1>3, <1>4 DEF CallInv, TablesOK, CreatorIsSafe, Hosts

LEMMA FaultStep ==
    ASSUME CallInv, NEW r \in Requests, StatementFails(r)
    PROVE  CallInv'
<1>1. /\ req[r].pc # "idle" /\ faults' \in 0 .. MaxFaults
      /\ UNCHANGED <<call, rows, lastEvent, room, tokens, next, begun>>
  BY CallAssumption DEF StatementFails, CallInv, TablesOK
<1>2. RequestsFit'
  <2>1. CASE Refuse(r)
    BY <2>1, IdleFits, OneRequest DEF Refuse, CallInv
  <2>2. CASE /\ req[r].op = "admitAll" /\ AtStatement(r, {"connect"})
             /\ req' = [req EXCEPT ![r].plan = Tail(Tail(@))]
    <3> DEFINE x == [req[r] EXCEPT !.plan = Tail(Tail(@))]
    <3>1. Fits(x)
      BY <2>2, SkipFits DEF AtStatement, RowKinds
    <3>2. req' = [req EXCEPT ![r] = x]
      BY <2>2 DEF CallInv, RequestsFit
    <3> HIDE DEF x
    <3> QED
      BY <3>1, <3>2, OneRequest DEF CallInv
  <2> QED
    BY <2>1, <2>2 DEF StatementFails
<1> QED
  BY <1>1, <1>2, CallStarted DEF CallInv, TablesOK, CreatorIsSafe, Hosts

LEMMA NextInv ==
    ASSUME CallInv, Next
    PROVE  CallInv'
<1>1. CASE \E settings \in StartSettings : StartCall(settings)
  BY <1>1, StartCallStep
<1>2. CASE \E u \in Users : IssueMediaJoinToken(u)
  BY <1>2, TokenStep
<1>3. CASE \E r \in Requests, op \in Ops, u, t \in Users :
             \E arg \in Args(op) : Begin(r, op, u, t, arg)
  BY <1>3, BeginStep
<1>4. CASE \E r \in Requests : ReadOwn(r) \/ ReadTarget(r) \/ ReadList(r)
  BY <1>4, ReadOwnStep, ReadTargetStep, ReadListStep
<1>5. CASE \E r \in Requests : WriteRow(r) \/ WriteCall(r) \/ WriteSettings(r)
  BY <1>5, WriteRowStep, WriteCallStep, WriteSettingsStep
<1>6. CASE \E r \in Requests : ListAfterLeave(r) \/ EnqueueEvent(r) \/ PublishEvent(r)
  BY <1>6, ListAfterLeaveStep, EnqueueEventStep, PublishEventStep
<1>7. CASE \E r \in Requests : Commit(r) \/ CloseRooms(r) \/ MediaOffer(r) \/ StatementFails(r)
  BY <1>7, CommitStep, RoomStep, FaultStep
<1> QED
  BY <1>1, <1>2, <1>3, <1>4, <1>5, <1>6, <1>7 DEF Next

LEMMA InvAlways == Spec => []CallInv
<1>1. CallInv /\ UNCHANGED vars => CallInv'
  <2> SUFFICES ASSUME CallInv, UNCHANGED vars PROVE CallInv'
    OBVIOUS
  <2>1. RequestsFit'
    BY RequestsKept DEF CallInv, vars
  <2> QED
    BY <2>1 DEF CallInv, TablesOK, CreatorIsSafe, Hosts, vars
<1>2. CallInv /\ [Next]_vars => CallInv'
  BY <1>1, NextInv
<1> QED
  BY InitInv, <1>2, PTL DEF Spec

-----------------------------------------------------------------------------
(* Every variable keeps the shape the handlers give it; a request carries  *)
(* what a transaction wrote only while one of join, leave and end runs.    *)
THEOREM TypeCorrect == Spec => []TypeOK
<1>1. CallInv => TypeOK
  <2> SUFFICES ASSUME CallInv PROVE TypeOK
    OBVIOUS
  <2>1. ASSUME NEW r \in Requests
        PROVE  /\ req[r].pc \in {"idle", "own", "target", "list", "run", "close", "room"}
               /\ req[r].pc # "idle" /\ req[r].pc # "close" => req[r].op \in Ops
               /\ req[r].tx.row \in Row \cup {NoRow}
               /\ req[r].tx # NoTx => InTx(r)
               /\ req[r].tx.row # NoRow => req[r].tx.user = req[r].user
    BY DEF CallInv, RequestsFit, Fits, OpFits, TxFits, RequestRecords, Transactions, InTx
  <2> QED
    BY <2>1 DEF CallInv, TablesOK, TypeOK, CallStatuses, Key
<1> QED
  BY <1>1, InvAlways, PTL

(* The member who started the call stays its host: whatever rows           *)
(* UpdateParticipantRole, RemoveParticipant and RejectParticipant had read, *)
(* they never write the creator's role or delete the creator's row.        *)
THEOREM CreatorHostsAlways == Spec => []CreatorHosts
<1>1. CallInv => CreatorHosts
  BY DEF CallInv, CreatorIsSafe, CreatorHosts, Hosts
<1> QED
  BY <1>1, InvAlways, PTL

(* JoinCall, LeaveCall and EndCall lock a participant row before the calls *)
(* row and no second participant row, so that a request that waits for the *)
(* calls row waits for one that waits for nobody.                          *)
THEOREM NoLockCycleAlways == Spec => []NoLockCycle
<1>1. ASSUME CallInv, NEW r \in Requests, NEW s \in Requests, WaitsFor(r, s)
      PROVE  /\ req[r].tx.status = "none"
             /\ Statement(r).do \in RowKinds => req[r].tx.row = NoRow
             /\ Statement(r).do \in RowKinds \cup CallKinds
             /\ Statement(r).do \in RowKinds => req[s].tx.row # NoRow
             /\ Statement(r).do \in CallKinds => req[s].tx.status # "none"
  <2>1. StatementFits(req[r], 1) /\ Statement(r) = req[r].plan[1]
    BY <1>1, NextStatement DEF WaitsFor
  <2> QED
    BY <1>1, <2>1 DEF WaitsFor, StatementFits, RowKinds, CallKinds
<1>2. CallInv => NoLockCycle
  <2> SUFFICES ASSUME CallInv, NEW S \in (SUBSET Requests) \ {{}}
               PROVE  \E r \in S : \A s \in S : ~WaitsFor(r, s)
    BY DEF NoLockCycle
  <2>1. SUFFICES ASSUME \A r \in S : \E s \in S : WaitsFor(r, s)
                 PROVE  FALSE
    OBVIOUS
  <2>2. ASSUME NEW r \in S PROVE Statement(r).do \notin CallKinds
    <3>1. PICK s \in S : WaitsFor(r, s)
      BY <2>1
    <3>2. PICK t \in S : WaitsFor(s, t)
      BY <2>1
    <3>3. req[s].tx.status = "none"
      BY <1>1, <3>2
    <3> QED
      BY <1>1, <3>1, <3>3
  <2>0. PICK r \in S : TRUE
    OBVIOUS
  <2>3. PICK s \in S : WaitsFor(r, s)
    BY <2>1
  <2>4. Statement(r).do \in RowKinds /\ req[s].tx.row # NoRow
    BY <1>1, <2>2, <2>3
  <2>5. PICK t \in S : WaitsFor(s, t)
    BY <2>1
  <2>6. Statement(s).do \in RowKinds
    BY <1>1, <2>2, <2>5
  <2> QED
    BY <1>1, <2>4, <2>5, <2>6
<1> QED
  BY <1>2, InvAlways, PTL

(* Only a request that read the call ringing, in JoinCall, AdmitParticipant *)
(* or AdmitAll, makes an ended call active again: UpdateStatus names the   *)
(* row by its id alone.                                                    *)
THEOREM EndIsFinalForNewRequestsAlways == Spec => EndIsFinalForNewRequests
<1>1. ASSUME CallInv, Next, call.status = "ended", call'.status # "ended"
      PROVE  \E r \in Requests : req[r].call.status = "ringing"
  <2>1. PICK r \in Requests : WriteCall(r) \/ Commit(r) \/ WriteSettings(r)
    <3>1. \/ call' = call
          \/ \E r \in Requests : WriteCall(r) \/ Commit(r) \/ WriteSettings(r)
      BY <1>1 DEF Next, StartCall, IssueMediaJoinToken, Begin, ReadOwn, ReadTarget,
             ReadList, DatabaseIsKept, WriteRow, ListAfterLeave, EnqueueEvent, PublishEvent,
             CloseRooms, MediaOffer, StatementFails
    <3> QED
      BY <1>1, <3>1
  <2>2. CASE WriteCall(r)
    <3>1. /\ req[r].pc = "run" /\ req[r].plan # <<>>
          /\ Statement(r).do \in {"activate", "end"}
      BY <2>2 DEF WriteCall, AtStatement
    <3>2. StatementFits(req[r], 1) /\ Statement(r) = req[r].plan[1]
      BY <1>1, <3>1, NextStatement
    <3>3. Statement(r).do = "activate"
      BY <1>1, <2>2, <3>1 DEF WriteCall, CallInv, TablesOK
    <3> QED
      BY <3>2, <3>3 DEF StatementFits
  <2>3. CASE Commit(r)
    <3>1. req[r].tx.status = "active"
      BY <1>1, <2>3, RequestShape DEF Commit, CallInv, TablesOK, Transactions
    <3> QED
      BY <1>1, <3>1 DEF CallInv, RequestsFit, Fits, TxFits
  <2>4. CASE WriteSettings(r)
    BY <1>1, <2>4 DEF WriteSettings, CallInv, TablesOK
  <2> QED
    BY <2>1, <2>2, <2>3, <2>4
<1>2. CallInv /\ [Next]_vars
        => [call.status = "ended" /\ call'.status # "ended"
              => \E r \in Requests : req[r].call.status = "ringing"]_vars
  BY <1>1
<1> QED
  BY <1>2, InvAlways, PTL DEF Spec, EndIsFinalForNewRequests

-----------------------------------------------------------------------------
(* What the outbox says of a participant.  A join or a leave writes its    *)
(* row, keeps it locked, draws the sequence of its event and commits both: *)
(* its event agrees with its row all the way, and no other request commits *)
(* an event of a participant for the same row in between.                  *)

\* What a client may be told last of a row with this status.
Tells(what, status) ==
    /\ status = "disconnected" => what = "left"
    /\ status = "waiting" => what = "waiting"

\* The status a statement leaves in its row.
Leaves(s) ==
    CASE s.do = "connect"    -> "connected"
      [] s.do = "disconnect" -> "disconnected"
      [] OTHER               -> s.status

HasEvent(q) == \E j \in 1 .. Len(q.plan) : q.plan[j].do = "event"

\* One statement of a transaction: the row is written first and an event follows;
\* the event, one at most, says what the row was left with; the list comes last.
StatementTells(q, i) ==
    LET s == q.plan[i] IN
    /\ s.do \in RowKinds => /\ i = 1
                            /\ s.do \in {"connect", "disconnect", "insert"}
                            /\ HasEvent(q)
    /\ s.do = "event" =>
         /\ q.tx.event = NoEvent
         /\ \A j \in 1 .. Len(q.plan) : q.plan[j].do = "event" => j = i
         /\ q.tx.row = NoRow => /\ q.plan[1].do \in RowKinds
                                /\ Tells(s.what, Leaves(q.plan[1]))
         /\ q.tx.row # NoRow => Tells(s.what, q.tx.row.status)
    /\ s.do = "endIfEmpty" => i = Len(q.plan)

\* The plan and the transaction of a request say the same of its row.
Story(q) ==
    /\ q.op \in Transactional => \A i \in 1 .. Len(q.plan) : StatementTells(q, i)
    /\ q.tx.row # NoRow => q.tx.event # NoEvent \/ HasEvent(q)
    /\ q.tx.event # NoEvent => /\ q.tx.row # NoRow
                               /\ q.tx.event.own
                               /\ Tells(q.tx.event.what, q.tx.row.status)

\* A row is locked by one transaction, from its write to its commit.
RowLocksHeld ==
    \A r, s \in Requests :
        (r # s /\ req[r].tx.row # NoRow /\ req[s].tx.row # NoRow)
            => req[r].user # req[s].user

\* Sequences grow, and a transaction's is above those its row's transactions drew.
SequencesGrow ==
    /\ \A u \in Users : lastEvent[u].seq < next
    /\ \A r \in Requests :
         /\ req[r].tx.event.seq < next
         /\ req[r].tx.event # NoEvent /\ lastEvent[req[r].user].own
              => lastEvent[req[r].user].seq < req[r].tx.event.seq

OutboxInv ==
    /\ \A r \in Requests : Story(req[r])
    /\ RowLocksHeld
    /\ SequencesGrow
    /\ OutboxTellsStatus
\* A plan of a transaction that has written nothing.
PlanTells(p) ==
    \A i \in 1 .. Len(p) :
        /\ p[i].do \in RowKinds => /\ i = 1
                                   /\ p[i].do \in {"connect", "disconnect", "insert"}
                                   /\ \E j \in 1 .. Len(p) : p[j].do = "event"
        /\ p[i].do = "event" =>
             /\ \A j \in 1 .. Len(p) : p[j].do = "event" => j = i
             /\ p[1].do \in RowKinds
             /\ Tells(p[i].what, Leaves(p[1]))
        /\ p[i].do = "endIfEmpty" => i = Len(p)

LEMMA FreshStory ==
    ASSUME NEW q, q.tx.row = NoRow, q.tx.event = NoEvent
    PROVE  /\ q.op \notin Transactional \/ PlanTells(q.plan) => Story(q)
           /\ q.op \in Transactional /\ Story(q) => PlanTells(q.plan)
<1>1. ASSUME PlanTells(q.plan) PROVE \A i \in 1 .. Len(q.plan) : StatementTells(q, i)
  <2> SUFFICES ASSUME NEW i \in 1 .. Len(q.plan) PROVE StatementTells(q, i)
    OBVIOUS
  <2> QED
    BY <1>1 DEF PlanTells, StatementTells, HasEvent
<1>2. ASSUME \A i \in 1 .. Len(q.plan) : StatementTells(q, i) PROVE PlanTells(q.plan)
  BY <1>2 DEF PlanTells, StatementTells, HasEvent
<1> QED
  BY <1>1, <1>2 DEF Story

LEMMA IdleStory == Story(Idle) /\ Idle.tx.row = NoRow /\ Idle.tx.event = NoEvent
<1>1. /\ Idle.op = "none" /\ Idle.tx = NoTx
      /\ NoTx.row = NoRow /\ NoTx.event = NoEvent
  BY DEF Idle, NoTx
<1>2. "none" \notin Transactional
  BY DEF Transactional
<1> QED
  BY <1>1, <1>2, FreshStory

(* The plans of the three transactions.                                    *)
LEMMA ShortPlanTells ==
    ASSUME NEW p, Len(p) \in Nat, p[1].do \in {"connect", "disconnect", "insert"},
           NEW k \in 2 .. Len(p), p[k].do = "event", Tells(p[k].what, Leaves(p[1])),
           \A i \in 2 .. Len(p) : i # k => p[i].do \notin RowKinds \cup {"event"},
           \A i \in 2 .. Len(p) : p[i].do = "endIfEmpty" => i = Len(p)
    PROVE  PlanTells(p)
<1> SUFFICES ASSUME NEW i \in 1 .. Len(p)
             PROVE  /\ p[i].do \in RowKinds => /\ i = 1
                            /\ p[i].do \in {"connect", "disconnect", "insert"}
                            /\ \E j \in 1 .. Len(p) : p[j].do = "event"
                    /\ p[i].do = "event" =>
                         /\ \A j \in 1 .. Len(p) : p[j].do = "event" => j = i
                         /\ p[1].do \in RowKinds
                         /\ Tells(p[i].what, Leaves(p[1]))
                    /\ p[i].do = "endIfEmpty" => i = Len(p)
  BY DEF PlanTells
<1>1. "event" \notin RowKinds /\ {"connect", "disconnect", "insert"} \subseteq RowKinds
  BY DEF RowKinds
<1>2. p[1].do # "event" /\ p[1].do \in RowKinds
  BY <1>1
<1>3. \A j \in 1 .. Len(p) : j = 1 \/ j \in 2 .. Len(p)
  OBVIOUS
<1>4. \A j \in 1 .. Len(p) : p[j].do = "event" => j = k
  BY <1>2, <1>3
<1>5. p[i].do \in RowKinds => i = 1
  BY <1>1, <1>3
<1>6. p[i].do = "endIfEmpty" => i = Len(p)
  BY <1>3
<1> QED
  BY <1>2, <1>4, <1>5, <1>6

LEMMA PlansTell ==
    ASSUME CallInv, NEW r \in Requests, NEW id
    PROVE  /\ PlanTells(RejoinPlan(req[r].user, id))
           /\ PlanTells(JoinPlan(r))
           /\ PlanTells(LeavePlan(req[r].user, id))
           /\ PlanTells(EndPlan(req[r].user, id))
<1> DEFINE u == req[r].user
<1>0. u \in Users
  BY RequestShape
<1>1. PlanTells(RejoinPlan(u, id))
  <2> DEFINE p == RejoinPlan(u, id)
  <2>1. Len(p) = 2 /\ p[1].do = "connect" /\ p[2].do = "event"
    BY DEF RejoinPlan, Connect, Enqueue
  <2> HIDE DEF p
  <2>2. Tells(p[2].what, Leaves(p[1]))
    BY <2>1 DEF Tells, Leaves
  <2> QED
    BY <2>1, <2>2, ShortPlanTells DEF p
<1>2. PlanTells(LeavePlan(u, id))
  <2> DEFINE p == LeavePlan(u, id)
  <2>1. /\ Len(p) = 3 /\ p[1].do = "disconnect" /\ p[2].do = "event" /\ p[2].what = "left"
        /\ p[3].do = "endIfEmpty"
    BY DEF LeavePlan, Disconnect, Enqueue, EndIfEmpty
  <2> HIDE DEF p
  <2>2. Tells(p[2].what, Leaves(p[1]))
    BY <2>1 DEF Tells, Leaves
  <2>3. \A i \in 2 .. Len(p) : i = 2 \/ i = 3
    BY <2>1
  <2>4. /\ Len(p) = 3 /\ p[1].do = "disconnect" /\ p[2].do = "event"
        /\ \A i \in 2 .. Len(p) : i # 2 => p[i].do \notin RowKinds \cup {"event"}
    BY <2>1, <2>3 DEF RowKinds
  <2>5. \A i \in 2 .. Len(p) : p[i].do = "endIfEmpty" => i = Len(p)
    BY <2>1, <2>3
  <2>6. PICK k \in 2 .. Len(p) : k = 2 /\ p[k].do = "event" /\ Tells(p[k].what, Leaves(p[1]))
    BY <2>1, <2>2
  <2>7. /\ Len(p) \in Nat /\ p[1].do \in {"connect", "disconnect", "insert"}
        /\ \A i \in 2 .. Len(p) : i # k => p[i].do \notin RowKinds \cup {"event"}
    BY <2>4, <2>6
  <2>8. PlanTells(p)
    BY <2>5, <2>6, <2>7, ShortPlanTells
  <2> QED
    BY <2>8 DEF p
<1>3. PlanTells(EndPlan(u, id))
  <2>1. Len(EndPlan(u, id)) = 1 /\ EndPlan(u, id)[1].do = "end"
    BY DEF EndPlan, EndRow
  <2> QED
    BY <2>1 DEF PlanTells, RowKinds
<1>4. PlanTells(JoinPlan(r))
  <2> DEFINE p == JoinPlan(r)
  <2>0. ASSUME NEW w \in {"waiting", "connected"}
        PROVE  /\ Insert(u, w).do = "insert" /\ Insert(u, w).status = w
               /\ Insert(u, w) \in Statements
    BY <1>0, StatementsMade DEF Insert
  <2>1. CASE req[r].call.settings.waitingRoom
    <3>1. p = <<Insert(u, "waiting"), Enqueue(u, "waiting")>>
      BY <2>1 DEF JoinPlan
    <3>2. /\ Len(p) = 2 /\ p[1].do = "insert" /\ p[1].status = "waiting"
          /\ p[2].do = "event" /\ p[2].what = "waiting"
      BY <2>0, <3>1 DEF Enqueue
    <3> HIDE DEF p
    <3>3. Tells(p[2].what, Leaves(p[1]))
      BY <3>2 DEF Tells, Leaves
    <3> QED
      BY <3>2, <3>3, ShortPlanTells DEF p
  <2>2. CASE ~req[r].call.settings.waitingRoom
    <3>0. /\ Enqueue(u, "joined") \in Statements /\ Activate(u) \in Statements
          /\ Enqueue(u, "joined").do = "event" /\ Activate(u).do = "activate"
      BY <1>0, StatementsMade DEF Enqueue, Activate
    <3>1. CASE req[r].call.status = "ringing"
      <4>1. p = <<Insert(u, "connected")>> \o <<Activate(u)>> \o <<Enqueue(u, "joined")>>
        BY <2>2, <3>1 DEF JoinPlan, ActivateIfRinging
      <4>2. /\ Len(p) = 3 /\ p[1] = Insert(u, "connected") /\ p[2] = Activate(u)
            /\ p[3] = Enqueue(u, "joined")
        BY <2>0, <3>0, <4>1, Joined
      <4> HIDE DEF p
      <4>3. p[1].do = "insert" /\ Tells(p[3].what, Leaves(p[1]))
        BY <2>0, <4>2 DEF Tells, Leaves
      <4>4. "activate" \notin RowKinds \cup {"event", "endIfEmpty"}
        BY DEF RowKinds
      <4>5. /\ Len(p) = 3 /\ p[3].do = "event"
            /\ p[2].do \notin RowKinds \cup {"event", "endIfEmpty"}
        BY <3>0, <4>2, <4>4
      <4> QED
        BY <4>3, <4>5, ShortPlanTells DEF p
    <3>2. CASE req[r].call.status # "ringing"
      <4>1. p = <<Insert(u, "connected")>> \o <<>> \o <<Enqueue(u, "joined")>>
        BY <2>2, <3>2 DEF JoinPlan, ActivateIfRinging
      <4>2. Len(p) = 2 /\ p[1] = Insert(u, "connected") /\ p[2] = Enqueue(u, "joined")
        BY <2>0, <3>0, <4>1, Joined
      <4> HIDE DEF p
      <4>3. p[1].do = "insert" /\ Tells(p[2].what, Leaves(p[1]))
        BY <2>0, <4>2 DEF Tells, Leaves
      <4>4. Len(p) = 2 /\ p[2].do = "event"
        BY <3>0, <4>2
      <4> QED
        BY <4>3, <4>4, ShortPlanTells DEF p
    <3> QED
      BY <3>1, <3>2
  <2> QED
    BY <2>1, <2>2
<1> QED
  BY <1>1, <1>2, <1>3, <1>4
(* What becomes of the story of a request at each statement.               *)
LEMMA StoryGoesOn ==
    ASSUME NEW q, NEW n, q.plan \in Seq(Statements), q.plan # <<>>, Story(q),
           n.plan = Tail(q.plan), n.op = q.op, n.tx.row = q.tx.row, n.tx.event = q.tx.event,
           q.plan[1].do \notin RowKinds \cup {"event"}
    PROVE  Story(n)
<1>1. /\ Len(Tail(q.plan)) = Len(q.plan) - 1 /\ Len(q.plan) \in Nat \ {0}
      /\ \A i \in 1 .. Len(Tail(q.plan)) : Tail(q.plan)[i] = q.plan[i + 1]
  OBVIOUS
<1>2. Len(n.plan) = Len(q.plan) - 1 /\ \A i \in 1 .. Len(n.plan) : n.plan[i] = q.plan[i + 1]
  BY <1>1
<1>3. HasEvent(q) => HasEvent(n)
  <2> SUFFICES ASSUME NEW j \in 1 .. Len(q.plan), q.plan[j].do = "event" PROVE HasEvent(n)
    BY DEF HasEvent
  <2>1. j # 1
    OBVIOUS
  <2>2. j - 1 \in 1 .. Len(n.plan) /\ n.plan[j - 1] = q.plan[j]
    BY <1>1, <1>2, <2>1
  <2> QED
    BY <2>2 DEF HasEvent
<1>4. ASSUME q.op \in Transactional, NEW i \in 1 .. Len(n.plan) PROVE StatementTells(n, i)
  <2>1. i + 1 \in 1 .. Len(q.plan) /\ i + 1 # 1 /\ n.plan[i] = q.plan[i + 1]
    BY <1>1, <1>2
  <2>2. StatementTells(q, i + 1)
    BY <1>4, <2>1 DEF Story
  <2>3. ASSUME n.plan[i].do = "event", NEW j \in 1 .. Len(n.plan), n.plan[j].do = "event"
        PROVE  j = i
    <3>1. j + 1 \in 1 .. Len(q.plan) /\ n.plan[j] = q.plan[j + 1]
      BY <1>1, <1>2
    <3>2. j + 1 = i + 1
      BY <2>1, <2>2, <2>3, <3>1 DEF StatementTells
    <3> QED
      BY <3>2
  <2>4. n.plan[i].do \notin RowKinds
    BY <2>1, <2>2 DEF StatementTells
  <2>5. n.plan[i].do = "event" =>
          n.tx.event = NoEvent /\ n.tx.row # NoRow /\ Tells(n.plan[i].what, n.tx.row.status)
    BY <2>1, <2>2 DEF StatementTells
  <2>6. n.plan[i].do = "endIfEmpty" => i = Len(n.plan)
    BY <1>1, <1>2, <2>1, <2>2 DEF StatementTells
  <2> QED
    BY <2>3, <2>4, <2>5, <2>6 DEF StatementTells
<1> QED
  BY <1>3, <1>4 DEF Story

LEMMA StoryWrites ==
    ASSUME NEW q, NEW n, q.plan \in Seq(Statements), q.plan # <<>>, Story(q),
           q.op \in Transactional, q.tx.row = NoRow, q.plan[1].do \in RowKinds,
           n.plan = Tail(q.plan), n.op = q.op, n.tx.event = q.tx.event,
           n.tx.row # NoRow, n.tx.row.status = Leaves(q.plan[1])
    PROVE  Story(n)
<1>1. /\ Len(Tail(q.plan)) = Len(q.plan) - 1 /\ Len(q.plan) \in Nat \ {0}
      /\ \A i \in 1 .. Len(Tail(q.plan)) : Tail(q.plan)[i] = q.plan[i + 1]
  OBVIOUS
<1>2. Len(n.plan) = Len(q.plan) - 1 /\ \A i \in 1 .. Len(n.plan) : n.plan[i] = q.plan[i + 1]
  BY <1>1
<1>0. 1 \in 1 .. Len(q.plan) /\ StatementTells(q, 1) /\ n.tx.event = NoEvent
  BY <1>1 DEF Story
<1>3. HasEvent(n)
  <2>1. PICK j \in 1 .. Len(q.plan) : q.plan[j].do = "event"
    BY <1>0 DEF StatementTells, HasEvent
  <2>2. j # 1
    BY <2>1 DEF RowKinds
  <2>3. j - 1 \in 1 .. Len(n.plan) /\ n.plan[j - 1] = q.plan[j]
    BY <1>1, <1>2, <2>1, <2>2
  <2> QED
    BY <2>1, <2>3 DEF HasEvent
<1>4. ASSUME NEW i \in 1 .. Len(n.plan) PROVE StatementTells(n, i)
  <2>1. i + 1 \in 1 .. Len(q.plan) /\ i + 1 # 1 /\ n.plan[i] = q.plan[i + 1]
    BY <1>1, <1>2
  <2>2. StatementTells(q, i + 1)
    BY <2>1 DEF Story
  <2>3. ASSUME n.plan[i].do = "event", NEW j \in 1 .. Len(n.plan), n.plan[j].do = "event"
        PROVE  j = i
    <3>1. j + 1 \in 1 .. Len(q.plan) /\ n.plan[j] = q.plan[j + 1]
      BY <1>1, <1>2
    <3>2. j + 1 = i + 1
      BY <2>1, <2>2, <2>3, <3>1 DEF StatementTells
    <3> QED
      BY <3>2
  <2>4. n.plan[i].do \notin RowKinds
    BY <2>1, <2>2 DEF StatementTells
  <2>5. n.plan[i].do = "event" =>
          n.tx.event = NoEvent /\ Tells(n.plan[i].what, n.tx.row.status)
    BY <1>0, <2>1, <2>2 DEF StatementTells
  <2>6. n.plan[i].do = "endIfEmpty" => i = Len(n.plan)
    BY <1>1, <1>2, <2>1, <2>2 DEF StatementTells
  <2> QED
    BY <2>3, <2>4, <2>5, <2>6 DEF StatementTells
<1> QED
  BY <1>0, <1>3, <1>4 DEF Story

LEMMA StoryEnqueues ==
    ASSUME NEW q, NEW n, q.plan \in Seq(Statements), q.plan # <<>>, Story(q),
           q.op \in Transactional, q.plan[1].do = "event",
           n.plan = Tail(q.plan), n.op = q.op, n.tx.row = q.tx.row,
           n.tx.event.own, n.tx.event.what = q.plan[1].what
    PROVE  Story(n) /\ q.tx.row # NoRow /\ q.tx.event = NoEvent
<1>1. /\ Len(Tail(q.plan)) = Len(q.plan) - 1 /\ Len(q.plan) \in Nat \ {0}
      /\ \A i \in 1 .. Len(Tail(q.plan)) : Tail(q.plan)[i] = q.plan[i + 1]
  OBVIOUS
<1>2. Len(n.plan) = Len(q.plan) - 1 /\ \A i \in 1 .. Len(n.plan) : n.plan[i] = q.plan[i + 1]
  BY <1>1
<1>0. 1 \in 1 .. Len(q.plan) /\ StatementTells(q, 1)
  BY <1>1 DEF Story
<1>3. /\ q.tx.event = NoEvent /\ q.tx.row # NoRow
      /\ Tells(n.tx.event.what, n.tx.row.status)
      /\ \A j \in 1 .. Len(q.plan) : q.plan[j].do = "event" => j = 1
  BY <1>0 DEF StatementTells, RowKinds
<1>4. ASSUME NEW i \in 1 .. Len(n.plan) PROVE StatementTells(n, i)
  <2>1. i + 1 \in 1 .. Len(q.plan) /\ i + 1 # 1 /\ n.plan[i] = q.plan[i + 1]
    BY <1>1, <1>2
  <2>2. StatementTells(q, i + 1)
    BY <2>1 DEF Story
  <2>3. n.plan[i].do \notin RowKinds /\ n.plan[i].do # "event"
    BY <1>3, <2>1, <2>2 DEF StatementTells
  <2>4. n.plan[i].do = "endIfEmpty" => i = Len(n.plan)
    BY <1>1, <1>2, <2>1, <2>2 DEF StatementTells
  <2> QED
    BY <2>3, <2>4 DEF StatementTells
<1>5. n.tx.event # NoEvent
  BY DEF NoEvent
<1> QED
  BY <1>3, <1>4, <1>5 DEF Story
(* A step of one request that commits no participant event: its            *)
(* transaction keeps what it wrote or is over, no row becomes              *)
(* disconnected or waiting, and what is published is nobody's own event.   *)
LEMMA QuietStep ==
    ASSUME CallInv, OutboxInv, NEW r \in Requests, NEW x,
           req' = [req EXCEPT ![r] = x], Story(x),
           \/ x.tx.row = NoRow /\ x.tx.event = NoEvent
           \/ /\ x.tx.row = req[r].tx.row /\ x.tx.event = req[r].tx.event
              /\ x.user = req[r].user,
           next' \in Nat, next <= next',
           \A u \in Users : \/ rows'[u].status = rows[u].status
                            \/ rows'[u].status \notin {"disconnected", "waiting"},
           \A u \in Users : \/ lastEvent'[u] = lastEvent[u]
                            \/ ~lastEvent'[u].own /\ lastEvent'[u].seq < next'
    PROVE  OutboxInv'
<1>1. /\ req'[r] = x /\ \A q \in Requests \ {r} : req'[q] = req[q]
      /\ next \in Nat \ {0} /\ NoEvent.seq = 0
      /\ \A q \in Requests : req[q].user \in Users /\ req[q].tx.event.seq \in Nat
      /\ \A u \in Users : lastEvent[u].seq \in Nat
  BY RequestShape DEF CallInv, RequestsFit, TablesOK, Key, Transactions, Event, NoEvent
<1>2. (\A q \in Requests : Story(req[q]))'
  <2> SUFFICES ASSUME NEW q \in Requests PROVE Story(req'[q])
    BY DEF Story, StatementTells, HasEvent, Tells, Leaves
  <2> QED
    BY <1>1 DEF OutboxInv
<1>3. \A q \in Requests :
         \/ req'[q].tx.row = NoRow /\ req'[q].tx.event = NoEvent
         \/ /\ req'[q].tx.row = req[q].tx.row /\ req'[q].tx.event = req[q].tx.event
            /\ req'[q].user = req[q].user
  BY <1>1
<1>4. RowLocksHeld'
  BY <1>3 DEF OutboxInv, RowLocksHeld
<1>5. SequencesGrow'
  <2>1. ASSUME NEW u \in Users PROVE lastEvent'[u].seq < next'
    BY <1>1 DEF OutboxInv, SequencesGrow
  <2>2. ASSUME NEW q \in Requests PROVE req'[q].tx.event.seq < next'
    BY <1>1, <1>3 DEF OutboxInv, SequencesGrow
  <2>3. ASSUME NEW q \in Requests, req'[q].tx.event # NoEvent,
               lastEvent'[req'[q].user].own
        PROVE  lastEvent'[req'[q].user].seq < req'[q].tx.event.seq
    <3>1. req'[q].tx.event = req[q].tx.event /\ req'[q].user = req[q].user
      BY <1>3, <2>3
    <3>2. lastEvent'[req[q].user] = lastEvent[req[q].user]
      BY <1>1, <2>3, <3>1
    <3> QED
      BY <2>3, <3>1, <3>2 DEF OutboxInv, SequencesGrow
  <2> QED
    BY <2>1, <2>2, <2>3 DEF SequencesGrow
<1>6. OutboxTellsStatus'
  <2> SUFFICES ASSUME NEW u \in Users, lastEvent'[u].own
               PROVE  /\ rows'[u].status = "disconnected" => lastEvent'[u].what = "left"
                      /\ rows'[u].status = "waiting" => lastEvent'[u].what = "waiting"
    BY DEF OutboxTellsStatus
  <2>1. lastEvent'[u] = lastEvent[u]
    OBVIOUS
  <2> QED
    BY <2>1 DEF OutboxInv, OutboxTellsStatus
<1> QED
  BY <1>2, <1>4, <1>5, <1>6 DEF OutboxInv

\* Tables of participants and events as they are.
RowsAndEventsKept == UNCHANGED <<rows, lastEvent, next>>

LEMMA RefuseTells ==
    ASSUME CallInv, OutboxInv, NEW r \in Requests, Refuse(r), RowsAndEventsKept
    PROVE  OutboxInv'
<1>1. next' \in Nat /\ next <= next' /\ rows' = rows /\ lastEvent' = lastEvent
  BY DEF CallInv, TablesOK, Key, RowsAndEventsKept
<1>2. PICK x : x = Idle
  OBVIOUS
<1>3. req' = [req EXCEPT ![r] = x] /\ Story(x) /\ x.tx.row = NoRow /\ x.tx.event = NoEvent
  BY <1>2, IdleStory DEF Refuse
<1> QED
  BY <1>1, <1>3, QuietStep

(* A request outside a transaction carries nothing a client is told of a   *)
(* commit.                                                                 *)
LEMMA NothingWritten ==
    ASSUME CallInv, NEW r \in Requests, req[r].op \notin Transactional \/ req[r].pc # "run"
    PROVE  /\ req[r].tx = NoTx /\ req[r].tx.row = NoRow /\ req[r].tx.event = NoEvent
           /\ req[r] \in RequestRecords /\ req \in [Requests -> RequestRecords]
<1>1. req[r].tx = NoTx
  BY DEF CallInv, RequestsFit, Fits, TxFits
<1> QED
  BY <1>1 DEF NoTx, CallInv, RequestsFit

(* A read that goes on to a plan: a transaction's plan tells its row.      *)
LEMMA PlanMadeTells ==
    ASSUME CallInv, OutboxInv, NEW r \in Requests, req[r].pc \in {"own", "target", "list"},
           RowsAndEventsKept, NEW p, req[r].op \notin Transactional \/ PlanTells(p),
           Run(r, p) \/ Check(r, p)
    PROVE  OutboxInv'
<1> DEFINE run  == [req[r] EXCEPT !.pc = "run", !.plan = p, !.actor = "none",
                                  !.target = Creator, !.call.settings = NoCall.settings]
           list == [req[r] EXCEPT !.pc = "list", !.plan = p]
<1>1. /\ req[r].tx.row = NoRow /\ req[r].tx.event = NoEvent
      /\ req[r] \in RequestRecords /\ req \in [Requests -> RequestRecords]
  BY NothingWritten
<1>2. /\ run.plan = p /\ run.op = req[r].op /\ run.tx = req[r].tx
      /\ list.plan = p /\ list.op = req[r].op /\ list.tx = req[r].tx
  BY <1>1 DEF RequestRecords
<1>3. req' = [req EXCEPT ![r] = run] \/ req' = [req EXCEPT ![r] = list]
  BY <1>1 DEF Run, Check
<1> HIDE DEF run, list
<1>4. Story(run) /\ Story(list)
  BY <1>1, <1>2, FreshStory
<1>5. next' \in Nat /\ next <= next' /\ rows' = rows /\ lastEvent' = lastEvent
  BY DEF CallInv, TablesOK, Key, RowsAndEventsKept
<1> QED
  BY <1>1, <1>2, <1>3, <1>4, <1>5, QuietStep

LEMMA NextReadTells ==
    ASSUME CallInv, OutboxInv, NEW r \in Requests, req[r].pc = "own",
           req[r].op \notin Transactional, RowsAndEventsKept, NEW what, Read(r, what)
    PROVE  OutboxInv'
<1> DEFINE x == [req[r] EXCEPT !.pc = what, !.actor = rows[req[r].user].role]
<1>1. /\ req[r].tx.row = NoRow /\ req[r].tx.event = NoEvent
      /\ req[r] \in RequestRecords /\ req \in [Requests -> RequestRecords]
  BY NothingWritten
<1>2. x.op = req[r].op /\ x.tx = req[r].tx
  BY <1>1 DEF RequestRecords
<1>3. req' = [req EXCEPT ![r] = x]
  BY <1>1 DEF Read
<1> HIDE DEF x
<1>4. Story(x)
  BY <1>1, <1>2, FreshStory
<1>5. next' \in Nat /\ next <= next' /\ rows' = rows /\ lastEvent' = lastEvent
  BY DEF CallInv, TablesOK, Key, RowsAndEventsKept
<1> QED
  BY <1>1, <1>2, <1>3, <1>4, <1>5, QuietStep

LEMMA ReadsTell ==
    ASSUME CallInv, OutboxInv, NEW r \in Requests, ReadOwn(r) \/ ReadTarget(r) \/ ReadList(r)
    PROVE  OutboxInv'
<1>0. RowsAndEventsKept
  BY DEF ReadOwn, ReadTarget, ReadList, DatabaseIsKept, RowsAndEventsKept
<1> DEFINE u == req[r].user
           Goes == \E p : /\ req[r].op \notin Transactional \/ PlanTells(p)
                          /\ Run(r, p) \/ Check(r, p)
<1>1. CASE ReadOwn(r)
  <2>0. req[r].pc = "own"
    BY <1>1 DEF ReadOwn
  <2>1. CASE req[r].op = "join"
    <3>1. JoinOwn(r)
      BY <1>1, <2>1 DEF ReadOwn
    <3>2. Refuse(r) \/ Goes
      BY <3>1, PlansTell DEF JoinOwn
    <3> QED
      BY <1>0, <2>0, <3>2, RefuseTells, PlanMadeTells
  <2>2. CASE req[r].op = "leave"
    <3>1. LeaveOwn(r)
      BY <1>1, <2>2 DEF ReadOwn
    <3>2. Refuse(r) \/ Goes
      BY <3>1, PlansTell DEF LeaveOwn
    <3> QED
      BY <1>0, <2>0, <3>2, RefuseTells, PlanMadeTells
  <2>3. CASE req[r].op = "media"
    <3>1. MediaOwn(r) /\ req[r].op \notin Transactional
      BY <1>1, <2>3 DEF ReadOwn, Transactional
    <3>2. Refuse(r) \/ \E p : Run(r, p) \/ Check(r, p)
      BY <3>1 DEF MediaOwn
    <3> QED
      BY <1>0, <2>0, <3>1, <3>2, RefuseTells, PlanMadeTells
  <2>4. CASE req[r].op \notin {"join", "leave", "media"}
    <3>1. HostOwn(r)
      BY <1>1, <2>4 DEF ReadOwn
    <3>2. CASE req[r].op = "end"
      <4>1. Refuse(r) \/ Goes
        BY <3>1, <3>2, PlansTell DEF HostOwn
      <4> QED
        BY <1>0, <2>0, <4>1, RefuseTells, PlanMadeTells
    <3>3. CASE req[r].op # "end"
      <4>1. req[r].op \notin Transactional
        BY <2>4, <3>3 DEF Transactional
      <4>2. \/ Refuse(r) \/ \E p : Run(r, p)
            \/ \E what : Read(r, what)
        BY <3>1, <3>3 DEF HostOwn
      <4> QED
        BY <1>0, <2>0, <4>1, <4>2, RefuseTells, PlanMadeTells, NextReadTells
    <3> QED
      BY <3>2, <3>3
  <2> QED
    BY <2>1, <2>2, <2>3, <2>4
<1>2. CASE ReadTarget(r)
  <2>1. req[r].pc = "target" /\ req[r].op \notin Transactional
    BY <1>2 DEF ReadTarget, CallInv, RequestsFit, Fits, OpFits, Transactional
  <2>2. Refuse(r) \/ \E p : Run(r, p)
    BY <1>2 DEF ReadTarget
  <2> QED
    BY <1>0, <2>1, <2>2, RefuseTells, PlanMadeTells
<1>3. CASE ReadList(r)
  <2>1. req[r].pc = "list"
    BY <1>3 DEF ReadList
  <2>2. req[r].tx.row = NoRow /\ req[r].tx.event = NoEvent /\ Story(req[r])
    BY <2>1, NothingWritten DEF OutboxInv
  <2>3. req[r].op \notin Transactional \/ PlanTells(req[r].plan)
    BY <2>2, FreshStory
  <2>4. Refuse(r) \/ Goes
    <3>1. CASE req[r].op \in {"join", "media"}
      BY <1>3, <2>3, <3>1 DEF ReadList
    <3>2. CASE req[r].op \notin {"join", "media"}
      <4>1. \E s \in WaitingLists : Run(r, AdmitAllPlan(s) \o ActivateIfRinging(r))
        BY <1>3, <3>2 DEF ReadList
      <4>2. req[r].op \notin Transactional
        BY <1>3, <3>2 DEF ReadList, Transactional
      <4> QED
        BY <4>1, <4>2
    <3> QED
      BY <3>1, <3>2
  <2> QED
    BY <1>0, <2>1, <2>4, RefuseTells, PlanMadeTells
<1> QED
  BY <1>1, <1>2, <1>3
(* The writes.  UpdateStatus, Delete, UpdateRole and UpdateMedia of the    *)
(* other operations leave nobody disconnected or waiting; what they find   *)
(* locked by a transaction they wait for.                                  *)
LEMMA PastStatementTells ==
    ASSUME CallInv, OutboxInv, NEW r \in Requests, req[r].pc = "run", req[r].plan # <<>>,
           NEW x, req' = [req EXCEPT ![r] = x],
           x.plan = Tail(req[r].plan), x.op = req[r].op, x.user = req[r].user,
           x.tx.row = req[r].tx.row, x.tx.event = req[r].tx.event,
           \/ req[r].op \notin Transactional
           \/ Statement(r).do \notin RowKinds \cup {"event"},
           next' \in Nat, next <= next',
           \A u \in Users : \/ rows'[u].status = rows[u].status
                            \/ rows'[u].status \notin {"disconnected", "waiting"},
           \A u \in Users : \/ lastEvent'[u] = lastEvent[u]
                            \/ ~lastEvent'[u].own /\ lastEvent'[u].seq < next'
    PROVE  OutboxInv'
<1>1. Story(x)
  <2>1. CASE req[r].op \notin Transactional
    <3>1. x.tx.row = NoRow /\ x.tx.event = NoEvent
      BY <2>1, NothingWritten
    <3> QED
      BY <2>1, <3>1, FreshStory
  <2>2. CASE Statement(r).do \notin RowKinds \cup {"event"}
    <3>1. /\ req[r].plan \in Seq(Statements) /\ Statement(r) = req[r].plan[1]
          /\ Story(req[r])
      BY RequestShape, NextStatement DEF OutboxInv
    <3> QED
      BY <2>2, <3>1, StoryGoesOn
  <2> QED
    BY <2>1, <2>2
<1> QED
  BY <1>1, QuietStep

LEMMA SimpleWritesTell ==
    ASSUME CallInv, OutboxInv, NEW r \in Requests, WriteSettings(r) \/ PublishEvent(r)
    PROVE  OutboxInv'
<1> DEFINE s == Statement(r)
           x == [req[r] EXCEPT !.plan = Tail(@)]
           e == [seq |-> next, own |-> FALSE, what |-> s.what]
<1>1. /\ req[r].pc = "run" /\ req[r].plan # <<>> /\ s.do \in {"settings", "publish"}
      /\ rows' = rows /\ req' = [req EXCEPT ![r].plan = Tail(@)]
      /\ \/ lastEvent' = lastEvent /\ next' = next
         \/ lastEvent' = [lastEvent EXCEPT ![s.user] = e] /\ next' = next + 1
  BY DEF WriteSettings, PublishEvent, AtStatement
<1>2. /\ req[r] \in RequestRecords /\ req \in [Requests -> RequestRecords]
      /\ next \in Nat /\ lastEvent \in [Users -> Event]
  BY DEF CallInv, RequestsFit, TablesOK, Key
<1>3. /\ req' = [req EXCEPT ![r] = x]
      /\ x.plan = Tail(req[r].plan) /\ x.op = req[r].op /\ x.user = req[r].user
      /\ x.tx = req[r].tx
  BY <1>1, <1>2 DEF RequestRecords
<1>4. e.seq = next /\ ~e.own
  OBVIOUS
<1> HIDE DEF x, e
<1>5. \A u \in Users : \/ lastEvent'[u] = lastEvent[u]
                       \/ lastEvent'[u] = e /\ next' = next + 1
  BY <1>1, <1>2
<1>6. next' \in Nat /\ next <= next'
  BY <1>1, <1>2
<1>7. \A u \in Users : \/ lastEvent'[u] = lastEvent[u]
                       \/ ~lastEvent'[u].own /\ lastEvent'[u].seq < next'
  <2> TAKE u \in Users
  <2>1. CASE lastEvent'[u] = lastEvent[u]
    BY <2>1
  <2>2. CASE lastEvent'[u] = e /\ next' = next + 1
    BY <1>2, <1>4, <2>2
  <2> QED
    BY <1>5, <2>1, <2>2
<1>8. s.do \notin RowKinds \cup {"event"}
  BY <1>1 DEF RowKinds
<1> QED
  BY <1>1, <1>3, <1>6, <1>7, <1>8, PastStatementTells

LEMMA WriteCallTells ==
    ASSUME CallInv, OutboxInv, NEW r \in Requests, WriteCall(r)
    PROVE  OutboxInv'
<1> DEFINE s == Statement(r)
           status == IF s.do = "end" THEN "ended" ELSE "active"
           ended == status = "ended"
           tx == [req[r].tx EXCEPT !.status = status]
           x == [req[r] EXCEPT !.plan = Tail(@)]
           y == [req[r] EXCEPT !.plan = Tail(@), !.tx = tx, !.ended = ended]
<1>1. /\ req[r].pc = "run" /\ req[r].plan # <<>> /\ s.do \in {"activate", "end"}
      /\ UNCHANGED <<rows, lastEvent, next>>
      /\ \/ req' = [req EXCEPT ![r].plan = Tail(@)]
         \/ req' = [req EXCEPT ![r].plan = Tail(@), ![r].tx.status = status,
                               ![r].ended = status = "ended"]
  BY DEF WriteCall, AtStatement
<1>2. /\ req[r] \in RequestRecords /\ req \in [Requests -> RequestRecords]
      /\ next \in Nat /\ req[r].tx \in Transactions
  BY DEF CallInv, RequestsFit, TablesOK, Key, RequestRecords
<1>3. /\ x.plan = Tail(req[r].plan) /\ x.op = req[r].op /\ x.user = req[r].user
      /\ x.tx = req[r].tx
      /\ y.plan = Tail(req[r].plan) /\ y.op = req[r].op /\ y.user = req[r].user
      /\ y.tx = tx /\ tx.row = req[r].tx.row /\ tx.event = req[r].tx.event
  BY <1>2 DEF RequestRecords, Transactions
<1>4. req' = [req EXCEPT ![r] = x] \/ req' = [req EXCEPT ![r] = y]
  BY <1>1, <1>2 DEF RequestRecords, Transactions
<1>5. s.do \notin RowKinds \cup {"event"}
  BY <1>1 DEF RowKinds
<1>6. next' \in Nat /\ next <= next' /\ rows' = rows /\ lastEvent' = lastEvent
  BY <1>1, <1>2
<1> HIDE DEF x, y, tx
<1>7. CASE req' = [req EXCEPT ![r] = x]
  BY <1>1, <1>3, <1>5, <1>6, <1>7, PastStatementTells
<1>8. CASE req' = [req EXCEPT ![r] = y]
  BY <1>1, <1>3, <1>5, <1>6, <1>8, PastStatementTells
<1> QED
  BY <1>4, <1>7, <1>8

LEMMA ListAfterLeaveTells ==
    ASSUME CallInv, OutboxInv, NEW r \in Requests, ListAfterLeave(r)
    PROVE  OutboxInv'
<1> DEFINE p == IF LastOneOut(r, req[r].user) /\ req[r].call.status # "ended"
                THEN <<EndRow(req[r].user)>> ELSE <<>>
           x == [req[r] EXCEPT !.plan = p]
<1>1. /\ req[r].pc = "run" /\ req[r].plan # <<>> /\ Statement(r).do = "endIfEmpty"
      /\ UNCHANGED <<rows, lastEvent, next>> /\ req' = [req EXCEPT ![r].plan = p]
  BY DEF ListAfterLeave, AtStatement, DatabaseIsKept
<1>2. /\ Fits(req[r]) /\ StatementFits(req[r], 1) /\ Statement(r) = req[r].plan[1]
      /\ req[r] \in RequestRecords /\ req \in [Requests -> RequestRecords]
      /\ Len(req[r].plan) \in Nat \ {0} /\ Story(req[r]) /\ next \in Nat
  BY <1>1, NextStatement DEF CallInv, RequestsFit, OutboxInv, TablesOK, Key
<1>3. Len(p) \in {0, 1} /\ \A i \in 1 .. Len(p) : p[i].do = "end"
  BY DEF EndRow
<1>4. /\ req' = [req EXCEPT ![r] = x]
      /\ x.plan = p /\ x.op = req[r].op /\ x.user = req[r].user /\ x.tx = req[r].tx
  BY <1>1, <1>2 DEF RequestRecords
<1> HIDE DEF p, x
<1>5. ~HasEvent(req[r])
  <2> SUFFICES ASSUME NEW j \in 1 .. Len(req[r].plan), req[r].plan[j].do = "event"
               PROVE  FALSE
    BY DEF HasEvent
  <2>1. req[r].op \in Transactional /\ j # 1
    BY <1>1, <1>2 DEF StatementFits
  <2>2. StatementTells(req[r], 1)
    BY <1>2, <2>1 DEF Story
  <2> QED
    BY <1>1, <1>2, <2>1, <2>2 DEF StatementTells
<1>6. Story(x)
  <2>1. \A i \in 1 .. Len(x.plan) : StatementTells(x, i)
    BY <1>3, <1>4 DEF StatementTells, RowKinds
  <2> QED
    BY <1>2, <1>4, <1>5, <2>1 DEF Story
<1>7. next' \in Nat /\ next <= next' /\ rows' = rows /\ lastEvent' = lastEvent
  BY <1>1, <1>2
<1> QED
  BY <1>4, <1>6, <1>7, QuietStep
(* AdmitAll passes over a participant.                                     *)
LEMMA SkipTells ==
    ASSUME CallInv, OutboxInv, NEW r \in Requests, req[r].op = "admitAll",
           req' = [req EXCEPT ![r].plan = Tail(Tail(@))], UNCHANGED <<rows, lastEvent, next>>
    PROVE  OutboxInv'
<1> DEFINE x == [req[r] EXCEPT !.plan = Tail(Tail(@))]
<1>1. req[r].op \notin Transactional
  BY DEF Transactional
<1>2. /\ req[r].tx.row = NoRow /\ req[r].tx.event = NoEvent
      /\ req[r] \in RequestRecords /\ req \in [Requests -> RequestRecords]
  BY <1>1, NothingWritten
<1>3. req' = [req EXCEPT ![r] = x] /\ x.op = req[r].op /\ x.tx = req[r].tx
  BY <1>2 DEF RequestRecords
<1> HIDE DEF x
<1>4. Story(x)
  BY <1>1, <1>2, <1>3, FreshStory
<1>5. next' \in Nat /\ next <= next' /\ rows' = rows /\ lastEvent' = lastEvent
  BY DEF CallInv, TablesOK, Key
<1> QED
  BY <1>2, <1>3, <1>4, <1>5, QuietStep

(* A join or a leave finds its row unlocked and writes it: it holds the    *)
(* lock of that row from here to its commit.                               *)
LEMMA WrittenRowTells ==
    ASSUME CallInv, NEW r \in Requests, req[r].pc = "run", req[r].plan # <<>>,
           req[r].op \in Transactional, Statement(r).do \in {"connect", "disconnect", "insert"},
           RowFound(r, Statement(r)), req[r].tx.row = NoRow
    PROVE  LET s == Statement(r)
               row == RowWritten(RowSeen(r, s.user), s)
           IN  row # NoRow /\ row.status = Leaves(s)
<1> DEFINE s == Statement(r)
           seen == rows[s.user]
<1>1. /\ s \in Statements /\ s.user \in Users
      /\ s.do # "insert" => s.id \in Key
      /\ s.do = "insert" => s.status \in {"waiting", "connected"}
  BY NextStatement, StatementShape DEF RowKinds
<1>2. seen \in Row \cup {NoRow} /\ RowSeen(r, s.user) = seen /\ next \in Key
  BY <1>1 DEF RowSeen, CallInv, TablesOK
<1>3. s.do # "insert" => seen \in Row /\ seen.id = s.id
  BY <1>1, <1>2 DEF RowFound, NoRow, Key
<1>4. NoRow.id = 0
  BY DEF NoRow
<1> HIDE DEF s, seen
<1>5. RowWritten(seen, s) # NoRow /\ RowWritten(seen, s).status = Leaves(s)
  <2>1. CASE s.do = "insert"
    BY <1>2, <1>4, <2>1 DEF RowWritten, Leaves, Key
  <2>2. CASE s.do = "connect"
    <3>1. RowWritten(seen, s) = [seen EXCEPT !.status = "connected"]
      BY <2>2 DEF RowWritten
    <3> QED
      BY <1>1, <1>3, <1>4, <2>2, <3>1 DEF Leaves, Row, Key
  <2>3. CASE s.do = "disconnect"
    <3>1. RowWritten(seen, s) = [seen EXCEPT !.status = "disconnected"]
      BY <2>3 DEF RowWritten
    <3> QED
      BY <1>1, <1>3, <1>4, <2>3, <3>1 DEF Leaves, Row, Key
  <2> QED
    BY <2>1, <2>2, <2>3 DEF s
<1> QED
  BY <1>2, <1>5 DEF s

LEMMA WriteInTxTells ==
    ASSUME CallInv, OutboxInv, NEW r \in Requests, NEW x, req' = [req EXCEPT ![r] = x],
           Story(x), x.user = req[r].user, x.tx.event = NoEvent,
           ~RowLocked(r, req[r].user),
           rows' = rows, lastEvent' = lastEvent, next' \in Nat, next <= next'
    PROVE  OutboxInv'
<1>1. /\ req'[r] = x /\ \A q \in Requests \ {r} : req'[q] = req[q]
      /\ next \in Nat \ {0} /\ NoEvent.seq = 0
      /\ \A q \in Requests : req[q].user \in Users /\ req[q].tx.event.seq \in Nat
      /\ \A u \in Users : lastEvent[u].seq \in Nat
      /\ \A q \in Requests : req[q].tx.row # NoRow => req[q].tx.user = req[q].user
  BY DEF CallInv, RequestsFit, RequestRecords, Fits, TxFits, TablesOK, Key, Transactions,
         Event, NoEvent
<1>2. (\A q \in Requests : Story(req[q]))'
  <2> SUFFICES ASSUME NEW q \in Requests PROVE Story(req'[q])
    BY DEF Story, StatementTells, HasEvent, Tells, Leaves
  <2> QED
    BY <1>1 DEF OutboxInv
<1>3. \A q \in Requests \ {r} : req[q].tx.row # NoRow => req[q].user # x.user
  BY <1>1 DEF RowLocked
<1>4. RowLocksHeld'
  BY <1>1, <1>3 DEF OutboxInv, RowLocksHeld
<1>5. SequencesGrow'
  BY <1>1 DEF OutboxInv, SequencesGrow
<1>6. OutboxTellsStatus'
  BY DEF OutboxInv, OutboxTellsStatus
<1> QED
  BY <1>2, <1>4, <1>5, <1>6 DEF OutboxInv

LEMMA WriteRowTells ==
    ASSUME CallInv, OutboxInv, NEW r \in Requests, WriteRow(r)
    PROVE  OutboxInv'
<1> DEFINE s == Statement(r)
           row == RowWritten(RowSeen(r, s.user), s)
<1>1. /\ req[r].pc = "run" /\ req[r].plan # <<>> /\ s.do \in RowKinds
      /\ ~RowLocked(r, s.user) /\ lastEvent' = lastEvent
  BY DEF WriteRow, AtStatement, RowKinds
<1>2. /\ s \in Statements /\ s.user \in Users /\ StatementFits(req[r], 1)
      /\ s = req[r].plan[1] /\ Len(req[r].plan) \in Nat \ {0}
      /\ req[r].plan \in Seq(Statements) /\ Story(req[r])
      /\ req[r] \in RequestRecords /\ req \in [Requests -> RequestRecords]
      /\ req[r].tx \in Transactions
      /\ next \in Nat /\ rows \in [Users -> Row \cup {NoRow}]
  BY <1>1, NextStatement, StatementShape, RequestShape DEF CallInv, RequestsFit, OutboxInv,
     TablesOK, Key
<1>3. CASE RowFound(r, s) /\ InTx(r)
           /\ req' = [req EXCEPT ![r].plan = Tail(@),
                                 ![r].tx.user = s.user, ![r].tx.row = row]
           /\ rows' = rows /\ next' = next + (IF s.do = "insert" THEN 1 ELSE 0)
  <2> DEFINE tx == [req[r].tx EXCEPT !.user = s.user, !.row = row]
             x  == [req[r] EXCEPT !.plan = Tail(@), !.tx = tx, !.ended = req[r].ended]
  <2>1. /\ req[r].op \in Transactional /\ s.user = req[r].user /\ req[r].tx.row = NoRow
    BY <1>1, <1>2, <1>3 DEF StatementFits, InTx
  <2>2. StatementTells(req[r], 1) /\ req[r].tx.event = NoEvent
    BY <1>2, <2>1 DEF Story
  <2>3. s.do \in {"connect", "disconnect", "insert"}
    BY <1>1, <1>2, <2>2 DEF StatementTells
  <2>4. row # NoRow /\ row.status = Leaves(s)
    BY <1>1, <1>3, <2>1, <2>3, WrittenRowTells
  <2> HIDE DEF s, row
  <2>5. /\ req' = [req EXCEPT ![r] = x]
        /\ x.plan = Tail(req[r].plan) /\ x.op = req[r].op /\ x.user = req[r].user
        /\ x.tx.row = row /\ x.tx.event = req[r].tx.event
    <3>1. tx.row = row /\ tx.event = req[r].tx.event
      BY <1>2 DEF Transactions
    <3>2. req' = [req EXCEPT ![r] = x]
      BY <1>2, <1>3 DEF RequestRecords, Transactions
    <3> HIDE DEF tx
    <3>3. /\ x.plan = Tail(req[r].plan) /\ x.op = req[r].op /\ x.user = req[r].user
          /\ x.tx = tx
      BY <1>2 DEF RequestRecords
    <3> HIDE DEF x
    <3> QED
      BY <3>1, <3>2, <3>3
  <2>6. next' \in Nat /\ next <= next' /\ rows' = rows
    BY <1>2, <1>3
  <2> HIDE DEF tx, x
  <2>7. Story(x)
    BY <1>1, <1>2, <2>1, <2>4, <2>5, StoryWrites
  <2> QED
    BY <1>1, <2>1, <2>2, <2>5, <2>6, <2>7, WriteInTxTells
<1>4. CASE RowFound(r, s) /\ ~InTx(r)
           /\ req' = [req EXCEPT ![r].plan = Tail(@)]
           /\ rows' = [rows EXCEPT ![s.user] = row]
           /\ next' = next + (IF s.do = "insert" THEN 1 ELSE 0)
  <2> DEFINE x == [req[r] EXCEPT !.plan = Tail(@)]
             seen == rows[s.user]
  <2>1. req[r].op \notin Transactional /\ s.do \in RowKinds \ {"insert", "disconnect"}
    BY <1>1, <1>2, <1>4 DEF StatementFits, InTx
  <2>2. req[r].tx.row = NoRow
    BY <2>1, NothingWritten
  <2>3. row = RowWritten(seen, s) /\ seen \in Row
    BY <1>2, <1>4, <2>1, <2>2, StatementShape DEF RowSeen, RowFound, NoRow, Key
  <2> HIDE DEF s, seen
  <2>4. row.status = seen.status \/ row.status \in {"connected", "none"}
    BY <2>1, <2>3 DEF RowWritten, RowKinds, Row, NoRow
  <2> HIDE DEF row
  <2>5. \A u \in Users : \/ rows'[u].status = rows[u].status
                         \/ rows'[u].status \notin {"disconnected", "waiting"}
    BY <1>2, <1>4, <2>4 DEF seen
  <2>6. /\ req' = [req EXCEPT ![r] = x]
        /\ x.plan = Tail(req[r].plan) /\ x.op = req[r].op /\ x.user = req[r].user
        /\ x.tx = req[r].tx
    BY <1>2, <1>4 DEF RequestRecords
  <2>7. next' \in Nat /\ next <= next'
    BY <1>2, <1>4
  <2> HIDE DEF x
  <2> QED
    BY <1>1, <2>1, <2>5, <2>6, <2>7, PastStatementTells
<1>5. CASE req[r].op = "admitAll" /\ req' = [req EXCEPT ![r].plan = Tail(Tail(@))]
           /\ UNCHANGED <<rows, next>>
  BY <1>1, <1>5, SkipTells
<1>6. CASE Refuse(r) /\ UNCHANGED <<rows, next>>
  BY <1>1, <1>6, RefuseTells DEF RowsAndEventsKept
<1> QED
  BY <1>3, <1>4, <1>5, <1>6 DEF WriteRow
(* enqueueParticipantEventTx draws a sequence above every event committed  *)
(* so far; the row is locked, so that no own event of it commits before.   *)
LEMMA EnqueueEventTells ==
    ASSUME CallInv, OutboxInv, NEW r \in Requests, EnqueueEvent(r)
    PROVE  OutboxInv'
<1> DEFINE e == [seq |-> next, own |-> TRUE, what |-> Statement(r).what]
           tx == [req[r].tx EXCEPT !.event = e]
           x  == [req[r] EXCEPT !.plan = Tail(@), !.tx = tx, !.ended = req[r].ended]
<1>1. /\ req[r].pc = "run" /\ req[r].plan # <<>> /\ Statement(r).do = "event"
      /\ next' = next + 1 /\ UNCHANGED <<rows, lastEvent>>
      /\ req' = [req EXCEPT ![r].plan = Tail(@), ![r].tx.event = e]
  BY DEF EnqueueEvent, AtStatement
<1>2. /\ StatementFits(req[r], 1) /\ Statement(r) = req[r].plan[1]
      /\ req[r] \in RequestRecords /\ req \in [Requests -> RequestRecords]
      /\ req[r].plan \in Seq(Statements) /\ Story(req[r]) /\ req[r].tx \in Transactions
      /\ next \in Nat \ {0}
  BY <1>1, NextStatement, RequestShape DEF CallInv, RequestsFit, OutboxInv, TablesOK, Key
<1>3. e.seq = next /\ e.own /\ e.what = req[r].plan[1].what
  BY <1>2
<1> HIDE DEF e
<1>4. tx.row = req[r].tx.row /\ tx.event = e
  BY <1>2 DEF Transactions
<1>5. req' = [req EXCEPT ![r] = x]
  BY <1>1, <1>2 DEF RequestRecords, Transactions
<1> HIDE DEF tx
<1>6. /\ x.plan = Tail(req[r].plan) /\ x.op = req[r].op /\ x.user = req[r].user
      /\ x.tx.row = req[r].tx.row /\ x.tx.event = e
  BY <1>2, <1>4 DEF RequestRecords
<1> HIDE DEF x
<1>7. Story(x) /\ req[r].tx.row # NoRow
  <2>1. req[r].op \in Transactional
    BY <1>1, <1>2 DEF StatementFits
  <2> QED
    BY <1>1, <1>2, <1>3, <1>6, <2>1, StoryEnqueues
<1>8. /\ req'[r] = x /\ \A q \in Requests \ {r} : req'[q] = req[q]
      /\ \A q \in Requests : req[q].user \in Users /\ req[q].tx.event.seq \in Nat
      /\ \A u \in Users : lastEvent[u].seq \in Nat
  BY <1>2, <1>5 DEF CallInv, TablesOK, RequestRecords, Transactions, Event
<1>9. (\A q \in Requests : Story(req[q]))'
  <2> SUFFICES ASSUME NEW q \in Requests PROVE Story(req'[q])
    BY DEF Story, StatementTells, HasEvent, Tells, Leaves
  <2> QED
    BY <1>7, <1>8 DEF OutboxInv
<1>10. RowLocksHeld'
  BY <1>6, <1>8 DEF OutboxInv, RowLocksHeld
<1>11. SequencesGrow'
  BY <1>1, <1>2, <1>3, <1>6, <1>8 DEF OutboxInv, SequencesGrow
<1>12. OutboxTellsStatus'
  BY <1>1 DEF OutboxInv, OutboxTellsStatus
<1> QED
  BY <1>9, <1>10, <1>11, <1>12 DEF OutboxInv

(* The commit shows row and event together.                                *)
LEMMA CommitTells ==
    ASSUME CallInv, OutboxInv, NEW r \in Requests, Commit(r)
    PROVE  OutboxInv'
<1>0. PICK tx, u : tx = req[r].tx /\ u = req[r].user
  OBVIOUS
<1>1. PICK x : /\ req' = [req EXCEPT ![r] = x] /\ Story(x)
               /\ x.tx.row = NoRow /\ x.tx.event = NoEvent
  <2>1. \/ req' = [req EXCEPT ![r] = Idle]
        \/ req' = [req EXCEPT ![r] = [Idle EXCEPT !.pc = "close"]]
    BY DEF Commit, CallInv, RequestsFit
  <2> DEFINE y == [Idle EXCEPT !.pc = "close"]
  <2>2. y.op = "none" /\ y.tx = NoTx
    BY DEF Idle
  <2> HIDE DEF y
  <2>3. Story(y) /\ y.tx.row = NoRow /\ y.tx.event = NoEvent
    BY <2>2, FreshStory DEF NoTx, Transactional
  <2> QED
    BY <2>1, <2>3, IdleStory DEF y
<1>2. /\ req'[r] = x /\ \A q \in Requests \ {r} : req'[q] = req[q]
      /\ next \in Nat \ {0} /\ next' = next /\ NoEvent.seq = 0 /\ ~NoEvent.own
      /\ \A q \in Requests : req[q].user \in Users /\ req[q].tx.event.seq \in Nat
      /\ rows \in [Users -> Row \cup {NoRow}] /\ lastEvent \in [Users -> Event]
      /\ u \in Users /\ tx.event \in Event /\ \A v \in Users : lastEvent[v].seq \in Nat
  BY <1>0, <1>1 DEF Commit, CallInv, RequestsFit, RequestRecords, TablesOK, Key,
     Transactions, Event, NoEvent
<1>3. /\ tx.row # NoRow => tx.user = u
      /\ tx.row # NoRow => tx.event # NoEvent
      /\ tx.event # NoEvent =>
            tx.row # NoRow /\ tx.event.own /\ Tells(tx.event.what, tx.row.status)
  <2>1. Fits(req[r]) /\ Story(req[r]) /\ req[r].plan = <<>>
    BY DEF CallInv, RequestsFit, OutboxInv, Commit
  <2>2. ~HasEvent(req[r])
    BY <2>1 DEF HasEvent
  <2> QED
    BY <1>0, <2>1, <2>2 DEF Fits, TxFits, Story
<1>4. /\ rows' = IF tx.row # NoRow THEN [rows EXCEPT ![u] = tx.row] ELSE rows
      /\ lastEvent' = [lastEvent EXCEPT ![u] = Later(tx.event, @)]
  BY <1>0, <1>3 DEF Commit
<1>5. \/ tx.event = NoEvent /\ rows' = rows /\ lastEvent' = lastEvent
      \/ /\ tx.event # NoEvent /\ rows' = [rows EXCEPT ![u] = tx.row]
         /\ lastEvent' = [lastEvent EXCEPT ![u] =
                IF tx.event.seq > lastEvent[u].seq THEN tx.event ELSE lastEvent[u]]
  <2>1. CASE tx.event = NoEvent
    <3>1. Later(tx.event, lastEvent[u]) = lastEvent[u]
      BY <1>2, <2>1 DEF Later
    <3>2. rows' = rows
      BY <1>3, <1>4, <2>1
    <3> QED
      BY <1>2, <1>4, <2>1, <3>1, <3>2
  <2>2. CASE tx.event # NoEvent
    BY <1>2, <1>3, <1>4, <2>2 DEF Later
  <2> QED
    BY <2>1, <2>2
<1>6. (\A q \in Requests : Story(req[q]))'
  <2> SUFFICES ASSUME NEW q \in Requests PROVE Story(req'[q])
    BY DEF Story, StatementTells, HasEvent, Tells, Leaves
  <2> QED
    BY <1>1, <1>2 DEF OutboxInv
<1>7. RowLocksHeld'
  BY <1>1, <1>2 DEF OutboxInv, RowLocksHeld
<1>8. /\ tx.event.seq < next /\ tx.event.seq \in Nat
      /\ tx.event # NoEvent /\ lastEvent[u].own => lastEvent[u].seq < tx.event.seq
  BY <1>0, <1>2 DEF OutboxInv, SequencesGrow
<1>9. SequencesGrow'
  <2>1. ASSUME NEW v \in Users PROVE lastEvent'[v].seq < next'
    BY <1>2, <1>5, <1>8 DEF OutboxInv, SequencesGrow
  <2>2. ASSUME NEW q \in Requests PROVE req'[q].tx.event.seq < next'
    BY <1>1, <1>2 DEF OutboxInv, SequencesGrow
  <2>3. ASSUME NEW q \in Requests, req'[q].tx.event # NoEvent, lastEvent'[req'[q].user].own
        PROVE  lastEvent'[req'[q].user].seq < req'[q].tx.event.seq
    <3>1. q # r /\ req'[q] = req[q] /\ req[q].user \in Users
      BY <1>1, <1>2, <2>3
    <3>2. req[q].tx.row # NoRow
      BY <2>3, <3>1 DEF OutboxInv, Story
    <3>3. tx.event # NoEvent => req[q].user # u
      BY <1>0, <1>3, <3>1, <3>2 DEF OutboxInv, RowLocksHeld
    <3>4. lastEvent'[req[q].user] = lastEvent[req[q].user]
      BY <1>2, <1>5, <3>1, <3>3
    <3> QED
      BY <2>3, <3>1, <3>4 DEF OutboxInv, SequencesGrow
  <2> QED
    BY <2>1, <2>2, <2>3 DEF SequencesGrow
<1>10. OutboxTellsStatus'
  <2> SUFFICES ASSUME NEW v \in Users, lastEvent'[v].own
               PROVE  /\ rows'[v].status = "disconnected" => lastEvent'[v].what = "left"
                      /\ rows'[v].status = "waiting" => lastEvent'[v].what = "waiting"
    BY DEF OutboxTellsStatus
  <2>1. CASE rows'[v] = rows[v] /\ lastEvent'[v] = lastEvent[v]
    BY <2>1 DEF OutboxInv, OutboxTellsStatus
  <2>2. CASE v = u /\ tx.event # NoEvent
    <3>1. rows'[v] = tx.row
      BY <1>2, <1>5, <2>2
    <3>2. lastEvent'[v] = tx.event
      BY <1>2, <1>5, <1>8, <2>2
    <3> QED
      BY <1>3, <2>2, <3>1, <3>2 DEF Tells
  <2> QED
    BY <1>2, <1>5, <2>1, <2>2
<1> QED
  BY <1>6, <1>7, <1>9, <1>10 DEF OutboxInv
LEMMA NextTells ==
    ASSUME CallInv, OutboxInv, Next
    PROVE  OutboxInv'
<1>0. /\ next \in Nat \ {0} /\ req \in [Requests -> RequestRecords]
      /\ rows \in [Users -> Row \cup {NoRow}] /\ Creator \in Users
  BY CallAssumption DEF CallInv, TablesOK, Key, RequestsFit
<1>1. ASSUME UNCHANGED req, UNCHANGED lastEvent, next' \in Nat, next <= next',
             \A u \in Users : \/ rows'[u].status = rows[u].status
                              \/ rows'[u].status \notin {"disconnected", "waiting"}
      PROVE  OutboxInv'
  <2>1. (\A q \in Requests : Story(req[q]))'
    <3> SUFFICES ASSUME NEW q \in Requests PROVE Story(req'[q])
      BY DEF Story, StatementTells, HasEvent, Tells, Leaves
    <3> QED
      BY <1>1 DEF OutboxInv
  <2>2. RowLocksHeld'
    BY <1>1 DEF OutboxInv, RowLocksHeld
  <2>3. SequencesGrow'
    <3>1. /\ \A u \in Users : lastEvent[u].seq \in Nat
          /\ \A q \in Requests : req[q].tx.event.seq \in Nat
      BY <1>0 DEF CallInv, TablesOK, Event, RequestRecords, Transactions
    <3> QED
      BY <1>0, <1>1, <3>1 DEF OutboxInv, SequencesGrow
  <2>4. OutboxTellsStatus'
    BY <1>1 DEF OutboxInv, OutboxTellsStatus
  <2> QED
    BY <2>1, <2>2, <2>3, <2>4 DEF OutboxInv
<1>2. CASE \E settings \in StartSettings : StartCall(settings)
  <2>1. /\ UNCHANGED <<req, lastEvent>> /\ next' = next + 1
        /\ rows' = [rows EXCEPT ![Creator] =
                      [id |-> next, role |-> "host", status |-> "connected",
                       muted |-> FALSE, sharing |-> FALSE]]
    BY <1>2 DEF StartCall
  <2>2. \A u \in Users : rows'[u].status = rows[u].status \/ rows'[u].status = "connected"
    BY <1>0, <2>1
  <2> QED
    BY <1>0, <1>1, <2>1, <2>2
<1>3. CASE \E u \in Users : IssueMediaJoinToken(u)
  BY <1>0, <1>1, <1>3 DEF IssueMediaJoinToken
<1>4. CASE \E r \in Requests, op \in Ops, u, t \in Users :
             \E arg \in Args(op) : Begin(r, op, u, t, arg)
  <2>0. PICK r \in Requests, op \in Ops, u \in Users, t \in Users :
             \E arg \in Args(op) : Begin(r, op, u, t, arg)
    BY <1>4
  <2>1. PICK arg \in Args(op) : Begin(r, op, u, t, arg)
    BY <2>0
  <2> DEFINE x == [Idle EXCEPT !.pc = IF op = "offer" THEN "room" ELSE "own",
                               !.op = op, !.user = u, !.target = t, !.arg = arg,
                               !.call = call]
  <2>2. /\ req' = [req EXCEPT ![r] = x] /\ next' = next /\ rows' = rows
        /\ lastEvent' = lastEvent
    BY <2>1 DEF Begin
  <2>3. x.plan = <<>> /\ x.tx = NoTx
    BY DEF Idle
  <2> HIDE DEF x
  <2>4. x.tx.row = NoRow /\ x.tx.event = NoEvent /\ PlanTells(x.plan)
    BY <2>3 DEF NoTx, PlanTells
  <2>5. Story(x)
    BY <2>4, FreshStory
  <2>6. next' \in Nat /\ next <= next'
    BY <1>0, <2>2
  <2> QED
    BY <2>2, <2>4, <2>5, <2>6, QuietStep
<1>5. CASE \E r \in Requests : ReadOwn(r) \/ ReadTarget(r) \/ ReadList(r)
  BY <1>5, ReadsTell
<1>6. CASE \E r \in Requests : WriteRow(r) \/ WriteCall(r) \/ WriteSettings(r) \/ PublishEvent(r)
  BY <1>6, WriteRowTells, WriteCallTells, SimpleWritesTell
<1>7. CASE \E r \in Requests : ListAfterLeave(r) \/ EnqueueEvent(r) \/ Commit(r)
  BY <1>7, ListAfterLeaveTells, EnqueueEventTells, CommitTells
<1>8. CASE \E r \in Requests : CloseRooms(r) \/ MediaOffer(r) \/ StatementFails(r)
  <2>1. PICK r \in Requests : CloseRooms(r) \/ MediaOffer(r) \/ StatementFails(r)
    BY <1>8
  <2>2. UNCHANGED <<rows, lastEvent, next>>
    BY <2>1 DEF CloseRooms, MediaOffer, StatementFails
  <2>3. \/ Refuse(r)
        \/ req[r].op = "admitAll" /\ req' = [req EXCEPT ![r].plan = Tail(Tail(@))]
    BY <2>1 DEF CloseRooms, MediaOffer, StatementFails, Refuse
  <2> QED
    BY <2>2, <2>3, RefuseTells, SkipTells DEF RowsAndEventsKept
<1> QED
  BY <1>2, <1>3, <1>4, <1>5, <1>6, <1>7, <1>8 DEF Next

(* JoinCall and LeaveCall draw the sequence of their event while their     *)
(* transaction holds the participant's row (service.go:542, 621, 871): for any  *)
(* number of members and requests, the last event a participant's own      *)
(* request committed, when no other was published after it, is the one of  *)
(* the row's status.                                                       *)
THEOREM OutboxTellsStatusAlways == Spec => []OutboxTellsStatus
<1>1. Init => OutboxInv
  <2> SUFFICES ASSUME Init PROVE OutboxInv
    OBVIOUS
  <2>1. \A r \in Requests : req[r] = Idle
    BY DEF Init
  <2>2. /\ \A u \in Users : lastEvent[u] = NoEvent
        /\ next = 1 /\ NoEvent.seq = 0 /\ ~NoEvent.own
    BY DEF Init, NoEvent
  <2>3. \A r \in Requests : Story(req[r]) /\ req[r].tx.row = NoRow /\ req[r].tx.event = NoEvent
    BY <2>1, IdleStory, Zenon
  <2>4. RowLocksHeld
    BY <2>3 DEF RowLocksHeld
  <2>5. SequencesGrow
    BY <2>2, <2>3 DEF SequencesGrow
  <2>6. OutboxTellsStatus
    BY <2>2 DEF OutboxTellsStatus
  <2> QED
    BY <2>3, <2>4, <2>5, <2>6 DEF OutboxInv
<1>2. CallInv /\ OutboxInv /\ [Next]_vars => OutboxInv'
  <2>1. ASSUME CallInv, OutboxInv, UNCHANGED vars PROVE OutboxInv'
    <3>1. (\A q \in Requests : Story(req[q]))'
      <4> SUFFICES ASSUME NEW q \in Requests PROVE Story(req'[q])
        BY DEF Story, StatementTells, HasEvent, Tells, Leaves
      <4> QED
        BY <2>1 DEF OutboxInv, vars
    <3> QED
      BY <2>1, <3>1 DEF OutboxInv, RowLocksHeld, SequencesGrow, OutboxTellsStatus, vars
  <2> QED
    BY <2>1, NextTells
<1>3. OutboxInv => OutboxTellsStatus
  BY DEF OutboxInv
<1> QED
  BY <1>1, <1>2, <1>3, InvAlways, PTL DEF Spec
=============================================================================
