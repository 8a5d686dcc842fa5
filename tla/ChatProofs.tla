----------------------------- MODULE ChatProofs ------------------------------
(***************************************************************************)
(* Theorems about modules Chat and Timeline, for any number of documents,  *)
(* requests, workers and faults: what the queue and the events say is what *)
(* the rows say, a file has its object, and a reader's pages leave out no  *)
(* message.                                                                *)
(*                                                                         *)
(* The invariant says which requests may be where, and what a request that *)
(* is about to write may count on: that the row it creates is not there,   *)
(* that the row it has locked is, and that nobody else is doing the same.  *)
(***************************************************************************)
EXTENDS Chat, Timeline, FiniteSetTheorems, WellFoundedInduction, TLAPS

Claims == [doc : Docs, id : 1..MaxResets + 1, ver : 0..MaxVersions, attempts : Nat]
Batches == [at : {"idle", "apply", "complete", "fail"}, jobs : SUBSET Claims,
            doc : Claims \cup {None}]
Copies == [doc : Docs, ver : 0..MaxVersions]
Scans == [at : {"idle", "read", "put", "dead"},
          type : {"none", "channel", "message", "file"}, todo : SUBSET Copies]

(* A row of the queue has an id, and none that was emptied is due: a       *)
(* worker's claim names a row that is there, and what it settles is in its *)
(* batch.                                                                  *)
JobFits(j) ==
    /\ j.status = "none" <=> j.id = 0
    /\ j.ready => j.status # "none"

SearchTypes ==
    /\ resets \in 0..MaxResets
    /\ job \in [Docs -> Jobs] /\ \A d \in Docs : JobFits(job[d])
    /\ index \in [Docs -> 0..MaxVersions]
    /\ worker \in [Workers -> Batches] /\ scan \in Scans
    /\ \A w \in Workers :
        /\ worker[w].at = "idle" <=> worker[w].jobs = {}
        /\ worker[w].at \in {"complete", "fail"} => worker[w].doc \in worker[w].jobs
    /\ scan.at = "put" <=> scan.todo # {}

RowTypes ==
    /\ text \in [Docs -> 0..MaxVersions]
    /\ told \in [Messages \cup MarksOf -> 0..MaxVersions]
    /\ member \subseteq Users /\ marked \subseteq MarksOf
    /\ \A d \in gone : text[d] = 0

Makes == {"send", "upload"} \cup Creates
ByGuest(o) == o.kind \in Sent \cup {"delete"} /\ Author[o.doc] = Guest

(* A request: what it is about, and where one of its kind can be.          *)
OpFits(o) ==
    /\ o \in Ops
    /\ o.at = "idle" <=> o.kind = "none"
    /\ o.kind \in Sent \cup Marks \cup {"delete"} => o.doc \in Messages
    /\ o.kind \in Uploads => o.doc \in Files
    /\ o.kind \in Creates \cup {"rename"} => o.doc \in Channels
    /\ o.kind \in Joins => o.doc \in Users
    /\ o.at \in {"write", "commit"} => o.kind \notin Marks /\ ~ByGuest(o)
    /\ o.at \in {"change", "publish"} => o.kind \in Marks \/ ByGuest(o)
    /\ o.at = "enqueue" => ByGuest(o)
    /\ o.at = "put" => o.kind = "upload"
    /\ o.at = "drop" => o.kind \in Uploads
    /\ o.at = "answer" => o.kind = "send"

RequestsFit == op \in [Procs -> Ops] /\ \A p \in Procs : OpFits(op[p])

(* The row that a request creates is its own, and not there before.        *)
OwnRow ==
    \A p, q \in Procs :
        op[p].kind \in Makes /\ op[q].kind \in Makes /\ op[p].doc = op[q].doc => p = q
Making(o) ==
    o.kind \in Makes /\ o.at \in {"check", "put", "write", "commit", "change"}
NewRow(o) == Making(o) => text[o.doc] = 0 /\ o.doc \notin gone

(* The row that a transaction has updated is locked, and there.            *)
Holds(o) == o.at = "commit" /\ o.kind \in Updates
OneHolder ==
    \A p, q \in Procs : Holds(op[p]) /\ Holds(op[q]) /\ op[p].doc = op[q].doc => p = q
HeldRow(o) ==
    Holds(o) => /\ Exists(o.doc)
                /\ o.kind \in {"edit", "rename"} => text[o.doc] < MaxVersions

RowsFit ==
    /\ OwnRow /\ OneHolder
    /\ \A p \in Procs : NewRow(op[p]) /\ HeldRow(op[p])

(* What an event about a message or a mark should say.                     *)
Says(x) == IF x \in Messages THEN text[x] ELSE IF x \in marked THEN 1 ELSE 0
Telling(o, x) == o.at \in {"enqueue", "publish"} /\ Subject(o) = x

(* Unless its event was lost or two overlapped, at most one request is     *)
(* between a change and its event, and the event says what was changed.    *)
EventFits(x) ==
    /\ \A p, q \in Procs : Telling(op[p], x) /\ Telling(op[q], x) => p = q
    /\ \A p \in Procs : Telling(op[p], x) => op[p].ver = Says(x)
    /\ (\A p \in Procs : ~Telling(op[p], x)) => told[x] = Says(x)

EventsFit ==
    /\ \A m \in Messages \cap crossed : Author[m] = Guest
    /\ \A x \in (Messages \cup MarksOf) \ crossed : EventFits(x)

(* A mark is on a message that is or was there, and a request that carries *)
(* what it read of a mark carries what it is, unless it changed since.     *)
Known(d) == Exists(d) \/ d \in gone
ToMark(o) == o.kind \in Marks /\ o.at = "change"

MarksFit ==
    /\ \A m \in Messages : Pin(m) \in marked \/ React(m) \in marked => Known(m)
    /\ \A p \in Procs :
        /\ ToMark(op[p]) => Known(op[p].doc)
        /\ \A x \in Carries(op[p]) \ crossed : op[p].pin = Says(x)

(* The object of a file and the request that is responsible for it.        *)
Keeps(o, f) ==
    /\ o.doc = f
    /\ \/ o.kind = "upload" /\ o.at \in {"write", "commit", "drop"}
       \/ o.kind = "discard" /\ o.at = "drop"

ObjectOf(o) ==
    /\ o.kind = "upload" /\ o.at \in {"write", "commit"} => o.doc \in objects
    /\ o.kind = "upload" /\ o.at = "drop" => text[o.doc] = 0 \/ o.doc \in unsure
    /\ o.kind = "discard" /\ o.at = "drop" => o.doc \in gone

FilesFit ==
    /\ \A p \in Procs : ObjectOf(op[p])
    /\ \A f \in Files :
        /\ Exists(f) => f \in objects \cup unsure
        /\ f \in objects => \/ Exists(f) \/ f \in leaked \cup unsure
                            \/ \E p \in Procs : Keeps(op[p], f)

Inv ==
    /\ SearchTypes /\ RowTypes /\ RequestsFit
    /\ RowsFit /\ JobTellsRow /\ EventsFit /\ MarksFit /\ FilesFit

-----------------------------------------------------------------------------
(* How a request goes on.                                                  *)

Turn(p) == op' \in [Procs -> Ops] /\ \A q \in Procs \ {p} : op'[q] = op[q]

GoesOn(o, n, at) ==
    n.kind = o.kind /\ n.doc = o.doc /\ n.pin = o.pin /\ n.at = at

LEMMA OpsRecords ==
  ASSUME NEW o \in Ops
  PROVE  /\ o.kind \in Kinds \cup {"none"} /\ o.doc \in Docs \cup Users \cup {None}
         /\ o.files \subseteq Files /\ o.ver \in 0..MaxVersions /\ o.pin \in 0..1
         /\ o.at \in {"idle", "check", "write", "commit", "answer", "put", "drop",
                      "change", "enqueue", "publish"}
  BY DEF Ops

LEMMA IdleFits == Idle \in Ops /\ OpFits(Idle)
  <1>1. MaxVersions \in Nat
    BY ChatAssumption
  <1>2. Idle \in Ops
    BY <1>1 DEF Idle, Ops
  <1>. QED  BY <1>2 DEF Idle, OpFits, ByGuest, Sent, Creates, Uploads, Marks, Joins

LEMMA TurnKeepsFit ==
  ASSUME RequestsFit, NEW p \in Procs, Turn(p), OpFits(op'[p])
  PROVE  RequestsFit'
  <1>1. \A q \in Procs : OpFits(op'[q])
    BY DEF RequestsFit, Turn
  <1>. QED  BY <1>1 DEF RequestsFit, Turn, OpFits, ByGuest

(* A request that begins.                                                  *)
LEMMA RequestedTurn ==
  ASSUME RequestsFit, NEW p \in Procs, Requested(p)
  PROVE  /\ Turn(p) /\ OpFits(op'[p]) /\ op[p] = Idle /\ op'[p].at = "check"
         /\ op'[p].kind \in Makes => IsNew(op'[p].doc)
  <1>1. PICK kind \in Kinds :
          /\ \E d \in CASE kind \in Sent \cup Marks \cup {"delete"} -> Messages
                        [] kind \in Uploads -> Files
                        [] kind \in Joins -> Users
                        [] OTHER -> Channels : Begin(p, kind, d)
    BY DEF Requested
  <1>. DEFINE D == CASE kind \in Sent \cup Marks \cup {"delete"} -> Messages
                     [] kind \in Uploads -> Files
                     [] kind \in Joins -> Users
                     [] OTHER -> Channels
  <1>2. PICK d \in D : Begin(p, kind, d)
    BY <1>1
  <1>3. /\ kind \in Sent \cup Marks \cup {"delete"} => d \in Messages
        /\ kind \in Uploads => d \in Files
        /\ kind \in Creates \cup {"rename"} => d \in Channels
        /\ kind \in Joins => d \in Users
    <2>1. CASE kind \in Sent \cup Marks \cup {"delete"}
      BY <2>1 DEF Sent, Marks, Uploads, Creates, Joins
    <2>2. CASE kind \in Uploads
      BY <2>2 DEF Sent, Marks, Uploads, Creates, Joins
    <2>3. CASE kind \in Joins
      BY <2>3 DEF Sent, Marks, Uploads, Creates, Joins
    <2>4. CASE kind \in Creates \cup {"rename"}
      BY <2>4 DEF Sent, Marks, Uploads, Creates, Joins
    <2>. QED  BY <2>1, <2>2, <2>3, <2>4 DEF Kinds
  <1>4. d \in Docs \cup Users \cup {None}
    BY <1>3 DEF Docs, Kinds
  <1>. DEFINE n == [Idle EXCEPT !.kind = kind, !.at = "check", !.doc = d]
  <1>5. n \in Ops /\ n.kind = kind /\ n.at = "check" /\ n.doc = d
    BY <1>4, IdleFits DEF Idle, Ops
  <1>6. op[p] = Idle /\ op' = [op EXCEPT ![p] = n] /\ (kind \in Makes => IsNew(d))
    BY <1>2 DEF Begin, Makes, Creates
  <1>. HIDE DEF n, D
  <1>7. Turn(p) /\ op'[p] = n
    BY <1>5, <1>6 DEF Turn, RequestsFit
  <1>8. OpFits(n)
    BY <1>3, <1>5 DEF OpFits, Kinds, Sent, Marks, Uploads, Creates, Joins
  <1>. QED  BY <1>5, <1>6, <1>7, <1>8

LEMMA CheckTurn ==
  ASSUME RequestsFit, NEW p \in Procs, Check(p)
  PROVE  /\ Turn(p) /\ OpFits(op'[p]) /\ op[p].at = "check"
         /\ \/ op'[p] = Idle
            \/ /\ op'[p].kind = op[p].kind /\ op'[p].doc = op[p].doc
               /\ op'[p].at \in {"change", "put", "write"}
               /\ op'[p].at = "write" => op[p].kind # "upload"
               /\ op'[p].pin = PinRead(op[p])
               /\ Granted(op[p].kind, op[p].doc)
  <1>. DEFINE o == op[p]
              n == [o EXCEPT !.at = Step(o), !.pin = PinRead(o)]
  <1>1. o \in Ops /\ OpFits(o) /\ o.at = "check"
    BY DEF RequestsFit, Check
  <1>2. op' = [op EXCEPT ![p] = IF Granted(o.kind, o.doc) THEN n ELSE Idle]
    BY DEF Check
  <1>3. /\ Step(o) \in {"change", "put", "write"}
        /\ o.kind \in Marks => Step(o) = "change"
        /\ Step(o) = "change" => o.kind \in Marks \/ ByGuest(o)
        /\ Step(o) = "put" => o.kind = "upload"
        /\ Step(o) = "write" => ~ByGuest(o) /\ o.kind # "upload"
    BY DEF Step, ByGuest, Marks, Sent
  <1>b. PinRead(o) \in 0..1
    BY DEF PinRead
  <1>. HIDE DEF o
  <1>4. /\ n \in Ops /\ n.kind = o.kind /\ n.doc = o.doc /\ n.at = Step(o)
        /\ n.pin = PinRead(o)
    BY <1>1, <1>3, <1>b DEF Ops
  <1>. HIDE DEF n
  <1>5. OpFits(n)
    <2>1. n.kind = o.kind /\ n.doc = o.doc /\ n.at = Step(o)
      BY <1>4
    <2>2. ByGuest(n) <=> ByGuest(o)
      BY <2>1 DEF ByGuest
    <2>. QED  BY <1>1, <1>3, <1>4, <2>1, <2>2 DEF OpFits
  <1>6. CASE Granted(o.kind, o.doc)
    <2>1. Turn(p) /\ op'[p] = n
      BY <1>2, <1>4, <1>6 DEF Turn, RequestsFit
    <2>. QED  BY <1>1, <1>3, <1>4, <1>5, <1>6, <2>1 DEF o
  <1>7. CASE ~Granted(o.kind, o.doc)
    <2>1. Turn(p) /\ op'[p] = Idle
      BY <1>2, <1>7, IdleFits DEF Turn, RequestsFit
    <2>. QED  BY <1>1, <2>1, IdleFits DEF o
  <1>. QED  BY <1>6, <1>7

(* A request that goes on, with what its kind allows there.                *)
LEMMA OnwardFits ==
  ASSUME NEW o, OpFits(o), NEW n \in Ops, NEW at, GoesOn(o, n, at), o.at # "idle",
         at # "idle",
         at \in {"write", "commit"} => o.kind \notin Marks /\ ~ByGuest(o),
         at \in {"change", "publish"} => o.kind \in Marks \/ ByGuest(o),
         at = "enqueue" => ByGuest(o),
         at = "put" => o.kind = "upload",
         at = "drop" => o.kind \in Uploads,
         at = "answer" => o.kind = "send"
  PROVE  OpFits(n)
  <1>1. n.kind = o.kind /\ n.doc = o.doc /\ n.at = at
    BY DEF GoesOn
  <1>2. ByGuest(n) <=> ByGuest(o)
    BY <1>1 DEF ByGuest
  <1>. QED  BY <1>1, <1>2 DEF OpFits

LEMMA WriteTurn ==
  ASSUME RequestsFit, NEW p \in Procs, Write(p)
  PROVE  /\ Turn(p) /\ OpFits(op'[p]) /\ op[p].at = "write"
         /\ \/ op'[p] = Idle /\ op[p].kind \in Updates
            \/ /\ GoesOn(op[p], op'[p], "commit")
               /\ op[p].kind \in Updates => Exists(op[p].doc) /\ ~Locked(op[p].doc)
               /\ op[p].kind \in {"edit", "rename"} => text[op[p].doc] < MaxVersions
               /\ op'[p].files \subseteq Files
  <1>. DEFINE o == op[p]
              fs == IF o.kind # "delete" THEN {}
                    ELSE {f \in Files : Parent[f] = o.doc /\ Exists(f)}
              n == [o EXCEPT !.at = "commit", !.files = fs]
  <1>1. o \in Ops /\ OpFits(o) /\ o.at = "write"
    BY DEF RequestsFit, Write
  <1>2. /\ op' = [op EXCEPT ![p] = IF o.kind \in Updates /\ ~Exists(o.doc) THEN Idle ELSE n]
        /\ o.kind \in Updates => ~Locked(o.doc)
        /\ o.kind \in {"edit", "rename"} => text[o.doc] < MaxVersions
    BY DEF Write
  <1>3. fs \subseteq Files
    OBVIOUS
  <1>. HIDE DEF o, fs
  <1>4. n \in Ops /\ GoesOn(o, n, "commit") /\ n.files \subseteq Files
    BY <1>1, <1>3 DEF Ops, GoesOn
  <1>. HIDE DEF n
  <1>5. o.kind \notin Marks /\ ~ByGuest(o)
    BY <1>1 DEF OpFits
  <1>6. OpFits(n)
    BY <1>1, <1>4, <1>5, OnwardFits
  <1>7. CASE o.kind \in Updates /\ ~Exists(o.doc)
    <2>1. Turn(p) /\ op'[p] = Idle
      BY <1>2, <1>7, IdleFits DEF Turn, RequestsFit
    <2>. QED  BY <1>1, <1>7, <2>1, IdleFits DEF o
  <1>8. CASE ~(o.kind \in Updates /\ ~Exists(o.doc))
    <2>1. Turn(p) /\ op'[p] = n
      BY <1>2, <1>4, <1>8 DEF Turn, RequestsFit
    <2>2. n.files \subseteq Files /\ GoesOn(o, n, "commit")
      BY <1>4
    <2>. QED  BY <1>1, <1>2, <1>6, <1>8, <2>1, <2>2 DEF o
  <1>. QED  BY <1>7, <1>8

LEMMA ThenFits ==
  ASSUME NEW o \in Ops, OpFits(o), o.at # "idle"
  PROVE  /\ Then(o, TRUE) \in Ops /\ OpFits(Then(o, TRUE))
         /\ \/ Then(o, TRUE) = Idle /\ o.kind # "discard"
            \/ GoesOn(o, Then(o, TRUE), "answer") /\ o.kind = "send"
            \/ GoesOn(o, Then(o, TRUE), "drop") /\ o.kind = "discard"
         /\ Then(o, FALSE) \in Ops /\ OpFits(Then(o, FALSE))
         /\ \/ Then(o, FALSE) = Idle /\ o.kind # "upload"
            \/ GoesOn(o, Then(o, FALSE), "drop") /\ o.kind = "upload"
  <1>. DEFINE a == [o EXCEPT !.at = "answer"]
              d == [o EXCEPT !.at = "drop"]
  <1>1. /\ a \in Ops /\ GoesOn(o, a, "answer")
        /\ d \in Ops /\ GoesOn(o, d, "drop")
    BY DEF Ops, GoesOn
  <1>2. Then(o, TRUE) = IF o.kind = "send" THEN a ELSE IF o.kind = "discard" THEN d ELSE Idle
    BY DEF Then
  <1>3. Then(o, FALSE) = IF o.kind = "upload" THEN d ELSE Idle
    BY DEF Then
  <1>. HIDE DEF a, d
  <1>4. o.kind = "send" => OpFits(a)
    BY <1>1, OnwardFits
  <1>5. o.kind = "upload" \/ o.kind = "discard" => OpFits(d)
    BY <1>1, OnwardFits DEF Uploads
  <1>. QED  BY <1>1, <1>2, <1>3, <1>4, <1>5, IdleFits

(* After the commit: only a send, a failed upload and a deletion go on.    *)
After(o, n) ==
    \/ n = Idle
    \/ GoesOn(o, n, "answer") /\ o.kind = "send"
    \/ GoesOn(o, n, "drop") /\ o.kind \in Uploads

LEMMA CommittedTurn ==
  ASSUME RequestsFit, NEW p \in Procs, NEW kinds, Committed(p, kinds)
  PROVE  /\ Turn(p) /\ OpFits(op'[p]) /\ op[p].at = "commit" /\ op[p].kind \in kinds
         /\ After(op[p], op'[p])
         /\ unsure \subseteq unsure' /\ unsure' \subseteq unsure \cup {op[p].doc}
         /\ op[p].kind = "upload" =>
                \/ op'[p] = Idle
                \/ GoesOn(op[p], op'[p], "drop") /\ op[p].doc \in unsure'
         /\ op[p].kind = "discard" =>
                GoesOn(op[p], op'[p], "drop") \/ op[p].doc \in unsure'
  <1>. DEFINE o == op[p]
              yes == Then(o, TRUE)
              no == Then(o, FALSE)
  <1>1. o \in Ops /\ OpFits(o) /\ o.at = "commit" /\ o.kind \in kinds
    BY DEF RequestsFit, Committed
  <1>2. \/ op' = [op EXCEPT ![p] = yes] /\ unsure' = unsure
        \/ op' = [op EXCEPT ![p] = no] /\ unsure' = unsure \cup ({o.doc} \cap Files)
    BY DEF Committed
  <1>3. o.kind \in Uploads => o.doc \in Files
    BY <1>1 DEF OpFits
  <1>4. o.kind = "upload" \/ o.kind = "discard" => o.kind \in Uploads
    BY DEF Uploads
  <1>5. op \in [Procs -> Ops]
    BY DEF RequestsFit
  <1>. HIDE DEF o
  <1>a. /\ yes \in Ops /\ OpFits(yes)
        /\ \/ yes = Idle /\ o.kind # "discard"
           \/ GoesOn(o, yes, "answer") /\ o.kind = "send"
           \/ GoesOn(o, yes, "drop") /\ o.kind = "discard"
        /\ no \in Ops /\ OpFits(no)
        /\ \/ no = Idle /\ o.kind # "upload"
           \/ GoesOn(o, no, "drop") /\ o.kind = "upload"
    BY <1>1, ThenFits
  <1>. HIDE DEF yes, no
  <1>6. CASE op' = [op EXCEPT ![p] = yes] /\ unsure' = unsure
    <2>1. yes \in Ops /\ OpFits(yes) /\ After(o, yes)
      BY <1>a DEF After, Uploads
    <2>2. o.kind = "discard" => GoesOn(o, yes, "drop")
      BY <1>a
    <2>3. o.kind = "upload" => yes = Idle
      BY <1>a, <1>4 DEF GoesOn
    <2>4. Turn(p) /\ op'[p] = yes
      BY <1>5, <1>6, <2>1 DEF Turn
    <2>. QED  BY <1>1, <1>6, <2>1, <2>2, <2>3, <2>4 DEF o
  <1>7. CASE op' = [op EXCEPT ![p] = no] /\ unsure' = unsure \cup ({o.doc} \cap Files)
    <2>1. no \in Ops /\ OpFits(no) /\ After(o, no)
      BY <1>a DEF After, Uploads
    <2>2. o.kind = "upload" => GoesOn(o, no, "drop")
      BY <1>a
    <2>3. Turn(p) /\ op'[p] = no
      BY <1>5, <1>7, <2>1 DEF Turn
    <2>. QED  BY <1>1, <1>3, <1>4, <1>7, <2>1, <2>2, <2>3 DEF o
  <1>. QED  BY <1>2, <1>6, <1>7

LEMMA RollbackTurn ==
  ASSUME RequestsFit, NEW p \in Procs, Rollback(p)
  PROVE  /\ Turn(p) /\ OpFits(op'[p]) /\ op[p].at \in {"write", "commit"}
         /\ \/ op'[p] = Idle /\ op[p].kind # "upload"
            \/ GoesOn(op[p], op'[p], "drop") /\ op[p].kind = "upload"
  <1>. DEFINE o == op[p]
              no == Then(o, FALSE)
  <1>1. o \in Ops /\ OpFits(o) /\ o.at \in {"write", "commit"} /\ op \in [Procs -> Ops]
    BY DEF RequestsFit, Rollback
  <1>2. op' = [op EXCEPT ![p] = no]
    BY DEF Rollback
  <1>. HIDE DEF o
  <1>3. /\ no \in Ops /\ OpFits(no)
        /\ \/ no = Idle /\ o.kind # "upload"
           \/ GoesOn(o, no, "drop") /\ o.kind = "upload"
    BY <1>1, ThenFits
  <1>. HIDE DEF no
  <1>4. Turn(p) /\ op'[p] = no
    BY <1>1, <1>2, <1>3 DEF Turn
  <1>. QED  BY <1>1, <1>3, <1>4 DEF o

LEMMA EndTurn ==
  ASSUME RequestsFit, NEW p \in Procs, op' = [op EXCEPT ![p] = Idle]
  PROVE  Turn(p) /\ op'[p] = Idle /\ OpFits(op'[p])
  BY IdleFits DEF Turn, RequestsFit

LEMMA PutTurn ==
  ASSUME RequestsFit, NEW p \in Procs, Put(p)
  PROVE  /\ Turn(p) /\ OpFits(op'[p]) /\ op[p].at = "put" /\ op[p].kind = "upload"
         /\ GoesOn(op[p], op'[p], "write")
  <1>. DEFINE o == op[p]
              n == [o EXCEPT !.at = "write"]
  <1>1. o \in Ops /\ OpFits(o) /\ o.at = "put" /\ o.kind = "upload" /\ op \in [Procs -> Ops]
    BY DEF RequestsFit, Put, OpFits
  <1>2. op' = [op EXCEPT ![p] = n]
    BY DEF Put
  <1>. HIDE DEF o
  <1>3. n \in Ops /\ GoesOn(o, n, "write")
    BY <1>1 DEF Ops, GoesOn
  <1>. HIDE DEF n
  <1>4. o.kind \notin Marks /\ ~ByGuest(o)
    BY <1>1 DEF Marks, ByGuest, Sent
  <1>5. OpFits(n)
    BY <1>1, <1>3, <1>4, OnwardFits
  <1>6. Turn(p) /\ op'[p] = n
    BY <1>1, <1>2, <1>3 DEF Turn
  <1>. QED  BY <1>1, <1>3, <1>5, <1>6 DEF o

(* A guest's request that found its message changes it.                    *)
LEMMA GuestChangeTurn ==
  ASSUME RequestsFit, NEW p \in Procs, NEW kind \in {"send", "edit", "delete"},
         text \in [Docs -> 0..MaxVersions], GuestChange(p, kind)
  PROVE  /\ Turn(p) /\ OpFits(op'[p])
         /\ op[p].at = "change" /\ op[p].kind = kind /\ op[p].doc \in Messages
         /\ Author[op[p].doc] = Guest
         /\ \/ op'[p] = Idle /\ text' = text /\ gone' = gone /\ crossed' = crossed
            \/ /\ GoesOn(op[p], op'[p], "enqueue")
               /\ op'[p].ver \in 0..MaxVersions
               /\ op'[p].ver = (IF kind = "delete" THEN 0 ELSE text[op[p].doc] + 1)
               /\ text' = [text EXCEPT ![op[p].doc] = op'[p].ver]
               /\ gone' = IF kind = "delete" THEN gone \cup {op[p].doc} ELSE gone
               /\ kind = "send" \/ Exists(op[p].doc)
               /\ Cross(p)
  <1>. DEFINE o == op[p]
              ver == IF kind = "delete" THEN 0 ELSE text[o.doc] + 1
              n == [o EXCEPT !.at = "enqueue", !.ver = ver]
  <1>1. o \in Ops /\ OpFits(o) /\ o.at = "change" /\ o.kind = kind /\ op \in [Procs -> Ops]
    BY DEF RequestsFit, GuestChange
  <1>2. o.doc \in Messages /\ Author[o.doc] = Guest /\ ByGuest(o)
    BY <1>1 DEF OpFits, ByGuest, Sent, Marks
  <1>3. ver \in 0..MaxVersions
    BY <1>2, ChatAssumption DEF GuestChange, Docs
  <1>4. \/ op' = [op EXCEPT ![p] = Idle] /\ text' = text /\ gone' = gone /\ crossed' = crossed
        \/ /\ op' = [op EXCEPT ![p].at = "enqueue", ![p].ver = ver]
           /\ text' = [text EXCEPT ![o.doc] = ver]
           /\ gone' = IF kind = "delete" THEN gone \cup {o.doc} ELSE gone
           /\ kind = "send" \/ Exists(o.doc)
           /\ Cross(p)
    BY DEF GuestChange
  <1>5. op' = [op EXCEPT ![p].at = "enqueue", ![p].ver = ver] => op' = [op EXCEPT ![p] = n]
    BY <1>1 DEF Ops
  <1>6. ver = IF kind = "delete" THEN 0 ELSE text[op[p].doc] + 1
    OBVIOUS
  <1>. HIDE DEF ver, o
  <1>7. n \in Ops /\ GoesOn(o, n, "enqueue") /\ n.ver = ver
    BY <1>1, <1>3 DEF Ops, GoesOn
  <1>. HIDE DEF n
  <1>8. OpFits(n)
    BY <1>1, <1>2, <1>7, OnwardFits
  <1>9. CASE op' = [op EXCEPT ![p] = Idle] /\ text' = text /\ gone' = gone /\ crossed' = crossed
    BY <1>1, <1>2, <1>9, EndTurn DEF o
  <1>10. CASE /\ op' = [op EXCEPT ![p].at = "enqueue", ![p].ver = ver]
              /\ text' = [text EXCEPT ![o.doc] = ver]
              /\ gone' = IF kind = "delete" THEN gone \cup {o.doc} ELSE gone
              /\ kind = "send" \/ Exists(o.doc)
              /\ Cross(p)
    <2>1. Turn(p) /\ op'[p] = n
      BY <1>1, <1>5, <1>7, <1>10 DEF Turn
    <2>. QED  BY <1>1, <1>2, <1>3, <1>6, <1>7, <1>8, <1>10, <2>1 DEF o
  <1>. QED  BY <1>4, <1>9, <1>10

LEMMA GuestEnqueueTurn ==
  ASSUME RequestsFit, NEW p \in Procs, GuestEnqueue(p)
  PROVE  /\ Turn(p) /\ OpFits(op'[p]) /\ op[p].at = "enqueue"
         /\ GoesOn(op[p], op'[p], "publish") /\ op'[p].ver = op[p].ver
         /\ op[p].doc \in Messages /\ Author[op[p].doc] = Guest /\ op[p].kind \notin Marks
  <1>. DEFINE o == op[p]
              n == [o EXCEPT !.at = "publish"]
  <1>1. o \in Ops /\ OpFits(o) /\ o.at = "enqueue" /\ ByGuest(o) /\ op \in [Procs -> Ops]
    BY DEF RequestsFit, GuestEnqueue, OpFits
  <1>2. op' = [op EXCEPT ![p] = n]
    BY DEF GuestEnqueue
  <1>. HIDE DEF o
  <1>3. n \in Ops /\ GoesOn(o, n, "publish") /\ n.ver = o.ver
    BY <1>1 DEF Ops, GoesOn
  <1>. HIDE DEF n
  <1>4. OpFits(n)
    BY <1>1, <1>3, OnwardFits
  <1>5. Turn(p) /\ op'[p] = n
    BY <1>1, <1>2, <1>3 DEF Turn
  <1>6. o.doc \in Messages /\ Author[o.doc] = Guest /\ o.kind \notin Marks
    BY <1>1 DEF OpFits, ByGuest, Sent, Marks
  <1>. QED  BY <1>1, <1>3, <1>4, <1>5, <1>6 DEF o

LEMMA MarkTurn ==
  ASSUME RequestsFit, NEW p \in Procs, NEW kind \in Marks, Mark(p, kind)
  PROVE  /\ Turn(p) /\ OpFits(op'[p])
         /\ op[p].at = "change" /\ op[p].kind = kind /\ op[p].doc \in Messages
         /\ \/ op'[p] = Idle /\ marked' = marked /\ crossed' = crossed
            \/ /\ GoesOn(op[p], op'[p], "publish")
               /\ op'[p].ver = (IF kind \in {"pin", "react"} THEN 1 ELSE 0)
               /\ marked' = IF kind \in {"pin", "react"} THEN marked \cup {Subject(op[p])}
                            ELSE marked \ {Subject(op[p])}
               /\ Cross(p)
  <1>. DEFINE o == op[p]
              ver == IF kind \in {"pin", "react"} THEN 1 ELSE 0
              n == [o EXCEPT !.at = "publish", !.ver = ver]
  <1>1. o \in Ops /\ OpFits(o) /\ o.at = "change" /\ o.kind = kind /\ op \in [Procs -> Ops]
    BY DEF RequestsFit, Mark
  <1>2. o.doc \in Messages
    BY <1>1 DEF OpFits
  <1>3. ver \in 0..MaxVersions
    BY ChatAssumption
  <1>4. \/ op' = [op EXCEPT ![p] = Idle] /\ marked' = marked /\ crossed' = crossed
        \/ /\ op' = [op EXCEPT ![p].at = "publish", ![p].ver = ver]
           /\ marked' = IF kind \in {"pin", "react"} THEN marked \cup {Subject(o)}
                        ELSE marked \ {Subject(o)}
           /\ Cross(p)
    BY DEF Mark
  <1>5. op' = [op EXCEPT ![p].at = "publish", ![p].ver = ver] => op' = [op EXCEPT ![p] = n]
    BY <1>1 DEF Ops
  <1>6. ver = IF kind \in {"pin", "react"} THEN 1 ELSE 0
    OBVIOUS
  <1>. HIDE DEF ver, o
  <1>7. n \in Ops /\ GoesOn(o, n, "publish") /\ n.ver = ver
    BY <1>1, <1>3 DEF Ops, GoesOn
  <1>. HIDE DEF n
  <1>8. OpFits(n)
    BY <1>1, <1>2, <1>7, OnwardFits
  <1>9. CASE op' = [op EXCEPT ![p] = Idle] /\ marked' = marked /\ crossed' = crossed
    BY <1>1, <1>2, <1>9, EndTurn DEF o
  <1>10. CASE /\ op' = [op EXCEPT ![p].at = "publish", ![p].ver = ver]
              /\ marked' = IF kind \in {"pin", "react"} THEN marked \cup {Subject(o)}
                           ELSE marked \ {Subject(o)}
              /\ Cross(p)
    <2>1. Turn(p) /\ op'[p] = n
      BY <1>1, <1>5, <1>7, <1>10 DEF Turn
    <2>. QED  BY <1>1, <1>2, <1>6, <1>7, <1>8, <1>10, <2>1 DEF o
  <1>. QED  BY <1>4, <1>9, <1>10

-----------------------------------------------------------------------------
(* Rows: a request that changes one is the only one that counts on it.     *)

Alone(p, d) ==
    \A q \in Procs \ {p} : op[q].doc = d => ~Holds(op[q]) /\ ~Making(op[q])

LEMMA MakerOrHolderAlone ==
  ASSUME RequestsFit, RowsFit, NEW p \in Procs, Making(op[p]) \/ Holds(op[p])
  PROVE  Alone(p, op[p].doc)
  <1>1. SUFFICES ASSUME NEW q \in Procs \ {p}, op[q].doc = op[p].doc
                 PROVE  ~Holds(op[q]) /\ ~Making(op[q])
    BY DEF Alone
  <1>2. Making(op[p]) => op[p].kind \in Makes /\ text[op[p].doc] = 0
    BY DEF RowsFit, NewRow, Making
  <1>3. Making(op[q]) => op[q].kind \in Makes /\ text[op[q].doc] = 0
    BY DEF RowsFit, NewRow, Making
  <1>4. Holds(op[p]) => text[op[p].doc] # 0
    BY DEF RowsFit, HeldRow, Exists
  <1>5. Holds(op[q]) => text[op[q].doc] # 0
    BY DEF RowsFit, HeldRow, Exists
  <1>6. ~(op[p].kind \in Makes /\ op[q].kind \in Makes) /\ ~(Holds(op[p]) /\ Holds(op[q]))
    BY <1>1 DEF RowsFit, OwnRow, OneHolder
  <1>. QED  BY <1>1, <1>2, <1>3, <1>4, <1>5, <1>6

LEMMA GuestAlone ==
  ASSUME RequestsFit, RowsFit, NEW p \in Procs, op[p].doc \in Messages,
         Author[op[p].doc] = Guest, Exists(op[p].doc)
  PROVE  Alone(p, op[p].doc)
  <1>1. SUFFICES ASSUME NEW q \in Procs \ {p}, op[q].doc = op[p].doc
                 PROVE  ~Holds(op[q]) /\ ~Making(op[q])
    BY DEF Alone
  <1>2. ~Making(op[q])
    BY <1>1 DEF RowsFit, NewRow, Exists
  <1>3. OpFits(op[q])
    BY DEF RequestsFit
  <1>4. Holds(op[q]) => FALSE
    <2>1. SUFFICES ASSUME Holds(op[q]) PROVE FALSE
      OBVIOUS
    <2>2. op[q].at = "commit" /\ op[q].kind \in {"edit", "delete", "discard", "rename"}
      BY <2>1 DEF Holds, Updates
    <2>3. CASE op[q].kind \in {"edit", "delete"}
      <3>1. ByGuest(op[q])
        BY <1>1, <2>3 DEF ByGuest, Sent
      <3>. QED  BY <1>3, <2>2, <3>1 DEF OpFits
    <2>4. CASE op[q].kind = "discard"
      <3>1. op[q].doc \in Files
        BY <1>3, <2>4 DEF OpFits, Uploads
      <3>. QED  BY <1>1, <3>1, SearchAssumption
    <2>5. CASE op[q].kind = "rename"
      <3>1. op[q].doc \in Channels
        BY <1>3, <2>5 DEF OpFits
      <3>. QED  BY <1>1, <3>1, SearchAssumption
    <2>. QED  BY <2>2, <2>3, <2>4, <2>5
  <1>. QED  BY <1>2, <1>4

(* What a step must respect for the rows to stay what the requests count on*)
LEMMA RowsTurn ==
  ASSUME RequestsFit, RowsFit, NEW p \in Procs, Turn(p),
         op'[p].kind \in Makes =>
            \/ op[p].kind = op'[p].kind /\ op[p].doc = op'[p].doc
            \/ IsNew(op'[p].doc),
         \A d \in Docs \ {op[p].doc} : text'[d] = text[d],
         \A d : d # op[p].doc => (d \in gone' <=> d \in gone),
         \/ text' = text /\ gone' = gone
         \/ Alone(p, op[p].doc),
         Holds(op'[p]) => ~Locked(op'[p].doc),
         NewRow(op[p])', HeldRow(op[p])'
  PROVE  RowsFit'
  <1>1. OwnRow'
    <2>1. SUFFICES ASSUME NEW q \in Procs, NEW r \in Procs, op'[q].kind \in Makes,
                          op'[r].kind \in Makes, op'[q].doc = op'[r].doc, q # r
                   PROVE  FALSE
      BY DEF OwnRow
    <2>2. CASE q # p /\ r # p
      BY <2>1, <2>2 DEF Turn, RowsFit, OwnRow
    <2>3. \A s \in Procs \ {p} : op'[s].kind \in Makes /\ op'[s].doc = op'[p].doc
                                    => op'[p].kind \notin Makes
      BY DEF Turn, RowsFit, OwnRow, IsNew
    <2>. QED  BY <2>1, <2>2, <2>3
  <1>2. OneHolder'
    <2>1. SUFFICES ASSUME NEW q \in Procs, NEW r \in Procs, Holds(op'[q]),
                          Holds(op'[r]), op'[q].doc = op'[r].doc, q # r
                   PROVE  FALSE
      BY DEF OneHolder, Holds
    <2>2. CASE q # p /\ r # p
      BY <2>1, <2>2 DEF Turn, RowsFit, OneHolder
    <2>3. \A s \in Procs \ {p} : Holds(op'[s]) /\ op'[s].doc = op'[p].doc => ~Holds(op'[p])
      BY DEF Turn, Holds, Locked
    <2>. QED  BY <2>1, <2>2, <2>3
  <1>3. ASSUME NEW q \in Procs \ {p} PROVE NewRow(op[q])' /\ HeldRow(op[q])'
    <2>1. op'[q] = op[q] /\ NewRow(op[q]) /\ HeldRow(op[q]) /\ OpFits(op[q])
      BY DEF Turn, RowsFit, RequestsFit
    <2>2. Making(op[q]) \/ Holds(op[q]) =>
            text'[op[q].doc] = text[op[q].doc] /\ (op[q].doc \in gone' <=> op[q].doc \in gone)
      <3>1. Making(op[q]) \/ Holds(op[q]) => op[q].doc \in Docs
        BY <2>1 DEF Making, Holds, OpFits, Makes, Sent, Creates, Updates, Uploads, Docs
      <3>. QED  BY <3>1 DEF Alone
    <2>3. NewRow(op[q])'
      BY <2>1, <2>2 DEF NewRow, Making
    <2>4. HeldRow(op[q])'
      BY <2>1, <2>2 DEF HeldRow, Holds, Exists
    <2>. QED  BY <2>3, <2>4
  <1>4. \A q \in Procs : NewRow(op[q])' /\ HeldRow(op[q])'
    BY <1>3
  <1>. QED  BY <1>1, <1>2, <1>4 DEF RowsFit

-----------------------------------------------------------------------------
(* Events: who is between a change and its event, and what it will say.    *)

LEMMA SubjectIs ==
  ASSUME NEW o, OpFits(o), o.at \in {"change", "enqueue", "publish"}
  PROVE  /\ o.kind \in Marks => Subject(o) \in MarksOf /\ Subject(o) \notin Messages
         /\ o.kind \notin Marks =>
                Subject(o) = o.doc /\ o.doc \in Messages /\ Author[o.doc] = Guest
  <1>1. o.kind \in Marks => o.doc \in Messages
    BY DEF OpFits
  <1>2. o.kind \in Marks => Subject(o) \in {Pin(o.doc), React(o.doc)}
    BY DEF Subject, Marks
  <1>3. \A x \in MarksOf : x \notin Messages
    BY ChatAssumption
  <1>4. o.doc \in Messages => Pin(o.doc) \in MarksOf /\ React(o.doc) \in MarksOf
    BY DEF MarksOf
  <1>5. ASSUME o.kind \notin Marks
        PROVE  Subject(o) = o.doc /\ o.doc \in Messages /\ Author[o.doc] = Guest
    <2>1. ByGuest(o)
      BY <1>5 DEF OpFits
    <2>2. o.kind \in Sent \cup {"delete"} /\ Author[o.doc] = Guest
      BY <2>1 DEF ByGuest
    <2>3. Subject(o) = o.doc
      BY <2>2 DEF Subject, Sent
    <2>. QED  BY <2>2, <2>3 DEF OpFits
  <1>. QED  BY <1>1, <1>2, <1>3, <1>4, <1>5

LEMMA SameSubject ==
  ASSUME NEW o, NEW n, n.kind = o.kind, n.doc = o.doc
  PROVE  Subject(n) = Subject(o)
  BY DEF Subject

(* Nobody tells of a member's message but its own transaction.             *)
LEMMA MembersAreNotTold ==
  ASSUME RequestsFit, NEW m \in Messages, Author[m] # Guest, NEW q \in Procs
  PROVE  ~Telling(op[q], m)
  <1>1. OpFits(op[q])
    BY DEF RequestsFit
  <1>. QED  BY <1>1, SubjectIs DEF Telling

(* A step of a request that tells nothing, before or after.                *)
LEMMA EventsUntold ==
  ASSUME RequestsFit, EventsFit, NEW p \in Procs, Turn(p),
         op[p].at \notin {"enqueue", "publish"}, op'[p].at \notin {"enqueue", "publish"},
         crossed' = crossed,
         \A x \in (Messages \cup MarksOf) \ crossed :
            \/ Says(x)' = Says(x) /\ told'[x] \in {told[x], Says(x)}
            \/ /\ \A q \in Procs : ~Telling(op[q], x)
               /\ told'[x] = Says(x)'
  PROVE  EventsFit'
  <1>1. SUFFICES ASSUME NEW x \in (Messages \cup MarksOf) \ crossed
                 PROVE  EventFits(x)'
    BY DEF EventsFit
  <1>2. EventFits(x)
    BY DEF EventsFit
  <1>3. \A q \in Procs : Telling(op'[q], x) <=> Telling(op[q], x)
    BY DEF Turn, Telling
  <1>4. \A q \in Procs : Telling(op[q], x) => op'[q] = op[q]
    BY DEF Turn, Telling
  <1>5. /\ \A q, r \in Procs : Telling(op'[q], x) /\ Telling(op'[r], x) => q = r
        /\ \A q \in Procs : Telling(op'[q], x) => op'[q].ver = Says(x)'
        /\ (\A q \in Procs : ~Telling(op'[q], x)) => told'[x] = Says(x)'
    BY <1>2, <1>3, <1>4 DEF EventFits
  <1>. QED  BY <1>5 DEF EventFits, Telling

(* A change that its event has yet to tell.                                *)
LEMMA EventsChanged ==
  ASSUME RequestsFit, EventsFit, NEW p \in Procs, Turn(p),
         op[p].at = "change", op'[p].at \in {"enqueue", "publish"}, Cross(p),
         NEW s, s = Subject(op[p]), Subject(op'[p]) = s,
         s \in Messages => Author[s] = Guest,
         op'[p].ver = Says(s)', told' = told,
         \A x \in (Messages \cup MarksOf) \ {s} : Says(x)' = Says(x)
  PROVE  EventsFit'
  <1>1. \A m \in Messages \cap crossed' : Author[m] = Guest
    BY DEF Cross, EventsFit
  <1>2. ASSUME NEW x \in (Messages \cup MarksOf) \ crossed'
        PROVE  EventFits(x)'
    <2>1. x \notin crossed /\ EventFits(x)
      BY <1>2 DEF Cross, EventsFit
    <2>2. CASE x = s
      <3>1. ~Overlaps(p)
        BY <1>2, <2>2 DEF Cross
      <3>2. \A q \in Procs \ {p} : ~Telling(op'[q], x)
        BY <2>2, <3>1 DEF Overlaps, Telling, Turn
      <3>3. Telling(op'[p], x) /\ op'[p].ver = Says(x)'
        BY <2>2 DEF Telling
      <3>4. /\ \A q, r \in Procs : Telling(op'[q], x) /\ Telling(op'[r], x) => q = r
            /\ \A q \in Procs : Telling(op'[q], x) => op'[q].ver = Says(x)'
            /\ (\A q \in Procs : ~Telling(op'[q], x)) => told'[x] = Says(x)'
        BY <3>2, <3>3
      <3>. QED  BY <3>4 DEF EventFits, Telling
    <2>3. CASE x # s
      <3>1. \A q \in Procs : Telling(op'[q], x) <=> Telling(op[q], x)
        BY <2>3 DEF Turn, Telling
      <3>2. \A q \in Procs : Telling(op[q], x) => op'[q] = op[q]
        BY <2>3 DEF Turn, Telling
      <3>3. Says(x)' = Says(x)
        BY <1>2, <2>3
      <3>4. /\ \A q, r \in Procs : Telling(op'[q], x) /\ Telling(op'[r], x) => q = r
            /\ \A q \in Procs : Telling(op'[q], x) => op'[q].ver = Says(x)'
            /\ (\A q \in Procs : ~Telling(op'[q], x)) => told'[x] = Says(x)'
        BY <2>1, <3>1, <3>2, <3>3 DEF EventFits
      <3>. QED  BY <3>4 DEF EventFits, Telling
    <2>. QED  BY <2>2, <2>3
  <1>. QED  BY <1>1, <1>2 DEF EventsFit

(* The request goes on to its event, with the same to say.                 *)
LEMMA EventsOn ==
  ASSUME RequestsFit, EventsFit, NEW p \in Procs, Turn(p),
         op[p].at \in {"enqueue", "publish"}, op'[p].at \in {"enqueue", "publish"},
         Subject(op'[p]) = Subject(op[p]), op'[p].ver = op[p].ver,
         crossed' = crossed, told' = told, text' = text, marked' = marked
  PROVE  EventsFit'
  <1>1. SUFFICES ASSUME NEW x \in (Messages \cup MarksOf) \ crossed
                 PROVE  EventFits(x)'
    BY DEF EventsFit
  <1>2. EventFits(x) /\ Says(x)' = Says(x)
    BY DEF EventsFit, Says
  <1>3. \A q \in Procs : /\ Telling(op'[q], x) <=> Telling(op[q], x)
                         /\ op'[q].ver = op[q].ver
    BY DEF Turn, Telling
  <1>4. /\ \A q, r \in Procs : Telling(op'[q], x) /\ Telling(op'[r], x) => q = r
        /\ \A q \in Procs : Telling(op'[q], x) => op'[q].ver = Says(x)'
        /\ (\A q \in Procs : ~Telling(op'[q], x)) => told'[x] = Says(x)'
    BY <1>2, <1>3 DEF EventFits
  <1>. QED  BY <1>4 DEF EventFits, Telling

(* The event is told, or lost.                                             *)
LEMMA EventsTold ==
  ASSUME RequestsFit, EventsFit, NEW p \in Procs, Turn(p), op'[p] = Idle,
         text' = text, marked' = marked,
         NEW s, s = Subject(op[p]), s \in Messages => Author[s] = Guest,
         told \in [Messages \cup MarksOf -> 0..MaxVersions],
         op[p].at \in {"enqueue", "publish"},
         \/ told'[s] = op[p].ver /\ crossed' = crossed
         \/ crossed' = crossed \cup {s},
         \A x \in (Messages \cup MarksOf) \ crossed' :
            x # s => told'[x] \in {told[x], Says(x)}
  PROVE  EventsFit'
  <1>1. \A m \in Messages \cap crossed' : Author[m] = Guest
    BY DEF EventsFit
  <1>2. ASSUME NEW x \in (Messages \cup MarksOf) \ crossed'
        PROVE  EventFits(x)'
    <2>1. EventFits(x) /\ Says(x)' = Says(x)
      BY <1>2 DEF EventsFit, Says
    <2>2. \A q \in Procs : Telling(op'[q], x) <=> q # p /\ Telling(op[q], x)
      BY DEF Turn, Telling, Idle
    <2>3. \A q \in Procs \ {p} : op'[q] = op[q]
      BY DEF Turn
    <2>4. CASE x = s
      <3>1. told'[x] = op[p].ver /\ Telling(op[p], x)
        BY <1>2, <2>4 DEF Telling
      <3>2. /\ \A q, r \in Procs : Telling(op'[q], x) /\ Telling(op'[r], x) => q = r
            /\ \A q \in Procs : Telling(op'[q], x) => op'[q].ver = Says(x)'
            /\ (\A q \in Procs : ~Telling(op'[q], x)) => told'[x] = Says(x)'
        BY <2>1, <2>2, <2>3, <3>1 DEF EventFits
      <3>. QED  BY <3>2 DEF EventFits, Telling
    <2>5. CASE x # s
      <3>1. told'[x] \in {told[x], Says(x)} /\ ~Telling(op[p], x)
        BY <1>2, <2>5 DEF Telling
      <3>2. /\ \A q, r \in Procs : Telling(op'[q], x) /\ Telling(op'[r], x) => q = r
            /\ \A q \in Procs : Telling(op'[q], x) => op'[q].ver = Says(x)'
            /\ (\A q \in Procs : ~Telling(op'[q], x)) => told'[x] = Says(x)'
        BY <2>1, <2>2, <2>3, <3>1 DEF EventFits
      <3>. QED  BY <3>2 DEF EventFits, Telling
    <2>. QED  BY <2>4, <2>5
  <1>. QED  BY <1>1, <1>2 DEF EventsFit

-----------------------------------------------------------------------------
(* Marks: what a request carries of them.                                  *)

LEMMA CarriesMarks ==
  ASSUME NEW o, OpFits(o)
  PROVE  /\ Carries(o) \subseteq MarksOf /\ Carries(o) \cap Messages = {}
         /\ o.kind \notin Sent => Carries(o) = {}
         /\ o.at \in {"idle", "check", "answer", "put", "drop"} => Carries(o) = {}
  <1>1. o.kind \in Sent => o.doc \in Messages
    BY DEF OpFits
  <1>2. /\ Carries(o) \subseteq {Pin(o.doc), React(o.doc)}
        /\ o.kind \notin Sent => Carries(o) = {}
        /\ o.at \in {"idle", "check", "answer", "put", "drop"} => Carries(o) = {}
    BY DEF Carries, Sent
  <1>3. o.doc \in Messages => Pin(o.doc) \in MarksOf /\ React(o.doc) \in MarksOf
    BY DEF MarksOf
  <1>4. MarksOf \cap Messages = {}
    BY ChatAssumption
  <1>. QED  BY <1>1, <1>2, <1>3, <1>4

LEMMA IdleCarries == Carries(Idle) = {} /\ ~ToMark(Idle)
  BY DEF Carries, Idle, ToMark

(* A request that goes on carries what it did.                             *)
LEMMA CarriesOn ==
  ASSUME NEW o, NEW n, NEW at, GoesOn(o, n, at), at \notin {"idle", "check", "put"},
         o.at \in {"change", "write", "commit", "enqueue", "publish"}
  PROVE  Carries(n) \subseteq Carries(o) /\ n.pin = o.pin
  BY DEF Carries, GoesOn

LEMMA MarksTurn ==
  ASSUME RequestsFit, MarksFit, NEW p \in Procs, Turn(p), OpFits(op'[p]),
         \A m \in Messages : Known(m) => Known(m)',
         marked' = marked, crossed \subseteq crossed',
         ToMark(op'[p]) => Known(op[p].doc)',
         \A x \in Carries(op'[p]) \ crossed' :
            \/ x \in Carries(op[p]) /\ op'[p].pin = op[p].pin
            \/ op'[p].pin = Says(x)
  PROVE  MarksFit'
  <1>1. \A x : x \notin Messages => Says(x)' = Says(x)
    BY DEF Says
  <1>2. \A m \in Messages : Pin(m) \in marked' \/ React(m) \in marked' => Known(m)'
    BY DEF MarksFit
  <1>3. ASSUME NEW q \in Procs \ {p}
        PROVE  /\ ToMark(op'[q]) => Known(op[q].doc)'
               /\ \A x \in Carries(op'[q]) \ crossed' : op'[q].pin = Says(x)'
    <2>1. op'[q] = op[q] /\ OpFits(op[q])
      BY DEF Turn, RequestsFit
    <2>2. ToMark(op[q]) => op[q].doc \in Messages
      BY <2>1 DEF ToMark, OpFits
    <2>3. \A x \in Carries(op[q]) : x \notin Messages
      BY <2>1, CarriesMarks
    <2>4. /\ ToMark(op[q]) => Known(op[q].doc)
          /\ \A x \in Carries(op[q]) \ crossed : op[q].pin = Says(x)
      BY DEF MarksFit
    <2>. QED  BY <1>1, <2>1, <2>2, <2>3, <2>4
  <1>4. ASSUME NEW x \in Carries(op'[p]) \ crossed' PROVE op'[p].pin = Says(x)'
    <2>1. x \notin Messages
      BY CarriesMarks
    <2>2. x \in Carries(op[p]) => op[p].pin = Says(x)
      BY DEF MarksFit
    <2>. QED  BY <1>1, <2>1, <2>2
  <1>5. /\ \A q \in Procs : ToMark(op'[q]) => Known(op[q].doc)'
        /\ \A q \in Procs : \A x \in Carries(op'[q]) \ crossed' : op'[q].pin = Says(x)'
    BY <1>3, <1>4
  <1>. QED  BY <1>2, <1>5 DEF MarksFit, ToMark, Carries

LEMMA MarksStill ==
  ASSUME MarksFit, UNCHANGED <<op, text, gone, marked, crossed>>
  PROVE  MarksFit'
  <1>1. \A x : Says(x)' = Says(x)
    BY DEF Says
  <1>2. \A m : Known(m)' <=> Known(m)
    BY DEF Known, Exists
  <1>3. \A p \in Procs : /\ ToMark(op[p])' <=> ToMark(op[p])
                         /\ Carries(op[p])' = Carries(op[p])
                         /\ op'[p].doc = op[p].doc
    BY DEF ToMark, Carries
  <1>4. \A m \in Messages : Pin(m) \in marked' \/ React(m) \in marked' => Known(m)'
    BY <1>2 DEF MarksFit
  <1>5. \A p \in Procs : ToMark(op[p])' => Known(op[p].doc)'
    BY <1>3 DEF MarksFit, Known, Exists
  <1>6. \A p \in Procs : \A x \in Carries(op[p])' \ crossed' : op'[p].pin = Says(x)'
    BY <1>1, <1>3 DEF MarksFit
  <1>. QED  BY <1>4, <1>5, <1>6 DEF MarksFit

(* What an event tells of what it is not about.                            *)
LEMMA TellsFit ==
  ASSUME Inv, NEW p \in Procs, NEW ver \in 0..MaxVersions, told' = Tells(op[p], ver)
  PROVE  /\ told' \in [Messages \cup MarksOf -> 0..MaxVersions]
         /\ Subject(op[p]) \in Messages \cup MarksOf => told'[Subject(op[p])] = ver
         /\ \A x \in (Messages \cup MarksOf) \ crossed :
                x # Subject(op[p]) => told'[x] \in {told[x], Says(x)}
         /\ \A x \in Messages : x # Subject(op[p]) => told'[x] = told[x]
  <1>1. told \in [Messages \cup MarksOf -> 0..MaxVersions] /\ OpFits(op[p])
    BY DEF Inv, RowTypes, RequestsFit
  <1>2. op[p].pin \in 0..MaxVersions
    <2>1. op[p].pin \in 0..1
      BY <1>1, OpsRecords DEF OpFits
    <2>. QED  BY <2>1, ChatAssumption
  <1>3. \A x \in Carries(op[p]) \ crossed : op[p].pin = Says(x)
    BY DEF Inv, MarksFit
  <1>4. Carries(op[p]) \cap Messages = {}
    BY <1>1, CarriesMarks
  <1>. DEFINE s == Subject(op[p])
              c == Carries(op[p])
              said(x) == IF x = s THEN ver ELSE IF x \in c THEN op[p].pin ELSE told[x]
  <1>5. told' = [x \in Messages \cup MarksOf |-> said(x)]
    BY DEF Tells
  <1>6. \A x : said(x) = IF x = s THEN ver ELSE IF x \in c THEN op[p].pin ELSE told[x]
    OBVIOUS
  <1>. HIDE DEF said
  <1>7. \A x \in Messages \cup MarksOf :
            /\ told'[x] = (IF x = s THEN ver ELSE IF x \in c THEN op[p].pin ELSE told[x])
            /\ told'[x] \in 0..MaxVersions
    BY <1>1, <1>2, <1>5, <1>6
  <1>8. told' \in [Messages \cup MarksOf -> 0..MaxVersions]
    BY <1>5, <1>7
  <1>. QED  BY <1>3, <1>4, <1>7, <1>8

-----------------------------------------------------------------------------
(* Files: who answers for an object.                                       *)

LEMMA FilesStill ==
  ASSUME RequestsFit, FilesFit, NEW p \in Procs, Turn(p),
         \A f \in Files : text'[f] = text[f],
         gone \subseteq gone', unsure \subseteq unsure', leaked \subseteq leaked',
         objects \subseteq objects', ObjectOf(op[p])',
         \A f \in Files : Keeps(op[p], f) => Keeps(op'[p], f) \/ f \in leaked' \cup unsure',
         \A f \in objects' \ objects : Keeps(op'[p], f) \/ f \in leaked'
  PROVE  FilesFit'
  <1>1. ASSUME NEW q \in Procs \ {p} PROVE ObjectOf(op[q])'
    <2>1. op'[q] = op[q] /\ ObjectOf(op[q]) /\ OpFits(op[q])
      BY DEF Turn, FilesFit, RequestsFit
    <2>2. op[q].kind = "upload" => op[q].doc \in Files
      BY <2>1 DEF OpFits, Uploads
    <2>. QED  BY <2>1, <2>2 DEF ObjectOf
  <1>2. \A q \in Procs : ObjectOf(op[q])'
    BY <1>1
  <1>3. ASSUME NEW f \in Files
        PROVE  /\ Exists(f)' => f \in objects' \cup unsure'
               /\ f \in objects' => \/ Exists(f)' \/ f \in leaked' \cup unsure'
                                    \/ \E q \in Procs : Keeps(op'[q], f)
    <2>1. Exists(f)' <=> Exists(f)
      BY DEF Exists
    <2>2. Exists(f) => f \in objects \cup unsure
      BY DEF FilesFit
    <2>3. CASE f \in objects
      <3>1. CASE Exists(f) \/ f \in leaked \cup unsure
        BY <3>1, <2>1, <2>2
      <3>2. CASE \E q \in Procs : Keeps(op[q], f)
        <4>1. PICK q \in Procs : Keeps(op[q], f)
          BY <3>2
        <4>2. q # p => Keeps(op'[q], f)
          BY <4>1 DEF Turn
        <4>. QED  BY <4>1, <4>2, <2>1, <2>2
      <3>. QED  BY <2>3, <3>1, <3>2 DEF FilesFit
    <2>4. CASE f \notin objects
      BY <2>1, <2>2, <2>4
    <2>. QED  BY <2>3, <2>4
  <1>. QED  BY <1>2, <1>3 DEF FilesFit, Keeps

(* An object goes when its row is not there.                               *)
LEMMA FilesDropped ==
  ASSUME RequestsFit, RowsFit, FilesFit, NEW p \in Procs, Turn(p),
         \A d \in gone : text[d] = 0,
         op[p].at = "drop", op[p].kind \in Uploads, op'[p] = Idle,
         text' = text, gone' = gone, unsure' = unsure, leaked' = leaked,
         objects' = objects \ {op[p].doc}
  PROVE  FilesFit'
  <1>. DEFINE d == op[p].doc
  <1>1. text[d] = 0 \/ d \in unsure
    BY DEF FilesFit, ObjectOf, Uploads
  <1>2. ASSUME NEW q \in Procs PROVE ObjectOf(op[q])'
    <2>1. CASE q = p
      BY <2>1 DEF ObjectOf, Idle
    <2>2. CASE q # p
      <3>1. op'[q] = op[q] /\ ObjectOf(op[q]) /\ NewRow(op[q])
        BY <2>2 DEF Turn, FilesFit, RowsFit
      <3>2. ASSUME op[q].kind = "upload", op[q].at \in {"write", "commit"}
            PROVE  op[q].doc # d
        <4>1. Making(op[q]) /\ op[q].kind \in Makes
          BY <3>2 DEF Making, Makes
        <4>2. op[q].doc \notin gone
          BY <3>1, <4>1 DEF NewRow
        <4>3. op[p].kind = "upload" => op[p].kind \in Makes
          BY DEF Makes
        <4>4. op[p].kind = "discard" => d \in gone
          BY DEF FilesFit, ObjectOf
        <4>. QED  BY <2>2, <4>1, <4>2, <4>3, <4>4 DEF RowsFit, OwnRow, Uploads
      <3>. QED  BY <3>1, <3>2 DEF ObjectOf
    <2>. QED  BY <2>1, <2>2
  <1>3. ASSUME NEW f \in Files
        PROVE  /\ Exists(f)' => f \in objects' \cup unsure'
               /\ f \in objects' => \/ Exists(f)' \/ f \in leaked' \cup unsure'
                                    \/ \E q \in Procs : Keeps(op'[q], f)
    <2>1. (Exists(f)' <=> Exists(f)) /\ (Exists(f) => text[f] # 0)
      BY DEF Exists
    <2>2. Exists(f)' => f \in objects' \cup unsure'
      BY <1>1, <2>1 DEF FilesFit
    <2>3. ASSUME f \in objects'
          PROVE  \/ Exists(f)' \/ f \in leaked' \cup unsure'
                 \/ \E q \in Procs : Keeps(op'[q], f)
      <3>1. f \in objects /\ f # d
        BY <2>3
      <3>2. CASE \E q \in Procs : Keeps(op[q], f)
        <4>1. PICK q \in Procs : Keeps(op[q], f)
          BY <3>2
        <4>2. q # p
          BY <3>1, <4>1 DEF Keeps
        <4>. QED  BY <4>1, <4>2 DEF Turn
      <3>. QED  BY <2>1, <3>1, <3>2 DEF FilesFit
    <2>. QED  BY <2>2, <2>3
  <1>. QED  BY <1>2, <1>3 DEF FilesFit, Keeps

(* An uploaded file is there with its object.                              *)
LEMMA FilesUploaded ==
  ASSUME RequestsFit, RowsFit, FilesFit, NEW p \in Procs, Turn(p), NEW d,
         d = op[p].doc, op[p].at = "commit", op[p].kind = "upload",
         \/ op'[p] = Idle
         \/ GoesOn(op[p], op'[p], "drop") /\ d \in unsure',
         text' = [text EXCEPT ![d] = 1], text \in [Docs -> 0..MaxVersions], d \in Docs,
         gone' = gone, unsure \subseteq unsure', leaked' = leaked, objects' = objects
  PROVE  FilesFit'
  <1>1. d \in objects
    BY DEF FilesFit, ObjectOf
  <1>2. ASSUME NEW q \in Procs PROVE ObjectOf(op[q])'
    <2>1. CASE q = p
      BY <2>1 DEF ObjectOf, Idle, GoesOn
    <2>2. CASE q # p
      <3>1. op'[q] = op[q] /\ ObjectOf(op[q]) /\ OpFits(op[q])
        BY <2>2 DEF Turn, FilesFit, RequestsFit
      <3>2. op[q].kind = "upload" => op[q].doc # d /\ op[q].doc \in Docs
        BY <2>2, <3>1 DEF RowsFit, OwnRow, Makes, OpFits, Uploads, Docs
      <3>. QED  BY <3>1, <3>2 DEF ObjectOf
    <2>. QED  BY <2>1, <2>2
  <1>3. ASSUME NEW f \in Files
        PROVE  /\ Exists(f)' => f \in objects' \cup unsure'
               /\ f \in objects' => \/ Exists(f)' \/ f \in leaked' \cup unsure'
                                    \/ \E q \in Procs : Keeps(op'[q], f)
    <2>1. CASE f = d
      BY <1>1, <2>1 DEF Exists
    <2>2. CASE f # d
      <3>1. Exists(f)' <=> Exists(f)
        BY <2>2 DEF Exists, Docs
      <3>2. \A q \in Procs : Keeps(op[q], f) => Keeps(op'[q], f)
        BY <2>2 DEF Turn, Keeps
      <3>. QED  BY <3>1, <3>2 DEF FilesFit
    <2>. QED  BY <2>1, <2>2
  <1>. QED  BY <1>2, <1>3 DEF FilesFit, Keeps

(* A deleted file's object is deleted next.                                *)
LEMMA FilesDeleted ==
  ASSUME RequestsFit, RowsFit, FilesFit, NEW p \in Procs, Turn(p), NEW d,
         d = op[p].doc, op[p].at = "commit", op[p].kind = "discard",
         After(op[p], op'[p]), GoesOn(op[p], op'[p], "drop") \/ d \in unsure',
         text' = [text EXCEPT ![d] = 0], text \in [Docs -> 0..MaxVersions], d \in Docs,
         gone' = gone \cup {d}, unsure \subseteq unsure', leaked' = leaked,
         objects' = objects
  PROVE  FilesFit'
  <1>1. ASSUME NEW q \in Procs PROVE ObjectOf(op[q])'
    <2>1. CASE q = p
      BY <2>1 DEF ObjectOf, Idle, GoesOn, After
    <2>2. CASE q # p
      <3>1. op'[q] = op[q] /\ ObjectOf(op[q]) /\ OpFits(op[q])
        BY <2>2 DEF Turn, FilesFit, RequestsFit
      <3>2. op[q].kind = "upload" => op[q].doc \in Docs
        BY <3>1 DEF OpFits, Uploads, Docs
      <3>. QED  BY <3>1, <3>2 DEF ObjectOf
    <2>. QED  BY <2>1, <2>2
  <1>2. ASSUME NEW f \in Files
        PROVE  /\ Exists(f)' => f \in objects' \cup unsure'
               /\ f \in objects' => \/ Exists(f)' \/ f \in leaked' \cup unsure'
                                    \/ \E q \in Procs : Keeps(op'[q], f)
    <2>1. CASE f = d
      <3>1. ~Exists(f)'
        BY <2>1 DEF Exists
      <3>2. Keeps(op'[p], f) \/ f \in unsure'
        BY <2>1 DEF Keeps, GoesOn
      <3>. QED  BY <3>1, <3>2
    <2>2. CASE f # d
      <3>1. Exists(f)' <=> Exists(f)
        BY <2>2 DEF Exists, Docs
      <3>2. \A q \in Procs : Keeps(op[q], f) => Keeps(op'[q], f)
        BY <2>2 DEF Turn, Keeps
      <3>. QED  BY <3>1, <3>2 DEF FilesFit
    <2>. QED  BY <2>1, <2>2
  <1>. QED  BY <1>1, <1>2 DEF FilesFit, Keeps

-----------------------------------------------------------------------------
(* The queue and its workers: no step of theirs changes a row, or what a   *)
(* job says of it.                                                         *)

LEMMA JobFields ==
  ASSUME NEW j \in Jobs
  PROVE  /\ j.status \in {"none", "pending", "processing", "processed", "failed", "dead"}
         /\ j.id \in 0..MaxResets + 1 /\ j.ver \in 0..MaxVersions /\ j.attempts \in Nat
  BY DEF Jobs

LEMMA NoJobIsJob == NoJob \in Jobs /\ NoJob.status = "none" /\ NoJob.id = 0
  <1>1. MaxResets \in Nat /\ MaxVersions \in Nat
    BY SearchAssumption, ChatAssumption
  <1>. QED  BY <1>1 DEF NoJob, Jobs

LEMMA EnqueuedIsJob ==
  ASSUME SearchTypes, NEW d \in Docs, NEW ver \in 0..MaxVersions
  PROVE  /\ Enqueued(d, ver) \in Jobs /\ Enqueued(d, ver).ver = ver
         /\ JobFits(Enqueued(d, ver))
  <1>1. MaxResets \in Nat /\ job[d] \in Jobs /\ resets \in 0..MaxResets /\ JobFits(job[d])
    BY SearchAssumption DEF SearchTypes
  <1>. DEFINE i == IF Queued(d) THEN job[d].id ELSE resets + 1
  <1>2. i \in 1..MaxResets + 1 /\ i \in 0..MaxResets + 1
    BY <1>1, JobFields DEF JobFits, Queued
  <1>. HIDE DEF i
  <1>. DEFINE j == [NoJob EXCEPT !.status = "pending", !.ver = ver, !.ready = TRUE, !.id = i]
  <1>3. j \in Jobs
    BY <1>2, NoJobIsJob DEF NoJob, Jobs
  <1>4. j.ver = ver /\ j.id # 0 /\ j.status # "none"
    BY <1>2 DEF NoJob
  <1>5. Enqueued(d, ver) = j
    BY DEF Enqueued, i
  <1>. HIDE DEF j
  <1>. QED  BY <1>3, <1>4, <1>5 DEF JobFits

(* The jobs after an enqueue of the documents S.                           *)
LEMMA EnqueueTypes ==
  ASSUME SearchTypes, NEW S, NEW ver, EnqueueUpsert(S, ver),
         \A d \in S \cap Docs : ver[d] \in 0..MaxVersions,
         UNCHANGED <<index, worker, scan, resets>>
  PROVE  /\ SearchTypes'
         /\ \A d \in Docs : IF d \in S THEN job'[d].ver = ver[d] ELSE job'[d] = job[d]
  <1>1. job' = [d \in Docs |-> IF d \in S THEN Enqueued(d, ver[d]) ELSE job[d]]
    BY DEF EnqueueUpsert
  <1>2. \A d \in S \cap Docs : /\ Enqueued(d, ver[d]) \in Jobs
                                /\ Enqueued(d, ver[d]).ver = ver[d]
                                /\ JobFits(Enqueued(d, ver[d]))
    BY EnqueuedIsJob
  <1>3. job' \in [Docs -> Jobs] /\ \A d \in Docs : JobFits(job'[d])
    BY <1>1, <1>2 DEF SearchTypes
  <1>4. \A d \in Docs : IF d \in S THEN job'[d].ver = ver[d] ELSE job'[d] = job[d]
    BY <1>1, <1>2
  <1>5. \A d \in Docs : JobFits(job[d])'
    BY <1>3 DEF JobFits
  <1>. QED  BY <1>3, <1>4, <1>5 DEF SearchTypes

SearchStep ==
    \/ \E w \in Workers : \/ claimPendingJobs(w) \/ applyJob(w) \/ ApplyFails(w)
                          \/ completeJob(w) \/ CompleteFails(w) \/ failJob(w)
                          \/ FailJobFails(w) \/ WorkerCrash(w)
    \/ \E d \in Docs : LeaseExpires(d) \/ BackoffElapses(d)
    \/ Reset \/ ScanRead \/ ScanPut \/ ScanFails

(* A job goes on as it is, or is emptied.                                  *)
JobsStay ==
    /\ job' \in [Docs -> Jobs]
    /\ \A d \in Docs : /\ JobFits(job'[d])
                       /\ \/ job'[d].status = "none"
                          \/ Queued(d) /\ job'[d].ver = job[d].ver

LEMMA BatchFields ==
  ASSUME NEW b \in Batches
  PROVE  /\ b.at \in {"idle", "apply", "complete", "fail"}
         /\ b.jobs \subseteq Claims /\ b.doc \in Claims \cup {None}
  BY DEF Batches

LEMMA ClaimFields ==
  ASSUME NEW j \in Claims
  PROVE  /\ j.doc \in Docs /\ j.id \in 1..MaxResets + 1 /\ j.ver \in 0..MaxVersions
         /\ j.attempts \in Nat
  BY DEF Claims

BatchFits(b) ==
    /\ b \in Batches
    /\ b.at = "idle" <=> b.jobs = {}
    /\ b.at \in {"complete", "fail"} => b.doc \in b.jobs

LEMMA FreeFits == BatchFits(Free)
  BY DEF BatchFits, Batches, Free

LEMMA OnwardBatch ==
  ASSUME NEW b \in Batches, BatchFits(b), b.at \in {"complete", "fail"}
  PROVE  BatchFits(Onward(b))
  <1>1. CASE b.jobs = {b.doc}
    BY <1>1, FreeFits DEF Onward
  <1>2. CASE b.jobs # {b.doc}
    <2>. DEFINE r == b.jobs \ {b.doc}
    <2>1. r # {} /\ r \subseteq Claims
      BY <1>2, BatchFields DEF BatchFits
    <2>. HIDE DEF r
    <2>2. BatchFits([at |-> "apply", jobs |-> r, doc |-> None])
      BY <2>1 DEF BatchFits, Batches
    <2>. QED  BY <1>2, <2>2 DEF Onward, r
  <1>. QED  BY <1>1, <1>2

LEMMA WorkerTypes ==
  ASSUME SearchTypes, NEW w \in Workers, NEW b, BatchFits(b),
         worker' = [worker EXCEPT ![w] = b],
         JobsStay, index' \in [Docs -> 0..MaxVersions],
         resets' = resets, scan' = scan
  PROVE  SearchTypes'
  <1>1. worker' \in [Workers -> Batches] /\ \A v \in Workers : BatchFits(worker'[v])
    BY DEF SearchTypes, BatchFits
  <1>2. \A d \in Docs : JobFits(job[d])'
    BY DEF JobsStay, JobFits
  <1>3. /\ resets' \in 0..MaxResets /\ job' \in [Docs -> Jobs]
        /\ scan' \in Scans /\ (scan.at = "put" <=> scan.todo # {})'
    BY DEF SearchTypes, JobsStay
  <1>. QED  BY <1>1, <1>2, <1>3 DEF SearchTypes, BatchFits

(* What a worker writes to a job keeps what the job says.                  *)
LEMMA SettleTypes ==
  ASSUME SearchTypes, NEW j \in Claims, NEW row \in Jobs, row.status # "none",
         row.ver = job[j.doc].ver, row.id = job[j.doc].id, Settle(j, row)
  PROVE  JobsStay
  <1>1. j.doc \in Docs /\ j.id # 0 /\ job \in [Docs -> Jobs]
    BY ClaimFields DEF SearchTypes
  <1>2. \A d \in Docs : JobFits(job[d])
    BY DEF SearchTypes
  <1>3. \/ job' = [job EXCEPT ![j.doc] = row] /\ job[j.doc].id = j.id
        \/ job' = job
    BY DEF Settle
  <1>. QED  BY <1>1, <1>2, <1>3 DEF JobsStay, Queued, JobFits

LEMMA TakenFits ==
  ASSUME NEW j \in Jobs, JobFits(j), j.ready, NEW d \in Docs, NEW t,
         t = [j EXCEPT !.status = "processing", !.late = FALSE, !.attempts = @ + 1]
  PROVE  /\ t \in Jobs /\ JobFits(t) /\ t.ver = j.ver /\ j.status # "none"
         /\ [doc |-> d, id |-> j.id, ver |-> j.ver, attempts |-> j.attempts + 1] \in Claims
  <1>1. j.attempts + 1 \in Nat
    BY JobFields
  <1>2. t \in Jobs /\ t.ver = j.ver /\ t.id = j.id /\ t.status = "processing"
    BY <1>1 DEF Jobs
  <1>3. j.id \in 1..MaxResets + 1
    BY JobFields, SearchAssumption DEF JobFits
  <1>4. j.ver \in 0..MaxVersions /\ j.attempts + 1 \in Nat
    BY JobFields
  <1>. QED  BY <1>2, <1>3, <1>4 DEF JobFits, Claims

LEMMA ClaimTypes ==
  ASSUME SearchTypes, NEW w \in Workers, claimPendingJobs(w)
  PROVE  SearchTypes' /\ JobsStay
  <1>1. PICK S \in (SUBSET {d \in Docs : Claimable(d)}) \ {{}} :
          /\ job' = [d \in Docs |->
                      IF d \in S THEN [job[d] EXCEPT !.status = "processing",
                                           !.late = FALSE, !.attempts = @ + 1]
                      ELSE job[d]]
          /\ worker' = [worker EXCEPT ![w] =
              [Free EXCEPT !.at = "apply",
                           !.jobs = {[doc |-> d, id |-> job[d].id, ver |-> job[d].ver,
                                      attempts |-> job[d].attempts + 1] : d \in S}]]
    BY DEF claimPendingJobs
  <1>. DEFINE Taken(d) == [job[d] EXCEPT !.status = "processing", !.late = FALSE,
                                         !.attempts = @ + 1]
              Claim(d) == [doc |-> d, id |-> job[d].id, ver |-> job[d].ver,
                           attempts |-> job[d].attempts + 1]
              claims == {Claim(d) : d \in S}
              b == [Free EXCEPT !.at = "apply", !.jobs = claims]
  <1>2. \A d \in S : d \in Docs /\ job[d] \in Jobs /\ JobFits(job[d]) /\ job[d].ready
    BY DEF SearchTypes, Claimable
  <1>3. \A d \in S : /\ Taken(d) \in Jobs /\ JobFits(Taken(d))
                     /\ Taken(d).ver = job[d].ver /\ Queued(d)
                     /\ Claim(d) \in Claims
    BY <1>2, TakenFits DEF Queued
  <1>4. /\ job' = [d \in Docs |-> IF d \in S THEN Taken(d) ELSE job[d]]
        /\ worker' = [worker EXCEPT ![w] = b]
    BY <1>1
  <1>. HIDE DEF Taken, Claim
  <1>5. JobsStay
    BY <1>3, <1>4 DEF JobsStay, SearchTypes, Queued
  <1>6. claims \subseteq Claims /\ claims # {}
    <2>1. claims \subseteq Claims
      BY <1>3
    <2>2. S # {}
      OBVIOUS
    <2>3. PICK d \in S : TRUE
      BY <2>2
    <2>4. Claim(d) \in claims
      OBVIOUS
    <2>. QED  BY <2>1, <2>4
  <1>. HIDE DEF claims
  <1>7. BatchFits(b)
    BY <1>6 DEF BatchFits, Batches, Free
  <1>. HIDE DEF b
  <1>8. UNCHANGED <<index, scan, resets>> /\ index \in [Docs -> 0..MaxVersions]
    BY DEF claimPendingJobs, SearchTypes
  <1>. QED  BY <1>4, <1>5, <1>7, <1>8, WorkerTypes

LEMMA SameJobs ==
  ASSUME SearchTypes, job' = job
  PROVE  JobsStay
  BY DEF SearchTypes, JobsStay, Queued

(* A worker that has claimed: it applies a job, or settles one.            *)
LEMMA ApplyTypes ==
  ASSUME SearchTypes, NEW w \in Workers, applyJob(w) \/ ApplyFails(w)
  PROVE  SearchTypes' /\ JobsStay
  <1>1. PICK j \in worker[w].jobs, at \in {"complete", "fail"} :
          /\ index' \in {index, [index EXCEPT ![j.doc] = j.ver]}
          /\ worker' = [worker EXCEPT ![w].at = at, ![w].doc = j]
    BY DEF applyJob, ApplyFails
  <1>. DEFINE b == worker[w]
              n == [b EXCEPT !.at = at, !.doc = j]
  <1>2. b \in Batches /\ b.jobs \subseteq Claims /\ worker' = [worker EXCEPT ![w] = n]
    <2>1. b \in Batches
      BY DEF SearchTypes
    <2>2. worker' = [worker EXCEPT ![w] = n]
      BY <1>1, <2>1 DEF SearchTypes, Batches
    <2>. QED  BY <2>1, <2>2, BatchFields
  <1>3. j \in b.jobs /\ j \in Claims
    BY <1>1, <1>2
  <1>4. index' \in [Docs -> 0..MaxVersions]
    BY <1>1, <1>3, ClaimFields DEF SearchTypes
  <1>. HIDE DEF b
  <1>5. BatchFits(n)
    BY <1>2, <1>3 DEF BatchFits, Batches
  <1>. HIDE DEF n
  <1>6. job' = job /\ resets' = resets /\ scan' = scan
    BY DEF applyJob, ApplyFails
  <1>. QED  BY <1>2, <1>4, <1>5, <1>6, SameJobs, WorkerTypes

LEMMA SettleStepTypes ==
  ASSUME SearchTypes, NEW w \in Workers, completeJob(w) \/ CompleteFails(w) \/ failJob(w)
  PROVE  SearchTypes' /\ JobsStay
  <1>. DEFINE b == worker[w]
              j == b.doc
              dead == IF j.attempts >= MaxAttempts THEN "dead" ELSE "failed"
              done == [job[j.doc] EXCEPT !.status = "processed", !.late = FALSE]
              failed == [job[j.doc] EXCEPT !.status = dead, !.late = FALSE,
                                           !.ready = dead = "dead"]
  <1>1. b \in Batches /\ BatchFits(b) /\ b.at \in {"complete", "fail"}
    BY DEF SearchTypes, BatchFits, completeJob, CompleteFails, failJob
  <1>2. j \in Claims /\ j.doc \in Docs
    BY <1>1, BatchFields, ClaimFields DEF BatchFits
  <1>3. \/ job' = job \/ Settle(j, done) \/ Settle(j, failed)
    BY DEF completeJob, CompleteFails, failJob
  <1>4. \E n \in {Onward(b), Free} : worker' = [worker EXCEPT ![w] = n]
    BY DEF completeJob, CompleteFails, failJob
  <1>5. UNCHANGED <<index, scan, resets>>
    BY DEF completeJob, CompleteFails, failJob
  <1>6. job[j.doc] \in Jobs
    BY <1>2 DEF SearchTypes
  <1>7. dead \in {"dead", "failed"} /\ (dead = "dead") \in BOOLEAN
    OBVIOUS
  <1>. HIDE DEF b, j, dead
  <1>8. /\ done \in Jobs /\ done.status # "none" /\ done.ver = job[j.doc].ver
        /\ done.id = job[j.doc].id
    BY <1>6 DEF Jobs
  <1>9. /\ failed \in Jobs /\ failed.status # "none" /\ failed.ver = job[j.doc].ver
        /\ failed.id = job[j.doc].id
    BY <1>6, <1>7 DEF Jobs
  <1>. HIDE DEF done, failed
  <1>10. JobsStay
    BY <1>2, <1>3, <1>8, <1>9, SettleTypes, SameJobs
  <1>11. BatchFits(Onward(b)) /\ BatchFits(Free)
    BY <1>1, OnwardBatch, FreeFits
  <1>12. index' \in [Docs -> 0..MaxVersions] /\ resets' = resets /\ scan' = scan
    BY <1>5 DEF SearchTypes
  <1>. QED  BY <1>4, <1>10, <1>11, <1>12, WorkerTypes

LEMMA LeaveTypes ==
  ASSUME SearchTypes, NEW w \in Workers, FailJobFails(w) \/ WorkerCrash(w)
  PROVE  SearchTypes' /\ JobsStay
  <1>1. worker[w] \in Batches /\ BatchFits(worker[w])
    BY DEF SearchTypes, BatchFits
  <1>2. CASE FailJobFails(w)
    <2>1. worker' = [worker EXCEPT ![w] = Onward(worker[w])] /\ BatchFits(Onward(worker[w]))
      BY <1>1, <1>2, OnwardBatch DEF FailJobFails
    <2>2. job' = job /\ index' = index /\ resets' = resets /\ scan' = scan
      BY <1>2 DEF FailJobFails, rows
    <2>3. index' \in [Docs -> 0..MaxVersions]
      BY <2>2 DEF SearchTypes
    <2>. QED  BY <2>1, <2>2, <2>3, SameJobs, WorkerTypes
  <1>3. CASE WorkerCrash(w)
    <2>1. worker' = [worker EXCEPT ![w] = Free]
      BY <1>3 DEF WorkerCrash
    <2>2. job' = job /\ index' = index /\ resets' = resets /\ scan' = scan
      BY <1>3 DEF WorkerCrash, rows
    <2>3. index' \in [Docs -> 0..MaxVersions]
      BY <2>2 DEF SearchTypes
    <2>. QED  BY <2>1, <2>2, <2>3, FreeFits, SameJobs, WorkerTypes
  <1>. QED  BY <1>2, <1>3

LEMMA JobTypes ==
  ASSUME SearchTypes, JobsStay, UNCHANGED <<index, worker, scan, resets>>
  PROVE  SearchTypes'
  <1>1. \A d \in Docs : JobFits(job[d])'
    BY DEF JobsStay, JobFits
  <1>. QED  BY <1>1 DEF SearchTypes, JobsStay

LEMMA TimeTypes ==
  ASSUME SearchTypes, NEW d \in Docs, LeaseExpires(d) \/ BackoffElapses(d)
  PROVE  SearchTypes' /\ JobsStay
  <1>. DEFINE j == job[d]
              late == [j EXCEPT !.late = TRUE]
              due == [j EXCEPT !.ready = TRUE]
  <1>1. j \in Jobs /\ JobFits(j) /\ j.status # "none"
    BY DEF SearchTypes, LeaseExpires, BackoffElapses, Queued
  <1>2. job' = [job EXCEPT ![d] = late] \/ job' = [job EXCEPT ![d] = due]
    BY <1>1 DEF LeaseExpires, BackoffElapses, SearchTypes, Jobs
  <1>3. UNCHANGED <<index, worker, scan, resets>>
    BY DEF LeaseExpires, BackoffElapses
  <1>4. Queued(d) <=> j.status # "none"
    BY DEF Queued
  <1>5. j = job[d]
    OBVIOUS
  <1>. HIDE DEF j
  <1>6. /\ late \in Jobs /\ JobFits(late) /\ late.ver = j.ver
        /\ due \in Jobs /\ JobFits(due) /\ due.ver = j.ver
    BY <1>1 DEF Jobs, JobFits
  <1>. HIDE DEF late, due
  <1>7. JobsStay
    BY <1>1, <1>2, <1>4, <1>5, <1>6 DEF JobsStay, SearchTypes, Queued
  <1>. QED  BY <1>3, <1>7, JobTypes

(* The reindex command: its copies are of rows that are there.             *)
LEMMA ScanTypes ==
  ASSUME SearchTypes, RowTypes, Reset \/ ScanRead \/ ScanPut \/ ScanFails
  PROVE  SearchTypes' /\ JobsStay
  <1>1. /\ scan \in Scans /\ scan.at \in {"idle", "read", "put", "dead"}
        /\ scan.type \in {"none", "channel", "message", "file"} /\ scan.todo \subseteq Copies
    BY DEF SearchTypes, Scans
  <1>2. NoScan \in Scans /\ NoScan.at = "idle" /\ NoScan.todo = {}
    BY DEF NoScan, Scans
  <1>3. \A t : ScanNext(t) \in Scans /\ ScanNext(t).at # "put" /\ ScanNext(t).todo = {}
    BY <1>2 DEF ScanNext, Scans, NoScan
  <1>4. ASSUME scan' \in Scans, scan'.at = "put" <=> scan'.todo # {}, job' = job,
               index' \in [Docs -> 0..MaxVersions], UNCHANGED <<worker, resets>>
        PROVE  SearchTypes' /\ JobsStay
    BY <1>4, SameJobs DEF SearchTypes
  <1>5. CASE Reset
    <2>1. /\ job' = [d \in Docs |-> NoJob] /\ index' = [d \in Docs |-> 0]
          /\ resets' \in 0..MaxResets /\ UNCHANGED worker
          /\ scan' = [NoScan EXCEPT !.at = "read", !.type = "channel"]
      BY <1>5, SearchAssumption DEF Reset, SearchTypes
    <2>2. JobsStay
      BY <2>1, NoJobIsJob DEF JobsStay, JobFits, NoJob
    <2>3. scan' \in Scans /\ scan'.at # "put" /\ scan'.todo = {}
      BY <2>1 DEF NoScan, Scans
    <2>4. index' \in [Docs -> 0..MaxVersions]
      BY <2>1, ChatAssumption
    <2>5. \A d \in Docs : JobFits(job[d])'
      BY <2>2 DEF JobsStay, JobFits
    <2>. QED  BY <2>1, <2>2, <2>3, <2>4, <2>5 DEF SearchTypes, JobsStay
  <1>6. CASE ScanRead
    <2>. DEFINE found == {[doc |-> d, ver |-> text[d]] :
                            d \in {x \in OfType(scan.type) : Searchable(x)}}
                s == [scan EXCEPT !.at = "put", !.todo = found]
    <2>1. scan' = IF found = {} THEN ScanNext(scan.type) ELSE s
      BY <1>6 DEF ScanRead
    <2>2. found \subseteq Copies
      BY DEF OfType, Copies, Docs, RowTypes
    <2>. HIDE DEF found
    <2>3. s \in Scans /\ s.at = "put" /\ s.todo = found
      BY <1>1, <2>2 DEF Scans
    <2>. HIDE DEF s
    <2>4. scan' \in Scans /\ (scan'.at = "put" <=> scan'.todo # {})
      BY <1>3, <2>1, <2>3
    <2>5. job' = job /\ index' = index /\ UNCHANGED <<worker, resets>>
      BY <1>6 DEF ScanRead, rows
    <2>6. index' \in [Docs -> 0..MaxVersions]
      BY <2>5 DEF SearchTypes
    <2>. QED  BY <1>4, <2>4, <2>5, <2>6
  <1>7. CASE ScanPut
    <2>1. PICK c \in scan.todo :
            /\ index' = [index EXCEPT ![c.doc] = c.ver]
            /\ scan' = IF scan.todo = {c} THEN ScanNext(scan.type)
                       ELSE [scan EXCEPT !.todo = @ \ {c}]
            /\ UNCHANGED <<here, text, job, worker, resets, faults, raced>>
      BY <1>7 DEF ScanPut
    <2>2. index' \in [Docs -> 0..MaxVersions]
      BY <1>1, <2>1 DEF SearchTypes, Copies
    <2>. DEFINE rest == scan.todo \ {c}
                s == [scan EXCEPT !.todo = rest]
    <2>3. rest \subseteq Copies /\ (rest = {} => scan.todo = {c})
      BY <1>1, <2>1
    <2>4. scan.at = "put"
      BY <2>1 DEF SearchTypes
    <2>5. scan' = IF scan.todo = {c} THEN ScanNext(scan.type) ELSE s
      BY <2>1
    <2>. HIDE DEF rest
    <2>6. s \in Scans /\ s.at = "put" /\ s.todo = rest
      BY <1>1, <2>3, <2>4 DEF Scans
    <2>. HIDE DEF s
    <2>7. scan' \in Scans /\ (scan'.at = "put" <=> scan'.todo # {})
      BY <1>3, <2>3, <2>5, <2>6
    <2>. QED  BY <1>4, <2>1, <2>2, <2>7
  <1>8. CASE ScanFails
    <2>1. scan' = [NoScan EXCEPT !.at = "dead"]
      BY <1>8 DEF ScanFails
    <2>2. scan' \in Scans /\ scan'.at # "put" /\ scan'.todo = {}
      BY <2>1 DEF NoScan, Scans
    <2>3. job' = job /\ index' = index /\ UNCHANGED <<worker, resets>>
      BY <1>8 DEF ScanFails, rows
    <2>4. index' \in [Docs -> 0..MaxVersions]
      BY <2>3 DEF SearchTypes
    <2>. QED  BY <1>4, <2>2, <2>3, <2>4
  <1>. QED  BY <1>5, <1>6, <1>7, <1>8

LEMMA SearchStepTypes ==
  ASSUME SearchTypes, RowTypes, SearchStep
  PROVE  SearchTypes' /\ JobsStay /\ text' = text
  <1>1. ASSUME NEW w \in Workers,
               \/ claimPendingJobs(w) \/ applyJob(w) \/ ApplyFails(w)
               \/ completeJob(w) \/ CompleteFails(w) \/ failJob(w)
               \/ FailJobFails(w) \/ WorkerCrash(w)
        PROVE  SearchTypes' /\ JobsStay /\ text' = text
    <2>1. text' = text
      BY <1>1 DEF claimPendingJobs, applyJob, ApplyFails, completeJob, CompleteFails,
                  failJob, FailJobFails, WorkerCrash
    <2>. QED  BY <1>1, <2>1, ClaimTypes, ApplyTypes, SettleStepTypes, LeaveTypes
  <1>2. ASSUME NEW d \in Docs, LeaseExpires(d) \/ BackoffElapses(d)
        PROVE  SearchTypes' /\ JobsStay /\ text' = text
    <2>1. text' = text
      BY <1>2 DEF LeaseExpires, BackoffElapses
    <2>. QED  BY <1>2, <2>1, TimeTypes
  <1>3. ASSUME Reset \/ ScanRead \/ ScanPut \/ ScanFails
        PROVE  SearchTypes' /\ JobsStay /\ text' = text
    <2>1. text' = text
      BY <1>3 DEF Reset, ScanRead, ScanPut, ScanFails
    <2>. QED  BY <1>3, <2>1, ScanTypes
  <1>. QED  BY <1>1, <1>2, <1>3 DEF SearchStep

LEMMA SearchInv ==
  ASSUME Inv, SearchStep, UNCHANGED chatVars
  PROVE  Inv'
  <1>1. SearchTypes' /\ JobsStay /\ text' = text
    BY SearchStepTypes DEF Inv
  <1>2. UNCHANGED <<op, gone, told, member, marked, objects, unsure, leaked, crossed>>
    BY DEF chatVars, channel, store, history
  <1>3. RowTypes'
    BY <1>1, <1>2 DEF Inv, RowTypes
  <1>4. RequestsFit'
    BY <1>2 DEF Inv, RequestsFit, OpFits, ByGuest
  <1>5. RowsFit'
    BY <1>1, <1>2 DEF Inv, RowsFit, OwnRow, OneHolder, NewRow, HeldRow, Making, Holds, Exists
  <1>6. JobTellsRow'
    <2>1. SUFFICES ASSUME NEW d \in Channels \cup {m \in Messages : Author[m] # Guest},
                          Queued(d)'
                   PROVE  job'[d].ver = text[d]
      BY <1>1 DEF JobTellsRow
    <2>2. d \in Docs
      BY DEF Docs
    <2>3. Queued(d) /\ job'[d].ver = job[d].ver
      BY <1>1, <2>1, <2>2 DEF JobsStay, Queued
    <2>. QED  BY <2>3 DEF Inv, JobTellsRow
  <1>7. EventsFit'
    <2>1. \A x : Says(x)' = Says(x)
      BY <1>1, <1>2 DEF Says
    <2>2. \A x : EventFits(x) => EventFits(x)'
      BY <1>2, <2>1 DEF EventFits, Telling
    <2>. QED  BY <1>2, <2>2 DEF Inv, EventsFit
  <1>8. FilesFit'
    BY <1>1, <1>2 DEF Inv, FilesFit, ObjectOf, Keeps, Exists
  <1>9. MarksFit'
    BY <1>1, <1>2, MarksStill DEF Inv
  <1>. QED  BY <1>1, <1>3, <1>4, <1>5, <1>6, <1>7, <1>8, <1>9 DEF Inv

-----------------------------------------------------------------------------
(* The steps of a request.                                                 *)

LEMMA SearchUnchanged ==
  ASSUME SearchTypes, UNCHANGED <<job, index, worker, scan, resets>>
  PROVE  SearchTypes'
  <1>1. \A d \in Docs : JobFits(job[d])'
    BY DEF SearchTypes, JobFits
  <1>. QED  BY <1>1 DEF SearchTypes

(* Steps that write no row, mark or event, and store no object.            *)
LEMMA QuietInv ==
  ASSUME Inv, NEW p \in Procs, Turn(p), OpFits(op'[p]),
         UNCHANGED <<text, gone, told, marked, job, index, worker, scan, resets, crossed>>,
         member' = member \/ member' \subseteq Users,
         op[p].at \notin {"enqueue", "publish"}, op'[p].at \notin {"enqueue", "publish"},
         RowsFit', FilesFit',
         op'[p].at \in {"idle", "check", "answer", "drop"} \/ MarksFit'
  PROVE  Inv'
  <1>1. RequestsFit'
    BY TurnKeepsFit DEF Inv
  <1>2. RowTypes'
    BY DEF Inv, RowTypes
  <1>3. JobTellsRow'
    BY DEF Inv, JobTellsRow, Queued
  <1>4. \A x : Says(x)' = Says(x)
    BY DEF Says
  <1>5. EventsFit'
    BY <1>4, EventsUntold DEF Inv
  <1>6. SearchTypes'
    BY SearchUnchanged DEF Inv
  <1>7. MarksFit'
    <2>1. CASE op'[p].at \in {"idle", "check", "answer", "drop"}
      <3>1. Carries(op'[p]) = {} /\ ~ToMark(op'[p])
        BY <2>1, CarriesMarks DEF ToMark
      <3>2. \A m : Known(m) => Known(m)'
        BY DEF Known, Exists
      <3>. QED  BY <3>1, <3>2, MarksTurn DEF Inv
    <2>. QED  BY <2>1
  <1>. QED  BY <1>1, <1>2, <1>3, <1>5, <1>6, <1>7 DEF Inv

LEMMA RequestedInv ==
  ASSUME Inv, NEW p \in Procs, Requested(p)
  PROVE  Inv'
  <1>1. /\ Turn(p) /\ OpFits(op'[p]) /\ op[p] = Idle /\ op'[p].at = "check"
        /\ op'[p].kind \in Makes => IsNew(op'[p].doc)
    BY RequestedTurn DEF Inv
  <1>2. UNCHANGED <<text, gone, told, member, marked, job, index, worker, scan, resets,
                    objects, unsure, leaked, crossed>>
    BY DEF Requested, searchVars, rows, channel, store, history
  <1>3. NewRow(op[p])' /\ HeldRow(op[p])' /\ ~Holds(op'[p])
    BY <1>1, <1>2 DEF NewRow, HeldRow, Making, Holds, IsNew
  <1>4. RowsFit'
    BY <1>1, <1>2, <1>3, RowsTurn DEF Inv
  <1>5. ObjectOf(op[p])' /\ \A f \in Files : ~Keeps(op[p], f)
    BY <1>1 DEF ObjectOf, Keeps, Idle
  <1>6. FilesFit'
    BY <1>1, <1>2, <1>5, FilesStill DEF Inv
  <1>. QED  BY <1>1, <1>2, <1>4, <1>6, QuietInv DEF Idle

LEMMA CheckInv ==
  ASSUME Inv, NEW p \in Procs, Check(p)
  PROVE  Inv'
  <1>1. /\ Turn(p) /\ OpFits(op'[p]) /\ op[p].at = "check"
        /\ \/ op'[p] = Idle
           \/ /\ op'[p].kind = op[p].kind /\ op'[p].doc = op[p].doc
              /\ op'[p].at \in {"change", "put", "write"}
              /\ op'[p].at = "write" => op[p].kind # "upload"
              /\ op'[p].pin = PinRead(op[p])
              /\ Granted(op[p].kind, op[p].doc)
    BY CheckTurn DEF Inv
  <1>2. UNCHANGED <<text, gone, told, member, marked, job, index, worker, scan, resets,
                    objects, unsure, leaked, crossed>>
    BY DEF Check, searchVars, rows, channel, store, history
  <1>3. /\ op'[p].at \in {"idle", "change", "put", "write"}
        /\ \/ op'[p].at = "idle" /\ op'[p].kind = "none"
           \/ op'[p].kind = op[p].kind /\ op'[p].doc = op[p].doc
        /\ op'[p].at = "write" => op'[p].kind # "upload"
    BY <1>1 DEF Idle
  <1>4. NewRow(op[p])' /\ HeldRow(op[p])' /\ ~Holds(op'[p])
    <2>1. NewRow(op[p])
      BY DEF Inv, RowsFit
    <2>2. NewRow(op[p])'
      BY <1>1, <1>2, <1>3, <2>1 DEF NewRow, Making, Makes, Creates
    <2>. QED  BY <1>3, <2>2 DEF HeldRow, Holds
  <1>5. op'[p].kind \in Makes => op[p].kind = op'[p].kind /\ op[p].doc = op'[p].doc
    BY <1>3 DEF Makes, Creates
  <1>6. RowsFit'
    BY <1>1, <1>2, <1>4, <1>5, RowsTurn DEF Inv
  <1>7. ObjectOf(op[p])' /\ \A f \in Files : ~Keeps(op[p], f)
    BY <1>1, <1>3 DEF ObjectOf, Keeps
  <1>8. FilesFit'
    BY <1>1, <1>2, <1>7, FilesStill DEF Inv
  <1>9. MarksFit'
    <2>1. \A m \in Messages : Known(m) => Known(m)'
      BY <1>2 DEF Known, Exists
    <2>2. OpFits(op[p]) /\ NewRow(op[p])
      BY DEF Inv, RequestsFit, RowsFit
    <2>3. ToMark(op'[p]) => Known(op[p].doc)'
      <3>1. op[p].kind \in Marks /\ Granted(op[p].kind, op[p].doc) => Exists(op[p].doc)
        BY DEF Granted, Marks, Sent
      <3>2. ~ToMark(Idle)
        BY IdleCarries
      <3>. QED  BY <1>1, <1>2, <3>1, <3>2 DEF ToMark, Known, Exists
    <2>4. ASSUME NEW x \in Carries(op'[p]) \ crossed' PROVE op'[p].pin = Says(x)
      <3>1. op'[p] # Idle
        BY <2>4, IdleCarries
      <3>2. /\ op'[p].kind = op[p].kind /\ op'[p].doc = op[p].doc
            /\ op'[p].pin = PinRead(op[p])
        BY <1>1, <3>1
      <3>3. /\ op[p].kind \in Sent /\ x \notin Messages
            /\ op[p].kind = "send" => x \in {Pin(op[p].doc), React(op[p].doc)}
            /\ op[p].kind = "edit" => x = Pin(op[p].doc)
        BY <1>1, <2>4, <3>2, CarriesMarks DEF Carries, Sent
      <3>4. CASE op[p].kind = "edit"
        BY <3>2, <3>3, <3>4 DEF PinRead, Says
      <3>5. CASE op[p].kind = "send"
        <4>1. Making(op[p])
          BY <1>1, <3>5 DEF Making, Makes
        <4>2. ~Known(op[p].doc) /\ op[p].doc \in Messages
          BY <2>2, <3>5, <4>1 DEF NewRow, Known, Exists, OpFits, Sent
        <4>3. x \notin marked
          BY <3>3, <3>5, <4>2 DEF Inv, MarksFit
        <4>. QED  BY <3>2, <3>3, <3>5, <4>3 DEF PinRead, Says
      <3>. QED  BY <3>3, <3>4, <3>5 DEF Sent
    <2>. QED  BY <1>1, <1>2, <2>1, <2>3, <2>4, MarksTurn DEF Inv
  <1>. QED  BY <1>1, <1>2, <1>3, <1>6, <1>8, <1>9, QuietInv

LEMMA WriteInv ==
  ASSUME Inv, NEW p \in Procs, Write(p)
  PROVE  Inv'
  <1>1. /\ Turn(p) /\ OpFits(op'[p]) /\ op[p].at = "write"
        /\ \/ op'[p] = Idle /\ op[p].kind \in Updates
           \/ /\ GoesOn(op[p], op'[p], "commit")
              /\ op[p].kind \in Updates => Exists(op[p].doc) /\ ~Locked(op[p].doc)
              /\ op[p].kind \in {"edit", "rename"} => text[op[p].doc] < MaxVersions
    BY WriteTurn DEF Inv
  <1>2. UNCHANGED <<text, gone, told, member, marked, job, index, worker, scan, resets,
                    objects, unsure, leaked, crossed>>
    BY DEF Write, searchVars, rows, channel, store, history
  <1>3. \/ op'[p].at = "idle" /\ op'[p].kind = "none" /\ op[p].kind \in Updates
        \/ op'[p].at = "commit" /\ op'[p].kind = op[p].kind /\ op'[p].doc = op[p].doc
    BY <1>1 DEF Idle, GoesOn
  <1>4. NewRow(op[p])' /\ HeldRow(op[p])'
    <2>1. NewRow(op[p])
      BY DEF Inv, RowsFit
    <2>2. NewRow(op[p])'
      BY <1>1, <1>2, <1>3, <2>1 DEF NewRow, Making
    <2>3. HeldRow(op[p])'
      BY <1>1, <1>2, <1>3 DEF HeldRow, Holds, Exists, GoesOn, Idle
    <2>. QED  BY <2>2, <2>3
  <1>5. Holds(op'[p]) => ~Locked(op'[p].doc)
    BY <1>1, <1>3 DEF Holds, Locked, GoesOn, Idle
  <1>6. op'[p].kind \in Makes => op[p].kind = op'[p].kind /\ op[p].doc = op'[p].doc
    BY <1>3 DEF Makes, Creates
  <1>7. RowsFit'
    BY <1>1, <1>2, <1>4, <1>5, <1>6, RowsTurn DEF Inv
  <1>8. ObjectOf(op[p])' /\ \A f \in Files : Keeps(op[p], f) => Keeps(op'[p], f)
    BY <1>1, <1>2, <1>3 DEF ObjectOf, Keeps, Inv, FilesFit, Updates
  <1>9. FilesFit'
    BY <1>1, <1>2, <1>8, FilesStill DEF Inv
  <1>10. MarksFit'
    <2>1. \A m \in Messages : Known(m) => Known(m)'
      BY <1>2 DEF Known, Exists
    <2>2. ~ToMark(op'[p])
      BY <1>3 DEF ToMark
    <2>3. Carries(op'[p]) \subseteq Carries(op[p])
          /\ (op'[p] = Idle \/ op'[p].pin = op[p].pin)
      BY <1>1, IdleCarries, CarriesOn
    <2>4. \A x \in Carries(op'[p]) : x \in Carries(op[p]) /\ op'[p].pin = op[p].pin
      BY <2>3, IdleCarries
    <2>. QED  BY <1>1, <1>2, <2>1, <2>2, <2>4, MarksTurn DEF Inv
  <1>. QED  BY <1>1, <1>2, <1>3, <1>7, <1>9, <1>10, QuietInv

LEMMA RollbackInv ==
  ASSUME Inv, NEW p \in Procs, Rollback(p)
  PROVE  Inv'
  <1>1. /\ Turn(p) /\ OpFits(op'[p]) /\ op[p].at \in {"write", "commit"}
        /\ \/ op'[p] = Idle /\ op[p].kind # "upload"
           \/ GoesOn(op[p], op'[p], "drop") /\ op[p].kind = "upload"
    BY RollbackTurn DEF Inv
  <1>2. UNCHANGED <<text, gone, told, member, marked, job, index, worker, scan, resets,
                    objects, unsure, leaked, crossed>>
    BY DEF Rollback, rows, channel, store, history
  <1>3. \/ op'[p].at = "idle" /\ op'[p].kind = "none" /\ op[p].kind # "upload"
        \/ /\ op'[p].at = "drop" /\ op'[p].kind = op[p].kind /\ op'[p].doc = op[p].doc
           /\ op[p].kind = "upload"
    BY <1>1 DEF Idle, GoesOn
  <1>4. NewRow(op[p])' /\ HeldRow(op[p])' /\ ~Holds(op'[p])
    BY <1>3 DEF NewRow, Making, HeldRow, Holds
  <1>5. op'[p].kind \in Makes => op[p].kind = op'[p].kind /\ op[p].doc = op'[p].doc
    BY <1>3 DEF Makes, Creates
  <1>6. RowsFit'
    BY <1>1, <1>2, <1>4, <1>5, RowsTurn DEF Inv
  <1>7. ObjectOf(op[p])'
    <2>1. op[p].kind = "upload" => text[op[p].doc] = 0
      BY <1>1 DEF Inv, RowsFit, NewRow, Making, Makes
    <2>. QED  BY <1>1, <1>2, <1>3, <2>1 DEF ObjectOf
  <1>8. \A f \in Files : Keeps(op[p], f) => Keeps(op'[p], f)
    BY <1>1, <1>3 DEF Keeps
  <1>9. FilesFit'
    BY <1>1, <1>2, <1>7, <1>8, FilesStill DEF Inv
  <1>. QED  BY <1>1, <1>2, <1>3, <1>6, <1>9, QuietInv

(* A step that ends a request and leaves the rows as they are.             *)
LEMMA RowsEnd ==
  ASSUME Inv, NEW p \in Procs, Turn(p), op'[p] = Idle, text' = text, gone' = gone
  PROVE  RowsFit'
  <1>1. NewRow(op[p])' /\ HeldRow(op[p])' /\ ~Holds(op'[p]) /\ op'[p].kind \notin Makes
    BY DEF NewRow, Making, HeldRow, Holds, Idle, Makes, Creates
  <1>. QED  BY <1>1, RowsTurn DEF Inv

LEMMA AnswerInv ==
  ASSUME Inv, NEW p \in Procs, Answer(p)
  PROVE  Inv'
  <1>1. op[p].at = "answer" /\ op' = [op EXCEPT ![p] = Idle]
    BY DEF Answer
  <1>2. Turn(p) /\ op'[p] = Idle /\ OpFits(op'[p]) /\ op'[p].at = "idle"
    <2>1. Turn(p) /\ op'[p] = Idle /\ OpFits(op'[p])
      BY <1>1, EndTurn DEF Inv
    <2>. QED  BY <2>1 DEF Idle
  <1>3. UNCHANGED <<text, gone, told, member, marked, job, index, worker, scan, resets,
                    objects, unsure, leaked, crossed>>
    BY DEF Answer, searchVars, rows, channel, store, history
  <1>4. RowsFit'
    BY <1>2, <1>3, RowsEnd
  <1>5. ObjectOf(op[p])' /\ \A f \in Files : ~Keeps(op[p], f)
    BY <1>1, <1>2 DEF ObjectOf, Keeps, Idle
  <1>6. FilesFit'
    BY <1>2, <1>3, <1>5, FilesStill DEF Inv
  <1>. QED  BY <1>1, <1>2, <1>3, <1>4, <1>6, QuietInv

LEMMA PutInv ==
  ASSUME Inv, NEW p \in Procs, Put(p)
  PROVE  Inv'
  <1>1. /\ Turn(p) /\ OpFits(op'[p]) /\ op[p].at = "put" /\ op[p].kind = "upload"
        /\ GoesOn(op[p], op'[p], "write")
    BY PutTurn DEF Inv
  <1>2. UNCHANGED <<text, gone, told, member, marked, job, index, worker, scan, resets,
                    unsure, leaked, crossed>>
    BY DEF Put, searchVars, rows, channel, history
  <1>3. objects' = objects \cup {op[p].doc}
    BY DEF Put
  <1>4. op'[p].at = "write" /\ op'[p].kind = "upload" /\ op'[p].doc = op[p].doc
    BY <1>1 DEF GoesOn
  <1>5. NewRow(op[p])' /\ HeldRow(op[p])' /\ ~Holds(op'[p])
    <2>1. NewRow(op[p])
      BY DEF Inv, RowsFit
    <2>. QED  BY <1>1, <1>2, <1>4, <2>1 DEF NewRow, Making, HeldRow, Holds
  <1>6. RowsFit'
    BY <1>1, <1>2, <1>4, <1>5, RowsTurn DEF Inv
  <1>7. ObjectOf(op[p])' /\ (\A f \in Files : ~Keeps(op[p], f))
        /\ \A f \in objects' \ objects : Keeps(op'[p], f)
    BY <1>1, <1>3, <1>4 DEF ObjectOf, Keeps
  <1>8. FilesFit'
    BY <1>1, <1>2, <1>3, <1>7, FilesStill DEF Inv
  <1>9. MarksFit'
    <2>1. \A m \in Messages : Known(m) => Known(m)'
      BY <1>2 DEF Known, Exists
    <2>2. ~ToMark(op'[p]) /\ Carries(op'[p]) = {}
      BY <1>1, <1>4, CarriesMarks DEF ToMark, Sent
    <2>. QED  BY <1>1, <1>2, <2>1, <2>2, MarksTurn DEF Inv
  <1>. QED  BY <1>1, <1>2, <1>4, <1>6, <1>8, <1>9, QuietInv

LEMMA DropInv ==
  ASSUME Inv, NEW p \in Procs, Drop(p)
  PROVE  Inv'
  <1>1. op[p].at = "drop" /\ op' = [op EXCEPT ![p] = Idle]
    BY DEF Drop
  <1>2. Turn(p) /\ op'[p] = Idle /\ OpFits(op'[p]) /\ op'[p].at = "idle"
    <2>1. Turn(p) /\ op'[p] = Idle /\ OpFits(op'[p])
      BY <1>1, EndTurn DEF Inv
    <2>. QED  BY <2>1 DEF Idle
  <1>3. UNCHANGED <<text, gone, told, member, marked, job, index, worker, scan, resets,
                    unsure, crossed>>
    BY DEF Drop, rows, channel, history
  <1>4. \/ objects' = objects \ {op[p].doc} /\ leaked' = leaked
        \/ objects' = objects /\ leaked' = leaked \cup {op[p].doc}
    BY DEF Drop
  <1>5. RowsFit'
    BY <1>2, <1>3, RowsEnd
  <1>6. op[p].kind \in Uploads /\ \A d \in gone : text[d] = 0
    BY <1>1 DEF Inv, RequestsFit, OpFits, RowTypes
  <1>7. CASE objects' = objects \ {op[p].doc} /\ leaked' = leaked
    <2>1. FilesFit'
      BY <1>1, <1>2, <1>3, <1>6, <1>7, FilesDropped DEF Inv
    <2>. QED  BY <1>1, <1>2, <1>3, <1>5, <2>1, QuietInv
  <1>8. CASE objects' = objects /\ leaked' = leaked \cup {op[p].doc}
    <2>1. ObjectOf(op[p])' /\ \A f \in Files : Keeps(op[p], f) => f \in leaked'
      BY <1>2, <1>8 DEF ObjectOf, Keeps, Idle
    <2>2. FilesFit'
      BY <1>2, <1>3, <1>8, <2>1, FilesStill DEF Inv
    <2>. QED  BY <1>1, <1>2, <1>3, <1>5, <2>2, QuietInv
  <1>. QED  BY <1>4, <1>7, <1>8

(* A commit writes one row, locked or new, with its job and its event.     *)
LEMMA CommitInv ==
  ASSUME Inv, NEW p \in Procs, Turn(p), OpFits(op'[p]), NEW d, d = op[p].doc, d \in Docs,
         op[p].at = "commit", After(op[p], op'[p]),
         Making(op[p]) \/ Holds(op[p]),
         d \in Messages => Author[d] # Guest,
         NEW v \in 0..MaxVersions, text' = [text EXCEPT ![d] = v],
         gone' = gone \/ (gone' = gone \cup {d} /\ v = 0), d \in gone => v = 0,
         v = 0 => d \in gone',
         SearchTypes', job'[d].ver = v,
         \A e \in Channels \cup Messages : e # d => job'[e] = job[e],
         UNCHANGED <<member, marked, crossed>>,
         d \in Messages => Subject(op[p]) = d,
         told' = IF d \in Messages THEN Tells(op[p], v) ELSE told,
         FilesFit'
  PROVE  Inv'
  <1>1. RequestsFit'
    BY TurnKeepsFit DEF Inv
  <1>2. text \in [Docs -> 0..MaxVersions] /\ told \in [Messages \cup MarksOf -> 0..MaxVersions]
    BY DEF Inv, RowTypes
  <1>3. /\ text' \in [Docs -> 0..MaxVersions]
        /\ told' \in [Messages \cup MarksOf -> 0..MaxVersions]
        /\ \A e \in gone' : text'[e] = 0
    <2>1. text' \in [Docs -> 0..MaxVersions]
      BY <1>2
    <2>2. told' \in [Messages \cup MarksOf -> 0..MaxVersions]
      BY <1>2, TellsFit
    <2>3. \A e \in gone : text[e] = 0
      BY DEF Inv, RowTypes
    <2>4. \A e \in gone' : text'[e] = 0
      BY <1>2, <2>3
    <2>. QED  BY <2>1, <2>2, <2>4
  <1>4. RowTypes'
    BY <1>3 DEF Inv, RowTypes
  <1>5. op'[p].at \in {"idle", "answer", "drop"}
        /\ (op'[p].kind \in Makes => op[p].kind = op'[p].kind /\ op[p].doc = op'[p].doc)
    BY DEF After, Idle, GoesOn, Makes, Creates
  <1>6. RowsFit'
    <2>1. Alone(p, d)
      BY MakerOrHolderAlone DEF Inv
    <2>2. NewRow(op[p])' /\ HeldRow(op[p])' /\ ~Holds(op'[p])
      BY <1>5 DEF NewRow, Making, HeldRow, Holds
    <2>3. /\ \A e \in Docs \ {d} : text'[e] = text[e]
          /\ \A e : e # d => (e \in gone' <=> e \in gone)
      BY <1>2
    <2>. QED  BY <1>5, <2>1, <2>2, <2>3, RowsTurn DEF Inv
  <1>7. JobTellsRow'
    <2>1. SUFFICES ASSUME NEW e \in Channels \cup {m \in Messages : Author[m] # Guest},
                          Queued(e)'
                   PROVE  job'[e].ver = text'[e]
      BY DEF JobTellsRow
    <2>2. e \in Docs
      BY DEF Docs
    <2>3. CASE e = d
      BY <1>2, <2>3
    <2>4. CASE e # d
      <3>1. job'[e] = job[e] /\ text'[e] = text[e]
        BY <1>2, <2>4
      <3>2. Queued(e)
        BY <2>1, <3>1 DEF Queued
      <3>. QED  BY <3>1, <3>2 DEF Inv, JobTellsRow
    <2>. QED  BY <2>3, <2>4
  <1>8. EventsFit'
    <2>1. ASSUME NEW x \in (Messages \cup MarksOf) \ crossed, x # d \/ d \notin Messages
          PROVE  Says(x)' = Says(x) /\ told'[x] \in {told[x], Says(x)}
      <3>1. Says(x)' = Says(x)
        BY <1>2, <2>1 DEF Says, Docs
      <3>2. told'[x] \in {told[x], Says(x)}
        BY <2>1, TellsFit
      <3>. QED  BY <3>1, <3>2
    <2>2. ASSUME d \in Messages
          PROVE  (\A q \in Procs : ~Telling(op[q], d)) /\ told'[d] = Says(d)'
      <3>1. \A q \in Procs : ~Telling(op[q], d)
        BY <2>2, MembersAreNotTold DEF Inv
      <3>2. told'[d] = v /\ Says(d)' = v
        BY <1>2, <2>2, TellsFit DEF Says, Docs
      <3>. QED  BY <3>1, <3>2
    <2>3. \A x \in (Messages \cup MarksOf) \ crossed :
            \/ Says(x)' = Says(x) /\ told'[x] \in {told[x], Says(x)}
            \/ /\ \A q \in Procs : ~Telling(op[q], x)
               /\ told'[x] = Says(x)'
      BY <2>1, <2>2
    <2>4. op[p].at \notin {"enqueue", "publish"} /\ op'[p].at \notin {"enqueue", "publish"}
      BY <1>5
    <2>. QED  BY <2>3, <2>4, EventsUntold DEF Inv
  <1>9. MarksFit'
    <2>1. ASSUME NEW m \in Messages, Known(m) PROVE Known(m)'
      <3>1. m \in Docs
        BY DEF Docs
      <3>2. CASE m = d
        BY <1>2, <3>2 DEF Known, Exists
      <3>3. CASE m # d
        BY <1>2, <2>1, <3>1, <3>3 DEF Known, Exists
      <3>. QED  BY <3>2, <3>3
    <2>2. Carries(op'[p]) = {} /\ ~ToMark(op'[p])
      BY <1>5, CarriesMarks DEF ToMark
    <2>. QED  BY <2>1, <2>2, MarksTurn DEF Inv
  <1>. QED  BY <1>1, <1>4, <1>6, <1>7, <1>8, <1>9 DEF Inv

(* A commit about anything but a file leaves the objects as they are.      *)
LEMMA CommitFiles ==
  ASSUME Inv, NEW p \in Procs, Turn(p), op[p].at = "commit", op[p].kind \notin Uploads,
         After(op[p], op'[p]), \A f \in Files : text'[f] = text[f],
         gone \subseteq gone', unsure \subseteq unsure', UNCHANGED <<leaked, objects>>
  PROVE  FilesFit'
  <1>1. ObjectOf(op[p])' /\ \A f \in Files : ~Keeps(op[p], f)
    BY DEF ObjectOf, Keeps, After, Idle, GoesOn, Uploads
  <1>. QED  BY <1>1, FilesStill DEF Inv

(* One document is enqueued with what its row says.                        *)
LEMMA EnqueueOne ==
  ASSUME SearchTypes, NEW d \in Docs, EnqueueUpsert({d}, text'),
         NEW v \in 0..MaxVersions, text'[d] = v,
         UNCHANGED <<index, worker, scan, resets>>
  PROVE  SearchTypes' /\ job'[d].ver = v /\ \A e \in Docs \ {d} : job'[e] = job[e]
  <1>1. \A e \in {d} \cap Docs : text'[e] \in 0..MaxVersions
    OBVIOUS
  <1>2. /\ SearchTypes'
        /\ \A e \in Docs : IF e \in {d} THEN job'[e].ver = text'[e] ELSE job'[e] = job[e]
    BY <1>1, EnqueueTypes
  <1>. QED  BY <1>2

LEMMA EnqueueMessageInv ==
  ASSUME Inv, NEW p \in Procs, NEW kind \in {"send", "edit"}, EnqueueMessage(p, kind)
  PROVE  Inv'
  <1>. DEFINE d == op[p].doc
              v == text[d] + 1
  <1>1. /\ Turn(p) /\ OpFits(op'[p]) /\ op[p].at = "commit" /\ op[p].kind \in {kind}
        /\ After(op[p], op'[p]) /\ unsure \subseteq unsure'
    BY CommittedTurn DEF Inv, EnqueueMessage
  <1>2. OpFits(op[p]) /\ op[p].kind \in {"send", "edit"}
    BY <1>1 DEF Inv, RequestsFit
  <1>3. d \in Messages /\ Author[d] # Guest /\ d \notin Files /\ d \in Docs
    BY <1>1, <1>2, SearchAssumption DEF OpFits, ByGuest, Sent, Docs
  <1>4. text \in [Docs -> 0..MaxVersions] /\ \A e \in gone : text[e] = 0
    BY DEF Inv, RowTypes
  <1>5. NewRow(op[p]) /\ HeldRow(op[p])
    BY DEF Inv, RowsFit
  <1>6. /\ Making(op[p]) \/ Holds(op[p])
        /\ d \notin gone /\ v \in 0..MaxVersions /\ v # 0
    <2>1. CASE op[p].kind = "send"
      <3>1. Making(op[p])
        BY <1>1, <2>1 DEF Making, Makes
      <3>2. text[d] = 0 /\ d \notin gone
        BY <1>5, <3>1 DEF NewRow
      <3>. QED  BY <3>1, <3>2, ChatAssumption
    <2>2. CASE op[p].kind = "edit"
      <3>1. Holds(op[p])
        BY <1>1, <2>2 DEF Holds, Updates
      <3>2. text[d] # 0 /\ text[d] < MaxVersions
        BY <1>5, <2>2, <3>1 DEF HeldRow, Exists
      <3>. QED  BY <1>3, <1>4, <3>1, <3>2, ChatAssumption
    <2>. QED  BY <1>2, <2>1, <2>2
  <1>7. /\ text' = [text EXCEPT ![d] = v] /\ EnqueueUpsert({d}, text')
        /\ told' = Tells(op[p], text'[d])
        /\ UNCHANGED <<index, worker, scan, resets, gone, member, marked, objects, leaked,
                       crossed>>
    BY DEF EnqueueMessage, index_, channel, history
  <1>. HIDE DEF v
  <1>8. text'[d] = v
    BY <1>3, <1>4, <1>7
  <1>9. SearchTypes' /\ job'[d].ver = v /\ \A e \in Docs \ {d} : job'[e] = job[e]
    BY <1>3, <1>6, <1>7, <1>8, EnqueueOne DEF Inv
  <1>10. \A f \in Files : text'[f] = text[f]
    BY <1>3, <1>4, <1>7 DEF Docs
  <1>11. FilesFit'
    BY <1>1, <1>2, <1>7, <1>10, CommitFiles DEF Uploads
  <1>12. \A e \in Channels \cup Messages : e # d => job'[e] = job[e]
    BY <1>9 DEF Docs
  <1>13. /\ told' = IF d \in Messages THEN Tells(op[p], v) ELSE told
         /\ Subject(op[p]) = d
    BY <1>2, <1>3, <1>7, <1>8 DEF Subject
  <1>14. d = op[p].doc
    OBVIOUS
  <1>15. UNCHANGED gone /\ UNCHANGED <<member, marked, crossed>>
    BY <1>7
  <1>16. text' = [text EXCEPT ![d] = v] /\ SearchTypes' /\ job'[d].ver = v
    BY <1>7, <1>9
  <1>17. /\ Turn(p) /\ OpFits(op'[p]) /\ op[p].at = "commit" /\ After(op[p], op'[p])
         /\ Making(op[p]) \/ Holds(op[p])
         /\ d \in Docs /\ (d \in Messages => Author[d] # Guest)
         /\ v \in 0..MaxVersions /\ v # 0 /\ gone' = gone /\ (d \in gone => v = 0)
    BY <1>1, <1>3, <1>6, <1>15
  <1>. HIDE DEF d
  <1>. QED  BY <1>11, <1>12, <1>13, <1>14, <1>15, <1>16, <1>17, CommitInv

LEMMA DeleteMessageInv ==
  ASSUME Inv, NEW p \in Procs, DeleteMessage(p)
  PROVE  Inv'
  <1>. DEFINE d == op[p].doc
              S == {d} \cup op[p].files
              none == [e \in S |-> 0]
  <1>1. /\ Turn(p) /\ OpFits(op'[p]) /\ op[p].at = "commit" /\ op[p].kind \in {"delete"}
        /\ After(op[p], op'[p]) /\ unsure \subseteq unsure'
    BY CommittedTurn DEF Inv, DeleteMessage
  <1>2. OpFits(op[p]) /\ op[p].kind = "delete" /\ op[p].files \subseteq Files
    BY <1>1, OpsRecords DEF Inv, RequestsFit, OpFits
  <1>3. d \in Messages /\ Author[d] # Guest /\ d \notin Files /\ d \in Docs
    BY <1>1, <1>2, SearchAssumption DEF OpFits, ByGuest, Sent, Docs
  <1>4. text \in [Docs -> 0..MaxVersions] /\ 0 \in 0..MaxVersions
    BY ChatAssumption DEF Inv, RowTypes
  <1>5. Holds(op[p])
    BY <1>1, <1>2 DEF Holds, Updates
  <1>6. /\ text' = [text EXCEPT ![d] = 0] /\ EnqueueUpsert(S, none)
        /\ told' = Tells(op[p], 0) /\ gone' = gone \cup {d}
        /\ UNCHANGED <<index, worker, scan, resets, member, marked, objects, leaked,
                       crossed>>
    BY DEF DeleteMessage, EnqueueDelete, index_, channel, history
  <1>7. \A e \in S \cap Docs : none[e] = 0 /\ none[e] \in 0..MaxVersions
    BY <1>4
  <1>8. d \in S /\ \A e \in Channels \cup Messages : e # d => e \notin S
    BY <1>2, SearchAssumption
  <1>. HIDE DEF none, S
  <1>9. /\ SearchTypes'
        /\ \A e \in Docs : IF e \in S THEN job'[e].ver = none[e] ELSE job'[e] = job[e]
    BY <1>6, <1>7, EnqueueTypes DEF Inv
  <1>10. job'[d].ver = 0 /\ \A e \in Channels \cup Messages : e # d => job'[e] = job[e]
    BY <1>3, <1>7, <1>8, <1>9 DEF Docs
  <1>11. \A f \in Files : text'[f] = text[f]
    BY <1>3, <1>4, <1>6 DEF Docs
  <1>12. FilesFit'
    BY <1>1, <1>2, <1>6, <1>11, CommitFiles DEF Uploads
  <1>13. /\ told' = IF d \in Messages THEN Tells(op[p], 0) ELSE told
         /\ Subject(op[p]) = d
    BY <1>2, <1>3, <1>6 DEF Subject
  <1>. HIDE DEF d
  <1>. QED  BY <1>1, <1>3, <1>4, <1>5, <1>6, <1>9, <1>10, <1>12, <1>13, CommitInv DEF d

LEMMA EnqueueChannelInv ==
  ASSUME Inv, NEW p \in Procs, NEW kind \in Creates \cup {"rename"}, EnqueueChannel(p, kind)
  PROVE  Inv'
  <1>. DEFINE d == op[p].doc
              v == text[d] + 1
  <1>1. /\ Turn(p) /\ OpFits(op'[p]) /\ op[p].at = "commit" /\ op[p].kind \in {kind}
        /\ After(op[p], op'[p]) /\ unsure \subseteq unsure'
    BY CommittedTurn DEF Inv, EnqueueChannel
  <1>2. OpFits(op[p]) /\ op[p].kind \in Creates \cup {"rename"}
    BY <1>1 DEF Inv, RequestsFit
  <1>3. d \in Channels /\ d \notin Messages /\ d \notin Files /\ d \in Docs
    BY <1>2, SearchAssumption DEF OpFits, Docs
  <1>4. text \in [Docs -> 0..MaxVersions] /\ \A e \in gone : text[e] = 0
    BY DEF Inv, RowTypes
  <1>5. NewRow(op[p]) /\ HeldRow(op[p])
    BY DEF Inv, RowsFit
  <1>6. /\ Making(op[p]) \/ Holds(op[p])
        /\ d \notin gone /\ v \in 0..MaxVersions /\ v # 0
    <2>1. CASE op[p].kind \in Creates
      <3>1. Making(op[p])
        BY <1>1, <2>1 DEF Making, Makes
      <3>2. text[d] = 0 /\ d \notin gone
        BY <1>5, <3>1 DEF NewRow
      <3>. QED  BY <3>1, <3>2, ChatAssumption
    <2>2. CASE op[p].kind = "rename"
      <3>1. Holds(op[p])
        BY <1>1, <2>2 DEF Holds, Updates
      <3>2. text[d] # 0 /\ text[d] < MaxVersions
        BY <1>5, <2>2, <3>1 DEF HeldRow, Exists
      <3>. QED  BY <1>3, <1>4, <3>1, <3>2, ChatAssumption
    <2>. QED  BY <1>2, <2>1, <2>2
  <1>7. /\ text' = [text EXCEPT ![d] = v] /\ EnqueueUpsert({d}, text')
        /\ UNCHANGED <<index, worker, scan, resets, gone, told, member, marked, objects,
                       leaked, crossed>>
    BY DEF EnqueueChannel, index_, channel, history
  <1>. HIDE DEF v
  <1>8. text'[d] = v
    BY <1>3, <1>4, <1>7
  <1>9. SearchTypes' /\ job'[d].ver = v /\ \A e \in Docs \ {d} : job'[e] = job[e]
    BY <1>3, <1>6, <1>7, <1>8, EnqueueOne DEF Inv
  <1>10. \A f \in Files : text'[f] = text[f]
    BY <1>3, <1>4, <1>7 DEF Docs
  <1>11. FilesFit'
    BY <1>1, <1>2, <1>7, <1>10, CommitFiles DEF Uploads, Creates
  <1>12. \A e \in Channels \cup Messages : e # d => job'[e] = job[e]
    BY <1>9 DEF Docs
  <1>13. told' = IF d \in Messages THEN Tells(op[p], v) ELSE told
    BY <1>3, <1>7
  <1>. HIDE DEF d
  <1>. QED  BY <1>1, <1>3, <1>6, <1>7, <1>9, <1>11, <1>12, <1>13, CommitInv DEF d

LEMMA UploadInv ==
  ASSUME Inv, NEW p \in Procs, Upload(p)
  PROVE  Inv'
  <1>. DEFINE d == op[p].doc
  <1>1. /\ Turn(p) /\ OpFits(op'[p]) /\ op[p].at = "commit" /\ op[p].kind \in {"upload"}
        /\ After(op[p], op'[p]) /\ unsure \subseteq unsure'
        /\ op[p].kind = "upload" =>
                \/ op'[p] = Idle
                \/ GoesOn(op[p], op'[p], "drop") /\ d \in unsure'
    BY CommittedTurn DEF Inv, Upload, EnqueueFile
  <1>2. OpFits(op[p]) /\ op[p].kind = "upload"
    BY <1>1 DEF Inv, RequestsFit
  <1>3. d \in Files /\ d \notin Messages /\ d \notin Channels /\ d \in Docs
    BY <1>2, SearchAssumption DEF OpFits, Uploads, Docs
  <1>4. text \in [Docs -> 0..MaxVersions] /\ 1 \in 0..MaxVersions
    BY ChatAssumption DEF Inv, RowTypes
  <1>5. Making(op[p]) /\ d \notin gone
    <2>1. Making(op[p])
      BY <1>1, <1>2 DEF Making, Makes
    <2>. QED  BY <2>1 DEF Inv, RowsFit, NewRow
  <1>6. /\ text' = [text EXCEPT ![d] = 1] /\ EnqueueUpsert({d}, text') /\ gone' = gone
        /\ UNCHANGED <<index, worker, scan, resets, told, member, marked, objects,
                       leaked, crossed>>
    BY DEF Upload, EnqueueFile, index_, channel, history
  <1>7. text'[d] = 1
    BY <1>3, <1>4, <1>6
  <1>8. SearchTypes' /\ job'[d].ver = 1 /\ \A e \in Docs \ {d} : job'[e] = job[e]
    BY <1>3, <1>4, <1>6, <1>7, EnqueueOne DEF Inv
  <1>9. FilesFit'
    BY <1>1, <1>2, <1>3, <1>4, <1>6, FilesUploaded DEF Inv
  <1>10. \A e \in Channels \cup Messages : e # d => job'[e] = job[e]
    BY <1>8 DEF Docs
  <1>11. told' = IF d \in Messages THEN Tells(op[p], 1) ELSE told
    BY <1>3, <1>6
  <1>12. PICK v : v = 1
    OBVIOUS
  <1>13. /\ d = op[p].doc /\ d \in Docs /\ Making(op[p])
         /\ d \in Messages => Author[d] # Guest /\ Subject(op[p]) = d
         /\ v \in 0..MaxVersions /\ v # 0 /\ d \notin gone
         /\ text' = [text EXCEPT ![d] = v] /\ gone' = gone
         /\ UNCHANGED <<member, marked, crossed>>
    BY <1>3, <1>4, <1>5, <1>6, <1>12
  <1>14. SearchTypes' /\ job'[d].ver = v
    BY <1>8, <1>12
  <1>15. told' = IF d \in Messages THEN Tells(op[p], v) ELSE told
    BY <1>11, <1>12
  <1>. HIDE DEF d
  <1>. QED  BY <1>1, <1>9, <1>10, <1>13, <1>14, <1>15, CommitInv

LEMMA DiscardInv ==
  ASSUME Inv, NEW p \in Procs, Delete(p)
  PROVE  Inv'
  <1>. DEFINE d == op[p].doc
  <1>1. /\ Turn(p) /\ OpFits(op'[p]) /\ op[p].at = "commit" /\ op[p].kind \in {"discard"}
        /\ After(op[p], op'[p]) /\ unsure \subseteq unsure'
        /\ op[p].kind = "discard" => GoesOn(op[p], op'[p], "drop") \/ d \in unsure'
    BY CommittedTurn DEF Inv, Delete, EnqueueFile
  <1>2. OpFits(op[p]) /\ op[p].kind = "discard"
    BY <1>1 DEF Inv, RequestsFit
  <1>3. d \in Files /\ d \notin Messages /\ d \notin Channels /\ d \in Docs
    BY <1>2, SearchAssumption DEF OpFits, Uploads, Docs
  <1>4. text \in [Docs -> 0..MaxVersions] /\ 0 \in 0..MaxVersions
    BY ChatAssumption DEF Inv, RowTypes
  <1>5. Holds(op[p])
    BY <1>1, <1>2 DEF Holds, Updates
  <1>6. /\ text' = [text EXCEPT ![d] = 0] /\ EnqueueUpsert({d}, text')
        /\ gone' = gone \cup {d}
        /\ UNCHANGED <<index, worker, scan, resets, told, member, marked, objects,
                       leaked, crossed>>
    BY DEF Delete, EnqueueFile, index_, channel, history
  <1>7. text'[d] = 0
    BY <1>3, <1>4, <1>6
  <1>8. SearchTypes' /\ job'[d].ver = 0 /\ \A e \in Docs \ {d} : job'[e] = job[e]
    BY <1>3, <1>4, <1>6, <1>7, EnqueueOne DEF Inv
  <1>9. FilesFit'
    BY <1>1, <1>2, <1>3, <1>4, <1>6, FilesDeleted DEF Inv
  <1>10. \A e \in Channels \cup Messages : e # d => job'[e] = job[e]
    BY <1>8 DEF Docs
  <1>11. told' = IF d \in Messages THEN Tells(op[p], 0) ELSE told
    BY <1>3, <1>6
  <1>. HIDE DEF d
  <1>. QED  BY <1>1, <1>3, <1>4, <1>5, <1>6, <1>8, <1>9, <1>10, <1>11, CommitInv DEF d

LEMMA ChangeMemberInv ==
  ASSUME Inv, NEW p \in Procs, NEW kind \in Joins, ChangeMember(p, kind)
  PROVE  Inv'
  <1>1. /\ Turn(p) /\ OpFits(op'[p]) /\ op[p].at = "commit" /\ op[p].kind \in {kind}
        /\ After(op[p], op'[p]) /\ unsure \subseteq unsure'
    BY CommittedTurn DEF Inv, ChangeMember
  <1>2. op[p].kind \in Joins /\ op[p].kind \notin Uploads /\ op[p].doc \in Users
    BY <1>1 DEF Inv, RequestsFit, OpFits, Joins, Uploads
  <1>3. UNCHANGED <<text, gone, told, marked, job, index, worker, scan, resets, objects,
                    leaked, crossed>>
    BY DEF ChangeMember, rows, history
  <1>4. member' \subseteq Users
    BY <1>2 DEF ChangeMember, Inv, RowTypes
  <1>5. op'[p].at \in {"idle", "answer", "drop"}
        /\ (op'[p].kind \in Makes => op[p].kind = op'[p].kind /\ op[p].doc = op'[p].doc)
    BY <1>1 DEF After, Idle, GoesOn, Makes, Creates
  <1>6. NewRow(op[p])' /\ HeldRow(op[p])' /\ ~Holds(op'[p])
    BY <1>5 DEF NewRow, Making, HeldRow, Holds
  <1>7. RowsFit'
    BY <1>1, <1>3, <1>5, <1>6, RowsTurn DEF Inv
  <1>8. FilesFit'
    BY <1>1, <1>2, <1>3, CommitFiles
  <1>. QED  BY <1>1, <1>3, <1>4, <1>5, <1>7, <1>8, QuietInv

(* A guest's change: its job and its event are still to come.              *)
LEMMA GuestChangeInv ==
  ASSUME Inv, NEW p \in Procs, NEW kind \in {"send", "edit", "delete"}, GuestChange(p, kind)
  PROVE  Inv'
  <1>. DEFINE d == op[p].doc
              n == op'[p]
  <1>1. text \in [Docs -> 0..MaxVersions] /\ \A e \in gone : text[e] = 0
    BY DEF Inv, RowTypes
  <1>2. /\ Turn(p) /\ OpFits(n) /\ op[p].at = "change" /\ op[p].kind = kind
        /\ d \in Messages /\ Author[d] = Guest
        /\ \/ n = Idle /\ text' = text /\ gone' = gone /\ crossed' = crossed
           \/ /\ GoesOn(op[p], n, "enqueue") /\ n.ver \in 0..MaxVersions
              /\ n.ver = (IF kind = "delete" THEN 0 ELSE text[d] + 1)
              /\ text' = [text EXCEPT ![d] = n.ver]
              /\ gone' = IF kind = "delete" THEN gone \cup {d} ELSE gone
              /\ kind = "send" \/ Exists(d)
              /\ Cross(p)
    BY <1>1, GuestChangeTurn DEF Inv
  <1>3. UNCHANGED <<told, member, marked, job, index, worker, scan, resets, objects, unsure,
                    leaked>>
    BY DEF GuestChange, rows, channel, store
  <1>4. d \in Docs /\ d \notin Files /\ d \notin Channels
    BY <1>2, SearchAssumption DEF Docs
  <1>5. CASE n = Idle /\ text' = text /\ gone' = gone /\ crossed' = crossed
    <2>1. n.at = "idle"
      BY <1>5 DEF Idle
    <2>2. RowsFit'
      BY <1>2, <1>5, RowsEnd
    <2>3. ObjectOf(op[p])' /\ \A f \in Files : ~Keeps(op[p], f)
      BY <1>2, <2>1 DEF ObjectOf, Keeps
    <2>4. FilesFit'
      BY <1>2, <1>3, <1>5, <2>3, FilesStill DEF Inv
    <2>. QED  BY <1>2, <1>3, <1>5, <2>1, <2>2, <2>4, QuietInv
  <1>6. CASE /\ GoesOn(op[p], n, "enqueue") /\ n.ver \in 0..MaxVersions
             /\ n.ver = (IF kind = "delete" THEN 0 ELSE text[d] + 1)
             /\ text' = [text EXCEPT ![d] = n.ver]
             /\ gone' = IF kind = "delete" THEN gone \cup {d} ELSE gone
             /\ kind = "send" \/ Exists(d)
             /\ Cross(p)
    <2>1. n.kind = op[p].kind /\ n.doc = d /\ n.at = "enqueue"
      BY <1>6 DEF GoesOn
    <2>2. kind = "send" => Making(op[p]) /\ d \notin gone
      <3>1. kind = "send" => Making(op[p])
        BY <1>2 DEF Making, Makes
      <3>. QED  BY <3>1 DEF Inv, RowsFit, NewRow
    <2>3. Exists(d) => d \notin gone
      BY <1>1 DEF Exists
    <2>4. RequestsFit'
      BY <1>2, TurnKeepsFit DEF Inv
    <2>5. RowTypes'
      <3>1. text' \in [Docs -> 0..MaxVersions] /\ \A e \in gone' : text'[e] = 0
        BY <1>1, <1>4, <1>6, <2>2, <2>3
      <3>. QED  BY <1>3, <3>1 DEF Inv, RowTypes
    <2>6. RowsFit'
      <3>1. Alone(p, d)
        BY <1>2, <1>6, <2>2, GuestAlone, MakerOrHolderAlone DEF Inv
      <3>2. NewRow(op[p])' /\ HeldRow(op[p])' /\ ~Holds(n)
        BY <2>1 DEF NewRow, Making, HeldRow, Holds
      <3>3. /\ \A e \in Docs \ {d} : text'[e] = text[e]
            /\ \A e : e # d => (e \in gone' <=> e \in gone)
        BY <1>1, <1>6
      <3>. QED  BY <1>2, <2>1, <3>1, <3>2, <3>3, RowsTurn DEF Inv
    <2>7. JobTellsRow'
      <3>1. \A e \in Channels \cup {m \in Messages : Author[m] # Guest} : text'[e] = text[e]
        BY <1>1, <1>2, <1>4, <1>6 DEF Docs
      <3>. QED  BY <1>3, <3>1 DEF Inv, JobTellsRow, Queued
    <2>8. EventsFit'
      <3>1. Subject(op[p]) = d
        <4>1. OpFits(op[p]) /\ op[p].kind \notin Marks
          BY <1>2 DEF Inv, RequestsFit, Marks
        <4>. QED  BY <1>2, <4>1, SubjectIs
      <3>2. PICK s : s = d
        OBVIOUS
      <3>3. Subject(n) = s
        BY <2>1, <3>1, <3>2, SameSubject
      <3>4. Says(s)' = n.ver
        BY <1>1, <1>2, <1>4, <1>6, <3>2 DEF Says
      <3>5. \A x \in (Messages \cup MarksOf) \ {s} : Says(x)' = Says(x)
        BY <1>1, <1>3, <1>6, <3>2 DEF Says, Docs
      <3>. QED  BY <1>2, <1>3, <1>6, <2>1, <3>1, <3>2, <3>3, <3>4, <3>5, EventsChanged DEF Inv
    <2>9. FilesFit'
      <3>1. ObjectOf(op[p])' /\ \A f \in Files : ~Keeps(op[p], f)
        BY <1>2, <2>1 DEF ObjectOf, Keeps
      <3>2. \A f \in Files : text'[f] = text[f]
        BY <1>1, <1>4, <1>6 DEF Docs
      <3>3. gone \subseteq gone'
        BY <1>6
      <3>. QED  BY <1>2, <1>3, <3>1, <3>2, <3>3, FilesStill DEF Inv
    <2>10. SearchTypes'
      BY <1>3, SearchUnchanged DEF Inv
    <2>11. MarksFit'
      <3>1. ASSUME NEW m \in Messages, Known(m) PROVE Known(m)'
        <4>1. m \in Docs
          BY DEF Docs
        <4>2. CASE m = d
          <5>1. kind = "delete" => d \in gone'
            BY <1>6
          <5>2. kind # "delete" => text'[d] # 0
            BY <1>1, <1>4, <1>6
          <5>. QED  BY <4>2, <5>1, <5>2 DEF Known, Exists
        <4>3. CASE m # d
          BY <1>1, <1>6, <3>1, <4>1, <4>3 DEF Known, Exists
        <4>. QED  BY <4>2, <4>3
      <3>2. ~ToMark(n) /\ crossed \subseteq crossed'
        BY <1>6, <2>1 DEF ToMark, Cross
      <3>3. Carries(n) \subseteq Carries(op[p]) /\ n.pin = op[p].pin
        BY <1>2, <1>6, CarriesOn
      <3>. QED  BY <1>2, <1>3, <3>1, <3>2, <3>3, MarksTurn DEF Inv
    <2>. QED  BY <2>4, <2>5, <2>6, <2>7, <2>8, <2>9, <2>10, <2>11 DEF Inv
  <1>. QED  BY <1>2, <1>5, <1>6

LEMMA GuestEnqueueInv ==
  ASSUME Inv, NEW p \in Procs, GuestEnqueue(p)
  PROVE  Inv'
  <1>. DEFINE d == op[p].doc
              n == op'[p]
  <1>1. /\ Turn(p) /\ OpFits(n) /\ op[p].at = "enqueue" /\ n.ver = op[p].ver
        /\ GoesOn(op[p], n, "publish")
        /\ n.kind = op[p].kind /\ n.doc = d /\ n.at = "publish"
        /\ d \in Messages /\ Author[d] = Guest /\ op[p].kind \notin Marks
    BY GuestEnqueueTurn DEF Inv, GoesOn
  <1>2. UNCHANGED <<text, gone, told, member, marked, index, worker, scan, resets, objects,
                    unsure, leaked, crossed>>
    BY DEF GuestEnqueue, index_, channel, store
  <1>3. d \in Docs /\ d \notin Channels
    BY <1>1, SearchAssumption DEF Docs
  <1>4. SearchTypes' /\ \A e \in Docs \ {d} : job'[e] = job[e]
    <2>1. CASE job' = job
      BY <1>2, <2>1, SearchUnchanged DEF Inv
    <2>2. CASE EnqueueUpsert({d}, [x \in {d} |-> op[p].ver])
      <3>. DEFINE ver == [x \in {d} |-> op[p].ver]
      <3>1. op[p].ver \in 0..MaxVersions
        BY OpsRecords DEF Inv, RequestsFit
      <3>2. \A e \in {d} \cap Docs : ver[e] \in 0..MaxVersions
        BY <3>1
      <3>. HIDE DEF ver
      <3>3. /\ SearchTypes'
            /\ \A e \in Docs : IF e \in {d} THEN job'[e].ver = ver[e] ELSE job'[e] = job[e]
        BY <1>2, <2>2, <3>2, EnqueueTypes DEF Inv, ver
      <3>. QED  BY <3>3
    <2>. QED  BY <2>1, <2>2 DEF GuestEnqueue
  <1>5. RequestsFit'
    BY <1>1, TurnKeepsFit DEF Inv
  <1>6. RowTypes'
    BY <1>2 DEF Inv, RowTypes
  <1>7. RowsFit'
    <2>1. NewRow(op[p])' /\ HeldRow(op[p])' /\ ~Holds(n)
      BY <1>1 DEF NewRow, Making, HeldRow, Holds
    <2>. QED  BY <1>1, <1>2, <2>1, RowsTurn DEF Inv
  <1>8. JobTellsRow'
    <2>1. \A e \in Channels \cup {m \in Messages : Author[m] # Guest} : job'[e] = job[e]
      BY <1>1, <1>3, <1>4 DEF Docs
    <2>. QED  BY <1>2, <2>1 DEF Inv, JobTellsRow, Queued
  <1>9. EventsFit'
    <2>1. Subject(n) = Subject(op[p])
      BY <1>1, SameSubject
    <2>. QED  BY <1>1, <1>2, <2>1, EventsOn DEF Inv
  <1>10. FilesFit'
    <2>1. ObjectOf(op[p])' /\ \A f \in Files : ~Keeps(op[p], f)
      BY <1>1 DEF ObjectOf, Keeps
    <2>. QED  BY <1>1, <1>2, <2>1, FilesStill DEF Inv
  <1>11. MarksFit'
    <2>1. \A m \in Messages : Known(m) => Known(m)'
      BY <1>2 DEF Known, Exists
    <2>2. ~ToMark(n)
      BY <1>1 DEF ToMark
    <2>3. Carries(n) \subseteq Carries(op[p]) /\ n.pin = op[p].pin
      BY <1>1, CarriesOn
    <2>. QED  BY <1>1, <1>2, <2>1, <2>2, <2>3, MarksTurn DEF Inv
  <1>. QED  BY <1>4, <1>5, <1>6, <1>7, <1>8, <1>9, <1>10, <1>11 DEF Inv

LEMMA MarkInv ==
  ASSUME Inv, NEW p \in Procs, NEW kind \in Marks, Mark(p, kind)
  PROVE  Inv'
  <1>. DEFINE n == op'[p]
  <1>0. PICK s : s = Subject(op[p])
    OBVIOUS
  <1>1. /\ Turn(p) /\ OpFits(n) /\ op[p].at = "change" /\ op[p].kind = kind
        /\ \/ n = Idle /\ marked' = marked /\ crossed' = crossed
           \/ /\ GoesOn(op[p], n, "publish")
              /\ n.ver = (IF kind \in {"pin", "react"} THEN 1 ELSE 0)
              /\ marked' = IF kind \in {"pin", "react"} THEN marked \cup {s} ELSE marked \ {s}
              /\ Cross(p)
    BY <1>0, MarkTurn DEF Inv
  <1>2. UNCHANGED <<text, gone, told, member, job, index, worker, scan, resets, objects,
                    unsure, leaked>>
    BY DEF Mark, searchVars, rows, store
  <1>3. s \in MarksOf /\ s \notin Messages
    BY <1>0, <1>1, SubjectIs DEF Inv, RequestsFit
  <1>4. CASE n = Idle /\ marked' = marked /\ crossed' = crossed
    <2>1. n.at = "idle"
      BY <1>4 DEF Idle
    <2>2. RowsFit'
      BY <1>1, <1>2, <1>4, RowsEnd
    <2>3. ObjectOf(op[p])' /\ \A f \in Files : ~Keeps(op[p], f)
      BY <1>1, <2>1 DEF ObjectOf, Keeps
    <2>4. FilesFit'
      BY <1>1, <1>2, <1>4, <2>3, FilesStill DEF Inv
    <2>. QED  BY <1>1, <1>2, <1>4, <2>1, <2>2, <2>4, QuietInv
  <1>5. CASE /\ GoesOn(op[p], n, "publish")
             /\ n.ver = (IF kind \in {"pin", "react"} THEN 1 ELSE 0)
             /\ marked' = IF kind \in {"pin", "react"} THEN marked \cup {s} ELSE marked \ {s}
             /\ Cross(p)
    <2>1. n.kind = op[p].kind /\ n.doc = op[p].doc /\ n.at = "publish"
      BY <1>5 DEF GoesOn
    <2>2. RequestsFit'
      BY <1>1, TurnKeepsFit DEF Inv
    <2>3. RowTypes'
      <3>1. marked' \subseteq MarksOf
        BY <1>3, <1>5 DEF Inv, RowTypes
      <3>. QED  BY <1>2, <3>1 DEF Inv, RowTypes
    <2>4. RowsFit'
      <3>1. NewRow(op[p])' /\ HeldRow(op[p])' /\ ~Holds(n)
        BY <2>1 DEF NewRow, Making, HeldRow, Holds
      <3>. QED  BY <1>1, <1>2, <2>1, <3>1, RowsTurn DEF Inv
    <2>5. JobTellsRow'
      BY <1>2 DEF Inv, JobTellsRow, Queued
    <2>6. EventsFit'
      <3>1. Subject(n) = s
        BY <1>0, <2>1, SameSubject
      <3>2. Says(s)' = n.ver
        BY <1>3, <1>5 DEF Says
      <3>3. \A x \in (Messages \cup MarksOf) \ {s} : Says(x)' = Says(x)
        BY <1>2, <1>5 DEF Says
      <3>4. s \in Messages => Author[s] = Guest
        BY <1>3
      <3>. QED  BY <1>0, <1>1, <1>2, <1>5, <2>1, <3>1, <3>2, <3>3, <3>4, EventsChanged DEF Inv
    <2>7. FilesFit'
      <3>1. ObjectOf(op[p])' /\ \A f \in Files : ~Keeps(op[p], f)
        BY <1>1, <2>1 DEF ObjectOf, Keeps
      <3>. QED  BY <1>1, <1>2, <3>1, FilesStill DEF Inv
    <2>8. SearchTypes'
      BY <1>2, SearchUnchanged DEF Inv
    <2>9. MarksFit'
      <3>1. /\ \A m \in Messages : Pin(m) \in marked \/ React(m) \in marked => Known(m)
            /\ \A q \in Procs :
                /\ ToMark(op[q]) => Known(op[q].doc)
                /\ \A x \in Carries(op[q]) \ crossed : op[q].pin = Says(x)
        BY DEF Inv, MarksFit
      <3>2. \A m : Known(m)' <=> Known(m)
        BY <1>2 DEF Known, Exists
      <3>3. ToMark(op[p]) /\ Known(op[p].doc)
        BY <1>1, <3>1 DEF ToMark
      <3>4. \A m \in Messages : Pin(m) \in marked' \/ React(m) \in marked' => Known(m)
        <4>1. s = Pin(op[p].doc) \/ s = React(op[p].doc)
          BY <1>0, <1>1 DEF Subject, Marks
        <4>2. \A m \in Messages : Pin(m) = s \/ React(m) = s => m = op[p].doc
          BY <4>1 DEF Pin, React
        <4>3. marked' \subseteq marked \cup {s}
          BY <1>5
        <4>. QED  BY <3>1, <3>3, <4>2, <4>3
      <3>5. ~ToMark(n) /\ Carries(n) = {}
        BY <1>1, <2>1, CarriesMarks DEF ToMark, Marks, Sent
      <3>6. ASSUME NEW q \in Procs, ToMark(op'[q]) PROVE Known(op[q].doc)'
        <4>1. q # p /\ op'[q] = op[q]
          BY <1>1, <3>5, <3>6 DEF Turn
        <4>. QED  BY <1>2, <3>1, <3>6, <4>1 DEF Known, Exists
      <3>7. ASSUME NEW q \in Procs, NEW x \in Carries(op'[q]) \ crossed'
            PROVE  op'[q].pin = Says(x)'
        <4>1. q # p /\ op'[q] = op[q] /\ x \notin crossed
          BY <1>1, <1>5, <3>5, <3>7 DEF Turn, Cross
        <4>2. x # s
          BY <1>0, <1>5, <3>7, <4>1 DEF Cross, Overlaps
        <4>3. Says(x)' = Says(x)
          BY <1>2, <1>5, <4>2 DEF Says
        <4>. QED  BY <3>1, <3>7, <4>1, <4>3
      <3>8. \A q \in Procs : ToMark(op[q])' => Known(op[q].doc)'
        BY <3>6 DEF ToMark
      <3>9. \A q \in Procs : \A x \in Carries(op[q])' \ crossed' : op'[q].pin = Says(x)'
        BY <3>7 DEF Carries
      <3>. QED  BY <3>2, <3>4, <3>8, <3>9 DEF MarksFit
    <2>. QED  BY <2>2, <2>3, <2>4, <2>5, <2>6, <2>7, <2>8, <2>9 DEF Inv
  <1>. QED  BY <1>1, <1>4, <1>5

(* The request ends with its event, told or lost.                          *)
LEMMA TellingEnds ==
  ASSUME Inv, NEW p \in Procs, op[p].at \in {"enqueue", "publish"}, op'[p] = Idle, Turn(p),
         UNCHANGED <<text, gone, member, marked, job, index, worker, scan, resets, unsure>>,
         \/ told' = Tells(op[p], op[p].ver) /\ crossed' = crossed
         \/ told' = told /\ crossed' = crossed \cup {Subject(op[p])},
         FilesFit'
  PROVE  Inv'
  <1>1. PICK s : s = Subject(op[p])
    OBVIOUS
  <1>2. OpFits(op[p]) /\ op[p].ver \in 0..MaxVersions
    BY OpsRecords DEF Inv, RequestsFit
  <1>3. /\ s \in Messages => Author[s] = Guest
        /\ s \in Messages \cup MarksOf
    BY <1>1, <1>2, SubjectIs
  <1>4. RequestsFit'
    BY IdleFits, TurnKeepsFit DEF Inv
  <1>5. told \in [Messages \cup MarksOf -> 0..MaxVersions]
    BY DEF Inv, RowTypes
  <1>6. /\ told' \in [Messages \cup MarksOf -> 0..MaxVersions]
        /\ \/ told'[s] = op[p].ver /\ crossed' = crossed
           \/ crossed' = crossed \cup {s}
        /\ \A x \in (Messages \cup MarksOf) \ crossed' :
                x # s => told'[x] \in {told[x], Says(x)}
    BY <1>1, <1>2, <1>3, <1>5, TellsFit
  <1>7. RowTypes'
    BY <1>6 DEF Inv, RowTypes
  <1>8. RowsFit'
    BY RowsEnd
  <1>9. JobTellsRow'
    BY DEF Inv, JobTellsRow, Queued
  <1>10. EventsFit'
    BY <1>1, <1>3, <1>5, <1>6, EventsTold DEF Inv
  <1>11. SearchTypes'
    BY SearchUnchanged DEF Inv
  <1>12. MarksFit'
    <2>1. \A m \in Messages : Known(m) => Known(m)'
      BY DEF Known, Exists
    <2>. QED  BY <1>6, <2>1, IdleCarries, IdleFits, MarksTurn DEF Inv
  <1>. QED  BY <1>4, <1>7, <1>8, <1>9, <1>10, <1>11, <1>12 DEF Inv

LEMMA PublishInv ==
  ASSUME Inv, NEW p \in Procs, Publish(p)
  PROVE  Inv'
  <1>1. op[p].at = "publish" /\ op' = [op EXCEPT ![p] = Idle]
    BY DEF Publish
  <1>2. Turn(p) /\ op'[p] = Idle
    BY <1>1, EndTurn DEF Inv
  <1>3. UNCHANGED <<text, gone, member, marked, job, index, worker, scan, resets, objects,
                    unsure, leaked, crossed>>
    BY DEF Publish, searchVars, rows, channel, store, history
  <1>4. told' = Tells(op[p], op[p].ver)
    BY DEF Publish
  <1>5. ObjectOf(op[p])' /\ \A f \in Files : ~Keeps(op[p], f)
    BY <1>1, <1>2 DEF ObjectOf, Keeps, Idle
  <1>6. FilesFit'
    BY <1>2, <1>3, <1>5, FilesStill DEF Inv
  <1>. QED  BY <1>1, <1>2, <1>3, <1>4, <1>6, TellingEnds

LEMMA AbandonInv ==
  ASSUME Inv, NEW p \in Procs, Abandon(p)
  PROVE  Inv'
  <1>1. op' = [op EXCEPT ![p] = Idle]
    BY DEF Abandon
  <1>2. Turn(p) /\ op'[p] = Idle /\ OpFits(op'[p])
    BY <1>1, EndTurn DEF Inv
  <1>3. op'[p].at = "idle"
    BY <1>2 DEF Idle
  <1>4. UNCHANGED <<text, gone, told, member, marked, job, index, worker, scan, resets,
                    unsure>>
    BY DEF Abandon, rows, channel
  <1>5. /\ objects' = objects \/ (op[p].at = "put" /\ objects' = objects \cup {op[p].doc})
        /\ leaked' = IF op[p].kind \in Uploads THEN leaked \cup {op[p].doc} ELSE leaked
        /\ crossed' = IF op[p].at \in {"enqueue", "publish"}
                      THEN crossed \cup {Subject(op[p])} ELSE crossed
    BY DEF Abandon
  <1>6. FilesFit'
    <2>1. op[p].at = "put" => op[p].kind \in Uploads
      BY DEF Inv, RequestsFit, OpFits, Uploads
    <2>2. ObjectOf(op[p])' /\ \A f \in Files : Keeps(op[p], f) => f \in leaked'
      BY <1>3, <1>5 DEF ObjectOf, Keeps, Uploads
    <2>3. /\ objects \subseteq objects' /\ leaked \subseteq leaked'
          /\ \A f \in objects' \ objects : f \in leaked'
      BY <1>5, <2>1
    <2>. QED  BY <1>2, <1>4, <2>2, <2>3, FilesStill DEF Inv
  <1>7. CASE op[p].at \in {"enqueue", "publish"}
    BY <1>2, <1>4, <1>5, <1>6, <1>7, TellingEnds
  <1>8. CASE op[p].at \notin {"enqueue", "publish"}
    <2>1. RowsFit'
      BY <1>2, <1>4, RowsEnd
    <2>. QED  BY <1>2, <1>3, <1>4, <1>5, <1>6, <1>8, <2>1, QuietInv
  <1>. QED  BY <1>7, <1>8

-----------------------------------------------------------------------------
(* The invariant, and what it says.                                        *)

LEMMA InvInit == Init => Inv
  <1>. SUFFICES ASSUME Init PROVE Inv
    OBVIOUS
  <1>1. MaxVersions \in Nat \ {0} /\ MaxResets \in Nat
    BY ChatAssumption, SearchAssumption
  <1>2. /\ text = [d \in Docs |-> 0] /\ job = [d \in Docs |-> NoJob]
        /\ index = [d \in Docs |-> 0] /\ worker = [w \in Workers |-> Free]
        /\ scan = NoScan /\ resets = 0 /\ op = [p \in Procs |-> Idle] /\ gone = {}
        /\ told = [x \in Messages \cup MarksOf |-> 0] /\ member = Users /\ marked = {}
        /\ objects = {} /\ unsure = {} /\ leaked = {} /\ crossed = {}
    BY DEF Init, SearchInit
  <1>3. SearchTypes
    <2>1. JobFits(NoJob)
      BY NoJobIsJob DEF JobFits, NoJob
    <2>2. NoScan \in Scans /\ NoScan.at = "idle" /\ NoScan.todo = {}
      BY DEF NoScan, Scans
    <2>3. Free \in Batches /\ Free.at = "idle" /\ Free.jobs = {}
      BY DEF Free, Batches
    <2>. QED  BY <1>1, <1>2, <2>1, <2>2, <2>3, NoJobIsJob DEF SearchTypes
  <1>4. RowTypes
    BY <1>1, <1>2 DEF RowTypes
  <1>5. RequestsFit
    BY <1>2, IdleFits DEF RequestsFit
  <1>6. \A p \in Procs : op[p].kind = "none" /\ op[p].at = "idle"
    BY <1>2 DEF Idle
  <1>7. RowsFit
    BY <1>6 DEF RowsFit, OwnRow, OneHolder, NewRow, HeldRow, Making, Holds, Makes, Creates
  <1>8. JobTellsRow
    BY <1>2, NoJobIsJob DEF JobTellsRow, Queued, Docs
  <1>9. EventsFit
    <2>1. \A x \in Messages \cup MarksOf : Says(x) = 0 /\ told[x] = 0
      BY <1>2 DEF Says, Docs
    <2>. QED  BY <1>2, <1>6, <2>1 DEF EventsFit, EventFits, Telling
  <1>11. MarksFit
    <2>1. \A p \in Procs : Carries(op[p]) = {} /\ ~ToMark(op[p])
      BY <1>2, IdleCarries
    <2>. QED  BY <1>2, <2>1 DEF MarksFit
  <1>10. FilesFit
    BY <1>2, <1>6 DEF FilesFit, ObjectOf, Exists, Docs
  <1>. QED  BY <1>3, <1>4, <1>5, <1>7, <1>8, <1>9, <1>10, <1>11 DEF Inv

LEMMA RequestInv ==
  ASSUME Inv, NEW p \in Procs,
         \/ Requested(p) \/ Check(p) \/ Write(p)
         \/ SendMessage(p) \/ EditMessage(p) \/ DeleteMessage(p)
         \/ CreateChannel(p) \/ UpdateChannel(p) \/ GetOrCreateDM(p)
         \/ Upload(p) \/ Delete(p) \/ JoinChannel(p) \/ LeaveChannel(p)
         \/ Rollback(p) \/ Answer(p) \/ Put(p) \/ Drop(p)
  PROVE  Inv'
  <1>1. CASE Requested(p) \/ Check(p) \/ Write(p) \/ Rollback(p) \/ Answer(p) \/ Put(p)
             \/ Drop(p)
    BY <1>1, RequestedInv, CheckInv, WriteInv, RollbackInv, AnswerInv, PutInv, DropInv
  <1>2. CASE SendMessage(p) \/ EditMessage(p)
    BY <1>2, EnqueueMessageInv DEF SendMessage, EditMessage
  <1>3. CASE DeleteMessage(p) \/ Upload(p) \/ Delete(p)
    BY <1>3, DeleteMessageInv, UploadInv, DiscardInv
  <1>4. CASE CreateChannel(p) \/ UpdateChannel(p) \/ GetOrCreateDM(p)
    BY <1>4, EnqueueChannelInv DEF CreateChannel, UpdateChannel, GetOrCreateDM, Creates
  <1>5. CASE JoinChannel(p) \/ LeaveChannel(p)
    BY <1>5, ChangeMemberInv DEF JoinChannel, LeaveChannel, Joins
  <1>. QED  BY <1>1, <1>2, <1>3, <1>4, <1>5

LEMMA UntransactedInv ==
  ASSUME Inv, NEW p \in Procs,
         \/ SendMeetingGuestMessage(p) \/ EditMeetingGuestMessage(p)
         \/ DeleteMeetingGuestMessage(p) \/ GuestEnqueue(p)
         \/ AddReaction(p) \/ RemoveReaction(p) \/ PinMessage(p) \/ UnpinMessage(p)
         \/ Publish(p) \/ Abandon(p)
  PROVE  Inv'
  <1>1. CASE \/ SendMeetingGuestMessage(p) \/ EditMeetingGuestMessage(p)
             \/ DeleteMeetingGuestMessage(p)
    BY <1>1, GuestChangeInv DEF SendMeetingGuestMessage, EditMeetingGuestMessage,
                                DeleteMeetingGuestMessage
  <1>2. CASE AddReaction(p) \/ RemoveReaction(p) \/ PinMessage(p) \/ UnpinMessage(p)
    BY <1>2, MarkInv DEF AddReaction, RemoveReaction, PinMessage, UnpinMessage, Marks
  <1>3. CASE GuestEnqueue(p) \/ Publish(p) \/ Abandon(p)
    BY <1>3, GuestEnqueueInv, PublishInv, AbandonInv
  <1>. QED  BY <1>1, <1>2, <1>3

LEMMA StutterInv ==
  ASSUME Inv, UNCHANGED vars
  PROVE  Inv'
  <1>1. UNCHANGED <<text, job, index, worker, scan, resets, op, gone, told, member, marked,
                    objects, unsure, leaked, crossed>>
    BY DEF vars, searchVars, chatVars, rows, channel, store, history
  <1>2. RequestsFit' /\ RowTypes' /\ SearchTypes'
    BY <1>1, SearchUnchanged DEF Inv, RequestsFit, OpFits, ByGuest, RowTypes
  <1>3. RowsFit' /\ JobTellsRow'
    BY <1>1 DEF Inv, RowsFit, OwnRow, OneHolder, NewRow, HeldRow, Making, Holds, Exists,
                JobTellsRow, Queued
  <1>4. EventsFit'
    <2>1. \A x : Says(x)' = Says(x)
      BY <1>1 DEF Says
    <2>2. \A x : EventFits(x) => EventFits(x)'
      BY <1>1, <2>1 DEF EventFits, Telling
    <2>. QED  BY <1>1, <2>2 DEF Inv, EventsFit
  <1>5. FilesFit'
    BY <1>1 DEF Inv, FilesFit, ObjectOf, Keeps, Exists
  <1>6. MarksFit'
    BY <1>1, MarksStill DEF Inv
  <1>. QED  BY <1>2, <1>3, <1>4, <1>5, <1>6 DEF Inv

LEMMA InvStep == Inv /\ [Next]_vars => Inv'
  <1>. SUFFICES ASSUME Inv, [Next]_vars PROVE Inv'
    OBVIOUS
  <1>1. CASE UNCHANGED vars
    BY <1>1, StutterInv
  <1>2. CASE Next
    <2>1. \/ \E p \in Procs :
                \/ Requested(p) \/ Check(p) \/ Write(p)
                \/ SendMessage(p) \/ EditMessage(p) \/ DeleteMessage(p)
                \/ CreateChannel(p) \/ UpdateChannel(p) \/ GetOrCreateDM(p)
                \/ Upload(p) \/ Delete(p) \/ JoinChannel(p) \/ LeaveChannel(p)
                \/ Rollback(p) \/ Answer(p) \/ Put(p) \/ Drop(p)
          \/ \E p \in Procs :
                \/ SendMeetingGuestMessage(p) \/ EditMeetingGuestMessage(p)
                \/ DeleteMeetingGuestMessage(p) \/ GuestEnqueue(p)
                \/ AddReaction(p) \/ RemoveReaction(p) \/ PinMessage(p) \/ UnpinMessage(p)
                \/ Publish(p) \/ Abandon(p)
          \/ SearchStep /\ UNCHANGED chatVars
      BY <1>2 DEF Next, SearchStep
    <2>. QED  BY <2>1, RequestInv, UntransactedInv, SearchInv
  <1>. QED  BY <1>1, <1>2

LEMMA Invariance == Spec => []Inv
  <1>1. Init => Inv
    BY InvInit
  <1>2. Inv /\ [Next]_vars => Inv'
    BY InvStep
  <1>. QED  BY <1>1, <1>2, PTL DEF Spec

(* Rows, jobs, index, batches, the reindex and the requests hold what the  *)
(* code puts in them, whatever interleaves; a deleted row stays away.      *)
THEOREM TypeCorrect == Spec => []TypeOK
  <1>1. Inv => TypeOK
    BY DEF Inv, SearchTypes, RowTypes, RequestsFit, TypeOK
  <1>. QED  BY <1>1, Invariance, PTL

(* A member's message and a channel are committed with their job           *)
(* (service.go:664, 882, 950), and what a worker or a reindex writes to    *)
(* the queue leaves what the job says as it is (postgres/search.go:513):   *)
(* for any number of requests, servers and faults a queued job holds the   *)
(* version of the row.                                                     *)
THEOREM JobTellsRowAlways == Spec => []JobTellsRow
  <1>1. Inv => JobTellsRow
    BY DEF Inv
  <1>. QED  BY <1>1, Invariance, PTL

(* A member's event commits with its row (service.go:1458); a guest's, a   *)
(* pin's and a reaction's follows it (service.go:1476), and is right once  *)
(* it was published, unless another request was between a change and its   *)
(* event for the same message or mark, or one broke off there.  The event  *)
(* of an edit shows the pin too: rightly, unless it changed after the read.*)
THEOREM EventsTellRowsAlways == Spec => []EventsTellRows
  <1>1. Inv => EventsTellRows
    <2>. SUFFICES ASSUME Inv PROVE EventsTellRows
      OBVIOUS
    <2>1. ASSUME NEW m \in Messages
          PROVE  \/ told[m] = text[m]
                 \/ Author[m] = Guest /\ m \in crossed
                 \/ /\ Author[m] = Guest
                    /\ \E p \in Procs : /\ op[p].at \in {"enqueue", "publish"}
                                        /\ Subject(op[p]) = m
      <3>1. CASE m \in crossed
        BY <3>1 DEF Inv, EventsFit
      <3>2. CASE m \notin crossed
        <4>1. EventFits(m) /\ Says(m) = text[m]
          BY <3>2 DEF Inv, EventsFit, Says
        <4>2. Author[m] # Guest => \A p \in Procs : ~Telling(op[p], m)
          BY MembersAreNotTold DEF Inv
        <4>. QED  BY <4>1, <4>2 DEF EventFits, Telling
      <3>. QED  BY <3>1, <3>2
    <2>2. ASSUME NEW x \in MarksOf \ crossed
          PROVE  \/ told[x] = 1 <=> x \in marked
                 \/ \E p \in Procs : op[p].at = "publish" /\ Subject(op[p]) = x
      <3>1. EventFits(x) /\ x \notin Messages
        BY ChatAssumption DEF Inv, EventsFit
      <3>2. Says(x) = IF x \in marked THEN 1 ELSE 0
        BY <3>1 DEF Says
      <3>3. ASSUME NEW p \in Procs, Telling(op[p], x)
            PROVE  op[p].at = "publish" /\ Subject(op[p]) = x
        <4>1. OpFits(op[p])
          BY DEF Inv, RequestsFit
        <4>2. op[p].kind \in Marks
          BY <3>1, <3>3, <4>1, SubjectIs DEF Telling
        <4>3. ~ByGuest(op[p])
          BY <4>2 DEF ByGuest, Marks, Sent
        <4>. QED  BY <3>3, <4>1, <4>3 DEF OpFits, Telling
      <3>. QED  BY <3>1, <3>2, <3>3 DEF EventFits
    <2>. QED  BY <2>1, <2>2 DEF EventsTellRows
  <1>. QED  BY <1>1, Invariance, PTL

(* The object of a file is stored before its row and deleted after it      *)
(* (file/service.go:255, 417): a row has its object, and an object without *)
(* a row has a request that is about to delete it, unless a commit was     *)
(* answered with an error or a deletion failed.                            *)
THEOREM FilesAgreeAlways == Spec => []FilesAgree
  <1>1. Inv => FilesAgree
    BY DEF Inv, FilesFit, FilesAgree, Keeps
  <1>. QED  BY <1>1, Invariance, PTL

-----------------------------------------------------------------------------
(* Paging through a history (module Timeline).  TimelineInv says what the  *)
(* cursor stands for: of the messages that were there when the reader      *)
(* began, those at or after it have been given or deleted.  A page that is *)
(* not the last keeps this because what Newest selects is closed upwards;  *)
(* a page that says it is the last has everything because a selection that *)
(* is not full has left nothing out.                                       *)

Reader == [at : {"away", "reading", "end"}, limit : 1..MaxLimit,
           cursor : MessageIds \cup {NoCursor}, had : SUBSET MessageIds, given : SUBSET MessageIds]

TimelineTypeOK ==
    /\ kept \subseteq MessageIds /\ deleted \subseteq MessageIds
    /\ readers \in [Readers -> Reader]

\* A message that was there is there or deleted, and does not come again.
HadIsKnown == \A r \in Readers : readers[r].had \subseteq kept \cup deleted

GivenDownTo(r) ==
    readers[r].at = "reading" /\ readers[r].cursor # NoCursor =>
        \A x \in readers[r].had \cap kept :
            x >= readers[r].cursor => x \in readers[r].given

TimelineInv ==
    /\ TimelineTypeOK /\ HadIsKnown
    /\ \A r \in Readers : GivenDownTo(r)
    /\ PagesCoverHistory

-----------------------------------------------------------------------------
(* What the queries select.                                                *)

(* A set of natural numbers has a least one.                               *)
LEMMA LeastNatural ==
  ASSUME NEW T, T \subseteq Nat, T # {}
  PROVE  \E x \in T : \A y \in T : x <= y
PROOF
  <1>. DEFINE R == OpToRel(<, Nat)
  <1>1. IsWellFoundedOn(R, Nat)
    BY NatLessThanWellFounded
  <1>2. \A x, y \in Nat : <<y, x>> \in R <=> y < x
    BY DEF OpToRel
  <1>. HIDE DEF R
  <1>3. PICK x \in T : \A y \in T : ~(<<y, x>> \in R)
    BY <1>1, WFMin
  <1>4. ASSUME NEW y \in T PROVE x <= y
    <2>1. x \in Nat /\ y \in Nat /\ ~(<<y, x>> \in R)
      BY <1>3
    <2>. QED
      BY <1>2, <2>1
  <1>. QED
    BY <1>4

Above(S, x) == {y \in S : y > x}

LEMMA AboveIsSmaller ==
  ASSUME NEW S, S \subseteq Nat, IsFiniteSet(S), NEW x \in S, NEW y \in S, y > x
  PROVE  /\ Cardinality(Above(S, x)) \in Nat /\ Cardinality(Above(S, y)) \in Nat
         /\ Cardinality(Above(S, y)) < Cardinality(Above(S, x))
PROOF
  <1>. x \in Nat /\ y \in Nat
    OBVIOUS
  <1>. \A z \in S : z \in Nat /\ (z > y => z > x)
    OBVIOUS
  <1>1. Above(S, x) \in SUBSET S /\ Above(S, y) \in SUBSET Above(S, x)
    BY DEF Above
  <1>2. IsFiniteSet(Above(S, x)) /\ IsFiniteSet(Above(S, y))
    BY <1>1, FS_Subset
  <1>3. y \in Above(S, x) /\ y \notin Above(S, y)
    BY DEF Above
  <1>. QED
    BY <1>1, <1>2, <1>3, FS_Subset, FS_CardinalityType

LEMMA NewestIsUpward ==
  ASSUME NEW S, S \subseteq Nat, IsFiniteSet(S), NEW n \in Nat,
         NEW x \in Newest(S, n), NEW y \in S, y >= x
  PROVE  y \in Newest(S, n)
PROOF
  <1>1. x \in S /\ Cardinality(Above(S, x)) < n
    BY DEF Newest, Above
  <1>2. CASE y = x
    BY <1>2
  <1>3. CASE y > x
    <2>1. /\ Cardinality(Above(S, x)) \in Nat /\ Cardinality(Above(S, y)) \in Nat
          /\ Cardinality(Above(S, y)) < Cardinality(Above(S, x))
      BY <1>1, <1>3, AboveIsSmaller
    <2>2. Cardinality(Above(S, y)) < n
      BY <1>1, <2>1
    <2>. QED
      BY <2>2 DEF Newest, Above
  <1>4. x \in Nat /\ y \in Nat
    BY <1>1
  <1>. QED
    BY <1>1, <1>2, <1>3, <1>4

(* LIMIT n with fewer than n rows has returned them all.                   *)
LEMMA ShortSelectionIsAll ==
  ASSUME NEW S, S \subseteq Nat, IsFiniteSet(S), NEW n \in Nat,
         Cardinality(Newest(S, n)) < n
  PROVE  Newest(S, n) = S
PROOF
  <1>. SUFFICES ASSUME Newest(S, n) # S PROVE FALSE
    OBVIOUS
  <1>. DEFINE T == S \ Newest(S, n)
              C == {Cardinality(Above(S, x)) : x \in T}
  <1>1. Newest(S, n) \in SUBSET S /\ T # {} /\ T \subseteq S
    BY DEF Newest
  <1>2. \A x \in S : IsFiniteSet(Above(S, x)) /\ Cardinality(Above(S, x)) \in Nat
    BY FS_Subset, FS_CardinalityType DEF Above
  <1>3. C \subseteq Nat /\ C # {}
    BY <1>1, <1>2
  <1>4. PICK k \in C : \A j \in C : k <= j
    BY <1>3, LeastNatural
  <1>5. PICK x \in T : k = Cardinality(Above(S, x))
    OBVIOUS
  <1>6. ASSUME NEW y \in Above(S, x) PROVE y \in Newest(S, n)
    <2>. SUFFICES ASSUME y \in T PROVE FALSE
      BY DEF Above
    <2>1. x \in S /\ y \in S /\ y > x
      BY DEF Above
    <2>2. Cardinality(Above(S, y)) < k /\ Cardinality(Above(S, y)) \in Nat /\ k \in Nat
      BY <1>5, <2>1, AboveIsSmaller
    <2>3. k <= Cardinality(Above(S, y))
      BY <1>4
    <2>. QED
      BY <2>2, <2>3
  <1>7. Above(S, x) \in SUBSET Newest(S, n) /\ IsFiniteSet(Newest(S, n))
    BY <1>1, <1>6, FS_Subset
  <1>8. Cardinality(Above(S, x)) <= Cardinality(Newest(S, n))
    BY <1>7, FS_Subset
  <1>9. ~(Cardinality(Above(S, x)) < n)
    BY DEF Newest, Above
  <1>10. Cardinality(Newest(S, n)) \in Nat
    BY <1>7, FS_CardinalityType
  <1>. QED
    BY <1>1, <1>2, <1>8, <1>9, <1>10

(* LIMIT n of at most n rows leaves none out.                              *)
LEMMA SmallSetIsSelected ==
  ASSUME NEW S, S \subseteq Nat, IsFiniteSet(S), NEW n \in Nat, Cardinality(S) <= n
  PROVE  Newest(S, n) = S
PROOF
  <1>1. ASSUME NEW x \in S PROVE Cardinality(Above(S, x)) < n
    <2>1. Above(S, x) \in SUBSET S /\ x \notin Above(S, x)
      BY DEF Above
    <2>2. /\ Cardinality(S) \in Nat /\ Cardinality(Above(S, x)) \in Nat
          /\ Cardinality(Above(S, x)) < Cardinality(S)
      BY <2>1, FS_Subset, FS_CardinalityType
    <2>. QED
      BY <2>2
  <1>. QED
    BY <1>1 DEF Newest, Above

-----------------------------------------------------------------------------
(* A page.                                                                 *)

LEMMA PageOf ==
  ASSUME TimelineInv, NEW r \in Readers
  PROVE  LET limit == readers[r].limit
             items == Newest(Fetched(r), limit)
         IN  /\ IsFiniteSet(Fetched(r)) /\ Fetched(r) \subseteq Before(readers[r].cursor)
             /\ Fetched(r) \subseteq Nat /\ items \subseteq kept
             /\ \A o \in items, x \in Before(readers[r].cursor) : x >= o => x \in items
             /\ Cardinality(Fetched(r)) > limit => items # {}
             /\ Cardinality(Fetched(r)) <= limit /\ limit < MaxLimit =>
                   items = Before(readers[r].cursor)
PROOF
  <1>. USE TimelineAssumption
  <1>. DEFINE limit == readers[r].limit
              B == Before(readers[r].cursor)
              n == Normalize(FetchLimit(limit))
              N == Newest(B, n + 1)
              F == Newest(N, n)
              items == Newest(F, limit)
  <1>1. /\ limit \in 1..MaxLimit /\ limit \in Nat /\ n \in Nat \ {0} /\ n + 1 \in Nat
        /\ limit < MaxLimit => n = limit + 1
    BY DEF TimelineInv, TimelineTypeOK, Reader, Normalize, FetchLimit
  <1>2. B \in SUBSET kept /\ kept \in SUBSET MessageIds
    BY DEF Before, TimelineInv, TimelineTypeOK
  <1>3. Fetched(r) = F
    BY DEF Fetched, ListByChannel
  <1>. HIDE DEF B, n, limit
  <1>4. N \in SUBSET B /\ F \in SUBSET N /\ items \in SUBSET F
    BY DEF Newest
  <1>5. /\ IsFiniteSet(B) /\ IsFiniteSet(N) /\ IsFiniteSet(F)
        /\ B \subseteq Nat /\ N \subseteq Nat /\ F \subseteq Nat
    BY <1>2, <1>4, FS_Subset
  <1>6. ASSUME NEW o \in items, NEW x \in B, x >= o PROVE x \in items
    <2>1. o \in F /\ o \in N
      BY <1>4
    <2>2. x \in N
      <3>. HIDE DEF F, items
      <3>. QED
        BY <1>1, <1>5, <1>6, <2>1, NewestIsUpward
    <2>3. x \in F
      BY <1>1, <1>5, <1>6, <2>1, <2>2, NewestIsUpward
    <2>. QED
      BY <1>1, <1>5, <1>6, <2>3, NewestIsUpward
  <1>7. ASSUME Cardinality(F) > limit PROVE items # {}
    <2>. SUFFICES ASSUME items = {} PROVE FALSE
      OBVIOUS
    <2>1. Cardinality(items) = 0
      BY FS_EmptySet
    <2>2. items = F
      BY <1>1, <1>5, <2>1, ShortSelectionIsAll
    <2>. QED
      BY <1>1, <1>7, <2>1, <2>2
  <1>8. ASSUME Cardinality(F) <= limit, limit < MaxLimit PROVE items = B
    <2>1. Cardinality(F) \in Nat /\ n = limit + 1
      BY <1>1, <1>5, <1>8, FS_CardinalityType
    <2>2. F = N
      BY <1>1, <1>5, <1>8, <2>1, ShortSelectionIsAll
    <2>3. N = B
      <3>1. Cardinality(N) < n + 1
        BY <1>1, <1>8, <2>1, <2>2
      <3>. QED
        BY <1>1, <1>5, <3>1, ShortSelectionIsAll
    <2>4. items = F
      BY <1>1, <1>5, <1>8, SmallSetIsSelected
    <2>. QED
      BY <2>2, <2>3, <2>4
  <1>. HIDE DEF N, F, items
  <1>9. /\ IsFiniteSet(F) /\ F \subseteq B /\ F \subseteq Nat /\ items \subseteq kept
    BY <1>2, <1>4, <1>5
  <1>. QED
    BY <1>3, <1>6, <1>7, <1>8, <1>9 DEF limit, B, items

LEMMA OldestIsLeast ==
  ASSUME NEW S, S \subseteq Nat, S # {}
  PROVE  Oldest(S) \in S
PROOF
  <1>. QED
    BY LeastNatural DEF Oldest

-----------------------------------------------------------------------------
LEMMA TimelineInitInv == TimelineInit => TimelineInv
PROOF
  <1>. SUFFICES ASSUME TimelineInit PROVE TimelineInv
    OBVIOUS
  <1>1. Away \in Reader
    BY TimelineAssumption DEF Away, Reader
  <1>2. TimelineTypeOK
    BY <1>1 DEF TimelineInit, TimelineTypeOK
  <1>3. HadIsKnown /\ PagesCoverHistory /\ \A r \in Readers : GivenDownTo(r)
    BY DEF TimelineInit, HadIsKnown, PagesCoverHistory, GivenDownTo, Away
  <1>. QED
    BY <1>2, <1>3 DEF TimelineInv

LEMMA NextPageInv ==
  ASSUME TimelineInv, NEW r \in Readers, NextPage(r)
  PROVE  TimelineInv'
PROOF
  <1>. USE TimelineAssumption
  <1>. DEFINE old == readers[r]
              items == Newest(Fetched(r), old.limit)
              more == Cardinality(Fetched(r)) > old.limit
              new == [old EXCEPT !.given = @ \cup items,
                                 !.cursor = IF more THEN Oldest(items) ELSE NoCursor,
                                 !.at = IF more THEN "reading" ELSE "end"]
  <1>1. /\ old.at = "reading" /\ UNCHANGED <<kept, deleted>>
        /\ readers' = [readers EXCEPT ![r] = new]
    <2>1. readers \in [Readers -> Reader]
      BY DEF TimelineInv, TimelineTypeOK
    <2>. HIDE DEF items, more
    <2>. QED
      BY <2>1 DEF NextPage, Reader, items, more
  <1>2. old \in Reader /\ kept \subseteq MessageIds /\ MessageIds \subseteq Nat /\ NoCursor \notin Nat
    BY DEF TimelineInv, TimelineTypeOK, NoCursor
  <1>3. /\ items \subseteq kept /\ IsFiniteSet(Fetched(r))
        /\ \A o \in items, x \in Before(old.cursor) : x >= o => x \in items
        /\ more => items # {}
        /\ Cardinality(Fetched(r)) <= old.limit /\ old.limit < MaxLimit =>
              items = Before(old.cursor)
    BY PageOf
  <1>4. Cardinality(Fetched(r)) \in Nat /\ old.limit \in Nat
    BY <1>2, <1>3, FS_CardinalityType DEF Reader
  <1>5. more => Oldest(items) \in items
    BY <1>2, <1>3, OldestIsLeast
  <1>6. /\ new.limit = old.limit /\ new.had = old.had /\ new.given = old.given \cup items
        /\ new.cursor = IF more THEN Oldest(items) ELSE NoCursor
        /\ new.at = IF more THEN "reading" ELSE "end"
        /\ new \in Reader
    BY <1>2, <1>3, <1>5 DEF Reader
  \* What the cursor has passed was given before.
  <1>7. ASSUME NEW x \in old.had \cap kept, x \notin old.given PROVE x \in Before(old.cursor)
    <2>1. CASE old.cursor = NoCursor
      BY <2>1 DEF Before
    <2>2. CASE old.cursor # NoCursor
      <3>1. ~(x >= old.cursor)
        BY <1>1, <1>7, <2>2 DEF TimelineInv, GivenDownTo
      <3>2. x \in Nat /\ old.cursor \in Nat
        BY <1>2, <2>2 DEF Reader
      <3>. QED
        BY <3>1, <3>2 DEF Before
    <2>. QED
      BY <2>1, <2>2
  <1>. HIDE DEF items, more, new
  <1>8. \A q \in Readers : readers'[q] = IF q = r THEN new ELSE readers[q]
    BY <1>1 DEF TimelineInv, TimelineTypeOK
  <1>9. TimelineTypeOK' /\ HadIsKnown'
    BY <1>1, <1>6, <1>8 DEF TimelineInv, TimelineTypeOK, HadIsKnown
  <1>10. ASSUME NEW q \in Readers PROVE GivenDownTo(q)'
    <2>1. CASE q # r
      BY <1>1, <1>8, <2>1 DEF TimelineInv, GivenDownTo
    <2>2. CASE q = r
      <3>. SUFFICES ASSUME more, NEW x \in old.had \cap kept, x >= new.cursor
                    PROVE  x \in new.given
        BY <1>1, <1>6, <1>8, <2>2 DEF GivenDownTo
      <3>1. new.cursor \in items /\ x >= new.cursor
        BY <1>5, <1>6
      <3>. QED
        BY <1>3, <1>6, <1>7, <3>1
    <2>. QED
      BY <2>1, <2>2
  <1>11. PagesCoverHistory'
    <2>. SUFFICES ASSUME NEW q \in Readers, readers'[q].at = "end",
                         readers'[q].limit < MaxLimit
                  PROVE  readers'[q].had \cap kept' \subseteq readers'[q].given
      BY DEF PagesCoverHistory
    <2>1. CASE q # r
      BY <1>1, <1>8, <2>1 DEF TimelineInv, PagesCoverHistory
    <2>2. CASE q = r
      <3>1. ~more /\ old.limit < MaxLimit
        BY <1>6, <1>8, <2>2
      <3>2. items = Before(old.cursor)
        BY <1>3, <1>4, <3>1 DEF more
      <3>. QED
        BY <1>1, <1>6, <1>7, <1>8, <2>2, <3>2
    <2>. QED
      BY <2>1, <2>2
  <1>. QED
    BY <1>9, <1>10, <1>11 DEF TimelineInv

LEMMA TimelineStepInv == TimelineInv /\ [TimelineNext]_timelineVars => TimelineInv'
PROOF
  <1>. SUFFICES ASSUME TimelineInv, [TimelineNext]_timelineVars PROVE TimelineInv'
    OBVIOUS
  <1>. USE TimelineAssumption
  <1>1. ASSUME NEW x \in MessageIds, Post(x) PROVE TimelineInv'
    <2>1. \A r \in Readers : x \notin readers[r].had
      BY <1>1 DEF Post, TimelineInv, HadIsKnown
    <2>2. \A r \in Readers : readers[r].had \cap kept' = readers[r].had \cap kept
      BY <1>1, <2>1 DEF Post
    <2>3. TimelineTypeOK' /\ HadIsKnown'
      BY <1>1 DEF Post, TimelineInv, TimelineTypeOK, HadIsKnown
    <2>4. PagesCoverHistory' /\ \A r \in Readers : GivenDownTo(r)'
      BY <1>1, <2>2 DEF Post, TimelineInv, PagesCoverHistory, GivenDownTo
    <2>. QED
      BY <2>3, <2>4 DEF TimelineInv
  <1>2. ASSUME NEW x \in MessageIds, Unpost(x) PROVE TimelineInv'
    <2>1. kept' \subseteq kept /\ kept' \cup deleted' = kept \cup deleted /\ readers' = readers
      BY <1>2 DEF Unpost
    <2>2. TimelineTypeOK' /\ HadIsKnown'
      BY <2>1, <1>2 DEF Unpost, TimelineInv, TimelineTypeOK, HadIsKnown
    <2>3. PagesCoverHistory' /\ \A r \in Readers : GivenDownTo(r)'
      BY <2>1 DEF TimelineInv, PagesCoverHistory, GivenDownTo
    <2>. QED
      BY <2>2, <2>3 DEF TimelineInv
  <1>3. ASSUME NEW r \in Readers, NEW n \in Asked, Open(r, n) PROVE TimelineInv'
    <2>. DEFINE new == [Away EXCEPT !.at = "reading", !.limit = Normalize(n), !.had = kept]
    <2>1. /\ new \in Reader /\ new.at = "reading" /\ new.had = kept
          /\ new.cursor = NoCursor
      <3>1. Normalize(n) \in 1..MaxLimit /\ Away \in Reader /\ Away.cursor = NoCursor
        BY DEF Normalize, Away, Reader
      <3>2. kept \in SUBSET MessageIds
        BY DEF TimelineInv, TimelineTypeOK
      <3>. QED
        BY <3>1, <3>2 DEF Reader
    <2>2. readers' = [readers EXCEPT ![r] = new] /\ UNCHANGED <<kept, deleted>>
      BY <1>3 DEF Open
    <2>. HIDE DEF new
    <2>3. \A q \in Readers : readers'[q] = IF q = r THEN new ELSE readers[q]
      BY <2>2 DEF TimelineInv, TimelineTypeOK
    <2>4. TimelineTypeOK' /\ HadIsKnown'
      BY <2>1, <2>2, <2>3 DEF TimelineInv, TimelineTypeOK, HadIsKnown
    <2>5. PagesCoverHistory' /\ \A q \in Readers : GivenDownTo(q)'
      BY <2>1, <2>2, <2>3 DEF TimelineInv, PagesCoverHistory, GivenDownTo
    <2>. QED
      BY <2>4, <2>5 DEF TimelineInv
  <1>4. CASE UNCHANGED timelineVars
    BY <1>4 DEF timelineVars, TimelineInv, TimelineTypeOK, HadIsKnown, GivenDownTo,
                PagesCoverHistory
  <1>. QED
    BY <1>1, <1>2, <1>3, <1>4, NextPageInv DEF TimelineNext

(* Whatever is written and deleted between the pages of a GetMessages or a *)
(* GetThreadReplies, a client that asks for less than MaxLimit and is told *)
(* there is no more has been given every message that was there when it    *)
(* began and still is.                                                     *)
THEOREM PagesCoverHistoryAlways == TimelineSpec => []PagesCoverHistory
PROOF
  <1>1. TimelineInv => PagesCoverHistory
    BY DEF TimelineInv
  <1>. QED
    BY <1>1, TimelineInitInv, TimelineStepInv, PTL DEF TimelineSpec
=============================================================================
