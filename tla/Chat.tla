-------------------------------- MODULE Chat --------------------------------
(***************************************************************************)
(* The chat and file services over the search queue: what requests on any  *)
(* number of servers write, in which order, and what is told and found of  *)
(* it later.                                                               *)
(*                                                                         *)
(* A member's request authorizes itself with reads of its own, then writes *)
(* the row, the search job and the event in one transaction; the row it    *)
(* updates is locked until the commit.  A meeting guest's request writes,  *)
(* enqueues and publishes one after the other.  One channel; its messages  *)
(* and files, and the channels it takes part in, are the documents.        *)
(***************************************************************************)
EXTENDS SearchIndex

CONSTANTS
    Users, Guest,
    Author,        \* of each message: a user, or Guest
    Key,           \* the Idempotency-Key each message is sent with
    Procs,         \* requests in progress
    MaxVersions,   \* bound: versions of a message or a channel
    Appears        \* bound: what comes up together in a behaviour

Sent == {"send", "edit"}
Creates == {"open", "dm"}
Uploads == {"upload", "discard"}
Marks == {"pin", "unpin", "react", "unreact"}
Joins == {"join", "leave"}
Kinds == Sent \cup Creates \cup Uploads \cup Marks \cup Joins \cup {"delete", "rename"}

Pin(m) == <<"pin", m>>
React(m) == <<"react", m>>
MarksOf == {Pin(m) : m \in Messages} \cup {React(m) : m \in Messages}

ASSUME ChatAssumption ==
    /\ Author \in [Messages -> Users \cup {Guest}]
    /\ DOMAIN Key = Messages /\ MaxVersions \in Nat \ {0}
    /\ Messages \cap MarksOf = {}

VARIABLES
    op,        \* the request of each process
    gone,      \* documents that were deleted
    told,      \* what the last event about a message or a mark said
    member,    \* channel_members
    marked,    \* pins and reactions
    dms,       \* the DM channels of the two users
    answered,  \* keys with an idempotency record
    objects,   \* stored files
    unsure,    \* files whose commit was answered with an error (history)
    leaked,    \* files whose object could not be deleted (history)
    missed,    \* documents whose job could not be enqueued (history)
    crossed    \* messages and marks whose event was lost, or that were changed
               \* while another request had yet to tell of them (history)

channel == <<member, marked>>
history == <<missed, crossed>>
store == <<objects, unsure, leaked>>
chatVars == <<op, gone, told, channel, dms, answered, store, history>>
vars == <<searchVars, chatVars>>
index_ == <<index, worker, scan, resets>>

Idle == [kind |-> "none", at |-> "idle", doc |-> None, files |-> {}, ver |-> 0,
         pin |-> 0]

Init ==
    /\ here \in Appears
    /\ SearchInit
    /\ op = [p \in Procs |-> Idle]
    /\ gone = {} /\ told = [x \in Messages \cup MarksOf |-> 0]
    /\ member = Users /\ marked = {} /\ dms = {} /\ answered = {}
    /\ objects = {} /\ unsure = {} /\ leaked = {} /\ missed = {} /\ crossed = {}

-----------------------------------------------------------------------------
(* Who may do what, as the reads before a write find it.                   *)

authorizeChannel(author) == author = Guest \/ author \in member
Exists(d) == text[d] # 0
requireOwnMessageAccess(m) == Exists(m) /\ authorizeChannel(Author[m])
canAccessMessage(f) == Exists(Parent[f])

(* What each request asks for; marks and files are anybody's who may write.*)
Granted(kind, d) ==
    CASE kind = "send" -> authorizeChannel(Author[d])
      [] kind \in {"edit", "delete"} -> requireOwnMessageAccess(d)
      [] kind = "upload" -> canAccessMessage(d)
      [] kind = "discard" -> Exists(d) /\ canAccessMessage(d)
      [] kind = "pin" -> Exists(d) /\ Pin(d) \notin marked
      [] kind = "unpin" -> Exists(d) /\ Pin(d) \in marked
      [] kind \in {"react", "unreact", "rename"} -> Exists(d)
      [] kind = "join" -> d \notin member
      [] kind = "dm" -> dms = {}
      [] OTHER -> TRUE

(* A server gives a new row a new id.                                      *)
IsNew(d) == text[d] = 0 /\ d \notin gone /\ \A p \in Procs : op[p].doc # d

(* The middleware's Get: a request whose key has a record is replayed.     *)
Begin(p, kind, d) ==
    /\ op[p] = Idle /\ {kind, d} \subseteq here
    /\ kind \in {"send", "upload"} \cup Creates => IsNew(d)
    /\ kind = "send" => Key[d] \notin answered
    /\ op' = [op EXCEPT ![p] = [Idle EXCEPT !.kind = kind, !.at = "check", !.doc = d]]

Requested(p) ==
    \E kind \in Kinds :
        /\ \E d \in CASE kind \in Sent \cup Marks \cup {"delete"} -> Messages
                      [] kind \in Uploads -> Files
                      [] kind \in Joins -> Users
                      [] OTHER -> Channels : Begin(p, kind, d)
        /\ UNCHANGED <<searchVars, gone, told, channel, dms, answered, store, history>>

(* The next step of a request that was granted.                            *)
Step(o) ==
    IF o.kind \in Marks THEN "change"
    ELSE IF o.kind = "upload" THEN "put"
    ELSE IF o.kind \in Sent \cup {"delete"} /\ Author[o.doc] = Guest THEN "change"
    ELSE "write"

(* An edit fills in the message it has read here, with the pin of that     *)
(* time; a new message has none.                                           *)
(* Mutation: the read leaves the pin out.                                  *)
PinNotRead(o) == 0

PinRead(o) == IF o.kind = "edit" /\ Pin(o.doc) \in marked THEN 1 ELSE 0

Check(p) ==
    LET o == op[p] IN
    /\ o.at = "check"
    /\ op' = [op EXCEPT ![p] = IF Granted(o.kind, o.doc)
                               THEN [o EXCEPT !.at = Step(o), !.pin = PinRead(o)]
                               ELSE Idle]
    /\ UNCHANGED <<searchVars, gone, told, channel, dms, answered, store, history>>

-----------------------------------------------------------------------------
(* What the event of a request says.                                       *)

Subject(o) ==
    CASE o.kind \in {"pin", "unpin"} -> Pin(o.doc)
      [] o.kind \in {"react", "unreact"} -> React(o.doc)
      [] OTHER -> o.doc

(* The event of an edit is the whole message, which a client merges into   *)
(* what it shows; that of a new message replaces what was said before.     *)
Carries(o) ==
    {x \in MarksOf :
        /\ o.at \in {"change", "write", "commit", "enqueue", "publish"}
        /\ \/ o.kind \in Sent /\ x = Pin(o.doc)
           \/ o.kind = "send" /\ x = React(o.doc)}

Tells(o, ver) ==
    [x \in Messages \cup MarksOf |-> IF x = Subject(o) THEN ver
                                     ELSE IF x \in Carries(o) THEN o.pin ELSE told[x]]

-----------------------------------------------------------------------------
(* A member's transaction.                                                 *)

Updates == {"edit", "delete", "discard", "rename"}
Locked(d) ==
    \E p \in Procs : op[p].at = "commit" /\ op[p].doc = d /\ op[p].kind \in Updates

(* The UPDATE or DELETE of the row waits for its lock; without a row the   *)
(* transaction ends.  A deletion lists the attachments it can see.         *)
Write(p) ==
    LET o == op[p] IN
    /\ o.at = "write"
    /\ o.kind \in Updates => ~Locked(o.doc)
    /\ o.kind \in {"edit", "rename"} => text[o.doc] < MaxVersions
    /\ op' = [op EXCEPT ![p] =
                IF o.kind \in Updates /\ ~Exists(o.doc) THEN Idle
                ELSE [o EXCEPT !.at = "commit",
                        !.files = IF o.kind # "delete" THEN {}
                                  ELSE {f \in Files : Parent[f] = o.doc /\ Exists(f)}]]
    /\ UNCHANGED <<searchVars, gone, told, channel, dms, answered, store, history>>

(* What the client gets, and the middleware keeps.  Only a send carries a  *)
(* key here; an upload that failed cleans up, a removed file follows.      *)
(* Mutation: an upload that failed leaves its object.                      *)
ThenKeeps(o, ok) ==
    CASE o.kind = "send" /\ ok -> [o EXCEPT !.at = "answer"]
      [] o.kind = "discard" /\ ok -> [o EXCEPT !.at = "drop"]
      [] OTHER -> Idle

Then(o, ok) ==
    CASE o.kind = "send" /\ ok -> [o EXCEPT !.at = "answer"]
      [] o.kind = "upload" /\ ~ok -> [o EXCEPT !.at = "drop"]
      [] o.kind = "discard" /\ ok -> [o EXCEPT !.at = "drop"]
      [] OTHER -> Idle

(* The commit, and its answer, which may be lost.                          *)
Committed(p, kinds) ==
    /\ op[p].at = "commit" /\ op[p].kind \in kinds
    /\ \/ /\ op' = [op EXCEPT ![p] = Then(@, TRUE)]
          /\ UNCHANGED <<faults, unsure>>
       \/ /\ op' = [op EXCEPT ![p] = Then(@, FALSE)] /\ Fault
          /\ unsure' = unsure \cup ({op[p].doc} \cap Files)

(* Message, search job, events.                                            *)
(* Mutation: the job is taken from the message read before the change.     *)
EnqueueMessageStale(p, kind) ==
    LET d == op[p].doc IN
    /\ Committed(p, {kind})
    /\ text' = [text EXCEPT ![d] = @ + 1]
    /\ EnqueueUpsert({d}, text)
    /\ told' = Tells(op[p], text'[d])
    /\ UNCHANGED <<here, index_, gone, channel, dms, answered, objects, leaked, history>>

EnqueueMessage(p, kind) ==
    LET d == op[p].doc IN
    /\ Committed(p, {kind})
    /\ text' = [text EXCEPT ![d] = @ + 1]
    /\ EnqueueUpsert({d}, text')
    /\ told' = Tells(op[p], text'[d])
    /\ UNCHANGED <<here, index_, gone, channel, dms, answered, objects, leaked, history>>

SendMessage(p) == EnqueueMessage(p, "send")
EditMessage(p) == EnqueueMessage(p, "edit")

DeleteMessage(p) ==
    LET d == op[p].doc IN
    /\ Committed(p, {"delete"})
    /\ text' = [text EXCEPT ![d] = 0]
    /\ gone' = gone \cup {d}
    /\ EnqueueDelete({d} \cup op[p].files)
    /\ told' = Tells(op[p], 0)
    /\ UNCHANGED <<here, index_, channel, dms, answered, objects, leaked, history>>

(* Channel, search job.                                                    *)
EnqueueChannel(p, kind) ==
    LET d == op[p].doc IN
    /\ Committed(p, {kind})
    /\ text' = [text EXCEPT ![d] = @ + 1]
    /\ dms' = IF kind = "dm" THEN dms \cup {d} ELSE dms
    /\ EnqueueUpsert({d}, text')
    /\ UNCHANGED <<here, index_, gone, told, channel, answered, objects, leaked, history>>

CreateChannel(p) == EnqueueChannel(p, "open")
UpdateChannel(p) == EnqueueChannel(p, "rename")
GetOrCreateDM(p) == EnqueueChannel(p, "dm")

(* Attachment, search job.                                                 *)
EnqueueFile(p, kind) ==
    LET d == op[p].doc IN
    /\ Committed(p, {kind})
    /\ text' = [text EXCEPT ![d] = IF kind = "discard" THEN 0 ELSE 1]
    /\ gone' = IF kind = "discard" THEN gone \cup {d} ELSE gone
    /\ EnqueueUpsert({d}, text')
    /\ UNCHANGED <<here, index_, told, channel, dms, answered, objects, leaked, history>>

Upload(p) == EnqueueFile(p, "upload")
Delete(p) == EnqueueFile(p, "discard")

(* A second row, or none, ends the transaction; the event is in it.        *)
ChangeMember(p, kind) ==
    LET u == op[p].doc IN
    /\ Committed(p, {kind})
    /\ member' = IF kind = "join" THEN member \cup {u} ELSE member \ {u}
    /\ UNCHANGED <<here, text, rows, worker, scan, resets, raced, gone, told, marked,
                   dms, answered, objects, leaked, history>>

JoinChannel(p) == ChangeMember(p, "join")
LeaveChannel(p) == ChangeMember(p, "leave")

Rollback(p) ==
    /\ op[p].at \in {"write", "commit"} /\ Fault
    /\ op' = [op EXCEPT ![p] = Then(@, FALSE)]
    /\ UNCHANGED <<here, text, rows, worker, scan, resets, raced, gone, told, channel,
                   dms, answered, store, history>>

(* The client's answer and then the record, unless the client has left:    *)
(* its request's context ends the Set.                                     *)
Answer(p) ==
    /\ op[p].at = "answer"
    /\ answered' \in {answered, answered \cup {Key[op[p].doc]}}
    /\ op' = [op EXCEPT ![p] = Idle]
    /\ UNCHANGED <<searchVars, gone, told, channel, dms, store, history>>

-----------------------------------------------------------------------------
(* The stored object of a file, before and after its transaction.          *)

Put(p) ==
    /\ op[p].at = "put"
    /\ objects' = objects \cup {op[p].doc}
    /\ op' = [op EXCEPT ![p].at = "write"]
    /\ UNCHANGED <<searchVars, gone, told, channel, dms, answered, unsure, leaked, history>>

Drop(p) ==
    /\ op[p].at = "drop"
    /\ op' = [op EXCEPT ![p] = Idle]
    /\ \/ /\ objects' = objects \ {op[p].doc}
          /\ UNCHANGED <<leaked, faults>>
       \/ /\ leaked' = leaked \cup {op[p].doc} /\ Fault
          /\ UNCHANGED objects
    /\ UNCHANGED <<here, text, rows, worker, scan, resets, raced, gone, told, channel,
                   dms, answered, unsure, history>>

-----------------------------------------------------------------------------
(* Requests without a transaction, of guests and about marks: a change,    *)
(* the search job, and the event, which is enqueued by itself.             *)

(* Another request is between its change and its event, or carries what it *)
(* read of this mark.                                                      *)
Overlaps(p) ==
    \E q \in Procs \ {p} :
        \/ op[q].at \in {"enqueue", "publish"} /\ Subject(op[q]) = Subject(op[p])
        \/ Subject(op[p]) \in Carries(op[q])
Cross(p) ==
    crossed' = IF Overlaps(p) THEN crossed \cup {Subject(op[p])} ELSE crossed

GuestChange(p, kind) ==
    LET o == op[p]
        ver == IF kind = "delete" THEN 0 ELSE text[o.doc] + 1
    IN
    /\ o.at = "change" /\ o.kind = kind
    /\ ver <= MaxVersions
    /\ IF kind = "send" \/ Exists(o.doc)
       THEN /\ text' = [text EXCEPT ![o.doc] = ver]
            /\ gone' = IF kind = "delete" THEN gone \cup {o.doc} ELSE gone
            /\ op' = [op EXCEPT ![p].at = "enqueue", ![p].ver = ver]
            /\ Cross(p)
       ELSE op' = [op EXCEPT ![p] = Idle] /\ UNCHANGED <<text, gone, crossed>>
    /\ UNCHANGED <<here, rows, worker, scan, resets, faults, raced, told, channel, dms,
                   answered, store, missed>>

SendMeetingGuestMessage(p) == GuestChange(p, "send")
EditMeetingGuestMessage(p) == GuestChange(p, "edit")
DeleteMeetingGuestMessage(p) == GuestChange(p, "delete")

(* An error is logged, and the event follows.                              *)
GuestEnqueue(p) ==
    LET d == op[p].doc IN
    /\ op[p].at = "enqueue"
    /\ op' = [op EXCEPT ![p].at = "publish"]
    /\ UNCHANGED text
    /\ \/ /\ EnqueueUpsert({d}, [x \in {d} |-> op[p].ver])
          /\ UNCHANGED <<faults, missed>>
       \/ /\ missed' = missed \cup {d} /\ Fault
          /\ UNCHANGED <<job, raced>>
    /\ UNCHANGED <<here, index_, gone, told, channel, dms, answered, store, crossed>>

(* A second reaction or its absence is an error, and so is a pin on a      *)
(* deleted message; a second pin is not.  A pin is a column of the row, and*)
(* waits for its lock.                                                     *)
Mark(p, kind) ==
    LET o == op[p]
        on == kind \in {"pin", "react"}
        ok == CASE kind = "react" -> React(o.doc) \notin marked
                [] kind = "unreact" -> React(o.doc) \in marked
                [] OTHER -> Exists(o.doc)
    IN
    /\ o.at = "change" /\ o.kind = kind
    /\ kind \in {"pin", "unpin"} => ~Locked(o.doc)
    /\ IF ok THEN /\ marked' = IF on THEN marked \cup {Subject(o)}
                                ELSE marked \ {Subject(o)}
                  /\ op' = [op EXCEPT ![p].at = "publish", ![p].ver = IF on THEN 1 ELSE 0]
                  /\ Cross(p)
       ELSE op' = [op EXCEPT ![p] = Idle] /\ UNCHANGED <<marked, crossed>>
    /\ UNCHANGED <<searchVars, gone, told, member, dms, answered, store, missed>>

AddReaction(p) == Mark(p, "react")
RemoveReaction(p) == Mark(p, "unreact")
PinMessage(p) == Mark(p, "pin")
UnpinMessage(p) == Mark(p, "unpin")

Publish(p) ==
    /\ op[p].at = "publish"
    /\ told' = Tells(op[p], op[p].ver)
    /\ op' = [op EXCEPT ![p] = Idle]
    /\ UNCHANGED <<searchVars, gone, channel, dms, answered, store, history>>

(* A statement or a call fails, or the server stops: nothing follows.      *)
Abandon(p) ==
    LET o == op[p] IN
    /\ o.at \in {"enqueue", "publish", "put", "write", "commit", "drop", "answer"}
    /\ Fault
    /\ op' = [op EXCEPT ![p] = Idle]
    /\ missed' = IF o.at = "enqueue" THEN missed \cup {o.doc} ELSE missed
    /\ crossed' = IF o.at \in {"enqueue", "publish"} THEN crossed \cup {Subject(o)}
                  ELSE crossed
    /\ objects' \in {objects} \cup (IF o.at = "put" THEN {objects \cup {o.doc}} ELSE {})
    /\ leaked' = IF o.kind \in Uploads THEN leaked \cup {o.doc} ELSE leaked
    /\ UNCHANGED <<here, text, rows, worker, scan, resets, raced, gone, told, channel,
                   dms, answered, unsure>>

-----------------------------------------------------------------------------

Next ==
    \/ \E p \in Procs : Requested(p)
    \/ \E p \in Procs : Check(p)
    \/ \E p \in Procs : Write(p)
    \/ \E p \in Procs : SendMessage(p)
    \/ \E p \in Procs : EditMessage(p)
    \/ \E p \in Procs : DeleteMessage(p)
    \/ \E p \in Procs : CreateChannel(p)
    \/ \E p \in Procs : UpdateChannel(p)
    \/ \E p \in Procs : GetOrCreateDM(p)
    \/ \E p \in Procs : Upload(p)
    \/ \E p \in Procs : Delete(p)
    \/ \E p \in Procs : JoinChannel(p)
    \/ \E p \in Procs : LeaveChannel(p)
    \/ \E p \in Procs : Rollback(p)
    \/ \E p \in Procs : Answer(p)
    \/ \E p \in Procs : Put(p)
    \/ \E p \in Procs : Drop(p)
    \/ \E p \in Procs : SendMeetingGuestMessage(p)
    \/ \E p \in Procs : EditMeetingGuestMessage(p)
    \/ \E p \in Procs : DeleteMeetingGuestMessage(p)
    \/ \E p \in Procs : GuestEnqueue(p)
    \/ \E p \in Procs : AddReaction(p)
    \/ \E p \in Procs : RemoveReaction(p)
    \/ \E p \in Procs : PinMessage(p)
    \/ \E p \in Procs : UnpinMessage(p)
    \/ \E p \in Procs : Publish(p)
    \/ \E p \in Procs : Abandon(p)
    \/ \E w \in Workers : claimPendingJobs(w) /\ UNCHANGED chatVars
    \/ \E w \in Workers : applyJob(w) /\ UNCHANGED chatVars
    \/ \E w \in Workers : ApplyFails(w) /\ UNCHANGED chatVars
    \/ \E w \in Workers : completeJob(w) /\ UNCHANGED chatVars
    \/ \E w \in Workers : CompleteFails(w) /\ UNCHANGED chatVars
    \/ \E w \in Workers : failJob(w) /\ UNCHANGED chatVars
    \/ \E w \in Workers : FailJobFails(w) /\ UNCHANGED chatVars
    \/ \E w \in Workers : WorkerCrash(w) /\ UNCHANGED chatVars
    \/ \E d \in Docs : LeaseExpires(d) /\ UNCHANGED chatVars
    \/ \E d \in Docs : BackoffElapses(d) /\ UNCHANGED chatVars
    \/ Reset /\ UNCHANGED chatVars
    \/ ScanRead /\ UNCHANGED chatVars
    \/ ScanPut /\ UNCHANGED chatVars
    \/ ScanFails /\ UNCHANGED chatVars

Spec == Init /\ [][Next]_vars

WorkerStep(w) ==
    \/ claimPendingJobs(w) \/ applyJob(w) \/ completeJob(w) \/ failJob(w)

(* RunWorker is supervised and polls, time passes, a reindex command that  *)
(* is not stopped goes on, and so does a request that is being served.     *)
Fairness ==
    /\ \A w \in Workers : WF_vars(WorkerStep(w) /\ UNCHANGED chatVars)
    /\ \A d \in Docs : /\ WF_vars(LeaseExpires(d) /\ UNCHANGED chatVars)
                       /\ WF_vars(BackoffElapses(d) /\ UNCHANGED chatVars)
    /\ WF_vars((ScanRead \/ ScanPut) /\ UNCHANGED chatVars)
    /\ \A p \in Procs : WF_vars(GuestEnqueue(p))

LiveSpec == Spec /\ Fairness

-----------------------------------------------------------------------------

Jobs == [status : {"none", "pending", "processing", "processed", "failed", "dead"},
         id : 0..MaxResets + 1, ver : 0..MaxVersions, attempts : Nat,
         ready : BOOLEAN, late : BOOLEAN]
Ops == [kind : Kinds \cup {"none"},
        at : {"idle", "check", "write", "commit", "answer", "put", "drop", "change",
              "enqueue", "publish"},
        doc : Docs \cup Users \cup {None}, files : SUBSET Files, ver : 0..MaxVersions,
        pin : 0..1]

(* Rows, jobs, index, batches and requests hold what the code puts in them.*)
TypeOK ==
    /\ text \in [Docs -> 0..MaxVersions] /\ index \in [Docs -> 0..MaxVersions]
    /\ job \in [Docs -> Jobs] /\ op \in [Procs -> Ops]
    /\ \A w \in Workers : worker[w].at = "idle" <=> worker[w].jobs = {}
    /\ scan.at = "put" <=> scan.todo # {}
    /\ told \in [Messages \cup MarksOf -> 0..MaxVersions]
    /\ member \subseteq Users /\ marked \subseteq MarksOf
    /\ \A d \in gone : text[d] = 0

(* SendMessage, EditMessage, DeleteMessage and the channel requests commit *)
(* the row and its job together (service.go:664, 882, 950): whatever other *)
(* requests do, the queue never holds an older or a newer version of a     *)
(* member's message or of a channel than the row.                          *)
JobTellsRow ==
    \A d \in Channels \cup {m \in Messages : Author[m] # Guest} :
        Queued(d) => job[d].ver = text[d]

(* What a client that applies the events in order shows is what the rows   *)
(* say: at any time for a member's message, whose events are enqueued in   *)
(* its transaction (service.go:1458), and for a guest's message, a pin or  *)
(* a reaction, which publish afterwards (service.go:1476), once the        *)
(* requests have ended, unless two overlapped or one broke off.  Requests  *)
(* about a mark overlap with an edit that carries an older pin.            *)
EventsTellRows ==
    /\ \A m \in Messages :
        \/ told[m] = text[m]
        \/ Author[m] = Guest /\ m \in crossed
        \/ Author[m] = Guest /\ \E p \in Procs : op[p].at \in {"enqueue", "publish"}
                                               /\ Subject(op[p]) = m
    /\ \A x \in MarksOf \ crossed :
        \/ told[x] = 1 <=> x \in marked
        \/ \E p \in Procs : op[p].at = "publish" /\ Subject(op[p]) = x

(* An attachment has its stored object, and an object outlives its row     *)
(* only while a request is about to delete it (file/service.go:255, 417):  *)
(* except where a commit was answered with an error, and where an object   *)
(* could not be deleted.                                                   *)
FilesAgree ==
    \A f \in Files :
        /\ Exists(f) => f \in objects \cup unsure
        /\ f \in objects => \/ Exists(f) \/ f \in leaked \cup unsure
                            \/ \E p \in Procs : op[p].doc = f

(* What the index holds of d is what a search should find, or the way it   *)
(* was lost is one of those the code leaves open: a job given up, a job of *)
(* a guest that was not enqueued, a reindex that broke off; and a document *)
(* enqueued while a worker or the reindex held an older copy of it, or a   *)
(* guest's that was enqueued in the wrong order, is found at least.        *)
Settled(d) ==
    \/ index[d] = Wanted(d)
    \/ job[d].status = "dead"
    \/ d \in missed
    \/ scan.at = "dead"
    \/ Workers \cap here = {}
    \/ d \in raced /\ (Wanted(d) # 0 => index[d] # 0)

(* Every document ends up in the index as its row is, through failing      *)
(* calls, crashed workers, expired leases and a reindex beside them        *)
(* (postgres/search.go:456, 513).                                          *)
IndexSettles == \A d \in Docs : <>[]Settled(d)

(* What the documents say and overlapping requests break; no run checks    *)
(* these two.  docs/realtime-reliability.md: "Repeating the same request   *)
(* with the same key replays the stored response" (idempotency.go:72): two *)
(* messages are never made from sends with one key.                        *)
KeyRunsOnce ==
    \A m, n \in Messages : m # n /\ Key[m] = Key[n] => ~(Exists(m) /\ Exists(n))

(* GetOrCreateDM "finds an existing DM channel between two users or creates*)
(* a new one" (service.go:1231): two users have one.                       *)
OneDM == Cardinality(dms) <= 1

=============================================================================
