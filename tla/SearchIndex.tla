----------------------------- MODULE SearchIndex -----------------------------
(***************************************************************************)
(* The durable queue of search jobs in Postgres, the workers that apply    *)
(* them to the index, and the reindex command that rebuilds it.            *)
(*                                                                         *)
(* A document is a message, a file or a channel.  Its text is abstracted   *)
(* to a version number; 0 is no row, a deleted one, a deletion.  Requests  *)
(* change the rows and enqueue the jobs: module Chat.                      *)
(***************************************************************************)
EXTENDS Naturals, FiniteSets

CONSTANTS
    Messages, Files, Channels,
    Parent,        \* the message each file is attached to
    Workers,       \* index workers, one in every server
    MaxAttempts,   \* attempts a job may fail (Search.MaxAttempts)
    MaxResets,     \* bound: reindex commands
    MaxFaults,     \* bound: failed calls, crashes and lost answers
    None

Docs == Messages \cup Files \cup Channels

(* Every id is drawn at random: no two rows share one.                     *)
ASSUME SearchAssumption ==
    /\ Messages \cap Files = {} /\ Messages \cap Channels = {} /\ Files \cap Channels = {}
    /\ Parent \in [Files -> Messages]
    /\ MaxAttempts \in Nat \ {0} /\ MaxResets \in Nat /\ MaxFaults \in Nat

VARIABLES
    here,     \* what comes up, chosen at the start (see Chat)
    text,     \* the committed row of each document: its version
    job,      \* search_index_jobs: at most one row for each document
    index,    \* search_index: the version indexed
    worker,   \* the batch of each worker
    scan,     \* the reindex command
    resets,   \* reindex commands started
    faults,   \* faults so far
    raced     \* documents enqueued while an older copy was held, or not
              \* as the row is, and files forgotten (history)

rows == <<job, index>>
searchVars == <<here, text, rows, worker, scan, resets, faults, raced>>

NoJob == [status |-> "none", id |-> 0, ver |-> 0, attempts |-> 0,
          ready |-> FALSE, late |-> FALSE]
Free == [at |-> "idle", jobs |-> {}, doc |-> None]
NoScan == [at |-> "idle", type |-> "none", todo |-> {}]

Queued(d) == job[d].status # "none"
Searchable(d) ==
    text[d] # 0 /\ (d \in Files => text[Parent[d]] # 0)
Wanted(d) == IF Searchable(d) THEN text[d] ELSE 0

(* The copies of d somebody is about to put into the index.                *)
HeldBySome(d) ==
    \/ \E w \in Workers : \E j \in worker[w].jobs : j.doc = d
    \/ \E c \in scan.todo : c.doc = d

SearchInit ==
    /\ text = [d \in Docs |-> 0]
    /\ job = [d \in Docs |-> NoJob]
    /\ index = [d \in Docs |-> 0]
    /\ worker = [w \in Workers |-> Free]
    /\ scan = NoScan
    /\ resets = 0
    /\ faults = 0
    /\ raced = {}

-----------------------------------------------------------------------------
(* The row after EnqueueUpsert or EnqueueDelete: one for each document,    *)
(* which keeps its id and starts again, whoever is working on it.          *)

Enqueued(d, ver) ==
    [NoJob EXCEPT !.status = "pending", !.ver = ver, !.ready = TRUE,
                  !.id = IF Queued(d) THEN job[d].id ELSE resets + 1]

EnqueueUpsert(S, ver) ==
    /\ job' = [d \in Docs |-> IF d \in S THEN Enqueued(d, ver[d]) ELSE job[d]]
    /\ raced' = raced \cup {d \in S : HeldBySome(d) \/ ver[d] # Wanted(d)'}
                     \cup {f \in Files \ S : Wanted(f)' # Wanted(f)}

EnqueueDelete(S) == EnqueueUpsert(S, [d \in S |-> 0])

-----------------------------------------------------------------------------
(* A worker: claim a batch, then apply and settle one job after the other. *)

Fault == faults < MaxFaults /\ "fault" \in here /\ faults' = faults + 1

(* Mutation: a job in processing is never taken again.                     *)
ClaimableOnce(d) ==
    /\ job[d].ready
    /\ job[d].status \in {"pending", "failed"}

Claimable(d) ==
    /\ job[d].ready
    /\ job[d].status \in {"pending", "failed"} \/ job[d].late

(* SKIP LOCKED and the batch size may leave some out.                      *)
claimPendingJobs(w) ==
    /\ w \in here /\ worker[w].at = "idle"
    /\ \E S \in (SUBSET {d \in Docs : Claimable(d)}) \ {{}} :
        /\ job' = [d \in Docs |->
                    IF d \in S THEN [job[d] EXCEPT !.status = "processing",
                                         !.late = FALSE, !.attempts = @ + 1]
                    ELSE job[d]]
        /\ worker' = [worker EXCEPT ![w] =
            [Free EXCEPT !.at = "apply",
                         !.jobs = {[doc |-> d, id |-> job[d].id, ver |-> job[d].ver,
                                    attempts |-> job[d].attempts + 1] : d \in S}]]
    /\ UNCHANGED <<here, text, index, scan, resets, faults, raced>>

applyJob(w) ==
    /\ worker[w].at = "apply"
    /\ \E j \in worker[w].jobs :
        /\ index' = [index EXCEPT ![j.doc] = j.ver]
        /\ worker' = [worker EXCEPT ![w].at = "complete", ![w].doc = j]
    /\ UNCHANGED <<here, text, job, scan, resets, faults, raced>>

(* The statement fails, or its answer is lost, on every attempt.           *)
ApplyFails(w) ==
    /\ worker[w].at = "apply" /\ Fault
    /\ \E j \in worker[w].jobs :
        /\ index' \in {index, [index EXCEPT ![j.doc] = j.ver]}
        /\ worker' = [worker EXCEPT ![w].at = "fail", ![w].doc = j]
    /\ UNCHANGED <<here, text, job, scan, resets, raced>>

(* The rest of the batch.                                                  *)
Onward(b) ==
    IF b.jobs = {b.doc} THEN Free
    ELSE [at |-> "apply", jobs |-> b.jobs \ {b.doc}, doc |-> None]

(* The UPDATE names the row by id, and asks for nothing else.              *)
Settle(j, row) ==
    IF job[j.doc].id = j.id THEN job' = [job EXCEPT ![j.doc] = row]
    ELSE UNCHANGED job

completeJob(w) ==
    LET j == worker[w].doc IN
    /\ worker[w].at = "complete"
    /\ Settle(j, [job[j.doc] EXCEPT !.status = "processed", !.late = FALSE])
    /\ worker' = [worker EXCEPT ![w] = Onward(@)]
    /\ UNCHANGED <<here, text, index, scan, resets, faults, raced>>

(* An error of completeJob ends the batch: the rest stays in processing.   *)
CompleteFails(w) ==
    LET j == worker[w].doc IN
    /\ worker[w].at = "complete" /\ Fault
    /\ \/ UNCHANGED job
       \/ Settle(j, [job[j.doc] EXCEPT !.status = "processed", !.late = FALSE])
    /\ worker' = [worker EXCEPT ![w] = Free]
    /\ UNCHANGED <<here, text, index, scan, resets, raced>>

failJob(w) ==
    LET j == worker[w].doc
        status == IF j.attempts >= MaxAttempts THEN "dead" ELSE "failed"
    IN
    /\ worker[w].at = "fail"
    /\ Settle(j, [job[j.doc] EXCEPT !.status = status, !.late = FALSE,
                                    !.ready = status = "dead"])
    /\ worker' = [worker EXCEPT ![w] = Onward(@)]
    /\ UNCHANGED <<here, text, index, scan, resets, faults, raced>>

(* An error of failJob is logged, and the batch goes on.                   *)
FailJobFails(w) ==
    /\ worker[w].at = "fail" /\ Fault
    /\ worker' = [worker EXCEPT ![w] = Onward(@)]
    /\ UNCHANGED <<here, text, rows, scan, resets, raced>>

WorkerCrash(w) ==
    /\ worker[w].at # "idle" /\ Fault
    /\ worker' = [worker EXCEPT ![w] = Free]
    /\ UNCHANGED <<here, text, rows, scan, resets, raced>>

(* Five minutes after the claim, whether its worker still lives or not.    *)
LeaseExpires(d) ==
    /\ job[d].status = "processing" /\ ~job[d].late
    /\ job' = [job EXCEPT ![d].late = TRUE]
    /\ UNCHANGED <<here, text, index, worker, scan, resets, faults, raced>>

BackoffElapses(d) ==
    /\ Queued(d) /\ ~job[d].ready
    /\ job' = [job EXCEPT ![d].ready = TRUE]
    /\ UNCHANGED <<here, text, index, worker, scan, resets, faults, raced>>

-----------------------------------------------------------------------------
(* ReindexWorkspace: empty both tables in a transaction, then read each    *)
(* kind of row with one query and write what it returned, a row at a time. *)

Reset ==
    /\ "reindex" \in here /\ scan.at = "idle" /\ resets < MaxResets
    /\ job' = [d \in Docs |-> NoJob]
    /\ index' = [d \in Docs |-> 0]
    /\ scan' = [NoScan EXCEPT !.at = "read", !.type = "channel"]
    /\ resets' = resets + 1
    /\ UNCHANGED <<here, text, worker, faults, raced>>

OfType(t) == CASE t = "channel" -> Channels [] t = "message" -> Messages
               [] OTHER -> Files

(* The query of the next type, or the end.                                 *)
ScanNext(t) ==
    IF t = "file" THEN NoScan
    ELSE [at |-> "read", todo |-> {},
          type |-> IF t = "channel" THEN "message" ELSE "file"]

ScanRead ==
    LET found == {[doc |-> d, ver |-> text[d]] :
                    d \in {x \in OfType(scan.type) : Searchable(x)}} IN
    /\ scan.at = "read"
    /\ scan' = IF found = {} THEN ScanNext(scan.type)
               ELSE [scan EXCEPT !.at = "put", !.todo = found]
    /\ UNCHANGED <<here, text, rows, worker, resets, faults, raced>>

ScanPut ==
    \E c \in scan.todo :
        /\ index' = [index EXCEPT ![c.doc] = c.ver]
        /\ scan' = IF scan.todo = {c} THEN ScanNext(scan.type)
                   ELSE [scan EXCEPT !.todo = @ \ {c}]
        /\ UNCHANGED <<here, text, job, worker, resets, faults, raced>>

(* An error or a crash ends the command where it is.                       *)
ScanFails ==
    /\ scan.at \notin {"idle", "dead"} /\ Fault
    /\ scan' = [NoScan EXCEPT !.at = "dead"]
    /\ UNCHANGED <<here, text, rows, worker, resets, raced>>

=============================================================================
