--------------------------- MODULE RealtimeOutbox ---------------------------
(***************************************************************************)
(* The durable realtime queue: realtime.Service and RealtimeRepo.          *)
(*                                                                         *)
(* A domain transaction INSERTs an event into realtime_events; every app   *)
(* node runs an outbox worker that claims a batch, publishes each job to   *)
(* NATS JetStream and writes the outcome back, job by job.  The claim is a *)
(* five minute lease on the row (locked_at); nothing fences a worker that  *)
(* outlives its lease.                                                     *)
(*                                                                         *)
(* Time is abstract: "ready" is available_at <= NOW(), "expired" is        *)
(* locked_at < NOW() - 5 minutes, and each becomes true by a step of its   *)
(* own.  Faults (a crash, a database error, a lost answer, a worker slower *)
(* than its lease) are counted and bounded by MaxFaults.                   *)
(***************************************************************************)
EXTENDS Naturals, FiniteSets

CONSTANTS
    Events,       \* ids of the durable (at_least_once) events
    Workers,      \* one outbox worker per app node
    MaxAttempts,  \* Config.MaxAttempts, stored per row as max_attempts
    BatchSize,    \* Config.BatchSize
    MaxFaults     \* bound: crashes, database errors, lost answers and overrun leases

ASSUME OutboxAssumption ==
    /\ MaxAttempts \in Nat \ {0}
    /\ BatchSize \in Nat \ {0}
    /\ MaxFaults \in Nat
    /\ IsFiniteSet(Events)

VARIABLES
    row,      \* table realtime_events
    nextSeq,  \* the BIGSERIAL behind realtime_events.sequence
    pc,       \* where each worker is in ProcessPending
    batch,    \* the jobs a worker has claimed and not finished
    sent,     \* messages JetStream stored: <<event, attempt that sent it>>
    cursor,   \* event_consumer_cursors row of "realtime-outbox"
    late,     \* history: events whose lease ran out in a worker's hands, or
              \* whose failure is recorded a second time after a lost answer
    faults    \* faults so far

vars == <<row, nextSeq, pc, batch, sent, cursor, late, faults>>

-----------------------------------------------------------------------------
(* "absent": no INSERT yet.  "inserting": INSERTed by an open transaction, *)
(* so invisible.  "aborted": that transaction rolled back.                 *)
Statuses == {"absent", "inserting", "aborted",
             "pending", "processing", "published", "failed", "dead"}
Committed == Statuses \ {"absent", "inserting", "aborted"}
Settled == {"published", "dead"}

Row == [status : Statuses, seq : Nat, attempts : Nat,
        ready : BOOLEAN, expired : BOOLEAN]

(* event.QueuedEvent: the event and the attempt number of this claim.      *)
Job == [ev : Events, attempts : Nat]

(* reack and renack: policy(2) runs the UPDATE of the outcome once more.   *)
PCs == {"down", "idle", "send", "ack", "nack", "reack", "renack"}

(* The shape of every variable; the cursor takes the four states of the    *)
(* consumer, never the row's own words.                                    *)
TypeOK ==
    /\ row \in [Events -> Row]
    /\ nextSeq \in Nat
    /\ pc \in [Workers -> PCs]
    /\ batch \in [Workers -> SUBSET Job]
    /\ sent \in SUBSET (Events \X Nat)
    /\ cursor \in [seq : Nat, status : {"idle", "active", "degraded", "failed"}]
    /\ late \in SUBSET Events
    /\ faults \in Nat

Init ==
    /\ row = [e \in Events |-> [status |-> "absent", seq |-> 0, attempts |-> 0,
                                ready |-> FALSE, expired |-> FALSE]]
    /\ nextSeq = 1
    /\ pc = [w \in Workers |-> "down"]
    /\ batch = [w \in Workers |-> {}]
    /\ sent = {}
    /\ cursor = [seq |-> 0, status |-> "idle"]
    /\ late = {}
    /\ faults = 0

-----------------------------------------------------------------------------
Held(w) == {j.ev : j \in batch[w]}
HeldBySome(e) == \E w \in Workers : e \in Held(w)

WasSent(e) == \E m \in sent : m[1] = e

(* The batch is worked off in the order of the claim: ascending sequence.  *)
IsHead(w, j) ==
    /\ j \in batch[w]
    /\ \A k \in batch[w] : row[j.ev].seq <= row[k.ev].seq

(* Mutation: the claim forgets the five minute test.                       *)
ClaimableIgnoringLease(e) ==
    row[e].ready /\ row[e].status \in {"pending", "failed", "processing"}

(* Mutation: the claim never takes back an abandoned row.                  *)
ClaimableOnlyQueued(e) ==
    row[e].ready /\ row[e].status \in {"pending", "failed"}

(* WHERE clause of the claim.                                              *)
Claimable(e) ==
    /\ row[e].ready
    /\ \/ row[e].status \in {"pending", "failed"}
       \/ row[e].status = "processing" /\ row[e].expired

(* ORDER BY sequence LIMIT BatchSize over the claimable rows.              *)
ClaimSet ==
    LET C == {e \in Events : Claimable(e)} IN
    {e \in C : Cardinality({f \in C : row[f].seq < row[e].seq}) < BatchSize}

(* Mutation: the UPDATE of the claim does not count the attempt.           *)
ClaimRowsUncounted(S) ==
    [e \in Events |->
        IF e \in S
        THEN [row[e] EXCEPT !.status = "processing", !.expired = FALSE]
        ELSE row[e]]

ClaimRows(S) ==
    [e \in Events |->
        IF e \in S
        THEN [row[e] EXCEPT !.status = "processing",
                            !.attempts = @ + 1,
                            !.expired = FALSE]
        ELSE row[e]]

(* Mutation: the UPDATE takes every claimed row up to the published one.   *)
PublishedRowsUpTo(e) ==
    [f \in Events |->
        IF f = e \/ (row[f].status = "processing" /\ row[f].seq <= row[e].seq)
        THEN [row[f] EXCEPT !.status = "published", !.expired = FALSE, !.ready = TRUE]
        ELSE row[f]]

(* UPDATE ... SET status = 'published' WHERE id = $1                       *)
PublishedRow(e) ==
    [row EXCEPT ![e] = [@ EXCEPT !.status = "published", !.expired = FALSE,
                                 !.ready = TRUE]]

(* UPDATE ... SET status = failed|dead WHERE id = $1; a dead row keeps its *)
(* available_at, a failed one becomes available after the backoff.         *)
FailedRow(j) ==
    IF j.attempts >= MaxAttempts
    THEN [row EXCEPT ![j.ev] = [@ EXCEPT !.status = "dead", !.expired = FALSE]]
    ELSE [row EXCEPT ![j.ev] = [@ EXCEPT !.status = "failed", !.expired = FALSE,
                                         !.ready = FALSE]]

Fault == faults < MaxFaults /\ faults' = faults + 1

(* UpdateConsumerCursor takes the larger sequence on success and failure   *)
(* alike.                                                                  *)
CursorAt(e, st) ==
    [seq |-> IF row[e].seq > cursor.seq THEN row[e].seq ELSE cursor.seq,
     status |-> st]

(* An error of UpdateConsumerCursor is ignored: the cursor stays.          *)
UpdateConsumerCursor(e, st) ==
    \/ cursor' = CursorAt(e, st) /\ UNCHANGED faults
    \/ UNCHANGED cursor /\ Fault

FailureStatus(j) == IF j.attempts >= MaxAttempts THEN "failed" ELSE "degraded"

(* The worker goes on with the next job of its batch, or ends the batch.   *)
Advance(w, j) ==
    /\ batch' = [batch EXCEPT ![w] = @ \ {j}]
    /\ pc' = [pc EXCEPT ![w] = IF batch[w] = {j} THEN "idle" ELSE "send"]

-----------------------------------------------------------------------------
(* Producers.  Enqueue runs on the pool or inside WithinTx: the INSERT     *)
(* draws the sequence number, the commit makes the row visible.            *)

Enqueue(e) ==
    /\ row[e].status = "absent"
    /\ row' = [row EXCEPT ![e] = [@ EXCEPT !.status = "inserting", !.seq = nextSeq]]
    /\ nextSeq' = nextSeq + 1
    /\ UNCHANGED <<pc, batch, sent, cursor, late, faults>>

CommitTx(e) ==
    /\ row[e].status = "inserting"
    /\ row' = [row EXCEPT ![e] = [@ EXCEPT !.status = "pending", !.ready = TRUE]]
    /\ UNCHANGED <<nextSeq, pc, batch, sent, cursor, late, faults>>

RollbackTx(e) ==
    /\ row[e].status = "inserting"
    /\ row' = [row EXCEPT ![e] = [@ EXCEPT !.status = "aborted"]]
    /\ UNCHANGED <<nextSeq, pc, batch, sent, cursor, late, faults>>

-----------------------------------------------------------------------------
(* Outbox worker.                                                          *)

(* RunOutboxWorker starts by releasing rows abandoned by a crashed worker; *)
(* an error of ResetStuckJobs is only logged.                              *)
Start(w) ==
    /\ pc[w] = "down"
    /\ pc' = [pc EXCEPT ![w] = "idle"]
    /\ \/ row' = [e \in Events |->
                    IF row[e].status = "processing" /\ row[e].expired
                    THEN [row[e] EXCEPT !.status = "pending", !.expired = FALSE]
                    ELSE row[e]]
       \/ UNCHANGED row
    /\ UNCHANGED <<nextSeq, batch, sent, cursor, late, faults>>

(* ClaimPending: one transaction, FOR UPDATE SKIP LOCKED.                  *)
ClaimPending(w) ==
    /\ pc[w] = "idle"
    /\ ClaimSet # {}
    /\ row' = ClaimRows(ClaimSet)
    /\ batch' = [batch EXCEPT ![w] =
                    {[ev |-> e, attempts |-> row[e].attempts + 1] : e \in ClaimSet}]
    /\ pc' = [pc EXCEPT ![w] = "send"]
    /\ UNCHANGED <<nextSeq, sent, cursor, late, faults>>

(* The claim commits but its answer is lost; the policy retries the call,  *)
(* which claims other rows, and nobody works on these.                     *)
ClaimAnswerLost(w) ==
    /\ pc[w] = "idle"
    /\ ClaimSet # {}
    /\ Fault
    /\ row' = ClaimRows(ClaimSet)
    /\ UNCHANGED <<nextSeq, pc, batch, sent, cursor, late>>

(* PublishWithID with the event id as message id.  JetStream stores the    *)
(* message, or drops it as a duplicate of a recent one.                    *)
PublishAcked(w) ==
    /\ pc[w] = "send"
    /\ \E j \in batch[w] :
          /\ IsHead(w, j)
          /\ \/ sent' = sent \cup {<<j.ev, j.attempts>>}
             \/ WasSent(j.ev) /\ UNCHANGED sent
    /\ pc' = [pc EXCEPT ![w] = "ack"]
    /\ UNCHANGED <<row, nextSeq, batch, cursor, late, faults>>

(* The publish fails, before or after JetStream stored the message.        *)
PublishFailed(w) ==
    /\ pc[w] = "send"
    /\ \E j \in batch[w] :
          /\ IsHead(w, j)
          /\ sent' \in {sent, sent \cup {<<j.ev, j.attempts>>}}
    /\ pc' = [pc EXCEPT ![w] = "nack"]
    /\ UNCHANGED <<row, nextSeq, batch, cursor, late, faults>>

MarkPublished(w) ==
    /\ pc[w] \in {"ack", "reack"}
    /\ \E j \in batch[w] :
          /\ IsHead(w, j)
          /\ row' = PublishedRow(j.ev)
          /\ UpdateConsumerCursor(j.ev, "active")
          /\ Advance(w, j)
    /\ UNCHANGED <<nextSeq, sent, late>>

(* A timeout or another error worth a retry, the UPDATE applied or not:    *)
(* after a backoff the policy runs it again.                               *)
RepeatPublished(w) ==
    /\ pc[w] = "ack"
    /\ Fault
    /\ \E j \in batch[w] : IsHead(w, j) /\ row' \in {row, PublishedRow(j.ev)}
    /\ pc' = [pc EXCEPT ![w] = "reack"]
    /\ UNCHANGED <<nextSeq, batch, sent, cursor, late>>

(* ProcessPending returns at the last error of MarkPublished, applied or   *)
(* not, and abandons the rest of the batch.                                *)
MarkPublishedError(w) ==
    /\ pc[w] \in {"ack", "reack"}
    /\ Fault
    /\ \E j \in batch[w] :
          /\ IsHead(w, j)
          /\ row' \in {row, PublishedRow(j.ev)}
    /\ batch' = [batch EXCEPT ![w] = {}]
    /\ pc' = [pc EXCEPT ![w] = "idle"]
    /\ UNCHANGED <<nextSeq, sent, cursor, late>>

(* The failure UPDATE goes by id: a second run of it finds the row as the  *)
(* first left it, or claimed again, or published since.                    *)
MarkFailed(w) ==
    /\ pc[w] \in {"nack", "renack"}
    /\ \E j \in batch[w] :
          /\ IsHead(w, j)
          /\ row' = FailedRow(j)
          /\ UpdateConsumerCursor(j.ev, FailureStatus(j))
          /\ Advance(w, j)
    /\ UNCHANGED <<nextSeq, sent, late>>

(* The same for the failure.  Applied, the row waits in "failed" and any   *)
(* worker may claim it before the second UPDATE; a dead row nobody claims. *)
RepeatFailed(w) ==
    /\ pc[w] = "nack"
    /\ Fault
    /\ \E j \in batch[w] :
          /\ IsHead(w, j)
          /\ \/ UNCHANGED <<row, late>>
             \/ /\ row' = FailedRow(j)
                /\ late' = IF j.attempts < MaxAttempts THEN late \cup {j.ev} ELSE late
    /\ pc' = [pc EXCEPT ![w] = "renack"]
    /\ UNCHANGED <<nextSeq, batch, sent, cursor>>

(* The last error of MarkFailed is logged and the worker goes on.          *)
MarkFailedError(w) ==
    /\ pc[w] \in {"nack", "renack"}
    /\ Fault
    /\ \E j \in batch[w] :
          /\ IsHead(w, j)
          /\ row' \in {row, FailedRow(j)}
          /\ cursor' \in {cursor, CursorAt(j.ev, FailureStatus(j))}
          /\ Advance(w, j)
    /\ UNCHANGED <<nextSeq, sent, late>>

(* The node dies, at any point of the batch.                               *)
Crash(w) ==
    /\ pc[w] # "down"
    /\ Fault
    /\ pc' = [pc EXCEPT ![w] = "down"]
    /\ batch' = [batch EXCEPT ![w] = {}]
    /\ UNCHANGED <<row, nextSeq, sent, cursor, late>>

-----------------------------------------------------------------------------
(* Time.                                                                   *)

BackoffElapsed(e) ==
    /\ row[e].status \in Committed
    /\ ~row[e].ready
    /\ row' = [row EXCEPT ![e] = [@ EXCEPT !.ready = TRUE]]
    /\ UNCHANGED <<nextSeq, pc, batch, sent, cursor, late, faults>>

(* Five minutes after the claim.  It is a fault of a worker, and recorded, *)
(* when a worker still holds the job.                                      *)
LeaseExpires(e) ==
    /\ row[e].status = "processing"
    /\ ~row[e].expired
    /\ row' = [row EXCEPT ![e] = [@ EXCEPT !.expired = TRUE]]
    /\ IF HeldBySome(e)
       THEN Fault /\ late' = late \cup {e}
       ELSE UNCHANGED <<late, faults>>
    /\ UNCHANGED <<nextSeq, pc, batch, sent, cursor>>

-----------------------------------------------------------------------------
Next ==
    \/ \E e \in Events :
          \/ Enqueue(e) \/ CommitTx(e) \/ RollbackTx(e)
          \/ BackoffElapsed(e) \/ LeaseExpires(e)
    \/ \E w \in Workers :
          \/ Start(w) \/ ClaimPending(w) \/ ClaimAnswerLost(w)
          \/ PublishAcked(w) \/ PublishFailed(w)
          \/ MarkPublished(w) \/ RepeatPublished(w) \/ MarkPublishedError(w)
          \/ MarkFailed(w) \/ RepeatFailed(w) \/ MarkFailedError(w)
          \/ Crash(w)

Spec == Init /\ [][Next]_vars

(* reliability.Supervise restarts a worker that stopped; the ticker keeps  *)
(* a running one going; clocks advance.                                    *)
WorkerStep(w) ==
    \/ ClaimPending(w) \/ PublishAcked(w) \/ PublishFailed(w)
    \/ MarkPublished(w) \/ MarkFailed(w)

Fairness ==
    /\ \A w \in Workers : WF_vars(Start(w)) /\ WF_vars(WorkerStep(w))
    /\ \A e \in Events : WF_vars(BackoffElapsed(e)) /\ WF_vars(LeaseExpires(e))

LiveSpec == Spec /\ Fairness

-----------------------------------------------------------------------------
(* Two workers never have the same job in hand while its lease runs: the   *)
(* claim's row lock and locked_at make a lease.  A job is shared only once *)
(* a worker overran its five minutes on it, or the policy repeated a       *)
(* failure UPDATE that had already released it.                            *)
LeaseExclusive ==
    \A e \in Events \ late : \A v, w \in Workers :
        e \in Held(v) /\ e \in Held(w) => v = w

(* ProcessPending marks a row published only after JetStream stored the    *)
(* message, whatever crashes, lost answers and late workers came between.  *)
PublishedWasSent ==
    \A e \in Events :
        row[e].status = "published" => \E k \in 1 .. row[e].attempts : <<e, k>> \in sent

(* Nothing is published for a transaction that did not commit, and each    *)
(* claim sends its event at most once, so an event reaches the stream at   *)
(* most as often as it was claimed.                                        *)
SentWasClaimed ==
    \A m \in sent : /\ row[m[1]].status \in Committed
                    /\ m[2] \in 1 .. row[m[1]].attempts

(* A row is dead-lettered only after max_attempts claims.                  *)
DeadIsExhausted ==
    \A e \in Events : row[e].status = "dead" => row[e].attempts >= MaxAttempts

(* A published or dead row changes status only if some worker overran its  *)
(* lease on it, or repeats a failure UPDATE that had released it: both     *)
(* MarkPublished and MarkFailed update by id alone.                        *)
SettledIsFinal ==
    [][\A e \in Events :
         row[e].status \in Settled /\ e \notin late
            => row'[e].status = row[e].status]_vars

(* Every committed event is eventually published or dead, for good, once   *)
(* faults stop: abandoned leases expire and are claimed again.             *)
EventuallySettled ==
    \A e \in Events :
        row[e].status = "pending" ~> [](row[e].status \in Settled)

-----------------------------------------------------------------------------
(* The queue the workers, leases and retries amount to.                    *)
SettledAs(st) == IF st \in Settled THEN st ELSE "open"

Queue == INSTANCE DurableQueue WITH
            accepted  <- {e \in Events : row[e].status \in Committed},
            delivered <- {e \in Events : WasSent(e)},
            outcome   <- [e \in Events |-> SettledAs(row[e].status)],
            late      <- late

(* The outbox implements that queue: every step of a producer, a worker or *)
(* a clock is one step of DurableQueue on one event, or none.              *)
ImplementsQueue == Queue!Spec

=============================================================================
