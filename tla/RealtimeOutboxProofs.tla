------------------------ MODULE RealtimeOutboxProofs ------------------------
(***************************************************************************)
(* The safety of the durable realtime queue, for any number of events,     *)
(* workers, attempts and faults.                                           *)
(***************************************************************************)
EXTENDS RealtimeOutbox, TLAPS

(* The rows after each kind of UPDATE are rows of the table.               *)
LEMMA RowUpdates ==
    ASSUME row \in [Events -> Row], NEW e \in Events, NEW n \in Nat,
           NEW s \in Statuses, NEW b \in BOOLEAN
    PROVE  /\ [row EXCEPT ![e] = [@ EXCEPT !.status = s]] \in [Events -> Row]
           /\ [row EXCEPT ![e] = [@ EXCEPT !.status = s, !.seq = n]] \in [Events -> Row]
           /\ [row EXCEPT ![e] = [@ EXCEPT !.status = s, !.ready = b]] \in [Events -> Row]
           /\ [row EXCEPT ![e] = [@ EXCEPT !.ready = b]] \in [Events -> Row]
           /\ [row EXCEPT ![e] = [@ EXCEPT !.expired = b]] \in [Events -> Row]
BY DEF Row

(* The updates of MarkPublished and MarkFailed leave a table of rows.      *)
LEMMA OutcomesTyped ==
    ASSUME row \in [Events -> Row], NEW j \in Job
    PROVE  /\ PublishedRow(j.ev) \in [Events -> Row]
           /\ FailedRow(j) \in [Events -> Row]
<1>1. j.ev \in Events
  BY DEF Job
<1>2. PublishedRow(j.ev) \in [Events -> Row]
  BY <1>1 DEF PublishedRow, Row, Statuses
<1>3. FailedRow(j) \in [Events -> Row]
  <2>1. CASE j.attempts >= MaxAttempts
    BY <1>1, <2>1 DEF FailedRow, Row, Statuses
  <2>2. CASE ~(j.attempts >= MaxAttempts)
    BY <1>1, <2>2 DEF FailedRow, Row, Statuses
  <2>3. QED
    BY <2>1, <2>2
<1>4. QED
  BY <1>2, <1>3

(* The UPDATE of the claim leaves a table of rows, whatever it claims.     *)
LEMMA ClaimTyped ==
    ASSUME row \in [Events -> Row], NEW S
    PROVE  ClaimRows(S) \in [Events -> Row]
<1>1. ASSUME NEW r \in Row
      PROVE  [r EXCEPT !.status = "processing", !.attempts = @ + 1, !.expired = FALSE] \in Row
  <2>1. r.attempts + 1 \in Nat
    BY DEF Row
  <2>2. ASSUME NEW n \in Nat
        PROVE  [r EXCEPT !.status = "processing", !.attempts = n, !.expired = FALSE] \in Row
    BY DEF Row, Statuses
  <2>3. QED
    BY <2>1, <2>2
<1>2. QED
  BY <1>1 DEF ClaimRows

(* ResetStuckJobs at a worker's start leaves a table of rows.              *)
LEMMA ResetTyped ==
    ASSUME row \in [Events -> Row], NEW S
    PROVE  [e \in Events |-> IF row[e].status = "processing" /\ row[e].expired
                             THEN [row[e] EXCEPT !.status = "pending", !.expired = FALSE]
                             ELSE row[e]] \in [Events -> Row]
<1>1. ASSUME NEW r \in Row
      PROVE  [r EXCEPT !.status = "pending", !.expired = FALSE] \in Row
  BY DEF Row, Statuses
<1>2. QED
  BY <1>1

(* UpdateConsumerCursor writes a sequence and a status of the cursor row.  *)
LEMMA CursorTyped ==
    ASSUME TypeOK, NEW e \in Events, NEW st \in {"idle", "active", "degraded", "failed"}
    PROVE  CursorAt(e, st) \in [seq : Nat, status : {"idle", "active", "degraded", "failed"}]
<1>1. row[e].seq \in Nat
  BY DEF TypeOK, Row
<1>2. cursor.seq \in Nat
  BY DEF TypeOK
<1>3. QED
  BY <1>1, <1>2 DEF CursorAt

-----------------------------------------------------------------------------
(* Every step of producers, workers and clocks keeps the variables typed.  *)
LEMMA TypeStep == TypeOK /\ [Next]_vars => TypeOK'
<1> SUFFICES ASSUME TypeOK, [Next]_vars PROVE TypeOK'
  OBVIOUS
<1>0. row \in [Events -> Row]
  BY DEF TypeOK
<1> USE DEF PCs
<1>1. CASE UNCHANGED vars
  BY <1>1 DEF vars, TypeOK
<1>2. ASSUME NEW e \in Events, Enqueue(e) PROVE TypeOK'
  <2>1. row' \in [Events -> Row]
    BY <1>0, <1>2, RowUpdates DEF Enqueue, TypeOK, Statuses
  <2>2. QED
    BY <1>2, <2>1 DEF Enqueue, TypeOK
<1>3. ASSUME NEW e \in Events, CommitTx(e) PROVE TypeOK'
  <2>1. row' \in [Events -> Row]
    BY <1>0, <1>3, RowUpdates DEF CommitTx, Statuses
  <2>2. QED
    BY <1>3, <2>1 DEF CommitTx, TypeOK
<1>4. ASSUME NEW e \in Events, RollbackTx(e) PROVE TypeOK'
  <2>1. row' \in [Events -> Row]
    BY <1>0, <1>4, RowUpdates DEF RollbackTx, Statuses
  <2>2. QED
    BY <1>4, <2>1 DEF RollbackTx, TypeOK
<1>5. ASSUME NEW e \in Events, BackoffElapsed(e) PROVE TypeOK'
  <2>1. row' \in [Events -> Row]
    BY <1>0, <1>5, RowUpdates DEF BackoffElapsed, Statuses
  <2>2. QED
    BY <1>5, <2>1 DEF BackoffElapsed, TypeOK
<1>6. ASSUME NEW e \in Events, LeaseExpires(e) PROVE TypeOK'
  <2>1. row' \in [Events -> Row]
    BY <1>0, <1>6, RowUpdates DEF LeaseExpires, Statuses
  <2>2. QED
    BY <1>6, <2>1 DEF LeaseExpires, Fault, TypeOK
<1>7. ASSUME NEW w \in Workers, Start(w) PROVE TypeOK'
  <2>1. row' \in [Events -> Row]
    BY <1>0, <1>7, ResetTyped DEF Start
  <2>2. QED
    BY <1>7, <2>1 DEF Start, TypeOK
<1>8. ASSUME NEW w \in Workers, ClaimPending(w) PROVE TypeOK'
  <2>1. row' \in [Events -> Row]
    BY <1>0, <1>8, ClaimTyped DEF ClaimPending
  <2>2. {[ev |-> e, attempts |-> row[e].attempts + 1] : e \in ClaimSet} \subseteq Job
    <3>1. ASSUME NEW e \in Events
          PROVE  [ev |-> e, attempts |-> row[e].attempts + 1] \in Job
      BY <1>0 DEF Job, Row
    <3>2. QED
      BY <3>1 DEF ClaimSet
  <2>3. QED
    BY <1>8, <2>1, <2>2 DEF ClaimPending, TypeOK
<1>9. ASSUME NEW w \in Workers, ClaimAnswerLost(w) PROVE TypeOK'
  <2>1. row' \in [Events -> Row]
    BY <1>0, <1>9, ClaimTyped DEF ClaimAnswerLost
  <2>2. QED
    BY <1>9, <2>1 DEF ClaimAnswerLost, Fault, TypeOK
<1>10. ASSUME NEW w \in Workers, PublishAcked(w) PROVE TypeOK'
  BY <1>10 DEF PublishAcked, IsHead, Job, TypeOK
<1>11. ASSUME NEW w \in Workers, PublishFailed(w) PROVE TypeOK'
  BY <1>11 DEF PublishFailed, IsHead, Job, TypeOK
<1>12. ASSUME NEW w \in Workers, MarkPublished(w) PROVE TypeOK'
  <2>1. PICK j \in batch[w] : /\ row' = PublishedRow(j.ev)
                              /\ UpdateConsumerCursor(j.ev, "active")
                              /\ Advance(w, j)
    BY <1>12 DEF MarkPublished, IsHead
  <2>2. j \in Job /\ j.ev \in Events
    BY <2>1 DEF TypeOK, Job
  <2>3. row' \in [Events -> Row]
    BY <1>0, <2>1, <2>2, OutcomesTyped
  <2>4. QED
    BY <1>12, <2>1, <2>2, <2>3, CursorTyped
    DEF MarkPublished, UpdateConsumerCursor, Advance, Fault, TypeOK
<1>13. ASSUME NEW w \in Workers, MarkPublishedError(w) PROVE TypeOK'
  <2>1. PICK j \in batch[w] : row' \in {row, PublishedRow(j.ev)}
    BY <1>13 DEF MarkPublishedError, IsHead
  <2>2. row' \in [Events -> Row]
    BY <1>0, <2>1, OutcomesTyped DEF TypeOK
  <2>3. QED
    BY <1>13, <2>2 DEF MarkPublishedError, Fault, TypeOK
<1>14. ASSUME NEW w \in Workers, MarkFailed(w) PROVE TypeOK'
  <2>1. PICK j \in batch[w] : /\ row' = FailedRow(j)
                              /\ UpdateConsumerCursor(j.ev, FailureStatus(j))
                              /\ Advance(w, j)
    BY <1>14 DEF MarkFailed, IsHead
  <2>2. j \in Job /\ j.ev \in Events
    BY <2>1 DEF TypeOK, Job
  <2>3. row' \in [Events -> Row]
    BY <1>0, <2>1, <2>2, OutcomesTyped
  <2>4. FailureStatus(j) \in {"idle", "active", "degraded", "failed"}
    BY DEF FailureStatus
  <2>5. QED
    BY <1>14, <2>1, <2>2, <2>3, <2>4, CursorTyped
    DEF MarkFailed, UpdateConsumerCursor, Advance, Fault, TypeOK
<1>15. ASSUME NEW w \in Workers, MarkFailedError(w) PROVE TypeOK'
  <2>1. PICK j \in batch[w] : /\ row' \in {row, FailedRow(j)}
                              /\ cursor' \in {cursor, CursorAt(j.ev, FailureStatus(j))}
                              /\ Advance(w, j)
    BY <1>15 DEF MarkFailedError, IsHead
  <2>2. j \in Job /\ j.ev \in Events
    BY <2>1 DEF TypeOK, Job
  <2>3. row' \in [Events -> Row]
    BY <1>0, <2>1, <2>2, OutcomesTyped
  <2>4. FailureStatus(j) \in {"idle", "active", "degraded", "failed"}
    BY DEF FailureStatus
  <2>5. QED
    BY <1>15, <2>1, <2>2, <2>3, <2>4, CursorTyped
    DEF MarkFailedError, Advance, Fault, TypeOK
<1>16. ASSUME NEW w \in Workers, Crash(w) PROVE TypeOK'
  BY <1>16 DEF Crash, Fault, TypeOK
<1>17. ASSUME NEW w \in Workers, RepeatPublished(w) PROVE TypeOK'
  <2>1. PICK j \in batch[w] : row' \in {row, PublishedRow(j.ev)}
    BY <1>17 DEF RepeatPublished, IsHead
  <2>2. row' \in [Events -> Row]
    BY <1>0, <2>1, OutcomesTyped DEF TypeOK
  <2>3. QED
    BY <1>17, <2>2 DEF RepeatPublished, Fault, TypeOK
<1>18. ASSUME NEW w \in Workers, RepeatFailed(w) PROVE TypeOK'
  <2>1. PICK j \in batch[w] :
            \/ row' = row /\ late' = late
            \/ row' = FailedRow(j) /\ late' \in {late, late \cup {j.ev}}
    BY <1>18 DEF RepeatFailed, IsHead
  <2>2. j \in Job /\ j.ev \in Events
    BY <2>1 DEF TypeOK, Job
  <2>3. row' \in [Events -> Row] /\ late' \in SUBSET Events
    BY <1>0, <2>1, <2>2, OutcomesTyped DEF TypeOK
  <2>4. QED
    BY <1>18, <2>3 DEF RepeatFailed, Fault, TypeOK
<1>19. QED
  BY <1>1, <1>2, <1>3, <1>4, <1>5, <1>6, <1>7, <1>8, <1>9, <1>10, <1>11,
     <1>12, <1>13, <1>14, <1>15, <1>16, <1>17, <1>18 DEF Next

(* Every reachable state has the right types.                              *)
THEOREM TypeCorrect == Spec => []TypeOK
<1>1. Init => TypeOK
  BY OutboxAssumption DEF Init, TypeOK, Row, Job, Statuses, PCs
<1>2. QED
  BY <1>1, TypeStep, PTL DEF Spec

-----------------------------------------------------------------------------
(* The inductive invariant.                                                *)

BatchEndsIdle == \A w \in Workers : pc[w] \in {"down", "idle"} => batch[w] = {}

OneJobPerEvent ==
    \A w \in Workers : \A j, k \in batch[w] : j.ev = k.ev => j = k

SequencesDiffer ==
    \A e, f \in Events :
        row[e].status # "absent" =>
            /\ row[e].seq < nextSeq
            /\ row[f].status # "absent" /\ row[e].seq = row[f].seq => e = f

HeldWasClaimed ==
    \A w \in Workers : \A j \in batch[w] :
        /\ row[j.ev].status \in Committed
        /\ 1 <= j.attempts /\ j.attempts <= row[j.ev].attempts

(* The row of e is as its claim left it.                                   *)
Running(e) == row[e].status = "processing" /\ ~row[e].expired

(* The row of w's head job already tells the outcome w is about to repeat. *)
Recorded(w, j) ==
    /\ IsHead(w, j)
    /\ \/ pc[w] = "reack" /\ row[j.ev].status = "published"
       \/ /\ pc[w] = "renack" /\ row[j.ev].status = "dead"
          /\ j.attempts >= MaxAttempts

(* The lease itself: while it runs the row stays as the claim left it, but *)
(* for an outcome of the holder's own whose answer was lost.               *)
LeaseHolds ==
    \A w \in Workers : \A j \in batch[w] :
        j.ev \notin late => Running(j.ev) \/ Recorded(w, j)

AckedWasSent ==
    \A w \in Workers : \A j \in batch[w] :
        pc[w] \in {"ack", "reack"} /\ IsHead(w, j) => WasSent(j.ev)

IInv ==
    /\ TypeOK
    /\ BatchEndsIdle /\ OneJobPerEvent /\ SequencesDiffer
    /\ HeldWasClaimed /\ LeaseHolds /\ AckedWasSent
    /\ LeaseExclusive /\ SentWasClaimed /\ PublishedWasSent /\ DeadIsExhausted

-----------------------------------------------------------------------------
(* What every step but a claim leaves of the invariant's subject: rows only *)
(* go forward, batches shrink, nothing is sent that is not held, and a job  *)
(* in hand keeps its row while its lease runs.                              *)

RowForward(e) ==
    /\ row[e].attempts <= row'[e].attempts
    /\ row[e].status # "absent" => row'[e].status # "absent" /\ row'[e].seq = row[e].seq
    /\ row[e].status \in Committed => row'[e].status \in Committed
    /\ row'[e].status = "published" => row[e].status = "published" \/ WasSent(e)
    /\ row'[e].status = "dead" => row[e].status = "dead" \/ row[e].attempts >= MaxAttempts

NoneEnqueued ==
    /\ nextSeq' = nextSeq
    /\ \A e \in Events : row'[e].status # "absent" => row[e].status # "absent"

SentFromBatches ==
    /\ sent \subseteq sent'
    /\ \A m \in sent' \ sent : \E w \in Workers : \E j \in batch[w] : m = <<j.ev, j.attempts>>

LeasedUntouched ==
    \A w \in Workers : \A j \in batch'[w] :
        j.ev \notin late' => /\ row'[j.ev].status = row[j.ev].status
                             /\ row'[j.ev].expired = row[j.ev].expired

(* A worker stays where it is, or none of its jobs is about to be settled  *)
(* a second time.                                                          *)
HandsKept ==
    \A w \in Workers :
        \/ batch'[w] = batch[w] /\ pc'[w] = pc[w]
        \/ \A j \in batch'[w] : j.ev \notin late' => Running(j.ev)

Quiet ==
    /\ \A e \in Events : RowForward(e)
    /\ SequencesDiffer'
    /\ SentFromBatches
    /\ late \subseteq late'
    /\ \A w \in Workers : batch'[w] \subseteq batch[w]
    /\ BatchEndsIdle'
    /\ LeaseHolds'
    /\ AckedWasSent'

(* A step that inserts no row keeps the sequence numbers distinct and drawn. *)
LEMMA SequencesKept ==
    ASSUME TypeOK, SequencesDiffer, NoneEnqueued, \A e \in Events : RowForward(e)
    PROVE  SequencesDiffer'
BY DEF SequencesDiffer, NoneEnqueued, RowForward

(* A quiet step, one that claims nothing new, keeps the inductive invariant. *)
LEMMA QuietKeeps == ASSUME IInv, TypeOK', Quiet PROVE IInv'
<1> USE DEF IInv
<1>1. OneJobPerEvent'
  BY DEF Quiet, OneJobPerEvent
<1>2. \A w \in Workers : \A j \in batch'[w] :
          j \in batch[w] /\ j.ev \in Events /\ j.attempts \in Nat
  BY DEF Quiet, TypeOK, Job
<1>3. HeldWasClaimed'
  BY <1>2 DEF Quiet, HeldWasClaimed, RowForward, TypeOK, Row
<1>4. LeaseHolds'
  BY DEF Quiet
<1>5. LeaseExclusive'
  BY <1>2 DEF Quiet, LeaseExclusive, Held
<1>6. SentWasClaimed'
  <2> SUFFICES ASSUME NEW m \in sent'
               PROVE  /\ row'[m[1]].status \in Committed
                      /\ m[2] \in 1 .. row'[m[1]].attempts
    BY DEF SentWasClaimed
  <2>1. m[1] \in Events /\ m[2] \in Nat
    BY DEF TypeOK
  <2>2. row[m[1]].attempts \in Nat /\ row'[m[1]].attempts \in Nat
    BY <2>1 DEF TypeOK, Row
  <2>3. RowForward(m[1])
    BY <2>1 DEF Quiet
  <2>4. CASE m \in sent
    BY <2>1, <2>2, <2>3, <2>4 DEF SentWasClaimed, RowForward
  <2>5. CASE m \notin sent
    <3>1. PICK w \in Workers : \E j \in batch[w] : m = <<j.ev, j.attempts>>
      BY <2>5 DEF Quiet, SentFromBatches
    <3>2. PICK j \in batch[w] : m = <<j.ev, j.attempts>>
      BY <3>1
    <3>3. m[1] = j.ev /\ m[2] = j.attempts
      BY <3>2
    <3>4. QED
      BY <2>1, <2>2, <2>3, <3>3 DEF HeldWasClaimed, RowForward
  <2>6. QED
    BY <2>4, <2>5
<1>7. PublishedWasSent'
  <2> SUFFICES ASSUME NEW e \in Events, row'[e].status = "published"
               PROVE  \E k \in 1 .. row'[e].attempts : <<e, k>> \in sent'
    BY DEF PublishedWasSent
  <2>1. RowForward(e) /\ sent \subseteq sent'
    BY DEF Quiet, SentFromBatches
  <2>2. row[e].attempts \in Nat /\ row'[e].attempts \in Nat
    BY DEF TypeOK, Row
  <2>3. \E k \in 1 .. row[e].attempts : <<e, k>> \in sent
    <3>1. CASE row[e].status = "published"
      BY <3>1 DEF PublishedWasSent
    <3>2. CASE WasSent(e)
      <4>1. PICK m \in sent : m[1] = e
        BY <3>2 DEF WasSent
      <4>2. m = <<e, m[2]>>
        BY <4>1 DEF TypeOK
      <4>3. QED
        BY <4>1, <4>2 DEF SentWasClaimed
    <3>3. QED
      BY <3>1, <3>2, <2>1 DEF RowForward
  <2>4. QED
    BY <2>1, <2>2, <2>3 DEF RowForward
<1>8. DeadIsExhausted'
  BY OutboxAssumption DEF Quiet, RowForward, DeadIsExhausted, TypeOK, Row
<1>9. QED
  BY <1>1, <1>3, <1>4, <1>5, <1>6, <1>7, <1>8 DEF Quiet

(* The order of a batch never changes: sequences are drawn once.           *)
LEMMA HeadKept ==
    ASSUME IInv, \A e \in Events : RowForward(e), NEW w \in Workers,
           batch'[w] = batch[w], NEW j
    PROVE  IsHead(w, j)' <=> IsHead(w, j)
<1>1. \A k \in batch[w] : k.ev \in Events /\ row[k.ev].status # "absent"
  BY DEF IInv, TypeOK, Job, HeldWasClaimed, Committed
<1>2. \A k \in batch[w] : row'[k.ev].seq = row[k.ev].seq
  BY <1>1 DEF RowForward
<1>3. QED
  BY <1>2 DEF IsHead

(* A worker waiting to mark its job published keeps its head.              *)
LEMMA AckKept ==
    ASSUME IInv, \A e \in Events : RowForward(e), sent \subseteq sent',
           \A w \in Workers : pc'[w] \in {"ack", "reack"} =>
               pc[w] \in {"ack", "reack"} /\ batch'[w] = batch[w]
    PROVE  AckedWasSent'
<1> SUFFICES ASSUME NEW w \in Workers, NEW j \in batch'[w],
                    pc'[w] \in {"ack", "reack"}, IsHead(w, j)'
             PROVE  WasSent(j.ev)'
  BY DEF AckedWasSent
<1>1. pc[w] \in {"ack", "reack"} /\ batch'[w] = batch[w]
  OBVIOUS
<1>2. IsHead(w, j)
  BY <1>1, HeadKept
<1>3. QED
  BY <1>1, <1>2 DEF IInv, AckedWasSent, WasSent

(* A step that leaves the rows of leased jobs alone leaves the leases.     *)
LEMMA LeaseKept ==
    ASSUME IInv, \A e \in Events : RowForward(e), late \subseteq late',
           \A w \in Workers : batch'[w] \subseteq batch[w],
           LeasedUntouched, HandsKept
    PROVE  LeaseHolds'
<1> SUFFICES ASSUME NEW w \in Workers, NEW j \in batch'[w], j.ev \notin late'
             PROVE  Running(j.ev)' \/ Recorded(w, j)'
  BY DEF LeaseHolds
<1>1. /\ row'[j.ev].status = row[j.ev].status /\ row'[j.ev].expired = row[j.ev].expired
      /\ Running(j.ev) \/ Recorded(w, j)
  BY DEF LeasedUntouched, IInv, LeaseHolds
<1>2. CASE Running(j.ev)
  BY <1>1, <1>2 DEF Running
<1>3. CASE Recorded(w, j) /\ batch'[w] = batch[w] /\ pc'[w] = pc[w]
  <2>1. IsHead(w, j)'
    BY <1>3, HeadKept DEF Recorded
  <2>2. QED
    BY <1>1, <1>3, <2>1 DEF Recorded
<1>4. QED
  BY <1>1, <1>2, <1>3 DEF HandsKept

(* The INSERT of an event by a domain transaction is quiet.                *)
LEMMA EnqueueQuiet == ASSUME IInv, NEW e \in Events, Enqueue(e) PROVE Quiet
<1> USE DEF IInv
<1>1. /\ row'[e].status = "inserting" /\ row'[e].seq = nextSeq
      /\ row'[e].attempts = row[e].attempts
      /\ \A f \in Events \ {e} : row'[f] = row[f]
  BY DEF Enqueue, TypeOK, Row
<1>2. row[e].status = "absent" /\ nextSeq' = nextSeq + 1 /\ sent' = sent
      /\ late' = late /\ batch' = batch /\ pc' = pc
  BY DEF Enqueue
<1>3. \A f \in Events : RowForward(f)
  <2>1. row[e].attempts \in Nat
    BY DEF TypeOK, Row
  <2>2. RowForward(e)
    BY <1>1, <1>2, <2>1 DEF RowForward, Committed
  <2>3. ASSUME NEW f \in Events \ {e} PROVE RowForward(f)
    <3>1. row[f].attempts \in Nat
      BY DEF TypeOK, Row
    <3>2. QED
      BY <1>1, <3>1 DEF RowForward
  <2>4. QED
    BY <2>2, <2>3
<1>4. SequencesDiffer'
  BY <1>1, <1>2 DEF SequencesDiffer, TypeOK, Row
<1>5. LeasedUntouched
  <2>1. \A w \in Workers : \A j \in batch[w] : j.ev \in Events /\ j.ev # e
    BY <1>2 DEF HeldWasClaimed, Committed, TypeOK, Job
  <2>2. QED
    BY <1>1, <1>2, <2>1 DEF LeasedUntouched
<1>6. AckedWasSent'
  BY <1>2, <1>3, AckKept
<1>7. LeaseHolds'
  BY <1>2, <1>3, <1>5, LeaseKept DEF HandsKept
<1>8. QED
  BY <1>2, <1>3, <1>4, <1>6, <1>7 DEF Quiet, SentFromBatches, BatchEndsIdle

(* A step that enqueues nothing and leaves every worker's message in       *)
(* flight alone is quiet if it moves rows forward and respects leases.     *)
LEMMA QuietFromRows ==
    ASSUME IInv, NoneEnqueued, \A e \in Events : RowForward(e), sent' = sent,
           late \subseteq late', LeaseHolds', BatchEndsIdle',
           \A w \in Workers : batch'[w] \subseteq batch[w],
           \A w \in Workers : pc'[w] \in {"ack", "reack"} =>
               pc[w] \in {"ack", "reack"} /\ batch'[w] = batch[w]
    PROVE  Quiet
<1>1. SequencesDiffer'
  BY SequencesKept DEF IInv
<1>2. AckedWasSent'
  BY AckKept
<1>3. QED
  BY <1>1, <1>2 DEF Quiet, SentFromBatches

(* What the invariant says of a job in a worker's batch.                   *)
LEMMA HeldTyped ==
    ASSUME IInv, NEW w \in Workers, NEW j \in batch[w]
    PROVE  /\ j.ev \in Events /\ j.attempts \in Nat
           /\ row[j.ev].status \in Committed
           /\ j.attempts <= row[j.ev].attempts
           /\ j.ev \notin late => Running(j.ev) \/ Recorded(w, j)
BY DEF IInv, TypeOK, Job, HeldWasClaimed, LeaseHolds

(* The commit that makes an event's row visible is quiet.                  *)
LEMMA CommitTxQuiet == ASSUME IInv, NEW e \in Events, CommitTx(e) PROVE Quiet
<1> USE DEF IInv
<1>1. /\ row[e].status = "inserting" /\ row'[e].status = "pending"
      /\ row'[e].seq = row[e].seq /\ row'[e].attempts = row[e].attempts
      /\ \A f \in Events \ {e} : row'[f] = row[f]
  BY DEF CommitTx, TypeOK, Row
<1>2. \A f \in Events : row[f].attempts \in Nat
  BY DEF TypeOK, Row
<1>3. \A f \in Events : RowForward(f)
  BY <1>1, <1>2 DEF RowForward, Committed, Statuses
<1>4. NoneEnqueued
  BY <1>1 DEF CommitTx, NoneEnqueued
<1>5. LeasedUntouched
  BY <1>1, HeldTyped DEF CommitTx, LeasedUntouched, Committed
<1>6. LeaseHolds'
  BY <1>3, <1>5, LeaseKept DEF CommitTx, HandsKept
<1>7. QED
  BY <1>3, <1>4, <1>6, QuietFromRows DEF CommitTx, BatchEndsIdle

(* The rollback that takes an event's row back is quiet.                   *)
LEMMA RollbackTxQuiet == ASSUME IInv, NEW e \in Events, RollbackTx(e) PROVE Quiet
<1> USE DEF IInv
<1>1. /\ row[e].status = "inserting" /\ row'[e].status = "aborted"
      /\ row'[e].seq = row[e].seq /\ row'[e].attempts = row[e].attempts
      /\ \A f \in Events \ {e} : row'[f] = row[f]
  BY DEF RollbackTx, TypeOK, Row
<1>2. \A f \in Events : row[f].attempts \in Nat
  BY DEF TypeOK, Row
<1>3. \A f \in Events : RowForward(f)
  BY <1>1, <1>2 DEF RowForward, Committed, Statuses
<1>4. NoneEnqueued
  BY <1>1 DEF RollbackTx, NoneEnqueued
<1>5. LeasedUntouched
  BY <1>1, HeldTyped DEF RollbackTx, LeasedUntouched, Committed
<1>6. LeaseHolds'
  BY <1>3, <1>5, LeaseKept DEF RollbackTx, HandsKept
<1>7. QED
  BY <1>3, <1>4, <1>6, QuietFromRows DEF RollbackTx, BatchEndsIdle

(* The end of a backoff is quiet.                                          *)
LEMMA BackoffElapsedQuiet == ASSUME IInv, NEW e \in Events, BackoffElapsed(e) PROVE Quiet
<1> USE DEF IInv
<1>1. \A f \in Events : /\ row'[f].status = row[f].status /\ row'[f].seq = row[f].seq
                        /\ row'[f].attempts = row[f].attempts
                        /\ row'[f].expired = row[f].expired
  BY DEF BackoffElapsed, TypeOK, Row
<1>2. \A f \in Events : row[f].attempts \in Nat
  BY DEF TypeOK, Row
<1>3. \A f \in Events : RowForward(f)
  BY <1>1, <1>2 DEF RowForward
<1>4. NoneEnqueued
  BY <1>1 DEF BackoffElapsed, NoneEnqueued
<1>5. LeasedUntouched
  BY <1>1, HeldTyped DEF BackoffElapsed, LeasedUntouched
<1>6. LeaseHolds'
  BY <1>3, <1>5, LeaseKept DEF BackoffElapsed, HandsKept
<1>7. QED
  BY <1>3, <1>4, <1>6, QuietFromRows DEF BackoffElapsed, BatchEndsIdle

(* A lease that runs out on a job in hand is recorded in late.             *)
LEMMA LeaseExpiresQuiet == ASSUME IInv, NEW e \in Events, LeaseExpires(e) PROVE Quiet
<1> USE DEF IInv
<1>1. \A f \in Events : /\ row'[f].status = row[f].status /\ row'[f].seq = row[f].seq
                        /\ row'[f].attempts = row[f].attempts
                        /\ f # e => row'[f].expired = row[f].expired
  BY DEF LeaseExpires, TypeOK, Row
<1>2. \A f \in Events : row[f].attempts \in Nat
  BY DEF TypeOK, Row
<1>3. \A f \in Events : RowForward(f)
  BY <1>1, <1>2 DEF RowForward
<1>4. NoneEnqueued
  BY <1>1 DEF LeaseExpires, NoneEnqueued
<1>5. late \subseteq late' /\ (HeldBySome(e) => e \in late')
  BY DEF LeaseExpires
<1>6. LeasedUntouched
  <2> SUFFICES ASSUME NEW w \in Workers, NEW j \in batch[w], j.ev \notin late'
               PROVE  /\ row'[j.ev].status = row[j.ev].status
                      /\ row'[j.ev].expired = row[j.ev].expired
    BY DEF LeaseExpires, LeasedUntouched
  <2>1. j.ev \in Events
    BY HeldTyped
  <2>2. j.ev # e
    BY <1>5 DEF HeldBySome, Held
  <2>3. QED
    BY <1>1, <2>1, <2>2
<1>7. LeaseHolds'
  BY <1>3, <1>5, <1>6, LeaseKept DEF LeaseExpires, HandsKept
<1>8. QED
  BY <1>3, <1>4, <1>5, <1>7, QuietFromRows DEF LeaseExpires, BatchEndsIdle

(* A worker's start, with ResetStuckJobs, is quiet: it releases expired rows only. *)
LEMMA StartQuiet == ASSUME IInv, NEW w \in Workers, Start(w) PROVE Quiet
<1> USE DEF IInv
<1>1. \A f \in Events :
          /\ row'[f].seq = row[f].seq /\ row'[f].attempts = row[f].attempts
          /\ \/ row'[f].status = row[f].status /\ row'[f].expired = row[f].expired
             \/ row[f].status = "processing" /\ row[f].expired /\ row'[f].status = "pending"
  <2>1. CASE UNCHANGED row
    BY <2>1
  <2>2. CASE ~UNCHANGED row
    <3>1. row' = [e \in Events |->
                    IF row[e].status = "processing" /\ row[e].expired
                    THEN [row[e] EXCEPT !.status = "pending", !.expired = FALSE]
                    ELSE row[e]]
      BY <2>2 DEF Start
    <3>2. ASSUME NEW r \in Row, NEW q, q = [r EXCEPT !.status = "pending", !.expired = FALSE]
          PROVE  q.status = "pending" /\ q.seq = r.seq /\ q.attempts = r.attempts
      BY <3>2 DEF Row
    <3>3. \A f \in Events : row[f] \in Row
      BY DEF TypeOK
    <3>4. QED
      BY <3>1, <3>2, <3>3
  <2>3. QED
    BY <2>1, <2>2
<1>2. \A f \in Events : row[f].attempts \in Nat
  BY DEF TypeOK, Row
<1>3. \A f \in Events : RowForward(f)
  BY <1>1, <1>2 DEF RowForward, Committed, Statuses
<1>4. NoneEnqueued
  BY <1>1 DEF Start, NoneEnqueued
<1>5. LeasedUntouched
  BY <1>1, HeldTyped DEF Start, LeasedUntouched, Running, Recorded
<1>6. BatchEndsIdle'
  BY DEF Start, BatchEndsIdle, TypeOK
<1>7. \A v \in Workers : pc'[v] \in {"ack", "reack"} => pc[v] \in {"ack", "reack"}
  BY DEF Start, TypeOK
<1>8. HandsKept
  BY DEF Start, HandsKept, BatchEndsIdle, TypeOK
<1>9. LeaseHolds'
  BY <1>3, <1>5, <1>8, LeaseKept DEF Start
<1>10. QED
  BY <1>3, <1>4, <1>6, <1>7, <1>9, QuietFromRows DEF Start

(* What a claim does to the rows it takes, and that it takes no job whose  *)
(* lease still runs.                                                       *)
LEMMA ClaimFields ==
    ASSUME IInv, row' = ClaimRows(ClaimSet)
    PROVE  /\ \A e \in ClaimSet :
                 /\ e \in Events /\ row[e].status \in {"pending", "failed", "processing"}
                 /\ row'[e].status = "processing" /\ ~row'[e].expired
                 /\ row'[e].seq = row[e].seq
                 /\ row'[e].attempts = row[e].attempts + 1
           /\ \A e \in Events \ ClaimSet : row'[e] = row[e]
           /\ \A e \in Events : RowForward(e)
           /\ \A w \in Workers : \A j \in batch[w] : j.ev \notin late => j.ev \notin ClaimSet
<1> USE DEF IInv
<1>1. ASSUME NEW e \in ClaimSet
      PROVE  /\ e \in Events /\ row[e].status \in {"pending", "failed", "processing"}
             /\ row[e].status = "processing" => row[e].expired
             /\ row'[e].status = "processing" /\ ~row'[e].expired
             /\ row'[e].seq = row[e].seq
             /\ row'[e].attempts = row[e].attempts + 1
  <2>1. e \in Events /\ Claimable(e)
    BY DEF ClaimSet
  <2>2. PICK n : n = row[e].attempts + 1
    OBVIOUS
  <2>3. row[e] \in Row
    BY <2>1 DEF TypeOK
  <2>4. row'[e] = [row[e] EXCEPT !.status = "processing", !.attempts = n, !.expired = FALSE]
    BY <2>1, <2>2 DEF ClaimRows
  <2>5. /\ row'[e].status = "processing" /\ ~row'[e].expired
        /\ row'[e].seq = row[e].seq
        /\ row'[e].attempts = n
    BY <2>3, <2>4 DEF Row
  <2>6. QED
    BY <2>1, <2>2, <2>5 DEF Claimable
<1>2. \A e \in Events \ ClaimSet : row'[e] = row[e]
  BY DEF ClaimRows
<1>3. \A e \in Events : row[e].attempts \in Nat
  BY DEF TypeOK, Row
<1>4. \A e \in Events : RowForward(e)
  BY <1>1, <1>2, <1>3 DEF RowForward, Committed, Statuses
<1>5. \A w \in Workers : \A j \in batch[w] : j.ev \notin late => j.ev \notin ClaimSet
  BY <1>1, HeldTyped DEF Running, Recorded
<1>6. QED
  BY <1>1, <1>2, <1>4, <1>5

(* A claim whose answer is lost is quiet: nobody holds the claimed rows.   *)
LEMMA ClaimAnswerLostQuiet == ASSUME IInv, NEW w \in Workers, ClaimAnswerLost(w) PROVE Quiet
<1> USE DEF IInv
<1>1. row' = ClaimRows(ClaimSet) /\ UNCHANGED <<nextSeq, pc, batch, sent, late>>
  BY DEF ClaimAnswerLost
<1>2. NoneEnqueued
  BY <1>1, ClaimFields DEF NoneEnqueued
<1>3. LeasedUntouched
  BY <1>1, ClaimFields, HeldTyped DEF LeasedUntouched
<1>4. \A e \in Events : RowForward(e)
  BY <1>1, ClaimFields
<1>5. BatchEndsIdle'
  BY <1>1 DEF BatchEndsIdle
<1>6. LeaseHolds'
  BY <1>1, <1>3, <1>4, LeaseKept DEF HandsKept
<1>7. QED
  BY <1>1, <1>2, <1>4, <1>5, <1>6, QuietFromRows

(* The head of a batch is one job: sequences differ.                       *)
LEMMA HeadIsOne ==
    ASSUME IInv, NEW w \in Workers, NEW j, NEW k, IsHead(w, j), IsHead(w, k)
    PROVE  j = k
<1> USE DEF IInv
<1>1. j \in batch[w] /\ k \in batch[w]
  BY DEF IsHead
<1>2. j.ev \in Events /\ k.ev \in Events
      /\ row[j.ev].status # "absent" /\ row[k.ev].status # "absent"
  BY <1>1, HeldTyped DEF Committed
<1>3. row[j.ev].seq \in Nat /\ row[k.ev].seq \in Nat
  BY <1>2 DEF TypeOK, Row
<1>4. row[j.ev].seq = row[k.ev].seq
  BY <1>1, <1>3 DEF IsHead
<1>5. j.ev = k.ev
  BY <1>2, <1>4 DEF SequencesDiffer
<1>6. QED
  BY <1>1, <1>5 DEF OneJobPerEvent

(* Both outcomes of a publish: at most the head of the batch is sent.      *)
LEMMA SendQuiet ==
    ASSUME IInv, NEW w \in Workers, NEW j, IsHead(w, j), pc[w] = "send",
           sent' = sent \/ sent' = sent \cup {<<j.ev, j.attempts>>},
           NEW l \in {"ack", "nack"}, pc' = [pc EXCEPT ![w] = l],
           l = "ack" => WasSent(j.ev)',
           UNCHANGED <<row, nextSeq, batch, late>>
    PROVE  Quiet
<1> USE DEF IInv
<1>1. j \in batch[w]
  BY DEF IsHead
<1>2. \A e \in Events : row[e].attempts \in Nat
  BY DEF TypeOK, Row
<1>3. \A e \in Events : RowForward(e)
  BY <1>2 DEF RowForward
<1>4. SequencesDiffer'
  BY DEF SequencesDiffer
<1>5. SentFromBatches
  BY <1>1 DEF SentFromBatches
<1>6. BatchEndsIdle'
  BY DEF BatchEndsIdle, TypeOK
<1>7. AckedWasSent'
  <2> SUFFICES ASSUME NEW v \in Workers, NEW k \in batch[v],
                      pc'[v] \in {"ack", "reack"}, IsHead(v, k)'
               PROVE  WasSent(k.ev)'
    BY DEF AckedWasSent
  <2>1. IsHead(v, k)
    BY DEF IsHead
  <2>2. CASE v = w
    <3>1. k = j
      BY <2>1, <2>2, HeadIsOne
    <3>2. WasSent(j.ev)'
      BY <2>2 DEF TypeOK
    <3>3. QED
      BY <3>1, <3>2
  <2>3. CASE v # w
    <3>1. pc[v] \in {"ack", "reack"}
      BY <2>3 DEF TypeOK
    <3>2. WasSent(k.ev)
      BY <2>1, <3>1 DEF AckedWasSent
    <3>3. QED
      BY <3>2, <1>5 DEF WasSent, SentFromBatches
  <2>4. QED
    BY <2>2, <2>3
<1>8. HandsKept
  <2>1. \A v \in Workers \ {w} : pc'[v] = pc[v]
    BY DEF TypeOK
  <2>2. \A k \in batch[w] : k.ev \notin late => Running(k.ev)
    BY HeldTyped DEF Recorded
  <2>3. QED
    BY <2>1, <2>2 DEF HandsKept
<1>9. LeaseHolds'
  BY <1>3, <1>8, LeaseKept DEF LeasedUntouched
<1>10. QED
  BY <1>3, <1>4, <1>5, <1>6, <1>7, <1>9 DEF Quiet

(* An acknowledged publish is quiet.                                       *)
LEMMA PublishAckedQuiet == ASSUME IInv, NEW w \in Workers, PublishAcked(w) PROVE Quiet
<1>1. PICK j \in batch[w] :
          /\ IsHead(w, j)
          /\ \/ sent' = sent \cup {<<j.ev, j.attempts>>}
             \/ WasSent(j.ev) /\ UNCHANGED sent
  BY DEF PublishAcked
<1>2. WasSent(j.ev)'
  <2>1. CASE sent' = sent \cup {<<j.ev, j.attempts>>}
    <3>1. <<j.ev, j.attempts>> \in sent'
      BY <2>1
    <3>2. <<j.ev, j.attempts>>[1] = j.ev
      OBVIOUS
    <3>3. QED
      BY <3>1, <3>2 DEF WasSent
  <2>2. CASE WasSent(j.ev) /\ UNCHANGED sent
    BY <2>2 DEF WasSent
  <2>3. QED
    BY <1>1, <2>1, <2>2
<1>3. QED
  BY <1>1, <1>2, SendQuiet DEF PublishAcked

(* A failed publish, stored or not, is quiet.                              *)
LEMMA PublishFailedQuiet == ASSUME IInv, NEW w \in Workers, PublishFailed(w) PROVE Quiet
<1>1. PICK j \in batch[w] :
          IsHead(w, j) /\ sent' \in {sent, sent \cup {<<j.ev, j.attempts>>}}
  BY DEF PublishFailed
<1>2. sent' = sent \/ sent' = sent \cup {<<j.ev, j.attempts>>}
  BY <1>1
<1>3. pc[w] = "send" /\ pc' = [pc EXCEPT ![w] = "nack"]
      /\ UNCHANGED <<row, nextSeq, batch, late>>
  BY DEF PublishFailed
<1>4. QED
  BY <1>1, <1>2, <1>3, SendQuiet

-----------------------------------------------------------------------------
(* Writing an outcome back.                                                *)

(* The row of job j after MarkPublished or MarkFailed, or untouched.       *)
Outcome(j) ==
    /\ \A e \in Events \ {j.ev} : row'[e] = row[e]
    /\ row'[j.ev].seq = row[j.ev].seq /\ row'[j.ev].attempts = row[j.ev].attempts
    /\ row'[j.ev].status \in {row[j.ev].status, "published", "failed", "dead"}
    /\ row'[j.ev].status = "published" => row[j.ev].status = "published" \/ WasSent(j.ev)
    /\ row'[j.ev].status = "dead" =>
          row[j.ev].status = "dead" \/ row[j.ev].attempts >= MaxAttempts

(* MarkPublished writes an outcome the job is entitled to.                 *)
LEMMA PublishedOutcome ==
    ASSUME IInv, NEW w \in Workers, NEW j \in batch[w], WasSent(j.ev),
           row' = row \/ row' = PublishedRow(j.ev)
    PROVE  Outcome(j)
<1>1. j.ev \in Events /\ row \in [Events -> Row] /\ row[j.ev] \in Row
  BY HeldTyped DEF IInv, TypeOK
<1>2. CASE row' = row
  BY <1>2 DEF Outcome
<1>3. CASE row' = PublishedRow(j.ev)
  <2>1. /\ \A e \in Events \ {j.ev} : row'[e] = row[e]
        /\ row'[j.ev].status = "published"
        /\ row'[j.ev].seq = row[j.ev].seq /\ row'[j.ev].attempts = row[j.ev].attempts
    BY <1>1, <1>3 DEF PublishedRow, Row
  <2>2. QED
    BY <2>1 DEF Outcome
<1>4. QED
  BY <1>2, <1>3

(* MarkFailed writes an outcome the job is entitled to.                    *)
LEMMA FailedOutcome ==
    ASSUME IInv, NEW w \in Workers, NEW j \in batch[w],
           row' = row \/ row' = FailedRow(j)
    PROVE  Outcome(j)
<1>1. j.ev \in Events /\ row \in [Events -> Row] /\ row[j.ev] \in Row
  BY HeldTyped DEF IInv, TypeOK
<1>2. row[j.ev].attempts \in Nat
  BY <1>1 DEF Row
<1>22. j.attempts \in Nat /\ j.attempts <= row[j.ev].attempts
  BY HeldTyped
<1>3. CASE row' = row
  BY <1>3 DEF Outcome
<1>4. CASE row' = FailedRow(j) /\ j.attempts >= MaxAttempts
  <2>1. /\ \A e \in Events \ {j.ev} : row'[e] = row[e]
        /\ row'[j.ev].status = "dead"
        /\ row'[j.ev].seq = row[j.ev].seq /\ row'[j.ev].attempts = row[j.ev].attempts
    BY <1>1, <1>4 DEF FailedRow, Row
  <2>2. row[j.ev].attempts >= MaxAttempts
    BY <1>2, <1>22, <1>4, OutboxAssumption
  <2>3. QED
    BY <2>1, <2>2 DEF Outcome
<1>5. CASE row' = FailedRow(j) /\ ~(j.attempts >= MaxAttempts)
  <2>1. /\ \A e \in Events \ {j.ev} : row'[e] = row[e]
        /\ row'[j.ev].status = "failed"
        /\ row'[j.ev].seq = row[j.ev].seq /\ row'[j.ev].attempts = row[j.ev].attempts
    BY <1>1, <1>5 DEF FailedRow, Row
  <2>2. QED
    BY <2>1 DEF Outcome
<1>6. QED
  BY <1>3, <1>4, <1>5

(* Two workers hold one job only when it is late, so writing an outcome    *)
(* touches no other worker's leased job, nor another one of the worker's.  *)
LEMMA OthersKept ==
    ASSUME IInv, NEW w \in Workers, NEW j \in batch[w], Outcome(j),
           NEW v \in Workers, NEW k \in batch[v], k.ev \notin late, v # w \/ k # j
    PROVE  row'[k.ev] = row[k.ev]
<1> USE DEF IInv
<1>1. k.ev \in Events
  BY HeldTyped
<1>2. k.ev # j.ev
  <2>1. CASE v = w
    BY <2>1 DEF OneJobPerEvent
  <2>2. CASE v # w
    BY <1>1, <2>2 DEF LeaseExclusive, Held
  <2>3. QED
    BY <2>1, <2>2
<1>3. QED
  BY <1>1, <1>2 DEF Outcome

(* Writing an outcome and going on is quiet.                               *)
LEMMA MarkQuiet ==
    ASSUME IInv, NEW w \in Workers, NEW j \in batch[w], Outcome(j),
           pc[w] \in {"ack", "nack", "reack", "renack"}, IsHead(w, j),
           UNCHANGED <<nextSeq, sent, late>>,
           \/ batch' = [batch EXCEPT ![w] = {}] /\ pc' = [pc EXCEPT ![w] = "idle"]
           \/ Advance(w, j)
    PROVE  Quiet
<1> USE DEF IInv
<1>1. j.ev \in Events /\ row[j.ev].status \in Committed
  BY HeldTyped
<1>2. \A e \in Events : row[e].attempts \in Nat
  BY DEF TypeOK, Row
<1>3. \A e \in Events : RowForward(e)
  BY <1>1, <1>2 DEF Outcome, RowForward, Committed, Statuses
<1>4. NoneEnqueued
  BY <1>1 DEF NoneEnqueued, Outcome, Committed
<1>5. /\ \A v \in Workers : batch'[v] \subseteq batch[v]
      /\ j \notin batch'[w]
      /\ \A v \in Workers \ {w} : batch'[v] = batch[v] /\ pc'[v] = pc[v]
      /\ pc'[w] \in {"idle", "send"}
      /\ pc'[w] = "idle" => batch'[w] = {}
  <2>1. CASE batch' = [batch EXCEPT ![w] = {}] /\ pc' = [pc EXCEPT ![w] = "idle"]
    BY <2>1 DEF TypeOK
  <2>2. CASE Advance(w, j)
    BY <2>2 DEF Advance, TypeOK
  <2>3. QED
    BY <2>1, <2>2
<1>6. LeasedUntouched
  <2> SUFFICES ASSUME NEW v \in Workers, NEW k \in batch'[v], k.ev \notin late
               PROVE  row'[k.ev] = row[k.ev]
    BY DEF LeasedUntouched
  <2>1. k \in batch[v] /\ (v # w \/ k # j)
    BY <1>5
  <2>2. QED
    BY <2>1, OthersKept
<1>7. BatchEndsIdle'
  BY <1>5 DEF BatchEndsIdle
<1>8. \A v \in Workers : pc'[v] \in {"ack", "reack"} =>
          pc[v] \in {"ack", "reack"} /\ batch'[v] = batch[v]
  BY <1>5
<1>9. HandsKept
  <2>1. ASSUME NEW k \in batch'[w], k.ev \notin late PROVE Running(k.ev)
    <3>1. k \in batch[w] /\ k # j
      BY <1>5
    <3>2. ~Recorded(w, k)
      BY <3>1, HeadIsOne DEF Recorded
    <3>3. QED
      BY <2>1, <3>1, <3>2, HeldTyped
  <2>2. QED
    BY <1>5, <2>1 DEF HandsKept
<1>10. LeaseHolds'
  BY <1>3, <1>5, <1>6, <1>9, LeaseKept
<1>11. QED
  BY <1>3, <1>4, <1>5, <1>7, <1>8, <1>10, QuietFromRows

(* A worker that repeats the UPDATE of an outcome leaves the row running,  *)
(* tells in it the outcome it is about to repeat, or is late.              *)
LEMMA RepeatQuiet ==
    ASSUME IInv, NEW w \in Workers, NEW j \in batch[w], Outcome(j), IsHead(w, j),
           NEW l, (pc[w] = "ack" /\ l = "reack") \/ (pc[w] = "nack" /\ l = "renack"),
           pc' = [pc EXCEPT ![w] = l], UNCHANGED <<nextSeq, batch, sent>>,
           late \subseteq late',
           j.ev \notin late' =>
              \/ row'[j.ev] = row[j.ev]
              \/ l = "reack" /\ row'[j.ev].status = "published"
              \/ /\ l = "renack" /\ row'[j.ev].status = "dead"
                 /\ j.attempts >= MaxAttempts
    PROVE  Quiet
<1> USE DEF IInv
<1>1. j.ev \in Events /\ row[j.ev].status \in Committed
  BY HeldTyped
<1>2. \A e \in Events : row[e].attempts \in Nat
  BY DEF TypeOK, Row
<1>3. \A e \in Events : RowForward(e)
  BY <1>1, <1>2 DEF Outcome, RowForward, Committed, Statuses
<1>4. NoneEnqueued
  BY <1>1 DEF NoneEnqueued, Outcome, Committed
<1>5. /\ pc'[w] = l /\ \A v \in Workers \ {w} : pc'[v] = pc[v]
  BY DEF TypeOK
<1>6. BatchEndsIdle'
  BY <1>5 DEF BatchEndsIdle
<1>7. LeaseHolds'
  <2> SUFFICES ASSUME NEW v \in Workers, NEW k \in batch[v], k.ev \notin late'
               PROVE  Running(k.ev)' \/ Recorded(v, k)'
    BY DEF LeaseHolds
  <2>0. k.ev \notin late
    OBVIOUS
  <2>1. CASE v # w
    <3>1. row'[k.ev] = row[k.ev] /\ pc'[v] = pc[v]
      BY <1>5, <2>0, <2>1, OthersKept
    <3>2. IsHead(v, k)' <=> IsHead(v, k)
      BY <1>3, HeadKept
    <3>3. Running(k.ev) \/ Recorded(v, k)
      BY <2>0, HeldTyped
    <3>4. CASE Running(k.ev)
      BY <3>1, <3>4 DEF Running
    <3>5. CASE Recorded(v, k)
      BY <3>1, <3>2, <3>5 DEF Recorded
    <3>6. QED
      BY <3>3, <3>4, <3>5
  <2>2. CASE v = w
    <3>1. Running(k.ev)
      BY <2>0, <2>2, HeldTyped DEF Recorded
    <3>2. CASE k # j
      <4>1. row'[k.ev] = row[k.ev]
        BY <2>0, <2>2, <3>2, OthersKept
      <4>2. QED
        BY <3>1, <4>1 DEF Running
    <3>3. CASE k = j
      <4>1. IsHead(w, j)'
        BY <1>3, HeadKept
      <4>2. CASE row'[j.ev] = row[j.ev]
        BY <3>1, <3>3, <4>2 DEF Running
      <4>3. CASE ~(row'[j.ev] = row[j.ev])
        BY <1>5, <2>2, <3>3, <4>1, <4>3 DEF Recorded
      <4>4. QED
        BY <4>2, <4>3
    <3>4. QED
      BY <3>2, <3>3
  <2>3. QED
    BY <2>1, <2>2
<1>8. \A v \in Workers : pc'[v] \in {"ack", "reack"} =>
          pc[v] \in {"ack", "reack"} /\ batch'[v] = batch[v]
  BY <1>5
<1>9. QED
  BY <1>3, <1>4, <1>6, <1>7, <1>8, QuietFromRows

(* MarkPublished is quiet.                                                 *)
LEMMA MarkPublishedQuiet == ASSUME IInv, NEW w \in Workers, MarkPublished(w) PROVE Quiet
<1>1. PICK j \in batch[w] : IsHead(w, j) /\ row' = PublishedRow(j.ev) /\ Advance(w, j)
  BY DEF MarkPublished
<1>2. pc[w] \in {"ack", "reack"} /\ UNCHANGED <<nextSeq, sent, late>>
  BY DEF MarkPublished
<1>3. WasSent(j.ev)
  BY <1>1, <1>2 DEF IInv, AckedWasSent
<1>4. Outcome(j)
  BY <1>1, <1>3, PublishedOutcome
<1>5. QED
  BY <1>1, <1>2, <1>4, MarkQuiet

(* A failing MarkPublished, which abandons the batch, is quiet.            *)
LEMMA MarkPublishedErrorQuiet ==
    ASSUME IInv, NEW w \in Workers, MarkPublishedError(w) PROVE Quiet
<1>1. PICK j \in batch[w] : IsHead(w, j) /\ row' \in {row, PublishedRow(j.ev)}
  BY DEF MarkPublishedError
<1>2. /\ pc[w] \in {"ack", "reack"} /\ UNCHANGED <<nextSeq, sent, late>>
      /\ batch' = [batch EXCEPT ![w] = {}] /\ pc' = [pc EXCEPT ![w] = "idle"]
  BY DEF MarkPublishedError
<1>3. WasSent(j.ev)
  BY <1>1, <1>2 DEF IInv, AckedWasSent
<1>4. Outcome(j)
  BY <1>1, <1>3, PublishedOutcome
<1>5. QED
  BY <1>1, <1>2, <1>4, MarkQuiet

(* MarkFailed is quiet.                                                    *)
LEMMA MarkFailedQuiet == ASSUME IInv, NEW w \in Workers, MarkFailed(w) PROVE Quiet
<1>1. PICK j \in batch[w] : IsHead(w, j) /\ row' = FailedRow(j) /\ Advance(w, j)
  BY DEF MarkFailed
<1>2. pc[w] \in {"nack", "renack"} /\ UNCHANGED <<nextSeq, sent, late>>
  BY DEF MarkFailed
<1>3. Outcome(j)
  BY <1>1, FailedOutcome
<1>4. QED
  BY <1>1, <1>2, <1>3, MarkQuiet

(* A failing MarkFailed is quiet.                                          *)
LEMMA MarkFailedErrorQuiet ==
    ASSUME IInv, NEW w \in Workers, MarkFailedError(w) PROVE Quiet
<1>1. PICK j \in batch[w] : IsHead(w, j) /\ row' \in {row, FailedRow(j)} /\ Advance(w, j)
  BY DEF MarkFailedError
<1>2. pc[w] \in {"nack", "renack"} /\ UNCHANGED <<nextSeq, sent, late>>
  BY DEF MarkFailedError
<1>3. Outcome(j)
  BY <1>1, FailedOutcome
<1>4. QED
  BY <1>1, <1>2, <1>3, MarkQuiet

(* A lost answer of MarkPublished, to be repeated, is quiet.               *)
LEMMA RepeatPublishedQuiet ==
    ASSUME IInv, NEW w \in Workers, RepeatPublished(w) PROVE Quiet
<1>1. PICK j \in batch[w] : IsHead(w, j) /\ row' \in {row, PublishedRow(j.ev)}
  BY DEF RepeatPublished
<1>2. /\ pc[w] = "ack" /\ pc' = [pc EXCEPT ![w] = "reack"]
      /\ UNCHANGED <<nextSeq, batch, sent, late>>
  BY DEF RepeatPublished
<1>3. WasSent(j.ev)
  BY <1>1, <1>2 DEF IInv, AckedWasSent
<1>4. Outcome(j)
  BY <1>1, <1>3, PublishedOutcome
<1>5. row[j.ev] \in Row /\ j.ev \in Events /\ row \in [Events -> Row]
  BY HeldTyped DEF IInv, TypeOK
<1>6. row'[j.ev] = row[j.ev] \/ row'[j.ev].status = "published"
  BY <1>1, <1>5 DEF PublishedRow, Row
<1>7. QED
  BY <1>1, <1>2, <1>4, <1>6, RepeatQuiet

(* A lost answer of MarkFailed, to be repeated, is quiet: the row a second *)
(* failure UPDATE may take from another worker is late.                    *)
LEMMA RepeatFailedQuiet ==
    ASSUME IInv, NEW w \in Workers, RepeatFailed(w) PROVE Quiet
<1>1. PICK j \in batch[w] :
          /\ IsHead(w, j)
          /\ \/ row' = row /\ late' = late
             \/ /\ row' = FailedRow(j)
                /\ late' = IF j.attempts < MaxAttempts THEN late \cup {j.ev} ELSE late
  BY DEF RepeatFailed
<1>2. /\ pc[w] = "nack" /\ pc' = [pc EXCEPT ![w] = "renack"]
      /\ UNCHANGED <<nextSeq, batch, sent>>
  BY DEF RepeatFailed
<1>3. Outcome(j)
  BY <1>1, FailedOutcome
<1>4. j.attempts \in Nat /\ j.ev \in Events /\ row[j.ev] \in Row /\ row \in [Events -> Row]
  BY HeldTyped DEF IInv, TypeOK
<1>5. late \subseteq late'
  BY <1>1
<1>6. ASSUME j.ev \notin late', ~(row'[j.ev] = row[j.ev])
      PROVE  row'[j.ev].status = "dead" /\ j.attempts >= MaxAttempts
  <2>1. row' = FailedRow(j) /\ ~(j.attempts < MaxAttempts)
    BY <1>1, <1>6
  <2>2. j.attempts >= MaxAttempts
    BY <1>4, <2>1, OutboxAssumption
  <2>3. QED
    BY <1>4, <2>1, <2>2 DEF FailedRow, Row
<1>7. QED
  BY <1>1, <1>2, <1>3, <1>5, <1>6, RepeatQuiet

(* The death of a worker is quiet.                                         *)
LEMMA CrashQuiet == ASSUME IInv, NEW w \in Workers, Crash(w) PROVE Quiet
<1> USE DEF IInv
<1>1. /\ UNCHANGED <<row, nextSeq, sent, late>>
      /\ pc' = [pc EXCEPT ![w] = "down"] /\ batch' = [batch EXCEPT ![w] = {}]
  BY DEF Crash
<1>2. \A e \in Events : row[e].attempts \in Nat
  BY DEF TypeOK, Row
<1>3. \A e \in Events : RowForward(e)
  BY <1>1, <1>2 DEF RowForward
<1>4. NoneEnqueued /\ LeasedUntouched
  BY <1>1 DEF NoneEnqueued, LeasedUntouched
<1>5. /\ \A v \in Workers : batch'[v] \subseteq batch[v]
      /\ \A v \in Workers : pc'[v] \in {"ack", "reack"} =>
             pc[v] \in {"ack", "reack"} /\ batch'[v] = batch[v]
      /\ BatchEndsIdle'
      /\ HandsKept
  BY <1>1 DEF TypeOK, BatchEndsIdle, HandsKept
<1>6. LeaseHolds'
  BY <1>1, <1>3, <1>4, <1>5, LeaseKept
<1>7. QED
  BY <1>1, <1>3, <1>4, <1>5, <1>6, QuietFromRows

(* The claim gives the worker jobs whose rows nobody holds under a lease.  *)
LEMMA ClaimKeeps ==
    ASSUME IInv, TypeOK', NEW w \in Workers, ClaimPending(w) PROVE IInv'
<1> USE DEF IInv
<1>1. /\ pc[w] = "idle" /\ ClaimSet # {} /\ row' = ClaimRows(ClaimSet)
      /\ pc' = [pc EXCEPT ![w] = "send"]
      /\ UNCHANGED <<nextSeq, sent, late>>
  BY DEF ClaimPending
<1> DEFINE Claimed == {[ev |-> e, attempts |-> row[e].attempts + 1] : e \in ClaimSet}
<1>2. batch' = [batch EXCEPT ![w] = Claimed] /\ batch'[w] = Claimed
      /\ \A v \in Workers \ {w} : batch'[v] = batch[v] /\ pc'[v] = pc[v]
  BY <1>1 DEF ClaimPending, TypeOK
<1>3. \A e \in Events : RowForward(e)
  BY <1>1, ClaimFields
<1>4. \A e \in ClaimSet : /\ row'[e].status = "processing" /\ ~row'[e].expired
                          /\ row'[e].attempts = row[e].attempts + 1
                          /\ e \in Events /\ row[e].attempts \in Nat
  BY <1>1, ClaimFields DEF TypeOK, Row
<1>5. \A j \in Claimed : j.ev \in ClaimSet /\ j.attempts = row[j.ev].attempts + 1
  OBVIOUS
<1>6. BatchEndsIdle'
  BY <1>1, <1>2 DEF BatchEndsIdle, TypeOK
<1>7. OneJobPerEvent'
  <2>1. \A j, k \in Claimed : j.ev = k.ev => j = k
    OBVIOUS
  <2>2. QED
    BY <1>2, <2>1 DEF OneJobPerEvent
<1>8. SequencesDiffer'
  <2>1. NoneEnqueued
    BY <1>1, ClaimFields DEF NoneEnqueued
  <2>2. QED
    BY <1>3, <2>1, SequencesKept
<1>9. HeldWasClaimed'
  <2> SUFFICES ASSUME NEW v \in Workers, NEW j \in batch'[v]
               PROVE  /\ row'[j.ev].status \in Committed
                      /\ 1 <= j.attempts /\ j.attempts <= row'[j.ev].attempts
    BY DEF HeldWasClaimed
  <2>1. CASE v = w
    BY <1>2, <1>4, <1>5, <2>1 DEF Committed, Statuses
  <2>2. CASE v # w
    <3>1. j \in batch[v]
      BY <1>2, <2>2
    <3>2. j.ev \in Events /\ j.attempts \in Nat /\ 1 <= j.attempts
          /\ row[j.ev].status \in Committed /\ j.attempts <= row[j.ev].attempts
      BY <3>1, HeldTyped DEF HeldWasClaimed
    <3>3. row[j.ev].attempts \in Nat /\ row'[j.ev].attempts \in Nat
      BY <3>2 DEF TypeOK, Row
    <3>4. QED
      BY <1>3, <3>2, <3>3 DEF RowForward
  <2>3. QED
    BY <2>1, <2>2
<1>10. \A v \in Workers \ {w} : \A j \in batch[v] :
           j.ev \notin late => j.ev \in Events /\ j.ev \notin ClaimSet
  BY <1>1, ClaimFields, HeldTyped
<1>11. LeaseHolds'
  <2> SUFFICES ASSUME NEW v \in Workers, NEW j \in batch'[v], j.ev \notin late
               PROVE  Running(j.ev)' \/ Recorded(v, j)'
    BY <1>1 DEF LeaseHolds
  <2>1. CASE v = w
    BY <1>2, <1>4, <1>5, <2>1 DEF Running
  <2>2. CASE v # w
    <3>1. j \in batch[v] /\ row'[j.ev] = row[j.ev] /\ pc'[v] = pc[v]
      BY <1>1, <1>2, <1>10, <2>2, ClaimFields
    <3>2. IsHead(v, j)' <=> IsHead(v, j)
      BY <1>2, <1>3, <2>2, HeadKept
    <3>3. Running(j.ev) \/ Recorded(v, j)
      BY <3>1, HeldTyped
    <3>4. CASE Running(j.ev)
      BY <3>1, <3>4 DEF Running
    <3>5. CASE Recorded(v, j)
      BY <3>1, <3>2, <3>5 DEF Recorded
    <3>6. QED
      BY <3>3, <3>4, <3>5
  <2>3. QED
    BY <2>1, <2>2
<1>12. AckedWasSent'
  <2>1. \A v \in Workers : pc'[v] \in {"ack", "reack"} =>
            pc[v] \in {"ack", "reack"} /\ batch'[v] = batch[v]
    BY <1>1, <1>2 DEF TypeOK
  <2>2. QED
    BY <1>1, <1>3, <2>1, AckKept
<1>13. LeaseExclusive'
  <2> SUFFICES ASSUME NEW e \in Events \ late, NEW u \in Workers, NEW v \in Workers,
                      NEW j \in batch'[u], NEW k \in batch'[v], j.ev = e, k.ev = e
               PROVE  u = v
    BY <1>1 DEF LeaseExclusive, Held
  <2>1. CASE u # w /\ v # w
    BY <1>2, <2>1 DEF LeaseExclusive, Held
  <2>2. CASE u = w /\ v # w
    BY <1>2, <1>5, <1>10, <2>2
  <2>3. CASE u # w /\ v = w
    BY <1>2, <1>5, <1>10, <2>3
  <2>4. QED
    BY <2>1, <2>2, <2>3
<1>14. SentWasClaimed'
  <2> SUFFICES ASSUME NEW m \in sent
               PROVE  /\ row'[m[1]].status \in Committed
                      /\ m[2] \in 1 .. row'[m[1]].attempts
    BY <1>1 DEF SentWasClaimed
  <2>1. m[1] \in Events /\ m[2] \in Nat
    BY DEF TypeOK
  <2>2. row[m[1]].attempts \in Nat /\ row'[m[1]].attempts \in Nat
    BY <2>1 DEF TypeOK, Row
  <2>3. QED
    BY <1>3, <2>1, <2>2 DEF SentWasClaimed, RowForward
<1>15. PublishedWasSent'
  <2>1. \A e \in Events : row'[e].status = "published" =>
            row[e].status = "published" /\ row'[e] = row[e]
    BY <1>1, <1>4, ClaimFields
  <2>2. QED
    BY <1>1, <2>1 DEF PublishedWasSent
<1>16. DeadIsExhausted'
  <2>1. \A e \in Events : row'[e].status = "dead" =>
            row[e].status = "dead" /\ row'[e] = row[e]
    BY <1>1, <1>4, ClaimFields
  <2>2. QED
    BY <2>1 DEF DeadIsExhausted
<1>17. QED
  BY <1>6, <1>7, <1>8, <1>9, <1>11, <1>12, <1>13, <1>14, <1>15, <1>16

-----------------------------------------------------------------------------
(* Every step but a claim is quiet, or changes nothing.                    *)
LEMMA StepKeeps == IInv /\ [Next]_vars => IInv'
<1> SUFFICES ASSUME IInv, [Next]_vars PROVE IInv'
  OBVIOUS
<1>1. TypeOK'
  BY TypeStep DEF IInv
<1>2. CASE UNCHANGED vars
  BY <1>2 DEF vars, IInv, TypeOK, BatchEndsIdle, OneJobPerEvent, SequencesDiffer,
      HeldWasClaimed, LeaseHolds, Running, Recorded, AckedWasSent, LeaseExclusive,
      SentWasClaimed, PublishedWasSent, DeadIsExhausted, IsHead, WasSent, Held
<1>3. ASSUME NEW w \in Workers, ClaimPending(w) PROVE IInv'
  BY <1>1, <1>3, ClaimKeeps
<1>4. CASE Quiet
  BY <1>1, <1>4, QuietKeeps
<1>5. ASSUME NEW e \in Events,
             \/ Enqueue(e) \/ CommitTx(e) \/ RollbackTx(e)
             \/ BackoffElapsed(e) \/ LeaseExpires(e)
      PROVE  Quiet
  BY <1>5, EnqueueQuiet, CommitTxQuiet, RollbackTxQuiet, BackoffElapsedQuiet,
     LeaseExpiresQuiet
<1>6. ASSUME NEW w \in Workers,
             \/ Start(w) \/ ClaimAnswerLost(w) \/ PublishAcked(w) \/ PublishFailed(w)
             \/ MarkPublished(w) \/ RepeatPublished(w) \/ MarkPublishedError(w)
             \/ MarkFailed(w) \/ RepeatFailed(w) \/ MarkFailedError(w) \/ Crash(w)
      PROVE  Quiet
  BY <1>6, StartQuiet, ClaimAnswerLostQuiet, PublishAckedQuiet, PublishFailedQuiet,
     MarkPublishedQuiet, MarkPublishedErrorQuiet, MarkFailedQuiet, MarkFailedErrorQuiet,
     RepeatPublishedQuiet, RepeatFailedQuiet, CrashQuiet
<1>7. QED
  BY <1>2, <1>3, <1>4, <1>5, <1>6 DEF Next

(* The empty queue satisfies the inductive invariant.                      *)
LEMMA InitKeeps == Init => IInv
BY OutboxAssumption
DEF Init, IInv, TypeOK, Row, Job, Statuses, PCs, BatchEndsIdle, OneJobPerEvent,
    SequencesDiffer, HeldWasClaimed, LeaseHolds, AckedWasSent, LeaseExclusive, Held,
    SentWasClaimed, PublishedWasSent, DeadIsExhausted

(* The inductive invariant holds in every reachable state of the queue.    *)
LEMMA Invariance == Spec => []IInv
BY InitKeeps, StepKeeps, PTL DEF Spec

(* Two workers never hold the same job while its lease runs: the claim of  *)
(* ClaimPending is exclusive until five minutes have passed, or until a    *)
(* failure UPDATE is repeated after its first run had released the row.    *)
THEOREM LeaseExclusiveAlways == Spec => []LeaseExclusive
BY Invariance, PTL DEF IInv

(* ProcessPending marks published only what JetStream stored.              *)
THEOREM PublishedWasSentAlways == Spec => []PublishedWasSent
BY Invariance, PTL DEF IInv

(* Only committed events are sent, at most once per claim.                 *)
THEOREM SentWasClaimedAlways == Spec => []SentWasClaimed
BY Invariance, PTL DEF IInv

(* Only a row claimed max_attempts times is dead-lettered.                 *)
THEOREM DeadIsExhaustedAlways == Spec => []DeadIsExhausted
BY Invariance, PTL DEF IInv

(* A worker in time finds its job's row open, or writes the outcome that   *)
(* the row tells already; only the first try finds it open for certain.    *)
LEMMA OutcomeInTime ==
    ASSUME IInv, NEW w \in Workers, NEW j \in batch[w], IsHead(w, j), j.ev \notin late,
           \/ pc[w] \in {"ack", "reack"} /\ row' \in {row, PublishedRow(j.ev)}
           \/ pc[w] \in {"nack", "renack"} /\ row' \in {row, FailedRow(j)}
    PROVE  /\ \/ row[j.ev].status = "processing"
              \/ row'[j.ev].status = row[j.ev].status
           /\ pc[w] \in {"ack", "nack"} => row[j.ev].status = "processing"
<1>1. j.ev \in Events /\ row \in [Events -> Row] /\ row[j.ev] \in Row
  BY HeldTyped DEF IInv, TypeOK
<1>2. Running(j.ev) \/ Recorded(w, j)
  BY HeldTyped
<1>3. CASE Running(j.ev)
  BY <1>3 DEF Running
<1>4. CASE Recorded(w, j) /\ pc[w] = "reack"
  <2>1. row[j.ev].status = "published"
    BY <1>4 DEF Recorded
  <2>2. row' = row \/ row' = PublishedRow(j.ev)
    BY <1>4
  <2>3. row'[j.ev].status = "published"
    BY <1>1, <2>1, <2>2 DEF PublishedRow, Row
  <2>4. QED
    BY <1>4, <2>1, <2>3
<1>5. CASE Recorded(w, j) /\ pc[w] = "renack"
  <2>1. row[j.ev].status = "dead" /\ j.attempts >= MaxAttempts
    BY <1>5 DEF Recorded
  <2>2. row' = row \/ row' = FailedRow(j)
    BY <1>5
  <2>3. row'[j.ev].status = "dead"
    BY <1>1, <2>1, <2>2 DEF FailedRow, Row
  <2>4. QED
    BY <1>5, <2>1, <2>3
<1>6. QED
  BY <1>2, <1>3, <1>4, <1>5 DEF Recorded

(* A settled row moves only through a worker that overran its lease, or    *)
(* that repeats a failure UPDATE whose answer was lost.                    *)
THEOREM SettledIsFinalAlways == Spec => SettledIsFinal
<1> DEFINE Final == \A e \in Events :
                        row[e].status \in Settled /\ e \notin late
                            => row'[e].status = row[e].status
<1>1. ASSUME IInv, [Next]_vars PROVE [Final]_vars
  <2> SUFFICES ASSUME Next, NEW e \in Events, row[e].status \in Settled, e \notin late
               PROVE  row'[e].status = row[e].status
    BY <1>1
  <2> USE <1>1
  <2>2. row \in [Events -> Row] /\ row[e] \in Row
    BY DEF IInv, TypeOK
  <2>3. ASSUME NEW f \in Events, Enqueue(f) \/ CommitTx(f) \/ RollbackTx(f)
        PROVE  row'[e].status = row[e].status
    BY <2>2, <2>3 DEF Enqueue, CommitTx, RollbackTx, Settled
  <2>4. ASSUME NEW f \in Events, BackoffElapsed(f) PROVE row'[e].status = row[e].status
    BY <2>2, <2>4 DEF BackoffElapsed, Row
  <2>5. ASSUME NEW f \in Events, LeaseExpires(f) PROVE row'[e].status = row[e].status
    BY <2>2, <2>5 DEF LeaseExpires, Settled
  <2>6. ASSUME NEW w \in Workers, Start(w) PROVE row'[e].status = row[e].status
    BY <2>6 DEF Start, Settled
  <2>7. ASSUME NEW w \in Workers, ClaimPending(w) \/ ClaimAnswerLost(w)
        PROVE  row'[e].status = row[e].status
    <3>1. row' = ClaimRows(ClaimSet)
      BY <2>7 DEF ClaimPending, ClaimAnswerLost
    <3>2. e \notin ClaimSet
      BY DEF ClaimSet, Claimable, Settled
    <3>3. QED
      BY <3>1, <3>2 DEF ClaimRows
  <2>8. ASSUME NEW w \in Workers, PublishAcked(w) \/ PublishFailed(w) \/ Crash(w)
        PROVE  row'[e].status = row[e].status
    BY <2>8 DEF PublishAcked, PublishFailed, Crash
  <2>9. ASSUME NEW w \in Workers,
               MarkPublished(w) \/ MarkPublishedError(w) \/ RepeatPublished(w)
        PROVE  row'[e].status = row[e].status
    <3>1. PICK j \in batch[w] : IsHead(w, j) /\ row' \in {row, PublishedRow(j.ev)}
      BY <2>9 DEF MarkPublished, MarkPublishedError, RepeatPublished
    <3>2. pc[w] \in {"ack", "reack"}
      BY <2>9 DEF MarkPublished, MarkPublishedError, RepeatPublished
    <3>3. CASE j.ev = e
      BY <3>1, <3>2, <3>3, OutcomeInTime DEF Settled
    <3>4. CASE j.ev # e
      BY <2>2, <3>1, <3>4 DEF PublishedRow
    <3>5. QED
      BY <3>3, <3>4
  <2>10. ASSUME NEW w \in Workers,
                MarkFailed(w) \/ MarkFailedError(w) \/ RepeatFailed(w)
         PROVE  row'[e].status = row[e].status
    <3>1. PICK j \in batch[w] : IsHead(w, j) /\ row' \in {row, FailedRow(j)}
      BY <2>10 DEF MarkFailed, MarkFailedError, RepeatFailed
    <3>2. pc[w] \in {"nack", "renack"}
      BY <2>10 DEF MarkFailed, MarkFailedError, RepeatFailed
    <3>3. CASE j.ev = e
      BY <3>1, <3>2, <3>3, OutcomeInTime DEF Settled
    <3>4. CASE j.ev # e
      BY <2>2, <3>1, <3>4 DEF FailedRow
    <3>5. QED
      BY <3>3, <3>4
  <2>11. QED
    BY <2>3, <2>4, <2>5, <2>6, <2>7, <2>8, <2>9, <2>10 DEF Next
<1>2. QED
  BY <1>1, Invariance, PTL DEF Spec, SettledIsFinal

-----------------------------------------------------------------------------
(* The outbox implements DurableQueue: under the inductive invariant every *)
(* step of RealtimeOutbox is one step of the queue on one event, or leaves *)
(* the queue as it is.                                                     *)

(* The queue is untouched by a step that keeps, of every row, whether it   *)
(* is committed and how it is settled, and that sends and delays nothing.  *)
LEMMA Untouched ==
    ASSUME row \in [Events -> Row], row' \in [Events -> Row],
           \A e \in Events :
              /\ row'[e].status \in Committed <=> row[e].status \in Committed
              /\ SettledAs(row'[e].status) = SettledAs(row[e].status),
           \A e \in Events : WasSent(e)' <=> WasSent(e),
           late' = late
    PROVE  UNCHANGED Queue!vars
<1>1. {e \in Events : row[e].status \in Committed}' = {e \in Events : row[e].status \in Committed}
  OBVIOUS
<1>2. {e \in Events : WasSent(e)}' = {e \in Events : WasSent(e)}
  OBVIOUS
<1>3. [e \in Events |-> SettledAs(row[e].status)]' = [e \in Events |-> SettledAs(row[e].status)]
  OBVIOUS
<1>4. QED
  BY <1>1, <1>2, <1>3 DEF Queue!vars

(* An outcome written back by a worker that holds the job settles the      *)
(* event, or, late, opens it again; a worker in time finds it open.        *)
LEMMA OutcomeMaps ==
    ASSUME IInv, TypeOK', NEW w \in Workers, NEW j \in batch[w], Outcome(j),
           \/ j.ev \in late \/ row[j.ev].status = "processing"
           \/ row'[j.ev].status = row[j.ev].status,
           sent' = sent, late' = late
    PROVE  [Queue!Next]_Queue!vars
<1> DEFINE e == j.ev
           acc == {f \in Events : row[f].status \in Committed}
           snt == {f \in Events : WasSent(f)}
           out == [f \in Events |-> SettledAs(row[f].status)]
<1>1. e \in Events /\ row[e].status \in Committed
  BY HeldTyped
<1>2. row \in [Events -> Row] /\ row' \in [Events -> Row]
  BY DEF IInv, TypeOK
<1>3. /\ \A f \in Events \ {e} : row'[f] = row[f]
      /\ row'[e].status \in {row[e].status, "published", "failed", "dead"}
      /\ row'[e].status = "published" => row[e].status = "published" \/ WasSent(e)
  BY DEF Outcome
<1>4. row'[e].status \in Committed
  BY <1>1, <1>3 DEF Committed, Statuses
<1>5. acc' = acc
  BY <1>1, <1>3, <1>4
<1>6. snt' = snt
  BY DEF WasSent
<1>7. out' = [out EXCEPT ![e] = SettledAs(row'[e].status)]
  BY <1>1, <1>3
<1>8. e \in acc /\ out[e] = SettledAs(row[e].status)
  BY <1>1
<1>9. e \in late \/ out[e] = "open" \/ row'[e].status = row[e].status
  BY <1>1, <1>8 DEF SettledAs, Settled
<1>10. CASE row'[e].status = row[e].status
  <2>1. out' = out
    BY <1>7, <1>8, <1>10
  <2>2. QED
    BY <1>5, <1>6, <2>1 DEF Queue!vars
<1>11. CASE row'[e].status = "published" /\ row[e].status # "published"
  <2>1. Queue!Publish(e)
    BY <1>1, <1>3, <1>5, <1>6, <1>7, <1>8, <1>9, <1>11
    DEF Queue!Publish, Queue!MaySettle, SettledAs, Settled
  <2>2. QED
    BY <1>1, <2>1 DEF Queue!Next
<1>12. CASE row'[e].status = "dead" /\ row[e].status # "dead"
  <2>1. Queue!GiveUp(e)
    BY <1>5, <1>6, <1>7, <1>8, <1>9, <1>12
    DEF Queue!GiveUp, Queue!MaySettle, SettledAs, Settled
  <2>2. QED
    BY <1>1, <2>1 DEF Queue!Next
<1>13. CASE row'[e].status = "failed" /\ e \in late
  <2>1. Queue!Reopen(e)
    BY <1>5, <1>6, <1>7, <1>13 DEF Queue!Reopen, SettledAs, Settled
  <2>2. QED
    BY <1>1, <2>1 DEF Queue!Next
<1>14. CASE row'[e].status = "failed" /\ e \notin late
  <2>1. SettledAs(row'[e].status) = SettledAs(row[e].status)
    BY <1>8, <1>9, <1>14 DEF SettledAs, Settled
  <2>2. out' = out
    BY <1>7, <1>8, <2>1
  <2>3. QED
    BY <1>5, <1>6, <2>2 DEF Queue!vars
<1>15. QED
  BY <1>3, <1>10, <1>11, <1>12, <1>13, <1>14

(* JetStream storing a job's message delivers an accepted event.           *)
LEMMA SendMaps ==
    ASSUME IInv, NEW w \in Workers, NEW j \in batch[w],
           sent' = sent \/ sent' = sent \cup {<<j.ev, j.attempts>>},
           row' = row, late' = late
    PROVE  [Queue!Next]_Queue!vars
<1>1. j.ev \in Events /\ row[j.ev].status \in Committed
  BY HeldTyped
<1>2. CASE sent' = sent
  <2>1. \A e \in Events : WasSent(e)' <=> WasSent(e)
    BY <1>2 DEF WasSent
  <2>2. QED
    BY <2>1, Untouched DEF IInv, TypeOK
<1>3. CASE sent' = sent \cup {<<j.ev, j.attempts>>}
  <2>1. \A e \in Events : WasSent(e)' <=> (WasSent(e) \/ e = j.ev)
    <3>1. ASSUME NEW e \in Events, WasSent(e)'
          PROVE  WasSent(e) \/ e = j.ev
      <4>1. PICK m \in sent' : m[1] = e
        BY <3>1 DEF WasSent
      <4>2. m \in sent \/ m = <<j.ev, j.attempts>>
        BY <1>3, <4>1
      <4>3. QED
        BY <4>1, <4>2 DEF WasSent
    <3>2. ASSUME NEW e \in Events, WasSent(e) \/ e = j.ev
          PROVE  WasSent(e)'
      <4>1. CASE WasSent(e)
        BY <1>3, <4>1 DEF WasSent
      <4>2. CASE e = j.ev
        <5>1. <<j.ev, j.attempts>> \in sent' /\ <<j.ev, j.attempts>>[1] = e
          BY <1>3, <4>2
        <5>2. QED
          BY <5>1 DEF WasSent
      <4>3. QED
        BY <3>2, <4>1, <4>2
    <3>3. QED
      BY <3>1, <3>2
  <2>2. {e \in Events : WasSent(e)}' = {e \in Events : WasSent(e)} \cup {j.ev}
    BY <1>1, <2>1
  <2>3. Queue!Deliver(j.ev)
    BY <1>1, <2>2 DEF Queue!Deliver
  <2>4. QED
    BY <1>1, <2>3 DEF Queue!Next
<1>4. QED
  BY <1>2, <1>3

(* A failure recorded before its answer was lost makes the event late: the *)
(* row was open and stays so.                                              *)
LEMMA RepeatMaps ==
    ASSUME IInv, TypeOK', NEW w \in Workers, RepeatFailed(w)
    PROVE  [Queue!Next]_Queue!vars
<1>1. PICK j \in batch[w] :
          /\ IsHead(w, j)
          /\ \/ row' = row /\ late' = late
             \/ /\ row' = FailedRow(j)
                /\ late' = IF j.attempts < MaxAttempts THEN late \cup {j.ev} ELSE late
  BY DEF RepeatFailed
<1>2. pc[w] = "nack" /\ sent' = sent
  BY DEF RepeatFailed
<1>3. row' = row \/ row' = FailedRow(j)
  BY <1>1
<1>4. Outcome(j)
  BY <1>3, FailedOutcome
<1>5. j.ev \notin late => row[j.ev].status = "processing"
  BY <1>1, <1>2, <1>3, OutcomeInTime
<1>6. CASE late' = late
  BY <1>2, <1>4, <1>5, <1>6, OutcomeMaps
<1>7. CASE late' # late
  <2> DEFINE e == j.ev
  <2>1. /\ late' = late \cup {e} /\ e \notin late
        /\ row' = FailedRow(j) /\ j.attempts < MaxAttempts
    BY <1>1, <1>7
  <2>2. j.attempts \in Nat /\ e \in Events /\ row[e] \in Row /\ row \in [Events -> Row]
    BY HeldTyped DEF IInv, TypeOK
  <2>3. ~(j.attempts >= MaxAttempts)
    BY <2>1, <2>2, OutboxAssumption
  <2>4. /\ \A f \in Events \ {e} : row'[f] = row[f]
        /\ row'[e].status = "failed" /\ row[e].status = "processing"
    BY <1>5, <2>1, <2>2, <2>3 DEF FailedRow, Row
  <2>5. /\ {f \in Events : row[f].status \in Committed}'
              = {f \in Events : row[f].status \in Committed}
        /\ {f \in Events : WasSent(f)}' = {f \in Events : WasSent(f)}
    BY <1>2, <2>4 DEF Committed, Statuses, WasSent
  <2>6. [f \in Events |-> SettledAs(row[f].status)]'
              = [f \in Events |-> SettledAs(row[f].status)]
    BY <2>4 DEF SettledAs, Settled
  <2>7. e \in {f \in Events : row[f].status \in Committed}
    BY <2>2, <2>4 DEF Committed, Statuses
  <2>8. Queue!RunLate(e)
    BY <2>1, <2>5, <2>6, <2>7 DEF Queue!RunLate
  <2>9. QED
    BY <2>2, <2>8 DEF Queue!Next
<1>8. QED
  BY <1>6, <1>7

(* The queue is untouched by a step on rows whose statuses stay unsettled  *)
(* and committed as they are.                                              *)
LEMMA RowsMap ==
    ASSUME TypeOK, TypeOK', sent' = sent, late' = late,
           \A e \in Events :
              \/ row'[e].status = row[e].status
              \/ /\ row[e].status \in Committed \ Settled
                 /\ row'[e].status \in Committed \ Settled
              \/ /\ row[e].status \notin Committed
                 /\ row'[e].status \notin Committed
    PROVE  UNCHANGED Queue!vars
<1>1. \A e \in Events : WasSent(e)' <=> WasSent(e)
  BY DEF WasSent
<1>2. \A e \in Events :
          /\ row'[e].status \in Committed <=> row[e].status \in Committed
          /\ SettledAs(row'[e].status) = SettledAs(row[e].status)
  BY DEF SettledAs, Settled, Committed, Statuses
<1>3. QED
  BY <1>1, <1>2, Untouched DEF TypeOK

(* Producers and clocks: a commit accepts the event, an overrun lease      *)
(* makes it late, the rest is invisible to the queue.                      *)
LEMMA EventStepMaps ==
    ASSUME IInv, TypeOK', NEW e \in Events,
           \/ Enqueue(e) \/ CommitTx(e) \/ RollbackTx(e)
           \/ BackoffElapsed(e) \/ LeaseExpires(e)
    PROVE  [Queue!Next]_Queue!vars
<1>1. TypeOK /\ row \in [Events -> Row] /\ row[e] \in Row
  BY DEF IInv, TypeOK
<1>2. CASE Enqueue(e) \/ RollbackTx(e)
  <2>1. /\ sent' = sent /\ late' = late
        /\ row[e].status \notin Committed /\ row'[e].status \notin Committed
        /\ \A f \in Events \ {e} : row'[f] = row[f]
    <3>1. CASE Enqueue(e)
      BY <1>1, <3>1 DEF Enqueue, Committed, Row
    <3>2. CASE RollbackTx(e)
      BY <1>1, <3>2 DEF RollbackTx, Committed, Row
    <3>3. QED
      BY <1>2, <3>1, <3>2
  <2>2. QED
    BY <1>1, <2>1, RowsMap
<1>3. CASE BackoffElapsed(e)
  <2>1. /\ sent' = sent /\ late' = late
        /\ \A f \in Events : row'[f].status = row[f].status
    BY <1>1, <1>3 DEF BackoffElapsed, Row
  <2>2. QED
    BY <1>1, <2>1, RowsMap
<1>4. CASE CommitTx(e)
  <2>1. /\ sent' = sent /\ late' = late
        /\ row[e].status = "inserting" /\ row'[e].status = "pending"
        /\ \A f \in Events \ {e} : row'[f] = row[f]
    BY <1>1, <1>4 DEF CommitTx, Row
  <2>2. /\ {f \in Events : row[f].status \in Committed}'
              = {f \in Events : row[f].status \in Committed} \cup {e}
        /\ {f \in Events : WasSent(f)}' = {f \in Events : WasSent(f)}
    BY <2>1 DEF Committed, Statuses, WasSent
  <2>3. [f \in Events |-> SettledAs(row[f].status)]'
              = [f \in Events |-> SettledAs(row[f].status)]
    BY <2>1 DEF SettledAs, Settled
  <2>4. Queue!Accept(e)
    BY <2>1, <2>2, <2>3 DEF Queue!Accept
  <2>5. QED
    BY <2>4 DEF Queue!Next
<1>5. CASE LeaseExpires(e)
  <2>1. /\ sent' = sent /\ row[e].status = "processing"
        /\ \A f \in Events : row'[f].status = row[f].status
        /\ late' = late \/ late' = late \cup {e}
    BY <1>1, <1>5 DEF LeaseExpires, Row
  <2>2. CASE late' = late
    BY <1>1, <2>1, <2>2, RowsMap
  <2>3. CASE late' = late \cup {e}
    <3>1. /\ {f \in Events : row[f].status \in Committed}'
                = {f \in Events : row[f].status \in Committed}
          /\ {f \in Events : WasSent(f)}' = {f \in Events : WasSent(f)}
          /\ [f \in Events |-> SettledAs(row[f].status)]'
                = [f \in Events |-> SettledAs(row[f].status)]
      BY <2>1 DEF WasSent
    <3>2. e \in {f \in Events : row[f].status \in Committed}
      BY <2>1 DEF Committed, Statuses
    <3>3. Queue!RunLate(e)
      BY <2>3, <3>1, <3>2 DEF Queue!RunLate
    <3>4. QED
      BY <3>3 DEF Queue!Next
  <2>4. QED
    BY <2>1, <2>2, <2>3
<1>6. QED
  BY <1>2, <1>3, <1>4, <1>5

(* Workers: a publish may deliver, an outcome settles; starting, claiming  *)
(* and dying are invisible to the queue.                                   *)
LEMMA WorkerStepMaps ==
    ASSUME IInv, TypeOK', NEW w \in Workers,
           \/ Start(w) \/ ClaimPending(w) \/ ClaimAnswerLost(w)
           \/ PublishAcked(w) \/ PublishFailed(w)
           \/ MarkPublished(w) \/ RepeatPublished(w) \/ MarkPublishedError(w)
           \/ MarkFailed(w) \/ RepeatFailed(w) \/ MarkFailedError(w) \/ Crash(w)
    PROVE  [Queue!Next]_Queue!vars
<1>1. TypeOK /\ row \in [Events -> Row] /\ \A e \in Events : row[e] \in Row
  BY DEF IInv, TypeOK
<1>2. CASE Start(w)
  <2>1. /\ sent' = sent /\ late' = late
        /\ \A e \in Events :
              \/ row'[e] = row[e]
              \/ row[e].status = "processing" /\ row'[e].status = "pending"
    BY <1>1, <1>2 DEF Start, Row
  <2>2. QED
    BY <1>1, <2>1, RowsMap DEF Committed, Statuses, Settled
<1>3. CASE ClaimPending(w) \/ ClaimAnswerLost(w)
  <2>1. sent' = sent /\ late' = late /\ row' = ClaimRows(ClaimSet)
    BY <1>3 DEF ClaimPending, ClaimAnswerLost
  <2>2. \A e \in Events :
            \/ row'[e] = row[e]
            \/ /\ row[e].status \in {"pending", "failed", "processing"}
               /\ row'[e].status = "processing"
    BY <2>1, ClaimFields
  <2>3. QED
    BY <1>1, <2>1, <2>2, RowsMap DEF Committed, Statuses, Settled
<1>4. CASE PublishAcked(w) \/ PublishFailed(w)
  <2>1. PICK j \in batch[w] : sent' = sent \/ sent' = sent \cup {<<j.ev, j.attempts>>}
    BY <1>4 DEF PublishAcked, PublishFailed
  <2>2. row' = row /\ late' = late
    BY <1>4 DEF PublishAcked, PublishFailed
  <2>3. QED
    BY <2>1, <2>2, SendMaps
<1>5. CASE MarkPublished(w) \/ RepeatPublished(w) \/ MarkPublishedError(w)
  <2>1. PICK j \in batch[w] : IsHead(w, j) /\ (row' = row \/ row' = PublishedRow(j.ev))
    BY <1>5 DEF MarkPublished, RepeatPublished, MarkPublishedError
  <2>2. pc[w] \in {"ack", "reack"} /\ sent' = sent /\ late' = late
    BY <1>5 DEF MarkPublished, RepeatPublished, MarkPublishedError
  <2>3. WasSent(j.ev)
    BY <2>1, <2>2 DEF IInv, AckedWasSent
  <2>4. Outcome(j)
    BY <2>1, <2>3, PublishedOutcome
  <2>5. QED
    BY <2>1, <2>2, <2>4, OutcomeInTime, OutcomeMaps
<1>6. CASE MarkFailed(w) \/ MarkFailedError(w)
  <2>1. PICK j \in batch[w] : IsHead(w, j) /\ (row' = row \/ row' = FailedRow(j))
    BY <1>6 DEF MarkFailed, MarkFailedError
  <2>2. pc[w] \in {"nack", "renack"} /\ sent' = sent /\ late' = late
    BY <1>6 DEF MarkFailed, MarkFailedError
  <2>3. Outcome(j)
    BY <2>1, FailedOutcome
  <2>4. QED
    BY <2>1, <2>2, <2>3, OutcomeInTime, OutcomeMaps
<1>7. CASE Crash(w)
  <2>1. row' = row /\ sent' = sent /\ late' = late
    BY <1>7 DEF Crash
  <2>2. QED
    BY <1>1, <2>1, RowsMap
<1>8. CASE RepeatFailed(w)
  BY <1>8, RepeatMaps
<1>9. QED
  BY <1>2, <1>3, <1>4, <1>5, <1>6, <1>7, <1>8

(* The empty table is the empty queue.                                     *)
LEMMA InitMaps == Init => Queue!Init
<1> SUFFICES ASSUME Init PROVE Queue!Init
  OBVIOUS
<1>1. {e \in Events : row[e].status \in Committed} = {}
  BY DEF Init, Committed
<1>2. {e \in Events : WasSent(e)} = {}
  BY DEF Init, WasSent
<1>3. [e \in Events |-> SettledAs(row[e].status)] = [e \in Events |-> "open"]
  BY DEF Init, SettledAs, Settled
<1>4. QED
  BY <1>1, <1>2, <1>3 DEF Init, Queue!Init

(* The workers, leases, retries and crashes of the outbox amount to the    *)
(* queue its producers are promised: an event is delivered only once its   *)
(* transaction committed, published only once delivered, and settled for   *)
(* good unless some worker overran its lease on it, or repeats a failure   *)
(* UPDATE that had already released it.                                    *)
THEOREM OutboxImplementsQueue == Spec => ImplementsQueue
<1>1. ASSUME IInv, [Next]_vars PROVE [Queue!Next]_Queue!vars
  <2>1. TypeOK'
    BY <1>1, TypeStep DEF IInv
  <2>2. CASE UNCHANGED vars
    <3>1. row' = row /\ sent' = sent /\ late' = late
      BY <2>2 DEF vars
    <3>2. QED
      BY <1>1, <2>1, <3>1, RowsMap DEF IInv
  <2>3. ASSUME NEW e \in Events,
               \/ Enqueue(e) \/ CommitTx(e) \/ RollbackTx(e)
               \/ BackoffElapsed(e) \/ LeaseExpires(e)
        PROVE  [Queue!Next]_Queue!vars
    BY <1>1, <2>1, <2>3, EventStepMaps
  <2>4. ASSUME NEW w \in Workers,
               \/ Start(w) \/ ClaimPending(w) \/ ClaimAnswerLost(w)
               \/ PublishAcked(w) \/ PublishFailed(w)
               \/ MarkPublished(w) \/ RepeatPublished(w) \/ MarkPublishedError(w)
               \/ MarkFailed(w) \/ RepeatFailed(w) \/ MarkFailedError(w) \/ Crash(w)
        PROVE  [Queue!Next]_Queue!vars
    BY <1>1, <2>1, <2>4, WorkerStepMaps
  <2>5. QED
    BY <1>1, <2>2, <2>3, <2>4 DEF Next
<1>2. QED
  BY <1>1, InitMaps, Invariance, PTL DEF Spec, ImplementsQueue, Queue!Spec
=============================================================================
