------------------------- MODULE RecordingPipeline -------------------------
(***************************************************************************)
(* Recordings of one call, from capture to deletion: recording.Service,    *)
(* its CaptureManager and SpoolProcessor, and RecordingRepo.               *)
(*                                                                         *)
(* The app server captures a room into a spool directory and turns the     *)
(* recordings row to 'processing' when a user stops the recording or the   *)
(* room closes.  Processing workers list due rows, count an attempt, read  *)
(* the spool, upload the artifacts under keys that depend only on the      *)
(* recording, and set the row 'ready'.  Cleaners delete expired rows and   *)
(* their objects.  The server and cmd/recording-worker each run a worker   *)
(* and a cleaner on the same spool directory, database and object store;   *)
(* every UPDATE but Stop's names its row by id only.                       *)
(*                                                                         *)
(* Who may record, quotas, audit rows, hooks and storage tiers are left    *)
(* out; batch limits are too, as there are fewer recordings than a batch.  *)
(***************************************************************************)
EXTENDS Naturals, FiniteSets

CONSTANTS
    Recordings,    \* ids of recordings, each started at most once
    Workers,       \* processing workers
    ServerWorkers, \* those that run inside the app server
    Cleaners,      \* cleanup workers
    NumArtifacts,  \* objects uploaded for a recording, in this order
    MaxAttempts,   \* max_processing_attempts
    MaxFaults      \* bound: crashes, failed or unanswered calls

ASSUME RecordingAssumption ==
    /\ ServerWorkers \subseteq Workers
    /\ NumArtifacts \in Nat \ {0}
    /\ MaxAttempts \in Nat \ {0}
    /\ MaxFaults \in Nat

VARIABLES
    row,       \* table recordings
    room,      \* the media room of the call
    start,     \* StartRecording of each recording
    capture,   \* CaptureManager.sessions
    spool,     \* the spool directory: "open" without state.json, "sealed" with
    stopper,   \* StopRecording and autoStopOnRoomClose of each recording
    objects,   \* the artifacts of a recording in the object store
    worker,    \* where each worker is in ProcessPending
    cleaner,   \* where each cleaner is in CleanupExpired
    faults,
    orphan,    \* history: recordings whose auto-stop was lost with a fault
    unsure,    \* history: recordings set ready by a transaction whose answer was lost
    lateHold   \* history: recordings put on hold while a cleaner had them listed

vars == <<row, room, start, capture, spool, stopper, objects, worker, cleaner,
          faults, orphan, unsure, lateHold>>

----------------------------------------------------------------------------
Artifacts == 1 .. NumArtifacts
Statuses == {"none", "recording", "processing", "ready", "failed", "deleted"}

Row == [status : Statuses, attempts : Nat,
        due : BOOLEAN,       \* next_retry_at IS NULL OR next_retry_at <= now
        expired : BOOLEAN,   \* expires_at <= now
        hold : BOOLEAN]      \* legal_hold

NoRow == [status |-> "none", attempts |-> 0, due |-> FALSE, expired |-> FALSE, hold |-> FALSE]

StartPCs == {"new", "checked", "capturing", "done"}
Stoppers == {"user", "room"}
StopPCs  == {"idle", "wait", "take", "seal", "row", "done"}

IdleWorker  == [pc |-> "idle", batch |-> {}, rec |-> {}, attempts |-> 0, up |-> 0]
IdleCleaner == [batch |-> {}, rec |-> {}, left |-> {}]

Init ==
    /\ row = [r \in Recordings |-> NoRow]
    /\ room = "open"
    /\ start = [r \in Recordings |-> "new"]
    /\ capture = {}
    /\ spool = [r \in Recordings |-> "none"]
    /\ stopper = [a \in Stoppers \X Recordings |-> "idle"]
    /\ objects = [r \in Recordings |-> {}]
    /\ worker = [w \in Workers |-> IdleWorker]
    /\ cleaner = [c \in Cleaners |-> IdleCleaner]
    /\ faults = 0
    /\ orphan = {} /\ unsure = {} /\ lateHold = {}

Fault == faults < MaxFaults /\ faults' = faults + 1

Exists(r) == row[r].status \notin {"none", "deleted"}
SetRow(r, new) == row' = [row EXCEPT ![r] = new]

noted == <<orphan, unsure, lateHold>>
captured == <<room, start, capture, stopper>>
work == <<worker, cleaner>>

----------------------------------------------------------------------------
(* StartRecording, after its access checks.                                *)

\* ListByCall finds no recording under way, and the room exists.
StartRecording(r) ==
    /\ start[r] = "new"
    /\ \A q \in Recordings : row[q].status # "recording"
    /\ room = "open"
    /\ start' = [start EXCEPT ![r] = "checked"]
    /\ UNCHANGED <<row, room, capture, spool, stopper, objects, work, faults, noted>>

\* CaptureManager.Start: a closed room takes no observer.
CaptureStart(r) ==
    /\ start[r] = "checked"
    /\ spool' = [spool EXCEPT ![r] = "open"]
    /\ IF room = "open"
       THEN start' = [start EXCEPT ![r] = "capturing"] /\ capture' = capture \cup {r}
       ELSE start' = [start EXCEPT ![r] = "done"] /\ UNCHANGED capture
    /\ UNCHANGED <<row, room, stopper, objects, work, faults, noted>>

NewRow == [NoRow EXCEPT !.status = "recording"]

\* Mutation: nobody waits for the room.
CreateUnwatched(r) ==
    /\ start[r] = "capturing"
    /\ SetRow(r, NewRow)
    /\ start' = [start EXCEPT ![r] = "done"]
    /\ UNCHANGED <<room, capture, spool, stopper, objects, work, faults, noted>>

\* The row is committed, then autoStopOnRoomClose waits for the room.
Create(r) ==
    /\ start[r] = "capturing"
    /\ SetRow(r, NewRow)
    /\ start' = [start EXCEPT ![r] = "done"]
    /\ stopper' = [stopper EXCEPT ![<<"room", r>>] = "wait"]
    /\ UNCHANGED <<room, capture, spool, objects, work, faults, noted>>

\* The commit fails, or only its answer is lost: the capture is stopped.
CreateFails(r) ==
    /\ start[r] = "capturing"
    /\ Fault
    /\ row' \in {row, [row EXCEPT ![r] = NewRow]}
    /\ orphan' = orphan \cup {r}
    /\ start' = [start EXCEPT ![r] = "done"]
    /\ capture' = capture \ {r}
    /\ spool' \in {spool, [spool EXCEPT ![r] = "sealed"]}
    /\ UNCHANGED <<room, stopper, objects, work, unsure, lateHold>>

CloseRoom ==
    /\ room = "open"
    /\ room' = "closed"
    /\ UNCHANGED <<row, start, capture, spool, stopper, objects, work, faults, noted>>

----------------------------------------------------------------------------
(* StopRecording by a user and autoStopOnRoomClose, in the same steps.     *)

At(a, l) == stopper' = [stopper EXCEPT ![a] = l]

\* A user may try again; the goroutine ends.
Over(a) == IF a[1] = "user" THEN "idle" ELSE "done"

StopRead(a) ==
    /\ \/ a[1] = "user" /\ stopper[a] = "idle" /\ row[a[2]].status = "recording"
       \/ a[1] = "room" /\ stopper[a] = "wait" /\ room = "closed"
    /\ At(a, IF row[a[2]].status = "recording" THEN "take" ELSE Over(a))
    /\ UNCHANGED <<row, room, start, capture, spool, objects, work, faults, noted>>

\* CaptureManager.Stop takes the session, if there still is one.
StopTake(a) ==
    /\ stopper[a] = "take"
    /\ At(a, IF a[2] \in capture THEN "seal" ELSE "row")
    /\ capture' = capture \ {a[2]}
    /\ UNCHANGED <<row, room, start, spool, objects, work, faults, noted>>

\* captureSession.stop: the tracks are closed and state.json written.
StopSeal(a) ==
    /\ stopper[a] = "seal"
    /\ spool' = [spool EXCEPT ![a[2]] = "sealed"]
    /\ At(a, "row")
    /\ UNCHANGED <<row, room, start, capture, objects, work, faults, noted>>

Stopped(r) == [row[r] EXCEPT !.status = "processing", !.due = TRUE]

\* Mutation: the UPDATE does not look at the status.
StopRowAnyStatus(a) ==
    /\ stopper[a] = "row"
    /\ row' = IF Exists(a[2]) THEN [row EXCEPT ![a[2]] = Stopped(a[2])] ELSE row
    /\ At(a, Over(a))
    /\ UNCHANGED <<room, start, capture, spool, objects, work, faults, noted>>

\* UPDATE ... SET status = 'processing' WHERE id = $1 AND status = 'recording'
StopRow(a) ==
    /\ stopper[a] = "row"
    /\ row' = IF row[a[2]].status = "recording"
              THEN [row EXCEPT ![a[2]] = Stopped(a[2])]
              ELSE row
    /\ At(a, Over(a))
    /\ UNCHANGED <<room, start, capture, spool, objects, work, faults, noted>>

\* A read, the capture or the UPDATE fails: the stop is given up where it is.
StopFails(a) ==
    /\ \/ stopper[a] \in {"seal", "row"}
       \/ a[1] = "room" /\ stopper[a] = "wait" /\ room = "closed"
    /\ Fault
    /\ At(a, Over(a))
    /\ \/ UNCHANGED row
       \/ /\ stopper[a] = "row" /\ row[a[2]].status = "recording"
          /\ SetRow(a[2], Stopped(a[2]))
    /\ orphan' = IF a[1] = "room" THEN orphan \cup {a[2]} ELSE orphan
    /\ UNCHANGED <<room, start, capture, spool, objects, work, unsure, lateHold>>

----------------------------------------------------------------------------
(* ProcessPending.                                                         *)

\* Mutation: a row in 'processing' is taken for one that somebody works on.
ProcessableUntried(r) ==
    /\ row[r].status \in {"processing", "failed"}
    /\ row[r].due
    /\ row[r].attempts < (IF row[r].status = "processing" THEN 1 ELSE MaxAttempts)

\* WHERE clause of ListProcessable.
Processable(r) ==
    /\ row[r].status \in {"processing", "failed"}
    /\ row[r].due
    /\ row[r].status = "processing" \/ row[r].attempts < MaxAttempts

ListProcessable(w) ==
    /\ worker[w].pc = "idle"
    /\ worker[w].batch = {}
    /\ \E r \in Recordings : Processable(r)
    /\ worker' = [worker EXCEPT ![w].batch = {r \in Recordings : Processable(r)}]
    /\ UNCHANGED <<row, captured, spool, objects, cleaner, faults, noted>>

Marked(r) == [row[r] EXCEPT !.status = "processing", !.attempts = @ + 1, !.due = TRUE]

Taken(w, r) == [worker[w] EXCEPT !.pc = "load", !.rec = {r}, !.batch = @ \ {r},
                                 !.attempts = row[r].attempts + 1]

\* MarkProcessingAttempt, for a row that may be anything by now.
MarkProcessingAttempt(w, r) ==
    /\ worker[w].pc = "idle"
    /\ r \in worker[w].batch
    /\ IF Exists(r)
       THEN /\ SetRow(r, Marked(r))
            /\ worker' = [worker EXCEPT ![w] = Taken(w, r)]
       ELSE /\ worker' = [worker EXCEPT ![w].batch = @ \ {r}]
            /\ UNCHANGED row
    /\ UNCHANGED <<captured, spool, objects, cleaner, faults, noted>>

\* Its answer is an error, applied or not; it is tried again or skipped.
MarkAttemptFails(w, r) ==
    /\ worker[w].pc = "idle"
    /\ r \in worker[w].batch
    /\ Exists(r)
    /\ Fault
    /\ row' \in {row, [row EXCEPT ![r] = Marked(r)]}
    /\ worker' \in {worker, [worker EXCEPT ![w].batch = @ \ {r}]}
    /\ UNCHANGED <<captured, spool, objects, cleaner, noted>>

GoTo(w, l) == worker' = [worker EXCEPT ![w].pc = l]

\* The worker is done with its recording.
NextRecording(w) ==
    worker' = [worker EXCEPT ![w] = [IdleWorker EXCEPT !.batch = worker[w].batch]]

\* LoadSpoolState: without state.json the attempt fails.
LoadSpool(w) ==
    /\ worker[w].pc = "load"
    /\ \E r \in worker[w].rec : GoTo(w, IF spool[r] = "sealed" THEN "upload" ELSE "fail")
    /\ UNCHANGED <<row, captured, spool, objects, cleaner, faults, noted>>

\* One artifact is rendered from the spool and uploaded.
Upload(w) ==
    /\ worker[w].pc = "upload"
    /\ worker[w].up < NumArtifacts
    /\ \E r \in worker[w].rec :
          /\ spool[r] = "sealed"
          /\ objects' = [objects EXCEPT ![r] = @ \cup {worker[w].up + 1}]
    /\ worker' = [worker EXCEPT ![w].up = @ + 1]
    /\ UNCHANGED <<row, captured, spool, cleaner, faults, noted>>

\* Mutation: what was uploaded is deleted, and the failure forgotten.
UploadFailsQuietly(w) ==
    /\ worker[w].pc = "upload"
    /\ worker[w].up < NumArtifacts
    /\ \E r \in worker[w].rec :
          /\ objects' = [objects EXCEPT ![r] = @ \ (1 .. worker[w].up)]
          /\ \/ spool[r] # "sealed" /\ UNCHANGED faults
             \/ Fault
    /\ worker' = [worker EXCEPT ![w] = [@ EXCEPT !.up = NumArtifacts]]
    /\ UNCHANGED <<row, captured, spool, cleaner, noted>>

\* A file of the spool is gone, or rendering or the upload fails: what this
\* attempt uploaded is deleted again, as far as the store lets it; the upload
\* that failed may be stored all the same.
UploadFails(w) ==
    /\ worker[w].pc = "upload"
    /\ worker[w].up < NumArtifacts
    /\ \E r \in worker[w].rec :
          \/ /\ spool[r] # "sealed"
             /\ objects' = [objects EXCEPT ![r] = @ \ (1 .. worker[w].up)]
             /\ UNCHANGED faults
          \/ /\ Fault
             /\ \E kept \in SUBSET (1 .. worker[w].up + 1) :
                   objects' = [objects EXCEPT ![r] = (@ \ (1 .. worker[w].up)) \cup kept]
    /\ GoTo(w, "fail")
    /\ UNCHANGED <<row, captured, spool, cleaner, noted>>

Ready(r) == [row[r] EXCEPT !.status = "ready", !.due = TRUE]

\* ReplaceArtifacts and SetReady in one transaction.
FinalizeReady(w) ==
    /\ worker[w].pc = "upload"
    /\ worker[w].up = NumArtifacts
    /\ \E r \in worker[w].rec : Exists(r) /\ SetRow(r, Ready(r))
    /\ GoTo(w, "clean")
    /\ UNCHANGED <<captured, spool, objects, cleaner, faults, noted>>

\* The row is gone, or the transaction fails or only its answer is lost:
\* deleteUploadedArtifacts, as far as it goes, then handleProcessingFailure.
FinalizeFails(w) ==
    /\ worker[w].pc = "upload"
    /\ worker[w].up = NumArtifacts
    /\ \E r \in worker[w].rec :
          /\ objects' \in {objects, [objects EXCEPT ![r] = {}]}
          /\ \/ ~Exists(r) /\ UNCHANGED <<row, faults, unsure>>
             \/ Fault /\ UNCHANGED <<row, unsure>>
             \/ /\ Exists(r)
                /\ Fault
                /\ SetRow(r, Ready(r))
                /\ unsure' = unsure \cup {r}
    /\ GoTo(w, "fail")
    /\ UNCHANGED <<captured, spool, cleaner, orphan, lateHold>>

\* RemoveSpoolDir once the recording is ready; an error is logged.
RemoveSpool(w) ==
    /\ worker[w].pc = "clean"
    /\ \E r \in worker[w].rec : spool' \in {spool, [spool EXCEPT ![r] = "none"]}
    /\ NextRecording(w)
    /\ UNCHANGED <<row, captured, objects, cleaner, faults, noted>>

\* handleProcessingFailure: a retry after the backoff while attempts are left.
Failed(r, attempts) ==
    [row[r] EXCEPT !.status = "failed", !.due = attempts >= MaxAttempts]

MarkFailed(w) ==
    /\ worker[w].pc = "fail"
    /\ \E r \in worker[w].rec :
          IF Exists(r) THEN SetRow(r, Failed(r, worker[w].attempts)) ELSE UNCHANGED row
    /\ NextRecording(w)
    /\ UNCHANGED <<captured, spool, objects, cleaner, faults, noted>>

\* An error of MarkFailed is logged.
MarkFailedError(w) ==
    /\ worker[w].pc = "fail"
    /\ Fault
    /\ \E r \in worker[w].rec :
          Exists(r) /\ row' \in {row, [row EXCEPT ![r] = Failed(r, worker[w].attempts)]}
    /\ NextRecording(w)
    /\ UNCHANGED <<captured, spool, objects, cleaner, noted>>

\* next_retry_at passes.
RetryDue(r) ==
    /\ row[r].status = "failed"
    /\ ~row[r].due
    /\ SetRow(r, [row[r] EXCEPT !.due = TRUE])
    /\ UNCHANGED <<captured, spool, objects, work, faults, noted>>

----------------------------------------------------------------------------
(* CleanupExpired and SetLegalHold.                                        *)

\* expires_at passes; it matters only once the recording is ready.
Expire(r) ==
    /\ row[r].status = "ready"
    /\ ~row[r].expired
    /\ SetRow(r, [row[r] EXCEPT !.expired = TRUE])
    /\ UNCHANGED <<captured, spool, objects, work, faults, noted>>

Listed(r) == \E c \in Cleaners : r \in cleaner[c].batch \cup cleaner[c].rec

SetLegalHold(r, hold) ==
    /\ Exists(r)
    /\ SetRow(r, [row[r] EXCEPT !.hold = hold])
    /\ lateHold' = IF hold /\ Listed(r) THEN lateHold \cup {r} ELSE lateHold
    /\ UNCHANGED <<captured, spool, objects, work, faults, orphan, unsure>>

\* Mutation: the query forgets legal holds.
ExpiredHeldOrNot(r) == row[r].status = "ready" /\ row[r].expired

\* WHERE clause of ListExpired.
Expired(r) == row[r].status = "ready" /\ row[r].expired /\ ~row[r].hold

ListExpired(c) ==
    /\ cleaner[c] = IdleCleaner
    /\ \E r \in Recordings : Expired(r)
    /\ cleaner' = [cleaner EXCEPT ![c].batch = {r \in Recordings : Expired(r)}]
    /\ UNCHANGED <<row, captured, spool, objects, worker, faults, noted>>

CleanNext(c, r) ==
    /\ cleaner[c].rec = {}
    /\ r \in cleaner[c].batch
    /\ cleaner' = [cleaner EXCEPT ![c] = [batch |-> @.batch \ {r}, rec |-> {r},
                                          left |-> Artifacts]]
    /\ UNCHANGED <<row, captured, spool, objects, worker, faults, noted>>

\* One object is deleted; a missing one counts as deleted.
DeleteObject(c, k) ==
    /\ k \in cleaner[c].left
    /\ \E r \in cleaner[c].rec : objects' = [objects EXCEPT ![r] = @ \ {k}]
    /\ cleaner' = [cleaner EXCEPT ![c].left = @ \ {k}]
    /\ UNCHANGED <<row, captured, spool, worker, faults, noted>>

\* Delete by id, then the spool.  A row that is gone already is an error,
\* which ends the batch.
DeleteRow(c) ==
    /\ cleaner[c].rec # {}
    /\ cleaner[c].left = {}
    /\ \E r \in cleaner[c].rec :
          IF Exists(r)
          THEN /\ SetRow(r, [row[r] EXCEPT !.status = "deleted"])
               /\ spool' = [spool EXCEPT ![r] = "none"]
               /\ cleaner' = [cleaner EXCEPT ![c] = [IdleCleaner EXCEPT !.batch = cleaner[c].batch]]
          ELSE /\ cleaner' = [cleaner EXCEPT ![c] = IdleCleaner]
               /\ UNCHANGED <<row, spool>>
    /\ UNCHANGED <<captured, objects, worker, faults, noted>>

\* Any error of the store or the database ends the batch.
CleanupFails(c) ==
    /\ cleaner[c].rec # {}
    /\ Fault
    /\ cleaner' = [cleaner EXCEPT ![c] = IdleCleaner]
    /\ \/ UNCHANGED row
       \/ cleaner[c].left = {} /\ \E r \in cleaner[c].rec :
                Exists(r) /\ SetRow(r, [row[r] EXCEPT !.status = "deleted"])
    /\ UNCHANGED <<captured, spool, objects, worker, noted>>

----------------------------------------------------------------------------
\* The app server dies with its room, captures, requests and workers; the
\* rows and the spool directory stay.
ServerCrash ==
    /\ Fault
    /\ room' = "closed"
    /\ capture' = {}
    /\ start' = [r \in Recordings |-> IF start[r] = "new" THEN "new" ELSE "done"]
    /\ stopper' = [a \in Stoppers \X Recordings |-> Over(a)]
    /\ orphan' = orphan \cup Recordings
    /\ worker' = [w \in Workers |-> IF w \in ServerWorkers THEN IdleWorker ELSE worker[w]]
    /\ UNCHANGED <<row, spool, objects, cleaner, unsure, lateHold>>

ProcessStep(w) ==
    \/ ListProcessable(w) \/ LoadSpool(w) \/ Upload(w) \/ FinalizeReady(w)
    \/ RemoveSpool(w) \/ MarkFailed(w)
    \/ \E r \in Recordings : MarkProcessingAttempt(w, r)

Next ==
    \/ \E r \in Recordings :
          \/ StartRecording(r) \/ CaptureStart(r) \/ Create(r) \/ CreateFails(r)
          \/ RetryDue(r) \/ Expire(r) \/ \E hold \in BOOLEAN : SetLegalHold(r, hold)
          \/ \E w \in Workers : MarkAttemptFails(w, r)
          \/ \E c \in Cleaners : CleanNext(c, r)
    \/ CloseRoom
    \/ \E a \in Stoppers \X Recordings :
          StopRead(a) \/ StopTake(a) \/ StopSeal(a) \/ StopRow(a) \/ StopFails(a)
    \/ \E w \in Workers :
          ProcessStep(w) \/ UploadFails(w) \/ FinalizeFails(w) \/ MarkFailedError(w)
    \/ \E c \in Cleaners :
          \/ ListExpired(c) \/ DeleteRow(c) \/ CleanupFails(c)
          \/ \E k \in Artifacts : DeleteObject(c, k)
    \/ ServerCrash

Spec == Init /\ [][Next]_vars

\* The goroutine that waits for the room runs on; the tickers of a worker keep
\* it going, and Supervise starts it again; clocks advance.
Fairness ==
    /\ \A r \in Recordings :
          /\ WF_vars(LET a == <<"room", r>> IN
                        StopRead(a) \/ StopTake(a) \/ StopSeal(a) \/ StopRow(a))
          /\ WF_vars(RetryDue(r))
    /\ \A w \in Workers :
          WF_vars(ProcessStep(w) \/ UploadFails(w) \/ FinalizeFails(w))

LiveSpec == Spec /\ Fairness

----------------------------------------------------------------------------
\* The shape of every variable; an idle worker holds no recording, a cleaner
\* with objects left has one.
TypeOK ==
    /\ row \in [Recordings -> Row]
    /\ room \in {"open", "closed"}
    /\ start \in [Recordings -> StartPCs]
    /\ capture \subseteq Recordings
    /\ spool \in [Recordings -> {"none", "open", "sealed"}]
    /\ stopper \in [Stoppers \X Recordings -> StopPCs]
    /\ objects \in [Recordings -> SUBSET Artifacts]
    /\ \A w \in Workers :
          /\ worker[w].pc \in {"idle", "load", "upload", "clean", "fail"}
          /\ worker[w].batch \subseteq Recordings /\ worker[w].rec \subseteq Recordings
          /\ Cardinality(worker[w].rec) = IF worker[w].pc = "idle" THEN 0 ELSE 1
          /\ worker[w].attempts \in Nat /\ worker[w].up \in 0 .. NumArtifacts
    /\ \A c \in Cleaners :
          /\ cleaner[c].batch \subseteq Recordings /\ cleaner[c].rec \subseteq Recordings
          /\ cleaner[c].left \subseteq Artifacts
          /\ cleaner[c].left # {} => cleaner[c].rec # {}
    /\ faults \in 0 .. MaxFaults
    /\ orphan \cup unsure \cup lateHold \subseteq Recordings

\* A ready recording has every object its artifact rows name, until it expires:
\* whatever failed, retried or crashed, an attempt's clean-up does not take the
\* objects of an attempt that succeeded.  Excepted is a recording set ready by
\* a transaction whose answer was lost and whose worker then deleted its uploads.
ReadyIsWhole ==
    \A r \in Recordings \ unsure :
        row[r].status = "ready" /\ ~row[r].expired => objects[r] = Artifacts

\* A recording that may be processed still has its spool directory, which is
\* removed only after the ready state, or the deletion, is committed.
SpoolIsKept ==
    \A r \in Recordings :
        row[r].status = "processing" \/ (row[r].status = "failed" /\ row[r].attempts < MaxAttempts)
            => spool[r] # "none"

\* No capture outlives its recording: whoever of the user, the closing room and
\* a failed start comes first, the observer is detached before the row says that
\* the recording is over.
CaptureHasRecording ==
    \A r \in capture : start[r] = "capturing" \/ row[r].status = "recording"

\* From the first packet to its expiry, what was recorded is in a capture, in
\* the spool or in the object store.
MediaIsKept == ReadyIsWhole /\ SpoolIsKept /\ CaptureHasRecording

\* A hold set before a cleaner listed the recording keeps it.
HoldKeepsRecording ==
    \A r \in Recordings : row[r].status = "deleted" /\ row[r].hold => r \in lateHold

\* A ready recording is never taken back, and one that failed MaxAttempts times
\* never tried again, whoever stops, lists or marks it late.  (The exception of
\* ReadyIsWhole holds here too: its worker marks the ready row failed.)
OutcomeIsFinal ==
    [][\A r \in Recordings \ unsure' :
         /\ row[r].status = "ready" => row'[r].status \in {"ready", "deleted"}
         /\ row[r].status = "failed" /\ row[r].attempts >= MaxAttempts
                => row'[r].status = "failed"]_vars

\* A recording does not outlast its room, unless a fault took its auto-stop.
RoomCloseEndsRecording ==
    \A r \in Recordings :
        room = "closed" /\ row[r].status = "recording"
            ~> row[r].status # "recording" \/ r \in orphan

\* A stopped recording becomes ready, or fails with all its attempts used.
ProcessingSettles ==
    \A r \in Recordings :
        row[r].status = "processing" ~>
            \/ row[r].status \in {"ready", "deleted"}
            \/ row[r].status = "failed" /\ row[r].attempts >= MaxAttempts

\* docs/performance-and-latency.md: "Recordings move from `recording` to
\* `processing` to `ready`."  With two workers a ready one is processed again.
MovesForward ==
    [][\A r \in Recordings :
         row[r].status = "ready" => row'[r].status \in {"ready", "deleted"}]_vars
=============================================================================
