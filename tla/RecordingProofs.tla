-------------------------- MODULE RecordingProofs --------------------------
(***************************************************************************)
(* Proofs about RecordingPipeline.  First what holds for any number of     *)
(* workers and cleaners: the shape of the state, that a capture has its    *)
(* recording, that a hold keeps a recording.  Then what holds of a         *)
(* deployment with one processing worker: that no medium is lost and no    *)
(* outcome taken back.  With two workers it does not hold, see MovesForward. *)
(***************************************************************************)
EXTENDS RecordingPipeline, FiniteSetTheorems, TLAPS

-----------------------------------------------------------------------------
(* The shape of the state, as functions and records.                       *)
WorkerStates ==
    [pc : {"idle", "load", "upload", "clean", "fail"}, batch : SUBSET Recordings,
     rec : SUBSET Recordings, attempts : Nat, up : 0 .. NumArtifacts]

CleanerStates ==
    [batch : SUBSET Recordings, rec : SUBSET Recordings, left : SUBSET Artifacts]

\* A worker holds one recording while it processes, none between two of them.
HoldsOne(w) ==
    IF worker[w].pc = "idle" THEN worker[w].rec = {}
    ELSE \E r \in Recordings : worker[w].rec = {r}

\* A cleaner holds at most one, and has objects left to delete only of that one.
CleansOne(c) ==
    \/ cleaner[c].rec = {} /\ cleaner[c].left = {}
    \/ \E r \in Recordings : cleaner[c].rec = {r}

Shapes ==
    /\ row \in [Recordings -> Row]
    /\ room \in {"open", "closed"}
    /\ start \in [Recordings -> StartPCs]
    /\ capture \in SUBSET Recordings
    /\ spool \in [Recordings -> {"none", "open", "sealed"}]
    /\ stopper \in [Stoppers \X Recordings -> StopPCs]
    /\ objects \in [Recordings -> SUBSET Artifacts]
    /\ worker \in [Workers -> WorkerStates]
    /\ cleaner \in [Cleaners -> CleanerStates]
    /\ \A w \in Workers : HoldsOne(w)
    /\ \A c \in Cleaners : CleansOne(c)
    /\ faults \in 0 .. MaxFaults
    /\ orphan \in SUBSET Recordings
    /\ unsure \in SUBSET Recordings
    /\ lateHold \in SUBSET Recordings

-----------------------------------------------------------------------------
(* What holds whatever the number of workers.                              *)

\* There is no row before the commit that ends StartRecording.
StartedRow == \A r \in Recordings : start[r] # "done" => row[r].status = "none"

\* Who stops a recording has read its row; once past CaptureManager.Stop, there
\* is no capture of it, and none will come.
StoppersFit ==
    \A a \in Stoppers \X Recordings :
        /\ stopper[a] \in {"take", "seal", "row"} => row[a[2]].status # "none"
        /\ stopper[a] \in {"seal", "row"} => a[2] \notin capture

\* What a worker or a cleaner has listed is no longer being recorded.
IsOver(r) == row[r].status \notin {"none", "recording"}
ListedIsOver ==
    /\ \A w \in Workers : \A r \in worker[w].batch \cup worker[w].rec : IsOver(r)
    /\ \A c \in Cleaners : \A r \in cleaner[c].batch \cup cleaner[c].rec : IsOver(r)

\* A recording on hold that a cleaner has listed, or has deleted, was put on
\* hold after it had been listed.
HoldIsLate ==
    \A r \in Recordings :
        row[r].hold /\ (Listed(r) \/ row[r].status = "deleted") => r \in lateHold

CaptureInv == StartedRow /\ StoppersFit /\ ListedIsOver /\ CaptureHasRecording

-----------------------------------------------------------------------------
(* What holds with one worker.                                             *)
OneWorker == \A v, w \in Workers : v = w

\* A listed recording may still be processed, or is deleted meanwhile.
BatchFits(w) ==
    \A r \in worker[w].batch :
        /\ r \notin worker[w].rec
        /\ \/ row[r].status \in {"processing", "deleted"}
           \/ row[r].status = "failed" /\ row[r].attempts < MaxAttempts

\* The recording in hand.  Its objects are there as far as the worker came,
\* unless it had expired: then a cleaner may be at them too.
HandFits(w) ==
    \A r \in worker[w].rec :
        /\ worker[w].pc \in {"load", "upload"} => row[r].status \in {"processing", "deleted"}
        /\ worker[w].pc = "upload" => row[r].expired \/ 1 .. worker[w].up \subseteq objects[r]
        /\ worker[w].pc = "clean" => row[r].status \in {"ready", "deleted"}
        /\ worker[w].pc = "fail" =>
             \/ row[r].status \in {"processing", "deleted"}
             \/ row[r].status = "ready" /\ r \in unsure /\ spool[r] # "none"

\* Every attempt uploads from the first artifact on.
FromTheFirst(w) == worker[w].pc \in {"idle", "load"} => worker[w].up = 0

WorkersFit == \A w \in Workers : BatchFits(w) /\ HandFits(w) /\ FromTheFirst(w)

\* From the start of a capture until the row is ready or out of attempts, there
\* is a spool directory.
SpoolFollows ==
    \A r \in Recordings :
        start[r] = "capturing" \/ row[r].status = "recording" => spool[r] # "none"

\* What a cleaner has listed has expired, and stays ready until it is deleted,
\* unless its worker did not learn that it had made it ready.
ListedIsExpired ==
    \A r \in Recordings :
        Listed(r) => row[r].expired /\ (row[r].status \in {"ready", "deleted"} \/ r \in unsure)

MediaInv ==
    /\ WorkersFit
    /\ SpoolFollows
    /\ SpoolIsKept
    /\ ListedIsExpired
    /\ ReadyIsWhole

-----------------------------------------------------------------------------
(* The steps, by who takes them.                                           *)
WorkerStep(w) ==
    \/ ProcessStep(w) \/ UploadFails(w) \/ FinalizeFails(w) \/ MarkFailedError(w)
    \/ \E r \in Recordings : MarkAttemptFails(w, r)

CleanerStep(c) ==
    \/ ListExpired(c) \/ DeleteRow(c) \/ CleanupFails(c)
    \/ \E r \in Recordings : CleanNext(c, r)
    \/ \E k \in Artifacts : DeleteObject(c, k)

StopperStep(a) == StopRead(a) \/ StopTake(a) \/ StopSeal(a) \/ StopRow(a) \/ StopFails(a)

RecordingStep(r) ==
    \/ StartRecording(r) \/ CaptureStart(r) \/ Create(r) \/ CreateFails(r)
    \/ RetryDue(r) \/ Expire(r) \/ \E hold \in BOOLEAN : SetLegalHold(r, hold)

LEMMA WhoSteps ==
    ASSUME Next
    PROVE  \/ \E r \in Recordings : RecordingStep(r)
           \/ CloseRoom
           \/ \E a \in Stoppers \X Recordings : StopperStep(a)
           \/ \E w \in Workers : WorkerStep(w)
           \/ \E c \in Cleaners : CleanerStep(c)
           \/ ServerCrash
BY DEF Next, WorkerStep, CleanerStep, StopperStep, RecordingStep

-----------------------------------------------------------------------------
(* Every step keeps the shape of the state.                                *)
LEMMA InitShapes == Init => Shapes
<1> USE RecordingAssumption
<1> SUFFICES ASSUME Init PROVE Shapes
  OBVIOUS
<1>1. NoRow \in Row
  BY DEF NoRow, Row, Statuses
<1>2. IdleWorker \in WorkerStates /\ IdleCleaner \in CleanerStates
  BY DEF IdleWorker, WorkerStates, IdleCleaner, CleanerStates
<1>3. \A w \in Workers : HoldsOne(w)
  BY DEF HoldsOne, Init, IdleWorker
<1>4. \A c \in Cleaners : CleansOne(c)
  BY DEF CleansOne, Init, IdleCleaner
<1> QED
  BY <1>1, <1>2, <1>3, <1>4 DEF Init, Shapes, StartPCs, StopPCs

\* What a row may become is a row.
LEMMA RowShapes ==
    ASSUME Shapes, NEW r \in Recordings
    PROVE  /\ row[r] \in Row /\ NewRow \in Row
           /\ Stopped(r) \in Row /\ Marked(r) \in Row /\ Ready(r) \in Row
           /\ \A n \in Nat : Failed(r, n) \in Row
           /\ [row[r] EXCEPT !.due = TRUE] \in Row /\ [row[r] EXCEPT !.expired = TRUE] \in Row
           /\ [row[r] EXCEPT !.status = "deleted"] \in Row
           /\ \A h \in BOOLEAN : [row[r] EXCEPT !.hold = h] \in Row
<1> USE RecordingAssumption
<1>1. row[r] \in Row
  BY DEF Shapes
<1>2. row[r].attempts + 1 \in Nat
  BY <1>1 DEF Row
<1>3. NewRow \in Row
  BY DEF NewRow, NoRow, Row, Statuses
<1>4. \A n \in Nat : (n >= MaxAttempts) \in BOOLEAN
  OBVIOUS
<1> QED
  BY <1>1, <1>2, <1>3, <1>4 DEF Stopped, Marked, Ready, Failed, Row, Statuses

LEMMA RecordingShapes ==
    ASSUME Shapes, NEW r \in Recordings, RecordingStep(r)
    PROVE  Shapes'
<1> USE RecordingAssumption
<1>0. /\ row \in [Recordings -> Row] /\ spool \in [Recordings -> {"none", "open", "sealed"}]
      /\ start \in [Recordings -> StartPCs] /\ capture \in SUBSET Recordings
      /\ stopper \in [Stoppers \X Recordings -> StopPCs]
      /\ orphan \in SUBSET Recordings /\ lateHold \in SUBSET Recordings
  BY DEF Shapes
<1>1. /\ row' \in [Recordings -> Row]
      /\ start' \in [Recordings -> StartPCs]
      /\ capture' \in SUBSET Recordings
      /\ spool' \in [Recordings -> {"none", "open", "sealed"}]
      /\ stopper' \in [Stoppers \X Recordings -> StopPCs]
      /\ faults' \in 0 .. MaxFaults
      /\ orphan' \in SUBSET Recordings /\ lateHold' \in SUBSET Recordings
      /\ UNCHANGED <<room, objects, worker, cleaner, unsure>>
  <2>1. CASE StartRecording(r)
    BY <1>0, <2>1 DEF StartRecording, Shapes, StartPCs, work, noted
  <2>2. CASE CaptureStart(r)
    BY <1>0, <2>2 DEF CaptureStart, Shapes, StartPCs, work, noted
  <2>3. CASE Create(r)
    <3>1. <<"room", r>> \in Stoppers \X Recordings
      BY DEF Stoppers
    <3> QED
      BY <1>0, <2>3, <3>1, RowShapes DEF Create, Shapes, StartPCs, StopPCs, SetRow, work, noted
  <2>4. CASE CreateFails(r)
    <3>1. row' \in [Recordings -> Row]
      BY <1>0, <2>4, RowShapes DEF CreateFails
    <3>2. /\ capture' \in SUBSET Recordings /\ orphan' \in SUBSET Recordings
          /\ faults' \in 0 .. MaxFaults
      BY <1>0, <2>4 DEF CreateFails, Fault, Shapes
    <3>3. /\ start' \in [Recordings -> StartPCs]
          /\ spool' \in [Recordings -> {"none", "open", "sealed"}]
      BY <1>0, <2>4 DEF CreateFails, StartPCs
    <3> QED
      BY <1>0, <2>4, <3>1, <3>2, <3>3 DEF CreateFails, work
  <2>5. CASE RetryDue(r)
    BY <1>0, <2>5, RowShapes DEF RetryDue, Shapes, SetRow, captured, work, noted
  <2>6. CASE Expire(r)
    BY <1>0, <2>6, RowShapes DEF Expire, Shapes, SetRow, captured, work, noted
  <2>7. ASSUME NEW hold \in BOOLEAN, SetLegalHold(r, hold)
        PROVE  <1>1
    <3>1. row' = [row EXCEPT ![r] = [row[r] EXCEPT !.hold = hold]]
      BY <2>7 DEF SetLegalHold, SetRow
    <3>2. row' \in [Recordings -> Row]
      BY <1>0, <3>1, RowShapes
    <3>3. lateHold' \in SUBSET Recordings
      BY <1>0, <2>7 DEF SetLegalHold
    <3> QED
      BY <1>0, <2>7, <3>2, <3>3 DEF SetLegalHold, Shapes, captured, work
  <2> QED
    BY <2>1, <2>2, <2>3, <2>4, <2>5, <2>6, <2>7 DEF RecordingStep
<1> QED
  BY <1>1 DEF Shapes, HoldsOne, CleansOne

LEMMA StopperShapes ==
    ASSUME Shapes, NEW a \in Stoppers \X Recordings, StopperStep(a)
    PROVE  Shapes'
<1> USE RecordingAssumption
<1>0. /\ row \in [Recordings -> Row] /\ spool \in [Recordings -> {"none", "open", "sealed"}]
      /\ capture \in SUBSET Recordings
      /\ stopper \in [Stoppers \X Recordings -> StopPCs]
      /\ orphan \in SUBSET Recordings /\ a[2] \in Recordings
  BY DEF Shapes
<1>1. \A l \in StopPCs : At(a, l) => stopper' \in [Stoppers \X Recordings -> StopPCs]
  BY <1>0 DEF At
<1>2. {"take", "seal", "row", Over(a)} \subseteq StopPCs
  BY DEF StopPCs, Over
<1>3. /\ row' \in [Recordings -> Row]
      /\ capture' \in SUBSET Recordings
      /\ spool' \in [Recordings -> {"none", "open", "sealed"}]
      /\ stopper' \in [Stoppers \X Recordings -> StopPCs]
      /\ faults' \in 0 .. MaxFaults
      /\ orphan' \in SUBSET Recordings
      /\ UNCHANGED <<room, start, objects, worker, cleaner, unsure, lateHold>>
  <2>1. CASE StopRead(a)
    BY <1>0, <1>1, <1>2, <2>1 DEF StopRead, Shapes, work, noted
  <2>2. CASE StopTake(a)
    BY <1>0, <1>1, <1>2, <2>2 DEF StopTake, Shapes, work, noted
  <2>3. CASE StopSeal(a)
    BY <1>0, <1>1, <1>2, <2>3 DEF StopSeal, Shapes, work, noted
  <2>4. CASE StopRow(a)
    BY <1>0, <1>1, <1>2, <2>4, RowShapes DEF StopRow, Shapes, work, noted
  <2>5. CASE StopFails(a)
    <3>1. row' \in [Recordings -> Row]
      BY <1>0, <2>5, RowShapes DEF StopFails, SetRow
    <3>2. stopper' \in [Stoppers \X Recordings -> StopPCs]
      BY <1>1, <1>2, <2>5 DEF StopFails
    <3>3. faults' \in 0 .. MaxFaults /\ orphan' \in SUBSET Recordings
      BY <1>0, <2>5 DEF StopFails, Fault, Shapes
    <3> QED
      BY <1>0, <2>5, <3>1, <3>2, <3>3 DEF StopFails, work
  <2> QED
    BY <2>1, <2>2, <2>3, <2>4, <2>5 DEF StopperStep
<1> QED
  BY <1>3 DEF Shapes, HoldsOne, CleansOne

\* A worker w steps.  Its new state is named, so that what it holds can be read
\* off it; the others do not move.
LEMMA WorkerMoves ==
    ASSUME Shapes, NEW w \in Workers, NEW x \in WorkerStates,
           worker' = [worker EXCEPT ![w] = x],
           x.pc = "idle" => x.rec = {},
           x.pc # "idle" => \E r \in Recordings : x.rec = {r}
    PROVE  /\ worker' \in [Workers -> WorkerStates]
           /\ \A v \in Workers : HoldsOne(v)'
<1>1. worker \in [Workers -> WorkerStates] /\ \A v \in Workers : HoldsOne(v)
  BY DEF Shapes
<1>2. worker' \in [Workers -> WorkerStates]
  BY <1>1
<1>3. ASSUME NEW v \in Workers PROVE HoldsOne(v)'
  <2>1. CASE v = w
    <3>1. worker'[v] = x
      BY <1>1, <2>1
    <3> QED
      BY <3>1 DEF HoldsOne
  <2>2. CASE v # w
    <3>1. worker'[v] = worker[v]
      BY <1>1, <2>2
    <3> QED
      BY <1>1, <3>1 DEF HoldsOne
  <2> QED
    BY <2>1, <2>2
<1> QED
  BY <1>2, <1>3

\* The states a worker may reach.
LEMMA WorkerRecords ==
    ASSUME Shapes, NEW w \in Workers
    PROVE  /\ worker[w] \in WorkerStates
           /\ \A b \in SUBSET Recordings : [worker[w] EXCEPT !.batch = b] \in WorkerStates
           /\ \A l \in {"idle", "load", "upload", "clean", "fail"} :
                [worker[w] EXCEPT !.pc = l] \in WorkerStates
           /\ \A n \in 0 .. NumArtifacts : [worker[w] EXCEPT !.up = n] \in WorkerStates
           /\ [IdleWorker EXCEPT !.batch = worker[w].batch] \in WorkerStates
           /\ \A r \in Recordings :
                [worker[w] EXCEPT !.pc = "load", !.rec = {r}, !.batch = worker[w].batch \ {r},
                                  !.attempts = row[r].attempts + 1] \in WorkerStates
<1> USE RecordingAssumption
<1>1. worker[w] \in WorkerStates
  BY DEF Shapes
<1>2. \A r \in Recordings : row[r].attempts + 1 \in Nat
  BY DEF Shapes, Row
<1>3. [IdleWorker EXCEPT !.batch = worker[w].batch] \in WorkerStates
  BY <1>1 DEF IdleWorker, WorkerStates
<1> QED
  BY <1>1, <1>2, <1>3 DEF WorkerStates

LEMMA WorkerShapes ==
    ASSUME Shapes, NEW w \in Workers, WorkerStep(w)
    PROVE  Shapes'
<1> USE RecordingAssumption
<1> DEFINE old == worker[w]
<1>0. /\ row \in [Recordings -> Row] /\ spool \in [Recordings -> {"none", "open", "sealed"}]
      /\ objects \in [Recordings -> SUBSET Artifacts]
      /\ worker \in [Workers -> WorkerStates]
      /\ unsure \in SUBSET Recordings
      /\ old \in WorkerStates /\ old.batch \in SUBSET Recordings
      /\ old.attempts \in Nat /\ old.up \in 0 .. NumArtifacts
      /\ old.pc = "idle" => old.rec = {}
      /\ old.pc # "idle" => \E r \in Recordings : old.rec = {r}
  BY DEF Shapes, WorkerStates, HoldsOne
<1>a. \A l \in {"load", "upload", "clean", "fail"} :
        old.pc # "idle" /\ GoTo(w, l)
          => /\ worker' \in [Workers -> WorkerStates]
             /\ \A v \in Workers : HoldsOne(v)'
  <2> SUFFICES ASSUME NEW l \in {"load", "upload", "clean", "fail"}, old.pc # "idle", GoTo(w, l)
               PROVE  /\ worker' \in [Workers -> WorkerStates]
                      /\ \A v \in Workers : HoldsOne(v)'
    OBVIOUS
  <2> DEFINE new == [old EXCEPT !.pc = l]
  <2>a. /\ old = [pc |-> old.pc, batch |-> old.batch, rec |-> old.rec,
                   attempts |-> old.attempts, up |-> old.up]
    BY <1>0 DEF WorkerStates
  <2>b. new.rec = old.rec /\ new.pc = l
    BY <2>a
  <2>c. new \in WorkerStates
    BY WorkerRecords
  <2>1. new \in WorkerStates /\ new.rec = old.rec /\ new.pc = l
    BY <2>b, <2>c
  <2>2. worker' = [worker EXCEPT ![w] = new]
    BY DEF GoTo
  <2> HIDE DEF new
  <2> QED
    BY <1>0, <2>1, <2>2, WorkerMoves
<1>b. NextRecording(w)
        => /\ worker' \in [Workers -> WorkerStates]
           /\ \A v \in Workers : HoldsOne(v)'
  <2> DEFINE new == [IdleWorker EXCEPT !.batch = old.batch]
  <2>1. new \in WorkerStates /\ new.rec = {} /\ new.pc = "idle"
    BY <1>0, WorkerRecords DEF IdleWorker
  <2>2. NextRecording(w) => worker' = [worker EXCEPT ![w] = new]
    BY DEF NextRecording
  <2> HIDE DEF new
  <2> QED
    BY <2>1, <2>2, WorkerMoves
<1>c. ASSUME NEW b \in SUBSET Recordings, old.pc = "idle",
             worker' = [worker EXCEPT ![w].batch = b]
      PROVE  /\ worker' \in [Workers -> WorkerStates]
             /\ \A v \in Workers : HoldsOne(v)'
  <2> DEFINE new == [old EXCEPT !.batch = b]
  <2>a. /\ old = [pc |-> old.pc, batch |-> old.batch, rec |-> old.rec,
                   attempts |-> old.attempts, up |-> old.up]
    BY <1>0 DEF WorkerStates
  <2>b. new.rec = {} /\ new.pc = "idle"
    BY <1>0, <1>c, <2>a
  <2>c. new \in WorkerStates
    BY <1>c, WorkerRecords
  <2>1. new \in WorkerStates /\ new.rec = {} /\ new.pc = "idle"
    BY <2>b, <2>c
  <2>2. worker' = [worker EXCEPT ![w] = new]
    BY <1>c
  <2> HIDE DEF new
  <2> QED
    BY <2>1, <2>2, WorkerMoves
<1>d. UNCHANGED worker
        => /\ worker' \in [Workers -> WorkerStates]
           /\ \A v \in Workers : HoldsOne(v)'
  BY DEF Shapes, HoldsOne
<1>1. /\ worker' \in [Workers -> WorkerStates]
      /\ \A v \in Workers : HoldsOne(v)'
      /\ row' \in [Recordings -> Row]
      /\ objects' \in [Recordings -> SUBSET Artifacts]
      /\ spool' \in [Recordings -> {"none", "open", "sealed"}]
      /\ unsure' \in SUBSET Recordings
      /\ faults' \in 0 .. MaxFaults
      /\ UNCHANGED <<room, start, capture, stopper, cleaner, orphan, lateHold>>
  <2>1. CASE ListProcessable(w)
    <3>1. {r \in Recordings : Processable(r)} \in SUBSET Recordings
      OBVIOUS
    <3> QED
      BY <1>0, <1>c, <2>1, <3>1 DEF ListProcessable, captured, noted, Shapes
  <2>2. ASSUME NEW r \in Recordings, MarkProcessingAttempt(w, r)
        PROVE  <1>1
    <3>1. old.batch \ {r} \in SUBSET Recordings
      BY <1>0
    <3>2. CASE Exists(r)
      <4> DEFINE new == Taken(w, r)
      <4>a. /\ old = [pc |-> old.pc, batch |-> old.batch, rec |-> old.rec,
                       attempts |-> old.attempts, up |-> old.up]
        BY <1>0 DEF WorkerStates
      <4>1. new \in WorkerStates
        BY WorkerRecords DEF Taken
      <4>b. new.rec = {r} /\ new.pc = "load"
        BY <4>a DEF Taken
      <4>2. worker' = [worker EXCEPT ![w] = new]
        BY <2>2, <3>2 DEF MarkProcessingAttempt
      <4> HIDE DEF new
      <4>3. /\ worker' \in [Workers -> WorkerStates]
            /\ \A v \in Workers : HoldsOne(v)'
        BY <4>1, <4>b, <4>2, WorkerMoves
      <4>4. row' \in [Recordings -> Row]
        BY <1>0, <2>2, <3>2, RowShapes DEF MarkProcessingAttempt, SetRow
      <4> QED
        BY <1>0, <2>2, <4>3, <4>4 DEF MarkProcessingAttempt, captured, noted, Shapes
    <3>3. CASE ~Exists(r)
      BY <1>0, <1>c, <2>2, <3>1, <3>3 DEF MarkProcessingAttempt, captured, noted, Shapes
    <3> QED
      BY <3>2, <3>3
  <2>3. CASE LoadSpool(w)
    <3>1. GoTo(w, "upload") \/ GoTo(w, "fail")
      BY <2>3 DEF LoadSpool
    <3> QED
      BY <1>0, <1>a, <2>3, <3>1 DEF LoadSpool, captured, noted, Shapes
  <2>4. CASE Upload(w)
    <3> DEFINE new == [old EXCEPT !.up = old.up + 1]
    <3>1. old.up + 1 \in 0 .. NumArtifacts /\ old.up + 1 \in Artifacts
      BY <1>0, <2>4 DEF Upload, Artifacts
    <3>2. new \in WorkerStates
      BY <3>1, WorkerRecords
    <3>a. new.rec = old.rec /\ new.pc = old.pc
      BY <1>0 DEF WorkerStates
    <3>3. worker' = [worker EXCEPT ![w] = new]
      BY <2>4 DEF Upload
    <3> HIDE DEF new
    <3>4. /\ worker' \in [Workers -> WorkerStates]
          /\ \A v \in Workers : HoldsOne(v)'
      BY <1>0, <3>2, <3>a, <3>3, WorkerMoves
    <3>5. objects' \in [Recordings -> SUBSET Artifacts]
      BY <1>0, <2>4, <3>1 DEF Upload
    <3> QED
      BY <1>0, <2>4, <3>4, <3>5 DEF Upload, captured, noted, Shapes
  <2>5. CASE FinalizeReady(w)
    <3>1. row' \in [Recordings -> Row]
      BY <1>0, <2>5, RowShapes DEF FinalizeReady, SetRow
    <3> QED
      BY <1>0, <1>a, <2>5, <3>1 DEF FinalizeReady, captured, noted, Shapes
  <2>6. CASE RemoveSpool(w)
    <3>1. spool' \in [Recordings -> {"none", "open", "sealed"}]
      BY <1>0, <2>6 DEF RemoveSpool
    <3> QED
      BY <1>0, <1>b, <2>6, <3>1 DEF RemoveSpool, captured, noted, Shapes
  <2>7. CASE MarkFailed(w)
    <3>1. row' \in [Recordings -> Row]
      <4>1. PICK r \in old.rec :
              row' = [row EXCEPT ![r] = Failed(r, old.attempts)] \/ UNCHANGED row
        BY <2>7 DEF MarkFailed, SetRow
      <4>2. Failed(r, old.attempts) \in Row
        BY <1>0, RowShapes
      <4> QED
        BY <1>0, <4>1, <4>2
    <3> QED
      BY <1>0, <1>b, <2>7, <3>1 DEF MarkFailed, captured, noted, Shapes
  <2>8. CASE UploadFails(w)
    <3>1. objects' \in [Recordings -> SUBSET Artifacts]
      <4>1. 1 .. old.up + 1 \subseteq Artifacts
        BY <1>0, <2>8 DEF UploadFails, Artifacts
      <4>2. PICK r \in old.rec :
              \/ objects' = [objects EXCEPT ![r] = @ \ (1 .. worker[w].up)]
              \/ \E kept \in SUBSET (1 .. old.up + 1) :
                   objects' = [objects EXCEPT ![r] = (@ \ (1 .. worker[w].up)) \cup kept]
        BY <2>8 DEF UploadFails
      <4>3. r \in Recordings /\ objects[r] \in SUBSET Artifacts
        BY <1>0
      <4>4. PICK kept \in SUBSET Artifacts :
              objects' = [objects EXCEPT ![r] = (objects[r] \ (1 .. worker[w].up)) \cup kept]
        <5>1. CASE objects' = [objects EXCEPT ![r] = @ \ (1 .. worker[w].up)]
          <6>1. objects' = [objects EXCEPT ![r] = (objects[r] \ (1 .. worker[w].up)) \cup {}]
            BY <5>1
          <6> QED
            BY <6>1
        <5>2. ASSUME NEW kept \in SUBSET (1 .. old.up + 1),
                     objects' = [objects EXCEPT ![r] = (@ \ (1 .. worker[w].up)) \cup kept]
              PROVE  \E k \in SUBSET Artifacts :
                       objects' = [objects EXCEPT ![r] = (objects[r] \ (1 .. worker[w].up)) \cup k]
          BY <4>1, <5>2
        <5> QED
          BY <4>2, <5>1, <5>2
      <4>5. (objects[r] \ (1 .. worker[w].up)) \cup kept \in SUBSET Artifacts
        BY <4>3
      <4> QED
        BY <1>0, <4>4, <4>5
    <3>2. faults' \in 0 .. MaxFaults
      BY <2>8 DEF UploadFails, Fault, Shapes
    <3>3. old.pc # "idle" /\ GoTo(w, "fail")
      BY <2>8 DEF UploadFails
    <3> QED
      BY <1>0, <1>a, <2>8, <3>1, <3>2, <3>3 DEF UploadFails, captured, noted, Shapes
  <2>9. CASE FinalizeFails(w)
    <3>1. PICK r \in old.rec :
            /\ objects' \in {objects, [objects EXCEPT ![r] = {}]}
            /\ \/ ~Exists(r) /\ UNCHANGED <<row, faults, unsure>>
               \/ Fault /\ UNCHANGED <<row, unsure>>
               \/ Exists(r) /\ Fault /\ SetRow(r, Ready(r)) /\ unsure' = unsure \cup {r}
      BY <2>9 DEF FinalizeFails
    <3>2. r \in Recordings
      BY <1>0
    <3>3. row' \in [Recordings -> Row] /\ unsure' \in SUBSET Recordings
      BY <1>0, <3>1, <3>2, RowShapes DEF SetRow
    <3>4. objects' \in [Recordings -> SUBSET Artifacts]
      BY <1>0, <3>1, <3>2
    <3>5. faults' \in 0 .. MaxFaults
      BY <3>1 DEF Fault, Shapes
    <3>6. old.pc # "idle" /\ GoTo(w, "fail")
      BY <2>9 DEF FinalizeFails
    <3> QED
      BY <1>0, <1>a, <2>9, <3>3, <3>4, <3>5, <3>6 DEF FinalizeFails, captured
  <2>10. CASE MarkFailedError(w)
    <3>1. row' \in [Recordings -> Row]
      <4>1. PICK r \in old.rec :
              row' = [row EXCEPT ![r] = Failed(r, old.attempts)] \/ UNCHANGED row
        BY <2>10 DEF MarkFailedError
      <4>2. Failed(r, old.attempts) \in Row
        BY <1>0, RowShapes
      <4> QED
        BY <1>0, <4>1, <4>2
    <3>2. faults' \in 0 .. MaxFaults
      BY <2>10 DEF MarkFailedError, Fault, Shapes
    <3> QED
      BY <1>0, <1>b, <2>10, <3>1, <3>2 DEF MarkFailedError, captured, noted
  <2>11. ASSUME NEW r \in Recordings, MarkAttemptFails(w, r)
         PROVE  <1>1
    <3>1. row' \in [Recordings -> Row]
      BY <1>0, <2>11, RowShapes DEF MarkAttemptFails
    <3>2. faults' \in 0 .. MaxFaults
      BY <2>11 DEF MarkAttemptFails, Fault, Shapes
    <3>3. old.batch \ {r} \in SUBSET Recordings /\ old.pc = "idle"
      BY <1>0, <2>11 DEF MarkAttemptFails
    <3>4. UNCHANGED worker \/ worker' = [worker EXCEPT ![w].batch = old.batch \ {r}]
      BY <2>11 DEF MarkAttemptFails
    <3> QED
      BY <1>0, <1>c, <1>d, <2>11, <3>1, <3>2, <3>3, <3>4 DEF MarkAttemptFails, captured, noted
  <2> QED
    BY <2>1, <2>2, <2>3, <2>4, <2>5, <2>6, <2>7, <2>8, <2>9, <2>10, <2>11
    DEF WorkerStep, ProcessStep
<1> QED
  BY <1>1 DEF Shapes, CleansOne

LEMMA CleanerMoves ==
    ASSUME Shapes, NEW c \in Cleaners, NEW x \in CleanerStates,
           cleaner' = [cleaner EXCEPT ![c] = x],
           \/ x.rec = {} /\ x.left = {}
           \/ \E r \in Recordings : x.rec = {r}
    PROVE  /\ cleaner' \in [Cleaners -> CleanerStates]
           /\ \A d \in Cleaners : CleansOne(d)'
<1>1. cleaner \in [Cleaners -> CleanerStates] /\ \A d \in Cleaners : CleansOne(d)
  BY DEF Shapes
<1>2. cleaner' \in [Cleaners -> CleanerStates]
  BY <1>1
<1>3. ASSUME NEW d \in Cleaners PROVE CleansOne(d)'
  <2>1. CASE d = c
    <3>1. cleaner'[d] = x
      BY <1>1, <2>1
    <3> QED
      BY <3>1 DEF CleansOne
  <2>2. CASE d # c
    <3>1. cleaner'[d] = cleaner[d]
      BY <1>1, <2>2
    <3> QED
      BY <1>1, <3>1 DEF CleansOne
  <2> QED
    BY <2>1, <2>2
<1> QED
  BY <1>2, <1>3

LEMMA CleanerShapes ==
    ASSUME Shapes, NEW c \in Cleaners, CleanerStep(c)
    PROVE  Shapes'
<1> USE RecordingAssumption
<1> DEFINE old == cleaner[c]
<1>0. /\ row \in [Recordings -> Row] /\ spool \in [Recordings -> {"none", "open", "sealed"}]
      /\ objects \in [Recordings -> SUBSET Artifacts]
      /\ cleaner \in [Cleaners -> CleanerStates]
      /\ old \in CleanerStates /\ old.batch \in SUBSET Recordings
      /\ old.rec \in SUBSET Recordings /\ old.left \in SUBSET Artifacts
      /\ \/ old.rec = {} /\ old.left = {}
         \/ \E r \in Recordings : old.rec = {r}
  BY DEF Shapes, CleanerStates, CleansOne
<1>a. IdleCleaner \in CleanerStates /\ IdleCleaner.rec = {} /\ IdleCleaner.left = {}
  BY DEF IdleCleaner, CleanerStates
<1>b. \A x \in CleanerStates :
        /\ cleaner' = [cleaner EXCEPT ![c] = x]
        /\ \/ x.rec = {} /\ x.left = {}
           \/ \E r \in Recordings : x.rec = {r}
        => /\ cleaner' \in [Cleaners -> CleanerStates]
           /\ \A d \in Cleaners : CleansOne(d)'
  BY CleanerMoves
<1>1. /\ cleaner' \in [Cleaners -> CleanerStates]
      /\ \A d \in Cleaners : CleansOne(d)'
      /\ row' \in [Recordings -> Row]
      /\ objects' \in [Recordings -> SUBSET Artifacts]
      /\ spool' \in [Recordings -> {"none", "open", "sealed"}]
      /\ faults' \in 0 .. MaxFaults
      /\ UNCHANGED <<room, start, capture, stopper, worker, orphan, unsure, lateHold>>
  <2>1. CASE ListExpired(c)
    <3> DEFINE new == [old EXCEPT !.batch = {r \in Recordings : Expired(r)}]
    <3>1. new \in CleanerStates /\ new.rec = {} /\ new.left = {}
      BY <1>0, <1>a, <2>1 DEF ListExpired, CleanerStates
    <3>2. cleaner' = [cleaner EXCEPT ![c] = new]
      BY <2>1 DEF ListExpired
    <3> HIDE DEF new
    <3> QED
      BY <1>b, <2>1, <3>1, <3>2 DEF ListExpired, captured, noted, Shapes
  <2>2. ASSUME NEW r \in Recordings, CleanNext(c, r)
        PROVE  <1>1
    <3> DEFINE new == [batch |-> old.batch \ {r}, rec |-> {r}, left |-> Artifacts]
    <3>1. new \in CleanerStates /\ new.rec = {r}
      BY <1>0 DEF CleanerStates
    <3>2. cleaner' = [cleaner EXCEPT ![c] = new]
      BY <2>2 DEF CleanNext
    <3> HIDE DEF new
    <3> QED
      BY <1>b, <2>2, <3>1, <3>2 DEF CleanNext, captured, noted, Shapes
  <2>3. ASSUME NEW k \in Artifacts, DeleteObject(c, k)
        PROVE  <1>1
    <3> DEFINE new == [old EXCEPT !.left = old.left \ {k}]
    <3>1. new \in CleanerStates /\ new.rec = old.rec /\ new.left = old.left \ {k}
      BY <1>0 DEF CleanerStates
    <3>2. cleaner' = [cleaner EXCEPT ![c] = new]
      BY <2>3 DEF DeleteObject
    <3> HIDE DEF new
    <3>3. objects' \in [Recordings -> SUBSET Artifacts]
      BY <1>0, <2>3 DEF DeleteObject
    <3> QED
      BY <1>0, <1>b, <2>3, <3>1, <3>2, <3>3 DEF DeleteObject, captured, noted, Shapes
  <2>4. CASE DeleteRow(c)
    <3>1. PICK r \in old.rec :
            \/ /\ SetRow(r, [row[r] EXCEPT !.status = "deleted"])
               /\ spool' = [spool EXCEPT ![r] = "none"]
               /\ cleaner' = [cleaner EXCEPT ![c] = [IdleCleaner EXCEPT !.batch = old.batch]]
            \/ cleaner' = [cleaner EXCEPT ![c] = IdleCleaner] /\ UNCHANGED <<row, spool>>
      BY <2>4 DEF DeleteRow
    <3> DEFINE new == [IdleCleaner EXCEPT !.batch = old.batch]
    <3>2. new \in CleanerStates /\ new.rec = {} /\ new.left = {}
      BY <1>0 DEF IdleCleaner, CleanerStates
    <3>3. cleaner' = [cleaner EXCEPT ![c] = new] \/ cleaner' = [cleaner EXCEPT ![c] = IdleCleaner]
      BY <3>1
    <3> HIDE DEF new
    <3>4. row' \in [Recordings -> Row] /\ spool' \in [Recordings -> {"none", "open", "sealed"}]
      <4>1. r \in Recordings
        BY <1>0
      <4>2. \/ row' = [row EXCEPT ![r] = [row[r] EXCEPT !.status = "deleted"]]
            \/ UNCHANGED row
        BY <3>1 DEF SetRow
      <4>3. spool' = [spool EXCEPT ![r] = "none"] \/ UNCHANGED spool
        BY <3>1
      <4> QED
        BY <1>0, <4>1, <4>2, <4>3, RowShapes
    <3>5. /\ cleaner' \in [Cleaners -> CleanerStates]
          /\ \A d \in Cleaners : CleansOne(d)'
      BY <1>a, <1>b, <3>2, <3>3
    <3> QED
      BY <2>4, <3>4, <3>5 DEF DeleteRow, captured, noted, Shapes
  <2>5. CASE CleanupFails(c)
    <3>1. row' \in [Recordings -> Row]
      <4>1. PICK r \in Recordings :
              \/ row' = [row EXCEPT ![r] = [row[r] EXCEPT !.status = "deleted"]]
              \/ UNCHANGED row
        BY <1>0, <2>5 DEF CleanupFails, SetRow
      <4> QED
        BY <1>0, <4>1, RowShapes
    <3>2. faults' \in 0 .. MaxFaults
      BY <2>5 DEF CleanupFails, Fault, Shapes
    <3> QED
      BY <1>a, <1>b, <2>5, <3>1, <3>2 DEF CleanupFails, captured, noted, Shapes
  <2> QED
    BY <2>1, <2>2, <2>3, <2>4, <2>5 DEF CleanerStep
<1> QED
  BY <1>1 DEF Shapes, HoldsOne

LEMMA CrashShapes ==
    ASSUME Shapes, ServerCrash
    PROVE  Shapes'
<1> USE RecordingAssumption
<1>1. IdleWorker \in WorkerStates /\ IdleWorker.pc = "idle" /\ IdleWorker.rec = {}
  BY DEF IdleWorker, WorkerStates
<1>2. worker \in [Workers -> WorkerStates] /\ \A w \in Workers : HoldsOne(w)
  BY DEF Shapes
<1>3. \A w \in Workers : worker'[w] = worker[w] \/ worker'[w] = IdleWorker
  BY DEF ServerCrash
<1>4. worker' \in [Workers -> WorkerStates]
  BY <1>1, <1>2 DEF ServerCrash
<1>5. \A w \in Workers : HoldsOne(w)'
  BY <1>1, <1>2, <1>3 DEF HoldsOne
<1>6. start' \in [Recordings -> StartPCs] /\ stopper' \in [Stoppers \X Recordings -> StopPCs]
  BY DEF ServerCrash, StartPCs, StopPCs, Over
<1>7. \A c \in Cleaners : CleansOne(c)'
  BY DEF ServerCrash, Shapes, CleansOne
<1> QED
  BY <1>4, <1>5, <1>6, <1>7 DEF ServerCrash, Fault, Shapes

LEMMA NextShapes == Shapes /\ [Next]_vars => Shapes'
<1>1. ASSUME Shapes, UNCHANGED vars PROVE Shapes'
  BY <1>1 DEF vars, Shapes, HoldsOne, CleansOne
<1>2. ASSUME Shapes, CloseRoom PROVE Shapes'
  BY <1>2 DEF CloseRoom, Shapes, HoldsOne, CleansOne, work, noted
<1> QED
  BY <1>1, <1>2, WhoSteps, RecordingShapes, StopperShapes, WorkerShapes, CleanerShapes, CrashShapes

(* The tables keep their shape, and an idle worker has no recording in hand, *)
(* a cleaner with objects left has one, through every failure and crash.     *)
THEOREM TypeCorrect == Spec => []TypeOK
<1>1. Shapes => TypeOK
  <2> SUFFICES ASSUME Shapes PROVE TypeOK
    OBVIOUS
  <2>1. ASSUME NEW w \in Workers
        PROVE  Cardinality(worker[w].rec) = IF worker[w].pc = "idle" THEN 0 ELSE 1
    BY FS_EmptySet, FS_Singleton DEF Shapes, HoldsOne
  <2>2. ASSUME NEW c \in Cleaners
        PROVE  cleaner[c].left # {} => cleaner[c].rec # {}
    BY DEF Shapes, CleansOne
  <2>3. /\ \A w \in Workers : worker[w] \in WorkerStates
        /\ \A c \in Cleaners : cleaner[c] \in CleanerStates
    BY DEF Shapes
  <2> QED
    BY <2>1, <2>2, <2>3 DEF Shapes, TypeOK, WorkerStates, CleanerStates
<1> QED
  BY <1>1, InitShapes, NextShapes, PTL DEF Spec

-----------------------------------------------------------------------------
(* What a step may do to the row of r.  Whether next_retry_at has passed    *)
(* does not matter here.                                                    *)
KeepsRest(r) ==
    /\ row'[r].attempts = row[r].attempts
    /\ row'[r].expired = row[r].expired
    /\ row'[r].hold = row[r].hold

KeepsRow(r) == row'[r].status = row[r].status /\ KeepsRest(r)

Created(r) ==
    /\ start[r] = "capturing" /\ start'[r] = "done"
    /\ row'[r].status = "recording" /\ ~row'[r].expired /\ ~row'[r].hold

StoppedNow(r) ==
    /\ row[r].status = "recording" /\ row'[r].status = "processing" /\ KeepsRest(r)
    /\ \E a \in Stoppers \X Recordings : a[2] = r /\ stopper[a] = "row"

ExpiredNow(r) ==
    /\ row[r].status = "ready" /\ row'[r].status = "ready"
    /\ row'[r].expired
    /\ row'[r].hold = row[r].hold /\ row'[r].attempts = row[r].attempts

HoldSet(r) ==
    /\ Exists(r) /\ row'[r].status = row[r].status
    /\ row'[r].expired = row[r].expired /\ row'[r].attempts = row[r].attempts
    /\ row'[r].hold /\ Listed(r) => r \in lateHold'

Deleted(r) ==
    /\ Exists(r) /\ row'[r].status = "deleted" /\ KeepsRest(r)
    /\ Listed(r)

ByOthers(r) ==
    KeepsRow(r) \/ Created(r) \/ StoppedNow(r) \/ ExpiredNow(r) \/ HoldSet(r) \/ Deleted(r)

\* By worker w, which marks an attempt, a success or a failure.
MarkedNow(w, r) ==
    /\ worker[w].pc = "idle" /\ r \in worker[w].batch /\ Exists(r)
    /\ row'[r].status = "processing" /\ row'[r].attempts = row[r].attempts + 1
    /\ row'[r].expired = row[r].expired /\ row'[r].hold = row[r].hold

ReadyNow(w, r) ==
    /\ worker[w].pc = "upload" /\ worker[w].up = NumArtifacts
    /\ r \in worker[w].rec /\ Exists(r)
    /\ row'[r].status = "ready" /\ KeepsRest(r)
    /\ r \in unsure' \/ objects' = objects

FailedNow(w, r) ==
    /\ worker[w].pc = "fail" /\ r \in worker[w].rec /\ Exists(r)
    /\ row'[r].status = "failed" /\ KeepsRest(r)

ByWorker(w, r) == KeepsRow(r) \/ MarkedNow(w, r) \/ ReadyNow(w, r) \/ FailedNow(w, r)

LEMMA RowUnchanged ==
    ASSUME NEW r, row' = row
    PROVE  KeepsRow(r)
BY DEF KeepsRow, KeepsRest

LEMMA RecordingRows ==
    ASSUME Shapes, NEW q \in Recordings, RecordingStep(q), NEW r \in Recordings
    PROVE  ByOthers(r)
<1>0. row \in [Recordings -> Row] /\ row[q] \in Row /\ start \in [Recordings -> StartPCs]
  BY DEF Shapes
<1>1. CASE StartRecording(q) \/ CaptureStart(q)
  BY <1>1, RowUnchanged DEF StartRecording, CaptureStart, ByOthers
<1>2. ASSUME NEW x \in Row, row' = [row EXCEPT ![q] = x], q # r
      PROVE  KeepsRow(r)
  BY <1>0, <1>2 DEF KeepsRow, KeepsRest
<1>3. CASE Create(q)
  <2>1. row' = [row EXCEPT ![q] = NewRow] /\ start' = [start EXCEPT ![q] = "done"]
        /\ start[q] = "capturing"
    BY <1>3 DEF Create, SetRow
  <2>2. r = q => Created(r)
    BY <1>0, <2>1 DEF Created, NewRow, NoRow
  <2> QED
    BY <1>2, <2>1, <2>2, RowShapes DEF ByOthers
<1>4. CASE CreateFails(q)
  <2>1. row' = row \/ row' = [row EXCEPT ![q] = NewRow]
    BY <1>4 DEF CreateFails
  <2>2. start' = [start EXCEPT ![q] = "done"] /\ start[q] = "capturing"
    BY <1>4 DEF CreateFails
  <2>3. r = q /\ row' # row => Created(r)
    BY <1>0, <2>1, <2>2 DEF Created, NewRow, NoRow
  <2> QED
    BY <1>2, <2>1, <2>3, RowUnchanged, RowShapes DEF ByOthers
<1>5. CASE RetryDue(q)
  <2>1. row' = [row EXCEPT ![q] = [row[q] EXCEPT !.due = TRUE]]
    BY <1>5 DEF RetryDue, SetRow
  <2>2. r = q => KeepsRow(r)
    BY <1>0, <2>1 DEF KeepsRow, KeepsRest, Row
  <2> QED
    BY <1>2, <2>1, <2>2, RowShapes DEF ByOthers
<1>6. CASE Expire(q)
  <2>1. row' = [row EXCEPT ![q] = [row[q] EXCEPT !.expired = TRUE]] /\ row[q].status = "ready"
    BY <1>6 DEF Expire, SetRow
  <2>2. r = q => ExpiredNow(r)
    BY <1>0, <2>1 DEF ExpiredNow, Row
  <2> QED
    BY <1>2, <2>1, <2>2, RowShapes DEF ByOthers
<1>7. ASSUME NEW h \in BOOLEAN, SetLegalHold(q, h)
      PROVE  ByOthers(r)
  <2>1. row' = [row EXCEPT ![q] = [row[q] EXCEPT !.hold = h]] /\ Exists(q)
        /\ lateHold' = IF h /\ Listed(q) THEN lateHold \cup {q} ELSE lateHold
    BY <1>7 DEF SetLegalHold, SetRow
  <2>2. row'[q] = [row[q] EXCEPT !.hold = h]
    BY <1>0, <2>1
  <2>3. r = q => HoldSet(r)
    BY <1>0, <2>1, <2>2 DEF HoldSet, Row
  <2> QED
    BY <1>2, <2>1, <2>3, RowShapes DEF ByOthers
<1> QED
  BY <1>1, <1>3, <1>4, <1>5, <1>6, <1>7 DEF RecordingStep

LEMMA StopperRows ==
    ASSUME Shapes, NEW a \in Stoppers \X Recordings, StopperStep(a), NEW r \in Recordings
    PROVE  ByOthers(r)
<1>0. row \in [Recordings -> Row] /\ a[2] \in Recordings
  BY DEF Shapes
<1>1. \/ row' = row
      \/ /\ stopper[a] = "row" /\ row[a[2]].status = "recording"
         /\ row' = [row EXCEPT ![a[2]] = Stopped(a[2])]
  BY DEF StopperStep, StopRead, StopTake, StopSeal, StopRow, StopFails, SetRow
<1>2. CASE row' = row
  BY <1>2, RowUnchanged DEF ByOthers
<1>3. ASSUME stopper[a] = "row", row[a[2]].status = "recording",
             row' = [row EXCEPT ![a[2]] = Stopped(a[2])]
      PROVE  ByOthers(r)
  <2>1. r # a[2] => KeepsRow(r)
    BY <1>0, <1>3 DEF KeepsRow, KeepsRest
  <2>2. r = a[2] => /\ row'[r].status = "processing" /\ KeepsRest(r)
    BY <1>0, <1>3 DEF KeepsRest, Stopped, Row
  <2> QED
    BY <1>3, <2>1, <2>2 DEF ByOthers, StoppedNow
<1> QED
  BY <1>1, <1>2, <1>3

LEMMA CleanerRows ==
    ASSUME Shapes, NEW c \in Cleaners, CleanerStep(c), NEW r \in Recordings
    PROVE  ByOthers(r)
<1>0. row \in [Recordings -> Row]
  BY DEF Shapes
<1>1. \/ row' = row
      \/ \E q \in cleaner[c].rec :
            Exists(q) /\ row' = [row EXCEPT ![q] = [row[q] EXCEPT !.status = "deleted"]]
  BY DEF CleanerStep, ListExpired, DeleteRow, CleanupFails, CleanNext, DeleteObject, SetRow
<1>2. CASE row' = row
  BY <1>2, RowUnchanged DEF ByOthers
<1>3. ASSUME NEW q \in cleaner[c].rec, Exists(q),
             row' = [row EXCEPT ![q] = [row[q] EXCEPT !.status = "deleted"]]
      PROVE  ByOthers(r)
  <2>1. r # q => KeepsRow(r)
    BY <1>0, <1>3 DEF KeepsRow, KeepsRest
  <2>2. r = q => /\ row'[r].status = "deleted" /\ KeepsRest(r)
    BY <1>0, <1>3 DEF KeepsRest, Row
  <2>3. r = q => Listed(r)
    BY DEF Listed
  <2> QED
    BY <1>3, <2>1, <2>2, <2>3 DEF ByOthers, Deleted
<1> QED
  BY <1>1, <1>2, <1>3

\* So much for every step that is not a worker's.
OthersStep ==
    \/ \E r \in Recordings : RecordingStep(r)
    \/ CloseRoom
    \/ \E a \in Stoppers \X Recordings : StopperStep(a)
    \/ \E c \in Cleaners : CleanerStep(c)
    \/ ServerCrash

LEMMA OthersRows ==
    ASSUME Shapes, OthersStep, NEW r \in Recordings
    PROVE  ByOthers(r)
<1>1. CASE CloseRoom \/ ServerCrash
  BY <1>1, RowUnchanged DEF CloseRoom, ServerCrash, ByOthers
<1> QED
  BY <1>1, RecordingRows, StopperRows, CleanerRows DEF OthersStep

LEMMA WorkerRows ==
    ASSUME Shapes, NEW w \in Workers, WorkerStep(w), NEW r \in Recordings
    PROVE  ByWorker(w, r)
<1>0. /\ row \in [Recordings -> Row] /\ worker[w].attempts \in Nat
      /\ worker[w].rec \subseteq Recordings
  BY DEF Shapes, WorkerStates
<1>1. CASE ListProcessable(w) \/ LoadSpool(w) \/ Upload(w) \/ RemoveSpool(w) \/ UploadFails(w)
  BY <1>1, RowUnchanged
  DEF ListProcessable, LoadSpool, Upload, RemoveSpool, UploadFails, ByWorker
<1>2. ASSUME NEW q \in worker[w].batch, worker[w].pc = "idle", Exists(q), q \in Recordings,
             row' = [row EXCEPT ![q] = Marked(q)]
      PROVE  ByWorker(w, r)
  <2>1. r # q => KeepsRow(r)
    BY <1>0, <1>2 DEF KeepsRow, KeepsRest
  <2>2. r = q => /\ row'[r].status = "processing" /\ row'[r].attempts = row[r].attempts + 1
                 /\ row'[r].expired = row[r].expired /\ row'[r].hold = row[r].hold
    BY <1>0, <1>2 DEF Marked, Row
  <2> QED
    BY <1>2, <2>1, <2>2 DEF ByWorker, MarkedNow
<1>3. ASSUME NEW q \in worker[w].rec, worker[w].pc = "upload", worker[w].up = NumArtifacts,
             Exists(q), row' = [row EXCEPT ![q] = Ready(q)], q \in unsure' \/ objects' = objects
      PROVE  ByWorker(w, r)
  <2>1. r # q => KeepsRow(r)
    BY <1>0, <1>3 DEF KeepsRow, KeepsRest
  <2>2. r = q => row'[r].status = "ready" /\ KeepsRest(r)
    BY <1>0, <1>3 DEF KeepsRest, Ready, Row
  <2> QED
    BY <1>3, <2>1, <2>2 DEF ByWorker, ReadyNow
<1>4. ASSUME NEW q \in worker[w].rec, worker[w].pc = "fail",
             Exists(q), row' = [row EXCEPT ![q] = Failed(q, worker[w].attempts)]
      PROVE  ByWorker(w, r)
  <2>1. r # q => KeepsRow(r)
    BY <1>0, <1>4 DEF KeepsRow, KeepsRest
  <2>2. r = q => row'[r].status = "failed" /\ KeepsRest(r)
    BY <1>0, <1>4 DEF KeepsRest, Failed, Row
  <2> QED
    BY <1>4, <2>1, <2>2 DEF ByWorker, FailedNow
<1>5. row' = row => ByWorker(w, r)
  BY RowUnchanged DEF ByWorker
<1>6. ASSUME NEW q \in Recordings, MarkProcessingAttempt(w, q) \/ MarkAttemptFails(w, q)
      PROVE  ByWorker(w, r)
  BY <1>2, <1>5, <1>6 DEF MarkProcessingAttempt, MarkAttemptFails, SetRow
<1>7. CASE FinalizeReady(w) \/ FinalizeFails(w)
  BY <1>3, <1>5, <1>7 DEF FinalizeReady, FinalizeFails, SetRow
<1>8. CASE MarkFailed(w) \/ MarkFailedError(w)
  BY <1>4, <1>5, <1>8 DEF MarkFailed, MarkFailedError, SetRow
<1> QED
  BY <1>1, <1>6, <1>7, <1>8 DEF WorkerStep, ProcessStep

-----------------------------------------------------------------------------
(* Any number of workers: captures and holds.                               *)

\* A step lists what the query of a worker or a cleaner finds, nothing else.
LEMMA WorkerLists ==
    ASSUME Shapes, [Next]_vars, NEW v \in Workers,
           NEW r \in worker'[v].batch \cup worker'[v].rec
    PROVE  r \in worker[v].batch \cup worker[v].rec \/ Processable(r)
<1>0. worker \in [Workers -> WorkerStates]
  BY DEF Shapes
<1>1. CASE ServerCrash
  BY <1>0, <1>1 DEF ServerCrash, IdleWorker
<1>2. ASSUME NEW w \in Workers, WorkerStep(w)
      PROVE  r \in worker[v].batch \cup worker[v].rec \/ Processable(r)
  <2>1. CASE v # w
    <3>1. worker'[v] = worker[v]
      BY <1>0, <1>2, <2>1 DEF WorkerStep, ProcessStep, ListProcessable, MarkProcessingAttempt, LoadSpool,
         Upload, FinalizeReady, RemoveSpool, MarkFailed, UploadFails, FinalizeFails,
         MarkFailedError, MarkAttemptFails, GoTo, NextRecording
    <3> QED
      BY <3>1
  <2>2. CASE v = w
    <3>0. worker[v] \in WorkerStates
      BY <1>0
    <3>1. CASE ListProcessable(w)
      BY <1>0, <2>2, <3>0, <3>1 DEF ListProcessable, WorkerStates
    <3>2. ASSUME NEW q \in Recordings, MarkProcessingAttempt(w, q) \/ MarkAttemptFails(w, q)
          PROVE  r \in worker[v].batch \cup worker[v].rec
      <4>1. \/ worker'[v] = Taken(v, q)
            \/ worker'[v] = [worker[v] EXCEPT !.batch = worker[v].batch \ {q}]
            \/ worker'[v] = worker[v]
        BY <1>0, <2>2, <3>2 DEF MarkProcessingAttempt, MarkAttemptFails
      <4>2. q \in worker[v].batch
        BY <2>2, <3>2 DEF MarkProcessingAttempt, MarkAttemptFails
      <4>3. /\ Taken(v, q).rec = {q} /\ Taken(v, q).batch = worker[v].batch \ {q}
            /\ [worker[v] EXCEPT !.batch = worker[v].batch \ {q}].batch = worker[v].batch \ {q}
            /\ [worker[v] EXCEPT !.batch = worker[v].batch \ {q}].rec = worker[v].rec
        BY <3>0 DEF Taken, WorkerStates
      <4> QED
        BY <4>1, <4>2, <4>3
    <3>3. CASE LoadSpool(w) \/ FinalizeReady(w) \/ UploadFails(w) \/ FinalizeFails(w)
      <4>1. \E l \in {"upload", "fail", "clean"} : worker'[v] = [worker[v] EXCEPT !.pc = l]
        BY <1>0, <2>2, <3>3 DEF LoadSpool, FinalizeReady, UploadFails, FinalizeFails, GoTo
      <4> QED
        BY <3>0, <4>1 DEF WorkerStates
    <3>4. CASE Upload(w)
      BY <1>0, <2>2, <3>0, <3>4 DEF Upload, WorkerStates
    <3>5. CASE RemoveSpool(w) \/ MarkFailed(w) \/ MarkFailedError(w)
      BY <1>0, <2>2, <3>0, <3>5 DEF RemoveSpool, MarkFailed, MarkFailedError, NextRecording, IdleWorker, WorkerStates
    <3> QED
      BY <1>2, <3>1, <3>2, <3>3, <3>4, <3>5 DEF WorkerStep, ProcessStep
  <2> QED
    BY <2>1, <2>2
<1>3. UNCHANGED worker => r \in worker[v].batch \cup worker[v].rec
  OBVIOUS
<1>4. ASSUME NEW q \in Recordings, RecordingStep(q) PROVE UNCHANGED worker
  BY <1>4 DEF RecordingStep, StartRecording, CaptureStart, Create, CreateFails, RetryDue, Expire,
     SetLegalHold, work
<1>5. ASSUME NEW a \in Stoppers \X Recordings, StopperStep(a) PROVE UNCHANGED worker
  BY <1>5 DEF StopperStep, StopRead, StopTake, StopSeal, StopRow, StopFails, work
<1>6. ASSUME NEW c \in Cleaners, CleanerStep(c) PROVE UNCHANGED worker
  BY <1>6 DEF CleanerStep, ListExpired, DeleteRow, CleanupFails, CleanNext, DeleteObject
<1>7. CASE CloseRoom \/ UNCHANGED vars
  BY <1>7 DEF CloseRoom, work, vars
<1> QED
  BY <1>1, <1>2, <1>3, <1>4, <1>5, <1>6, <1>7, WhoSteps

LEMMA CleanerLists ==
    ASSUME Shapes, [Next]_vars, NEW d \in Cleaners,
           NEW r \in cleaner'[d].batch \cup cleaner'[d].rec
    PROVE  \/ r \in cleaner[d].batch \cup cleaner[d].rec
           \/ row' = row /\ lateHold' = lateHold /\ Expired(r)
<1>0. cleaner \in [Cleaners -> CleanerStates] /\ cleaner[d] \in CleanerStates
  BY DEF Shapes
<1>1. UNCHANGED cleaner => r \in cleaner[d].batch \cup cleaner[d].rec
  OBVIOUS
<1>2. ASSUME NEW c \in Cleaners, CleanerStep(c)
      PROVE  \/ r \in cleaner[d].batch \cup cleaner[d].rec
             \/ row' = row /\ lateHold' = lateHold /\ Expired(r)
  <2>1. CASE d # c
    <3>1. cleaner'[d] = cleaner[d]
      BY <1>0, <1>2, <2>1 DEF CleanerStep, ListExpired, DeleteRow, CleanupFails, CleanNext, DeleteObject
    <3> QED
      BY <3>1
  <2>2. CASE d = c
    <3>1. CASE ListExpired(c)
      BY <1>0, <2>2, <3>1 DEF ListExpired, CleanerStates, noted
    <3>2. ASSUME NEW q \in Recordings, CleanNext(c, q)
          PROVE  r \in cleaner[d].batch \cup cleaner[d].rec
      BY <1>0, <2>2, <3>2 DEF CleanNext, CleanerStates
    <3>3. ASSUME NEW k \in Artifacts, DeleteObject(c, k)
          PROVE  r \in cleaner[d].batch \cup cleaner[d].rec
      BY <1>0, <2>2, <3>3 DEF DeleteObject, CleanerStates
    <3>4. CASE DeleteRow(c) \/ CleanupFails(c)
      <4>1. \/ cleaner'[d] = IdleCleaner
            \/ cleaner'[d] = [IdleCleaner EXCEPT !.batch = cleaner[d].batch]
        BY <1>0, <2>2, <3>4 DEF DeleteRow, CleanupFails
      <4> QED
        BY <4>1 DEF IdleCleaner
    <3> QED
      BY <1>2, <3>1, <3>2, <3>3, <3>4 DEF CleanerStep
  <2> QED
    BY <2>1, <2>2
<1>3. ASSUME NEW q \in Recordings, RecordingStep(q) PROVE UNCHANGED cleaner
  BY <1>3 DEF RecordingStep, StartRecording, CaptureStart, Create, CreateFails, RetryDue, Expire,
     SetLegalHold, work
<1>4. ASSUME NEW a \in Stoppers \X Recordings, StopperStep(a) PROVE UNCHANGED cleaner
  BY <1>4 DEF StopperStep, StopRead, StopTake, StopSeal, StopRow, StopFails, work
<1>5. ASSUME NEW w \in Workers, WorkerStep(w) PROVE UNCHANGED cleaner
  BY <1>5 DEF WorkerStep, ProcessStep, ListProcessable, MarkProcessingAttempt, LoadSpool, Upload,
     FinalizeReady, RemoveSpool, MarkFailed, UploadFails, FinalizeFails, MarkFailedError, MarkAttemptFails
<1>6. CASE CloseRoom \/ ServerCrash \/ UNCHANGED vars
  BY <1>6 DEF CloseRoom, ServerCrash, work, vars
<1> QED
  BY <1>1, <1>2, <1>3, <1>4, <1>5, <1>6, WhoSteps

\* A row comes once, at the end of the start, and is recorded only then.
LEMMA RowsAdvance ==
    ASSUME Shapes, StartedRow, [Next]_vars, NEW r \in Recordings
    PROVE  /\ row[r].status # "none" => row'[r].status # "none"
           /\ IsOver(r) => IsOver(r)'
           /\ row'[r].status # row[r].status => row[r].status # "none" \/ start'[r] = "done"
<1>1. ByOthers(r) \/ \E w \in Workers : ByWorker(w, r)
  <2>1. CASE UNCHANGED vars
    BY <2>1, RowUnchanged DEF vars, ByOthers
  <2>2. CASE Next
    BY <2>2, WhoSteps, OthersRows, WorkerRows DEF OthersStep
  <2> QED
    BY <2>1, <2>2
<1>2. CASE ByOthers(r)
  BY <1>2 DEF ByOthers, KeepsRow, Created, StoppedNow, ExpiredNow, HoldSet, Deleted, StartedRow,
     IsOver, Exists
<1>3. ASSUME NEW w \in Workers, ByWorker(w, r)
      PROVE  /\ row[r].status # "none" => row'[r].status # "none"
             /\ IsOver(r) => IsOver(r)'
             /\ row'[r].status # row[r].status => row[r].status # "none" \/ start'[r] = "done"
  BY <1>3 DEF ByWorker, KeepsRow, MarkedNow, ReadyNow, FailedNow, IsOver, Exists
<1> QED
  BY <1>1, <1>2, <1>3

LEMMA ListedIsOverStep ==
    ASSUME Shapes, StartedRow, ListedIsOver, [Next]_vars
    PROVE  ListedIsOver'
<1>0. worker \in [Workers -> WorkerStates] /\ cleaner \in [Cleaners -> CleanerStates] /\ Shapes'
  BY NextShapes DEF Shapes
<1>1. ASSUME NEW w \in Workers, NEW r \in worker'[w].batch \cup worker'[w].rec
      PROVE  IsOver(r)'
  <2>1. r \in Recordings
    BY <1>0, <1>1 DEF Shapes, WorkerStates
  <2>2. IsOver(r)
    BY <1>1, WorkerLists DEF ListedIsOver, Processable, IsOver
  <2> QED
    BY <2>1, <2>2, RowsAdvance
<1>2. ASSUME NEW c \in Cleaners, NEW r \in cleaner'[c].batch \cup cleaner'[c].rec
      PROVE  IsOver(r)'
  <2>1. r \in Recordings
    BY <1>0, <1>2 DEF Shapes, CleanerStates
  <2>2. IsOver(r)
    BY <1>2, CleanerLists DEF ListedIsOver, Expired, IsOver
  <2> QED
    BY <2>1, <2>2, RowsAdvance
<1> QED
  BY <1>1, <1>2 DEF ListedIsOver

LEMMA StartedRowStep ==
    ASSUME Shapes, StartedRow, [Next]_vars
    PROVE  StartedRow'
<1> SUFFICES ASSUME NEW r \in Recordings, start'[r] # "done"
             PROVE  row'[r].status = "none"
  BY DEF StartedRow
<1>1. start[r] # "done"
  <2>0. start \in [Recordings -> StartPCs]
    BY DEF Shapes
  <2>1. ASSUME NEW q \in Recordings, RecordingStep(q) PROVE start[r] # "done"
    BY <2>0, <2>1 DEF RecordingStep, StartRecording, CaptureStart, Create, CreateFails, RetryDue,
       Expire, SetLegalHold, captured
  <2>2. ASSUME NEW a \in Stoppers \X Recordings, StopperStep(a) PROVE start[r] # "done"
    BY <2>2 DEF StopperStep, StopRead, StopTake, StopSeal, StopRow, StopFails
  <2>3. ASSUME NEW w \in Workers, WorkerStep(w) PROVE start[r] # "done"
    BY <2>3 DEF WorkerStep, ProcessStep, ListProcessable, MarkProcessingAttempt, LoadSpool, Upload,
       FinalizeReady, RemoveSpool, MarkFailed, UploadFails, FinalizeFails, MarkFailedError,
       MarkAttemptFails, captured
  <2>4. ASSUME NEW c \in Cleaners, CleanerStep(c) PROVE start[r] # "done"
    BY <2>4 DEF CleanerStep, ListExpired, DeleteRow, CleanupFails, CleanNext, DeleteObject, captured
  <2>5. CASE CloseRoom \/ ServerCrash \/ UNCHANGED vars
    BY <2>5 DEF CloseRoom, ServerCrash, vars
  <2> QED
    BY <2>1, <2>2, <2>3, <2>4, <2>5, WhoSteps
<1> QED
  BY <1>1, RowsAdvance DEF StartedRow

\* Where captures come from, and where a stop of a recording is.
LEMMA CaptureMoves ==
    ASSUME Shapes, StartedRow, CaptureHasRecording, [Next]_vars, NEW r \in Recordings
    PROVE  r \in capture' => \/ start[r] = "checked" /\ start'[r] = "capturing" /\ stopper' = stopper
                             \/ r \in capture /\ start'[r] = start[r]
                             \/ r \in capture /\ row'[r].status = "recording"
<1>0. /\ start \in [Recordings -> StartPCs] /\ capture \in SUBSET Recordings
      /\ row \in [Recordings -> Row]
  BY DEF Shapes
<1> SUFFICES ASSUME r \in capture'
             PROVE  \/ start[r] = "checked" /\ start'[r] = "capturing" /\ stopper' = stopper
                    \/ r \in capture /\ start'[r] = start[r]
                    \/ r \in capture /\ row'[r].status = "recording"
  OBVIOUS
<1> DEFINE Goal == \/ start[r] = "checked" /\ start'[r] = "capturing" /\ stopper' = stopper
                   \/ r \in capture /\ start'[r] = start[r]
                   \/ r \in capture /\ row'[r].status = "recording"
<1>1. ASSUME NEW q \in Recordings, RecordingStep(q) PROVE Goal
  <2>1. CASE StartRecording(q)
    <3>1. q \notin capture
      BY <2>1 DEF StartRecording, StartedRow, CaptureHasRecording
    <3> QED
      BY <1>0, <2>1, <3>1 DEF StartRecording
  <2>2. CASE CaptureStart(q)
    <3>1. q \notin capture
      BY <2>2 DEF CaptureStart, StartedRow, CaptureHasRecording
    <3> QED
      BY <1>0, <2>2, <3>1 DEF CaptureStart
  <2>3. CASE Create(q)
    <3>1. row'[q].status = "recording"
      BY <1>0, <2>3 DEF Create, SetRow, NewRow, NoRow
    <3> QED
      BY <1>0, <2>3, <3>1 DEF Create
  <2>4. CASE CreateFails(q)
    BY <1>0, <2>4 DEF CreateFails
  <2> QED
    BY <1>1, <2>1, <2>2, <2>3, <2>4 DEF RecordingStep, RetryDue, Expire, SetLegalHold, captured
<1>2. ASSUME NEW a \in Stoppers \X Recordings, StopperStep(a) PROVE Goal
  BY <1>2 DEF StopperStep, StopRead, StopTake, StopSeal, StopRow, StopFails
<1>3. ASSUME NEW w \in Workers, WorkerStep(w) PROVE Goal
  BY <1>3 DEF WorkerStep, ProcessStep, ListProcessable, MarkProcessingAttempt, LoadSpool, Upload,
     FinalizeReady, RemoveSpool, MarkFailed, UploadFails, FinalizeFails, MarkFailedError,
     MarkAttemptFails, captured
<1>4. ASSUME NEW c \in Cleaners, CleanerStep(c) PROVE Goal
  BY <1>4 DEF CleanerStep, ListExpired, DeleteRow, CleanupFails, CleanNext, DeleteObject, captured
<1>5. CASE CloseRoom \/ ServerCrash \/ UNCHANGED vars
  BY <1>5 DEF CloseRoom, ServerCrash, vars
<1> QED
  BY <1>1, <1>2, <1>3, <1>4, <1>5, WhoSteps

\* A stop of a[2] proceeds from the row it has read, and from the capture it
\* has taken.
LEMMA StopMoves ==
    ASSUME Shapes, [Next]_vars, NEW a \in Stoppers \X Recordings
    PROVE  /\ stopper'[a] \in {"take", "seal", "row"}
                => stopper[a] \in {"take", "seal", "row"} \/ row[a[2]].status = "recording"
           /\ stopper'[a] \in {"seal", "row"}
                => stopper[a] \in {"seal", "row"} \/ a[2] \notin capture'
<1>0. stopper \in [Stoppers \X Recordings -> StopPCs]
  BY DEF Shapes
<1> DEFINE Goal == /\ stopper'[a] \in {"take", "seal", "row"}
                        => stopper[a] \in {"take", "seal", "row"} \/ row[a[2]].status = "recording"
                   /\ stopper'[a] \in {"seal", "row"}
                        => stopper[a] \in {"seal", "row"} \/ a[2] \notin capture'
<1>1. stopper'[a] = stopper[a] \/ stopper'[a] \in {"wait", "idle", "done"} => Goal
  OBVIOUS
<1> HIDE DEF Goal
<1>2. ASSUME NEW q \in Recordings, RecordingStep(q) PROVE Goal
  BY <1>0, <1>1, <1>2 DEF RecordingStep, StartRecording, CaptureStart, Create, CreateFails, RetryDue,
     Expire, SetLegalHold, captured
<1>3. ASSUME NEW b \in Stoppers \X Recordings, StopperStep(b) PROVE Goal
  <2>1. CASE a # b
    BY <1>0, <1>1, <1>3, <2>1
    DEF StopperStep, StopRead, StopTake, StopSeal, StopRow, StopFails, At
  <2>2. CASE a = b
    BY <1>0, <1>3, <2>2
    DEF Goal, StopperStep, StopRead, StopTake, StopSeal, StopRow, StopFails, At, Over
  <2> QED
    BY <2>1, <2>2
<1>4. ASSUME NEW w \in Workers, WorkerStep(w) PROVE Goal
  BY <1>1, <1>4 DEF WorkerStep, ProcessStep, ListProcessable, MarkProcessingAttempt, LoadSpool, Upload,
     FinalizeReady, RemoveSpool, MarkFailed, UploadFails, FinalizeFails, MarkFailedError,
     MarkAttemptFails, captured
<1>5. ASSUME NEW c \in Cleaners, CleanerStep(c) PROVE Goal
  BY <1>1, <1>5 DEF CleanerStep, ListExpired, DeleteRow, CleanupFails, CleanNext, DeleteObject, captured
<1>6. CASE CloseRoom \/ ServerCrash \/ UNCHANGED vars
  BY <1>1, <1>6 DEF CloseRoom, ServerCrash, vars, Over
<1> USE DEF Goal
<1> QED
  BY <1>2, <1>3, <1>4, <1>5, <1>6, WhoSteps

LEMMA CaptureStep == Shapes /\ CaptureInv /\ [Next]_vars => CaptureInv'
<1> SUFFICES ASSUME Shapes, CaptureInv, [Next]_vars PROVE CaptureInv'
  OBVIOUS
<1>0. StartedRow /\ StoppersFit /\ ListedIsOver /\ CaptureHasRecording
  BY DEF CaptureInv
<1>1. StartedRow' /\ ListedIsOver'
  BY <1>0, StartedRowStep, ListedIsOverStep
<1>2. ASSUME NEW a \in Stoppers \X Recordings
      PROVE  /\ stopper'[a] \in {"take", "seal", "row"} => row'[a[2]].status # "none"
             /\ stopper'[a] \in {"seal", "row"} => a[2] \notin capture'
  <2>0. a[2] \in Recordings
    OBVIOUS
  <2>1. stopper'[a] \in {"take", "seal", "row"} => row[a[2]].status # "none"
    BY <1>0, StopMoves DEF StoppersFit
  <2>2. ASSUME stopper'[a] \in {"seal", "row"}, a[2] \in capture'
        PROVE  FALSE
    <3>1. stopper[a] \in {"seal", "row"}
      BY <2>2, StopMoves
    <3>2. a[2] \notin capture /\ row[a[2]].status # "none"
      BY <1>0, <3>1 DEF StoppersFit
    <3>3. start[a[2]] = "checked"
      BY <1>0, <2>0, <2>2, <3>2, CaptureMoves
    <3> QED
      BY <1>0, <2>0, <3>2, <3>3 DEF StartedRow
  <2> QED
    BY <1>0, <2>0, <2>1, <2>2, RowsAdvance
<1>3. ASSUME NEW r \in capture'
      PROVE  start'[r] = "capturing" \/ row'[r].status = "recording"
  <2>0. r \in Recordings
    BY NextShapes DEF Shapes
  <2>1. CASE r \in capture /\ start'[r] = start[r] /\ start[r] # "capturing"
    <3>1. row[r].status = "recording"
      BY <1>0, <2>1 DEF CaptureHasRecording
    <3>2. ByOthers(r) \/ \E w \in Workers : ByWorker(w, r)
      <4>1. CASE UNCHANGED vars
        BY <4>1, RowUnchanged DEF vars, ByOthers
      <4>2. CASE Next
        BY <2>0, <4>2, WhoSteps, OthersRows, WorkerRows DEF OthersStep
      <4> QED
        BY <4>1, <4>2
    <3>3. ~StoppedNow(r)
      BY <1>0, <2>1 DEF StoppedNow, StoppersFit
    <3>4. ~Deleted(r)
      BY <1>0, <3>1 DEF Deleted, Listed, ListedIsOver, IsOver
    <3>5. ByOthers(r) => row'[r].status = "recording"
      BY <2>1, <3>1, <3>3, <3>4 DEF ByOthers, KeepsRow, Created, ExpiredNow, HoldSet
    <3>6. ASSUME NEW w \in Workers, ByWorker(w, r)
          PROVE  row'[r].status = "recording"
      BY <1>0, <3>1, <3>6 DEF ByWorker, KeepsRow, MarkedNow, ReadyNow, FailedNow, ListedIsOver, IsOver
    <3> QED
      BY <3>2, <3>5, <3>6
  <2> QED
    BY <1>0, <2>0, <2>1, CaptureMoves
<1>4. StoppersFit'
  BY <1>2 DEF StoppersFit
<1>5. CaptureHasRecording'
  BY <1>3 DEF CaptureHasRecording
<1> QED
  BY <1>1, <1>4, <1>5 DEF CaptureInv

\* What was put on hold while a cleaner had it listed stays noted.
LEMMA LateHoldGrows ==
    ASSUME [Next]_vars
    PROVE  lateHold \subseteq lateHold' /\ unsure \subseteq unsure'
<1>1. ASSUME NEW q \in Recordings, RecordingStep(q)
      PROVE  lateHold \subseteq lateHold' /\ unsure' = unsure
  BY <1>1 DEF RecordingStep, StartRecording, CaptureStart, Create, CreateFails, RetryDue, Expire,
     SetLegalHold, noted
<1>2. ASSUME NEW a \in Stoppers \X Recordings, StopperStep(a)
      PROVE  lateHold' = lateHold /\ unsure' = unsure
  BY <1>2 DEF StopperStep, StopRead, StopTake, StopSeal, StopRow, StopFails, noted
<1>3. ASSUME NEW w \in Workers, WorkerStep(w)
      PROVE  lateHold' = lateHold /\ unsure \subseteq unsure'
  BY <1>3 DEF WorkerStep, ProcessStep, ListProcessable, MarkProcessingAttempt, LoadSpool, Upload,
     FinalizeReady, RemoveSpool, MarkFailed, UploadFails, FinalizeFails, MarkFailedError,
     MarkAttemptFails, noted
<1>4. ASSUME NEW c \in Cleaners, CleanerStep(c)
      PROVE  lateHold' = lateHold /\ unsure' = unsure
  BY <1>4 DEF CleanerStep, ListExpired, DeleteRow, CleanupFails, CleanNext, DeleteObject, noted
<1>5. CASE CloseRoom \/ ServerCrash \/ UNCHANGED vars
  BY <1>5 DEF CloseRoom, ServerCrash, vars, noted
<1> QED
  BY <1>1, <1>2, <1>3, <1>4, <1>5, WhoSteps

LEMMA HoldStep == Shapes /\ HoldIsLate /\ [Next]_vars => HoldIsLate'
<1> SUFFICES ASSUME Shapes, HoldIsLate, [Next]_vars, NEW r \in Recordings,
                    row'[r].hold, Listed(r)' \/ row'[r].status = "deleted"
             PROVE  r \in lateHold'
  BY DEF HoldIsLate
<1>1. ByOthers(r) \/ \E w \in Workers : ByWorker(w, r)
  <2>1. CASE UNCHANGED vars
    BY <2>1, RowUnchanged DEF vars, ByOthers
  <2>2. CASE Next
    BY <2>2, WhoSteps, OthersRows, WorkerRows DEF OthersStep
  <2> QED
    BY <2>1, <2>2
<1>2. Listed(r)' => Listed(r) \/ (row' = row /\ ~row[r].hold)
  BY CleanerLists DEF Listed, Expired
<1>3. Listed(r) /\ row[r].hold => r \in lateHold'
  BY LateHoldGrows DEF HoldIsLate
<1>4. row[r].status = "deleted" /\ row[r].hold => r \in lateHold'
  BY LateHoldGrows DEF HoldIsLate
<1>5. Listed(r) \/ row[r].status = "deleted" \/ Deleted(r)
  <2>1. Listed(r)' => Listed(r)
    BY <1>2
  <2>2. ByOthers(r) /\ row'[r].status = "deleted" => row[r].status = "deleted" \/ Deleted(r)
    BY DEF ByOthers, KeepsRow, Created, StoppedNow, ExpiredNow, HoldSet
  <2>3. ASSUME NEW w \in Workers, ByWorker(w, r), row'[r].status = "deleted"
        PROVE  row[r].status = "deleted"
    BY <2>3 DEF ByWorker, KeepsRow, MarkedNow, ReadyNow, FailedNow
  <2> QED
    BY <1>1, <2>1, <2>2, <2>3
<1>6. row[r].hold \/ HoldSet(r)
  <2>1. ByOthers(r) => row[r].hold \/ HoldSet(r)
    BY DEF ByOthers, KeepsRow, KeepsRest, Created, StoppedNow, ExpiredNow, Deleted
  <2>2. ASSUME NEW w \in Workers, ByWorker(w, r)
        PROVE  row[r].hold
    BY <2>2 DEF ByWorker, KeepsRow, KeepsRest, MarkedNow, ReadyNow, FailedNow
  <2> QED
    BY <1>1, <2>1, <2>2
<1> QED
  BY <1>3, <1>4, <1>5, <1>6 DEF HoldSet, Deleted, Exists

(* Whoever stops a recording first, the user, the closing room or a failed  *)
(* start: while the observer of CaptureManager runs, its recording is being *)
(* started or has status 'recording', with any number of workers.           *)
THEOREM CaptureHasRecordingAlways == Spec => []CaptureHasRecording
<1>1. Init => CaptureInv
  BY DEF Init, CaptureInv, StartedRow, StoppersFit, ListedIsOver, CaptureHasRecording, NoRow,
     IdleWorker, IdleCleaner
<1>2. CaptureInv => CaptureHasRecording
  BY DEF CaptureInv
<1> QED
  BY <1>1, <1>2, InitShapes, NextShapes, CaptureStep, PTL DEF Spec

(* SetLegalHold keeps a recording from CleanupExpired, with any number of   *)
(* workers and cleaners: one that is deleted on hold was put on hold after  *)
(* a cleaner's query had returned it.                                       *)
THEOREM HoldKeepsRecordingAlways == Spec => []HoldKeepsRecording
<1>1. Init => HoldIsLate
  BY DEF Init, HoldIsLate, NoRow
<1>2. HoldIsLate => HoldKeepsRecording
  BY DEF HoldIsLate, HoldKeepsRecording
<1> QED
  BY <1>1, <1>2, InitShapes, NextShapes, HoldStep, PTL DEF Spec

-----------------------------------------------------------------------------
(* One worker: where the media are.                                         *)

\* A spool directory is removed by a worker that is done with a recording, or
\* with its row.
LEMMA SpoolMoves ==
    ASSUME Shapes, [Next]_vars, NEW r \in Recordings, spool'[r] = "none"
    PROVE  \/ spool[r] = "none"
           \/ row' = row /\ \E w \in Workers : worker[w].pc = "clean" /\ r \in worker[w].rec
           \/ row'[r].status = "deleted" /\ Listed(r)
<1>0. /\ spool \in [Recordings -> {"none", "open", "sealed"}]
      /\ row \in [Recordings -> Row]
  BY DEF Shapes
<1> DEFINE Goal == \/ spool[r] = "none"
                   \/ row' = row /\ \E w \in Workers : worker[w].pc = "clean" /\ r \in worker[w].rec
                   \/ row'[r].status = "deleted" /\ Listed(r)
<1>1. ASSUME NEW q \in Recordings, RecordingStep(q) PROVE Goal
  BY <1>0, <1>1 DEF RecordingStep, StartRecording, CaptureStart, Create, CreateFails, RetryDue,
     Expire, SetLegalHold
<1>2. ASSUME NEW a \in Stoppers \X Recordings, StopperStep(a) PROVE Goal
  BY <1>0, <1>2 DEF StopperStep, StopRead, StopTake, StopSeal, StopRow, StopFails
<1>3. ASSUME NEW w \in Workers, WorkerStep(w) PROVE Goal
  <2>1. CASE RemoveSpool(w)
    <3>1. PICK q \in worker[w].rec : spool' \in {spool, [spool EXCEPT ![q] = "none"]}
      BY <2>1 DEF RemoveSpool
    <3>2. row' = row /\ worker[w].pc = "clean"
      BY <2>1 DEF RemoveSpool
    <3> QED
      BY <1>0, <3>1, <3>2
  <2> QED
    BY <1>3, <2>1 DEF WorkerStep, ProcessStep, ListProcessable, MarkProcessingAttempt, LoadSpool, Upload,
       FinalizeReady, MarkFailed, UploadFails, FinalizeFails, MarkFailedError, MarkAttemptFails
<1>4. ASSUME NEW c \in Cleaners, CleanerStep(c) PROVE Goal
  <2>1. CASE DeleteRow(c)
    <3>1. PICK q \in cleaner[c].rec :
            \/ /\ row' = [row EXCEPT ![q] = [row[q] EXCEPT !.status = "deleted"]]
               /\ spool' = [spool EXCEPT ![q] = "none"]
            \/ UNCHANGED <<row, spool>>
      BY <2>1 DEF DeleteRow, SetRow
    <3>2. CASE q = r /\ spool' # spool
      <4>1. Listed(r)
        BY <3>2 DEF Listed
      <4> QED
        BY <1>0, <3>1, <3>2, <4>1 DEF Row
    <3> QED
      BY <1>0, <3>1, <3>2
  <2> QED
    BY <1>4, <2>1 DEF CleanerStep, ListExpired, CleanupFails, CleanNext, DeleteObject
<1>5. CASE CloseRoom \/ ServerCrash \/ UNCHANGED vars
  BY <1>5 DEF CloseRoom, ServerCrash, vars
<1> QED
  BY <1>1, <1>2, <1>3, <1>4, <1>5, WhoSteps

LEMMA StartMoves ==
    ASSUME Shapes, [Next]_vars, NEW r \in Recordings, start'[r] = "capturing"
    PROVE  start[r] = "capturing" \/ spool'[r] = "open"
<1>0. /\ start \in [Recordings -> StartPCs]
      /\ spool \in [Recordings -> {"none", "open", "sealed"}]
  BY DEF Shapes
<1> DEFINE Goal == start[r] = "capturing" \/ spool'[r] = "open"
<1>1. ASSUME NEW q \in Recordings, RecordingStep(q) PROVE Goal
  BY <1>0, <1>1 DEF RecordingStep, StartRecording, CaptureStart, Create, CreateFails, RetryDue,
     Expire, SetLegalHold, captured
<1>2. ASSUME NEW a \in Stoppers \X Recordings, StopperStep(a) PROVE Goal
  BY <1>2 DEF StopperStep, StopRead, StopTake, StopSeal, StopRow, StopFails
<1>3. ASSUME NEW w \in Workers, WorkerStep(w) PROVE Goal
  BY <1>3 DEF WorkerStep, ProcessStep, ListProcessable, MarkProcessingAttempt, LoadSpool, Upload,
     FinalizeReady, RemoveSpool, MarkFailed, UploadFails, FinalizeFails, MarkFailedError,
     MarkAttemptFails, captured
<1>4. ASSUME NEW c \in Cleaners, CleanerStep(c) PROVE Goal
  BY <1>4 DEF CleanerStep, ListExpired, DeleteRow, CleanupFails, CleanNext, DeleteObject, captured
<1>5. CASE CloseRoom \/ ServerCrash \/ UNCHANGED vars
  BY <1>5 DEF CloseRoom, ServerCrash, vars
<1> QED
  BY <1>1, <1>2, <1>3, <1>4, <1>5, WhoSteps

\* What others than the workers leave alone.
LEMMA OthersLeave ==
    ASSUME Shapes, OthersStep
    PROVE  /\ unsure' = unsure
           /\ \A w \in Workers : worker'[w] = worker[w] \/ worker'[w] = IdleWorker
           /\ \A r \in Recordings : objects'[r] = objects[r] \/ Listed(r)
<1>0. objects \in [Recordings -> SUBSET Artifacts]
  BY DEF Shapes
<1>1. ASSUME NEW q \in Recordings, RecordingStep(q)
      PROVE  UNCHANGED <<unsure, worker, objects>>
  BY <1>1 DEF RecordingStep, StartRecording, CaptureStart, Create, CreateFails, RetryDue, Expire,
     SetLegalHold, noted, work
<1>2. ASSUME NEW a \in Stoppers \X Recordings, StopperStep(a)
      PROVE  UNCHANGED <<unsure, worker, objects>>
  BY <1>2 DEF StopperStep, StopRead, StopTake, StopSeal, StopRow, StopFails, noted, work
<1>3. ASSUME NEW c \in Cleaners, CleanerStep(c)
      PROVE  /\ UNCHANGED <<unsure, worker>>
             /\ \A r \in Recordings : objects'[r] = objects[r] \/ Listed(r)
  <2>1. UNCHANGED <<unsure, worker>>
    BY <1>3 DEF CleanerStep, ListExpired, DeleteRow, CleanupFails, CleanNext, DeleteObject, noted
  <2>2. ASSUME NEW k \in Artifacts, DeleteObject(c, k), NEW r \in Recordings
        PROVE  objects'[r] = objects[r] \/ Listed(r)
    BY <1>0, <2>2 DEF DeleteObject, Listed
  <2>3. objects' = objects \/ \E k \in Artifacts : DeleteObject(c, k)
    BY <1>3 DEF CleanerStep, ListExpired, DeleteRow, CleanupFails, CleanNext
  <2> QED
    BY <2>1, <2>2, <2>3
<1>4. CASE CloseRoom
  BY <1>4 DEF CloseRoom, noted, work
<1>5. CASE ServerCrash
  BY <1>5 DEF ServerCrash
<1> QED
  BY <1>1, <1>2, <1>3, <1>4, <1>5 DEF OthersStep

LEMMA WorkerObjects ==
    ASSUME Shapes, NEW w \in Workers, WorkerStep(w), NEW r \in Recordings
    PROVE  objects'[r] = objects[r] \/ (r \in worker[w].rec /\ worker[w].pc = "upload")
<1>0. objects \in [Recordings -> SUBSET Artifacts]
  BY DEF Shapes
<1>1. CASE Upload(w) \/ UploadFails(w) \/ FinalizeFails(w)
  BY <1>0, <1>1 DEF Upload, UploadFails, FinalizeFails
<1>2. CASE UNCHANGED objects
  BY <1>2
<1> QED
  BY <1>1, <1>2 DEF WorkerStep, ProcessStep, ListProcessable, MarkProcessingAttempt, LoadSpool,
     FinalizeReady, RemoveSpool, MarkFailed, MarkFailedError, MarkAttemptFails

LEMMA OthersFit ==
    ASSUME OneWorker, Shapes, CaptureInv, MediaInv, Next, OthersStep
    PROVE  WorkersFit'
<1> SUFFICES ASSUME NEW w \in Workers
             PROVE  BatchFits(w)' /\ HandFits(w)' /\ FromTheFirst(w)'
  BY DEF WorkersFit
<1>0. /\ StartedRow /\ ListedIsOver
      /\ BatchFits(w) /\ HandFits(w) /\ FromTheFirst(w) /\ ListedIsExpired
      /\ unsure' = unsure /\ worker[w] \in WorkerStates
  BY OthersLeave DEF CaptureInv, MediaInv, WorkersFit, Shapes
<1>1. CASE worker'[w] = IdleWorker
  BY <1>1 DEF IdleWorker, BatchFits, HandFits, FromTheFirst
<1>2. CASE worker'[w] = worker[w]
  <2>0. worker[w].batch \cup worker[w].rec \subseteq Recordings
    BY <1>0 DEF WorkerStates
  <2>1. ASSUME NEW r \in worker[w].batch \cup worker[w].rec
        PROVE  KeepsRow(r) \/ ExpiredNow(r) \/ HoldSet(r) \/ Deleted(r)
    <3>1. IsOver(r) /\ r \in Recordings
      BY <1>0, <2>0, <2>1 DEF ListedIsOver
    <3> QED
      BY <1>0, <3>1, OthersRows DEF ByOthers, Created, StoppedNow, StartedRow, IsOver
  <2>2. BatchFits(w)'
    BY <1>0, <1>2, <2>1 DEF BatchFits, KeepsRow, KeepsRest, ExpiredNow, HoldSet, Deleted
  <2>3. ASSUME NEW r \in worker[w].rec
        PROVE  /\ worker[w].pc \in {"load", "upload"} => row'[r].status \in {"processing", "deleted"}
               /\ worker[w].pc = "upload" => row'[r].expired \/ 1 .. worker[w].up \subseteq objects'[r]
               /\ worker[w].pc = "clean" => row'[r].status \in {"ready", "deleted"}
               /\ worker[w].pc = "fail" =>
                    \/ row'[r].status \in {"processing", "deleted"}
                    \/ row'[r].status = "ready" /\ r \in unsure /\ spool'[r] # "none"
    <3>0. r \in Recordings
      BY <2>0
    <3>1. \/ row'[r].status = row[r].status
          \/ row'[r].status = "deleted"
      BY <2>1 DEF KeepsRow, ExpiredNow, HoldSet, Deleted
    <3>2. row[r].expired => row'[r].expired
      BY <2>1 DEF KeepsRow, KeepsRest, ExpiredNow, HoldSet, Deleted
    <3>3. objects'[r] = objects[r] \/ row[r].expired
      BY <1>0, <3>0, OthersLeave DEF ListedIsExpired
    <3>5. worker[w].pc = "fail" /\ spool'[r] = "none" => row'[r].status = "deleted" \/ spool[r] = "none"
      BY <3>0, SpoolMoves DEF OneWorker
    <3> QED
      BY <1>0, <3>1, <3>2, <3>3, <3>5 DEF HandFits
  <2>4. HandFits(w)'
    BY <1>0, <1>2, <2>3 DEF HandFits
  <2>5. FromTheFirst(w)'
    BY <1>0, <1>2 DEF FromTheFirst
  <2> QED
    BY <2>2, <2>4, <2>5
<1> QED
  BY <1>1, <1>2, OthersLeave

\* The worker's own steps.  What it has listed it touches one at a time.
LEMMA WorkerFits ==
    ASSUME OneWorker, Shapes, CaptureInv, MediaInv, NEW w \in Workers, WorkerStep(w)
    PROVE  WorkersFit'
<1> USE RecordingAssumption
<1> DEFINE old == worker[w]
           new == worker'[w]
<1> SUFFICES BatchFits(w)' /\ HandFits(w)' /\ FromTheFirst(w)'
  BY DEF WorkersFit, OneWorker
<1>0. /\ row \in [Recordings -> Row] /\ objects \in [Recordings -> SUBSET Artifacts]
      /\ worker \in [Workers -> WorkerStates]
      /\ old \in WorkerStates /\ old.batch \in SUBSET Recordings /\ old.rec \in SUBSET Recordings
      /\ old.up \in 0 .. NumArtifacts
      /\ old.pc = "idle" => old.rec = {}
      /\ old.pc # "idle" => \E r \in Recordings : old.rec = {r}
      /\ BatchFits(w) /\ HandFits(w) /\ FromTheFirst(w) /\ SpoolIsKept
  BY DEF Shapes, WorkerStates, HoldsOne, MediaInv, WorkersFit
<1>1. old = [pc |-> old.pc, batch |-> old.batch, rec |-> old.rec,
             attempts |-> old.attempts, up |-> old.up]
  BY <1>0 DEF WorkerStates
<1>2. \A r \in Recordings : ByWorker(w, r)
  BY WorkerRows
\* A listed recording that is not in hand keeps its row, or is marked.
<1>3. ASSUME NEW r \in old.batch
      PROVE  \/ row'[r].status \in {"processing", "deleted"}
             \/ row'[r].status = "failed" /\ row'[r].attempts < MaxAttempts
  <2>1. r \notin old.rec /\ r \in Recordings
    BY <1>0 DEF BatchFits
  <2>2. KeepsRow(r) \/ MarkedNow(w, r)
    BY <1>2, <2>1 DEF ByWorker, ReadyNow, FailedNow
  <2> QED
    BY <1>0, <2>2 DEF KeepsRow, KeepsRest, MarkedNow, BatchFits
<1>4. ASSUME new.batch \subseteq old.batch, new.rec \cap new.batch = {}
      PROVE  BatchFits(w)'
  BY <1>3, <1>4 DEF BatchFits
<1>5. new.rec = {} /\ new.up = 0 => HandFits(w)' /\ FromTheFirst(w)'
  BY DEF HandFits, FromTheFirst
<1>6. old.rec \cap old.batch = {}
  BY <1>0 DEF BatchFits
<1>7. CASE ListProcessable(w)
  <2>1. /\ new.batch = {r \in Recordings : Processable(r)} /\ new.rec = {} /\ new.up = 0
        /\ row' = row
    BY <1>0, <1>1, <1>7 DEF ListProcessable, FromTheFirst
  <2>2. BatchFits(w)'
    BY <2>1 DEF BatchFits, Processable
  <2> QED
    BY <1>5, <2>1, <2>2
<1>8. ASSUME NEW q \in Recordings, MarkProcessingAttempt(w, q)
      PROVE  BatchFits(w)' /\ HandFits(w)' /\ FromTheFirst(w)'
  <2>0. old.pc = "idle" /\ old.rec = {} /\ old.up = 0
    BY <1>0, <1>8 DEF MarkProcessingAttempt, FromTheFirst
  <2>1. CASE Exists(q)
    <3>1. new = Taken(w, q)
      BY <1>0, <1>8, <2>1 DEF MarkProcessingAttempt
    <3>a. /\ Taken(w, q).pc = "load" /\ Taken(w, q).rec = {q}
          /\ Taken(w, q).batch = old.batch \ {q} /\ Taken(w, q).up = old.up
      <4>1. old \in WorkerStates
        BY <1>0
      <4> QED
        BY <4>1 DEF Taken, WorkerStates
    <3>2. new.pc = "load" /\ new.rec = {q} /\ new.batch = old.batch \ {q} /\ new.up = 0
      BY <2>0, <3>1, <3>a
    <3>3. row'[q].status = "processing"
      <4>1. row' = [row EXCEPT ![q] = Marked(q)]
        BY <1>8, <2>1 DEF MarkProcessingAttempt, SetRow
      <4>2. row[q] \in Row
        BY <1>0
      <4>3. Marked(q).status = "processing"
        BY <4>2 DEF Marked, Row
      <4> QED
        BY <1>0, <4>1, <4>3
    <3>4. HandFits(w)' /\ FromTheFirst(w)'
      BY <3>2, <3>3 DEF HandFits, FromTheFirst
    <3> QED
      BY <1>4, <3>2, <3>4
  <2>2. CASE ~Exists(q)
    <3>1. new = [old EXCEPT !.batch = old.batch \ {q}]
      BY <1>0, <1>8, <2>2 DEF MarkProcessingAttempt
    <3>2. new.rec = {} /\ new.batch = old.batch \ {q} /\ new.up = 0
      BY <1>1, <2>0, <3>1
    <3> QED
      BY <1>4, <1>5, <3>2
  <2> QED
    BY <2>1, <2>2
<1>9. ASSUME NEW q \in Recordings, MarkAttemptFails(w, q)
      PROVE  BatchFits(w)' /\ HandFits(w)' /\ FromTheFirst(w)'
  <2>0. old.pc = "idle" /\ old.rec = {} /\ old.up = 0
    BY <1>0, <1>9 DEF MarkAttemptFails, FromTheFirst
  <2>1. new = old \/ new = [old EXCEPT !.batch = old.batch \ {q}]
    BY <1>0, <1>9 DEF MarkAttemptFails
  <2>2. new.rec = {} /\ new.batch \subseteq old.batch /\ new.up = 0
    BY <1>1, <2>0, <2>1
  <2> QED
    BY <1>4, <1>5, <2>2
\* The steps that only move on to l.
<1>10. ASSUME NEW l \in {"upload", "clean", "fail"}, GoTo(w, l)
       PROVE  /\ new.pc = l /\ new.rec = old.rec /\ new.batch = old.batch /\ new.up = old.up
              /\ BatchFits(w)' /\ FromTheFirst(w)'
  <2>1. new.pc = l /\ new.rec = old.rec /\ new.batch = old.batch /\ new.up = old.up
    BY <1>0, <1>1, <1>10 DEF GoTo
  <2> QED
    BY <1>4, <1>6, <2>1 DEF FromTheFirst
<1>11. CASE LoadSpool(w)
  <2>1. GoTo(w, "upload") \/ GoTo(w, "fail")
    BY <1>11 DEF LoadSpool
  <2>2. row' = row /\ old.pc = "load" /\ old.up = 0
    BY <1>0, <1>11 DEF LoadSpool, FromTheFirst
  <2>3. HandFits(w)'
    BY <1>0, <1>10, <2>1, <2>2 DEF HandFits
  <2> QED
    BY <1>10, <2>1, <2>3
<1>12. CASE Upload(w)
  <2>1. PICK q \in old.rec : objects' = [objects EXCEPT ![q] = @ \cup {old.up + 1}]
    BY <1>12 DEF Upload
  <2>2. old.rec = {q} /\ q \in Recordings /\ old.pc = "upload"
    BY <1>0, <1>12 DEF Upload
  <2>3. new.pc = "upload" /\ new.rec = old.rec /\ new.batch = old.batch /\ new.up = old.up + 1
    BY <1>0, <1>1, <1>12 DEF Upload
  <2>4. objects'[q] = objects[q] \cup {old.up + 1} /\ row' = row
    BY <1>0, <1>12, <2>1, <2>2 DEF Upload
  <2>5. row[q].expired \/ 1 .. old.up \subseteq objects[q]
    BY <1>0, <2>2 DEF HandFits
  <2>6. row'[q].expired \/ 1 .. new.up \subseteq objects'[q]
    BY <1>0, <2>3, <2>4, <2>5
  <2>7. HandFits(w)'
    BY <1>0, <2>2, <2>3, <2>4, <2>6 DEF HandFits
  <2>8. BatchFits(w)' /\ FromTheFirst(w)'
    BY <1>4, <1>6, <2>3 DEF FromTheFirst
  <2> QED
    BY <2>7, <2>8
<1>13. CASE FinalizeReady(w)
  <2>1. PICK q \in old.rec : row' = [row EXCEPT ![q] = Ready(q)]
    BY <1>13 DEF FinalizeReady, SetRow
  <2>2. old.rec = {q} /\ q \in Recordings
    BY <1>0, <2>1
  <2>3. row'[q].status = "ready"
    BY <1>0, <2>1, <2>2 DEF Ready, Row
  <2>4. GoTo(w, "clean")
    BY <1>13 DEF FinalizeReady
  <2>5. HandFits(w)'
    BY <1>10, <2>2, <2>3, <2>4 DEF HandFits
  <2> QED
    BY <1>10, <2>4, <2>5
<1>14. CASE RemoveSpool(w) \/ MarkFailed(w) \/ MarkFailedError(w)
  <2>1. new = [IdleWorker EXCEPT !.batch = old.batch]
    BY <1>0, <1>14 DEF RemoveSpool, MarkFailed, MarkFailedError, NextRecording
  <2>2. new.rec = {} /\ new.batch = old.batch /\ new.up = 0
    BY <2>1 DEF IdleWorker
  <2> QED
    BY <1>4, <1>5, <2>2
<1>15. CASE UploadFails(w)
  <2>1. GoTo(w, "fail") /\ row' = row /\ old.pc = "upload"
    BY <1>15 DEF UploadFails
  <2>2. HandFits(w)'
    BY <1>0, <1>10, <2>1 DEF HandFits
  <2> QED
    BY <1>10, <2>1, <2>2
<1>16. CASE FinalizeFails(w)
  <2>1. GoTo(w, "fail") /\ old.pc = "upload" /\ spool' = spool
    BY <1>16 DEF FinalizeFails
  <2>2. PICK q \in old.rec :
          \/ UNCHANGED row
          \/ Exists(q) /\ row' = [row EXCEPT ![q] = Ready(q)] /\ unsure' = unsure \cup {q}
    BY <1>16 DEF FinalizeFails, SetRow
  <2>3. old.rec = {q} /\ q \in Recordings /\ row[q].status \in {"processing", "deleted"}
    BY <1>0, <2>1, <2>2 DEF HandFits
  <2>4. CASE UNCHANGED row
    BY <1>10, <2>1, <2>3, <2>4 DEF HandFits
  <2>5. CASE Exists(q) /\ row' = [row EXCEPT ![q] = Ready(q)] /\ unsure' = unsure \cup {q}
    <3>1. row[q].status = "processing" /\ row'[q].status = "ready"
      BY <1>0, <2>3, <2>5 DEF Exists, Ready, Row
    <3>2. spool'[q] # "none" /\ q \in unsure'
      BY <1>0, <2>1, <2>3, <2>5, <3>1 DEF SpoolIsKept
    <3> QED
      BY <1>10, <2>1, <2>3, <3>1, <3>2 DEF HandFits
  <2> QED
    BY <1>10, <2>1, <2>2, <2>4, <2>5
<1> QED
  BY <1>7, <1>8, <1>9, <1>11, <1>12, <1>13, <1>14, <1>15, <1>16 DEF WorkerStep, ProcessStep

LEMMA SpoolFollowsStep ==
    ASSUME Shapes, CaptureInv, MediaInv, [Next]_vars
    PROVE  SpoolFollows'
<1>0. StartedRow /\ ListedIsOver /\ SpoolFollows
  BY DEF CaptureInv, MediaInv
<1> SUFFICES ASSUME NEW r \in Recordings,
                    start'[r] = "capturing" \/ row'[r].status = "recording",
                    spool'[r] = "none"
             PROVE  FALSE
  BY DEF SpoolFollows
<1>1. start[r] = "capturing" \/ row[r].status = "recording"
  <2>1. start'[r] = "capturing" => start[r] = "capturing"
    BY StartMoves
  <2>2. CASE row'[r].status = "recording"
    <3>1. ByOthers(r) \/ \E w \in Workers : ByWorker(w, r)
      <4>1. CASE UNCHANGED vars
        BY <4>1, RowUnchanged DEF vars, ByOthers
      <4>2. CASE Next
        BY <4>2, WhoSteps, OthersRows, WorkerRows DEF OthersStep
      <4> QED
        BY <4>1, <4>2
    <3>2. ByOthers(r) => row[r].status = "recording" \/ start[r] = "capturing"
      BY <2>2 DEF ByOthers, KeepsRow, Created, StoppedNow, ExpiredNow, HoldSet, Deleted
    <3>3. ASSUME NEW w \in Workers, ByWorker(w, r) PROVE row[r].status = "recording"
      BY <2>2, <3>3 DEF ByWorker, KeepsRow, MarkedNow, ReadyNow, FailedNow
    <3> QED
      BY <3>1, <3>2, <3>3
  <2> QED
    BY <2>1, <2>2
<1>2. ~IsOver(r) /\ spool[r] # "none"
  BY <1>0, <1>1 DEF StartedRow, SpoolFollows, IsOver
<1> QED
  BY <1>0, <1>2, SpoolMoves DEF ListedIsOver, Listed

\* Who steps, with what the step does to the row of r.
LEMMA RowCases ==
    ASSUME Shapes, [Next]_vars, NEW r \in Recordings
    PROVE  \/ ByOthers(r) /\ OthersStep
           \/ KeepsRow(r) /\ UNCHANGED vars
           \/ \E w \in Workers : ByWorker(w, r) /\ WorkerStep(w)
<1>1. CASE UNCHANGED vars
  BY <1>1, RowUnchanged DEF vars
<1>2. CASE Next
  BY <1>2, WhoSteps, OthersRows, WorkerRows DEF OthersStep
<1> QED
  BY <1>1, <1>2

LEMMA SpoolIsKeptStep ==
    ASSUME Shapes, CaptureInv, MediaInv, [Next]_vars
    PROVE  SpoolIsKept'
<1>0. /\ ListedIsOver /\ SpoolFollows /\ SpoolIsKept
      /\ \A w \in Workers : BatchFits(w) /\ HandFits(w)
  BY DEF CaptureInv, MediaInv, WorkersFit
<1> DEFINE Kept(x, n) == x = "processing" \/ (x = "failed" /\ n < MaxAttempts)
<1> SUFFICES ASSUME NEW r \in Recordings, Kept(row'[r].status, row'[r].attempts), spool'[r] = "none"
             PROVE  FALSE
  BY DEF SpoolIsKept
<1>1. spool[r] # "none"
  <2>1. KeepsRow(r) => spool[r] # "none"
    BY <1>0 DEF KeepsRow, KeepsRest, SpoolIsKept
  <2>2. StoppedNow(r) => spool[r] # "none"
    BY <1>0 DEF StoppedNow, SpoolFollows
  <2>3. HoldSet(r) => spool[r] # "none"
    BY <1>0 DEF HoldSet, SpoolIsKept
  <2>4. ~Created(r) /\ ~ExpiredNow(r) /\ ~Deleted(r)
    BY DEF Created, ExpiredNow, Deleted
  <2>5. ASSUME NEW w \in Workers, MarkedNow(w, r) PROVE spool[r] # "none"
    BY <1>0, <2>5 DEF MarkedNow, BatchFits, Exists, SpoolIsKept
  <2>6. ASSUME NEW w \in Workers, FailedNow(w, r) PROVE spool[r] # "none"
    BY <1>0, <2>6 DEF FailedNow, HandFits, Exists, SpoolIsKept
  <2>7. ASSUME NEW w \in Workers PROVE ~ReadyNow(w, r)
    BY DEF ReadyNow
  <2> QED
    BY <2>1, <2>2, <2>3, <2>4, <2>5, <2>6, <2>7, RowCases DEF ByOthers, ByWorker
<1>2. row' # row
  <2>1. ASSUME NEW w \in Workers, worker[w].pc = "clean", r \in worker[w].rec
        PROVE  row' # row
    BY <1>0, <2>1 DEF HandFits
  <2>2. row'[r].status # "deleted"
    OBVIOUS
  <2> QED
    BY <1>1, <2>1, <2>2, SpoolMoves
<1> QED
  BY <1>1, <1>2, SpoolMoves

LEMMA ListedIsExpiredStep ==
    ASSUME Shapes, CaptureInv, MediaInv, [Next]_vars
    PROVE  ListedIsExpired'
<1>0. /\ StartedRow /\ ListedIsOver /\ ListedIsExpired
      /\ \A w \in Workers : BatchFits(w) /\ HandFits(w)
  BY DEF CaptureInv, MediaInv, WorkersFit
<1> SUFFICES ASSUME NEW r \in Recordings, Listed(r)'
             PROVE  row'[r].expired /\ (row'[r].status \in {"ready", "deleted"} \/ r \in unsure')
  BY DEF ListedIsExpired
<1>1. Listed(r) \/ (row' = row /\ Expired(r))
  BY CleanerLists DEF Listed
<1>2. CASE row' = row /\ Expired(r)
  BY <1>2 DEF Expired
<1>3. CASE Listed(r)
  <2>1. /\ row[r].expired /\ IsOver(r)
        /\ row[r].status \in {"ready", "deleted"} \/ r \in unsure
    BY <1>0, <1>3 DEF ListedIsExpired, Listed, ListedIsOver
  <2>2. unsure \subseteq unsure'
    BY LateHoldGrows
  <2>3. ~Created(r) /\ ~StoppedNow(r)
    BY <1>0, <2>1 DEF Created, StoppedNow, StartedRow, IsOver
  <2>4. ByOthers(r) \/ KeepsRow(r) =>
          row'[r].expired /\ (row'[r].status \in {"ready", "deleted"} \/ r \in unsure')
    BY <2>1, <2>2, <2>3 DEF ByOthers, KeepsRow, KeepsRest, ExpiredNow, HoldSet, Deleted
  <2>5. ASSUME NEW w \in Workers, ByWorker(w, r)
        PROVE  row'[r].expired /\ (row'[r].status \in {"ready", "deleted"} \/ r \in unsure')
    <3>1. MarkedNow(w, r) => row'[r].expired /\ r \in unsure
      BY <1>0, <2>1 DEF MarkedNow, BatchFits, Exists
    <3>2. ReadyNow(w, r) => row'[r].expired /\ row'[r].status = "ready"
      BY <2>1 DEF ReadyNow, KeepsRest
    <3>3. FailedNow(w, r) => row'[r].expired /\ r \in unsure
      BY <1>0, <2>1 DEF FailedNow, KeepsRest, HandFits, Exists
    <3> QED
      BY <2>2, <2>4, <2>5, <3>1, <3>2, <3>3 DEF ByWorker
  <2> QED
    BY <2>4, <2>5, RowCases
<1> QED
  BY <1>1, <1>2, <1>3

LEMMA ReadyIsWholeStep ==
    ASSUME Shapes, CaptureInv, MediaInv, [Next]_vars
    PROVE  ReadyIsWhole'
<1> USE RecordingAssumption
<1>0. /\ ReadyIsWhole /\ ListedIsExpired
      /\ \A w \in Workers : BatchFits(w) /\ HandFits(w)
      /\ objects \in [Recordings -> SUBSET Artifacts]
  BY DEF Shapes, MediaInv, WorkersFit
<1> SUFFICES ASSUME NEW r \in Recordings, r \notin unsure',
                    row'[r].status = "ready", ~row'[r].expired
             PROVE  objects'[r] = Artifacts
  BY DEF ReadyIsWhole
<1>1. r \notin unsure
  BY LateHoldGrows
<1>2. row[r].status = "ready" /\ ~row[r].expired => objects[r] = Artifacts
  BY <1>0, <1>1 DEF ReadyIsWhole
<1>3. CASE KeepsRow(r) /\ UNCHANGED vars
  BY <1>2, <1>3 DEF KeepsRow, KeepsRest, vars
<1>4. CASE ByOthers(r) /\ OthersStep
  <2>1. row[r].status = "ready" /\ ~row[r].expired
    BY <1>4 DEF ByOthers, KeepsRow, KeepsRest, Created, StoppedNow, ExpiredNow, HoldSet, Deleted
  <2>2. ~Listed(r)
    BY <1>0, <2>1 DEF ListedIsExpired
  <2> QED
    BY <1>2, <1>4, <2>1, <2>2, OthersLeave
<1>5. ASSUME NEW w \in Workers, ByWorker(w, r), WorkerStep(w)
      PROVE  objects'[r] = Artifacts
  <2>1. CASE KeepsRow(r)
    <3>1. row[r].status = "ready" /\ ~row[r].expired
      BY <2>1 DEF KeepsRow, KeepsRest
    <3>2. objects'[r] = objects[r]
      BY <1>0, <1>5, <3>1, WorkerObjects DEF HandFits
    <3> QED
      BY <1>2, <3>1, <3>2
  <2>2. CASE ReadyNow(w, r)
    <3>1. objects' = objects /\ ~row[r].expired
      BY <2>2 DEF ReadyNow, KeepsRest
    <3>2. 1 .. NumArtifacts \subseteq objects[r]
      BY <1>0, <2>2, <3>1 DEF ReadyNow, HandFits
    <3> QED
      BY <1>0, <3>1, <3>2 DEF Artifacts
  <2> QED
    BY <1>5, <2>1, <2>2 DEF ByWorker, MarkedNow, FailedNow
<1> QED
  BY <1>3, <1>4, <1>5, RowCases

LEMMA MediaStep ==
    ASSUME OneWorker
    PROVE  Shapes /\ CaptureInv /\ MediaInv /\ [Next]_vars => MediaInv'
<1> SUFFICES ASSUME Shapes, CaptureInv, MediaInv, [Next]_vars PROVE MediaInv'
  OBVIOUS
<1>1. WorkersFit'
  <2>1. CASE UNCHANGED vars
    BY <2>1 DEF vars, MediaInv, WorkersFit, BatchFits, HandFits, FromTheFirst
  <2>2. CASE Next /\ OthersStep
    BY <2>2, OthersFit
  <2>3. ASSUME NEW w \in Workers, WorkerStep(w) PROVE WorkersFit'
    BY <2>3, WorkerFits
  <2> QED
    BY <2>1, <2>2, <2>3, WhoSteps DEF OthersStep
<1> QED
  BY <1>1, SpoolFollowsStep, SpoolIsKeptStep, ListedIsExpiredStep, ReadyIsWholeStep DEF MediaInv

LEMMA InitMedia == Init => CaptureInv /\ MediaInv
<1>1. Init => CaptureInv
  BY DEF Init, CaptureInv, StartedRow, StoppersFit, ListedIsOver, CaptureHasRecording, NoRow,
     IdleWorker, IdleCleaner
<1>2. Init => MediaInv
  BY DEF Init, MediaInv, WorkersFit, BatchFits, HandFits, FromTheFirst, SpoolFollows, SpoolIsKept,
     ListedIsExpired, Listed, ReadyIsWhole, NoRow, IdleWorker, IdleCleaner
<1> QED
  BY <1>1, <1>2

(* With one processing worker, whatever crashes, fails or is retried, and   *)
(* whatever the cleaners do meanwhile: a ready recording that has not       *)
(* expired has every object, one that may still be processed has its spool  *)
(* directory, one under way its capture.  An attempt's clean-up does not    *)
(* take the objects of the attempt that succeeded.                          *)
THEOREM MediaIsKeptAlways ==
    ASSUME OneWorker
    PROVE  Spec => []MediaIsKept
<1>1. CaptureInv /\ MediaInv => MediaIsKept
  BY DEF CaptureInv, MediaInv, MediaIsKept
<1>2. Shapes /\ CaptureInv /\ MediaInv /\ [Next]_vars => MediaInv'
  BY MediaStep
<1> QED
  BY <1>1, <1>2, InitShapes, NextShapes, InitMedia, CaptureStep, PTL DEF Spec

(* With one processing worker, no step takes a ready recording back, or     *)
(* tries again one that failed MaxAttempts times: who stops, lists or marks *)
(* it late changes another row, or none.                                    *)
THEOREM OutcomeIsFinalAlways ==
    ASSUME OneWorker
    PROVE  Spec => OutcomeIsFinal
<1> DEFINE Final == \A r \in Recordings \ unsure' :
                      /\ row[r].status = "ready" => row'[r].status \in {"ready", "deleted"}
                      /\ row[r].status = "failed" /\ row[r].attempts >= MaxAttempts
                            => row'[r].status = "failed"
<1>1. Shapes /\ CaptureInv /\ MediaInv /\ [Next]_vars => Final
  <2> SUFFICES ASSUME Shapes, CaptureInv, MediaInv, [Next]_vars, NEW r \in Recordings \ unsure'
               PROVE  /\ row[r].status = "ready" => row'[r].status \in {"ready", "deleted"}
                      /\ row[r].status = "failed" /\ row[r].attempts >= MaxAttempts
                            => row'[r].status = "failed"
    OBVIOUS
  <2> USE RecordingAssumption
  <2>0. /\ \A w \in Workers : BatchFits(w) /\ HandFits(w)
        /\ ListedIsExpired /\ StartedRow /\ row[r].attempts \in Nat /\ r \notin unsure
    BY LateHoldGrows DEF MediaInv, WorkersFit, CaptureInv, Shapes, Row
  <2>1. CASE KeepsRow(r)
    BY <2>1 DEF KeepsRow
  <2>2. CASE ByOthers(r)
    BY <2>0, <2>2 DEF ByOthers, KeepsRow, Created, StoppedNow, ExpiredNow, HoldSet, Deleted, StartedRow,
       ListedIsExpired
  <2>3. ASSUME NEW w \in Workers, ByWorker(w, r)
        PROVE  /\ row[r].status = "ready" => row'[r].status \in {"ready", "deleted"}
               /\ row[r].status = "failed" /\ row[r].attempts >= MaxAttempts
                     => row'[r].status = "failed"
    <3>1. MarkedNow(w, r) => ~(row[r].status = "failed" /\ row[r].attempts >= MaxAttempts)
                             /\ row[r].status # "ready"
      BY <2>0 DEF MarkedNow, BatchFits
    <3>2. ReadyNow(w, r) => row[r].status # "failed" /\ row'[r].status = "ready"
      BY <2>0 DEF ReadyNow, HandFits
    <3>3. FailedNow(w, r) => row[r].status # "ready" /\ row'[r].status = "failed"
      BY <2>0 DEF FailedNow, HandFits
    <3> QED
      BY <2>1, <2>3, <3>1, <3>2, <3>3 DEF ByWorker
  <2> QED
    BY <2>1, <2>2, <2>3, RowCases
<1>2. Shapes /\ CaptureInv /\ MediaInv /\ [Next]_vars => MediaInv'
  BY MediaStep
<1>3. Final => [Final]_vars
  OBVIOUS
<1> QED
  BY <1>1, <1>2, <1>3, InitShapes, NextShapes, InitMedia, CaptureStep, PTL DEF Spec, OutcomeIsFinal
=============================================================================
