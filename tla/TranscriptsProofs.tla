------------------------- MODULE TranscriptsProofs -------------------------
(***************************************************************************)
(* Machine-checked proofs about transcripts, for any number of transcripts,*)
(* jobs, requests, workers and faults: their jobs are the job ledger's, a  *)
(* job that is not over has its input, a deletion is final, and what is    *)
(* reported as cleaned up is gone.                                         *)
(*                                                                         *)
(* The inductive invariant follows the two halves of a transcript, its row *)
(* and its object, through the places where only one of them exists: an    *)
(* upload that waits for its row has its object and no row; a worker only  *)
(* ever holds tombstones, and when it is about to finalize one the object  *)
(* is gone.  What needs no answer to be certain is in Tidy; that a visible *)
(* row has its object (Kept) also needs that an INSERT whose answer was    *)
(* lost has not committed, as the upload's error handler takes for granted.*)
(***************************************************************************)
EXTENDS Transcripts, JobLedgerProofs

Tombstone(t) == row[t].exists /\ ~ row[t].visible

\* The row and the object of one transcript, seen by whoever works on it.
Halves(t) ==
  /\ upload[t] \in {"new", "insert"} => ~ row[t].exists
  /\ upload[t] = "insert" => object[t]
  /\ row[t].cleanup # "none" => Tombstone(t)
  /\ row[t].cleanup = "complete" => ~ object[t]
  /\ \A w \in Workers : t \in cleaner[w].about =>
        Tombstone(t) /\ cleaner[w].about = {t} /\ (cleaner[w].pc = "finalize" => ~ object[t])

Tidy ==
  /\ IInv /\ TTypeOK
  /\ \A t \in Transcripts : Halves(t)
  /\ \A j \in Jobs : Active(j) => Live(Input[job[j].request])

Kept ==
  /\ \A t \in Transcripts : upload[t] = "cleanup" => ~ row[t].exists
  /\ LiveHasObject

-----------------------------------------------------------------------------

\* Whatever happens to transcripts, their jobs only take steps of the ledger.
LEMMA LedgerStep == [TNext]_tvars => [Next]_vars
<1> SUFFICES ASSUME [TNext]_tvars PROVE [Next]_vars
  OBVIOUS
<1> USE DEF ledger, vars
<1>1. ASSUME NEW t \in Transcripts,
             \/ UploadObject(t) \/ InsertTranscript(t) \/ CleanUpUpload(t) \/ UploadAborted(t)
             \/ RequestTranscriptDeletion(t) \/ CleanupClock(t) \/ \E w \in Workers : Clean(w, t)
      PROVE  UNCHANGED vars
  BY <1>1 DEF UploadObject, InsertTranscript, CleanUpUpload, UploadAborted, RequestTranscriptDeletion,
              CleanupClock, Clean, ClaimTranscriptCleanup, DeleteTranscriptObject,
              FinalizeTranscriptCleanup, ReleaseTranscriptCleanup
<1>2. ASSUME NEW j \in Jobs, NEW k \in Keys \cup {NoKey}, NEW r \in Requests, EnqueueForTranscript(j, k, r)
      PROVE  [Next]_vars
  BY <1>2 DEF EnqueueForTranscript, Next
<1>3. CASE JobStep
  BY <1>3 DEF JobStep, Next
<1>4. CASE (\E r \in Requests : LoadTranscriptForJob(r)) \/ (\E w \in Workers : CleanerCrash(w)) \/ UNCHANGED tvars
  BY <1>4 DEF LoadTranscriptForJob, CleanerCrash, tvars
<1> QED
  BY <1>1, <1>2, <1>3, <1>4 DEF TNext

\* Only enqueue_job makes a job active, and no function changes what it is about.
LEMMA JobStepKeepsRequest ==
  ASSUME TypeOK, JobStep, NEW j \in Jobs, Active(j)'
  PROVE  Active(j) /\ job'[j].request = job[j].request
<1>0. job \in [Jobs -> JobRow]
  BY DEF TypeOK
<1>a. ASSUME NEW i \in Jobs, NEW new, job' = [job EXCEPT ![i] = new],
             job[i].status \in {"queued", "running"}, new.request = job[i].request
      PROVE  Active(j) /\ job'[j].request = job[j].request
  BY <1>0, <1>a DEF Active
<1>b. \A i \in Jobs : job[i] \in JobRow
  BY <1>0
<1>1. ASSUME NEW i \in Jobs, RequestJobCancellation(i)
      PROVE  Active(j) /\ job'[j].request = job[j].request
  <2>1. CASE CancelQueued(i)
    <3> DEFINE new == [job[i] EXCEPT !.status = "cancelled", !.cancelledBy = TRUE,
                                     !.finished = TRUE, !.lease = "none", !.backoff = FALSE]
    <3>1. job' = [job EXCEPT ![i] = new] /\ job[i].status = "queued"
      BY <2>1 DEF CancelQueued
    <3>2. new.request = job[i].request
      BY <1>b DEF JobRow
    <3> QED
      BY ONLY <1>a, <3>1, <3>2
  <2>2. CASE CancelRunning(i)
    <3> DEFINE new == [job[i] EXCEPT !.cancelRequested = TRUE, !.cancelledBy = TRUE]
    <3>1. job' = [job EXCEPT ![i] = new] /\ job[i].status = "running"
      BY <2>2 DEF CancelRunning
    <3>2. new.request = job[i].request
      BY <1>b DEF JobRow
    <3> QED
      BY ONLY <1>a, <3>1, <3>2
  <2> QED
    BY <1>1, <2>1, <2>2 DEF RequestJobCancellation
<1>2. ASSUME NEW w \in Workers, NEW i \in Jobs, ClaimNextJob(w, i)
      PROVE  Active(j) /\ job'[j].request = job[j].request
  BY <1>0, <1>2 DEF ClaimNextJob, Claimable, Active, JobRow
<1>c. ASSUME NEW i \in Jobs, NEW final
      PROVE  Retried(i, final).request = job[i].request
  BY <1>b DEF Retried, JobRow
<1>3. ASSUME NEW i \in Jobs, NEW n \in DOMAIN attempt[i], LeaseCall(i, n)
      PROVE  Active(j) /\ job'[j].request = job[j].request
  <2>0. job[i] \in JobRow /\ job[i].status = "running"
    BY <1>b, <1>3 DEF LeaseCall, WorkerHeartbeat, CompleteJob, CancelJob, FailJob, FailCancelled,
                      FailRetried, LeaseHeld
  <2>1. \E new : job' = [job EXCEPT ![i] = new] /\ new.request = job[i].request
    <3>1. CASE WorkerHeartbeat(i, n)
      <4> DEFINE new == [job[i] EXCEPT !.lease = "live"]
      <4>1. new.request = job[i].request
        BY <2>0 DEF JobRow
      <4>2. job' = [job EXCEPT ![i] = new]
        BY <3>1 DEF WorkerHeartbeat
      <4> HIDE DEF new
      <4> QED
        BY <4>1, <4>2
    <3>2. CASE CompleteJob(i, n)
      <4> DEFINE new(o) == [job[i] EXCEPT !.status = o, !.finished = TRUE, !.lease = "none"]
      <4>1. \A o : new(o).request = job[i].request
        BY <2>0 DEF JobRow
      <4>2. \E o \in {"success", "cancelled"} : job' = [job EXCEPT ![i] = new(o)]
        BY <3>2 DEF CompleteJob
      <4> HIDE DEF new
      <4> QED
        BY <4>1, <4>2
    <3>3. CASE CancelJob(i, n)
      <4> DEFINE new == [job[i] EXCEPT !.status = "cancelled", !.cancelRequested = TRUE, !.finished = TRUE,
                                     !.lease = "none", !.backoff = FALSE]
      <4>1. new.request = job[i].request
        BY <2>0 DEF JobRow
      <4>2. job' = [job EXCEPT ![i] = new]
        BY <3>3 DEF CancelJob
      <4> HIDE DEF new
      <4> QED
        BY <4>1, <4>2
    <3>4. CASE FailCancelled(i, n)
      <4> DEFINE new == [job[i] EXCEPT !.status = "cancelled", !.finished = TRUE, !.lease = "none",
                                     !.backoff = FALSE, !.worker = NoWorker]
      <4>1. new.request = job[i].request
        BY <2>0 DEF JobRow
      <4>2. job' = [job EXCEPT ![i] = new]
        BY <3>4 DEF FailCancelled
      <4> HIDE DEF new
      <4> QED
        BY <4>1, <4>2
    <3>5. ASSUME NEW final \in {"failure", "timeout"}, FailRetried(i, n, final)
          PROVE  \E new : job' = [job EXCEPT ![i] = new] /\ new.request = job[i].request
      BY <1>c, <3>5 DEF FailRetried
    <3> QED
      BY <1>3, <3>1, <3>2, <3>3, <3>4, <3>5 DEF LeaseCall, FailJob
  <2> QED
    BY ONLY <1>a, <2>0, <2>1
<1>4. ASSUME NEW S \in SUBSET Jobs, RecoverExpiredLeases(S)
      PROVE  Active(j) /\ job'[j].request = job[j].request
  <2>1. job'[j] = IF j \in S THEN Retried(j, "timeout") ELSE job[j]
    BY <1>4 DEF RecoverExpiredLeases
  <2> HIDE DEF Retried
  <2>2. j \in S => job[j].status = "running"
    BY <1>4 DEF RecoverExpiredLeases, Recoverable
  <2> QED
    BY <1>c, <2>1, <2>2 DEF Active
<1>5. ASSUME NEW i \in Jobs, LeaseExpires(i) \/ BackoffElapses(i)
      PROVE  Active(j) /\ job'[j].request = job[j].request
  BY <1>0, <1>5 DEF LeaseExpires, BackoffElapses, Active, JobRow
<1> QED
  BY <1>1, <1>2, <1>3, <1>4, <1>5 DEF JobStep

\* The rows, the objects, the requests and the workers keep their types.
LEMMA TTypeStep == TTypeOK /\ TypeOK' /\ [TNext]_tvars => TTypeOK'
<1> SUFFICES ASSUME TTypeOK, TypeOK', [TNext]_tvars PROVE TTypeOK'
  OBVIOUS
<1>0. TTypeOK /\ TypeOK' /\ MaxFaults \in Nat /\ row \in [Transcripts -> TranscriptRow]
  BY TranscriptAssumption DEF TTypeOK
<1>a. Fault \/ NoFault => faults' \in 0 .. MaxFaults
  BY <1>0 DEF Fault, NoFault, TTypeOK
<1>b. ASSUME NEW t \in Transcripts, NEW b \in BOOLEAN, Stored(t, b) \/ UNCHANGED object
      PROVE  object' \in [Transcripts -> BOOLEAN]
  BY <1>0, <1>b DEF Stored, TTypeOK
<1>c. ASSUME NEW t \in Transcripts, NEW pc \in {"insert", "cleanup", "over"}, UploadGoto(t, pc)
      PROVE  upload' \in [Transcripts -> {"new", "insert", "cleanup", "over"}]
  BY <1>0, <1>c DEF UploadGoto, TTypeOK
<1>d. ASSUME NEW w \in Workers, NEW pc \in {"idle", "finalize", "release"}, CleanerGoto(w, pc)
      PROVE  cleaner' \in [Workers -> [pc: {"idle", "delete", "finalize", "release", "dead"},
                                       about: SUBSET Transcripts]]
  BY <1>0, <1>d DEF CleanerGoto, Idle, TTypeOK
<1>e. ASSUME NEW t \in Transcripts, NEW new \in TranscriptRow, row' = [row EXCEPT ![t] = new]
      PROVE  row' \in [Transcripts -> TranscriptRow]
  BY <1>0, <1>e
<1>g. ASSUME NEW t \in Transcripts PROVE row[t] \in TranscriptRow
  BY <1>0, <1>g
<1>1. ASSUME NEW t \in Transcripts, UploadObject(t) PROVE TTypeOK'
  BY <1>0, <1>1, <1>a, <1>b, <1>c DEF UploadObject, TTypeOK
<1>2. ASSUME NEW t \in Transcripts, InsertTranscript(t) PROVE TTypeOK'
  <2>1. row' \in [Transcripts -> TranscriptRow]
    <3> DEFINE new == [row[t] EXCEPT !.exists = TRUE, !.visible = TRUE]
    <3>1. new \in TranscriptRow
      <4>1. row[t] \in TranscriptRow
        BY <1>g
      <4> QED
        BY <4>1 DEF TranscriptRow
    <3>2. row' = row \/ row' = [row EXCEPT ![t] = new]
      BY <1>2 DEF InsertTranscript
    <3> HIDE DEF new
    <3> QED
      BY <1>0, <3>1, <3>2
  <2>2. upload' \in [Transcripts -> {"new", "insert", "cleanup", "over"}] /\ (Fault \/ NoFault)
    BY <1>2, <1>c DEF InsertTranscript
  <2> QED
    BY <1>0, <1>2, <1>a, <2>1, <2>2 DEF InsertTranscript, TTypeOK
<1>3. ASSUME NEW t \in Transcripts, CleanUpUpload(t) PROVE TTypeOK'
  BY <1>0, <1>3, <1>a, <1>b, <1>c DEF CleanUpUpload, TTypeOK
<1>4. ASSUME NEW t \in Transcripts, UploadAborted(t) PROVE TTypeOK'
  BY <1>0, <1>4, <1>c DEF UploadAborted, TTypeOK
<1>5. ASSUME NEW t \in Transcripts, RequestTranscriptDeletion(t) PROVE TTypeOK'
  <2>1. [NoTranscript EXCEPT !.exists = TRUE, !.cleanup = "pending"] \in TranscriptRow
    BY DEF NoTranscript, TranscriptRow
  <2>2. row' \in [Transcripts -> TranscriptRow]
    BY <1>5, <1>e, <2>1 DEF RequestTranscriptDeletion
  <2>3. deletions' \in [Transcripts -> Nat]
    BY <1>0, <1>5 DEF RequestTranscriptDeletion, TTypeOK
  <2> QED
    BY <1>0, <1>5, <2>2, <2>3 DEF RequestTranscriptDeletion, TTypeOK
<1>6. ASSUME NEW t \in Transcripts, CleanupClock(t) PROVE TTypeOK'
  <2>1. row' \in [Transcripts -> TranscriptRow]
    <3>1. row' = [row EXCEPT ![t].backoff = FALSE] \/ row' = [row EXCEPT ![t].claimLive = FALSE]
      BY <1>6 DEF CleanupClock
    <3> QED
      BY <1>0, <3>1 DEF TranscriptRow
  <2>2. Fault \/ NoFault
    BY <1>6 DEF CleanupClock
  <2> QED
    BY <1>0, <1>6, <1>a, <2>1, <2>2 DEF CleanupClock, TTypeOK
<1>7. ASSUME NEW t \in Transcripts, NEW w \in Workers, ClaimTranscriptCleanup(w, t) PROVE TTypeOK'
  <2>1. row' \in [Transcripts -> TranscriptRow]
    <3>1. row' = [row EXCEPT ![t].claimedBy = w, ![t].claimLive = TRUE]
      BY <1>7 DEF ClaimTranscriptCleanup
    <3> QED
      BY <1>0, <3>1 DEF TranscriptRow
  <2>2. cleaner' \in [Workers -> [pc: {"idle", "delete", "finalize", "release", "dead"},
                                  about: SUBSET Transcripts]]
    BY <1>0, <1>7 DEF ClaimTranscriptCleanup, TTypeOK
  <2>3. Fault \/ NoFault
    BY <1>7 DEF ClaimTranscriptCleanup
  <2> QED
    BY <1>0, <1>7, <1>a, <2>1, <2>2, <2>3 DEF ClaimTranscriptCleanup, TTypeOK
<1>8. ASSUME NEW t \in Transcripts, NEW w \in Workers, DeleteTranscriptObject(w, t) PROVE TTypeOK'
  BY <1>0, <1>8, <1>a, <1>b, <1>d DEF DeleteTranscriptObject, TTypeOK
<1>h. ASSUME NEW t \in Transcripts
      PROVE  /\ [Unclaimed(t) EXCEPT !.cleanup = "complete"] \in TranscriptRow
             /\ [Unclaimed(t) EXCEPT !.backoff = TRUE] \in TranscriptRow
  <2>1. Unclaimed(t) \in TranscriptRow
    BY <1>g, <1>h DEF Unclaimed, TranscriptRow
  <2> QED
    BY <2>1 DEF TranscriptRow
<1>9. ASSUME NEW t \in Transcripts, NEW w \in Workers, FinalizeTranscriptCleanup(w, t) PROVE TTypeOK'
  <2>1. row' \in [Transcripts -> TranscriptRow] /\ (Fault \/ NoFault)
    BY <1>0, <1>9, <1>h DEF FinalizeTranscriptCleanup
  <2> QED
    BY <1>0, <1>9, <1>a, <1>d, <2>1 DEF FinalizeTranscriptCleanup, TTypeOK
<1>10. ASSUME NEW t \in Transcripts, NEW w \in Workers, ReleaseTranscriptCleanup(w, t) PROVE TTypeOK'
  <2>1. row' \in [Transcripts -> TranscriptRow] /\ (Fault \/ NoFault)
    BY <1>0, <1>10, <1>h DEF ReleaseTranscriptCleanup
  <2> QED
    BY <1>0, <1>10, <1>a, <1>d, <2>1 DEF ReleaseTranscriptCleanup, TTypeOK
<1>11. CASE \E r \in Requests : LoadTranscriptForJob(r)
  BY <1>0, <1>11 DEF LoadTranscriptForJob, TTypeOK
<1>12. CASE \E j \in Jobs, k \in Keys \cup {NoKey}, r \in Requests : EnqueueForTranscript(j, k, r)
  BY <1>0, <1>12 DEF EnqueueForTranscript, TTypeOK
<1>13. CASE JobStep
  BY <1>0, <1>13 DEF JobStep, TTypeOK
<1>14. CASE \E w \in Workers : CleanerCrash(w)
  BY <1>0, <1>14 DEF CleanerCrash, Idle, TTypeOK
<1>15. CASE UNCHANGED tvars
  BY <1>0, <1>15 DEF tvars, TTypeOK
<1> QED
  BY <1>1, <1>2, <1>3, <1>4, <1>5, <1>6, <1>7, <1>8, <1>9, <1>10, <1>11, <1>12, <1>13, <1>14, <1>15 DEF TNext, Clean

\* No step leaves a row or an object in a state its next reader misreads.
LEMMA HalvesStep == Tidy /\ [TNext]_tvars => \A x \in Transcripts : Halves(x)'
<1> SUFFICES ASSUME Tidy, [TNext]_tvars, NEW x \in Transcripts PROVE Halves(x)'
  OBVIOUS
<1>0. /\ \A y \in Transcripts : Halves(y)
      /\ row \in [Transcripts -> TranscriptRow] /\ object \in [Transcripts -> BOOLEAN]
      /\ upload \in [Transcripts -> {"new", "insert", "cleanup", "over"}]
      /\ cleaner \in [Workers -> [pc: {"idle", "delete", "finalize", "release", "dead"},
                                  about: SUBSET Transcripts]]
  BY DEF Tidy, TTypeOK
<1>1. ASSUME NEW t \in Transcripts, UploadObject(t) PROVE Halves(x)'
  BY <1>0, <1>1 DEF UploadObject, UploadGoto, Stored, Halves, Tombstone, TranscriptRow
<1>2. ASSUME NEW t \in Transcripts, InsertTranscript(t) PROVE Halves(x)'
  BY <1>0, <1>2 DEF InsertTranscript, UploadGoto, Halves, Tombstone, TranscriptRow
<1>3. ASSUME NEW t \in Transcripts, CleanUpUpload(t) PROVE Halves(x)'
  BY <1>0, <1>3 DEF CleanUpUpload, UploadGoto, Stored, Halves, Tombstone, TranscriptRow
<1>4. ASSUME NEW t \in Transcripts, UploadAborted(t) PROVE Halves(x)'
  BY <1>0, <1>4 DEF UploadAborted, UploadGoto, Halves, Tombstone, TranscriptRow
<1>5. ASSUME NEW t \in Transcripts, RequestTranscriptDeletion(t) PROVE Halves(x)'
  BY <1>0, <1>5 DEF RequestTranscriptDeletion, Live, NoTranscript, Halves, Tombstone, TranscriptRow
<1>6. ASSUME NEW t \in Transcripts, CleanupClock(t) PROVE Halves(x)'
  <2>1. /\ row'[x].exists = row[x].exists /\ row'[x].visible = row[x].visible
        /\ row'[x].cleanup = row[x].cleanup
    <3>1. row' = [row EXCEPT ![t].backoff = FALSE] \/ row' = [row EXCEPT ![t].claimLive = FALSE]
      BY <1>6 DEF CleanupClock
    <3> QED
      BY <1>0, <3>1 DEF TranscriptRow
  <2> QED
    BY <1>0, <1>6, <2>1 DEF CleanupClock, Halves, Tombstone
<1>7. ASSUME NEW t \in Transcripts, NEW w \in Workers, ClaimTranscriptCleanup(w, t) PROVE Halves(x)'
  <2>1. /\ row'[x].exists = row[x].exists /\ row'[x].visible = row[x].visible
        /\ row'[x].cleanup = row[x].cleanup
    <3>1. row' = [row EXCEPT ![t].claimedBy = w, ![t].claimLive = TRUE]
      BY <1>7 DEF ClaimTranscriptCleanup
    <3> QED
      BY <1>0, <3>1 DEF TranscriptRow
  <2>2. Tombstone(t)
    BY <1>0, <1>7 DEF ClaimTranscriptCleanup, Cleanable, Halves
  <2>3. cleaner' = [cleaner EXCEPT ![w] = [pc |-> "delete", about |-> {t}]] \/ cleaner' = cleaner
    BY <1>7 DEF ClaimTranscriptCleanup
  <2>4. upload' = upload /\ object' = object
    BY <1>7 DEF ClaimTranscriptCleanup
  <2> QED
    BY <1>0, <2>1, <2>2, <2>3, <2>4 DEF Halves, Tombstone
<1>8. ASSUME NEW t \in Transcripts, NEW w \in Workers, DeleteTranscriptObject(w, t) PROVE Halves(x)'
  <2>1. /\ t \in cleaner[w].about /\ cleaner[w].pc = "delete" /\ UNCHANGED <<row, upload>>
        /\ \/ Stored(t, FALSE) /\ cleaner' = [cleaner EXCEPT ![w] = [@ EXCEPT !.pc = "finalize"]]
           \/ (Stored(t, FALSE) \/ object' = object) /\ cleaner' = [cleaner EXCEPT ![w] = [@ EXCEPT !.pc = "release"]]
    BY <1>8 DEF DeleteTranscriptObject, CleanerGoto
  <2>2. Tombstone(t) /\ cleaner[w].about = {t}
    BY <1>0, <2>1 DEF Halves
  <2>3. /\ x # t => object'[x] = object[x]
        /\ object'[x] => object[x]
    BY <1>0, <2>1 DEF Stored
  <2>4. \A v \in Workers : cleaner'[v].about = cleaner[v].about
    <3>1. \E pc \in {"finalize", "release"} : cleaner' = [cleaner EXCEPT ![w] = [@ EXCEPT !.pc = pc]]
      BY <2>1
    <3>2. \A pc \in {"finalize", "release"} : [cleaner[w] EXCEPT !.pc = pc].about = cleaner[w].about
      BY <1>0
    <3> QED
      BY <1>0, <3>1, <3>2
  <2>5. \A v \in Workers : v # w => cleaner'[v] = cleaner[v]
    BY <1>0, <2>1
  <2>6. cleaner'[w].pc = "finalize" => ~ object'[t]
    BY <1>0, <2>1 DEF Stored
  <2> QED
    BY <1>0, <2>1, <2>2, <2>3, <2>4, <2>5, <2>6 DEF Halves, Tombstone
<1>9. ASSUME NEW t \in Transcripts, NEW w \in Workers, FinalizeTranscriptCleanup(w, t) PROVE Halves(x)'
  <2>1. /\ row'[x].exists = row[x].exists /\ row'[x].visible = row[x].visible
        /\ row'[x].cleanup \in {row[x].cleanup, "complete"} /\ (x # t => row'[x] = row[x])
    <3>1. row' = row \/ row' = [row EXCEPT ![t] = [Unclaimed(t) EXCEPT !.cleanup = "complete"]]
      BY <1>9 DEF FinalizeTranscriptCleanup
    <3>2. Unclaimed(t) \in TranscriptRow /\ Unclaimed(t).exists = row[t].exists
          /\ Unclaimed(t).visible = row[t].visible /\ Unclaimed(t).cleanup = row[t].cleanup
      <4>1. row[t] \in TranscriptRow
        BY <1>0
      <4> QED
        BY <4>1 DEF Unclaimed, TranscriptRow
    <3> QED
      BY <1>0, <3>1, <3>2 DEF TranscriptRow
  <2>2. /\ cleaner' = [cleaner EXCEPT ![w] = Idle] /\ upload' = upload /\ object' = object
        /\ cleaner[w].pc = "finalize" /\ t \in cleaner[w].about
    BY <1>9 DEF FinalizeTranscriptCleanup, CleanerGoto
  <2>3. Tombstone(t) /\ ~ object[t]
    BY <1>0, <2>2 DEF Halves
  <2> QED
    BY <1>0, <2>1, <2>2, <2>3 DEF Halves, Tombstone, Idle
<1>10. ASSUME NEW t \in Transcripts, NEW w \in Workers, ReleaseTranscriptCleanup(w, t) PROVE Halves(x)'
  <2>1. /\ row'[x].exists = row[x].exists /\ row'[x].visible = row[x].visible
        /\ row'[x].cleanup = row[x].cleanup /\ (x # t => row'[x] = row[x])
    <3>1. row' = row \/ row' = [row EXCEPT ![t] = [Unclaimed(t) EXCEPT !.backoff = TRUE]]
      BY <1>10 DEF ReleaseTranscriptCleanup
    <3>2. Unclaimed(t) \in TranscriptRow /\ Unclaimed(t).exists = row[t].exists
          /\ Unclaimed(t).visible = row[t].visible /\ Unclaimed(t).cleanup = row[t].cleanup
      <4>1. row[t] \in TranscriptRow
        BY <1>0
      <4> QED
        BY <4>1 DEF Unclaimed, TranscriptRow
    <3> QED
      BY <1>0, <3>1, <3>2 DEF TranscriptRow
  <2>2. /\ cleaner' = [cleaner EXCEPT ![w] = Idle] /\ upload' = upload /\ object' = object
        /\ cleaner[w].pc = "release" /\ t \in cleaner[w].about
    BY <1>10 DEF ReleaseTranscriptCleanup, CleanerGoto
  <2>3. Tombstone(t)
    BY <1>0, <2>2 DEF Halves
  <2> QED
    BY <1>0, <2>1, <2>2, <2>3 DEF Halves, Tombstone, Idle
<1>11. ASSUME NEW w \in Workers, CleanerCrash(w) PROVE Halves(x)'
  BY <1>0, <1>11 DEF CleanerCrash, Idle, Halves, Tombstone
<1>12. CASE \E r \in Requests : LoadTranscriptForJob(r)
  BY <1>0, <1>12 DEF LoadTranscriptForJob, Halves, Tombstone
<1>13. CASE \E j \in Jobs, k \in Keys \cup {NoKey}, r \in Requests : EnqueueForTranscript(j, k, r)
  BY <1>0, <1>13 DEF EnqueueForTranscript, Halves, Tombstone
<1>14. CASE JobStep
  BY <1>0, <1>14 DEF JobStep, Halves, Tombstone
<1>15. CASE UNCHANGED tvars
  BY <1>0, <1>15 DEF tvars, Halves, Tombstone
<1> QED
  BY <1>1, <1>2, <1>3, <1>4, <1>5, <1>6, <1>7, <1>8, <1>9, <1>10, <1>11, <1>12, <1>13, <1>14, <1>15
     DEF TNext, Clean

\* The jobs that are not over keep their transcript visible: a deletion looks
\* for them under FOR UPDATE, and enqueue_job looks at the tombstone again.
LEMMA JobsStep ==
  Tidy /\ [TNext]_tvars => \A j \in Jobs : Active(j)' => Live(Input[job[j].request])'
<1> SUFFICES ASSUME Tidy, [TNext]_tvars, NEW j \in Jobs, Active(j)'
             PROVE  Live(Input[job[j].request])'
  OBVIOUS
<1> DEFINE T == Input[job[j].request]
<1>0. /\ job \in [Jobs -> JobRow] /\ row \in [Transcripts -> TranscriptRow] /\ TypeOK
      /\ \A i \in Jobs : Active(i) => Live(Input[job[i].request])
      /\ \A t \in Transcripts : Halves(t)
      /\ \A i \in Jobs : Input[job[i].request] \in Transcripts
  BY TranscriptAssumption DEF Tidy, TTypeOK, TypeOK, JobRow
<1>a. ASSUME Active(j), job'[j].request = job[j].request, Live(T)'
      PROVE  Live(Input[job[j].request])'
  BY <1>a DEF Live
<1>b. ASSUME UNCHANGED ledger, \A t \in Transcripts : Live(t) => Live(t)'
      PROVE  Live(Input[job[j].request])'
  BY <1>0, <1>b DEF ledger, Active
<1>1. ASSUME NEW t \in Transcripts, UploadObject(t) \/ CleanUpUpload(t) \/ UploadAborted(t)
                                    \/ \E w \in Workers : DeleteTranscriptObject(w, t)
      PROVE  Live(Input[job[j].request])'
  BY <1>1, <1>b DEF UploadObject, CleanUpUpload, UploadAborted, DeleteTranscriptObject, Live
<1>2. ASSUME NEW t \in Transcripts, InsertTranscript(t)
      PROVE  Live(Input[job[j].request])'
  BY <1>0, <1>2, <1>b DEF InsertTranscript, Live, TranscriptRow
<1>3. ASSUME NEW t \in Transcripts, RequestTranscriptDeletion(t)
      PROVE  Live(Input[job[j].request])'
  <2>1. Active(j) /\ job' = job
    BY <1>3 DEF RequestTranscriptDeletion, ledger, Active
  <2>2. T # t
    BY <1>0, <1>3, <2>1 DEF RequestTranscriptDeletion, JobsOf, Active
  <2>3. row'[T] = row[T]
    BY <1>0, <1>3, <2>2 DEF RequestTranscriptDeletion
  <2> QED
    BY <1>0, <2>1, <2>3 DEF Live
<1>4. ASSUME NEW t \in Transcripts, NEW w \in Workers,
             ClaimTranscriptCleanup(w, t)
      PROVE  Live(Input[job[j].request])'
  <2>1. row' = [row EXCEPT ![t].claimedBy = w, ![t].claimLive = TRUE]
    BY <1>4 DEF ClaimTranscriptCleanup
  <2>2. \A x \in Transcripts : row'[x].exists = row[x].exists /\ row'[x].visible = row[x].visible
    BY <1>0, <2>1 DEF TranscriptRow
  <2>3. UNCHANGED ledger
    BY <1>4 DEF ClaimTranscriptCleanup
  <2> QED
    BY <1>b, <2>2, <2>3 DEF Live
<1>5. ASSUME NEW t \in Transcripts, NEW w \in Workers,
             FinalizeTranscriptCleanup(w, t) \/ ReleaseTranscriptCleanup(w, t)
      PROVE  Live(Input[job[j].request])'
  <2>1. Tombstone(t) /\ UNCHANGED ledger
    BY <1>0, <1>5 DEF FinalizeTranscriptCleanup, ReleaseTranscriptCleanup, Halves
  <2>2. \A x \in Transcripts : x # t => row'[x] = row[x]
    BY <1>0, <1>5 DEF FinalizeTranscriptCleanup, ReleaseTranscriptCleanup
  <2> QED
    BY <1>b, <2>1, <2>2 DEF Live, Tombstone
<1>6. ASSUME NEW i \in Jobs, NEW k \in Keys \cup {NoKey}, NEW r \in Requests, EnqueueForTranscript(i, k, r)
      PROVE  Live(Input[job[j].request])'
  <2>1. CASE Live(Input[r]) /\ InsertJob(i, k, r)
    <3>1. CASE j = i
      <4>1. job'[j].request = r /\ row' = row
        BY <1>0, <1>6, <2>1, <3>1 DEF EnqueueForTranscript, InsertJob, FreshRow
      <4> QED
        BY <2>1, <4>1 DEF Live
    <3>2. CASE j # i
      <4>1. job'[j] = job[j] /\ row' = row
        BY <1>0, <1>6, <2>1, <3>2 DEF EnqueueForTranscript, InsertJob
      <4> QED
        BY <1>0, <4>1 DEF Live, Active
    <3> QED
      BY <3>1, <3>2
  <2>2. CASE job' = job
    BY <1>0, <1>6, <2>2 DEF EnqueueForTranscript, Live, Active
  <2> QED
    BY <1>6, <2>1, <2>2 DEF EnqueueForTranscript, EnqueueJob, ReplayJob, ledger
<1>7. CASE JobStep
  <2>1. Active(j) /\ job'[j].request = job[j].request
    BY <1>0, <1>7, JobStepKeepsRequest
  <2>2. row' = row
    BY <1>7 DEF JobStep
  <2> QED
    BY <1>0, <2>1, <2>2 DEF Live
<1>8. CASE (\E r \in Requests : LoadTranscriptForJob(r)) \/ (\E w \in Workers : CleanerCrash(w)) \/ UNCHANGED tvars
  BY <1>8, <1>b DEF LoadTranscriptForJob, CleanerCrash, tvars, Live
<1>9. ASSUME NEW t \in Transcripts, CleanupClock(t)
      PROVE  Live(Input[job[j].request])'
  <2>1. \/ row' = [row EXCEPT ![t].backoff = FALSE] \/ row' = [row EXCEPT ![t].claimLive = FALSE]
    BY <1>9 DEF CleanupClock
  <2>2. \A x \in Transcripts : row'[x].exists = row[x].exists /\ row'[x].visible = row[x].visible
    BY <1>0, <2>1 DEF TranscriptRow
  <2>3. UNCHANGED ledger
    BY <1>9 DEF CleanupClock
  <2> QED
    BY <1>b, <2>2, <2>3 DEF Live
<1> QED
  BY <1>1, <1>2, <1>3, <1>4, <1>5, <1>6, <1>7, <1>8, <1>9 DEF TNext, Clean

\* Every step keeps the invariant.
LEMMA TidyStep == Tidy /\ [TNext]_tvars => Tidy'
<1> SUFFICES ASSUME Tidy, [TNext]_tvars PROVE Tidy'
  OBVIOUS
<1>1. IInv'
  BY LedgerStep, NextIInv DEF Tidy
<1>2. TTypeOK'
  BY <1>1, TTypeStep DEF Tidy, IInv
<1>3. \A t \in Transcripts : Halves(t)'
  BY HalvesStep
<1>4. \A j \in Jobs : Active(j)' => Live(Input[job[j].request])'
  BY JobsStep
<1> QED
  BY <1>1, <1>2, <1>3, <1>4 DEF Tidy

\* Before the first upload there is nothing, and no job.
LEMMA TidyInit == TInit => Tidy /\ Kept
<1> SUFFICES ASSUME TInit PROVE Tidy /\ Kept
  OBVIOUS
<1>0. IInv /\ TypeOK
  BY InitIInv DEF TInit, IInv
<1>1. NoTranscript \in TranscriptRow /\ ~ NoTranscript.exists /\ ~ NoTranscript.visible
      /\ NoTranscript.cleanup = "none"
  BY DEF NoTranscript, TranscriptRow
<1>2. TTypeOK
  BY <1>0, <1>1, TranscriptAssumption DEF TInit, TTypeOK, Idle
<1>3. \A t \in Transcripts : Halves(t) /\ ~ Live(t)
  BY <1>1 DEF TInit, Halves, Idle, Live
<1>4. \A j \in Jobs : ~ Active(j)
  <2>1. \A r \in Requests : FreshRow(NoKey, r) \in JobRow
    BY DEF FreshRow, JobRow, Status, Terminal
  <2>2. AnyRequest \in Requests
    BY BudgetAssumption DEF AnyRequest
  <2>3. [FreshRow(NoKey, AnyRequest) EXCEPT !.status = "absent"].status = "absent"
    BY DEF FreshRow
  <2> QED
    BY <2>3 DEF TInit, Init, Active
<1>5. Kept
  BY <1>3 DEF TInit, Kept, LiveHasObject
<1> QED
  BY <1>0, <1>2, <1>3, <1>4, <1>5 DEF Tidy

\* The uploads' error handler removes an object only if its row was not inserted.
LEMMA KeptStep == ~ LostCommits /\ Tidy /\ Kept /\ [TNext]_tvars => Kept'
<1> SUFFICES ASSUME ~ LostCommits, Tidy, Kept, [TNext]_tvars, NEW x \in Transcripts
             PROVE  (upload[x] = "cleanup" => ~ row[x].exists)' /\ (Live(x) => object[x])'
  BY DEF Kept, LiveHasObject
<1>0. /\ upload[x] = "cleanup" => ~ row[x].exists
      /\ Live(x) => object[x]
      /\ Halves(x)
      /\ row \in [Transcripts -> TranscriptRow] /\ object \in [Transcripts -> BOOLEAN]
      /\ upload \in [Transcripts -> {"new", "insert", "cleanup", "over"}]
  BY DEF Kept, LiveHasObject, Tidy, TTypeOK
<1>a. ASSUME UNCHANGED <<upload, object>>, row'[x].exists = row[x].exists, row'[x].visible = row[x].visible
      PROVE  (upload[x] = "cleanup" => ~ row[x].exists)' /\ (Live(x) => object[x])'
  BY <1>0, <1>a DEF Live
<1> DEFINE Goal == (upload[x] = "cleanup" => ~ row[x].exists)' /\ (Live(x) => object[x])'
<1>1. ASSUME NEW t \in Transcripts, UploadObject(t) PROVE Goal
  BY <1>0, <1>1 DEF UploadObject, UploadGoto, Stored, Halves, Live
<1>2. ASSUME NEW t \in Transcripts, InsertTranscript(t) PROVE Goal
  <2>1. x # t => row'[x] = row[x] /\ upload'[x] = upload[x]
    BY <1>0, <1>2 DEF InsertTranscript, UploadGoto
  <2>2. x = t => upload[x] = "insert" /\ (upload'[x] = "over" \/ row'[x] = row[x])
    BY <1>0, <1>2 DEF InsertTranscript, UploadGoto
  <2>3. object' = object
    BY <1>2 DEF InsertTranscript
  <2> QED
    BY <1>0, <2>1, <2>2, <2>3 DEF Halves, Live
<1>3. ASSUME NEW t \in Transcripts, CleanUpUpload(t) PROVE Goal
  BY <1>0, <1>3 DEF CleanUpUpload, UploadGoto, Stored, Live
<1>4. ASSUME NEW t \in Transcripts, UploadAborted(t) PROVE Goal
  BY <1>0, <1>4 DEF UploadAborted, UploadGoto, Live
<1>5. ASSUME NEW t \in Transcripts, RequestTranscriptDeletion(t) PROVE Goal
  <2>1. x = t => row[x].exists /\ ~ row'[x].visible
    BY <1>0, <1>5 DEF RequestTranscriptDeletion, Live, NoTranscript
  <2>2. x # t => row'[x] = row[x]
    BY <1>0, <1>5 DEF RequestTranscriptDeletion
  <2>3. UNCHANGED <<upload, object>>
    BY <1>5 DEF RequestTranscriptDeletion
  <2> QED
    BY <1>0, <2>1, <2>2, <2>3 DEF Live
<1>6. ASSUME NEW t \in Transcripts, CleanupClock(t) PROVE Goal
  <2>1. row' = [row EXCEPT ![t].backoff = FALSE] \/ row' = [row EXCEPT ![t].claimLive = FALSE]
    BY <1>6 DEF CleanupClock
  <2>2. row'[x].exists = row[x].exists /\ row'[x].visible = row[x].visible
    BY <1>0, <2>1 DEF TranscriptRow
  <2> QED
    BY <1>6, <1>a, <2>2 DEF CleanupClock
<1>7. ASSUME NEW t \in Transcripts, NEW w \in Workers, ClaimTranscriptCleanup(w, t) PROVE Goal
  <2>1. row' = [row EXCEPT ![t].claimedBy = w, ![t].claimLive = TRUE]
    BY <1>7 DEF ClaimTranscriptCleanup
  <2>2. row'[x].exists = row[x].exists /\ row'[x].visible = row[x].visible
    BY <1>0, <2>1 DEF TranscriptRow
  <2> QED
    BY <1>7, <1>a, <2>2 DEF ClaimTranscriptCleanup
<1>8. ASSUME NEW t \in Transcripts, NEW w \in Workers, DeleteTranscriptObject(w, t) PROVE Goal
  <2>1. Halves(t) /\ t \in cleaner[w].about
    BY <1>8 DEF DeleteTranscriptObject, Tidy
  <2>2. x # t => object'[x] = object[x]
    BY <1>0, <1>8 DEF DeleteTranscriptObject, Stored
  <2>3. UNCHANGED <<row, upload>>
    BY <1>8 DEF DeleteTranscriptObject
  <2> QED
    BY <1>0, <2>1, <2>2, <2>3 DEF Halves, Tombstone, Live
<1>9. ASSUME NEW t \in Transcripts, NEW w \in Workers,
             FinalizeTranscriptCleanup(w, t) \/ ReleaseTranscriptCleanup(w, t)
      PROVE  Goal
  <2>1. \/ row' = row \/ row' = [row EXCEPT ![t] = [Unclaimed(t) EXCEPT !.cleanup = "complete"]]
        \/ row' = [row EXCEPT ![t] = [Unclaimed(t) EXCEPT !.backoff = TRUE]]
    BY <1>9 DEF FinalizeTranscriptCleanup, ReleaseTranscriptCleanup
  <2>2. Unclaimed(t) \in TranscriptRow /\ Unclaimed(t).exists = row[t].exists
        /\ Unclaimed(t).visible = row[t].visible
    <3>1. row[t] \in TranscriptRow
      BY <1>0
    <3> QED
      BY <3>1 DEF Unclaimed, TranscriptRow
  <2>3. row'[x].exists = row[x].exists /\ row'[x].visible = row[x].visible
    BY <1>0, <2>1, <2>2 DEF TranscriptRow
  <2> QED
    BY <1>9, <1>a, <2>3 DEF FinalizeTranscriptCleanup, ReleaseTranscriptCleanup
<1>10. CASE \E r \in Requests : LoadTranscriptForJob(r)
  BY <1>10, <1>a DEF LoadTranscriptForJob
<1>11. CASE \E j \in Jobs, k \in Keys \cup {NoKey}, r \in Requests : EnqueueForTranscript(j, k, r)
  BY <1>11, <1>a DEF EnqueueForTranscript
<1>12. CASE JobStep
  BY <1>12, <1>a DEF JobStep
<1>13. CASE \E w \in Workers : CleanerCrash(w)
  BY <1>13, <1>a DEF CleanerCrash
<1>14. CASE UNCHANGED tvars
  BY <1>14, <1>a DEF tvars
<1> QED
  BY <1>1, <1>2, <1>3, <1>4, <1>5, <1>6, <1>7, <1>8, <1>9, <1>10, <1>11, <1>12, <1>13, <1>14
     DEF TNext, Clean

-----------------------------------------------------------------------------
(* The theorems.                                                            *)

\* Beside uploads, deletions and cleanups the jobs behave as the job ledger
\* alone: what JobLedgerProofs proves of Spec holds of them here.
THEOREM JobsAreLedgers == TSpec => Spec
  BY LedgerStep, PTL DEF TSpec, TInit, Spec

\* The invariant of rows, objects and those who work on them.
THEOREM TidyAlways == TSpec => []Tidy
  BY TidyInit, TidyStep, PTL DEF TSpec

\* A job that is queued or running, or will be retried, has a visible transcript
\* although create_job's own check is stale when enqueue_job runs, and
\* cleanup_state is 'complete' only when the bytes are gone, also with answers
\* lost and claims taken over.
THEOREM NeverMisreported ==
  TSpec => [](CompleteMeansGone /\ \A j \in Jobs : Active(j) => Live(Input[job[j].request]))
<1>1. Tidy => CompleteMeansGone /\ \A j \in Jobs : Active(j) => Live(Input[job[j].request])
  BY DEF Tidy, Halves, CompleteMeansGone
<1> QED
  BY <1>1, TidyAlways, PTL

\* A transcript that is listed or that a job will read has its object, and one
\* whose deletion is reported complete has none, provided that an INSERT of an
\* upload that raises has not committed.
THEOREM KeptTranscripts == ~ LostCommits => (TSpec => []TranscriptsAreKept)
<1> SUFFICES ASSUME ~ LostCommits PROVE TSpec => []TranscriptsAreKept
  OBVIOUS
<1>1. Tidy /\ Kept => TranscriptsAreKept
  <2> SUFFICES ASSUME Tidy, Kept PROVE TranscriptsAreKept
    OBVIOUS
  <2>1. TTypeOK /\ job \in [Jobs -> JobRow]
    BY DEF Tidy, TTypeOK, TypeOK
  <2>2. \A j \in Jobs : Input[job[j].request] \in Transcripts
    BY <2>1, TranscriptAssumption DEF JobRow
  <2>3. ActiveJobHasInput
    BY <2>2 DEF ActiveJobHasInput, Tidy, Kept, LiveHasObject
  <2> QED
    BY <2>1, <2>3 DEF TranscriptsAreKept, Tidy, Kept, Halves, CompleteMeansGone
<1>2. TInit => Tidy /\ Kept
  BY TidyInit
<1>3. (Tidy /\ Kept) /\ [TNext]_tvars => (Tidy /\ Kept)'
  BY TidyStep, KeptStep
<1> QED
  BY <1>1, <1>2, <1>3, PTL DEF TSpec

\* A deletion is final: the tombstone stays, a reconciled one is not scheduled
\* again, and a replayed request leaves no second transcript_delete event.
THEOREM FinalDeletion == TSpec => DeletionIsFinal
<1>1. Tidy /\ [TNext]_tvars =>
        [\A t \in Transcripts : row[t].exists /\ ~ row[t].visible =>
            /\ row'[t].exists /\ ~ row'[t].visible
            /\ deletions'[t] = deletions[t]
            /\ row[t].cleanup = "complete" => row'[t].cleanup = "complete"]_tvars
  <2> SUFFICES ASSUME Tidy, TNext, NEW x \in Transcripts, Tombstone(x)
               PROVE  /\ Tombstone(x)' /\ deletions'[x] = deletions[x]
                      /\ row[x].cleanup = "complete" => row'[x].cleanup = "complete"
    BY DEF Tombstone
  <2> DEFINE Goal == /\ Tombstone(x)' /\ deletions'[x] = deletions[x]
                     /\ row[x].cleanup = "complete" => row'[x].cleanup = "complete"
  <2>0. /\ Halves(x) /\ row \in [Transcripts -> TranscriptRow] /\ deletions \in [Transcripts -> Nat]
    BY DEF Tidy, TTypeOK
  <2>a. ASSUME UNCHANGED deletions, row'[x].exists = row[x].exists, row'[x].visible = row[x].visible,
               row'[x].cleanup = row[x].cleanup
        PROVE  Goal
    BY <2>a DEF Tombstone
  <2>1. ASSUME NEW t \in Transcripts, InsertTranscript(t) PROVE Goal
    <3>1. row'[x] = row[x] /\ deletions' = deletions
      BY <2>0, <2>1 DEF InsertTranscript, Halves, Tombstone
    <3> QED
      BY <2>a, <3>1
  <2>2. ASSUME NEW t \in Transcripts, RequestTranscriptDeletion(t) PROVE Goal
    <3>1. row'[x] = row[x] /\ deletions'[x] = deletions[x]
      BY <2>0, <2>2 DEF RequestTranscriptDeletion, Live, Tombstone
    <3> QED
      BY <3>1 DEF Tombstone
  <2>3. ASSUME NEW t \in Transcripts, CleanupClock(t) PROVE Goal
    <3>1. row' = [row EXCEPT ![t].backoff = FALSE] \/ row' = [row EXCEPT ![t].claimLive = FALSE]
      BY <2>3 DEF CleanupClock
    <3>2. /\ row'[x].exists = row[x].exists /\ row'[x].visible = row[x].visible
          /\ row'[x].cleanup = row[x].cleanup
      BY <2>0, <3>1 DEF TranscriptRow
    <3> QED
      BY <2>3, <2>a, <3>2 DEF CleanupClock
  <2>4. ASSUME NEW t \in Transcripts, NEW w \in Workers, ClaimTranscriptCleanup(w, t) PROVE Goal
    <3>1. row' = [row EXCEPT ![t].claimedBy = w, ![t].claimLive = TRUE]
      BY <2>4 DEF ClaimTranscriptCleanup
    <3>2. /\ row'[x].exists = row[x].exists /\ row'[x].visible = row[x].visible
          /\ row'[x].cleanup = row[x].cleanup
      BY <2>0, <3>1 DEF TranscriptRow
    <3> QED
      BY <2>4, <2>a, <3>2 DEF ClaimTranscriptCleanup
  <2>5. ASSUME NEW t \in Transcripts, NEW w \in Workers,
               FinalizeTranscriptCleanup(w, t) \/ ReleaseTranscriptCleanup(w, t)
        PROVE  Goal
    <3>1. Unclaimed(t) \in TranscriptRow /\ Unclaimed(t).exists = row[t].exists
          /\ Unclaimed(t).visible = row[t].visible /\ Unclaimed(t).cleanup = row[t].cleanup
      <4>1. row[t] \in TranscriptRow
        BY <2>0
      <4> QED
        BY <4>1 DEF Unclaimed, TranscriptRow
    <3>2. \/ row' = row
          \/ row' = [row EXCEPT ![t] = [Unclaimed(t) EXCEPT !.cleanup = "complete"]]
          \/ row[t].cleanup = "pending" /\ row' = [row EXCEPT ![t] = [Unclaimed(t) EXCEPT !.backoff = TRUE]]
      BY <2>5 DEF FinalizeTranscriptCleanup, ReleaseTranscriptCleanup, ClaimKept
    <3>3. /\ row'[x].exists = row[x].exists /\ row'[x].visible = row[x].visible
          /\ row[x].cleanup = "complete" => row'[x].cleanup = "complete"
      BY <2>0, <3>1, <3>2 DEF TranscriptRow
    <3>4. deletions' = deletions
      BY <2>5 DEF FinalizeTranscriptCleanup, ReleaseTranscriptCleanup
    <3> QED
      BY <3>3, <3>4 DEF Tombstone
  <2>6. ASSUME NEW t \in Transcripts, NEW w \in Workers,
               DeleteTranscriptObject(w, t)
        PROVE  Goal
    BY <2>6, <2>a DEF DeleteTranscriptObject
  <2>7. ASSUME NEW t \in Transcripts, UploadObject(t) \/ CleanUpUpload(t) \/ UploadAborted(t)
        PROVE  Goal
    BY <2>7, <2>a DEF UploadObject, CleanUpUpload, UploadAborted
  <2>8. CASE \E r \in Requests : LoadTranscriptForJob(r)
    BY <2>8, <2>a DEF LoadTranscriptForJob
  <2>9. CASE \E j \in Jobs, k \in Keys \cup {NoKey}, r \in Requests : EnqueueForTranscript(j, k, r)
    BY <2>9, <2>a DEF EnqueueForTranscript
  <2>10. CASE JobStep
    BY <2>10, <2>a DEF JobStep
  <2>11. CASE \E w \in Workers : CleanerCrash(w)
    BY <2>11, <2>a DEF CleanerCrash
  <2> QED
    BY <2>1, <2>2, <2>3, <2>4, <2>5, <2>6, <2>7, <2>8, <2>9, <2>10, <2>11 DEF TNext, Clean
<1> QED
  BY <1>1, TidyAlways, PTL DEF TSpec, DeletionIsFinal
=============================================================================
