---------------------------- MODULE Transcripts ----------------------------
(***************************************************************************)
(* Transcripts, the inputs of jobs: their upload (webapp/hosted/           *)
(* transcripts.py), their logical deletion and the worker's reconciliation *)
(* of the private Storage object (migration 013 and                        *)
(* post_call_orchestrator.py), beside the jobs that read them.             *)
(*                                                                         *)
(* The row and the object share no transaction.  Every database function   *)
(* and every Storage call is one action; the API checks a transcript in a  *)
(* statement of its own before it calls enqueue_job, so a deletion may     *)
(* come between the two.  Jobs are the module JobLedger.                   *)
(***************************************************************************)
EXTENDS JobLedger

CONSTANTS
    Transcripts,  \* the ids of uploads: every upload has a fresh uuid
    Input,        \* the transcript each request is about
    MaxFaults,    \* bound: calls that fail, lose their answer or outlast a lease
    LostCommits   \* whether the upload's INSERT may commit and its answer be lost

ASSUME TranscriptAssumption ==
    /\ Input \in [Requests -> Transcripts]
    /\ MaxFaults \in Nat
    /\ LostCommits \in BOOLEAN

VARIABLES
    row,       \* public.transcripts
    object,    \* whether Storage holds the transcript's object
    upload,    \* where the upload request of each transcript is
    loaded,    \* the POST /jobs requests that have read their transcript
    cleaner,   \* the transcript cleanup of each worker process
    deletions, \* transcript_delete events in audit_events
    faults     \* how many faults have happened

ledger == <<job, attempt, acks, audit>>

tvars == <<ledger, row, object, upload, loaded, cleaner, deletions, faults>>

\* The columns of a row; visible is tombstoned_at IS NULL.
TranscriptRow ==
    [exists: BOOLEAN, visible: BOOLEAN, cleanup: {"none", "pending", "complete"},
     claimedBy: Workers \cup {NoWorker}, claimLive: BOOLEAN, backoff: BOOLEAN]

NoTranscript ==
    [exists |-> FALSE, visible |-> FALSE, cleanup |-> "none",
     claimedBy |-> NoWorker, claimLive |-> FALSE, backoff |-> FALSE]

Idle == [pc |-> "idle", about |-> {}]

TTypeOK ==
    /\ TypeOK
    /\ row \in [Transcripts -> TranscriptRow]
    /\ object \in [Transcripts -> BOOLEAN]
    /\ upload \in [Transcripts -> {"new", "insert", "cleanup", "over"}]
    /\ loaded \subseteq Requests
    /\ cleaner \in [Workers -> [pc: {"idle", "delete", "finalize", "release", "dead"},
                                about: SUBSET Transcripts]]
    /\ deletions \in [Transcripts -> Nat]
    /\ faults \in 0..MaxFaults

TInit ==
    /\ Init
    /\ row = [t \in Transcripts |-> NoTranscript]
    /\ object = [t \in Transcripts |-> FALSE]
    /\ upload = [t \in Transcripts |-> "new"]
    /\ loaded = {}
    /\ cleaner = [w \in Workers |-> Idle]
    /\ deletions = [t \in Transcripts |-> 0]
    /\ faults = 0

Live(t) == row[t].exists /\ row[t].visible

Active(j) == job[j].status \in {"queued", "running"}

\* The jobs that read transcript t.
JobsOf(t) == {j \in Jobs : job[j].status # "absent" /\ Input[job[j].request] = t}

NoFault == UNCHANGED faults

Fault == faults < MaxFaults /\ faults' = faults + 1

Stored(t, b) == object' = [object EXCEPT ![t] = b]

-----------------------------------------------------------------------------
(***************************************************************************)
(* Upload: the object first, the row second.                               *)
(***************************************************************************)

UploadGoto(t, pc) == upload' = [upload EXCEPT ![t] = pc]

\* backend.upload: stored; or the content turns out invalid while it streams,
\* and what was stored of it is to be removed; or Storage fails, and the request
\* ends with whatever Storage has made of it.
UploadObject(t) ==
    /\ upload[t] = "new"
    /\ \/ Stored(t, TRUE) /\ UploadGoto(t, "insert") /\ NoFault
       \/ Stored(t, TRUE) /\ UploadGoto(t, "cleanup") /\ NoFault
       \/ (Stored(t, TRUE) \/ UNCHANGED object) /\ UploadGoto(t, "over") /\ Fault
    /\ UNCHANGED <<ledger, row, loaded, cleaner, deletions>>

\* INSERT INTO transcripts, after the check that the account is still there.  A
\* transaction that fails has not inserted, unless only its answer was lost.
InsertTranscript(t) ==
    LET inserted == [row EXCEPT ![t].exists = TRUE, ![t].visible = TRUE]
    IN
    /\ upload[t] = "insert"
    /\ \/ row' = inserted /\ UploadGoto(t, "over") /\ NoFault
       \/ UNCHANGED row /\ UploadGoto(t, "cleanup") /\ NoFault
       \/ LostCommits /\ row' = inserted /\ UploadGoto(t, "cleanup") /\ Fault
    /\ UNCHANGED <<ledger, object, loaded, cleaner, deletions>>

\* backend.delete in the exception handlers of the upload; its failure is logged.
CleanUpUpload(t) ==
    /\ upload[t] = "cleanup"
    /\ \/ Stored(t, FALSE) /\ NoFault
       \/ UNCHANGED object /\ Fault
    /\ UploadGoto(t, "over")
    /\ UNCHANGED <<ledger, row, loaded, cleaner, deletions>>

\* The API process dies, or the client disconnects, in the middle of the request.
UploadAborted(t) ==
    /\ upload[t] \in {"insert", "cleanup"}
    /\ UploadGoto(t, "over")
    /\ UNCHANGED <<ledger, row, object, loaded, cleaner, deletions, faults>>

-----------------------------------------------------------------------------
(***************************************************************************)
(* Jobs on a transcript, and its deletion.                                 *)
(***************************************************************************)

\* create_job, _load_transcript_for_job: the tombstone is looked at, no lock.
LoadTranscriptForJob(r) ==
    /\ Live(Input[r])
    /\ loaded' = loaded \cup {r}
    /\ UNCHANGED <<ledger, row, object, upload, cleaner, deletions, faults>>

\* Mutant: enqueue_job trusts what the API has loaded.
EnqueueLoaded(j, k, r) ==
    /\ r \in loaded
    /\ loaded' = loaded \ {r}
    /\ EnqueueJob(j, k, r)
    /\ UNCHANGED <<row, object, upload, cleaner, deletions, faults>>

\* create_job, enqueue_job: the tombstone is looked at again under FOR SHARE.
EnqueueForTranscript(j, k, r) ==
    /\ r \in loaded
    /\ loaded' = loaded \ {r}
    /\ \/ Live(Input[r]) /\ EnqueueJob(j, k, r)
       \/ ~ Live(Input[r]) /\ UNCHANGED ledger
    /\ UNCHANGED <<row, object, upload, cleaner, deletions, faults>>

\* Mutant: the request is accepted whatever the row says already.
TombstoneAgain(t) ==
    /\ row[t].exists
    /\ ~ \E j \in JobsOf(t) : Active(j)
    /\ row' = [row EXCEPT ![t] = [NoTranscript EXCEPT !.exists = TRUE,
                                                      !.cleanup = "pending"]]
    /\ deletions' = [deletions EXCEPT ![t] = @ + 1]
    /\ UNCHANGED <<ledger, object, upload, loaded, cleaner, faults>>

\* request_transcript_deletion under FOR UPDATE: active jobs refuse it; the
\* tombstone, the pending cleanup and one audit event commit together.  A replay
\* reports the tombstone it finds and changes nothing.
RequestTranscriptDeletion(t) ==
    /\ Live(t)
    /\ ~ \E j \in JobsOf(t) : Active(j)
    /\ row' = [row EXCEPT ![t] = [NoTranscript EXCEPT !.exists = TRUE,
                                                      !.cleanup = "pending"]]
    /\ deletions' = [deletions EXCEPT ![t] = @ + 1]
    /\ UNCHANGED <<ledger, object, upload, loaded, cleaner, faults>>

\* Everything else that happens to jobs, as JobLedger has it.
JobStep ==
    /\ \/ \E j \in Jobs : RequestJobCancellation(j)
       \/ \E w \in Workers, j \in Jobs : ClaimNextJob(w, j)
       \/ \E j \in Jobs : \E n \in DOMAIN attempt[j] : LeaseCall(j, n)
       \/ \E S \in SUBSET Jobs : RecoverExpiredLeases(S)
       \/ \E j \in Jobs : LeaseExpires(j) \/ BackoffElapses(j)
    /\ UNCHANGED <<row, object, upload, loaded, cleaner, deletions, faults>>

-----------------------------------------------------------------------------
(***************************************************************************)
(* cleanup_next_transcript_tombstone, by a worker.                         *)
(***************************************************************************)

CleanerGoto(w, pc) ==
    cleaner' = [cleaner EXCEPT ![w] =
                  IF pc = "idle" THEN Idle ELSE [@ EXCEPT !.pc = pc]]

\* Mutant: a claim is never handed over.
ClaimedForGood(w, t) ==
    /\ row[t].cleanup = "pending" /\ ~ row[t].backoff
    /\ row[t].claimedBy = NoWorker

\* Mutant: the claim does not ask for a tombstone.
CleanableAny(w, t) ==
    /\ row[t].exists /\ ~ row[t].backoff
    /\ row[t].claimedBy = NoWorker \/ ~ row[t].claimLive

\* The WHERE of claim_next_transcript_cleanup: due, and not claimed, or claimed
\* too long ago.  A worker does not get its own fresh claim back.
Cleanable(w, t) ==
    /\ row[t].cleanup = "pending" /\ ~ row[t].backoff
    /\ row[t].claimedBy = NoWorker \/ ~ row[t].claimLive

\* claim_next_transcript_cleanup.  A lost answer leaves a claim nobody works on.
ClaimTranscriptCleanup(w, t) ==
    /\ cleaner[w].pc = "idle"
    /\ Cleanable(w, t)
    /\ row' = [row EXCEPT ![t].claimedBy = w, ![t].claimLive = TRUE]
    /\ \/ cleaner' = [cleaner EXCEPT ![w] = [pc |-> "delete", about |-> {t}]] /\ NoFault
       \/ UNCHANGED cleaner /\ Fault
    /\ UNCHANGED <<ledger, object, upload, loaded, deletions>>

\* Mutant: an ambiguous answer counts as deleted.
DeleteAssumed(w, t) ==
    /\ cleaner[w].pc = "delete" /\ t \in cleaner[w].about
    /\ \/ Stored(t, FALSE) /\ NoFault
       \/ UNCHANGED object /\ Fault
    /\ CleanerGoto(w, "finalize")
    /\ UNCHANGED <<ledger, row, upload, loaded, deletions>>

\* delete_for_maintenance; a missing object counts as deleted, an error is
\* ambiguous.
DeleteTranscriptObject(w, t) ==
    /\ cleaner[w].pc = "delete" /\ t \in cleaner[w].about
    /\ \/ Stored(t, FALSE) /\ CleanerGoto(w, "finalize") /\ NoFault
       \/ /\ Stored(t, FALSE) \/ UNCHANGED object
          /\ CleanerGoto(w, "release") /\ Fault
    /\ UNCHANGED <<ledger, row, upload, loaded, deletions>>

\* The rows finalize_transcript_cleanup and release_transcript_cleanup update:
\* pending, and still claimed by this worker.
ClaimKept(w, t) == row[t].cleanup = "pending" /\ row[t].claimedBy = w

Unclaimed(t) == [row[t] EXCEPT !.claimedBy = NoWorker, !.claimLive = FALSE,
                               !.backoff = FALSE]

\* finalize_transcript_cleanup, which may fail before or after its commit.
FinalizeTranscriptCleanup(w, t) ==
    /\ cleaner[w].pc = "finalize" /\ t \in cleaner[w].about
    /\ \/ /\ ClaimKept(w, t)
          /\ row' = [row EXCEPT ![t] = [Unclaimed(t) EXCEPT !.cleanup = "complete"]]
          /\ NoFault \/ Fault
       \/ ~ ClaimKept(w, t) /\ UNCHANGED row /\ NoFault
       \/ UNCHANGED row /\ Fault
    /\ CleanerGoto(w, "idle")
    /\ UNCHANGED <<ledger, object, upload, loaded, deletions>>

\* Mutant: a failed attempt has a cleanup_state of its own.
ReleaseAsFailed(w, t) ==
    /\ cleaner[w].pc = "release" /\ t \in cleaner[w].about
    /\ row' = [row EXCEPT ![t] = [Unclaimed(t) EXCEPT !.cleanup = "failed"]]
    /\ CleanerGoto(w, "idle")
    /\ UNCHANGED <<ledger, object, upload, loaded, deletions, faults>>

\* release_transcript_cleanup: the next attempt waits for a backoff.  There is
\* no attempt ceiling.
ReleaseTranscriptCleanup(w, t) ==
    /\ cleaner[w].pc = "release" /\ t \in cleaner[w].about
    /\ \/ /\ ClaimKept(w, t)
          /\ row' = [row EXCEPT ![t] = [Unclaimed(t) EXCEPT !.backoff = TRUE]]
          /\ NoFault \/ Fault
       \/ ~ ClaimKept(w, t) /\ UNCHANGED row /\ NoFault
       \/ UNCHANGED row /\ Fault
    /\ CleanerGoto(w, "idle")
    /\ UNCHANGED <<ledger, object, upload, loaded, deletions>>

Clean(w, t) ==
    \/ ClaimTranscriptCleanup(w, t)
    \/ DeleteTranscriptObject(w, t)
    \/ FinalizeTranscriptCleanup(w, t)
    \/ ReleaseTranscriptCleanup(w, t)

\* A worker process dies for good; another one is left.
CleanerCrash(w) ==
    /\ cleaner[w].pc # "dead"
    /\ \E v \in Workers \ {w} : cleaner[v].pc # "dead"
    /\ cleaner' = [cleaner EXCEPT ![w] = [Idle EXCEPT !.pc = "dead"]]
    /\ UNCHANGED <<ledger, row, object, upload, loaded, deletions, faults>>

\* now() passes cleanup_next_attempt_at, or the cleanup lease runs out: 60
\* seconds, when the one Storage request of a cleanup is given up after 30, so
\* that a cleanup that is still running then counts as a fault.
CleanupClock(t) ==
    /\ \/ row[t].backoff /\ row' = [row EXCEPT ![t].backoff = FALSE] /\ NoFault
       \/ /\ row[t].claimLive
          /\ row' = [row EXCEPT ![t].claimLive = FALSE]
          /\ IF t \in cleaner[row[t].claimedBy].about THEN Fault ELSE NoFault
    /\ UNCHANGED <<ledger, object, upload, loaded, cleaner, deletions>>

-----------------------------------------------------------------------------

TNext ==
    \/ \E t \in Transcripts :
          \/ UploadObject(t) \/ InsertTranscript(t)
          \/ CleanUpUpload(t) \/ UploadAborted(t)
          \/ RequestTranscriptDeletion(t) \/ CleanupClock(t)
          \/ \E w \in Workers : Clean(w, t)
    \/ \E r \in Requests : LoadTranscriptForJob(r)
    \/ \E j \in Jobs, k \in Keys \cup {NoKey}, r \in Requests : EnqueueForTranscript(j, k, r)
    \/ JobStep
    \/ \E w \in Workers : CleanerCrash(w)

TSpec == TInit /\ [][TNext]_tvars

\* The poll loop of a worker that lives, and the clock, do not stop for ever.
\* Everything else may.
TFairness ==
    /\ \A w \in Workers : WF_tvars(\E t \in Transcripts : Clean(w, t))
    /\ \A t \in Transcripts : WF_tvars(CleanupClock(t))

TFairSpec == TSpec /\ TFairness

-----------------------------------------------------------------------------
(***************************************************************************)
(* What transcripts promise.                                               *)
(***************************************************************************)

\* A job that is queued or running, or will be retried, has its input: the row
\* is visible and the object is in Storage.  The deletion and the enqueue race,
\* and the API's own check is stale by the time enqueue_job runs.
ActiveJobHasInput ==
    \A j \in Jobs : Active(j) => /\ Live(Input[job[j].request])
                                 /\ object[Input[job[j].request]]

\* A transcript that members can list and download has its object.
LiveHasObject == \A t \in Transcripts : Live(t) => object[t]

\* cleanup_state = 'complete' is only recorded when the bytes are gone, whatever
\* failed, crashed or was claimed twice on the way there.
CompleteMeansGone ==
    \A t \in Transcripts : row[t].cleanup = "complete" => ~ object[t]

\* A deletion is final: the transcript never becomes visible again, a reconciled
\* tombstone is never scheduled again, and a replayed request leaves no second
\* transcript_delete event.
DeletionIsFinal ==
    [][\A t \in Transcripts : row[t].exists /\ ~ row[t].visible =>
          /\ row'[t].exists /\ ~ row'[t].visible
          /\ deletions'[t] = deletions[t]
          /\ row[t].cleanup = "complete" => row'[t].cleanup = "complete"]_tvars

\* The bytes of a deleted transcript do go away, although calls fail, answers are
\* lost and workers die with a claim in hand.
PendingIsReconciled ==
    \A t \in Transcripts : row[t].cleanup = "pending" ~> row[t].cleanup = "complete"

\* A transcript that is listed or that a job will read has its object, and one whose
\* deletion is reported complete has none.
TranscriptsAreKept == TTypeOK /\ ActiveJobHasInput /\ LiveHasObject /\ CompleteMeansGone

\* A deletion is never taken back, and its bytes do go away.
DeletionIsDone == DeletionIsFinal /\ PendingIsReconciled

=============================================================================
