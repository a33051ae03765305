------------------------------ MODULE PostCall ------------------------------
(***************************************************************************)
(* Workers running post-call jobs (webapp/hosted/worker.py and             *)
(* post_call_orchestrator.py) against the job ledger, the outputs table    *)
(* and the Storage bucket, which share no transaction.                     *)
(*                                                                         *)
(* A worker process is sequential: its poll loop recovers leases, sweeps   *)
(* one tombstoned output and claims one job; an execution is a sequence of *)
(* database and Storage calls.  Every call is one action, so any other     *)
(* process, a cancellation, a deadline or a crash may come between two     *)
(* calls.  The job ledger is the module JobLedger; what its functions do   *)
(* to the outputs table is added here.                                     *)
(***************************************************************************)
EXTENDS JobLedger

CONSTANTS
    Started,      \* the worker processes that run at the outset
    MaxFaults,    \* bound: database or Storage calls that fail or lose the answer
    Cancellable,  \* whether members cancel jobs in this configuration
    LateStorage   \* whether Storage may finish a request its caller abandoned

ASSUME PostCallAssumption ==
    /\ Started \subseteq Workers /\ Started # {}
    /\ MaxFaults \in Nat
    /\ Cancellable \in BOOLEAN
    /\ LateStorage \in BOOLEAN

VARIABLES
    out,       \* public.outputs: the one deterministic output id of each job
    object,    \* the Storage object of each job: the attempt whose bytes it holds
    late,      \* abandoned Storage requests that may still be carried out
    wk,        \* the worker processes
    faults     \* how many faults have happened

pvars == <<job, attempt, acks, audit, out, object, late, wk, faults>>

NoObject == 0

NoJob == 0

NoRow == [status |-> "none", content |-> 0, tombstoned |-> FALSE,
          claimedBy |-> NoWorker, claimLive |-> FALSE]

\* Where a worker process is: outside an execution, in its poll loop ...
PollLoop == {"recover", "sweep", "claim"}

\* ... in the worker's own finalizers, with the heartbeat monitor stopped ...
Finalizing == {"abort", "fail", "timeout"}

\* ... removing a tombstoned output it has claimed ...
Purging == {"purgeClaim", "purgeObject", "purgeRow"}

\* ... or in a call of PostCallOrchestrator.execute.
Executing == {"staged", "hash", "recomplete", "check1", "run", "check2", "create",
              "check3", "upload", "check4", "complete", "cancel",
              "tombstone", "deleteObject", "deleteRow", "cleanupFailed"}

Locations == PollLoop \cup Finalizing \cup Purging \cup Executing \cup {"down", "dead"}

\* A late request: the object of job is replaced by put, or deleted.
LateRequest == [job: Jobs, put: Nat]

Worker == [pc: Locations, job: Jobs \cup {NoJob}, n: Nat, seen: Nat, then: Locations]

PTypeOK ==
    /\ TypeOK
    /\ out \in [Jobs -> [status: {"none", "unvalidated", "valid"}, content: Nat,
                         tombstoned: BOOLEAN, claimedBy: Workers \cup {NoWorker},
                         claimLive: BOOLEAN]]
    /\ object \in [Jobs -> Nat]
    /\ late \subseteq LateRequest
    /\ wk \in [Workers -> Worker]
    /\ faults \in 0..MaxFaults

Between(w, pc) == wk[w].pc = pc

Fresh(pc) == [pc |-> pc, job |-> NoJob, n |-> 0, seen |-> 0, then |-> "recover"]

PInit ==
    /\ Init
    /\ out = [j \in Jobs |-> NoRow]
    /\ object = [j \in Jobs |-> NoObject]
    /\ late = {}
    /\ wk = [w \in Workers |-> Fresh(IF w \in Started THEN "recover" ELSE "down")]
    /\ faults = 0

-----------------------------------------------------------------------------

Held(w) == LeaseHeld(wk[w].job, wk[w].n)

\* In the middle of removing an object and its row; `then` says where to go after.
Removing == {"deleteObject", "deleteRow", "purgeObject", "purgeRow"}

\* The next call of the execution; back in the poll loop the execution is over.
Goto(w, pc) ==
    wk' = [wk EXCEPT ![w] = IF pc \in PollLoop \cup {"dead"}
                            THEN Fresh(pc)
                            ELSE [wk[w] EXCEPT !.pc = pc,
                                               !.then = IF pc \in Removing
                                                        THEN wk[w].then ELSE "recover"]]

\* Start removing the staged output, and continue at pc once it is gone.
GotoUnstage(w, pc) ==
    wk' = [wk EXCEPT ![w].pc = "tombstone", ![w].then = pc]

ledger == <<job, attempt, acks, audit>>

storage == <<object, late>>

NoFault == UNCHANGED faults

Fault == faults < MaxFaults /\ faults' = faults + 1

\* A database call: the transaction A commits and the answer arrives; or the
\* function raises because `refused`; or the connection fails, before or after
\* the commit, which the caller cannot tell apart.
DbCall(w, A, refused, ok, err) ==
    \/ ~ refused /\ A /\ Goto(w, ok) /\ NoFault
    \/ refused /\ UNCHANGED <<ledger, out>> /\ Goto(w, err) /\ NoFault
    \/ ~ refused /\ Fault /\ (A \/ UNCHANGED <<ledger, out>>) /\ Goto(w, err)

\* Storage DELETE of the job's object; a missing object counts as deleted.
DeleteObject(w, ok, err) ==
    LET j == wk[w].job IN
    /\ \/ object' = [object EXCEPT ![j] = NoObject] /\ Goto(w, ok) /\ NoFault
       \/ /\ Fault /\ Goto(w, err)
          /\ object' \in {object, [object EXCEPT ![j] = NoObject]}
    /\ UNCHANGED <<ledger, out, late>>

\* Mutant: the tombstone overwrites validation_status.
TombstonedAsStatus(j) ==
    [out EXCEPT ![j].tombstoned = @ \/ out[j].status = "unvalidated",
                ![j].status = IF @ = "unvalidated" THEN "tombstoned" ELSE @]

\* UPDATE outputs SET tombstoned_at ... WHERE validation_status = 'unvalidated'.
Tombstoned(j) ==
    [out EXCEPT ![j].tombstoned = @ \/ out[j].status = "unvalidated"]

-----------------------------------------------------------------------------
(***************************************************************************)
(* The ledger functions with what they do to public.outputs.               *)
(***************************************************************************)

\* complete_job raises when there is no row to complete the job with.
CompleteRefused(w) ==
    \/ ~ Held(w)
    \/ ~ job[wk[w].job].cancelRequested /\ out[wk[w].job].status = "none"

\* Mutant: the output is made valid although the job is cancelled.
CompleteValidAlways(w) ==
    /\ CompleteJob(wk[w].job, wk[w].n)
    /\ out' = [out EXCEPT ![wk[w].job].status = "valid", ![wk[w].job].tombstoned = FALSE]

CompleteWithOutput(w) ==
    LET j == wk[w].job IN
    /\ CompleteJob(j, wk[w].n)
    /\ out' = IF job[j].cancelRequested
              THEN Tombstoned(j)
              ELSE [out EXCEPT ![j].status = "valid", ![j].tombstoned = FALSE]

\* Mutant: the worker writes jobs.status and leaves the attempt open.
CancelRowOnly(w) ==
    /\ Held(w)
    /\ job' = [job EXCEPT ![wk[w].job].status = "cancelled"]
    /\ out' = Tombstoned(wk[w].job)
    /\ UNCHANGED <<attempt, acks, audit>>

CancelWithOutput(w) ==
    CancelJob(wk[w].job, wk[w].n) /\ out' = Tombstoned(wk[w].job)

FailWithOutput(w, final) ==
    FailJob(wk[w].job, wk[w].n, final) /\ out' = Tombstoned(wk[w].job)

-----------------------------------------------------------------------------
(***************************************************************************)
(* The poll loop: Worker.run.                                              *)
(***************************************************************************)

\* Mutant: the poll loop does not recover leases.
RecoverNothing(w) ==
    Between(w, "recover") /\ Goto(w, "sweep") /\ UNCHANGED <<ledger, out, storage, faults>>

\* recover_expired_leases, over all rows the clock has passed.  When the answer
\* is lost the loop starts over.
Recover(w) ==
    /\ Between(w, "recover")
    /\ \/ RecoverExpiredLeases({j \in Jobs : Recoverable(j)})
       \/ {j \in Jobs : Recoverable(j)} = {} /\ UNCHANGED ledger
    /\ \/ Goto(w, "sweep") /\ NoFault
       \/ Goto(w, "recover") /\ Fault
    /\ UNCHANGED <<out, storage>>

Purgeable(j) == out[j].status = "unvalidated" /\ out[j].tombstoned

\* Mutant: the claim of a worker that died is never free again.
ClaimNeverExpires(w, j) == out[j].claimedBy \in {NoWorker, w}

\* The claim is free, is this worker's own, or its lease ran out.
ClaimFree(w, j) ==
    out[j].claimedBy \in {NoWorker, w} \/ ~ out[j].claimLive

TakeClaim(w, j) ==
    out' = [out EXCEPT ![j].claimedBy = w, ![j].claimLive = TRUE]

\* claim_next_tombstoned_output, then the two steps of cleanup_next_tombstone.
Sweep(w) ==
    /\ Between(w, "sweep")
    /\ \/ \E j \in Jobs :
             /\ Purgeable(j) /\ ClaimFree(w, j)
             /\ TakeClaim(w, j)
             /\ \/ /\ wk' = [wk EXCEPT ![w] = [Fresh("purgeObject") EXCEPT
                                !.job = j, !.then = "claim"]]
                   /\ NoFault
                \/ Goto(w, "claim") /\ Fault
       \/ /\ \A j \in Jobs : ~ (Purgeable(j) /\ ClaimFree(w, j))
          /\ Goto(w, "claim") /\ NoFault
          /\ UNCHANGED out
    /\ UNCHANGED <<ledger, storage>>

\* claim_next_job; when the answer is lost the job runs without a worker.
Claim(w) ==
    /\ Between(w, "claim")
    /\ \/ \E j \in Jobs :
             /\ ClaimNextJob(w, j)
             /\ \/ /\ wk' = [wk EXCEPT ![w] = [Fresh("staged") EXCEPT
                                !.job = j, !.n = job[j].attempts + 1]]
                   /\ NoFault
                \/ Goto(w, "recover") /\ Fault
       \/ /\ \A j \in Jobs : ~ Claimable(j)
          /\ Goto(w, "recover") /\ NoFault
          /\ UNCHANGED ledger
    /\ UNCHANGED <<out, storage>>

-----------------------------------------------------------------------------
(***************************************************************************)
(* PostCallOrchestrator.execute.                                           *)
(***************************************************************************)

\* Mutant: a tombstoned row is not reconciled.
StagedUnlessTombstoned(w) ==
    LET j == wk[w].job IN
    /\ Between(w, "staged")
    /\ \/ /\ Held(w) /\ (out[j].status = "none" \/ out[j].tombstoned)
          /\ Goto(w, "check1") /\ NoFault
       \/ /\ Held(w) /\ out[j].status # "none" /\ ~ out[j].tombstoned /\ NoFault
          /\ wk' = [wk EXCEPT ![w].pc = "hash", ![w].seen = out[j].content]
       \/ ~ Held(w) /\ Goto(w, "fail") /\ NoFault
       \/ Held(w) /\ Goto(w, "fail") /\ Fault
    /\ UNCHANGED <<ledger, out, storage>>

\* get_staged_output: a row that an earlier attempt staged is reconciled,
\* tombstoned or not.  An exception is reported to the worker as input_error.
Staged(w) ==
    LET j == wk[w].job IN
    /\ Between(w, "staged")
    /\ \/ /\ Held(w) /\ out[j].status = "none"
          /\ Goto(w, "check1") /\ NoFault
       \/ /\ Held(w) /\ out[j].status # "none" /\ NoFault
          /\ wk' = [wk EXCEPT ![w].pc = "hash", ![w].seen = out[j].content]
       \/ ~ Held(w) /\ Goto(w, "fail") /\ NoFault
       \/ Held(w) /\ Goto(w, "fail") /\ Fault
    /\ UNCHANGED <<ledger, out, storage>>

\* Mutant: the object is not compared with the row.
HashUnchecked(w) ==
    /\ Between(w, "hash")
    /\ Goto(w, "recomplete") /\ NoFault
    /\ UNCHANGED <<ledger, out, storage>>

\* Compare the object with the hash in the row: a missing object is cleaned up
\* and the attempt starts afresh, a different one is cleaned up and the attempt
\* fails, and an intact one is downloaded and validated again.
Hash(w) ==
    LET j == wk[w].job IN
    /\ Between(w, "hash")
    /\ \/ object[j] = NoObject /\ GotoUnstage(w, "check1") /\ NoFault
       \/ object[j] \notin {NoObject, wk[w].seen} /\ GotoUnstage(w, "fail") /\ NoFault
       \/ /\ object[j] = wk[w].seen /\ NoFault
          /\ Goto(w, "recomplete") \/ Goto(w, "fail")
       \/ Goto(w, "fail") /\ Fault
    /\ UNCHANGED <<ledger, out, storage>>

\* complete_job with the staged output.  If a cancellation came first the output
\* is tombstoned, and this worker removes it.
Complete(w, pc) ==
    /\ Between(w, pc)
    /\ DbCall(w, CompleteWithOutput(w), CompleteRefused(w),
              IF job[wk[w].job].cancelRequested THEN "purgeClaim" ELSE "recover",
              "fail")
    /\ UNCHANGED storage

\* _cancel_requested: a heartbeat, which also renews the lease.  A heartbeat that
\* raises counts as "not requested".
Check(w, pc, no) ==
    LET j == wk[w].job IN
    /\ Between(w, pc)
    /\ \/ /\ WorkerHeartbeat(j, wk[w].n) /\ NoFault
          /\ IF job[j].cancelRequested
             THEN IF pc \in {"check3", "check4"}
                  THEN GotoUnstage(w, "cancel")
                  ELSE Goto(w, "cancel")
             ELSE Goto(w, no)
       \/ ~ Held(w) /\ Goto(w, no) /\ NoFault /\ UNCHANGED ledger
       \/ /\ Held(w) /\ Goto(w, no) /\ Fault
          /\ WorkerHeartbeat(j, wk[w].n) \/ UNCHANGED ledger
    /\ UNCHANGED <<out, storage>>

\* The inputs are resolved, the sandboxed runtime runs and its artifact is
\* validated: with a valid artifact, or with a failure, of the category timeout
\* or of another one.
Run(w) ==
    /\ Between(w, "run")
    /\ \E next \in {"check2", "fail", "timeout"} : Goto(w, next)
    /\ UNCHANGED <<ledger, out, storage, faults>>

\* create_job_output.  An existing row never meets this call: see NothingToRecover.
Create(w) ==
    LET j == wk[w].job IN
    /\ Between(w, "create")
    /\ DbCall(w, /\ out' = [out EXCEPT ![j] = [NoRow EXCEPT !.status = "unvalidated",
                                                            !.content = wk[w].n]]
                 /\ UNCHANGED ledger,
              ~ Held(w) \/ out[j].status # "none", "check3", "fail")
    /\ UNCHANGED storage

\* Storage upload without upsert: an object that is already there is an error.
\* After an error the staged row is removed again and the attempt fails.
Upload(w) ==
    LET j == wk[w].job
        stored == [object EXCEPT ![j] = wk[w].n]
    IN
    /\ Between(w, "upload")
    /\ \/ object[j] = NoObject /\ object' = stored /\ Goto(w, "check4") /\ NoFault
       \/ object[j] # NoObject /\ UNCHANGED object /\ GotoUnstage(w, "fail") /\ NoFault
       \/ /\ object[j] = NoObject /\ object' \in {object, stored}
          /\ GotoUnstage(w, "fail") /\ Fault
    /\ UNCHANGED <<ledger, out, late>>

\* Mutant: the row is deleted and the object is not.
TombstoneRowOnly(w) ==
    /\ Between(w, "tombstone")
    /\ DbCall(w, UNCHANGED ledger /\ out' = Tombstoned(wk[w].job),
              ~ Held(w), "deleteRow", "cleanupFailed")
    /\ UNCHANGED storage

\* _cleanup_staged_output: tombstone_job_output, delete the object, then
\* delete_job_output.  Any failure is a CleanupError.
Tombstone(w) ==
    /\ Between(w, "tombstone")
    /\ DbCall(w, UNCHANGED ledger /\ out' = Tombstoned(wk[w].job),
              ~ Held(w), "deleteObject", "cleanupFailed")
    /\ UNCHANGED storage

DeleteStagedObject(w) ==
    Between(w, "deleteObject") /\ DeleteObject(w, "deleteRow", "cleanupFailed")

DeleteStagedRow(w) ==
    LET j == wk[w].job IN
    /\ Between(w, "deleteRow")
    /\ DbCall(w, UNCHANGED ledger /\ out' = [out EXCEPT ![j] = NoRow],
              ~ Held(w) \/ out[j].status # "unvalidated",
              wk[w].then, "cleanupFailed")
    /\ UNCHANGED storage

\* execute's handler of CleanupError: cancel_job, any error swallowed.
CleanupFailed(w) ==
    /\ Between(w, "cleanupFailed")
    /\ DbCall(w, CancelWithOutput(w), ~ Held(w), "recover", "recover")
    /\ UNCHANGED storage

\* cancel_job from within execute; when it raises the worker calls fail_job.
Cancel(w) ==
    /\ Between(w, "cancel")
    /\ DbCall(w, CancelWithOutput(w), ~ Held(w), "recover", "fail")
    /\ UNCHANGED storage

\* claim_tombstoned_output: nothing to do when the row is gone, and a
\* CleanupError when another worker's claim is in force.
PurgeClaim(w) ==
    LET j == wk[w].job IN
    /\ Between(w, "purgeClaim")
    /\ DbCall(w, UNCHANGED ledger /\ TakeClaim(w, j),
              ~ (Purgeable(j) /\ ClaimFree(w, j)), "purgeObject", "recover")
    /\ UNCHANGED storage

PurgeObject(w) ==
    Between(w, "purgeObject") /\ DeleteObject(w, "purgeRow", wk[w].then)

\* Mutant: the row is deleted whatever became of it since it was claimed.
PurgeRowAnyway(w) ==
    LET j == wk[w].job IN
    /\ Between(w, "purgeRow")
    /\ DbCall(w, UNCHANGED ledger /\ out' = [out EXCEPT ![j] = NoRow],
              out[j].claimedBy # w, wk[w].then, wk[w].then)
    /\ UNCHANGED storage

\* finalize_tombstone_delete: the row must still be this worker's tombstone.
PurgeRow(w) ==
    LET j == wk[w].job IN
    /\ Between(w, "purgeRow")
    /\ DbCall(w, UNCHANGED ledger /\ out' = [out EXCEPT ![j] = NoRow],
              ~ Purgeable(j) \/ out[j].claimedBy # w,
              wk[w].then, wk[w].then)
    /\ UNCHANGED storage

-----------------------------------------------------------------------------
(***************************************************************************)
(* Worker.process_one around the execution.                                *)
(***************************************************************************)

\* The execution raised or returned an error: fail_job.
Fail(w) ==
    /\ Between(w, "fail")
    /\ DbCall(w, FailWithOutput(w, "failure"), ~ Held(w), "recover", "recover")
    /\ UNCHANGED storage

\* The deadline passed, and the execution was cancelled: fail_job as 'timeout'.
Timeout(w) ==
    /\ Between(w, "timeout")
    /\ DbCall(w, FailWithOutput(w, "timeout"), ~ Held(w), "recover", "recover")
    /\ UNCHANGED storage

\* The monitor saw a cancellation, and the execution was cancelled: cancel_job.
Abort(w) ==
    /\ Between(w, "abort")
    /\ DbCall(w, CancelWithOutput(w), ~ Held(w), "recover", "recover")
    /\ UNCHANGED storage

\* An execution, the purge of its own tombstone included.
InExecution(w) ==
    wk[w].pc \in Executing \/ (wk[w].pc \in Purging /\ wk[w].n > 0)

\* The execution is cancelled, or the process dies, in the middle of a Storage
\* request, which Storage may carry out all the same, and later.
Abandon(w) ==
    \/ UNCHANGED late
    \/ /\ LateStorage
       /\ wk[w].pc \in {"upload", "deleteObject", "purgeObject"}
       /\ late' = late \cup {[job |-> wk[w].job,
                              put |-> IF wk[w].pc = "upload" THEN wk[w].n ELSE NoObject]}

\* _heartbeat_monitor, beside the execution.  A heartbeat that raises ends the
\* execution and leaves the job to lease recovery; a requested cancellation ends
\* it with cancel_job; otherwise the lease is renewed.
Monitor(w) ==
    LET j == wk[w].job IN
    /\ InExecution(w)
    /\ \/ /\ WorkerHeartbeat(j, wk[w].n) /\ NoFault
          /\ \/ job[j].cancelRequested /\ Goto(w, "abort") /\ Abandon(w)
             \/ ~ job[j].cancelRequested /\ UNCHANGED <<wk, late>>
       \/ ~ Held(w) /\ Goto(w, "recover") /\ NoFault /\ UNCHANGED ledger /\ Abandon(w)
       \/ Held(w) /\ Goto(w, "recover") /\ Fault /\ UNCHANGED ledger /\ Abandon(w)
    /\ UNCHANGED <<out, object>>

\* The wall-clock deadline passes during the execution.
Deadline(w) ==
    /\ InExecution(w)
    /\ Goto(w, "timeout") /\ Abandon(w)
    /\ UNCHANGED <<ledger, out, object, faults>>

\* A worker process dies, and the service manager starts another one, under a
\* new worker id.  Bound: the processes there are ids for.
Crash(w) ==
    /\ wk[w].pc \notin {"down", "dead"}
    /\ \E v \in Workers \ {w} : wk[v].pc # "dead"
    /\ Goto(w, "dead") /\ Abandon(w)
    /\ UNCHANGED <<ledger, out, object, faults>>

StartWorker(w) ==
    /\ Between(w, "down")
    /\ \E v \in Workers : Between(v, "dead")
    /\ Cardinality({v \in Workers : wk[v].pc \notin {"down", "dead"}})
         < Cardinality(Started)
    /\ Goto(w, "recover")
    /\ UNCHANGED <<ledger, out, storage, faults>>

-----------------------------------------------------------------------------

Step(w) ==
    \/ Recover(w) \/ Sweep(w) \/ Claim(w)
    \/ Staged(w) \/ Hash(w) \/ Complete(w, "recomplete")
    \/ Check(w, "check1", "run") \/ Run(w) \/ Check(w, "check2", "create")
    \/ Create(w) \/ Check(w, "check3", "upload") \/ Upload(w)
    \/ Check(w, "check4", "complete") \/ Complete(w, "complete")
    \/ Tombstone(w) \/ DeleteStagedObject(w) \/ DeleteStagedRow(w)
    \/ CleanupFailed(w) \/ Cancel(w)
    \/ PurgeClaim(w) \/ PurgeObject(w) \/ PurgeRow(w)
    \/ Fail(w) \/ Timeout(w) \/ Abort(w)

\* Members, through the API.
Member ==
    /\ \/ \E j \in Jobs, k \in Keys \cup {NoKey}, r \in Requests : EnqueueJob(j, k, r)
       \/ Cancellable /\ \E j \in Jobs : RequestJobCancellation(j)
    /\ UNCHANGED <<out, storage, wk, faults>>

\* cleanup_claimed_at becomes older than the cleanup lease.
ClaimExpires(j) ==
    /\ out[j].claimLive
    /\ out' = [out EXCEPT ![j].claimLive = FALSE]
    /\ UNCHANGED <<ledger, storage, wk, faults>>

Clock(j) ==
    \/ (LeaseExpires(j) \/ BackoffElapses(j)) /\ UNCHANGED <<out, storage, wk, faults>>
    \/ ClaimExpires(j)

\* Storage carries out a request whose caller is gone; a put does not overwrite.
StorageCatchesUp(r) ==
    /\ late' = late \ {r}
    /\ object' = [object EXCEPT ![r.job] =
                    IF r.put # NoObject /\ @ # NoObject THEN @ ELSE r.put]
    /\ UNCHANGED <<ledger, out, wk, faults>>

PNext ==
    \/ \E w \in Workers : Step(w) \/ Monitor(w) \/ Deadline(w) \/ Crash(w) \/ StartWorker(w)
    \/ Member
    \/ \E j \in Jobs : Clock(j)
    \/ \E r \in late : StorageCatchesUp(r)

PSpec == PInit /\ [][PNext]_pvars

\* Worker processes and clocks do not stop for ever; crashes, faults, deadlines,
\* heartbeats and what members do are not forced to happen.
Fairness ==
    /\ \A w \in Workers : WF_pvars(Step(w)) /\ WF_pvars(StartWorker(w))
    /\ \A j \in Jobs : WF_pvars(Clock(j))

PFairSpec == PSpec /\ Fairness

-----------------------------------------------------------------------------
(***************************************************************************)
(* What the composition promises.                                          *)
(***************************************************************************)

\* A job succeeded if and only if its output row is valid: no other path of the
\* workers makes an output visible to members, or hides or drops a visible one.
SuccessIffValid ==
    \A j \in Jobs : job[j].status = "success" <=> out[j].status = "valid"

\* An output that members can see has its Storage object, with the bytes whose
\* hash is in the row.
ValidOutputHasObject ==
    \A j \in Jobs : out[j].status = "valid" => object[j] = out[j].content

\* Customer content in Storage is tracked by a metadata row: whatever fails
\* between the two, no object is left without a row.
NoOrphanObject ==
    \A j \in Jobs : object[j] # NoObject => out[j].status # "none"

\* When a job is over without success, what it staged is gone or tombstoned, so
\* that the sweeper finds it.
StagedOutputIsTombstoned ==
    \A j \in Jobs : job[j].status \in {"failure", "timeout", "cancelled"} =>
        out[j].status = "none" \/ out[j].tombstoned

\* A worker that creates the outputs row never finds one: reconciliation has
\* completed or removed what earlier attempts staged, so the branch of
\* _persist_output that recovers an existing row is dead.
NothingToRecover ==
    \A w \in Workers : Between(w, "create") /\ Held(w) =>
        out[wk[w].job].status = "none"

\* A visible output is immutable: its row is never changed, hidden or deleted.
ValidOutputIsImmutable ==
    [][\A j \in Jobs : out[j].status = "valid" =>
          /\ out'[j].status = "valid" /\ ~ out'[j].tombstoned
          /\ out'[j].content = out[j].content]_pvars

\* The workers drive the ledger only through its functions: every step of the
\* composition is a step of JobLedger, or leaves the ledger alone.
LedgerIsRespected == Spec

\* Every job that was accepted ends, whichever workers crash and whoever cancels.
EveryJobEnds ==
    \A j \in Jobs : job[j].status \in {"queued", "running"} ~> job[j].status \in Terminal

\* Every job that nobody cancels while it runs ends, whichever workers crash and
\* whatever calls fail.
UncancelledJobEnds ==
    \A j \in Jobs : job[j].status \in {"queued", "running"} ~>
        job[j].status \in Terminal \/ job[j].cancelRequested

\* Every tombstone is swept, or its output was completed after all.
TombstonesAreSwept ==
    \A j \in Jobs : Purgeable(j) ~> ~ Purgeable(j)

\* Over crashes, lost answers and clean-ups, an output that was validated has its
\* object, and every object in Storage belongs to a row that somebody looks after.
OutputsAreOwned == PTypeOK /\ ValidOutputHasObject /\ NoOrphanObject

\* The database functions are used as the ledger allows, and with them the work
\* comes to an end: every job that is not cancelled, and every tombstone.
WorkIsFinished == LedgerIsRespected /\ UncancelledJobEnds /\ TombstonesAreSwept

\* A job has succeeded exactly when its output is valid, and a job that is over left
\* nothing that a later attempt would have to recover.
SuccessIsWhole == SuccessIffValid /\ NothingToRecover

=============================================================================
