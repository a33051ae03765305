----------------------------- MODULE JobLedger -----------------------------
(***************************************************************************)
(* The durable job ledger of the hosted web application: the tables        *)
(* public.jobs and public.job_attempts and the SECURITY DEFINER functions  *)
(* that are the only writers of them (webapp/hosted/migrations, in the     *)
(* definition that is in force after migration 013).                       *)
(*                                                                         *)
(* Every function runs in one transaction and locks the job row first, so  *)
(* each is one action.  The callers are the most general ones: members of  *)
(* the organization enqueue and cancel at any time, and WHOEVER WAS EVER   *)
(* GRANTED A LEASE may present it to the ledger at any later time, however *)
(* stale.  A lease token is a fresh uuid stored in one attempt row, so a   *)
(* lease is identified with the pair (job, attempt number).                *)
(*                                                                         *)
(* Time is abstracted to the two comparisons the code makes with the       *)
(* clock: timeout_at is "none", "live" or "expired", and backoff says that *)
(* next_attempt_after lies in the future.                                  *)
(***************************************************************************)
EXTENDS Naturals, Sequences, FiniteSets

CONSTANTS
    Jobs,          \* the ids a jobs row may get
    Workers,       \* worker ids
    NoWorker,      \* worker_id IS NULL
    Keys,          \* idempotency keys
    NoKey,         \* idempotency_key IS NULL
    Requests,      \* the request fingerprints: scope, skill, payload, budget
    MaxAttempts    \* max_attempts, a field of the fingerprint

\* max_attempts > 0 is a CHECK of public.jobs.
ASSUME BudgetAssumption == Requests # {} /\ MaxAttempts \in [Requests -> Nat \ {0}]

ASSUME NullAssumption == NoWorker \notin Workers /\ NoKey \notin Keys

VARIABLES
    job,        \* public.jobs, one row per id (status "absent": no row)
    attempt,    \* public.job_attempts of each job, in attempt_number order
    acks,       \* the successful responses of POST /jobs
    audit       \* audit_events about each job

vars == <<job, attempt, acks, audit>>

Terminal == {"success", "failure", "cancelled", "timeout"}

Status == {"absent", "queued", "running"} \cup Terminal

Outcome == {"open"} \cup Terminal      \* "open": outcome IS NULL

JobRow == [status: Status, attempts: Nat, lease: {"none", "live", "expired"},
           cancelRequested: BOOLEAN, cancelledBy: BOOLEAN, backoff: BOOLEAN,
           deadLettered: BOOLEAN, finished: BOOLEAN,
           worker: Workers \cup {NoWorker},
           key: Keys \cup {NoKey}, request: Requests]

AttemptRow == [worker: Workers, outcome: Outcome]

TypeOK ==
    /\ job \in [Jobs -> JobRow]
    /\ attempt \in [Jobs -> Seq(AttemptRow)]
    /\ acks \subseteq [key: Keys \cup {NoKey}, request: Requests, job: Jobs]
    /\ audit \in [Jobs -> [runRequested: Nat, cancelRequested: Nat]]

-----------------------------------------------------------------------------

\* The row a fresh INSERT gives: every other column has its default.
FreshRow(k, r) ==
    [status |-> "queued", attempts |-> 0, lease |-> "none",
     cancelRequested |-> FALSE, cancelledBy |-> FALSE, backoff |-> FALSE,
     deadLettered |-> FALSE, finished |-> FALSE, worker |-> NoWorker,
     key |-> k, request |-> r]

AnyRequest == CHOOSE r \in Requests : TRUE

Init ==
    /\ job = [j \in Jobs |-> [FreshRow(NoKey, AnyRequest) EXCEPT !.status = "absent"]]
    /\ attempt = [j \in Jobs |-> <<>>]
    /\ acks = {}
    /\ audit = [j \in Jobs |-> [runRequested |-> 0, cancelRequested |-> 0]]

Budget(j) == MaxAttempts[job[j].request]

\* UNIQUE (org_id, idempotency_key): the rows a key conflicts with.
KeyRows(k) == {j \in Jobs : job[j].status # "absent" /\ job[j].key = k}

\* Mutant: the insert does not look for the key.
InsertJobAnyKey(j, k, r) ==
    /\ job[j].status = "absent"
    /\ job' = [job EXCEPT ![j] = FreshRow(k, r)]
    /\ audit' = [audit EXCEPT ![j] =
                  [@ EXCEPT !.runRequested = audit[j].runRequested + 1]]
    /\ acks' = acks \cup {[key |-> k, request |-> r, job |-> j]}
    /\ UNCHANGED attempt

\* enqueue_job when no row conflicts: insert, audit, answer with the new id.
InsertJob(j, k, r) ==
    /\ job[j].status = "absent"
    /\ k # NoKey => KeyRows(k) = {}
    /\ job' = [job EXCEPT ![j] = FreshRow(k, r)]
    /\ audit' = [audit EXCEPT ![j] =
                  [@ EXCEPT !.runRequested = audit[j].runRequested + 1]]
    /\ acks' = acks \cup {[key |-> k, request |-> r, job |-> j]}
    /\ UNCHANGED attempt

\* enqueue_job when the key is taken: the loser of ON CONFLICT DO NOTHING reads
\* the stored row and answers with it if the fingerprint is the same.  A
\* different fingerprint raises 40901 and changes nothing.
ReplayJob(j, k, r) ==
    /\ k # NoKey
    /\ j \in KeyRows(k)
    /\ job[j].request = r
    /\ acks' = acks \cup {[key |-> k, request |-> r, job |-> j]}
    /\ UNCHANGED <<job, attempt, audit>>

EnqueueJob(j, k, r) == InsertJob(j, k, r) \/ ReplayJob(j, k, r)

\* Mutant: a job that is already over can be cancelled.
CancelAnyIdle(j) ==
    /\ job[j].status \notin {"absent", "running"}
    /\ job' = [job EXCEPT ![j] =
                [@ EXCEPT !.status = "cancelled", !.cancelledBy = TRUE,
                          !.finished = TRUE, !.lease = "none",
                          !.backoff = FALSE]]

\* request_job_cancellation on a queued job: it is over at once.
CancelQueued(j) ==
    /\ job[j].status = "queued"
    /\ job' = [job EXCEPT ![j] =
                [@ EXCEPT !.status = "cancelled", !.cancelledBy = TRUE,
                          !.finished = TRUE, !.lease = "none",
                          !.backoff = FALSE]]

\* Mutant: a repeated request is accepted again.
CancelRunningAgain(j) ==
    /\ job[j].status = "running"
    /\ job' = [job EXCEPT ![j] =
                [@ EXCEPT !.cancelRequested = TRUE, !.cancelledBy = TRUE]]

\* request_job_cancellation on a running job: the request is recorded, once,
\* and the worker that holds the lease is to finalize it.
CancelRunning(j) ==
    /\ job[j].status = "running"
    /\ ~ job[j].cancelRequested
    /\ job' = [job EXCEPT ![j] =
                [@ EXCEPT !.cancelRequested = TRUE, !.cancelledBy = TRUE]]

\* A job that is over, and a second request, change nothing.
RequestJobCancellation(j) ==
    /\ CancelQueued(j) \/ CancelRunning(j)
    /\ audit' = [audit EXCEPT ![j] =
                  [@ EXCEPT !.cancelRequested = audit[j].cancelRequested + 1]]
    /\ UNCHANGED <<attempt, acks>>

-----------------------------------------------------------------------------

\* Mutant: a running job can be claimed as well.
ClaimableRunning(j) ==
    /\ job[j].status \in {"queued", "running"}
    /\ ~ job[j].backoff
    /\ ~ job[j].cancelRequested
    /\ ~ job[j].deadLettered

Claimable(j) ==
    /\ job[j].status = "queued"
    /\ ~ job[j].backoff
    /\ ~ job[j].cancelRequested
    /\ ~ job[j].deadLettered

\* claim_next_job.  ORDER BY created_at under SKIP LOCKED passes over any row a
\* concurrent transaction holds, so any eligible job may be the one returned.
ClaimNextJob(w, j) ==
    /\ Claimable(j)
    /\ job' = [job EXCEPT ![j] =
                [@ EXCEPT !.status = "running", !.attempts = job[j].attempts + 1,
                          !.worker = w, !.lease = "live", !.backoff = FALSE,
                          !.finished = FALSE]]
    /\ attempt' = [attempt EXCEPT ![j] =
                    Append(@, [worker |-> w, outcome |-> "open"])]
    /\ UNCHANGED <<acks, audit>>

\* Mutant: the attempt's outcome is not looked at.
LeaseKnown(j, n) == job[j].status = "running" /\ n \in DOMAIN attempt[j]

\* The checks that heartbeat, complete, fail and cancel share: the job runs, the
\* attempt row exists with the caller's token, and has no outcome.
LeaseHeld(j, n) ==
    /\ job[j].status = "running"
    /\ n \in DOMAIN attempt[j]
    /\ attempt[j][n].outcome = "open"

\* The attempts of j once attempt n has an outcome.
Closed(j, n, o) == [attempt[j] EXCEPT ![n] = [@ EXCEPT !.outcome = o]]

\* worker_heartbeat: the deadline is not compared with the clock, so a lease
\* that expired and was not yet recovered is renewed.
WorkerHeartbeat(j, n) ==
    /\ LeaseHeld(j, n)
    /\ job' = [job EXCEPT ![j] = [@ EXCEPT !.lease = "live"]]
    /\ UNCHANGED <<attempt, acks, audit>>

\* complete_job: a pending cancellation takes precedence over the result.
CompleteJob(j, n) ==
    /\ LeaseHeld(j, n)
    /\ \E final \in {"success", "cancelled"} :
          /\ final = "cancelled" <=> job[j].cancelRequested
          /\ attempt' = [attempt EXCEPT ![j] = Closed(j, n, final)]
          /\ job' = [job EXCEPT ![j] =
                      [@ EXCEPT !.status = final, !.finished = TRUE,
                                !.lease = "none"]]
    /\ UNCHANGED <<acks, audit>>

\* cancel_job, by the worker: also records the request if nobody made one.
CancelJob(j, n) ==
    /\ LeaseHeld(j, n)
    /\ attempt' = [attempt EXCEPT ![j] = Closed(j, n, "cancelled")]
    /\ job' = [job EXCEPT ![j] =
                [@ EXCEPT !.status = "cancelled", !.cancelRequested = TRUE,
                          !.finished = TRUE, !.lease = "none",
                          !.backoff = FALSE]]
    /\ UNCHANGED <<acks, audit>>

\* Mutant: one attempt too many.
RetriedOnceMore(j, final) ==
    IF job[j].attempts > Budget(j)
    THEN [job[j] EXCEPT !.status = final, !.finished = TRUE, !.lease = "none",
                        !.worker = NoWorker, !.backoff = FALSE,
                        !.deadLettered = TRUE]
    ELSE [job[j] EXCEPT !.status = "queued", !.finished = FALSE,
                        !.lease = "none", !.worker = NoWorker,
                        !.backoff = TRUE]

\* Mutant: timeout_at is not reset when the job goes back to the queue.
RetriedWithDeadline(j, final) ==
    IF job[j].attempts >= Budget(j)
    THEN [job[j] EXCEPT !.status = final, !.finished = TRUE, !.lease = "none",
                        !.worker = NoWorker, !.backoff = FALSE,
                        !.deadLettered = TRUE]
    ELSE [job[j] EXCEPT !.status = "queued", !.finished = FALSE,
                        !.worker = NoWorker, !.backoff = TRUE]

\* The row of a job whose attempt failed: dead-lettered when the budget is
\* spent, queued behind a backoff otherwise.
Retried(j, final) ==
    IF job[j].attempts >= Budget(j)
    THEN [job[j] EXCEPT !.status = final, !.finished = TRUE, !.lease = "none",
                        !.worker = NoWorker, !.backoff = FALSE,
                        !.deadLettered = TRUE]
    ELSE [job[j] EXCEPT !.status = "queued", !.finished = FALSE,
                        !.lease = "none", !.worker = NoWorker,
                        !.backoff = TRUE]

\* fail_job on a job somebody asked to cancel: the cancellation takes
\* precedence over the retry.
FailCancelled(j, n) ==
    /\ LeaseHeld(j, n)
    /\ job[j].cancelRequested
    /\ attempt' = [attempt EXCEPT ![j] = Closed(j, n, "cancelled")]
    /\ job' = [job EXCEPT ![j] =
                [@ EXCEPT !.status = "cancelled", !.finished = TRUE,
                          !.lease = "none", !.backoff = FALSE,
                          !.worker = NoWorker]]
    /\ UNCHANGED <<acks, audit>>

\* Mutant: the retry does not look for a cancellation.
FailRetriedAnyway(j, n, final) ==
    /\ LeaseHeld(j, n)
    /\ attempt' = [attempt EXCEPT ![j] = Closed(j, n, final)]
    /\ job' = [job EXCEPT ![j] = Retried(j, final)]
    /\ UNCHANGED <<acks, audit>>

\* fail_job: final is 'timeout' for the error category timeout, else 'failure'.
FailRetried(j, n, final) ==
    /\ LeaseHeld(j, n)
    /\ ~ job[j].cancelRequested
    /\ attempt' = [attempt EXCEPT ![j] = Closed(j, n, final)]
    /\ job' = [job EXCEPT ![j] = Retried(j, final)]
    /\ UNCHANGED <<acks, audit>>

FailJob(j, n, final) == FailCancelled(j, n) \/ FailRetried(j, n, final)

\* The rows recover_expired_leases selects and does not CONTINUE past.
Recoverable(j) ==
    /\ job[j].status = "running"
    /\ job[j].lease = "expired"
    /\ ~ job[j].cancelRequested
    /\ job[j].attempts \in DOMAIN attempt[j]
    /\ attempt[j][job[j].attempts].outcome = "open"

\* Mutant: the error category is written into the outcome column.
RecoverAsCategory(S) ==
    /\ S # {}
    /\ \A j \in S : Recoverable(j)
    /\ attempt' = [j \in Jobs |-> IF j \in S
                                  THEN Closed(j, job[j].attempts, "lease_timeout")
                                  ELSE attempt[j]]
    /\ job' = [j \in Jobs |-> IF j \in S THEN Retried(j, "timeout") ELSE job[j]]
    /\ UNCHANGED <<acks, audit>>

\* Mutant: the job is dead-lettered as a failure, its attempt as a timeout.
RecoverAsFailure(S) ==
    /\ S # {}
    /\ \A j \in S : Recoverable(j)
    /\ attempt' = [j \in Jobs |-> IF j \in S
                                  THEN Closed(j, job[j].attempts, "timeout")
                                  ELSE attempt[j]]
    /\ job' = [j \in Jobs |-> IF j \in S THEN Retried(j, "failure") ELSE job[j]]
    /\ UNCHANGED <<acks, audit>>

\* recover_expired_leases: one transaction over every such row that no other
\* transaction has locked (FOR UPDATE SKIP LOCKED).
RecoverExpiredLeases(S) ==
    /\ S # {}
    /\ \A j \in S : Recoverable(j)
    /\ attempt' = [j \in Jobs |-> IF j \in S
                                  THEN Closed(j, job[j].attempts, "timeout")
                                  ELSE attempt[j]]
    /\ job' = [j \in Jobs |-> IF j \in S THEN Retried(j, "timeout") ELSE job[j]]
    /\ UNCHANGED <<acks, audit>>

-----------------------------------------------------------------------------

\* clock_timestamp() passes timeout_at.
LeaseExpires(j) ==
    /\ job[j].lease = "live"
    /\ job' = [job EXCEPT ![j] = [@ EXCEPT !.lease = "expired"]]
    /\ UNCHANGED <<attempt, acks, audit>>

\* clock_timestamp() passes next_attempt_after.
BackoffElapses(j) ==
    /\ job[j].backoff
    /\ job' = [job EXCEPT ![j] = [@ EXCEPT !.backoff = FALSE]]
    /\ UNCHANGED <<attempt, acks, audit>>

\* A caller presents the lease (j, n) it was once given.
LeaseCall(j, n) ==
    \/ WorkerHeartbeat(j, n)
    \/ CompleteJob(j, n)
    \/ CancelJob(j, n)
    \/ \E final \in {"failure", "timeout"} : FailJob(j, n, final)

Next ==
    \/ \E j \in Jobs, k \in Keys \cup {NoKey}, r \in Requests : EnqueueJob(j, k, r)
    \/ \E j \in Jobs : RequestJobCancellation(j)
    \/ \E w \in Workers, j \in Jobs : ClaimNextJob(w, j)
    \/ \E j \in Jobs : \E n \in DOMAIN attempt[j] : LeaseCall(j, n)
    \/ \E S \in SUBSET Jobs : RecoverExpiredLeases(S)
    \/ \E j \in Jobs : LeaseExpires(j) \/ BackoffElapses(j)

Spec == Init /\ [][Next]_vars

-----------------------------------------------------------------------------
(***************************************************************************)
(* What the ledger promises.                                               *)
(***************************************************************************)

\* At most one lease of a job is in force: the attempts without an outcome are
\* exactly the newest one while the job runs, and none otherwise, although no
\* function compares the caller's attempt number with jobs.attempts and
\* job_attempts has no uniqueness constraint.
LeaseIsExclusive ==
    \A j \in Jobs :
        /\ job[j].attempts = Len(attempt[j])
        /\ {n \in DOMAIN attempt[j] : attempt[j][n].outcome = "open"}
             = IF job[j].status = "running" THEN {job[j].attempts} ELSE {}

\* The scheduling columns tell the same story as the status on every path
\* through claim, complete, cancel, fail and recovery: timeout_at is set exactly
\* while the job runs, finished_at exactly when it is over, dead_lettered
\* exactly on failure and timeout, a backoff only on a queued job, and worker_id
\* is the worker of the open attempt.
RowIsConsistent ==
    \A j \in Jobs :
        /\ job[j].lease # "none" <=> job[j].status = "running"
        /\ job[j].finished <=> job[j].status \in Terminal
        /\ job[j].deadLettered <=> job[j].status \in {"failure", "timeout"}
        /\ job[j].backoff => job[j].status = "queued"
        /\ job[j].status = "running" =>
              job[j].worker = attempt[j][job[j].attempts].worker

\* Retries are bounded: a job never gets more attempts than max_attempts, is
\* queued only while one is left, and is dead-lettered only when none is.
AttemptBudget ==
    \A j \in Jobs :
        /\ job[j].attempts <= Budget(j)
        /\ job[j].status = "queued" => job[j].attempts < Budget(j)
        /\ job[j].deadLettered => job[j].attempts = Budget(j)

\* A cancellation that was accepted is never overtaken: the job is still
\* running towards it or was cancelled, and did not succeed, fail or go back
\* to the queue.
CancelWins ==
    \A j \in Jobs :
        job[j].cancelRequested => job[j].status \in {"running", "cancelled"}

\* The final status of a job is the outcome of its last attempt (a job cancelled
\* from the queue has none, or a failed one), and every earlier attempt failed
\* or timed out: nothing is retried after it succeeded or was cancelled.
HistoryExplainsStatus ==
    \A j \in Jobs :
        /\ \A n \in DOMAIN attempt[j] :
              n < job[j].attempts => attempt[j][n].outcome \in {"failure", "timeout"}
        /\ job[j].status \in {"success", "failure", "timeout"} =>
              /\ job[j].attempts \in DOMAIN attempt[j]
              /\ attempt[j][job[j].attempts].outcome = job[j].status
        /\ job[j].status \in {"queued", "cancelled"} /\ job[j].attempts > 0 =>
              attempt[j][job[j].attempts].outcome
                \in {"failure", "timeout"} \cup
                   (IF job[j].status = "cancelled" THEN {"cancelled"} ELSE {})

\* Retrying POST /jobs with one idempotency key is safe: all successful answers
\* for a key name the same job and were given to the same request.
EnqueueIsIdempotent ==
    \A a, b \in acks : a.key = b.key /\ a.key # NoKey => a = b

\* The audit trail has exactly one job_run_requested event per job, and exactly
\* one job_cancel_requested event if and only if a member's cancellation was
\* accepted, whatever is replayed or repeated.
AuditedOnce ==
    \A j \in Jobs :
        /\ audit[j].runRequested = IF job[j].status = "absent" THEN 0 ELSE 1
        /\ audit[j].cancelRequested = IF job[j].cancelledBy THEN 1 ELSE 0

\* A terminal row never changes again, and neither do its attempts: no late
\* worker, recovery, claim or cancellation revives a finished job.
TerminalIsFinal ==
    [][\A j \in Jobs : job[j].status \in Terminal =>
          job'[j] = job[j] /\ attempt'[j] = attempt[j]]_vars

\* A stale worker cannot mutate a job after its lease was reclaimed: a call that
\* the ledger accepts presents the lease of the job's newest attempt.
StaleLeaseIsRejected ==
    [][\A j \in Jobs : \A n \in DOMAIN attempt[j] :
          LeaseCall(j, n) => n = job[j].attempts]_vars

\* Whatever was called, in whatever order and however often, every row of jobs and
\* job_attempts is well-typed, agrees with itself, stays within its budget of
\* attempts, and has a status that its history explains.
RowsAreSound == TypeOK /\ RowIsConsistent /\ AttemptBudget /\ HistoryExplainsStatus

\* What a member asked for happens once and is on record once, over replays, races
\* and lost answers: one job per idempotency key, one audit event per request.
RequestsCountOnce == EnqueueIsIdempotent /\ AuditedOnce

\* Nothing undoes an outcome: a job that is over is not changed again, and a lease
\* that is not in force any more changes nothing.
OutcomesAreFinal == TerminalIsFinal /\ StaleLeaseIsRejected

=============================================================================
