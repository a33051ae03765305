# A verification project for the SE skills applications

The repository is a suite of skills for sales engineers with two applications
around it: a hosted multi-tenant one (`src/webapp/hosted/`), which runs skills as
durable jobs in Postgres, executes them in a gVisor sandbox and keeps transcripts
and outputs in a Storage bucket, and a local single-user web application
(`src/webapp/app.py`, its routes, services and integrations), which keeps its state
in files. Besides these there are the calculators of the worker-analysis skill and
the evaluation runner. In the hosted application the state is spread over a database
and an object store that share no transaction, and workers, heartbeats, clocks,
members and crashes act on it in any order. In the local one coroutines, threads and
restarts act on many small files, and an operation is several writes.

Contents:

1. Inventory: the parts, their state, their interaction, what is hard in them
2. The modules and how they correspond to the code
3. The runs: what each checks, its bounds, its result
4. The proofs
5. What disagrees with the documentation, and what was noticed
6. What is not modelled, and the plan

## 1. Inventory

### Hosted application

| part | source | state | operations |
|---|---|---|---|
| job ledger | `migrations/003, 004, 006, 012, 013`, `jobs.py` | `public.jobs`, `public.job_attempts`, job events of `audit_events` | `enqueue_job`, `request_job_cancellation`, `claim_next_job`, `worker_heartbeat`, `complete_job`, `fail_job`, `cancel_job`, `recover_expired_leases` |
| worker process | `worker.py`, `executor.py`, `scripts/run_hosted_worker.py` | what the process is doing, the job and lease it holds | poll loop: recover, sweep, claim; heartbeat monitor; deadline; finalizers |
| post-call orchestrator | `post_call_orchestrator.py`, `migrations/004-008` | `public.outputs`, the outputs bucket | reconcile, run, stage, upload, complete, clean up, tombstone sweep |
| transcripts | `transcripts.py`, `migrations/002, 012, 013` | `public.transcripts`, the transcripts bucket | upload, download, request deletion, tombstone cleanup |
| reviews and corrections | `reviews.py`, `migrations/009` | `output_versions`, `reviews`, correction reservations, objects | comment, approve, reserve, upload, commit or abandon a correction, cleanup |
| exports | `exports.py`, `migrations/011` | audit events | authorize, render, record |
| model proxy | `model_proxy.py` | sessions, budgets, cancellation | handle a message, cancel, finalize |
| agent loop | `agent_loop_harness.py`, `runtime_contract.py` | turn and tool-call budgets | the typed-tool loop |
| sandbox executor and broker | `runsc_executor.py`, `scripts/runsc_broker.py`, `runsc/sandbox_entry.py` | journal per attempt; staging, bundle and state directories; the runsc process | `run`, `finalize`, `cleanup`, `list` |
| tenancy | `auth.py`, `db.py`, `accounts.py`, `migrations/001, 010` | memberships, signed request context, RLS | who may call what |
| host checks, migrations | `preflight.py`, `production_preflight.py`, `supply_chain*.py`, `firewall_policy.py`, `migrations.py` and others | none, schema version | fail-closed validation; run the SQL files in order |

How they interact: a member's request goes through the API (`jobs.py`) to
`enqueue_job`; a worker claims the job with a lease (attempt number and random
token) and renews it by heartbeats while the orchestrator runs the sandboxed skill;
the sandbox talks to the model through the proxy; the result is staged as an
`outputs` row, uploaded to Storage and made visible by `complete_job`, and is then
reviewed, corrected and exported. Cancellation, the deadline, a lost heartbeat and a
crash end an attempt from the side; `recover_expired_leases` returns its job to the
queue. Staged content that is not to be kept is tombstoned, and the poll loop sweeps
tombstones.

### Local application

| part | source (`services/` unless said) | state | operations |
|---|---|---|---|
| opportunity overview | `opportunity_state*.py`, `job_service.py`, `persistence.py` | version files, pointer, retirement, job table and its snapshot | create, update, promote, inspect, load after a restart |
| evidence ledger | `evidence_ledger_service.py` | one record and content per source, removal receipts | import, propose, clear, mark, retry, forget |
| command center | `command_center_operations_service.py`, `gmail_forget_service.py`, `command_center_read_service.py` | actions, changes, pending applications | reconcile, resume, correct, transition, undo, repair, forget; the pages |
| intake | `gmail_intake_service.py`, `granola_retrieval_service.py`, `integrations/gmail_live.py`, `granola_mcp_relay.py` | access marker, signal index | check, list, retrieve, revoke |
| portfolio and calendar | `salesforce_portfolio_service.py`, `calendar_snapshot_service.py` | last complete answer, mappings | refresh, map, establish |
| live transcription | `transcription_service.py` | sessions, held segments, session files | segment, start, stop, recover |
| skill runs and questions | `orchestrator.py`, `skill_runtime_service.py`, `job_service.py`, `ask_service.py` | job table | plan, invoke, run, ask, escalate |
| customer files | `account_service.py`, `output_service.py`, `feedback_service.py`, `routes/salesforce.py` | folders, trash, metadata, reviews, one git clone | create, rename and merge, archive, delete, restore, sync, push |
| checklist and landing page | `tech_eval_service.py`, `overview_service.py` | one tracker file per opportunity; none | read, update, reset; build the page |

The intakes write sources into the evidence ledger; a reconciliation takes a source
to a new version of its opportunity's overview and derives actions and changes; the
read services put pages together from all of these files.

### Skills and evaluation

Skill prompts (Markdown), the worker-analysis calculators, reports and job-history
cache (`skills/worker-analysis`), and the evaluation runner (`eval/`).

### What is hard, and what makes each part correct

* **Job ledger.** A stale worker presents a lease that recovery has taken away; a
  cancellation races a completion, a retry or a recovery; a request is replayed.
  Correct: one lease in force per job, a budget that is never exceeded, an accepted
  cancellation that is never overtaken, final outcomes, one job per idempotency key,
  one audit event per accepted action.
* **Worker and orchestrator.** Any call may fail before or after it took effect, the
  process may die between two calls, and a second attempt meets what the first one
  left. Correct: a job succeeded if and only if its output is visible, a visible
  output has its object and is immutable, no object is left without a row, every job
  ends.
* **Transcripts, reviews, exports.** The same two-system problem, with leases on
  cleanup, and authorizations that are old when they are used. Correct: what a member
  can read or a job needs has its content, what was deleted goes away, concurrent
  corrections leave one chain, what is exported was approved.
* **Sandbox, proxy, loop.** Each operation is a process that may be killed between two
  renames; loop, proxy and runtime end in any order. Correct: nothing runs that no
  journal names, partial output is never published, every attempt ends, and a success
  is accounted.
* **Overview and command center.** An operation is several files, and analysis runs
  without the lock. Correct: the files implement a chain of versions, nothing is
  promoted or shown that a source no longer authorizes, what is cut off is finished,
  and no source is stuck.
* **Local services.** Awaits and threads between a check and its use. Correct: what was
  forgotten stays gone, notes are those that were asked for, nothing a user wrote is
  lost, a run is the one that was asked for.
* **Calculations and caches.** Five programs measure one thing; files are written in
  place. Correct: the measures agree with their definitions, and what is served is whole.

The list of hazards, each at its line and with the properties that watch over it, is
in `PROJECT.json`.

## 2. The modules and how they correspond to the code

| module | models | extends |
|---|---|---|
| `JobLedger` | `public.jobs`, `public.job_attempts` and the SECURITY DEFINER functions in the definition in force after migration 013 | |
| `PostCall` | worker processes and the post-call orchestrator over the ledger, `public.outputs` and Storage | `JobLedger` |
| `Transcripts` | upload, deletion and reconciliation of transcripts beside the jobs that read them | `JobLedger` |
| `Reviews` | comments, approvals and the reserve/upload/commit/abandon protocol of corrections | |
| `Exports` | the export of an approved version beside reviews and corrections | `Reviews` |
| `SandboxCustody` | the broker's `run`, `finalize` and `cleanup` with the worker's runner and the owner of the directories | |
| `AgentRun` | one attempt at the model: the tool loop, the proxy's session, the runtime that closes the books | |
| `OverviewChain` | abstract: what the store of an overview promises its readers | |
| `OverviewStore` | the files, jobs and snapshots of an overview; implements `OverviewChain` | |
| `EvidenceLedger` | what each ledger operation does to the record of a source | |
| `CommandCenter` | reconciliation, corrections, transitions, repair and removal, write by write | `EvidenceLedger` |
| `CommandCenterViews` | the pages over these records | `CommandCenter` |
| `MailIntake`, `NotesIntake` | the Gmail and Granola retrievals | `EvidenceLedger` |
| `Portfolio` | Salesforce refreshes and mappings, the calendar, the join of the rows | |
| `LiveSession` | live transcription: channels, held segments, stop, restart | |
| `SkillRuns` | planning, invocation, run of the CLI, questions | |
| `CustomerFiles` | customer folders, outputs, trash, sync | |
| `HandoffPush` | pushes of a handoff on one git clone | |
| `JobConcurrency`, `WorkerSizing`, `Schedules` | the algorithms of the worker-analysis skill | |
| `WorkerAnalysis` | one question to the skill and its report | the three above |
| `JobHistory` | collecting and caching a job history by concurrent commands | |
| `EvalRunner` | a command of the evaluation runner | |
| `TechEval`, `LandingPage` | the checklist of an evaluation; the landing page | |
| `JobLedgerProofs`, `OverviewProofs`, `ReviewsProofs` | theorems about `JobLedger`, `OverviewStore`, `Reviews` and `Exports` | that module, TLAPS |
| `CommandCenterProofs` | theorems about `CommandCenter` and its views | `CommandCenterViews`, TLAPS |
| `RunnerProofs` | theorems about what runs skills and tools: `AgentRun`, `SandboxCustody`, `JobHistory`, `EvalRunner` | those modules, TLAPS |
| `PostCallProofs`, `TranscriptsProofs` | theorems about the modules that compose the ledger | `PostCall` or `Transcripts`, `JobLedgerProofs` |
| `LocalProofs` | theorems about the six local services named in section 4 | those modules, TLAPS |
| `MCJobLedger`, `MCPostCall`, `MCTranscripts`, `MCReviews`, `MCLocal`, `MCTools` | values of the constants for TLC; the last three also put specifications side by side that share no state, with a variable `focus` that says which one a behaviour is about | the modules named |

`PROJECT.json` maps the definitions that stand for code to their source lines; small
helpers and the properties are not in it.

**JobLedger.** The state is the two tables, the successful answers of `POST /jobs`
(`acks`) and the number of audit events per job. Each database function is one
transaction that locks the job row first, so each is one action: `EnqueueJob` (insert
or replay), `RequestJobCancellation` (a queued job is cancelled at once, a running one
is marked), `ClaimNextJob`, `WorkerHeartbeat`, `CompleteJob`, `CancelJob`, `FailJob`,
`RecoverExpiredLeases` (its `LIMIT` and `SKIP LOCKED` make it any set of expired rows).
A lease token is a fresh uuid in one attempt row, so the pair of job and attempt number
stands for it. The callers are as general as possible: any lease ever granted may be
presented at any time. Time is reduced to the comparisons the code makes: `timeout_at`
is none, live or expired, and a backoff has elapsed or not. `ORDER BY` of a claim is
abstracted to any eligible row.

**PostCall.** A worker process is a program counter with the job and attempt it holds.
Poll loop, execution, cleanup and finalizers are sequences of database and Storage
calls; each call is one action and may fail before or after it took effect (bounded by
`MaxFaults`). The process may die between any two calls, and a successor be started;
the deadline and the heartbeat monitor may end an execution between any two calls. The
part of `complete_job`, `cancel_job` and `fail_job` that writes `public.outputs` is
conjoined to the action of `JobLedger`. Switches: `Started` (the processes that run at
the outset: one, as the deployment has it, or two), `LateStorage` (Storage may carry
out a request after its caller gave up), `Cancellable`.

**Transcripts.** An upload is validate, store, insert, and on an error delete; an
enqueue is a read of the transcript followed by `enqueue_job`, whose row lock and check
are the guard of `EnqueueForTranscript`; a deletion marks the row and schedules the
object's removal; the cleanup of each worker is claim, delete, finalize or release. A
cleanup that outlasts its 60-second lease counts as a fault, since the Storage
timeout is 30 seconds.

**Reviews, Exports.** One output, its version chain, the reservations, and submissions
that are HTTP requests: reserve, upload, commit, or discard and abandon; a retry is a
second submission with the same request id. `OpenEditor` is the base version a member
started from. Switches: `Overlapping` (a retry may be sent while the first request
runs), `LostCommits` (a commit may lose its answer), `Slow` (a request may outlast the
grace period, a cleanup its lease). An export is authorize, read and render, record:
three steps between which the chain and its approvals may change; the record compares
with what an earlier event of the same key says.

**SandboxCustody.** One attempt: the journal file, the three directories of the worker,
the staging, bundle and state directories, the process group of runsc and whether
runsc lists the container. `run` and `finalize` are program counters whose steps are
the writes of the journal, the renames, the start and the release of the child and the
removals, in the order of the code; the worker's `finalize` and the sweeper's are two
instances. Each may die between two steps, as may the worker and the host. A signal of
the worker to `sudo` may be refused. Two orders are excluded by times in the code:
`run` has left its setup when `finalize` starts, and a journal becomes old only when
the processes of its attempt are gone. File contents are reduced to none, empty,
partial and result.

**AgentRun.** The loop sends numbered requests, executes the tools of an answer in
order and collects its output; the proxy checks the number, forwards, books the usage
and remembers a terminal failure; the runtime waits for the runner or the cancellation,
cancels the session and consumes its books. The model may answer anything. An answer
costs one unit.

**OverviewStore, OverviewChain.** A version is a file that counts once the pointer names
it; create and update jobs read evidence, ask the model (which may fail or produce an
invalid candidate), write the version and then the pointer; the job table is saved by
snapshots. Writes may fail and the server may die between any two. The refinement maps
the chain to the versions reachable from the pointer. A selection, and the cumulative
manifest that it would give, are held to the limit of 50 transcripts beside the metadata
(`MaxManifest` is 51 in the code) each time `_snapshot` runs; readiness is not.

**JobConcurrency, WorkerAnalysis.** A history is raw jobs with the set of connections
that are active: `non_metabase_customer_report` leaves out the others before it chooses
the day and samples it, and no other program looks at the status of a connection.

**EvidenceLedger, CommandCenter, CommandCenterViews.** A source has revisions, an
association and a processing status. An operation that writes holds the lock and has a
list of writes left (`todo`); a failing write ends it, a death drops the rest. An
analysis job runs without the lock and takes it to commit. The views are operators over
the files, as the read service computes them.

**MailIntake, NotesIntake, Portfolio.** The steps are what lies between two awaits. In
`MailIntake` each request to Google reads the credential again and may speak for another
account; in `NotesIntake` the language model that relays a call is not trusted; in
`Portfolio` a refresh holds a lock and a mapping does not.

**LiveSession, SkillRuns, CustomerFiles, HandoffPush.** Capture threads, the event loop
and threads of the pool act on a session; requests to run a skill are coroutines with
the search, the checks and the launch between awaits; a request on customer folders is
one step, a skill run three; a push is one step per git command on a shared clone.

**Worker analysis.** Times are ticks with a minute of two and a day of eight, so that
events fall on, between and beside the samples. `JobHistory` has processes that read the
newest cache file, walk the API with failures, and write a file in place, chunk by
chunk; each may be killed.

**EvalRunner, TechEval, LandingPage.** A command with its workspaces and reports; the
tracker file with the renames of its folder; a page built from two reads between which
jobs end.

## 3. The runs

| run | configuration | result |
|---|---|---|
| `ledger` | two jobs, two workers, one key, budgets of one and two attempts, symmetric in jobs and workers | holds |
| `postcall_one` | one job with two attempts, one worker process and its successor, 2 faults, with fairness | safety, refinement of the ledger and progress hold |
| `postcall_pool` | two workers at once and late Storage requests, 2 faults | the database side holds |
| `stuck_cancel` | as `postcall_one`, no faults | `EveryJobEnds` violated: section 5 |
| `transcripts` | one transcript, one job, two cleaning workers, 2 faults, with fairness | holds |
| `reviews` | two request ids, three submissions, one of them a retry, comments, approvals, one cleaning worker, 1 fault, slow requests; two submissions within the grace period whose commits may lose their answer, with fairness; three exports, two with one key, beside a correction | holds |
| `custody` | one attempt, 3 failures, with fairness | holds |
| `overview` | two transcripts, a third that may be saved later, and the metadata, two contents each, a manifest of at most three, two jobs, one edit, one fault, with fairness | holds, refinement included |
| `command_center` | two sources, one of them a mail, two opportunities, up to 2 revisions, 4 versions, 4 requests, 1 fault | holds |
| `local_services` | two mails of one mailbox and a second account; two meetings; three Salesforce ids and two folders; one session; two clients; two customers and three names; three pushes | holds |
| `live_held` | one session, no restart needed | `StopSavesHeld` violated: section 5 |
| `tools` | two connections, one of them perhaps not active, and a day of eight ticks; two processes and three commands on one cache folder, four writes; two evaluations over two scenarios; one attempt with two turns; four edits of a checklist; all small landing pages | holds, with fairness of the attempt |

What they show:

* `ledger`: `RowsAreSound` (types, scheduling columns, retry budget and history agree),
  `LeaseIsExclusive`, `CancelWins`, `RequestsCountOnce` (idempotent enqueue, exact
  audit), `OutcomesAreFinal` (terminal rows and stale leases).
* `postcall_one`: `OutputsAreOwned` (a visible output has the bytes its row names, no
  object without a row), `WorkIsFinished` (every step is one of the ledger's, jobs that
  are not cancelled end, tombstones are swept). `postcall_pool`: `SuccessIsWhole` (a job
  succeeded if and only if its output is visible, and a later attempt has nothing to
  recover), `ValidOutputIsImmutable`.
* `transcripts`: `TranscriptsAreKept` (a job that may still run has its input, although
  the API's check is stale when `enqueue_job` runs; a listed transcript has its object;
  `complete` means gone), `DeletionIsDone` (final, and carried out).
* `reviews`: `ReviewsAreRecorded` (the corrections form one line; versions, reservations,
  reviews and audit agree), `ObjectsAreKept` (a committed version keeps its object
  however slow requests and cleanups are; while nothing is slow no object escapes the
  reservations, even if commits lose their answers; an export was approved in exactly its
  version), `ReviewsAreSettled` (history is immutable, reservations are settled).
* `custody`: `CustodyIsSafe` (a running sandbox is named by a journal, partial output
  never reaches the worker, a removed journal means nothing is left, a success can be
  read), `CustodyIsEnded` (a published result is not replaced, sandboxes stop, custody
  is released).
* `overview`: `ImplementsChain` (the refinement of `OverviewChain`), `OneWriter`,
  `ReportsAreTrue` (a job that is done has committed; no update would be accepted exactly
  when readiness says up to date or the manifest is full and only uncited transcripts are
  new; no version file exceeds the limit), `JobsEnd`.
* `command_center`: `PromotedIsAuthorized` (the commit barrier), `OperationsAreWhole`
  (applied sources and recorded transitions over cut-off operations and repair),
  `ViewsAreAuthorized`, `ScreensAreTrue` (fresh is fresh, no source falls through, what
  is offered is accepted).
* `local_services`: `ForgottenStaysGone`, `RevokedStaysWithheld`, `NotesMatch`,
  `RowsAreOwn`, `LastGoodStays`, `StopKeepsAll`, `RunsAsAsked`, `NothingLost`,
  `PrHasOwnPage`, each with its exceptions in its comment.
* `tools`: `ResultIsFaithful` and `EveryAttemptEnds` (the attempt), `PeaksAgree` and
  `AdviceAgrees` (the algorithms against their definitions; the customer report against the
  other sampler restricted to the active connections), `ServedIsWhole` (the cache),
  `SuiteIsReported` (the evaluation runner), `PagesAgree` (checklist and landing page).

**Bounds.** One job suffices for the workers, since an execution touches the rows and
the object of its job only; two attempts are the least with a retry that meets what the
first left and is also the last. Two faults reach a failure in the handling of a
failure. Two request ids are the least that compete for one base version; the third
submission is the retry. Three failures in the custody run kill the broker, the worker
and a finalize in one attempt. Two sources, two opportunities and four requests let a
source be analysed, moved, revised and repaired while another is applied. A manifest of
three is full after a first version with both saved transcripts, which the third then
meets, and not full after one with a single transcript. Two jobs and
one fault are the least in which an overview job meets what a dead one left. The local
services have two of whatever competes: mails, meetings, clients, customers, commands.
Three pushes let one leave files behind that two others meet. The algorithms are checked
over every input of the sets in `MCTools`, chosen around the thresholds. What
section 4 lists is proved without bounds. Deadlock is not checked: a system in which every job
has ended and nobody acts is at rest, and the liveness properties say what must have
happened before.

**Fairness.** Only what a live process or a clock does is forced: in `PostCall` weak
fairness of each worker's next call (`Worker.run` loops for ever and catches the errors
of an iteration), of the service manager's restart (`Restart=` in the unit file) and of
the clocks of lease, backoff and claims; in `Transcripts` of the poll loop's cleanup
and the claim clock; in `Reviews` of the cleanup, the clock and a request that was
accepted; in `SandboxCustody` of the broker's processes, the runner and its owner, the
cleanup timer and the age of the journal; in `OverviewStore` of the steps of a job whose
task runs and of the restart; in `AgentRun` of the loop, the proxy, the runtime and the
deadline. Crashes, failing calls, heartbeats, cancellations and what members do may or
may not happen; the end of the sandbox itself is not forced in `SandboxCustody`.

**Mutants.** For every property of a passing run, and for most parts of one that is a
conjunction, a plausible slip in one definition (a dropped guard, a skipped comparison, a
missing reset) is defined before it and named in `PROJECT.json`; with the slip in place
TLC finds the property violated.

## 4. The proofs

The theorems hold for any sets of jobs, workers, transcripts, members, requests,
sessions, mails and so on and for any bounds on faults, from the named assumptions in
the modules that declare the constants (budgets and counters are numbers, NULL is
neither a worker nor a key, every submission has a request id). What a theorem assumes
beyond these is in its row.

| theorem | states | assuming |
|---|---|---|
| `JobLedgerProofs` `ExclusiveLease` | `LeaseIsExclusive` | |
| `CancellationWins` | `CancelWins` | |
| `SoundRows` | `RowsAreSound`, from `TypeCorrect`, `ConsistentRow`, `BoundedRetries` and `HistoryIsFaithful` | |
| `RequestsOnce` | `RequestsCountOnce`, from `IdempotentEnqueue` and `AuditIsExact` | |
| `FinalOutcomes` | `OutcomesAreFinal`, from `TerminalStays` and `StaleLeases` | |
| `PostCallProofs` `LedgerRespected` | every step of the workers is one of the ledger or leaves it alone | |
| `WholeSuccess` | `SuccessIsWhole` | |
| `ImmutableOutput` | `ValidOutputIsImmutable` | |
| `OwnedOutputs` | `OutputsAreOwned` | one process at the outset, Storage in time |
| `TranscriptsProofs` `JobsAreLedgers` | the ledger's specification, so all its theorems | |
| `KeptTranscripts` | `TranscriptsAreKept` | commits keep their answers |
| `NeverMisreported` | its parts `ActiveJobHasInput`, `CompleteMeansGone` | |
| `FinalDeletion` | `DeletionIsFinal`, the safety half of `DeletionIsDone` | |
| `ReviewsProofs` `Recorded` | `ReviewsAreRecorded` | |
| `Immutable` | `HistoryIsImmutable`, the safety half of `ReviewsAreSettled` | |
| `KeptObjects` | `CommittedHasObject` | commits keep their answers, a retry waits |
| `TrackedObjects` | `ObjectIsTracked` | nothing is slow, a request is sent once |
| `ApprovedExports` | `ExportsAreApproved`, a part of `ObjectsAreKept` | |
| `RunnerProofs` `SafeCustody` | `CustodyIsSafe` | |
| `KeptResult` | `ResultIsKept`, the safety half of `CustodyIsEnded` | |
| `FaithfulResult` | `ResultIsFaithful` | |
| `NoCallWithoutBooks` | a call under way keeps the books open | |
| `ServedHistory` | `ServedIsWhole` | |
| `SuiteReported` | `SuiteIsReported` | |
| `OverviewProofs` `OneAtATime` | `OneWriter` | |
| `TrueReports` | `ReportsAreTrue` | |
| `CommittedForGood` | a committed revision is never rewritten | |
| `Refinement` | `ImplementsChain` | |
| `CommandCenterProofs` `CenterTypesHold` | the types of files, jobs and pending writes; the status of a record agrees with its revision and association | |
| `Promotion` | `PromotedIsAuthorized` | |
| `Views` | `ViewsAreAuthorized` | its exception for a correction cut off |
| `Screens` | `ScreensAreTrue` | the same |
| `Transitions` | `TransitionsAreRecorded`, a part of `OperationsAreWhole` | |
| `Operations` | `OperationsAreWhole` | the same, and for `ProcessedIsApplied` one fault |
| `LocalProofs` `OwnPage` | `PrHasOwnPage` | |
| `OwnRowsAlways` | `RowsAreOwn` | one mapping at a time |
| `LastGood` | `LastGoodStays` | |
| `RunsWereAsked` | `RunsAsAsked` | |
| `ForgottenForGood`, `RevokedForGood` | `ForgottenStaysGone`, `RevokedStaysWithheld` | |
| `NotesOfTheirOwn` | `NotesMatch` | |
| `StopsKeep` | `StopKeepsAll` | no two stops write one file (`Apart`) |

The assumptions in the last column are those the code makes tacitly, or guards that the
property itself states; section 5 says what happens without the main ones. In the command
center `CenterAssumption` gives the constants their types, and `NamesAssumption` says that
sources and opportunities are finitely many and are none of the marks `None`,
`unassociated` and `proposed`. A request slower than the grace period finds its
reservation taken over and may upload an object nobody comes back to.

None of these invariants is inductive alone. What has to be added, and why:

* **The ledger** (`IInv`). That a lease presented is the newest needs that an open attempt
  exists only while the job runs; that a retry stays within the budget needs that
  `attempts` is the length of the history; that an accepted cancellation wins needs the
  lease discipline. Six parts over the triple (row, history, audit counts) of one job,
  and two facts about several rows: keys are unique, and every answer names a row that
  still carries its key. One lemma per kind of transition, `OneJob` lifts it to the
  ledger, one lemma per function does the step.
* **The workers** (`PoolInv`, `SoloInv`). `PoolInv` holds with several workers and a late
  Storage: a worker acts under an attempt of its own, which nobody else is given or
  reopens (`HistoryGrows`), and a lease that still holds on the way to the INSERT means
  a job without an outputs row. What is in Storage no lease protects, so `SoloInv` adds
  what the one worker that is awake knows of its row and of its object at each of its
  calls.
* **Transcripts** (`Tidy`, `Kept`). An upload that waits for its row has its object and no
  row; a worker only holds tombstones, and the object is gone when it is about to
  finalize one. That the error handler finds no row is in `Kept` alone: it is what a lost
  commit breaks.
* **Reviews** (`BooksInv`, `KeptInv`, `TrackedInv`). The tables written in one transaction
  agree (`BooksInv`, whatever is lost or repeated); who may still delete the object of a
  reservation (`KeptInv`); the cleanup takes over nothing a request still works on
  (`TrackedInv`); and since no step changes a recorded review (`StaysOnRecord`), an export
  under way keeps the approval it was granted on (`ExportInv`).
* **Custody** (`CustodyInv`). Who can be at work at the same time: a finalize starts only
  when run has left its setup, the sweeper only when all others are gone (`SetupInv`,
  `QuietInv`); a journal says "restore" exactly when run exited with 0, which it does only
  after the sandbox did (`RecordInv`, `RunscInv`); and what each finalize has read and
  removed so far (`Finalizing`). TLC has checked `CustodyInv` on the run's instance too.
* **An attempt at the model** (`Inv` of `FaithfulResult`). A request is under way only
  while the loop waits for it or has given up; until then the books hold one unit for each
  answer the loop was given; a call keeps the books open.
* **The overview** (`Inv` of `OverviewProofs`). Phases of jobs and of their snapshots;
  consecutive revisions with at most one beyond the pointer and what a job between its two
  writes has put there; every table that says "done", in memory, in a snapshot or on disk,
  is backed by a file; and version files cite at most `MaxManifest` pieces (`ManifestsFit`),
  since what a job was authorized for is counted again before it is written. This and
  counting what one selected transcript adds give the readiness part. The refinement maps a step to one appended revision or a stutter.
* **The command center.** An operation writes one file after the other, holding the lock
  with a list of writes left, and may be cut off before any of them. Every invariant
  therefore speaks of the files and of what is left to write; `Kinds` sorts the steps (a
  list taken, a write done, a list dropped, a step that writes nothing), lemmas named
  `...Done` say what each list contains without unfolding how it is computed, and one
  lemma per invariant shows that every kind keeps it.
  - `Promised`: a version of the model that is left to write is preceded by its marker
    only, and its source, its base and its availability are still those of the run.
  - `Chains`: a version adds citations of one source at most, and none when it removes a
    mail (`Grows`); sources leave an overview in the reverse of the order in which they came
    (`Nested`); what is still cited after a removal was there before the mail (`Removes`).
    Every version left to write extends this chain (`Extends`).
  - `Effects`: whatever shows a source shows it where the source belongs (`Shown`), or the
    correction or removal under way still has to take it back (`AllProper`,
    `Completes`). A correction that is cut off is not taken up again, so after one
    (`counts.torn`) nothing is said.
  - `Cited`: what is marked processed is cited by the latest version (`Kept`), by each
    version left to write (`KeptBy`), and a mark comes after its version (`Marks`).
  - `Trailed`: no two changes record one transition, none is ahead of the action, all but
    the last of a user's are there, and the repair of the last comes before the next
    write of the action. It needs no other invariant and no bound on the faults.
  - `Sound`, for one fault at most: each cited revision has a version that was made from
    it; a marker names the base of the version that will be, or was, made from its
    source; a run that resumes finds that version and no other; and what is left brings
    the evidence its version asks for before the mark. `Turn` says what a step does to
    markers, resumptions and the count of faults.
* **The job history** (`HistoryInv`). Files are numbered in the order of their days
  (`CacheOK`); a command that found a young file and has yet to open one finds that file or
  a later one in the folder, however many others were written between (`AgedOK`).
* **The evaluation runner** (`EvalInv`). What has run and what is left make up the suite
  in its order (`TodoOK`); each result so far is in a report of this command (`ResultsOK`),
  the combined one was written after the last (`CombinedOK`), and each failed manifest
  has its workspace until the cleanup (`SpacesOK`).
* **The local services**, one invariant each, listed at the head of `LocalProofs`.

**Only model-checked.**

* All liveness (fairness and ENABLED are out of the prover's reach): the progress halves of
  `WorkIsFinished`, `DeletionIsDone`, `ReviewsAreSettled` and `CustodyIsEnded`, and
  `JobsEnd` and `EveryAttemptEnds`.
* What a recursive definition or a fold computes, which needs induction over data:
  `NothingLost` (the merge of customers folds over lists), `PeaksAgree`, `AdviceAgrees`
  and `PagesAgree` (algorithms against their definitions).
* `ObjectsAreKept` as a whole: it is stated in `MCReviews` over two specifications side by
  side, and its three parts are the theorems `KeptObjects`, `TrackedObjects` and
  `ApprovedExports`.
* That the run of a part is the run of its module: `MCLocal`, `MCTools` and `MCReviews` put
  specifications side by side; the theorems are about each one alone.

## 5. What disagrees with the documentation, and what was noticed

Two disagreements have a run with a counterexample and an entry under `findings`:

* `stuck_cancel`: a running job whose cancellation was accepted and whose worker then
  dies stays in `running` for ever, because lease recovery skips rows with
  `cancel_requested_at` set.
* `live_held`: `stop` and `_flush_pending_you` unpack each held segment as a pair, but a
  `_PendingMicSegment` is a dataclass: when a segment is held the stop raises, no
  transcript is written, and the session is gone until a restart recovers its file.

Four more can be reproduced by changing a switch of a configuration:

* `StagedOutputIsTombstoned` as an INVARIANT of `PostCallOne.cfg`: recovery ends an
  attempt without touching `public.outputs`; when that was the last attempt, or the job is
  then cancelled from the queue, the staged row and object stay without a tombstone, and
  the sweeper never finds them (`docs/DATA_MODEL.md:226` promises a cleanup).
* `LostCommits = TRUE` in `Transcripts.cfg`: the error handler of an upload whose insert
  committed and lost its answer (`transcripts.py:416`) deletes the object of a visible
  transcript. The same happens to corrections with `LostCommits = TRUE` in `Reviews.cfg`.
* `Overlapping = TRUE` in `Reviews.cfg`: a retry that overlaps its first request fails to
  upload because the object is there, and deletes the object that the first request
  commits (`reviews.py:639`).
* `WorkspaceIsEmptied` as a PROPERTY of `Custody.cfg` with `MaxFaults = 0`: an outer
  cancellation abandons the runner (`runsc_executor.py:658`); its finalize publishes an
  empty output directory after the orchestrator has removed its own
  (`docs/ROADMAP.md:258` says that all directories are removed).

Seen while modelling, without a run of their own. Hosted application:

* With `LateStorage` a Storage request carried out after its caller gave up can leave an
  object without a row, and with two started workers the sweeper of one can delete the
  object that the other has just reconciled; both are why `OutputsAreOwned` is checked
  for one process with timely Storage.
* At the ceiling of cleanup attempts, which counts claims that never reached Storage, a
  reservation stays unsettled.
* `docs/ARCHITECTURE.md:121` says recovery ends an exhausted job in `failure`; the
  function writes `timeout`.
* The broker exits with 64 on every error, so the explicit failures for exits 65 and 66
  of `docs/RUNBOOK.md:79` never occur.
* When finalize dies between publication and the removal of the journal and the worker
  is gone too, the destination stays occupied and every later sweep fails, closed, as
  `docs/RUNBOOK.md:111` says; `CustodyIsReleased` states this exception.
* `claim_next_tombstoned_output` orders by `tombstoned_at` and gives a worker its own
  claim back at once, so an object whose delete always fails is retried ahead of all
  others.
* When two exports with one key race, the branch of `record_output_export` that meets the
  other's event does not compare the user, as the first branch does.
* A request with number 1 that reaches the proxy after the session was consumed creates
  the session again.

Overview and command center:

* `get_readiness` (`opportunity_state_update_service.py:237`) does not know the limit of 51
  entries that `_cumulative_manifest` enforces with 413 `manifest_limit` (line 140): when
  an overview cites 50 transcripts, and nothing it cites has changed, a new transcript
  makes the page offer an update that is refused for every selection. `ReadinessAgrees`
  states this exception exactly (`OutOfRoom`); replacing a changed transcript and taking
  over changed metadata remain possible. `_reconcile` in the command center calls the same
  function and does not catch the error, so that at the limit its job ends without `_fail`
  and the source stays in `processing`, as after a death, until it is started again.
  `CommandCenter` has no such limit (it has few sources); it reaches that state by a death
  of the process.
* After a death between the version and the pointer, `load_jobs` reports "no state was
  promoted. Retry when ready." (`persistence.py:127`); the version file is there, and a
  create leaves it also when the pointer's write fails, while an update removes it. An
  older snapshot can overtake a newer one, since each is written in a thread.
* `ensure_change` identifies a change by type, subject and revision, without the source:
  the same revision number of another source counts as recorded
  (`command_center_operations_service.py:1563`; the docstring says each is written unless
  it was). A correction that is cut off is not resumed; the first retry after a death
  between the pending record and the promotion fails; an undo does not look at
  retraction, and a retracted action is never restored.
* `_promoted_version_for` (`command_center_operations_service.py:1008`) takes a version
  for the one that was promoted when its parent is the marker's base and it cites the
  source. After two faults that need not be so: an application is cut off between its
  version and its actions, a later run of the same source between its marker and its
  version; the next version, of another source, cites the first and fits the marker, and
  resuming marks it processed without the action that its analysis asked for.
  `ProcessedIsApplied` therefore speaks of one fault at most.
* A correction that is cut off between its version and the sources it dropped leaves a
  source that is marked processed and is in no overview, and no page shows it: with five
  requests the run finds this, and `NothingFallsThrough` states the exception.
* Today omits a source whose analysis died in `processing`; freshness may read "Current
  through the latest user-initiated import" while the overview is withheld. The detail of
  a retired action is served although the list leaves it out.
* `_evaluation` (`command_center_read_service.py:398`) reads the key `overall`, but the
  checklist's summary calls it `overall_state`: the page never shows it.
* After the rename of an account its checklists are refused as malformed for ever
  (`tech_eval_service.py:170`), and the opportunity workspace does not catch that.
* The landing page reads the outputs before the jobs: of a job that ends between the two
  the page shows the end but not the outputs; `PagesAgree` is about the numbers drawn from
  the two snapshots. It also cuts the outputs that need attention to the newest before it
  sorts by severity (`overview_service.py:327`); accounts of somebody who left the team,
  and jobs of renamed accounts, are in no row.

Local services:

* A retrieval that is under way when access is revoked still imports what it gets
  (`docs/COMMAND_CENTER.md:85` says a stale copy must not count as accessible); an account
  that is switched and switched back during a retrieval is not noticed.
* `confirm_mapping` has no lock: of two mappings at the same time one may be lost.
* Two stops of different sessions of one customer can choose the same `-vN` name, since a
  stop tests that a name is free and writes the file afterwards
  (`transcription_service.py:739`): one transcript replaces the other. `LocalServices.cfg`
  has one session, and `StopsKeep` assumes that this does not happen (`Apart`). Late
  segments create the session file again.
* `find_reused_job` compares signatures that hold 80 characters of the instruction; the
  prerequisites that were checked may be stale when the run starts; a run that times out
  leaves its process; the error path of a question ends without `done`, which "always
  stays last" (`ask_service.py:228`).
* Renames that chain or swap names in one sync merge customers
  (`routes/salesforce.py:93`); a folder trashed twice within a second overwrites its trash;
  a run that is still writing creates the old folder again.
* Two pushes at once share the checked-out branch: a pull request may have another's page
  or not its own.

Tools:

* `calculate_hourly_patterns` skips connections that are not active
  (`non_metabase_customer_report.py:393`) and `analyze_concurrency_by_hour` does not: for a
  history with jobs of a connection that was switched off since, the two reports show other
  peaks, and of another day when the latest job is one of those. `PeaksAgree` compares them
  on the active connections.
* `job_history_analyzer` reads the key `max_concurrent_during_peak` also from answers that
  lack it. Names that map to one folder share a cache, a failed fetch is cached for a week
  like a good one, and a torn newest file hides a good older one.
* A synthetic prerequisite can be selected as the output of the skill under test
  (`eval/runner.py:485`); `--retain-failures` keeps the workspace of a manifest that passed
  when another failed, while `eval/README.md:121` says "only failed suite workspaces"; an
  empty array of the judge passes.

## 6. What is not modelled, and the plan

Callers are taken to be authorized members of one organization: row-level security and
signed context are not modelled. Each database function is atomic; the opposite lock
orders of `commit_output_correction` and `reserve_output_correction` (a deadlock that
Postgres resolves by aborting one) are one of the failing calls. The proxy's semaphore
over attempts, prompts, rendering, schemas, sheet export, host checks, migrations,
deployment, third-party clients, the size limits on transcripts (500 kB each, 750 kB
together, 200 in a folder), the HTTP layer and the opportunity workspace have no
state of their own that interleaves, or state that the code only reads.
`worker_concurrency_analyzer.py` is a script over data of its own. `PROJECT.json` gives
the reason for each part under `components`.

Plan, in order:

1. **Proofs** of the parts of `NothingLost` that do not merge lists, and of what the
   command center still promises after two faults (the versions and their citations are
   proved for any number; the evidence of the actions is not).
2. **Corrections at the level of row locks.**
3. **Two attempts at the model at once**, with the proxy's semaphore.
