--------------------------- MODULE SandboxCustody ---------------------------
(***************************************************************************)
(* The custody of one sandboxed attempt, src/scripts/runsc_broker.py, with *)
(* the part of the worker that drives it: RunscSandboxRunner in            *)
(* src/webapp/hosted/runsc_executor.py and the workspace directories of    *)
(* src/webapp/hosted/post_call_orchestrator.py.                            *)
(*                                                                         *)
(* Every operation of the broker is a process of its own, started through  *)
(* sudo.  run seals the worker's directories into a root-owned staging     *)
(* directory, writes a journal before and after each rename, starts runsc  *)
(* behind a barrier and records its identity before it lets it go.         *)
(* finalize reads the journal, proves that nothing runs any more, publishes *)
(* the output and removes the journal last.  The worker calls finalize     *)
(* once; the stale sweeper calls it again for journals that are old.       *)
(*                                                                         *)
(* Any of these processes may die between two steps, the host may go down, *)
(* and a signal the worker sends to sudo may be refused (sudo runs with    *)
(* the real uid of root), so run may be alive when finalize starts.  Two   *)
(* orders are excluded by the code's times: run has started runsc or has   *)
(* failed when finalize starts (5 to 15 seconds after the worker gives     *)
(* up), and a journal becomes old (an hour) only when the processes of its *)
(* attempt (at most 15 minutes) are gone.                                  *)
(***************************************************************************)
EXTENDS Naturals

CONSTANTS
    NoJournal,  \* there is no journal file
    MaxFaults   \* bound: checks that fail, processes that die

ASSUME CustodyAssumption == MaxFaults \in Nat

VARIABLES
    journal,  \* the journal file, or NoJournal
    old,      \* whether its mtime is older than cleanup_min_age_seconds
    ws,       \* the worker's directories: input, output and the proxy socket
    stg,      \* the staging directory and what is in it
    bundle,   \* whether the bundle directory exists
    state,    \* whether the runsc state directory exists
    runsc,    \* the process group of runsc
    listed,   \* whether runsc list names the container
    run,      \* program counter of the broker's run operation
    fin,      \* its finalize operation, of the worker and of the sweeper
    runner,   \* RunscSandboxRunner.run in the worker
    owner,    \* the orchestrator, which owns the directories
    faults

paths == <<ws, stg, bundle, state>>
sandbox == <<runsc, listed>>
worker == <<runner, owner>>
cvars == <<journal, old, paths, sandbox, run, fin, worker, faults>>

-----------------------------------------------------------------------------

\* What an output directory holds: "partial" is what a sandbox that did not end
\* well has written, "result" what one that exited with 0 has.
Content == {"none", "empty", "partial", "result"}

Phase == {"prepared", "input-sealed", "output-sealed", "proxy-sealed", "configured",
          "running", "run-finished", "run-failed"}

Journal == [phase: Phase, terminal: {"restore", "discard"}, pid: BOOLEAN]

ASSUME NoJournalAssumption == NoJournal \notin Journal

SetupPC == {"idle", "mkdirs", "mv-input", "j-input", "mv-output", "j-output",
            "mv-proxy", "j-proxy", "configure", "spawn", "record", "release"}

RunPC == SetupPC \cup {"wait", "report", "exit0", "exit1"}

FinPC == {"idle", "load", "kill", "list", "rmstate", "stage", "discard", "publish",
          "rmstaging", "rmjournal", "ok", "err"}

Finalizers == {"worker", "sweeper"}

\* Types of the variables.
CTypeOK ==
    /\ journal \in Journal \cup {NoJournal}
    /\ old \in BOOLEAN
    /\ ws \in [input: BOOLEAN, output: Content, proxy: BOOLEAN]
    /\ stg \in [dir: BOOLEAN, input: BOOLEAN, output: Content, proxy: BOOLEAN]
    /\ bundle \in BOOLEAN /\ state \in BOOLEAN
    /\ runsc \in {"none", "blocked", "running", "exited0", "exited1"}
    /\ listed \in BOOLEAN
    /\ run \in RunPC
    /\ fin \in [Finalizers -> [pc: FinPC, record: Journal \cup {NoJournal}]]
    /\ runner \in [pc: {"wait", "stop", "finalize", "finalizing", "done", "failed", "dead"},
                   good: BOOLEAN]
    /\ owner \in {"waiting", "read", "over", "dead"}
    /\ faults \in 0..MaxFaults

NoStaging == [dir |-> FALSE, input |-> FALSE, output |-> "none", proxy |-> FALSE]

NotFinalizing == [pc |-> "idle", record |-> NoJournal]

\* The orchestrator has made the directories, the proxy listens, and the runner
\* has started the broker.
CInit ==
    /\ journal = NoJournal /\ old = FALSE
    /\ ws = [input |-> TRUE, output |-> "empty", proxy |-> TRUE]
    /\ stg = NoStaging
    /\ bundle = FALSE /\ state = FALSE
    /\ runsc = "none" /\ listed = FALSE
    /\ run = "idle"
    /\ fin = [f \in Finalizers |-> NotFinalizing]
    /\ runner = [pc |-> "wait", good |-> FALSE] /\ owner = "waiting"
    /\ faults = 0

Fault == faults < MaxFaults /\ faults' = faults + 1

NoFault == UNCHANGED faults

\* _write_journal: an fsynced file and an atomic replace.
WriteJournal(j) == journal' = j /\ old' = FALSE

-----------------------------------------------------------------------------
(***************************************************************************)
(* _run.                                                                   *)
(***************************************************************************)

RunAt(pc, next) == run = pc /\ run' = next

InPhase(p) == [journal EXCEPT !.phase = p]

\* _safe_worker_path and the other checks, then the first journal.
RunPrepare ==
    /\ RunAt("idle", "mkdirs")
    /\ ws.input /\ ws.output # "none" /\ ws.proxy
    /\ WriteJournal([phase |-> "prepared", terminal |-> "discard", pid |-> FALSE])
    /\ UNCHANGED <<paths, sandbox>>

RunMakeDirectories ==
    /\ RunAt("mkdirs", "mv-input")
    /\ stg' = [stg EXCEPT !.dir = TRUE] /\ bundle' = TRUE /\ state' = TRUE
    /\ UNCHANGED <<journal, old, ws, sandbox>>

\* os.rename of the worker's paths into staging.
RunSeal ==
    /\ \/ /\ RunAt("mv-input", "j-input") /\ ws.input
          /\ ws' = [ws EXCEPT !.input = FALSE] /\ stg' = [stg EXCEPT !.input = TRUE]
       \/ /\ RunAt("mv-output", "j-output") /\ ws.output # "none"
          /\ ws' = [ws EXCEPT !.output = "none"] /\ stg' = [stg EXCEPT !.output = ws.output]
       \/ /\ RunAt("mv-proxy", "j-proxy") /\ ws.proxy
          /\ ws' = [ws EXCEPT !.proxy = FALSE] /\ stg' = [stg EXCEPT !.proxy = TRUE]
    /\ UNCHANGED <<journal, old, bundle, state, sandbox>>

\* The journal after each rename, and after job.json and config.json.
RunRecordPhase ==
    /\ \/ RunAt("j-input", "mv-output") /\ WriteJournal(InPhase("input-sealed"))
       \/ RunAt("j-output", "mv-proxy") /\ WriteJournal(InPhase("output-sealed"))
       \/ RunAt("j-proxy", "configure") /\ WriteJournal(InPhase("proxy-sealed"))
       \/ RunAt("configure", "spawn") /\ WriteJournal(InPhase("configured"))
    /\ UNCHANGED <<paths, sandbox>>

\* Mutant: the child is not held back, and runs before its identity is written.
SpawnReleased ==
    /\ RunAt("spawn", "record")
    /\ runsc' = "running" /\ listed' = TRUE
    /\ UNCHANGED <<journal, old, paths>>

\* _run_command: the child waits at the barrier until its identity is journaled.
RunSpawn ==
    /\ RunAt("spawn", "record")
    /\ runsc' = "blocked"
    /\ UNCHANGED <<journal, old, paths, listed>>

\* Mutant: the journal names a phase that finalize does not know.
IdentityAsStarted ==
    /\ RunAt("record", "release")
    /\ WriteJournal([journal EXCEPT !.phase = "started", !.pid = TRUE])
    /\ UNCHANGED <<paths, sandbox>>

RunRecordIdentity ==
    /\ RunAt("record", "release")
    /\ WriteJournal([journal EXCEPT !.phase = "running", !.pid = TRUE])
    /\ UNCHANGED <<paths, sandbox>>

RunRelease ==
    /\ RunAt("release", "wait")
    /\ runsc' = "running" /\ listed' = TRUE
    /\ UNCHANGED <<journal, old, paths>>

\* process.communicate returns.
RunReap ==
    /\ RunAt("wait", "report")
    /\ runsc \in {"exited0", "exited1"}
    /\ UNCHANGED <<journal, old, paths, sandbox>>

\* The terminal record is written from the broker's own copy of the journal,
\* whether or not the file is still there.
RunReport ==
    /\ run = "report"
    /\ IF runsc = "exited0"
       THEN /\ run' = "exit0"
            /\ WriteJournal([phase |-> "run-finished", terminal |-> "restore", pid |-> TRUE])
       ELSE /\ run' = "exit1"
            /\ WriteJournal([phase |-> "run-failed", terminal |-> "discard", pid |-> TRUE])
    /\ UNCHANGED <<paths, sandbox>>

\* What becomes of runsc when its broker ends: at the barrier it reads the end of
\* the pipe and exits, otherwise it does not notice.
Orphaned == IF runsc = "blocked" THEN "exited1" ELSE runsc

RunAlive == run \notin {"exit0", "exit1"}

\* runsc does not end within operation_timeout_seconds: _terminate_owned_process,
\* and an error that leaves the journal as it is.
RunTimesOut ==
    /\ RunAt("wait", "exit1") /\ runsc = "running"
    /\ runsc' = "exited1"
    /\ listed' \in BOOLEAN
    /\ UNCHANGED <<journal, old, paths>>

\* A path of the worker is missing when it is to be sealed.
RunRejects ==
    /\ run' = "exit1"
    /\ \/ run = "idle" /\ ~ (ws.input /\ ws.output # "none" /\ ws.proxy)
       \/ run = "mv-input" /\ ~ ws.input
       \/ run = "mv-output" /\ ws.output = "none"
       \/ run = "mv-proxy" /\ ~ ws.proxy
    /\ UNCHANGED <<journal, old, paths, sandbox>>

Run ==
    /\ \/ RunPrepare \/ RunMakeDirectories \/ RunSeal \/ RunRecordPhase
       \/ RunSpawn \/ RunRecordIdentity \/ RunRelease
       \/ RunReap \/ RunReport \/ RunTimesOut \/ RunRejects
    /\ UNCHANGED <<fin, worker, faults>>

\* The broker is killed, or a write of it fails.
RunDies ==
    /\ RunAlive /\ run' = "exit1" /\ Fault
    /\ runsc' = Orphaned
    /\ UNCHANGED <<journal, old, paths, listed, fin, worker>>

-----------------------------------------------------------------------------
(***************************************************************************)
(* The sandbox: src/webapp/hosted/runsc/sandbox_entry.py under runsc.      *)
(***************************************************************************)

\* It writes to its output, and ends or not.
Sandbox ==
    /\ runsc = "running"
    /\ \/ /\ stg.output = "empty"
          /\ stg' = [stg EXCEPT !.output = "partial"]
          /\ UNCHANGED sandbox
       \/ /\ stg.output # "none"
          /\ stg' = [stg EXCEPT !.output = "result"]
          /\ runsc' = "exited0" /\ listed' = FALSE
       \/ /\ runsc' = "exited1" /\ listed' = FALSE
          /\ UNCHANGED stg
    /\ UNCHANGED <<journal, old, ws, bundle, state, run, fin, worker, faults>>

-----------------------------------------------------------------------------
(***************************************************************************)
(* _finalize_container, by the worker's finalize or the sweeper's cleanup. *)
(***************************************************************************)

FinAt(f, pc, next) == fin[f].pc = pc /\ fin' = [fin EXCEPT ![f].pc = next]

FinLoad(f) ==
    /\ fin[f].pc = "load"
    /\ fin' = [fin EXCEPT ![f] = [pc |-> IF journal = NoJournal THEN "err" ELSE "kill",
                                  record |-> journal]]
    /\ UNCHANGED <<journal, old, paths, sandbox, faults>>

\* The recorded process group is terminated if it is still the same process;
\* this may not be verifiable.
FinKill(f) ==
    /\ \/ /\ FinAt(f, "kill", "list") /\ NoFault
          /\ IF fin[f].record.pid /\ runsc \in {"blocked", "running"}
             THEN runsc' = "exited1" /\ listed' \in {listed, FALSE}
             ELSE UNCHANGED sandbox
       \/ FinAt(f, "kill", "err") /\ Fault /\ UNCHANGED sandbox
    /\ UNCHANGED <<journal, old, paths>>

\* _runsc_container_absent, and runsc delete --force.
FinList(f) ==
    /\ \/ /\ FinAt(f, "list", "rmstate") /\ NoFault
          /\ listed' = (listed /\ ~ state)
          /\ runsc' = IF listed /\ state /\ runsc = "running" THEN "exited1" ELSE runsc
       \/ FinAt(f, "list", "err") /\ Fault /\ UNCHANGED sandbox
    /\ UNCHANGED <<journal, old, paths>>

FinRemoveState(f) ==
    /\ FinAt(f, "rmstate", "stage")
    /\ state' = FALSE
    /\ UNCHANGED <<journal, old, ws, stg, bundle, sandbox, faults>>

\* Mutant: what is staged is kept whatever the record says.
StageAnything(f) ==
    /\ FinAt(f, "stage", "discard")
    /\ stg' = [stg EXCEPT !.dir = TRUE, !.output = IF @ = "none" THEN "empty" ELSE @]
    /\ UNCHANGED <<journal, old, ws, bundle, state, sandbox, faults>>

\* The output is restored only for a recorded success, and is empty otherwise.
FinStage(f) ==
    /\ FinAt(f, "stage", "discard")
    /\ stg' = [stg EXCEPT !.dir = TRUE,
                          !.output = IF fin[f].record.terminal = "restore" /\ @ # "none"
                                     THEN @ ELSE "empty"]
    /\ UNCHANGED <<journal, old, ws, bundle, state, sandbox, faults>>

\* Input, proxy socket and job.json are always destroyed.
FinDiscard(f) ==
    /\ FinAt(f, "discard", "publish")
    /\ ws' = [ws EXCEPT !.input = FALSE, !.proxy = FALSE]
    /\ stg' = [stg EXCEPT !.input = FALSE, !.proxy = FALSE]
    /\ bundle' = FALSE
    /\ UNCHANGED <<journal, old, state, sandbox, faults>>

NeverSealed(f) == fin[f].record.phase \in {"prepared", "input-sealed"}

\* Mutant: the rename replaces what is there.
PublishReplacing(f) ==
    /\ FinAt(f, "publish", "rmstaging")
    /\ ws' = [ws EXCEPT !.output = stg.output]
    /\ stg' = [stg EXCEPT !.output = "none"]
    /\ UNCHANGED <<journal, old, bundle, state, sandbox, faults>>

\* _rename_with_exchange if the output was never sealed, and otherwise a rename
\* that does not replace: an occupied destination is an error.  What an exchange
\* brings back goes with the rest of the staging directory.
FinPublish(f) ==
    /\ \/ /\ FinAt(f, "publish", "rmstaging")
          /\ ws.output = "none" \/ NeverSealed(f)
          /\ ws' = [ws EXCEPT !.output = stg.output]
          /\ stg' = [stg EXCEPT !.output = ws.output]
       \/ /\ FinAt(f, "publish", "err")
          /\ ws.output # "none" /\ ~ NeverSealed(f)
          /\ UNCHANGED <<ws, stg>>
    /\ UNCHANGED <<journal, old, bundle, state, sandbox, faults>>

FinRemoveStaging(f) ==
    /\ FinAt(f, "rmstaging", "rmjournal")
    /\ stg' = NoStaging
    /\ UNCHANGED <<journal, old, ws, bundle, state, sandbox, faults>>

FinRemoveJournal(f) ==
    /\ FinAt(f, "rmjournal", "ok")
    /\ journal' = NoJournal /\ old' = FALSE
    /\ UNCHANGED <<paths, sandbox, faults>>

Finalize(f) ==
    /\ \/ FinLoad(f) \/ FinKill(f) \/ FinList(f) \/ FinRemoveState(f) \/ FinStage(f)
       \/ FinDiscard(f) \/ FinPublish(f) \/ FinRemoveStaging(f) \/ FinRemoveJournal(f)
    /\ UNCHANGED <<run, worker>>

FinAlive(f) == fin[f].pc \notin {"idle", "ok", "err"}

FinDies(f) ==
    /\ FinAlive(f) /\ fin' = [fin EXCEPT ![f].pc = "err"] /\ Fault
    /\ UNCHANGED <<journal, old, paths, sandbox, run, worker>>

\* Mutant: the sweeper takes journals of any age.
StaleAtOnce == journal # NoJournal

\* Mutant: the sweeper takes only the journals of runs that have ended.
StaleEnded == journal # NoJournal /\ old /\ journal.phase \in {"run-finished", "run-failed"}

\* The journals _run_cleanup takes.
Stale == journal # NoJournal /\ old

\* The cleanup timer starts _run_cleanup, every ten minutes.
Sweep ==
    /\ Stale /\ ~ FinAlive("sweeper")
    /\ fin' = [fin EXCEPT !["sweeper"] = [NotFinalizing EXCEPT !.pc = "load"]]
    /\ UNCHANGED <<journal, old, paths, sandbox, run, worker, faults>>

\* The journal becomes old; the processes of its attempt are gone by then.
GrowOld ==
    /\ journal # NoJournal /\ ~ old /\ old' = TRUE
    /\ ~ RunAlive /\ ~ FinAlive("worker")
    /\ runner.pc \notin {"wait", "stop", "finalize", "finalizing"}
    /\ owner \in {"over", "dead"}
    /\ UNCHANGED <<journal, paths, sandbox, run, fin, worker, faults>>

-----------------------------------------------------------------------------
(***************************************************************************)
(* The worker: RunscSandboxRunner.run and the orchestrator around it.      *)
(***************************************************************************)

RunnerAt(pc, next) == runner.pc = pc /\ runner' = [runner EXCEPT !.pc = next]

\* The broker's run ends; a non-zero exit is an error.
RunnerReaps ==
    /\ runner.pc = "wait" /\ ~ RunAlive
    /\ runner' = [pc |-> "finalize", good |-> run = "exit0"]
    /\ UNCHANGED <<run, sandbox, fin, owner>>

\* A cancellation or the deadline: SIGTERM and then SIGKILL to sudo, which may be
\* refused.  _handle_signal ends runsc and then the broker.
RunnerStops ==
    /\ RunnerAt("stop", "finalize")
    /\ \/ /\ RunAlive /\ run' = "exit1"
          /\ runsc' = IF runsc = "running" THEN "exited1" ELSE Orphaned
          /\ listed' \in {listed, FALSE}
       \/ UNCHANGED <<run, sandbox>>
    /\ UNCHANGED <<fin, owner>>

\* _runsc_finalize, by when run has left its setup.
RunnerFinalizes ==
    /\ RunnerAt("finalize", "finalizing")
    /\ run \notin SetupPC
    /\ fin' = [fin EXCEPT !["worker"] = [NotFinalizing EXCEPT !.pc = "load"]]
    /\ UNCHANGED <<run, sandbox, owner>>

\* Mutant: the outcome of finalize is not looked at.
RunnerEndsAnyway ==
    /\ fin["worker"].pc \in {"ok", "err"}
    /\ RunnerAt("finalizing", IF runner.good THEN "done" ELSE "failed")
    /\ UNCHANGED <<run, sandbox, fin, owner>>

\* The attempt is good if it was not stopped and both operations of the broker
\* succeed.
RunnerEnds ==
    /\ fin["worker"].pc \in {"ok", "err"}
    /\ RunnerAt("finalizing", IF runner.good /\ fin["worker"].pc = "ok" THEN "done" ELSE "failed")
    /\ UNCHANGED <<run, sandbox, fin, owner>>

\* finalize takes too long, or a second cancellation interrupts the wait for it;
\* it goes on.
RunnerGivesUp ==
    /\ RunnerAt("finalizing", "failed") /\ Fault
    /\ UNCHANGED <<run, sandbox, fin, owner, journal, old, paths>>

Runner ==
    /\ RunnerReaps \/ RunnerStops \/ RunnerFinalizes \/ RunnerEnds
    /\ UNCHANGED <<journal, old, paths, faults>>

\* The finally clauses of the orchestrator and of RunscSkillRuntime.execute.
RemoveWorkspace == ws' = [input |-> FALSE, output |-> "none", proxy |-> FALSE]

\* execute returns; the orchestrator reads a good attempt's output, and removes
\* its directories.
Owner ==
    /\ \/ /\ owner = "waiting" /\ runner.pc = "done"
          /\ owner' = "read" /\ UNCHANGED ws
       \/ /\ (owner = "waiting" /\ runner.pc = "failed") \/ owner = "read"
          /\ owner' = "over" /\ RemoveWorkspace
    /\ UNCHANGED <<journal, old, stg, bundle, state, sandbox, run, fin, runner, faults>>

\* The cancellation token or the deadline, seen by the runner: execute waits for
\* the runner.
CancelRunner ==
    /\ RunnerAt("wait", "stop")
    /\ UNCHANGED <<journal, old, paths, sandbox, run, fin, owner, faults>>

\* CancelledError reaches execute: it cancels the runner and does not wait for
\* it, and the orchestrator removes its directories.
Abandon ==
    /\ owner = "waiting" /\ owner' = "over"
    /\ runner' = IF runner.pc = "wait" THEN [runner EXCEPT !.pc = "stop"] ELSE runner
    /\ RemoveWorkspace
    /\ UNCHANGED <<journal, old, stg, bundle, state, sandbox, run, fin, faults>>

\* The worker process dies.
WorkerDies ==
    /\ owner # "dead" /\ Fault
    /\ owner' = "dead"
    /\ runner' = [runner EXCEPT !.pc = "dead"]
    /\ UNCHANGED <<journal, old, paths, sandbox, run, fin>>

\* The host goes down: every process dies, the files stay.
HostDown ==
    /\ owner # "dead" /\ Fault
    /\ owner' = "dead"
    /\ runner' = [runner EXCEPT !.pc = "dead"]
    /\ run' = IF RunAlive THEN "exit1" ELSE run
    /\ fin' = [f \in Finalizers |-> IF FinAlive(f) THEN [fin[f] EXCEPT !.pc = "err"] ELSE fin[f]]
    /\ runsc' = IF runsc \in {"blocked", "running"} THEN "exited1" ELSE runsc
    /\ UNCHANGED <<journal, old, paths, listed>>

-----------------------------------------------------------------------------

CNext ==
    \/ Run \/ RunDies \/ Sandbox
    \/ \E f \in Finalizers : Finalize(f) \/ FinDies(f)
    \/ Sweep \/ GrowOld
    \/ Runner \/ RunnerGivesUp \/ Owner
    \/ CancelRunner \/ Abandon \/ WorkerDies \/ HostDown

CSpec == CInit /\ [][CNext]_cvars

\* Processes that live go on, and the timer and the clock do not stop.  The
\* sandbox need not end, and nothing need fail or be cancelled.
CFairness ==
    /\ WF_cvars(Run) /\ WF_cvars(Runner) /\ WF_cvars(Owner)
    /\ \A f \in Finalizers : WF_cvars(Finalize(f))
    /\ WF_cvars(Sweep) /\ WF_cvars(GrowOld)

CFairSpec == CSpec /\ CFairness

-----------------------------------------------------------------------------
(***************************************************************************)
(* What custody promises.                                                  *)
(***************************************************************************)

\* A sandbox that runs is named, with the identity of its process, by a journal
\* on disk, so that it is found and stopped whoever dies.
RunningIsRecorded ==
    runsc = "running" => journal # NoJournal /\ journal.pid

\* Output of a sandbox that did not end well never reaches the worker.
NoPartialOutput == ws.output # "partial"

\* The journal is removed last: once it is gone nothing of the attempt runs, is
\* known to runsc, or is left in the broker's directories.
ReleasedMeansGone ==
    journal = NoJournal =>
        /\ runsc \notin {"blocked", "running"} /\ ~ listed
        /\ stg = NoStaging /\ ~ bundle /\ ~ state

\* When the runner reports success the worker finds the sandbox's result.
SuccessIsReadable == owner = "read" => ws.output = "result"

\* A published result is removed by its owner or stays: a finalize that is
\* repeated after a crash does not replace it.
ResultIsKept ==
    [][ws.output = "result" => ws'.output \in {"result", "none"}]_cvars

\* A sandbox does not run for ever, whichever of its keepers die.
SandboxIsStopped == (runsc = "running") ~> (runsc # "running")

\* Custody does not stay for ever, unless what was published is still in the way.
CustodyIsReleased == []<>(journal = NoJournal \/ ws.output # "none")

\* An attempt that is over leaves nothing in the worker's workspace.
WorkspaceIsEmptied == (owner = "over") ~> [](ws.output = "none")

\* Nothing runs that the journal does not know, nothing partial is published, what was
\* released is gone and what succeeded can be read.
CustodyIsSafe == CTypeOK /\ RunningIsRecorded /\ NoPartialOutput /\ ReleasedMeansGone /\ SuccessIsReadable

\* A published result stays, every sandbox is stopped, and custody is released.
CustodyIsEnded == ResultIsKept /\ SandboxIsStopped /\ CustodyIsReleased

=============================================================================
