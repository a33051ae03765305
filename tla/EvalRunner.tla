----------------------------- MODULE EvalRunner -----------------------------
(***************************************************************************)
(* The evaluation runner, eval/runner.py: a command evaluates one manifest *)
(* or all of a directory, each in a workspace of its own: fixtures are     *)
(* copied, every skill under test is run by an executor, its output is     *)
(* checked and perhaps judged by a model, and a report is written. Reports *)
(* stay from command to command. A command can be killed between two       *)
(* steps; an exception ends it, after the clean-up of a suite.             *)
(***************************************************************************)
EXTENDS Naturals, Sequences, FiniteSets

CONSTANTS
  Manifests,      \* their number: a suite takes them in the order of their names
  UnderTest,      \* skills_under_test of each manifest
  PrereqMode,     \* prerequisite_mode: enforce, explicit_override, provide_fixtures
  Provided,       \* the skills with an output among the fixtures
  ExpectRefusal,  \* expected_refusal_for
  MaxEvaluations, MaxRmFaults

ASSUME EvalAssumption == {Manifests, MaxEvaluations, MaxRmFaults} \subseteq Nat

VARIABLES
  command,    \* the command under way and what it has found out
  spaces,     \* the workspaces of the command on disk: the documents in each
  reports,    \* eval/results/<manifest>.json
  combined,   \* eval/results/phase1-report.json
  commandNo, rmFaults

evars == <<command, spaces, reports, combined, commandNo, rmFaults>>

Suite == 1..Manifests
NoReport == [by |-> 0, passed |-> FALSE]
NoCommand == [pc |-> "none", kind |-> "run", todo |-> <<>>, skill |-> 0, executor |-> "mock",
              semantic |-> FALSE, retain |-> FALSE, failed |-> FALSE, results |-> <<>>, exit |-> 0]

Current == Head(command.todo)

-----------------------------------------------------------------------------
(* Starting, and the workspace.                                              *)

\* main, _dispatch
StartCommand(kind, todo, executor, semantic, retain) ==
  /\ command.pc \in {"none", "ended"} /\ commandNo < MaxEvaluations
  /\ commandNo' = commandNo + 1
  /\ command' = [NoCommand EXCEPT !.pc = "manifest", !.kind = kind, !.todo = todo, !.executor = executor,
                                  !.semantic = semantic, !.retain = retain]
  /\ spaces' = [m \in {} |-> {}]
  /\ UNCHANGED <<reports, combined, rmFaults>>

\* _UPSTREAM_REQUIREMENTS
Upstream(skill) ==
  CASE skill \in {"poc-plan", "mutual-close-plan", "roi-business-case"} ->
         {"biz-qual", "deployment-qual", "tech-qual", "connector-feasibility"}
    [] skill = "deal-assessment" -> {"biz-qual", "tech-qual"}
    [] OTHER -> {}

\* _copy_existing_outputs, and _provide_upstream_outputs with _synthetic_upstream_doc:
\* a document of the fixtures is not replaced.
ExistingOutputs(m) == {[of |-> s, by |-> "fixture"] : s \in Provided[m]}
UpstreamOutputs(m) ==
  IF PrereqMode[m] # "provide_fixtures" THEN {}
  ELSE {[of |-> s, by |-> "synthetic"] :
          s \in UNION {Upstream(UnderTest[m][k]) : k \in DOMAIN UnderTest[m]} \ Provided[m]}

\* _run_manifest and WorkspaceBuilder.build. The suite has made the folder before;
\* a fixture that is missing, a path that is not allowed or a command line tool that
\* is not there raises an exception, and what was made by then stays.
Build(m) ==
  /\ command.pc = "manifest" /\ command.todo # <<>> /\ m = Current
  /\ \/ /\ command' = [command EXCEPT !.pc = "skill", !.skill = 1, !.failed = FALSE]
        /\ spaces' = [x \in DOMAIN spaces \cup {m} |->
                        IF x = m THEN ExistingOutputs(m) \cup UpstreamOutputs(m) ELSE spaces[x]]
     \/ /\ command' = [command EXCEPT !.pc = "raised"]
        /\ spaces' = [x \in DOMAIN spaces \cup {m} |-> IF x = m THEN {} ELSE spaces[x]]
  /\ UNCHANGED <<reports, combined, commandNo, rmFaults>>

-----------------------------------------------------------------------------
(* A skill: its run, the checks, the judge.                                  *)

\* What the executors return: the exit code, whether the skill wrote a document, and
\* what there is to find in the text. MockExecutor always writes one that has the
\* sections (MockOutputBuilder.build); ClaudeExecutor has a timeout, after which
\* the code is -1, written here as 2, and stdout is empty.
MockRuns(m, s) ==
  {[code |-> 0, wrote |-> TRUE, sections |-> TRUE, holds |-> h, refused |-> s \in ExpectRefusal[m]] : h \in BOOLEAN}
ClaudeRuns ==
  [code : {0, 1, 2}, wrote : BOOLEAN, sections : BOOLEAN, holds : BOOLEAN, refused : BOOLEAN]
Runs(m, s) == IF command.executor = "mock" THEN MockRuns(m, s) ELSE ClaudeRuns

\* ClaudeExecutor._parse_result: the newest document of the skill's folder, whoever
\* wrote it; without one, what the tool printed.
OutputOf(m, s, r) ==
  IF r.wrote THEN "generated"
  ELSE IF \E d \in spaces[m] : d.of = s THEN "present"
  ELSE IF r.code = 2 THEN "empty" ELSE "printed"

\* SemanticEvaluator.evaluate: available() decides if there is a judge. A judge that
\* exits with an error or answers without an array of JSON fails the first criterion;
\* an answer counts for what it has, also if that is nothing.
Verdicts == {"pass", "fail", "no array", "judge exits", "empty array"}
SemanticFails(v) == v \in {"fail", "no array", "judge exits"}

\* _evaluate_skill, the categories with a failure.
Failures(r, v) ==
  (IF r.code # 0 THEN {"invocation"} ELSE {}) \cup (IF ~r.sections THEN {"structural"} ELSE {})
    \cup (IF ~r.holds THEN {"invariants"} ELSE {}) \cup (IF SemanticFails(v) THEN {"semantic"} ELSE {})

\* ManifestEvaluator.evaluate, one skill. A judge that times out raises an exception
\* that nothing catches.
RunSkill(r, v) ==
  /\ command.pc = "skill"
  /\ LET m == Current
         s == UnderTest[m][command.skill]
         last == command.skill = Len(UnderTest[m])
     IN /\ r \in Runs(m, s)
        /\ OutputOf(m, s, r) = "empty" => ~r.sections /\ ~r.holds
        /\ spaces' = [spaces EXCEPT ![m] = IF r.wrote THEN @ \cup {[of |-> s, by |-> "skill"]} ELSE @]
        /\ command' = [command EXCEPT !.failed = @ \/ Failures(r, v) # {},
                                      !.skill = @ + 1, !.pc = IF last THEN "report" ELSE @]
  /\ command.semantic \/ v = "pass"
  /\ UNCHANGED <<reports, combined, commandNo, rmFaults>>

JudgeTimesOut ==
  /\ command.pc = "skill" /\ command.semantic
  /\ command' = [command EXCEPT !.pc = "raised"]
  /\ UNCHANGED <<spaces, reports, combined, commandNo, rmFaults>>

-----------------------------------------------------------------------------
(* Reports and clean-up.                                                     *)

\* EvaluationReport.write: the status; the failures of the four categories are left out.
Report == [by |-> commandNo, passed |-> ~command.failed]
WriteReport ==
  /\ command.pc = "report"
  /\ reports' = [reports EXCEPT ![Current] = Report]
  /\ command' = [command EXCEPT !.pc = "clean",
                                !.results = Append(@, [manifest |-> Current, passed |-> ~command.failed])]
  /\ UNCHANGED <<spaces, combined, commandNo, rmFaults>>

\* _rmtree_surfacing: a tree that cannot be removed raises.
RmFault == rmFaults < MaxRmFaults /\ rmFaults' = rmFaults + 1
Remaining(gone) == [m \in DOMAIN spaces \ gone |-> spaces[m]]

Discarded == IF command.kind = "run" THEN ~command.retain ELSE ~command.failed /\ ~command.retain

\* _run_manifest and _run_suite, after a manifest.
CleanUp ==
  /\ command.pc = "clean"
  /\ \/ /\ Discarded
        /\ spaces' = Remaining({Current})
        /\ command' = [command EXCEPT !.pc = "manifest", !.todo = Tail(@)]
        /\ UNCHANGED rmFaults
     \/ /\ ~Discarded
        /\ command' = [command EXCEPT !.pc = "manifest", !.todo = Tail(@)]
        /\ UNCHANGED <<spaces, rmFaults>>
     \/ /\ Discarded /\ RmFault
        /\ command' = [command EXCEPT !.pc = "raised"]
        /\ UNCHANGED spaces
  /\ UNCHANGED <<reports, combined, commandNo>>

LastPassed == command.results # <<>> /\ command.results[Len(command.results)].passed

AllPassed == \A k \in DOMAIN command.results : command.results[k].passed

\* EvaluationReport.write_combined
WriteCombined ==
  /\ command.pc = "manifest" /\ command.todo = <<>> /\ command.kind = "suite"
  /\ combined' = [by |-> commandNo, passed |-> AllPassed]
  /\ command' = [command EXCEPT !.pc = "finally"]
  /\ UNCHANGED <<spaces, reports, commandNo, rmFaults>>

RemovedAlways == TRUE

\* _run_suite, finally: after the last manifest and after an exception.
Removed == ~command.retain \/ AllPassed
Finally ==
  /\ command.kind = "suite" /\ command.pc \in {"finally", "raised"}
  /\ \/ /\ spaces' = IF Removed THEN Remaining(DOMAIN spaces) ELSE spaces
        /\ UNCHANGED rmFaults
        /\ command' = [command EXCEPT !.pc = "ended", !.exit = IF command.pc = "finally" /\ AllPassed THEN 0 ELSE 1]
     \/ /\ Removed /\ RmFault /\ UNCHANGED spaces
        /\ command' = [command EXCEPT !.pc = "ended", !.exit = 1]
  /\ UNCHANGED <<reports, combined, commandNo>>

\* _dispatch for one manifest: an exception leaves the workspace.
EndRun ==
  /\ command.kind = "run"
  /\ command.pc = "raised" \/ (command.pc = "manifest" /\ command.todo = <<>>)
  /\ command' = [command EXCEPT !.pc = "ended", !.exit = IF command.pc = "manifest" /\ AllPassed THEN 0 ELSE 1]
  /\ UNCHANGED <<spaces, reports, combined, commandNo, rmFaults>>

\* The process is killed.
RunnerKilled ==
  /\ command.pc \notin {"none", "ended"}
  /\ command' = [command EXCEPT !.pc = "ended", !.exit = 2]
  /\ UNCHANGED <<spaces, reports, combined, commandNo, rmFaults>>

-----------------------------------------------------------------------------
EvalInit ==
  /\ command = NoCommand /\ spaces = [m \in {} |-> {}]
  /\ reports = [m \in Suite |-> NoReport] /\ combined = [by |-> 0, passed |-> FALSE]
  /\ commandNo = 0 /\ rmFaults = 0

EvalNext ==
  \/ \E executor \in {"mock", "claude"}, semantic, retain \in BOOLEAN :
       \/ \E m \in Suite : StartCommand("run", <<m>>, executor, semantic, retain)
       \/ StartCommand("suite", [k \in Suite |-> k], executor, semantic, retain)
  \/ \E m \in Suite : Build(m)
  \/ \E r \in ClaudeRuns, v \in Verdicts : RunSkill(r, v)
  \/ JudgeTimesOut \/ WriteReport \/ CleanUp \/ WriteCombined \/ Finally \/ EndRun \/ RunnerKilled

EvalSpec == EvalInit /\ [][EvalNext]_evars

-----------------------------------------------------------------------------
Ran == {command.results[k].manifest : k \in DOMAIN command.results}

\* _dispatch, EvaluationReport.write and write_combined, with reports of earlier
\* commands on disk: exit code 0 means that every manifest of the command has a report
\* of this command that says passed, and a suite a combined report of this command
\* that says so; a suite that came to its combined report says failed there exactly
\* when one of the reports does.
ExitIsReported ==
  command.pc = "ended" =>
    /\ command.exit = 0 =>
         /\ command.todo = <<>>
         /\ \A m \in Ran : reports[m].by = commandNo /\ reports[m].passed
         /\ command.kind = "suite" => Ran = Suite /\ combined = [by |-> commandNo, passed |-> TRUE]
    /\ combined.by = commandNo => combined.passed = (\A m \in Suite : reports[m].passed)

\* _run_suite and --retain-failures: when a suite has ended by itself and nothing failed
\* to be removed, the workspaces of the scenarios that failed are there if they were
\* asked for, and no workspace is left if not.
WorkspacesAsAsked ==
  command.pc = "ended" /\ command.kind = "suite" /\ command.exit # 2 /\ rmFaults = 0 =>
    IF command.retain
    THEN \A k \in DOMAIN command.results : ~command.results[k].passed => command.results[k].manifest \in DOMAIN spaces
    ELSE DOMAIN spaces = {}

\* A command leaves the reports and the workspaces that its exit code and its options
\* promise.
SuiteIsReported == ExitIsReported /\ WorkspacesAsAsked
=============================================================================
