------------------------------ MODULE AgentRun ------------------------------
(***************************************************************************)
(* One attempt at the model: the typed-tool loop inside the sandbox        *)
(* (hosted/agent_loop_harness.py, runtime_contract.py), the model proxy    *)
(* that forwards its requests (hosted/model_proxy.py) and the runtime of   *)
(* the worker that waits for the sandbox and closes the books              *)
(* (hosted/runsc_executor.py). How the sandbox's files are moved is in     *)
(* SandboxCustody.                                                         *)
(*                                                                         *)
(* An answer of the model is its stop reason and the tools it calls; it    *)
(* costs one unit. Requests are numbered.                                  *)
(***************************************************************************)
EXTENDS Naturals, Sequences

CONSTANTS
  AllowedTools,    \* job.allowlist.tools
  MaxTurns,        \* TypedToolRuntime.max_turns
  MaxTools,        \* tool calls of one answer
  MaxBadRequests   \* requests the proxy refuses for their shape

ASSUME AgentAssumption == {MaxTurns, MaxTools, MaxBadRequests} \subseteq Nat

VARIABLES
  loop,        \* the loop inside the sandbox
  wire,        \* the number of the request under way to the proxy, or 0
  handler,     \* ModelProxy.handle
  books,       \* the proxy's session of the attempt
  runtime,     \* RunscSkillRuntime.execute
  expired,     \* the execution deadline has passed
  cancelled,   \* the worker's cancellation token
  refused      \* requests refused for their shape

avars == <<loop, wire, handler, books, runtime, expired, cancelled, refused>>

\* What an answer may call: the tools of TRUSTED_TOOL_REGISTRY, one of them with
\* arguments that do not validate, one with a reference that is not in the manifest,
\* one with the sidecar of another skill; and a tool that is not in the registry.
Calls ==
  {"read_transcript", "list_priors", "search_transcript", "search_unparsed", "read_prior_context",
   "read_unlisted", "write_output", "write_other", "finish", "report_failure", "shell"}
ToolOf(call) ==
  CASE call = "search_unparsed" -> "search_transcript"
    [] call = "read_unlisted" -> "read_prior_context"
    [] call = "write_other" -> "write_output"
    [] OTHER -> call

NoHandler == [pc |-> "none", seq |-> 0]
NewBooks(finals) == [open |-> TRUE, next |-> 1, used |-> 0, terminal |-> FALSE, cancel |-> FALSE, finals |-> finals]
-----------------------------------------------------------------------------
(* The loop.                                                                *)

LoopAt(pc) == loop.pc = pc

\* sandbox_entry writes result.json last, and exits.
Exits(outcome) == loop' = [loop EXCEPT !.pc = "exited", !.result = outcome]
LoopOnly == UNCHANGED <<handler, books, runtime, expired, cancelled, refused>>

\* execute checks its inputs before the first turn: the manifest's files, and the
\* one destination it may call.
LoopStarts(ok) ==
  /\ LoopAt("start")
  /\ IF cancelled THEN Exits("cancelled")
     ELSE IF ok = "input" THEN Exits("input_error")
     ELSE IF ok = "configuration" THEN Exits("configuration_error")
     ELSE loop' = [loop EXCEPT !.pc = "turn"]
  /\ UNCHANGED wire /\ LoopOnly

\* The head of a turn: another one is left, nobody cancelled and there is time; the
\* request is sent.
LoopTurn ==
  /\ LoopAt("turn")
  /\ IF loop.turn = MaxTurns THEN loop' = [loop EXCEPT !.pc = "collect"] /\ UNCHANGED wire
     ELSE IF cancelled THEN Exits("cancelled") /\ UNCHANGED wire
     ELSE IF expired THEN Exits("timeout") /\ UNCHANGED wire
     ELSE /\ loop' = [loop EXCEPT !.pc = "calling", !.turn = @ + 1]
          /\ wire' = loop.turn + 1
  /\ LoopOnly

\* _cancellable_await: a cancellation, the deadline, or the client's own timeout ends
\* the wait; the request stays where it is.
LoopWaits ==
  /\ LoopAt("calling")
  /\ \/ cancelled /\ Exits("cancelled")
     \/ expired /\ Exits("timeout")
     \/ Exits("model_error")
  /\ UNCHANGED wire /\ LoopOnly

\* _run_tool, in the order of the answer: the first failure ends the attempt.
ToolFails(call) ==
  CASE ToolOf(call) \notin AllowedTools -> "forbidden_tool"
    [] call = "search_unparsed" -> "tool_input_error"
    [] call = "read_unlisted" -> "input_error"
    [] call = "report_failure" -> "model_error"
    [] OTHER -> "no"

FirstFailure(tools) ==
  LET bad == {i \in DOMAIN tools : ToolFails(tools[i]) # "no"}
  IN IF bad = {} THEN 0 ELSE CHOOSE i \in bad : \A k \in bad : i <= k

\* What the output workspace holds after the tools: the last write wins.
Written(before, tools) ==
  LET writes == {i \in DOMAIN tools : tools[i] \in {"write_output", "write_other"}}
  IN IF writes = {} THEN before
     ELSE LET last == CHOOSE i \in writes : \A k \in writes : k <= i
          IN IF tools[last] = "write_output" THEN "own" ELSE "other"

\* An answer arrives: only the stop reason tool_use lets tools run, and only end_turn
\* or stop_sequence end the conversation without any.
LoopReads ==
  LET a == loop.answer
      n == FirstFailure(a.tools)
      ran == IF n = 0 THEN a.tools ELSE SubSeq(a.tools, 1, n - 1)
      file == Written(loop.file, ran)
  IN
  /\ LoopAt("answered")
  /\ IF a.stop = "tool_use" /\ a.tools # <<>>
     THEN IF n # 0
          THEN loop' = [loop EXCEPT !.pc = "exited", !.file = file, !.result = ToolFails(a.tools[n])]
          ELSE loop' = [loop EXCEPT !.file = file, !.read = @ + 1,
                                    !.pc = IF \E i \in DOMAIN a.tools : a.tools[i] = "finish" THEN "collect" ELSE "turn"]
     ELSE IF a.stop = "end_turn" /\ a.tools = <<>>
     THEN loop' = [loop EXCEPT !.pc = "collect", !.read = @ + 1]
     ELSE Exits("model_error")
  /\ UNCHANGED wire /\ LoopOnly

CollectedAny(file) == IF file = "none" THEN "output_error" ELSE "output"

\* _collect_result: without an output, or with the sidecar of another skill, version
\* or mode, the attempt fails.
Collected(file) == IF file = "own" THEN "output" ELSE "output_error"

LoopCollects ==
  /\ LoopAt("collect")
  /\ Exits(Collected(loop.file))
  /\ UNCHANGED wire /\ LoopOnly

\* The broker kills the sandbox, or it fails without a result.
SandboxDies ==
  /\ loop.pc # "exited"
  /\ Exits("no result")
  /\ UNCHANGED wire /\ LoopOnly
-----------------------------------------------------------------------------
(* The proxy.                                                               *)

\* An answer or an error reaches the loop if it still waits.
Reply(answer) ==
  IF ~LoopAt("calling") THEN UNCHANGED loop
  ELSE IF answer.stop = "error" THEN Exits("model_error")
  ELSE loop' = [loop EXCEPT !.pc = "answered", !.answer = answer]
Refusal == [stop |-> "error", tools |-> <<>>]

\* _ensure_session: a session that is gone is made again.
Session == IF books.open THEN books ELSE NewBooks(books.finals)

\* handle, up to the upstream: the lock, the cancellation, the identity, the number,
\* the shape and the deadline. A token past its leeway is refused before the session
\* is looked at.
Arrives(malformed, late) ==
  LET b == Session
      counted == [b EXCEPT !.next = @ + 1]
  IN
  /\ wire # 0 /\ handler.pc = "none"
  /\ wire' = 0
  /\ late => expired
  /\ malformed => refused < MaxBadRequests
  /\ IF late THEN books' = books /\ Reply(Refusal) /\ UNCHANGED <<handler, refused>>
     ELSE IF b.cancel \/ wire # b.next
     THEN books' = b /\ Reply(Refusal) /\ UNCHANGED <<handler, refused>>
     ELSE IF malformed
     THEN books' = counted /\ refused' = refused + 1 /\ Reply(Refusal) /\ UNCHANGED handler
     ELSE IF expired
     THEN books' = [counted EXCEPT !.terminal = TRUE] /\ Reply(Refusal) /\ UNCHANGED <<handler, refused>>
     ELSE /\ books' = counted
          /\ handler' = [pc |-> "upstream", seq |-> wire]
          /\ UNCHANGED <<loop, refused>>
  /\ UNCHANGED <<runtime, expired, cancelled>>

ProxyOnly == UNCHANGED <<wire, runtime, expired, cancelled, refused>>

\* The upstream answers and nothing else happened first: the usage is booked, and then
\* the answer is given.
UpstreamUnbooked(answer) ==
  /\ handler.pc = "upstream" /\ ~books.cancel
  /\ handler' = NoHandler
  /\ books' = IF answer.stop = "tool_use" THEN books ELSE [books EXCEPT !.used = @ + 1]
  /\ Reply(answer) /\ ProxyOnly

UpstreamAnswers(answer) ==
  /\ handler.pc = "upstream" /\ ~books.cancel
  /\ handler' = NoHandler
  /\ books' = [books EXCEPT !.used = @ + 1]
  /\ Reply(answer) /\ ProxyOnly

\* The upstream fails, times out, or answers with too much.
UpstreamFails ==
  /\ handler.pc = "upstream"
  /\ handler' = NoHandler /\ books' = books
  /\ Reply(Refusal) /\ ProxyOnly

\* The deadline cuts the call off: the books say so.
UpstreamDeadline ==
  /\ handler.pc = "upstream" /\ expired /\ ~books.cancel
  /\ handler' = NoHandler
  /\ books' = [books EXCEPT !.terminal = TRUE]
  /\ Reply(Refusal) /\ ProxyOnly

\* The worker's cancellation cuts it off, even when an answer is there too.
UpstreamCancelled ==
  /\ handler.pc = "upstream" /\ books.cancel
  /\ handler' = NoHandler /\ books' = books
  /\ Reply(Refusal) /\ ProxyOnly
-----------------------------------------------------------------------------
(* The runtime of the worker.                                               *)

WorkerOnly == UNCHANGED <<loop, wire, handler, expired, cancelled, refused>>

\* execute: a cancelled job is not started; the server, the capability and the runner.
Begin(ok) ==
  /\ runtime.pc = "begin"
  /\ IF cancelled THEN runtime' = [runtime EXCEPT !.pc = "done", !.result = "cancelled"] /\ UNCHANGED <<books, loop>>
     ELSE IF ~ok THEN runtime' = [runtime EXCEPT !.pc = "done", !.result = "runtime_error"] /\ UNCHANGED <<books, loop>>
     ELSE /\ runtime' = [runtime EXCEPT !.pc = "running"]
          /\ books' = NewBooks(0)
          /\ loop' = [loop EXCEPT !.pc = "start"]
  /\ UNCHANGED <<wire, handler, expired, cancelled, refused>>

\* The runner ends with the sandbox; how it ended decides what the attempt says, unless
\* the proxy knows better. A runner cut off by the deadline or failing raises.
Raised == {"timeout", "cleanup_error", "runtime_error"}
RunnerDoneWithResult(raised) ==
  /\ runtime.pc = "running" /\ LoopAt("exited") /\ loop.result # "no result"
  /\ runtime' = [runtime EXCEPT !.pc = "finalize", !.result = loop.result]
  /\ books' = [books EXCEPT !.cancel = TRUE]
  /\ WorkerOnly

RunnerDone(raised) ==
  /\ runtime.pc = "running" /\ LoopAt("exited")
  /\ raised = "timeout" => expired
  /\ runtime' = [runtime EXCEPT !.pc = "finalize",
       !.result = IF raised # "no" THEN raised
                  ELSE IF loop.result = "no result" THEN "runtime_error" ELSE loop.result]
  /\ books' = [books EXCEPT !.cancel = TRUE]
  /\ WorkerOnly

\* The cancellation comes first.
RunnerCancelled ==
  /\ runtime.pc = "running" /\ LoopAt("exited") /\ cancelled
  /\ runtime' = [runtime EXCEPT !.pc = "finalize", !.result = "cancelled"]
  /\ books' = [books EXCEPT !.cancel = TRUE]
  /\ WorkerOnly

FinalAsSaid(result, terminal) == result

\* _terminal_failure, which the cancellation does not ask.
Final(result, terminal) == IF terminal /\ result # "cancelled" THEN "timeout" ELSE result

\* consume_attempt_finalization: once no request holds the lock, the session is taken
\* out and its ledger replaces what the sandbox said of usage.
Consume ==
  /\ runtime.pc = "finalize" /\ handler.pc = "none"
  /\ runtime' = [runtime EXCEPT !.pc = "done", !.result = Final(runtime.result, books.terminal), !.usage = books.used]
  /\ books' = [books EXCEPT !.open = FALSE, !.finals = @ + 1]
  /\ WorkerOnly

\* Time passes, and the worker cancels.
Expire == ~expired /\ expired' = TRUE /\ UNCHANGED <<loop, wire, handler, books, runtime, cancelled, refused>>
Cancel == ~cancelled /\ cancelled' = TRUE /\ UNCHANGED <<loop, wire, handler, books, runtime, expired, refused>>

\* The server's exit drops what is still under way.
ServerStops ==
  /\ runtime.pc = "done" /\ wire # 0
  /\ wire' = 0
  /\ UNCHANGED <<loop, handler, books, runtime, expired, cancelled, refused>>

Answers ==
  [stop : {"tool_use", "end_turn", "max_tokens"},
   tools : {<<>>} \cup UNION {[1 .. n -> Calls] : n \in 1 .. MaxTools}]

AgentInit ==
  /\ loop = [pc |-> "off", turn |-> 0, read |-> 0, file |-> "none", answer |-> Refusal, result |-> "none"]
  /\ wire = 0 /\ handler = NoHandler
  /\ books = [NewBooks(0) EXCEPT !.open = FALSE]
  /\ runtime = [pc |-> "begin", result |-> "none", usage |-> 0]
  /\ expired = FALSE /\ cancelled = FALSE /\ refused = 0

LoopStep ==
  \/ \E ok \in {"yes", "input", "configuration"} : LoopStarts(ok)
  \/ LoopTurn \/ LoopWaits \/ LoopReads \/ LoopCollects
ProxyStep ==
  \/ \E malformed, late \in BOOLEAN : Arrives(malformed, late)
  \/ \E a \in Answers : UpstreamAnswers(a)
  \/ UpstreamFails \/ UpstreamDeadline \/ UpstreamCancelled
RuntimeStep ==
  \/ \E ok \in BOOLEAN : Begin(ok)
  \/ \E raised \in Raised \cup {"no"} : RunnerDone(raised)
  \/ RunnerCancelled \/ Consume

AgentNext == LoopStep \/ ProxyStep \/ RuntimeStep \/ SandboxDies \/ Expire \/ Cancel \/ ServerStops

\* Time passes; the loop, the proxy and the runtime are tasks that run.
AgentSpec ==
  /\ AgentInit /\ [][AgentNext]_avars
  /\ WF_avars(LoopStep) /\ WF_avars(ProxyStep) /\ WF_avars(RuntimeStep) /\ WF_avars(Expire)
-----------------------------------------------------------------------------
(* Properties.                                                              *)

\* "the authoritative per-attempt model/usage ledger": an attempt that ends with an
\* output is charged for exactly the answers its loop has read.
SuccessIsAccounted == runtime.pc = "done" /\ runtime.result = "output" => runtime.usage = loop.read

\* An attempt whose model call the deadline cut off is reported as timed out, and not
\* as the error its loop saw, unless the worker cancelled it.
DeadlineWins ==
  runtime.pc = "done" /\ ~books.open /\ books.terminal => runtime.result \in {"timeout", "cancelled"}

\* An output is of the job: the last one written has the job's skill, version and mode,
\* and no disallowed tool ran before it.
OutputIsOwn == runtime.pc = "done" /\ runtime.result = "output" => loop.file = "own"

\* Every attempt ends.
AttemptEnds == <>(runtime.pc = "done")

\* What is reported of an attempt is what happened: its usage, its deadline, its output.
ResultIsFaithful == SuccessIsAccounted /\ DeadlineWins /\ OutputIsOwn
=============================================================================
