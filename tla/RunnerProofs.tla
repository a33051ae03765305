---------------------------- MODULE RunnerProofs ----------------------------
(***************************************************************************)
(* Machine-checked proofs about the parts that run models, sandboxes and   *)
(* tools: one attempt at the model (AgentRun), the custody of a sandboxed  *)
(* attempt (SandboxCustody), the cached job history of the worker analysis *)
(* (JobHistory) and the evaluation runner (EvalRunner).  They have no      *)
(* state in common; each has its own invariant.                            *)
(***************************************************************************)
EXTENDS AgentRun, SandboxCustody, JobHistory, EvalRunner, TLAPS, WellFoundedInduction

-----------------------------------------------------------------------------
(* Numbers.                                                                *)

\* A set of numbers that is not empty has a least one.
LEMMA LeastNumber ==
  ASSUME NEW T \in SUBSET Nat, T # {}
  PROVE  \E x \in T : \A y \in T : x <= y
<1> DEFINE R == OpToRel(<, Nat)
<1>1. IsWellFoundedOn(R, Nat)
  BY NatLessThanWellFounded, Zenon
<1>2. R = {p \in Nat \X Nat : p[1] < p[2]}
  BY Zenon DEF OpToRel
<1> HIDE DEF R
<1>3. PICK x \in T : \A y \in T : ~ (<<y, x>> \in R)
  BY <1>1, WFMin
<1>4. \A y \in T : ~ (y < x)
  BY <1>2, <1>3
<1> QED
  BY <1>4

\* A set of numbers below a bound has a largest one.
LEMMA LargestNumber ==
  ASSUME NEW T \in SUBSET Nat, T # {}, NEW b \in Nat, \A x \in T : x <= b
  PROVE  \E x \in T : \A y \in T : y <= x
<1> DEFINE U == {u \in Nat : \A x \in T : x <= u}
<1>1. U \in SUBSET Nat /\ b \in U
  OBVIOUS
<1>2. PICK u \in U : \A k \in U : u <= k
  BY <1>1, LeastNumber
<1>3. u \in T
  <2> SUFFICES ASSUME u \notin T PROVE FALSE
    OBVIOUS
  <2>1. \A x \in T : x < u
    BY <1>2
  <2>2. PICK x \in T : TRUE
    OBVIOUS
  <2>3. u - 1 \in U
    BY <2>1, <2>2, <1>2
  <2> QED
    BY <2>3, <1>2
<1> QED
  BY <1>2, <1>3

-----------------------------------------------------------------------------
(* One attempt at the model, for any tools, any number of turns and tool   *)
(* calls: what is reported of an attempt is what happened.                 *)
(*                                                                         *)
(* Three tasks race: the loop may give up while its request is on the way, *)
(* the proxy answers into a conversation that may be over, and the worker  *)
(* closes books that a straggler may open again.  The inductive invariant  *)
(* says where a request can be (only while the loop waits for it, or after *)
(* it gave up), that until then the books hold one unit for each answer    *)
(* the loop was given, and that a call under way keeps the books open.     *)

LoopPcs == {"off", "start", "turn", "calling", "answered", "collect", "exited"}
LoopFailures == {"forbidden_tool", "tool_input_error", "input_error", "model_error", "output_error",
             "configuration_error", "cancelled", "timeout"}
LoopResults == LoopFailures \cup {"none", "no result", "output"}

LoopType == [pc : LoopPcs, turn : Nat, read : Nat, file : {"none", "own", "other"},
             answer : Answers \cup {Refusal}, result : LoopResults]
BooksType == [open : BOOLEAN, next : Nat, used : Nat, terminal : BOOLEAN, cancel : BOOLEAN, finals : Nat]
RuntimeType == [pc : {"begin", "running", "finalize", "done"},
                result : LoopResults \cup Raised, usage : Nat]

AgentTypeInv ==
  /\ loop \in LoopType /\ wire \in Nat /\ books \in BooksType /\ runtime \in RuntimeType
  /\ handler \in [pc : {"none", "upstream"}, seq : Nat]
  /\ {expired, cancelled} \subseteq BOOLEAN

\* The loop has come to an end with an output.
Delivered == loop.pc = "exited" /\ loop.result = "output"

\* No request is under way but the one the loop waits for, or gave up.
RequestInv ==
  /\ loop.pc \in {"off", "start", "turn", "answered", "collect"} \/ Delivered
       => wire = 0 /\ handler.pc = "none"
  /\ wire = 0 \/ handler.pc = "none"

\* The books and the conversation.
BooksInv ==
  /\ loop.pc \in {"start", "turn", "calling", "collect"} => books.used = loop.read
  /\ loop.pc = "answered" => books.used = loop.read + 1
  /\ Delivered => runtime.pc \in {"running", "finalize", "done"} /\ loop.file = "own"
  /\ Delivered => books.used = loop.read
  /\ handler.pc = "upstream" => books.open
  /\ runtime.pc = "begin" => /\ loop.pc \in {"off", "exited"} /\ loop.read = 0 /\ ~ Delivered
                             /\ wire = 0 /\ handler.pc = "none" /\ ~ books.terminal
  /\ runtime.pc \in {"running", "finalize"} => loop.pc # "off" /\ books.open
  /\ runtime.pc \in {"finalize", "done"} => loop.pc \in {"off", "exited"}
  /\ runtime.pc \in {"finalize", "done"} /\ runtime.result = "output" => Delivered

AgentInv == AgentTypeInv /\ RequestInv /\ BooksInv /\ SuccessIsAccounted /\ DeadlineWins

-----------------------------------------------------------------------------

\* The records at the start of an attempt, and of a session made anew.
LEMMA AgentRecords ==
  /\ NoHandler \in [pc : {"none", "upstream"}, seq : Nat] /\ NoHandler.pc = "none"
  /\ \A n \in Nat : /\ NewBooks(n) \in BooksType /\ NewBooks(n).used = 0 /\ NewBooks(n).open
                    /\ ~ NewBooks(n).terminal
  BY DEF NoHandler, NewBooks, BooksType

\* The loop's counters and its phase, set anew.
LEMMA Counted ==
  ASSUME NEW r \in LoopType, NEW n \in Nat, NEW pc \in LoopPcs, NEW file \in {"none", "own", "other"}
  PROVE  /\ [r EXCEPT !.pc = pc, !.turn = n] \in LoopType
         /\ [r EXCEPT !.file = file, !.read = n, !.pc = pc] \in LoopType
         /\ [r EXCEPT !.pc = pc, !.read = n] \in LoopType
  BY DEF LoopType

\* A tool that fails names a failure.
LEMMA FailuresOfTools ==
  ASSUME NEW call, ToolFails(call) # "no"
  PROVE  ToolFails(call) \in LoopFailures
  BY DEF ToolFails, LoopFailures

\* The first failure of an answer is a tool that fails.
LEMMA FirstFailureFails ==
  ASSUME NEW a \in Answers \cup {Refusal}, FirstFailure(a.tools) # 0
  PROVE  ToolFails(a.tools[FirstFailure(a.tools)]) # "no"
<1> DEFINE bad == {i \in DOMAIN a.tools : ToolFails(a.tools[i]) # "no"}
<1>1. DOMAIN a.tools \subseteq Nat
  BY AgentAssumption DEF Answers, Refusal
<1>2. bad # {}
  BY DEF FirstFailure
<1>3. bad \in SUBSET Nat
  BY <1>1
<1>4. \E i \in bad : \A k \in bad : i <= k
  BY <1>2, <1>3, LeastNumber
<1>5. FirstFailure(a.tools) = CHOOSE i \in bad : \A k \in bad : i <= k
  BY <1>2 DEF FirstFailure
<1> HIDE DEF bad
<1>6. FirstFailure(a.tools) \in bad
  BY <1>4, <1>5
<1> QED
  BY <1>6 DEF bad

\* What the output workspace can hold.
LEMMA AgentWorkspace ==
  ASSUME NEW before \in {"none", "own", "other"}, NEW tools
  PROVE  Written(before, tools) \in {"none", "own", "other"}
  BY DEF Written

\* The loop's own steps.
LEMMA LoopKeeps ==
  ASSUME AgentInv, LoopStep \/ SandboxDies
  PROVE  AgentInv'
<1> USE DEF LoopPcs, LoopFailures, LoopResults
<1>0. loop \in LoopType /\ UNCHANGED <<handler, books, runtime, expired, cancelled, refused>>
  BY DEF AgentInv, AgentTypeInv, LoopStep, LoopStarts, LoopTurn, LoopWaits, LoopReads, LoopCollects, SandboxDies, LoopOnly
<1>b. /\ loop.read \in Nat /\ loop.turn \in Nat /\ loop.answer \in Answers \cup {Refusal}
      /\ loop.file \in {"none", "own", "other"}
  BY <1>0 DEF LoopType
<1>1. ASSUME NEW outcome \in LoopFailures \cup {"no result"}, NEW file \in {"none", "own", "other"},
             loop' = [loop EXCEPT !.pc = "exited", !.file = file, !.result = outcome],
             loop.pc # "exited", wire' = wire
      PROVE  AgentInv'
  <2>1. loop' \in LoopType /\ loop'.pc = "exited" /\ loop'.result = outcome /\ loop'.read = loop.read
    BY <1>0, <1>1 DEF LoopType
  <2> QED
    BY <1>0, <1>1, <2>1 DEF AgentInv, AgentTypeInv, Delivered, RequestInv, BooksInv, SuccessIsAccounted, DeadlineWins
<1>2. ASSUME NEW outcome \in LoopFailures \cup {"no result"}, Exits(outcome), loop.pc # "exited", wire' = wire
      PROVE  AgentInv'
  <2>1. loop' = [loop EXCEPT !.pc = "exited", !.file = loop.file, !.result = outcome]
    BY <1>0, <1>2 DEF Exits, LoopType
  <2>2. loop.file \in {"none", "own", "other"}
    BY <1>0 DEF LoopType
  <2> QED
    BY <1>1, <1>2, <2>1, <2>2
<1>3. ASSUME NEW ok \in {"yes", "input", "configuration"}, LoopStarts(ok) PROVE AgentInv'
  <2>1. CASE loop' = [loop EXCEPT !.pc = "turn"] /\ loop.pc = "start" /\ wire' = wire
    <3>1. loop' \in LoopType /\ loop'.pc = "turn" /\ loop'.read = loop.read
      BY <1>0, <2>1 DEF LoopType
    <3> QED
      BY <1>0, <2>1, <3>1 DEF AgentInv, AgentTypeInv, Delivered, RequestInv, BooksInv, SuccessIsAccounted, DeadlineWins
  <2> QED
    BY <1>2, <1>3, <2>1 DEF LoopStarts, LoopAt
<1>4. ASSUME LoopTurn PROVE AgentInv'
  <2>1. CASE loop' = [loop EXCEPT !.pc = "collect"] /\ loop.pc = "turn" /\ wire' = wire
    <3>1. loop' \in LoopType /\ loop'.pc = "collect" /\ loop'.read = loop.read
      BY <1>0, <2>1 DEF LoopType
    <3> QED
      BY <1>0, <2>1, <3>1 DEF AgentInv, AgentTypeInv, Delivered, RequestInv, BooksInv, SuccessIsAccounted, DeadlineWins
  <2>2. CASE /\ loop' = [loop EXCEPT !.pc = "calling", !.turn = @ + 1] /\ loop.pc = "turn"
             /\ wire' = loop.turn + 1
    <3>0. loop.turn + 1 \in Nat
      BY <1>b
    <3>1. loop' \in LoopType
      BY <1>0, <2>2, <3>0, Counted
    <3>2. loop'.pc = "calling" /\ loop'.read = loop.read /\ wire' \in Nat
      BY <1>0, <2>2, <3>0 DEF LoopType
    <3> QED
      BY <1>0, <2>2, <3>1, <3>2 DEF AgentInv, AgentTypeInv, Delivered, RequestInv, BooksInv, SuccessIsAccounted, DeadlineWins
  <2> QED
    BY <1>2, <1>4, <2>1, <2>2 DEF LoopTurn, LoopAt
<1>5. ASSUME LoopWaits PROVE AgentInv'
  BY <1>2, <1>5 DEF LoopWaits, LoopAt
<1>6. ASSUME LoopCollects PROVE AgentInv'
  <2>1. CASE loop.file = "own"
    <3>1. loop' = [loop EXCEPT !.pc = "exited", !.result = "output"] /\ loop.pc = "collect" /\ wire' = wire
      BY <1>6, <2>1 DEF LoopCollects, Collected, Exits, LoopAt
    <3>2. loop' \in LoopType /\ loop'.pc = "exited" /\ loop'.read = loop.read /\ loop'.file = "own"
      BY <1>0, <2>1, <3>1 DEF LoopType
    <3>3. runtime.pc \in {"running"}
      BY <3>1 DEF AgentInv, AgentTypeInv, BooksInv, RuntimeType
    <3> QED
      BY <1>0, <3>1, <3>2, <3>3 DEF AgentInv, AgentTypeInv, Delivered, RequestInv, BooksInv, SuccessIsAccounted, DeadlineWins
  <2>2. CASE loop.file # "own"
    BY <1>2, <1>6, <2>2 DEF LoopCollects, Collected, LoopAt
  <2> QED
    BY <2>1, <2>2
<1>7. ASSUME LoopReads PROVE AgentInv'
  <2>1. CASE \E outcome \in LoopFailures : Exits(outcome) /\ wire' = wire /\ loop.pc = "answered"
    BY <1>2, <2>1
  <2>2. CASE \E call, tools : /\ ToolFails(call) # "no" /\ wire' = wire /\ loop.pc = "answered"
                              /\ loop' = [loop EXCEPT !.pc = "exited", !.file = Written(loop.file, tools),
                                                      !.result = ToolFails(call)]
    <3>1. loop.file \in {"none", "own", "other"}
      BY <1>0 DEF LoopType
    <3> QED
      BY <1>1, <2>2, <3>1, FailuresOfTools, AgentWorkspace
  <2>3. CASE \E pc \in {"turn", "collect"} : \E tools :
               /\ loop' = [loop EXCEPT !.file = Written(loop.file, tools), !.read = @ + 1, !.pc = pc]
               /\ wire' = wire /\ loop.pc = "answered"
    <3>1. PICK pc \in {"turn", "collect"} : \E tools :
               /\ loop' = [loop EXCEPT !.file = Written(loop.file, tools), !.read = @ + 1, !.pc = pc]
               /\ wire' = wire /\ loop.pc = "answered"
      BY <2>3
    <3>t. PICK tools :
               /\ loop' = [loop EXCEPT !.file = Written(loop.file, tools), !.read = @ + 1, !.pc = pc]
               /\ wire' = wire /\ loop.pc = "answered"
      BY <3>1
    <3>2. Written(loop.file, tools) \in {"none", "own", "other"}
      BY <1>0, AgentWorkspace DEF LoopType
    <3>0. loop.read + 1 \in Nat
      BY <1>b
    <3>3. loop' \in LoopType
      BY <1>0, <3>0, <3>t, <3>2, Counted
    <3>4. loop'.pc = pc /\ loop'.read = loop.read + 1
      BY <1>0, <3>t DEF LoopType
    <3> QED
      BY <1>0, <3>t, <3>3, <3>4 DEF AgentInv, AgentTypeInv, Delivered, RequestInv, BooksInv, SuccessIsAccounted, DeadlineWins
  <2>4. CASE loop' = [loop EXCEPT !.pc = "collect", !.read = @ + 1] /\ wire' = wire /\ loop.pc = "answered"
    <3>0. loop.read + 1 \in Nat
      BY <1>b
    <3>1. loop' \in LoopType
      BY <1>0, <2>4, <3>0, Counted
    <3>2. loop'.pc = "collect" /\ loop'.read = loop.read + 1
      BY <1>0, <2>4 DEF LoopType
    <3> QED
      BY <1>0, <2>4, <3>1, <3>2 DEF AgentInv, AgentTypeInv, Delivered, RequestInv, BooksInv, SuccessIsAccounted, DeadlineWins
  <2> DEFINE a == loop.answer
             n == FirstFailure(a.tools)
             ran == IF n = 0 THEN a.tools ELSE SubSeq(a.tools, 1, n - 1)
  <2>5. n # 0 => ToolFails(a.tools[n]) # "no"
    BY <1>b, FirstFailureFails
  <2>6. /\ loop.pc = "answered" /\ wire' = wire
        /\ \/ n # 0 /\ loop' = [loop EXCEPT !.pc = "exited", !.file = Written(loop.file, ran),
                                            !.result = ToolFails(a.tools[n])]
           \/ \E pc \in {"turn", "collect"} :
                loop' = [loop EXCEPT !.file = Written(loop.file, ran), !.read = @ + 1, !.pc = pc]
           \/ loop' = [loop EXCEPT !.pc = "collect", !.read = @ + 1]
           \/ Exits("model_error")
    BY <1>7 DEF LoopReads, LoopAt
  <2> HIDE DEF a, n, ran
  <2> QED
    BY <2>1, <2>2, <2>3, <2>4, <2>5, <2>6
<1>8. ASSUME SandboxDies PROVE AgentInv'
  BY <1>2, <1>8 DEF SandboxDies
<1> QED
  BY <1>3, <1>4, <1>5, <1>6, <1>7, <1>8 DEF LoopStep

\* What an answer, or a refusal, does to the loop that waits for it, and to another.
LEMMA Replies ==
  ASSUME AgentTypeInv, NEW a \in Answers \cup {Refusal}, Reply(a)
  PROVE  /\ loop' \in LoopType /\ loop'.read = loop.read
         /\ loop.pc # "calling" => loop' = loop
         /\ loop.pc = "calling" =>
              \/ loop'.pc = "exited" /\ loop'.result = "model_error"
              \/ loop'.pc = "answered" /\ a # Refusal
<1> USE DEF LoopPcs, LoopFailures, LoopResults
<1>1. CASE loop.pc # "calling"
  BY <1>1 DEF Reply, LoopAt, AgentTypeInv
<1>2. CASE loop.pc = "calling" /\ a.stop = "error"
  BY <1>2 DEF Reply, LoopAt, AgentTypeInv, Exits, LoopType
<1>3. CASE loop.pc = "calling" /\ a.stop # "error"
  <2>1. loop' = [loop EXCEPT !.pc = "answered", !.answer = a] /\ a # Refusal
    BY <1>3 DEF Reply, LoopAt, Refusal
  <2> QED
    BY <1>3, <2>1 DEF AgentTypeInv, LoopType
<1> QED
  BY <1>1, <1>2, <1>3

\* The proxy's steps.
LEMMA ProxyKeeps ==
  ASSUME AgentInv, ProxyStep
  PROVE  AgentInv'
<1>0. /\ loop \in LoopType /\ books \in BooksType /\ wire \in Nat
      /\ handler \in [pc : {"none", "upstream"}, seq : Nat]
      /\ UNCHANGED <<runtime, expired, cancelled>>
  BY DEF AgentInv, AgentTypeInv, ProxyStep, Arrives, UpstreamAnswers, UpstreamFails, UpstreamDeadline, UpstreamCancelled, ProxyOnly
<1>1. ASSUME handler.pc = "upstream", handler' = NoHandler, UNCHANGED wire, Reply(Refusal),
             books' \in BooksType, books'.used = books.used, books'.open = books.open
      PROVE  AgentInv'
  <2>1. /\ loop' \in LoopType /\ loop'.read = loop.read
        /\ loop.pc # "calling" => loop' = loop
        /\ loop.pc = "calling" => loop'.pc = "exited" /\ loop'.result = "model_error"
    BY <1>1, Replies DEF AgentInv
  <2> QED
    BY <1>0, <1>1, <2>1, AgentRecords
       DEF AgentInv, AgentTypeInv, Delivered, RequestInv, BooksInv, SuccessIsAccounted, DeadlineWins
<1>2. ASSUME NEW malformed \in BOOLEAN, NEW late \in BOOLEAN, Arrives(malformed, late) PROVE AgentInv'
  <2> DEFINE b == Session
             counted == [b EXCEPT !.next = @ + 1]
  <2>1. /\ b \in BooksType /\ b.open
        /\ books.open => b = books
    BY <1>0, AgentRecords DEF Session, BooksType
  <2>2. /\ counted \in BooksType /\ counted.used = b.used /\ counted.open
        /\ [counted EXCEPT !.terminal = TRUE] \in BooksType
        /\ [counted EXCEPT !.terminal = TRUE].used = b.used
        /\ [counted EXCEPT !.terminal = TRUE].open
    <3>1. b.next + 1 \in Nat
      BY <2>1 DEF BooksType
    <3> QED
      BY <2>1, <3>1 DEF BooksType
  <2>3. /\ wire # 0 /\ handler.pc = "none" /\ wire' = 0
        /\ \/ books' = books /\ Reply(Refusal) /\ UNCHANGED handler
           \/ books' \in {b, counted, [counted EXCEPT !.terminal = TRUE]} /\ Reply(Refusal) /\ UNCHANGED handler
           \/ books' = counted /\ handler' = [pc |-> "upstream", seq |-> wire] /\ UNCHANGED loop
    BY <1>2 DEF Arrives
  <2>4. /\ books' \in BooksType
        /\ books' = books \/ books'.open
        /\ books.open => books'.used = books.used /\ books'.open
    BY <2>1, <2>2, <2>3, <1>0
  <2> HIDE DEF b, counted
  <2>5. CASE Reply(Refusal) /\ UNCHANGED handler
    <3>1. /\ loop' \in LoopType /\ loop'.read = loop.read
          /\ loop.pc # "calling" => loop' = loop
          /\ loop.pc = "calling" => loop'.pc = "exited" /\ loop'.result = "model_error"
      BY <2>5, Replies DEF AgentInv
    <3> QED
      BY <1>0, <2>3, <2>4, <2>5, <3>1
         DEF AgentInv, AgentTypeInv, Delivered, RequestInv, BooksInv, SuccessIsAccounted, DeadlineWins
  <2>6. CASE books' = counted /\ handler' = [pc |-> "upstream", seq |-> wire] /\ UNCHANGED loop
    <3>1. handler' \in [pc : {"none", "upstream"}, seq : Nat] /\ handler'.pc = "upstream" /\ books'.open
      BY <1>0, <2>2, <2>6
    <3>2. wire # 0 /\ wire' = 0 /\ UNCHANGED loop
      BY <2>3, <2>6
    <3>3. AgentTypeInv' /\ RequestInv'
      BY <1>0, <2>4, <3>1, <3>2 DEF AgentInv, AgentTypeInv, RequestInv, Delivered
    <3>4. loop.pc \in {"calling", "exited"} /\ ~ Delivered /\ runtime.pc # "begin"
      BY <1>0, <3>2 DEF AgentInv, RequestInv, BooksInv, LoopType, LoopPcs
    <3>5. BooksInv'
      BY <1>0, <2>4, <3>1, <3>2, <3>4 DEF AgentInv, AgentTypeInv, Delivered, BooksInv, RuntimeType
    <3>6. SuccessIsAccounted' /\ DeadlineWins'
      BY <1>0, <2>4, <3>1, <3>2 DEF AgentInv, SuccessIsAccounted, DeadlineWins
    <3> QED
      BY <3>3, <3>5, <3>6 DEF AgentInv
  <2> QED
    BY <2>3, <2>5, <2>6
<1>3. ASSUME NEW a \in Answers, UpstreamAnswers(a) PROVE AgentInv'
  <2>1. /\ loop' \in LoopType /\ loop'.read = loop.read
        /\ loop.pc # "calling" => loop' = loop
        /\ loop.pc = "calling" =>
             \/ loop'.pc = "answered"
             \/ loop'.pc = "exited" /\ loop'.result = "model_error"
    <3>1. AgentTypeInv /\ Reply(a) /\ a \in Answers \cup {Refusal}
      BY <1>3 DEF AgentInv, UpstreamAnswers
    <3> HIDE DEF AgentTypeInv, Reply
    <3> QED
      BY <3>1, Replies
  <2>2. books' \in BooksType /\ books'.open = books.open /\ books'.used = books.used + 1
    <3>1. books.used + 1 \in Nat /\ books' = [books EXCEPT !.used = books.used + 1]
      BY <1>0, <1>3 DEF BooksType, UpstreamAnswers
    <3> QED
      BY <1>0, <3>1 DEF BooksType
  <2>3. handler.pc = "upstream" /\ handler' = NoHandler /\ UNCHANGED wire
    BY <1>3 DEF UpstreamAnswers, ProxyOnly
  <2> QED
    BY <1>0, <2>1, <2>2, <2>3, AgentRecords
       DEF AgentInv, AgentTypeInv, Delivered, RequestInv, BooksInv, SuccessIsAccounted, DeadlineWins
<1>4. CASE UpstreamFails \/ UpstreamCancelled
  BY <1>0, <1>1, <1>4 DEF UpstreamFails, UpstreamCancelled, ProxyOnly
<1>5. CASE UpstreamDeadline
  BY <1>0, <1>1, <1>5 DEF UpstreamDeadline, ProxyOnly, BooksType
<1> QED
  BY <1>2, <1>3, <1>4, <1>5 DEF ProxyStep

\* The worker's steps.
LEMMA RuntimeKeeps ==
  ASSUME AgentInv, RuntimeStep
  PROVE  AgentInv'
<1>0. /\ loop \in LoopType /\ books \in BooksType /\ runtime \in RuntimeType
      /\ UNCHANGED <<wire, handler, expired, cancelled>>
  BY DEF AgentInv, AgentTypeInv, RuntimeStep, Begin, RunnerDone, RunnerCancelled, Consume, WorkerOnly
<1>1. ASSUME NEW ok \in BOOLEAN, Begin(ok) PROVE AgentInv'
  <2>1. CASE /\ \E r \in {"cancelled", "runtime_error"} : runtime' = [runtime EXCEPT !.pc = "done", !.result = r]
             /\ UNCHANGED <<books, loop>> /\ runtime.pc = "begin"
    <3>1. /\ runtime' \in RuntimeType /\ runtime'.pc = "done"
          /\ runtime'.result \in {"cancelled", "runtime_error"}
      BY <1>0, <2>1 DEF RuntimeType, LoopResults, LoopFailures, Raised
    <3> QED
      BY <1>0, <2>1, <3>1 DEF AgentInv, AgentTypeInv, Delivered, RequestInv, BooksInv, SuccessIsAccounted, DeadlineWins
  <2>2. CASE /\ runtime' = [runtime EXCEPT !.pc = "running"] /\ runtime.pc = "begin"
             /\ books' = NewBooks(0) /\ loop' = [loop EXCEPT !.pc = "start"]
    <3>1. runtime' \in RuntimeType /\ runtime'.pc = "running"
      BY <1>0, <2>2 DEF RuntimeType
    <3>2. loop' \in LoopType /\ loop'.pc = "start" /\ loop'.read = loop.read
      BY <1>0, <2>2 DEF LoopType, LoopPcs
    <3>3. books' \in BooksType /\ books'.used = 0 /\ books'.open
      BY <2>2, AgentRecords
    <3> QED
      BY <1>0, <2>2, <3>1, <3>2, <3>3
         DEF AgentInv, AgentTypeInv, Delivered, RequestInv, BooksInv, SuccessIsAccounted, DeadlineWins
  <2> QED
    BY <1>1, <2>1, <2>2 DEF Begin
<1>2. ASSUME NEW result \in LoopResults \cup Raised, result = "output" => loop.result = "output",
             runtime.pc = "running", loop.pc = "exited",
             runtime' = [runtime EXCEPT !.pc = "finalize", !.result = result],
             books' = [books EXCEPT !.cancel = TRUE], UNCHANGED loop
      PROVE  AgentInv'
  <2>1. runtime' \in RuntimeType /\ runtime'.pc = "finalize" /\ runtime'.result = result
    BY <1>0, <1>2 DEF RuntimeType
  <2>2. /\ books' \in BooksType /\ books'.used = books.used /\ books'.open = books.open
        /\ books'.terminal = books.terminal
    BY <1>0, <1>2 DEF BooksType
  <2> QED
    BY <1>0, <1>2, <2>1, <2>2 DEF AgentInv, AgentTypeInv, Delivered, RequestInv, BooksInv, SuccessIsAccounted, DeadlineWins
<1>3. ASSUME NEW raised \in Raised \cup {"no"}, RunnerDone(raised) PROVE AgentInv'
  <2> DEFINE result == IF raised # "no" THEN raised
                       ELSE IF loop.result = "no result" THEN "runtime_error" ELSE loop.result
  <2>1. result \in LoopResults \cup Raised /\ (result = "output" => loop.result = "output")
    BY <1>0 DEF LoopType, LoopResults, Raised
  <2>2. /\ runtime.pc = "running" /\ loop.pc = "exited"
        /\ runtime' = [runtime EXCEPT !.pc = "finalize", !.result = result]
        /\ books' = [books EXCEPT !.cancel = TRUE] /\ UNCHANGED loop
    BY <1>3 DEF RunnerDone, LoopAt, WorkerOnly
  <2> HIDE DEF result
  <2> QED
    BY <1>2, <2>1, <2>2
<1>4. CASE RunnerCancelled
  BY <1>2, <1>4 DEF RunnerCancelled, LoopAt, WorkerOnly, LoopResults, LoopFailures
<1>5. CASE Consume
  <2> DEFINE final == Final(runtime.result, books.terminal)
  <2>1. /\ final \in LoopResults \cup Raised
        /\ final = "output" => runtime.result = "output"
        /\ books.terminal => final \in {"timeout", "cancelled"}
    BY <1>0 DEF Final, RuntimeType, LoopResults, LoopFailures
  <2>2. runtime' \in RuntimeType /\ runtime'.pc = "done" /\ runtime'.result = final /\ runtime'.usage = books.used
    <3>1. runtime' = [runtime EXCEPT !.pc = "done", !.result = final, !.usage = books.used]
      BY <1>5 DEF Consume
    <3> HIDE DEF final
    <3> QED
      BY <1>0, <2>1, <3>1 DEF RuntimeType, BooksType
  <2>3. books' \in BooksType /\ ~ books'.open /\ books'.used = books.used /\ books'.terminal = books.terminal
    <3>1. books.finals + 1 \in Nat /\ books' = [books EXCEPT !.open = FALSE, !.finals = books.finals + 1]
      BY <1>0, <1>5 DEF Consume, BooksType
    <3> QED
      BY <1>0, <3>1 DEF BooksType
  <2>4. runtime.pc = "finalize" /\ handler.pc = "none" /\ UNCHANGED loop
    BY <1>5 DEF Consume, WorkerOnly
  <2> HIDE DEF final
  <2> QED
    BY <1>0, <2>1, <2>2, <2>3, <2>4
       DEF AgentInv, AgentTypeInv, Delivered, RequestInv, BooksInv, SuccessIsAccounted, DeadlineWins
<1> QED
  BY <1>1, <1>3, <1>4, <1>5 DEF RuntimeStep
-----------------------------------------------------------------------------

\* The run starts with nothing reported, spent or called.
LEMMA AgentInitially == AgentInit => AgentInv
<1> SUFFICES ASSUME AgentInit PROVE AgentInv
  OBVIOUS
<1>1. loop \in LoopType /\ loop.pc = "off" /\ loop.read = 0
  BY DEF AgentInit, LoopType, LoopPcs, LoopResults
<1>2. books \in BooksType /\ ~ books.open /\ ~ books.terminal
  BY DEF AgentInit, BooksType, NewBooks
<1>3. runtime \in RuntimeType /\ runtime.pc = "begin"
  BY DEF AgentInit, RuntimeType, LoopResults
<1>4. wire = 0 /\ handler = NoHandler /\ {expired, cancelled} \subseteq BOOLEAN
  BY DEF AgentInit
<1> QED
  BY <1>1, <1>2, <1>3, <1>4, AgentRecords
     DEF AgentInv, AgentTypeInv, Delivered, RequestInv, BooksInv, SuccessIsAccounted, DeadlineWins

\* Every step of the loop, the proxy, the worker and the clock keeps the invariant.
THEOREM AgentInductive == AgentInv /\ [AgentNext]_avars => AgentInv'
<1> SUFFICES ASSUME AgentInv, [AgentNext]_avars PROVE AgentInv'
  OBVIOUS
<1>1. CASE LoopStep \/ SandboxDies
  BY <1>1, LoopKeeps
<1>2. CASE ProxyStep
  BY <1>2, ProxyKeeps
<1>3. CASE RuntimeStep
  BY <1>3, RuntimeKeeps
<1>4. CASE Expire \/ Cancel \/ ServerStops \/ UNCHANGED avars
  <2>1. /\ UNCHANGED <<loop, handler, books, runtime>> /\ wire' \in {wire, 0}
        /\ {expired', cancelled'} \subseteq BOOLEAN
    BY <1>4 DEF Expire, Cancel, ServerStops, avars, AgentInv, AgentTypeInv
  <2> QED
    BY <2>1 DEF AgentInv, AgentTypeInv, Delivered, RequestInv, BooksInv, SuccessIsAccounted, DeadlineWins
<1> QED
  BY <1>1, <1>2, <1>3, <1>4 DEF AgentNext

\* The invariant holds in every state of a run of the agent, whatever its tools answer.
THEOREM AgentInvariance == AgentSpec => []AgentInv
<1> USE DEF AgentSpec
<1> QED
  BY AgentInitially, AgentInductive, PTL

\* What the worker reports of an attempt is what happened: an attempt that ends with an
\* output is charged for exactly the answers its loop has read (the proxy's ledger
\* replaces what the sandbox said), a model call that the deadline cut off makes it
\* timed out, and the output is the job's own.
THEOREM FaithfulResult == AgentSpec => []ResultIsFaithful
<1>1. AgentInv => ResultIsFaithful
  BY DEF AgentInv, BooksInv, Delivered, ResultIsFaithful, SuccessIsAccounted, DeadlineWins, OutputIsOwn
<1> QED
  BY <1>1, AgentInvariance, PTL

\* What a model call costs is always booked: none is under way with the books closed (a
\* straggler of an attempt that is over has had _ensure_session open new ones first).
THEOREM NoCallWithoutBooks == AgentSpec => [](handler.pc = "upstream" => books.open)
<1>1. AgentInv => (handler.pc = "upstream" => books.open)
  BY DEF AgentInv, BooksInv
<1> QED
  BY <1>1, AgentInvariance, PTL

-----------------------------------------------------------------------------
(* The custody of a sandboxed attempt, for any number of processes that    *)
(* die and of checks that fail: nothing runs that no journal names,        *)
(* nothing partial is published, what was released is gone, what succeeded *)
(* can be read, and what was published is not replaced.                    *)
(*                                                                         *)
(* None of this is inductive.  That the journal names what runs needs to   *)
(* know who can be at work at the same time: a finalize starts only when   *)
(* run has left its setup, and the sweeper only when everybody else is     *)
(* gone.  That partial output is not published needs that a record says    *)
(* "restore" exactly when run has exited with 0, and that then the sandbox *)
(* did; and that a result stays, that whoever finalizes after it was       *)
(* published has read such a record.                                       *)


\* The steps of finalize between the load of the journal and its removal.
Working == {"kill", "list", "rmstate", "stage", "discard", "publish", "rmstaging", "rmjournal"}

\* run with the output in the staging directory.
Sealed == {"j-output", "mv-proxy", "j-proxy", "configure", "spawn", "record", "release",
           "wait", "report", "exit0"}

\* While run sets up nobody else touches the directories, and runsc does not run.
SetupInv ==
  /\ run \in SetupPC => /\ fin["worker"].pc = "idle" /\ ~ listed
                        /\ {ws.output, stg.output} \subseteq {"none", "empty"}
                        /\ runsc = IF run \in {"record", "release"} THEN "blocked" ELSE "none"
  /\ run = "idle" => journal = NoJournal /\ stg = NoStaging /\ ~ bundle /\ ~ state
  /\ run \in SetupPC \ {"idle"} => journal # NoJournal
  /\ run \in SetupPC \ {"idle", "mkdirs"} => state
  /\ run = "release" => journal.pid

\* A sandbox that runs is on record, and no finalize is past the step that stops it;
\* a run that has exited with 0 is one whose sandbox did.
RunscInv ==
  /\ run \notin SetupPC => runsc # "blocked"
  /\ runsc = "running" => /\ run \notin SetupPC /\ state
                          /\ journal # NoJournal /\ journal.pid
                          /\ \A f \in Finalizers :
                               fin[f].pc \in Working => fin[f].pc = "kill" /\ fin[f].record.pid
  /\ run = "report" => runsc \in {"exited0", "exited1"}
  /\ run = "exit0" => runsc = "exited0"
  /\ runsc = "exited0" => stg.output # "partial"
  /\ listed => state

\* A journal says "restore" exactly when run has exited with 0.
RecordInv ==
  /\ journal # NoJournal => (journal.terminal = "restore" <=> run = "exit0")
  /\ journal # NoJournal => (journal.terminal = "restore" <=> journal.phase = "run-finished")
  /\ ReleasedMeansGone

\* What a finalize has read and what it has removed so far.
Finalizing(f) ==
  /\ fin[f].pc \in Working =>
       /\ journal # NoJournal /\ fin[f].record # NoJournal
       /\ fin[f].record.terminal = "restore" => run = "exit0"
       /\ fin[f].record.terminal = "restore" <=> fin[f].record.phase = "run-finished"
       /\ ws.output = "result" => fin[f].record.terminal = "restore"
  /\ fin[f].pc \in Working \ {"kill", "list"} => ~ listed
  /\ fin[f].pc \in Working \ {"kill", "list", "rmstate"} => ~ state
  /\ fin[f].pc \in {"discard", "publish"} /\ fin[f].record.terminal = "discard" => stg.output = "empty"
  /\ fin[f].pc \in {"publish", "rmstaging", "rmjournal"} => ~ bundle
  /\ fin[f].pc = "rmjournal" => stg = NoStaging

\* The attempt is over but for the sweeper.
Quiet ==
  /\ ~ RunAlive /\ ~ FinAlive("worker")
  /\ runner.pc \notin {"wait", "stop", "finalize", "finalizing"}
  /\ owner \in {"over", "dead"}

QuietInv == old \/ fin["sweeper"].pc # "idle" => Quiet

\* Where the result of an attempt is whose owner waits for it.
RunnerInv ==
  /\ runner.pc \in {"wait", "stop", "finalize"} => fin["worker"].pc = "idle"
  /\ runner.pc \in {"wait", "stop"} => ~ runner.good
  /\ runner.good => run = "exit0"
  /\ runner.pc = "done" => runner.good /\ fin["worker"].pc = "ok"
  /\ owner = "read" => runner.pc = "done"

ResultInv ==
  /\ ws.output # "partial"
  /\ ws.output = "result" => run = "exit0"
  /\ owner \in {"waiting", "read"} =>
       /\ /\ run \in Sealed
          /\ fin["worker"].pc \in {"idle", "load", "kill", "list", "rmstate", "stage", "discard", "publish"}
          => ws.output = "none"
       /\ /\ runsc = "exited0"
          /\ fin["worker"].pc \in {"idle", "load", "kill", "list", "rmstate", "stage"}
          => stg.output = "result"
       /\ runner.good =>
            /\ fin["worker"].pc \in Working => fin["worker"].record.terminal = "restore"
            /\ fin["worker"].pc \in {"discard", "publish"} => stg.output = "result"
            /\ fin["worker"].pc \in {"rmstaging", "rmjournal", "ok"} => ws.output = "result"

\* CTypeOK, in three parts.
FilesOK ==
  /\ journal \in Journal \cup {NoJournal} /\ old \in BOOLEAN
  /\ ws \in [input: BOOLEAN, output: Content, proxy: BOOLEAN]
  /\ stg \in [dir: BOOLEAN, input: BOOLEAN, output: Content, proxy: BOOLEAN]
  /\ bundle \in BOOLEAN /\ state \in BOOLEAN

BrokerOK ==
  /\ runsc \in {"none", "blocked", "running", "exited0", "exited1"} /\ listed \in BOOLEAN
  /\ run \in RunPC
  /\ fin \in [Finalizers -> [pc: FinPC, record: Journal \cup {NoJournal}]]

WorkerOK ==
  /\ runner \in [pc: {"wait", "stop", "finalize", "finalizing", "done", "failed", "dead"},
                 good: BOOLEAN]
  /\ owner \in {"waiting", "read", "over", "dead"} /\ faults \in 0 .. MaxFaults

Typed == FilesOK /\ BrokerOK /\ WorkerOK

Ordered ==
  /\ SetupInv /\ RunscInv /\ RecordInv /\ QuietInv /\ RunnerInv /\ ResultInv
  /\ \A f \in Finalizers : Finalizing(f)

CustodyInv == Typed /\ Ordered

-----------------------------------------------------------------------------
(***************************************************************************)
(* The types.  One lemma per operation, one step per action.               *)
(***************************************************************************)

\* Every step of run leaves the journal, the directories and the processes typed.
LEMMA RunTyped == ASSUME CustodyInv, Run PROVE Typed'
<1>1. ASSUME RunPrepare, UNCHANGED <<fin, worker, faults>> PROVE Typed'
  <2> USE <1>1 DEF RunPrepare, RunAt, WriteJournal
  <2>1. FilesOK'
    BY DEF CustodyInv, Typed, FilesOK, Content, paths, Phase, Journal, Ordered, SetupInv, SetupPC
  <2>2. BrokerOK'
    BY DEF CustodyInv, Typed, BrokerOK, SetupPC, RunPC, FinPC, sandbox
  <2>3. WorkerOK'
    BY CustodyAssumption DEF CustodyInv, Typed, WorkerOK, worker, NoFault, Fault
  <2> QED
    BY <2>1, <2>2, <2>3 DEF Typed
<1>2. ASSUME RunMakeDirectories, UNCHANGED <<fin, worker, faults>> PROVE Typed'
  <2> USE <1>2 DEF RunMakeDirectories, RunAt
  <2>1. FilesOK'
    BY DEF CustodyInv, Typed, FilesOK, Content, paths
  <2>2. BrokerOK'
    BY DEF CustodyInv, Typed, BrokerOK, SetupPC, RunPC, FinPC, sandbox
  <2>3. WorkerOK'
    BY CustodyAssumption DEF CustodyInv, Typed, WorkerOK, worker, NoFault, Fault
  <2> QED
    BY <2>1, <2>2, <2>3 DEF Typed
<1>3. ASSUME RunSeal, UNCHANGED <<fin, worker, faults>> PROVE Typed'
  <2> USE <1>3 DEF RunSeal, RunAt
  <2>1. FilesOK'
    BY DEF CustodyInv, Typed, FilesOK, Content, paths
  <2>2. BrokerOK'
    BY DEF CustodyInv, Typed, BrokerOK, SetupPC, RunPC, FinPC, sandbox
  <2>3. WorkerOK'
    BY CustodyAssumption DEF CustodyInv, Typed, WorkerOK, worker, NoFault, Fault
  <2> QED
    BY <2>1, <2>2, <2>3 DEF Typed
<1>4. ASSUME RunRecordPhase, UNCHANGED <<fin, worker, faults>> PROVE Typed'
  <2> USE <1>4 DEF RunRecordPhase, RunAt, WriteJournal, InPhase
  <2>1. FilesOK'
    BY DEF CustodyInv, Typed, FilesOK, Content, paths, Phase, Journal, Ordered, SetupInv, SetupPC
  <2>2. BrokerOK'
    BY DEF CustodyInv, Typed, BrokerOK, SetupPC, RunPC, FinPC, sandbox
  <2>3. WorkerOK'
    BY CustodyAssumption DEF CustodyInv, Typed, WorkerOK, worker, NoFault, Fault
  <2> QED
    BY <2>1, <2>2, <2>3 DEF Typed
<1>5. ASSUME RunSpawn, UNCHANGED <<fin, worker, faults>> PROVE Typed'
  <2> USE <1>5 DEF RunSpawn, RunAt
  <2>1. FilesOK'
    BY DEF CustodyInv, Typed, FilesOK, Content, paths
  <2>2. BrokerOK'
    BY DEF CustodyInv, Typed, BrokerOK, SetupPC, RunPC, FinPC, sandbox
  <2>3. WorkerOK'
    BY CustodyAssumption DEF CustodyInv, Typed, WorkerOK, worker, NoFault, Fault
  <2> QED
    BY <2>1, <2>2, <2>3 DEF Typed
<1>6. ASSUME RunRecordIdentity, UNCHANGED <<fin, worker, faults>> PROVE Typed'
  <2> USE <1>6 DEF RunRecordIdentity, RunAt, WriteJournal
  <2>1. FilesOK'
    BY DEF CustodyInv, Typed, FilesOK, Content, paths, Phase, Journal, Ordered, SetupInv, SetupPC
  <2>2. BrokerOK'
    BY DEF CustodyInv, Typed, BrokerOK, SetupPC, RunPC, FinPC, sandbox
  <2>3. WorkerOK'
    BY CustodyAssumption DEF CustodyInv, Typed, WorkerOK, worker, NoFault, Fault
  <2> QED
    BY <2>1, <2>2, <2>3 DEF Typed
<1>7. ASSUME RunRelease, UNCHANGED <<fin, worker, faults>> PROVE Typed'
  <2> USE <1>7 DEF RunRelease, RunAt
  <2>1. FilesOK'
    BY DEF CustodyInv, Typed, FilesOK, Content, paths
  <2>2. BrokerOK'
    BY DEF CustodyInv, Typed, BrokerOK, SetupPC, RunPC, FinPC, sandbox
  <2>3. WorkerOK'
    BY CustodyAssumption DEF CustodyInv, Typed, WorkerOK, worker, NoFault, Fault
  <2> QED
    BY <2>1, <2>2, <2>3 DEF Typed
<1>8. ASSUME RunReap, UNCHANGED <<fin, worker, faults>> PROVE Typed'
  <2> USE <1>8 DEF RunReap, RunAt
  <2>1. FilesOK'
    BY DEF CustodyInv, Typed, FilesOK, Content, paths
  <2>2. BrokerOK'
    BY DEF CustodyInv, Typed, BrokerOK, SetupPC, RunPC, FinPC, sandbox
  <2>3. WorkerOK'
    BY CustodyAssumption DEF CustodyInv, Typed, WorkerOK, worker, NoFault, Fault
  <2> QED
    BY <2>1, <2>2, <2>3 DEF Typed
<1>9. ASSUME RunReport, UNCHANGED <<fin, worker, faults>> PROVE Typed'
  <2> USE <1>9 DEF RunReport, WriteJournal
  <2>1. FilesOK'
    <3>1. CASE runsc = "exited0"
      <4>1. run' = "exit0" /\ old' = FALSE /\ journal' = [phase |-> "run-finished", terminal |-> "restore", pid |-> TRUE]
        BY <3>1
      <4> QED
        BY <3>1, <4>1 DEF FilesOK, CustodyInv, Typed, Journal, Phase, paths
    <3>2. CASE runsc # "exited0"
      <4>1. run' = "exit1" /\ old' = FALSE /\ journal' = [phase |-> "run-failed", terminal |-> "discard", pid |-> TRUE]
        BY <3>2
      <4> QED
        BY <3>2, <4>1 DEF FilesOK, CustodyInv, Typed, Journal, Phase, paths
    <3> QED
      BY <3>1, <3>2
  <2>2. BrokerOK'
    BY DEF CustodyInv, Typed, BrokerOK, SetupPC, RunPC, FinPC, sandbox
  <2>3. WorkerOK'
    BY CustodyAssumption DEF CustodyInv, Typed, WorkerOK, worker, NoFault, Fault
  <2> QED
    BY <2>1, <2>2, <2>3 DEF Typed
<1>10. ASSUME RunTimesOut, UNCHANGED <<fin, worker, faults>> PROVE Typed'
  <2> USE <1>10 DEF RunTimesOut, RunAt
  <2>1. FilesOK'
    BY DEF CustodyInv, Typed, FilesOK, Content, paths
  <2>2. BrokerOK'
    BY DEF CustodyInv, Typed, BrokerOK, SetupPC, RunPC, FinPC, sandbox
  <2>3. WorkerOK'
    BY CustodyAssumption DEF CustodyInv, Typed, WorkerOK, worker, NoFault, Fault
  <2> QED
    BY <2>1, <2>2, <2>3 DEF Typed
<1>11. ASSUME RunRejects, UNCHANGED <<fin, worker, faults>> PROVE Typed'
  <2> USE <1>11 DEF RunRejects
  <2>1. FilesOK'
    BY DEF CustodyInv, Typed, FilesOK, Content, paths
  <2>2. BrokerOK'
    BY DEF CustodyInv, Typed, BrokerOK, SetupPC, RunPC, FinPC, sandbox
  <2>3. WorkerOK'
    BY CustodyAssumption DEF CustodyInv, Typed, WorkerOK, worker, NoFault, Fault
  <2> QED
    BY <2>1, <2>2, <2>3 DEF Typed
<1> QED
  BY <1>1, <1>2, <1>3, <1>4, <1>5, <1>6, <1>7, <1>8, <1>9, <1>10, <1>11 DEF Run

\* The same for a finalize, of the worker or of the sweeper.
LEMMA FinalizeTyped == ASSUME CustodyInv, NEW g \in Finalizers, Finalize(g) PROVE Typed'
<1>1. ASSUME FinLoad(g), UNCHANGED <<run, worker>> PROVE Typed'
  <2> USE <1>1 DEF FinLoad, FinAt
  <2>1. FilesOK'
    BY DEF CustodyInv, Typed, FilesOK, Content, paths
  <2>2. BrokerOK'
    <3>1. fin'[g] \in [pc: FinPC, record: Journal \cup {NoJournal}]
      BY DEF CustodyInv, Typed, BrokerOK, FilesOK, FinPC
    <3> QED
      BY <3>1 DEF CustodyInv, Typed, BrokerOK, sandbox
  <2>3. WorkerOK'
    BY CustodyAssumption DEF CustodyInv, Typed, WorkerOK, worker, NoFault, Fault
  <2> QED
    BY <2>1, <2>2, <2>3 DEF Typed
<1>2. ASSUME FinKill(g), UNCHANGED <<run, worker>> PROVE Typed'
  <2> USE <1>2 DEF FinKill, FinAt
  <2>1. FilesOK'
    BY DEF CustodyInv, Typed, FilesOK, Content, paths
  <2>2. BrokerOK'
    BY DEF CustodyInv, Typed, BrokerOK, SetupPC, RunPC, FinPC, sandbox
  <2>3. WorkerOK'
    <3>1. CASE NoFault
      BY <3>1 DEF CustodyInv, Typed, WorkerOK, worker, NoFault
    <3>2. CASE Fault
      BY <3>2, CustodyAssumption DEF CustodyInv, Typed, WorkerOK, worker, Fault
    <3> QED
      BY <3>1, <3>2
  <2> QED
    BY <2>1, <2>2, <2>3 DEF Typed
<1>3. ASSUME FinList(g), UNCHANGED <<run, worker>> PROVE Typed'
  <2> USE <1>3 DEF FinList, FinAt
  <2>1. FilesOK'
    BY DEF CustodyInv, Typed, FilesOK, Content, paths
  <2>2. BrokerOK'
    BY DEF CustodyInv, Typed, BrokerOK, SetupPC, RunPC, FinPC, sandbox
  <2>3. WorkerOK'
    BY CustodyAssumption DEF CustodyInv, Typed, WorkerOK, worker, NoFault, Fault
  <2> QED
    BY <2>1, <2>2, <2>3 DEF Typed
<1>4. ASSUME FinRemoveState(g), UNCHANGED <<run, worker>> PROVE Typed'
  <2> USE <1>4 DEF FinRemoveState, FinAt
  <2>1. FilesOK'
    BY DEF CustodyInv, Typed, FilesOK, Content, paths
  <2>2. BrokerOK'
    BY DEF CustodyInv, Typed, BrokerOK, SetupPC, RunPC, FinPC, sandbox
  <2>3. WorkerOK'
    BY CustodyAssumption DEF CustodyInv, Typed, WorkerOK, worker, NoFault, Fault
  <2> QED
    BY <2>1, <2>2, <2>3 DEF Typed
<1>5. ASSUME FinStage(g), UNCHANGED <<run, worker>> PROVE Typed'
  <2> USE <1>5 DEF FinStage, FinAt
  <2>1. FilesOK'
    BY DEF CustodyInv, Typed, FilesOK, Content, paths
  <2>2. BrokerOK'
    BY DEF CustodyInv, Typed, BrokerOK, SetupPC, RunPC, FinPC, sandbox
  <2>3. WorkerOK'
    BY CustodyAssumption DEF CustodyInv, Typed, WorkerOK, worker, NoFault, Fault
  <2> QED
    BY <2>1, <2>2, <2>3 DEF Typed
<1>6. ASSUME FinDiscard(g), UNCHANGED <<run, worker>> PROVE Typed'
  <2> USE <1>6 DEF FinDiscard, FinAt
  <2>1. FilesOK'
    BY DEF CustodyInv, Typed, FilesOK, Content, paths
  <2>2. BrokerOK'
    BY DEF CustodyInv, Typed, BrokerOK, SetupPC, RunPC, FinPC, sandbox
  <2>3. WorkerOK'
    BY CustodyAssumption DEF CustodyInv, Typed, WorkerOK, worker, NoFault, Fault
  <2> QED
    BY <2>1, <2>2, <2>3 DEF Typed
<1>7. ASSUME FinPublish(g), UNCHANGED <<run, worker>> PROVE Typed'
  <2> USE <1>7 DEF FinPublish, FinAt, NeverSealed
  <2>1. FilesOK'
    BY DEF CustodyInv, Typed, FilesOK, Content, paths
  <2>2. BrokerOK'
    BY DEF CustodyInv, Typed, BrokerOK, SetupPC, RunPC, FinPC, sandbox
  <2>3. WorkerOK'
    BY CustodyAssumption DEF CustodyInv, Typed, WorkerOK, worker, NoFault, Fault
  <2> QED
    BY <2>1, <2>2, <2>3 DEF Typed
<1>8. ASSUME FinRemoveStaging(g), UNCHANGED <<run, worker>> PROVE Typed'
  <2> USE <1>8 DEF FinRemoveStaging, FinAt, NoStaging
  <2>1. FilesOK'
    BY DEF CustodyInv, Typed, FilesOK, Content, paths
  <2>2. BrokerOK'
    BY DEF CustodyInv, Typed, BrokerOK, SetupPC, RunPC, FinPC, sandbox
  <2>3. WorkerOK'
    BY CustodyAssumption DEF CustodyInv, Typed, WorkerOK, worker, NoFault, Fault
  <2> QED
    BY <2>1, <2>2, <2>3 DEF Typed
<1>9. ASSUME FinRemoveJournal(g), UNCHANGED <<run, worker>> PROVE Typed'
  <2> USE <1>9 DEF FinRemoveJournal, FinAt
  <2>1. FilesOK'
    BY DEF CustodyInv, Typed, FilesOK, Content, paths
  <2>2. BrokerOK'
    BY DEF CustodyInv, Typed, BrokerOK, SetupPC, RunPC, FinPC, sandbox
  <2>3. WorkerOK'
    BY CustodyAssumption DEF CustodyInv, Typed, WorkerOK, worker, NoFault, Fault
  <2> QED
    BY <2>1, <2>2, <2>3 DEF Typed
<1> QED
  BY <1>1, <1>2, <1>3, <1>4, <1>5, <1>6, <1>7, <1>8, <1>9 DEF Finalize

\* The same for the worker's runner.
LEMMA RunnerTyped == ASSUME CustodyInv, Runner PROVE Typed'
<1>1. ASSUME RunnerReaps, UNCHANGED <<journal, old, paths, faults>> PROVE Typed'
  <2> USE <1>1 DEF RunnerReaps
  <2>1. FilesOK'
    BY DEF CustodyInv, Typed, FilesOK, Content, paths
  <2>2. BrokerOK'
    BY DEF CustodyInv, Typed, BrokerOK, SetupPC, RunPC, FinPC, sandbox
  <2>3. WorkerOK'
    BY CustodyAssumption DEF CustodyInv, Typed, WorkerOK, worker, NoFault, Fault
  <2> QED
    BY <2>1, <2>2, <2>3 DEF Typed
<1>2. ASSUME RunnerStops, UNCHANGED <<journal, old, paths, faults>> PROVE Typed'
  <2> USE <1>2 DEF RunnerStops, RunnerAt, Orphaned
  <2>1. FilesOK'
    BY DEF CustodyInv, Typed, FilesOK, Content, paths
  <2>2. BrokerOK'
    BY DEF CustodyInv, Typed, BrokerOK, SetupPC, RunPC, FinPC, sandbox
  <2>3. WorkerOK'
    BY CustodyAssumption DEF CustodyInv, Typed, WorkerOK, worker, NoFault, Fault
  <2> QED
    BY <2>1, <2>2, <2>3 DEF Typed
<1>3. ASSUME RunnerFinalizes, UNCHANGED <<journal, old, paths, faults>> PROVE Typed'
  <2> USE <1>3 DEF RunnerFinalizes, RunnerAt, NotFinalizing
  <2>1. FilesOK'
    BY DEF CustodyInv, Typed, FilesOK, Content, paths
  <2>2. BrokerOK'
    BY DEF CustodyInv, Typed, BrokerOK, SetupPC, RunPC, FinPC, sandbox
  <2>3. WorkerOK'
    BY CustodyAssumption DEF CustodyInv, Typed, WorkerOK, worker, NoFault, Fault
  <2> QED
    BY <2>1, <2>2, <2>3 DEF Typed
<1>4. ASSUME RunnerEnds, UNCHANGED <<journal, old, paths, faults>> PROVE Typed'
  <2> USE <1>4 DEF RunnerEnds, RunnerAt
  <2>1. FilesOK'
    BY DEF CustodyInv, Typed, FilesOK, Content, paths
  <2>2. BrokerOK'
    BY DEF CustodyInv, Typed, BrokerOK, SetupPC, RunPC, FinPC, sandbox
  <2>3. WorkerOK'
    BY CustodyAssumption DEF CustodyInv, Typed, WorkerOK, worker, NoFault, Fault
  <2> QED
    BY <2>1, <2>2, <2>3 DEF Typed
<1> QED
  BY <1>1, <1>2, <1>3, <1>4 DEF Runner

\* The broker dies.
LEMMA RunDiesTyped == ASSUME CustodyInv, RunDies PROVE Typed'
<1> USE DEF RunDies, Orphaned
<1>1. FilesOK'
  BY DEF CustodyInv, Typed, FilesOK, Content, paths
<1>2. BrokerOK'
  BY DEF CustodyInv, Typed, BrokerOK, SetupPC, RunPC, FinPC, sandbox
<1>3. WorkerOK'
  BY CustodyAssumption DEF CustodyInv, Typed, WorkerOK, worker, NoFault, Fault
<1> QED
  BY <1>1, <1>2, <1>3 DEF Typed

\* The sandbox writes and ends.
LEMMA SandboxTyped == ASSUME CustodyInv, Sandbox PROVE Typed'
<1> USE DEF Sandbox
<1>1. FilesOK'
  BY DEF CustodyInv, Typed, FilesOK, Content, paths
<1>2. BrokerOK'
  BY DEF CustodyInv, Typed, BrokerOK, SetupPC, RunPC, FinPC, sandbox
<1>3. WorkerOK'
  BY CustodyAssumption DEF CustodyInv, Typed, WorkerOK, worker, NoFault, Fault
<1> QED
  BY <1>1, <1>2, <1>3 DEF Typed

\* A finalize dies.
LEMMA FinDiesTyped == ASSUME CustodyInv, NEW g \in Finalizers, FinDies(g) PROVE Typed'
<1> USE DEF FinDies
<1>1. FilesOK'
  BY DEF CustodyInv, Typed, FilesOK, Content, paths
<1>2. BrokerOK'
  BY DEF CustodyInv, Typed, BrokerOK, SetupPC, RunPC, FinPC, sandbox
<1>3. WorkerOK'
  BY CustodyAssumption DEF CustodyInv, Typed, WorkerOK, worker, NoFault, Fault
<1> QED
  BY <1>1, <1>2, <1>3 DEF Typed

\* The sweeper starts.
LEMMA SweepTyped == ASSUME CustodyInv, Sweep PROVE Typed'
<1> USE DEF Sweep, Stale, NotFinalizing
<1>1. FilesOK'
  BY DEF CustodyInv, Typed, FilesOK, Content, paths
<1>2. BrokerOK'
  BY DEF CustodyInv, Typed, BrokerOK, SetupPC, RunPC, FinPC, sandbox
<1>3. WorkerOK'
  BY CustodyAssumption DEF CustodyInv, Typed, WorkerOK, worker, NoFault, Fault
<1> QED
  BY <1>1, <1>2, <1>3 DEF Typed

\* The journal grows old.
LEMMA GrowOldTyped == ASSUME CustodyInv, GrowOld PROVE Typed'
<1> USE DEF GrowOld
<1>1. FilesOK'
  BY DEF CustodyInv, Typed, FilesOK, Content, paths
<1>2. BrokerOK'
  BY DEF CustodyInv, Typed, BrokerOK, SetupPC, RunPC, FinPC, sandbox
<1>3. WorkerOK'
  BY CustodyAssumption DEF CustodyInv, Typed, WorkerOK, worker, NoFault, Fault
<1> QED
  BY <1>1, <1>2, <1>3 DEF Typed

\* The runner gives up waiting for its finalize.
LEMMA RunnerGivesUpTyped == ASSUME CustodyInv, RunnerGivesUp PROVE Typed'
<1> USE DEF RunnerGivesUp, RunnerAt
<1>1. FilesOK'
  BY DEF CustodyInv, Typed, FilesOK, Content, paths
<1>2. BrokerOK'
  BY DEF CustodyInv, Typed, BrokerOK, SetupPC, RunPC, FinPC, sandbox
<1>3. WorkerOK'
  BY CustodyAssumption DEF CustodyInv, Typed, WorkerOK, worker, NoFault, Fault
<1> QED
  BY <1>1, <1>2, <1>3 DEF Typed

\* The owner reads and removes its directories.
LEMMA OwnerTyped == ASSUME CustodyInv, Owner PROVE Typed'
<1> USE DEF Owner, RemoveWorkspace
<1>1. FilesOK'
  <2>1. CASE ws' = ws
    BY <2>1 DEF CustodyInv, Typed, FilesOK
  <2>2. CASE ws' = [input |-> FALSE, output |-> "none", proxy |-> FALSE]
    <3>1. ws' \in [input: BOOLEAN, output: Content, proxy: BOOLEAN]
      BY <2>2 DEF Content
    <3> QED
      BY <3>1 DEF CustodyInv, Typed, FilesOK
  <2> QED
    BY <2>1, <2>2
<1>2. BrokerOK'
  BY DEF CustodyInv, Typed, BrokerOK, SetupPC, RunPC, FinPC, sandbox
<1>3. WorkerOK'
  BY CustodyAssumption DEF CustodyInv, Typed, WorkerOK, worker, NoFault, Fault
<1> QED
  BY <1>1, <1>2, <1>3 DEF Typed

\* A cancellation.
LEMMA CancelRunnerTyped == ASSUME CustodyInv, CancelRunner PROVE Typed'
<1> USE DEF CancelRunner, RunnerAt
<1>1. FilesOK'
  BY DEF CustodyInv, Typed, FilesOK, Content, paths
<1>2. BrokerOK'
  BY DEF CustodyInv, Typed, BrokerOK, SetupPC, RunPC, FinPC, sandbox
<1>3. WorkerOK'
  BY CustodyAssumption DEF CustodyInv, Typed, WorkerOK, worker, NoFault, Fault
<1> QED
  BY <1>1, <1>2, <1>3 DEF Typed

\* The runner is abandoned.
LEMMA AbandonTyped == ASSUME CustodyInv, Abandon PROVE Typed'
<1> USE DEF Abandon, RemoveWorkspace
<1>1. FilesOK'
  BY DEF CustodyInv, Typed, FilesOK, Content, paths
<1>2. BrokerOK'
  BY DEF CustodyInv, Typed, BrokerOK, SetupPC, RunPC, FinPC, sandbox
<1>3. WorkerOK'
  BY CustodyAssumption DEF CustodyInv, Typed, WorkerOK, worker, NoFault, Fault
<1> QED
  BY <1>1, <1>2, <1>3 DEF Typed

\* The worker process dies.
LEMMA WorkerDiesTyped == ASSUME CustodyInv, WorkerDies PROVE Typed'
<1> USE DEF WorkerDies
<1>1. FilesOK'
  BY DEF CustodyInv, Typed, FilesOK, Content, paths
<1>2. BrokerOK'
  BY DEF CustodyInv, Typed, BrokerOK, SetupPC, RunPC, FinPC, sandbox
<1>3. WorkerOK'
  BY CustodyAssumption DEF CustodyInv, Typed, WorkerOK, worker, NoFault, Fault
<1> QED
  BY <1>1, <1>2, <1>3 DEF Typed

\* The host goes down.
LEMMA HostDownTyped == ASSUME CustodyInv, HostDown PROVE Typed'
<1> USE DEF HostDown
<1>1. FilesOK'
  BY DEF CustodyInv, Typed, FilesOK, Content, paths
<1>2. BrokerOK'
  BY DEF CustodyInv, Typed, BrokerOK, SetupPC, RunPC, FinPC, sandbox
<1>3. WorkerOK'
  BY CustodyAssumption DEF CustodyInv, Typed, WorkerOK, worker, NoFault, Fault
<1> QED
  BY <1>1, <1>2, <1>3 DEF Typed

-----------------------------------------------------------------------------
(***************************************************************************)
(* The order of what the processes do: the steps again, once the types of  *)
(* the next state are known.                                               *)
(***************************************************************************)

USE NoJournalAssumption
USE DEF CustodyInv, Typed, FilesOK, BrokerOK, WorkerOK, SetupPC, Finalizers,
        Ordered, SetupInv, RunscInv, RecordInv, ReleasedMeansGone, QuietInv, Quiet,
        RunnerInv, ResultInv, Finalizing, Working, Sealed, RunAlive, FinAlive,
        paths, sandbox, worker

\* Every step of run: nobody else touches what it sets up, and it writes the journal before it lets
\* runsc go.
LEMMA RunOrdered == ASSUME CustodyInv, Typed', Run PROVE Ordered'
<1>1. ASSUME RunPrepare, UNCHANGED <<fin, worker, faults>> PROVE Ordered'
  <2> USE <1>1 DEF RunPrepare, RunAt, WriteJournal
  <2>1. journal' \in Journal /\ journal'.terminal = "discard" /\ journal'.phase = "prepared"
    BY DEF Journal, Phase
  <2>2. journal' # NoJournal
    BY <2>1
  <2>3. (SetupInv /\ RunscInv)'
    BY <2>2
  <2>4. RecordInv'
    BY <2>1, <2>2
  <2>5. (QuietInv /\ RunnerInv /\ ResultInv)'
    OBVIOUS
  <2>6. (\A f \in Finalizers : Finalizing(f))'
    OBVIOUS
  <2> QED
    BY <2>3, <2>4, <2>5, <2>6
<1>2. ASSUME RunMakeDirectories, UNCHANGED <<fin, worker, faults>> PROVE Ordered'
  BY <1>2 DEF RunMakeDirectories, RunAt
<1>3. ASSUME RunSeal, UNCHANGED <<fin, worker, faults>> PROVE Ordered'
  BY <1>3 DEF RunSeal, RunAt
<1>4. ASSUME RunRecordPhase, UNCHANGED <<fin, worker, faults>> PROVE Ordered'
  <2> USE <1>4 DEF RunRecordPhase, RunAt, WriteJournal, InPhase
  <2>0. run \in {"j-input", "j-output", "j-proxy", "configure"} /\ run' \in {"mv-output", "mv-proxy", "configure", "spawn"}
    OBVIOUS
  <2>1. journal \in Journal /\ journal # NoJournal /\ journal.terminal = "discard"
    <3>1. journal # NoJournal /\ (journal.terminal = "restore" <=> run = "exit0")
      BY <2>0
    <3>2. journal \in Journal
      BY <3>1
    <3> QED
      BY <2>0, <3>1, <3>2 DEF Journal
  <2>2. /\ journal' \in Journal /\ journal' # NoJournal /\ old' = FALSE
        /\ journal'.terminal = "discard" /\ journal'.phase # "run-finished" /\ journal'.pid = journal.pid
    BY <2>0, <2>1 DEF Journal, Phase
  <2>3. (SetupInv /\ RunscInv)'
    BY <2>0, <2>1, <2>2
  <2>4. RecordInv'
    BY <2>0, <2>1, <2>2
  <2>5. (QuietInv /\ RunnerInv /\ ResultInv)'
    BY <2>0, <2>2
  <2>6. (\A f \in Finalizers : Finalizing(f))'
    BY <2>0, <2>2
  <2> QED
    BY <2>3, <2>4, <2>5, <2>6
<1>5. ASSUME RunSpawn, UNCHANGED <<fin, worker, faults>> PROVE Ordered'
  BY <1>5 DEF RunSpawn, RunAt
<1>6. ASSUME RunRecordIdentity, UNCHANGED <<fin, worker, faults>> PROVE Ordered'
  <2> USE <1>6 DEF RunRecordIdentity, RunAt, WriteJournal
  <2>1. journal \in Journal /\ journal.terminal = "discard"
    <3>1. journal # NoJournal /\ (journal.terminal = "restore" <=> run = "exit0") /\ run = "record"
      OBVIOUS
    <3>2. journal \in Journal
      BY <3>1
    <3> QED
      BY <3>1, <3>2 DEF Journal
  <2>2. /\ journal' \in Journal /\ journal' # NoJournal /\ old' = FALSE
        /\ journal'.terminal = "discard" /\ journal'.phase = "running" /\ journal'.pid
    BY <2>1 DEF Journal, Phase
  <2>3. (SetupInv /\ RunscInv)'
    BY <2>1, <2>2
  <2>4. RecordInv'
    BY <2>1, <2>2
  <2>5. (QuietInv /\ RunnerInv /\ ResultInv)'
    BY <2>2
  <2>6. (\A f \in Finalizers : Finalizing(f))'
    BY <2>2
  <2> QED
    BY <2>3, <2>4, <2>5, <2>6
<1>7. ASSUME RunRelease, UNCHANGED <<fin, worker, faults>> PROVE Ordered'
  BY <1>7 DEF RunRelease, RunAt
<1>8. ASSUME RunReap, UNCHANGED <<fin, worker, faults>> PROVE Ordered'
  BY <1>8 DEF RunReap, RunAt
<1>9. ASSUME RunReport, UNCHANGED <<fin, worker, faults>> PROVE Ordered'
  <2> USE <1>9 DEF RunReport, WriteJournal
  <2>1. /\ journal' \in Journal /\ old' = FALSE /\ run' \in {"exit0", "exit1"}
        /\ journal'.terminal = "restore" <=> run' = "exit0"
        /\ journal'.terminal = "restore" <=> journal'.phase = "run-finished"
        /\ run' = "exit0" <=> runsc = "exited0"
        /\ journal'.pid
    <3>1. CASE runsc = "exited0"
      <4>1. run' = "exit0" /\ old' = FALSE /\ journal' = [phase |-> "run-finished", terminal |-> "restore", pid |-> TRUE]
        BY <3>1
      <4> QED
        BY <3>1, <4>1 DEF Journal, Phase
    <3>2. CASE runsc # "exited0"
      <4>1. run' = "exit1" /\ old' = FALSE /\ journal' = [phase |-> "run-failed", terminal |-> "discard", pid |-> TRUE]
        BY <3>2
      <4> QED
        BY <3>2, <4>1 DEF Journal, Phase
    <3> QED
      BY <3>1, <3>2
  <2>2. journal' # NoJournal
    BY <2>1
  <2>3. (SetupInv /\ RunscInv)'
    BY <2>1, <2>2
  <2>4. RecordInv'
    BY <2>1, <2>2
  <2>5. (QuietInv /\ RunnerInv /\ ResultInv)'
    BY <2>1, <2>2
  <2>6. (\A f \in Finalizers : Finalizing(f))'
    BY <2>1, <2>2
  <2> QED
    BY <2>3, <2>4, <2>5, <2>6
<1>10. ASSUME RunTimesOut, UNCHANGED <<fin, worker, faults>> PROVE Ordered'
  BY <1>10 DEF RunTimesOut, RunAt
<1>11. ASSUME RunRejects, UNCHANGED <<fin, worker, faults>> PROVE Ordered'
  BY <1>11 DEF RunRejects
<1> QED
  BY <1>1, <1>2, <1>3, <1>4, <1>5, <1>6, <1>7, <1>8, <1>9, <1>10, <1>11 DEF Run

\* Every step of a finalize: it is the only one at work, stops the sandbox first and removes the
\* journal last.
LEMMA FinalizeOrdered == ASSUME CustodyInv, Typed', NEW g \in Finalizers, Finalize(g) PROVE Ordered'
<1>1. ASSUME FinLoad(g), UNCHANGED <<run, worker>> PROVE Ordered'
  BY <1>1 DEF FinLoad, FinAt
<1>2. ASSUME FinKill(g), UNCHANGED <<run, worker>> PROVE Ordered'
  <2> USE <1>2
  <2>1. /\ fin[g].pc = "kill" /\ fin'[g].pc \in {"list", "err"} /\ fin'[g].record = fin[g].record
        /\ \A f \in Finalizers \ {g} : fin'[f] = fin[f]
    <3>1. CASE FinAt(g, "kill", "list")
      BY <3>1 DEF FinAt
    <3>2. CASE FinAt(g, "kill", "err")
      BY <3>2 DEF FinAt
    <3> QED
      BY <3>1, <3>2 DEF FinKill
  <2>2. UNCHANGED <<run, worker, journal, old, ws, stg, bundle, state>>
    BY DEF FinKill
  <2>3. /\ run \notin SetupPC /\ fin[g].record # NoJournal /\ journal # NoJournal
        /\ runsc # "blocked" /\ (runsc = "running" => fin[g].record.pid)
    BY <2>1
  <2>4. /\ runsc' = runsc \/ (runsc = "running" /\ runsc' = "exited1")
        /\ fin'[g].pc = "list" => runsc' # "running"
        /\ listed' => listed
    <3>1. CASE FinAt(g, "kill", "list") /\ IF fin[g].record.pid /\ runsc \in {"blocked", "running"}
               THEN runsc' = "exited1" /\ listed' \in {listed, FALSE}
               ELSE UNCHANGED sandbox
      BY <2>3, <3>1
    <3>2. CASE FinAt(g, "kill", "err") /\ UNCHANGED sandbox
      BY <3>2 DEF FinAt
    <3> QED
      BY <3>1, <3>2 DEF FinKill
  <2>5. (SetupInv /\ RunscInv)'
    BY <2>1, <2>2, <2>3, <2>4
  <2>6. RecordInv'
    BY <2>1, <2>2, <2>3, <2>4
  <2>7. (QuietInv /\ RunnerInv)'
    BY <2>1, <2>2, <2>3, <2>4
  <2>8. ResultInv'
    BY <2>1, <2>2, <2>3, <2>4
  <2>9. (\A f \in Finalizers : Finalizing(f))'
    BY <2>1, <2>2, <2>3, <2>4
  <2> QED
    BY <2>5, <2>6, <2>7, <2>8, <2>9
<1>3. ASSUME FinList(g), UNCHANGED <<run, worker>> PROVE Ordered'
  BY <1>3 DEF FinList, FinAt
<1>4. ASSUME FinRemoveState(g), UNCHANGED <<run, worker>> PROVE Ordered'
  BY <1>4 DEF FinRemoveState, FinAt
<1>5. ASSUME FinStage(g), UNCHANGED <<run, worker>> PROVE Ordered'
  BY <1>5 DEF FinStage, FinAt
<1>6. ASSUME FinDiscard(g), UNCHANGED <<run, worker>> PROVE Ordered'
  BY <1>6 DEF FinDiscard, FinAt
<1>7. ASSUME FinPublish(g), UNCHANGED <<run, worker>> PROVE Ordered'
  <2>1. /\ fin[g].pc = "publish" /\ fin'[g].pc \in {"rmstaging", "err"} /\ fin'[g].record = fin[g].record
        /\ \A f \in Finalizers \ {g} : fin'[f] = fin[f]
        /\ UNCHANGED <<journal, old, bundle, state, runsc, listed, run, runner, owner>>
    BY <1>7 DEF FinPublish, FinAt
  <2>2. /\ run \notin SetupPC /\ runsc \notin {"blocked", "running"}
        /\ journal # NoJournal /\ fin[g].record # NoJournal
        /\ fin[g].record.terminal = "restore" => run = "exit0" /\ runsc = "exited0"
        /\ fin[g].record.terminal # "restore" => stg.output = "empty"
        /\ g = "sweeper" => Quiet
    BY <2>1 DEF Journal
  <2>3. CASE /\ fin'[g].pc = "rmstaging"
             /\ ws.output = "none" \/ fin[g].record.terminal # "restore"
             /\ ws' = [ws EXCEPT !.output = stg.output] /\ stg' = [stg EXCEPT !.output = ws.output]
    <3>1. ws'.output = stg.output /\ stg'.output = ws.output /\ stg.output # "partial" /\ stg'.dir = stg.dir
          /\ stg'.input = stg.input /\ stg'.proxy = stg.proxy
      BY <2>2, <2>3
    <3>2. (SetupInv /\ RunscInv)'
      BY <2>1, <2>2, <2>3, <3>1
    <3>3. (RecordInv /\ QuietInv /\ RunnerInv)'
      BY <2>1, <2>2, <2>3, <3>1
    <3>4. ResultInv'
      BY <2>1, <2>2, <2>3, <3>1
    <3>5. (\A f \in Finalizers : Finalizing(f))'
      BY <2>1, <2>2, <2>3, <3>1
    <3> QED
      BY <3>2, <3>3, <3>4, <3>5
  <2>4. CASE fin'[g].pc = "err" /\ UNCHANGED <<ws, stg>>
    <3>1. (SetupInv /\ RunscInv)'
      BY <2>1, <2>2, <2>4
    <3>2. (RecordInv /\ QuietInv /\ RunnerInv)'
      BY <2>1, <2>2, <2>4
    <3>3. ResultInv'
      BY <2>1, <2>2, <2>4
    <3>4. (\A f \in Finalizers : Finalizing(f))'
      BY <2>1, <2>2, <2>4
    <3> QED
      BY <3>1, <3>2, <3>3, <3>4
  <2> QED
    BY <1>7, <2>1, <2>2, <2>3, <2>4 DEF FinPublish, FinAt, NeverSealed
<1>8. ASSUME FinRemoveStaging(g), UNCHANGED <<run, worker>> PROVE Ordered'
  BY <1>8 DEF FinRemoveStaging, FinAt, NoStaging
<1>9. ASSUME FinRemoveJournal(g), UNCHANGED <<run, worker>> PROVE Ordered'
  BY <1>9 DEF FinRemoveJournal, FinAt
<1> QED
  BY <1>1, <1>2, <1>3, <1>4, <1>5, <1>6, <1>7, <1>8, <1>9 DEF Finalize

\* Every step of the worker's runner: it calls finalize once, and calls an attempt good when run was.
LEMMA RunnerOrdered == ASSUME CustodyInv, Typed', Runner PROVE Ordered'
<1>1. ASSUME RunnerReaps, UNCHANGED <<journal, old, paths, faults>> PROVE Ordered'
  BY <1>1 DEF RunnerReaps
<1>2. ASSUME RunnerStops, UNCHANGED <<journal, old, paths, faults>> PROVE Ordered'
  <2>0. /\ UNCHANGED <<journal, old, ws, stg, bundle, state, fin, owner>>
        /\ runner.pc = "stop" /\ runner'.pc = "finalize" /\ runner'.good = runner.good
    BY <1>2 DEF RunnerStops, RunnerAt
  <2>1. CASE UNCHANGED <<run, sandbox>>
    BY <2>0, <2>1
  <2>2. CASE /\ RunAlive /\ run' = "exit1"
             /\ runsc' = (IF runsc = "running" THEN "exited1" ELSE Orphaned)
             /\ listed' \in {listed, FALSE}
    <3>1. /\ runsc' \notin {"running", "blocked"} /\ (runsc' = "exited0" <=> runsc = "exited0")
          /\ run \notin {"exit0", "exit1"} /\ run' = "exit1"
      BY <2>2 DEF Orphaned
    <3>2. listed' => listed
      BY <2>2
    <3>3. (SetupInv /\ RunscInv)'
      BY <2>0, <3>1, <3>2
    <3>4. (RecordInv /\ QuietInv /\ RunnerInv)'
      BY <2>0, <3>1, <3>2
    <3>5. ResultInv'
      BY <2>0, <3>1, <3>2
    <3>6. (\A f \in Finalizers : Finalizing(f))'
      BY <2>0, <3>1, <3>2
    <3> QED
      BY <3>3, <3>4, <3>5, <3>6
  <2> QED
    BY <1>2, <2>1, <2>2 DEF RunnerStops
<1>3. ASSUME RunnerFinalizes, UNCHANGED <<journal, old, paths, faults>> PROVE Ordered'
  BY <1>3 DEF RunnerFinalizes, RunnerAt, NotFinalizing
<1>4. ASSUME RunnerEnds, UNCHANGED <<journal, old, paths, faults>> PROVE Ordered'
  BY <1>4 DEF RunnerEnds, RunnerAt
<1> QED
  BY <1>1, <1>2, <1>3, <1>4 DEF Runner

\* The sandbox, the clock, cancellations and deaths.
LEMMA OthersOrdered ==
  ASSUME CustodyInv, Typed'
  PROVE  /\ RunDies \/ Sandbox \/ Sweep \/ GrowOld \/ RunnerGivesUp \/ Owner => Ordered'
         /\ CancelRunner \/ Abandon \/ WorkerDies \/ HostDown => Ordered'
         /\ \A g \in Finalizers : FinDies(g) => Ordered'
<1>1. ASSUME RunDies PROVE Ordered'
  BY <1>1 DEF RunDies, Orphaned
<1>2. ASSUME Sandbox PROVE Ordered'
  BY <1>2 DEF Sandbox
<1>3. ASSUME NEW g \in Finalizers, FinDies(g) PROVE Ordered'
  BY <1>3 DEF FinDies
<1>4. ASSUME Sweep PROVE Ordered'
  BY <1>4 DEF Sweep, Stale, NotFinalizing
<1>5. ASSUME GrowOld PROVE Ordered'
  BY <1>5 DEF GrowOld
<1>6. ASSUME RunnerGivesUp PROVE Ordered'
  BY <1>6 DEF RunnerGivesUp, RunnerAt
<1>7. ASSUME Owner PROVE Ordered'
  BY <1>7 DEF Owner, RemoveWorkspace
<1>8. ASSUME CancelRunner PROVE Ordered'
  BY <1>8 DEF CancelRunner, RunnerAt
<1>9. ASSUME Abandon PROVE Ordered'
  BY <1>9 DEF Abandon, RemoveWorkspace
<1>10. ASSUME WorkerDies PROVE Ordered'
  BY <1>10 DEF WorkerDies
<1>11. ASSUME HostDown PROVE Ordered'
  BY <1>11 DEF HostDown
<1> QED
  BY <1>1, <1>2, <1>3, <1>4, <1>5, <1>6, <1>7, <1>8, <1>9, <1>10, <1>11

-----------------------------------------------------------------------------
(* The theorems.                                                            *)

\* Before anything was started the invariant holds.
LEMMA CustodyInitially == CInit => CustodyInv
<1> SUFFICES ASSUME CInit PROVE CustodyInv
  OBVIOUS
<1> USE DEF CInit, NoStaging, NotFinalizing
<1>1. Typed
  <2>1. BrokerOK
    BY DEF RunPC, FinPC
  <2>2. FilesOK
    BY DEF Content
  <2>3. WorkerOK
    BY CustodyAssumption
  <2> QED
    BY <2>1, <2>2, <2>3
<1>2. SetupInv /\ RunscInv /\ RecordInv
  OBVIOUS
<1>3. QuietInv /\ RunnerInv /\ ResultInv
  OBVIOUS
<1>4. \A f \in Finalizers : Finalizing(f)
  OBVIOUS
<1> QED
  BY <1>1, <1>2, <1>3, <1>4

\* Every step of the broker, the worker, the sandbox and of whoever kills them
\* preserves it.
THEOREM CustodyInductive == CustodyInv /\ [CNext]_cvars => CustodyInv'
<1> SUFFICES ASSUME CustodyInv, [CNext]_cvars PROVE CustodyInv'
  OBVIOUS
<1>1. CASE UNCHANGED cvars
  BY <1>1 DEF cvars
<1>2. CASE CNext
  <2>1. Typed'
    BY <1>2, RunTyped, FinalizeTyped, RunnerTyped, RunDiesTyped, SandboxTyped, FinDiesTyped,
       SweepTyped, GrowOldTyped, RunnerGivesUpTyped, OwnerTyped, CancelRunnerTyped, AbandonTyped,
       WorkerDiesTyped, HostDownTyped DEF CNext
  <2>2. Ordered'
    BY <1>2, <2>1, RunOrdered, FinalizeOrdered, RunnerOrdered, OthersOrdered DEF CNext
  <2> QED
    BY <2>1, <2>2
<1> QED
  BY <1>1, <1>2

HIDE DEF CustodyInv

\* So it holds in every reachable state, however many processes die.
THEOREM CustodyInvariance == CSpec => []CustodyInv
  BY CustodyInitially, CustodyInductive, PTL DEF CSpec

\* The broker's journal names every sandbox that runs and is removed when nothing is
\* left; no output of a sandbox that did not end well reaches the worker; and when the
\* runner reports success the result is there.
THEOREM SafeCustody == CSpec => []CustodyIsSafe
<1>1. CustodyInv => CustodyIsSafe
  BY DEF CustodyInv, CustodyIsSafe, CTypeOK, RunningIsRecorded, NoPartialOutput, SuccessIsReadable
<1> QED
  BY <1>1, CustodyInvariance, PTL

\* _finalize_container, repeated after a crash: a result that was published is taken
\* away by its owner or stays as it is.
THEOREM KeptResult == CSpec => ResultIsKept
<1>1. CustodyInv /\ [CNext]_cvars => (ws.output = "result" => ws'.output \in {"result", "none"})
  <2> SUFFICES ASSUME CustodyInv, [CNext]_cvars, ws.output = "result"
               PROVE  ws'.output \in {"result", "none"}
    OBVIOUS
  <2> USE DEF CustodyInv
  <2>1. CASE Run
    BY <2>1 DEF Run, RunPrepare, RunMakeDirectories, RunSeal, RunRecordPhase, RunSpawn, RunRecordIdentity,
                RunRelease, RunReap, RunReport, RunTimesOut, RunRejects, RunAt
  <2>2. ASSUME NEW g \in Finalizers, Finalize(g) PROVE ws'.output \in {"result", "none"}
    <3>1. CASE FinPublish(g)
      <4>1. /\ fin[g].record.terminal = "restore" /\ fin[g].record.phase = "run-finished"
            /\ ws.output # "none"
        BY <3>1 DEF FinPublish, FinAt
      <4> QED
        BY <3>1, <4>1 DEF FinPublish, NeverSealed
    <3>2. CASE FinDiscard(g)
      BY <3>2 DEF FinDiscard
    <3> QED
      BY <2>2, <3>1, <3>2 DEF Finalize, FinLoad, FinKill, FinList, FinRemoveState, FinStage,
                              FinRemoveStaging, FinRemoveJournal
  <2>3. CASE RunDies \/ Sandbox \/ Sweep \/ GrowOld \/ Runner \/ RunnerGivesUp \/ CancelRunner
             \/ WorkerDies \/ HostDown \/ UNCHANGED cvars
    BY <2>3 DEF RunDies, Sandbox, Sweep, GrowOld, Runner, RunnerGivesUp, CancelRunner, WorkerDies, HostDown, cvars
  <2>4. CASE Owner \/ Abandon
    BY <2>4 DEF Owner, Abandon, RemoveWorkspace
  <2>5. ASSUME NEW g \in Finalizers, FinDies(g) PROVE ws'.output \in {"result", "none"}
    BY <2>5 DEF FinDies
  <2> QED
    BY <2>1, <2>2, <2>3, <2>4, <2>5 DEF CNext
<1>2. CustodyInv /\ [CNext]_cvars => [ws.output = "result" => ws'.output \in {"result", "none"}]_cvars
  BY <1>1
<1> QED
  BY <1>2, CustodyInvariance, PTL DEF CSpec, ResultIsKept

-----------------------------------------------------------------------------
(* The job history, for any number of commands at once, any number of      *)
(* names that share a folder, and any number of days.                      *)
(*                                                                         *)
(* A command looks at the folder twice: what it found young may be cut     *)
(* short, replaced or cleaned up before it reads.  The invariant says that *)
(* the files are in the order of their days, so that a clean-up never      *)
(* takes the newest file and leaves an older one, and that whatever is in  *)
(* the folder when it is read is as young as what was found.               *)

\* What a file of the cache says of itself: its place, when it was written last and how far.
CacheFile ==
  [folder : Folders, stamp : Nat, by : Procs, serial : Nat, day : Nat, whole : BOOLEAN,
   org : Orgs, got : SUBSET UNION {Connections[o] : o \in Orgs}]

\* The later a file was written, the later its day.
CacheOK ==
  /\ day \in Nat /\ stamp \in Nat /\ serial \in Nat
  /\ files \subseteq CacheFile
  /\ \A f \in files : f.serial <= serial /\ f.day <= day
  /\ \A f, g \in files : f.serial <= g.serial => f.day <= g.day

\* The record of a command at each of its steps.
CommandOK(p) ==
  LET r == proc[p] IN
  /\ r.at \in {"idle", "aged", "served", "lookup", "workspaces", "jobs", "writing", "report", "mapping"}
  /\ r.at \in {"aged", "lookup"} => r \in [at : {"aged", "lookup"}, name : Names, day : 0 .. day, newest : 0 .. serial]
  /\ r.at = "workspaces" => r \in [at : {"workspaces"}, name : Names, org : Orgs]
  /\ r.at = "jobs" => r \in [at : {"jobs"}, name : Names, org : Orgs,
                             left : SUBSET UNION {Connections[o] : o \in Orgs},
                             got : SUBSET UNION {Connections[o] : o \in Orgs}, tries : Nat]
  /\ r.at = "writing" => r \in [at : {"writing"}, name : Names, file : CacheFile]
  /\ r.at = "report" => r = [at |-> "report", left |-> r.left, got |-> r.got, refused |-> r.refused]
  /\ r.at = "mapping" => r = [at |-> "mapping", open |-> r.open, new |-> r.new]

\* A command that found a young history and has yet to read it: whatever is in the folder
\* now, its newest file is the one that was found or a later one, and those are young.
AgedOK(p) ==
  LET r == proc[p] IN
  r.at = "aged" =>
    /\ \A f \in InFolder(r.name) : f.serial >= r.newest => r.day - f.day <= MaxAge
    /\ InFolder(r.name) # {} => \E f \in InFolder(r.name) : f.serial >= r.newest

\* What a command has answered from the cache.
ServedBy(p) ==
  proc[p].at = "served" =>
    LET f == proc[p].file
    IN /\ f.whole /\ f.folder = FolderOf[proc[p].name]
       /\ proc[p].day - f.day <= MaxAge
       /\ f.serial >= proc[p].newest

\* The invariant of the job history.
HistoryInv ==
  /\ CacheOK
  /\ proc = [p \in Procs |-> proc[p]]
  /\ \A p \in Procs : CommandOK(p) /\ AgedOK(p) /\ ServedBy(p)

\* The newest file of a folder: there is one, and none was written after it.
LEMMA LatestCacheFile ==
  ASSUME CacheOK, NEW n, HasCache(n)
  PROVE  /\ GetLatestCacheFile(n) \in InFolder(n)
         /\ \A g \in InFolder(n) : g.serial <= GetLatestCacheFile(n).serial
<1> DEFINE T == {f.serial : f \in InFolder(n)}
<1>1. T \in SUBSET Nat /\ T # {} /\ serial \in Nat /\ \A x \in T : x <= serial
  BY DEF CacheOK, CacheFile, InFolder, HasCache
<1>2. PICK x \in T : \A y \in T : y <= x
  <2> HIDE DEF T
  <2> QED
    BY <1>1, LargestNumber
<1>3. PICK f \in InFolder(n) : f.serial = x
  BY <1>2
<1>4. \A g \in InFolder(n) : g.serial <= f.serial
  BY <1>2, <1>3
<1> QED
  BY <1>3, <1>4 DEF GetLatestCacheFile

\* What Ask remembers of the folder is the number of its newest file.
LEMMA NewestSerial ==
  ASSUME CacheOK, NEW n
  PROVE  LET m == Max({f.serial : f \in InFolder(n)} \cup {0}) IN
         /\ m \in 0 .. serial
         /\ \A g \in InFolder(n) : g.serial <= m
         /\ InFolder(n) # {} => \E f \in InFolder(n) : f.serial >= m
<1> DEFINE T == {f.serial : f \in InFolder(n)} \cup {0}
<1>1. T \in SUBSET Nat /\ T # {} /\ serial \in Nat /\ \A x \in T : x <= serial
  BY DEF CacheOK, CacheFile, InFolder
<1>2. Max(T) \in T /\ \A y \in T : Max(T) >= y
  <2>1. \E x \in T : \A y \in T : x >= y
    <3> HIDE DEF T
    <3>1. PICK x \in T : \A y \in T : y <= x
      BY <1>1, LargestNumber
    <3> QED
      BY <1>1, <3>1
  <2> HIDE DEF T
  <2> QED
    BY <2>1 DEF Max
<1>3. \A g \in InFolder(n) : g.serial \in T
  OBVIOUS
<1>4. ASSUME NEW g \in InFolder(n) PROVE \E f \in InFolder(n) : f.serial >= Max(T)
  <2>1. g.serial \in Nat
    BY <1>1, <1>3
  <2>2. CASE Max(T) = 0
    <3>1. g.serial >= 0
      BY <2>1
    <3> QED
      BY <1>4, <2>2, <3>1
  <2>3. CASE Max(T) # 0
    <3>1. PICK f \in InFolder(n) : f.serial = Max(T)
      BY <1>2, <2>3
    <3> QED
      BY <1>1, <1>2, <3>1
  <2> QED
    BY <2>2, <2>3
<1>5. Max(T) \in 0 .. serial
  <2>1. PICK m : m = Max(T)
    OBVIOUS
  <2> HIDE DEF T
  <2>2. m \in T
    BY <1>2, <2>1
  <2>3. m \in 0 .. serial
    BY <1>1, <2>2
  <2> QED
    BY <2>1, <2>3
<1>6. ASSUME NEW g \in InFolder(n) PROVE g.serial <= Max(T)
  <2>1. g.serial \in T
    BY <1>3
  <2> HIDE DEF T
  <2> QED
    BY <1>1, <1>2, <2>1
<1> QED
  BY <1>4, <1>5, <1>6

\* A step of one command that leaves the cache alone keeps the invariant when the
\* command's own record is right after it.
LEMMA OneCommand ==
  ASSUME HistoryInv, NEW p \in Procs, NEW r, Set(p, r), UNCHANGED <<day, stamp, serial, files>>,
         CommandOK(p)', AgedOK(p)', ServedBy(p)'
  PROVE  HistoryInv'
<1>1. CacheOK'
  BY DEF HistoryInv, CacheOK
<1>2. proc' = [q \in Procs |-> proc'[q]] /\ \A q \in Procs \ {p} : proc'[q] = proc[q]
  BY DEF HistoryInv, Set
<1>3. ASSUME NEW q \in Procs \ {p} PROVE CommandOK(q)' /\ AgedOK(q)' /\ ServedBy(q)'
  <2>1. proc'[q] = proc[q] /\ InFolder(proc[q].name)' = InFolder(proc[q].name)
    BY <1>2, <1>3 DEF InFolder
  <2>2. CommandOK(q) /\ AgedOK(q) /\ ServedBy(q)
    BY <1>3 DEF HistoryInv
  <2> QED
    BY <2>1, <2>2 DEF CommandOK, AgedOK, ServedBy, InFolder
<1> QED
  BY <1>1, <1>2, <1>3 DEF HistoryInv

\* A step of one command that writes a file, today and after all others, keeps the
\* invariant when the command's own record is right after it.
LEMMA FileWritten ==
  ASSUME HistoryInv, NEW p \in Procs, NEW r, Set(p, r), stamp' \in Nat, serial' = serial + 1, day' = day,
         NEW new \in SUBSET CacheFile, \A f \in new : f.serial = serial + 1 /\ f.day = day,
         files' \subseteq files \cup new,
         \A n : InFolder(n)' = InFolder(n) \/ \E f \in new : f \in InFolder(n)',
         CommandOK(p)', AgedOK(p)', ServedBy(p)'
  PROVE  HistoryInv'
<1>0. CacheOK /\ day \in Nat /\ serial \in Nat /\ MaxAge \in Nat
  BY AgeAssumption DEF HistoryInv, CacheOK
<1>1. CacheOK'
  BY <1>0 DEF CacheOK, CacheFile
<1>2. proc' = [q \in Procs |-> proc'[q]] /\ \A q \in Procs \ {p} : proc'[q] = proc[q]
  BY DEF HistoryInv, Set
<1>3. ASSUME NEW q \in Procs \ {p} PROVE CommandOK(q)' /\ AgedOK(q)' /\ ServedBy(q)'
  <2>1. proc'[q] = proc[q] /\ CommandOK(q) /\ AgedOK(q) /\ ServedBy(q)
    BY <1>2, <1>3 DEF HistoryInv
  <2>2. CommandOK(q)' /\ ServedBy(q)'
    <3>1. 0 .. serial \subseteq 0 .. serial'
      BY <1>0
    <3> QED
      BY <2>1, <3>1 DEF CommandOK, ServedBy
  <2>3. AgedOK(q)'
    <3>0. PICK c, n : c = proc[q] /\ n = c.name
      OBVIOUS
    <3> SUFFICES ASSUME c.at = "aged"
                 PROVE  /\ \A f \in InFolder(n)' : f.serial >= c.newest => c.day - f.day <= MaxAge
                        /\ InFolder(n)' # {} => \E f \in InFolder(n)' : f.serial >= c.newest
      BY <2>1, <3>0 DEF AgedOK
    <3>1. /\ c.day \in 0 .. day /\ c.newest \in 0 .. serial
          /\ \A f \in InFolder(n) : f.serial >= c.newest => c.day - f.day <= MaxAge
          /\ InFolder(n) # {} => \E f \in InFolder(n) : f.serial >= c.newest
      BY <2>1, <3>0 DEF CommandOK, AgedOK
    <3>2. InFolder(n)' \subseteq InFolder(n) \cup new
      BY DEF InFolder
    <3>3. \A f \in new : f.serial >= c.newest /\ c.day - f.day <= MaxAge
      BY <1>0, <3>1
    <3>4. InFolder(n)' = InFolder(n) \/ \E f \in new : f \in InFolder(n)'
      OBVIOUS
    <3> QED
      BY <3>1, <3>2, <3>3, <3>4
  <2> QED
    BY <2>2, <2>3
<1> QED
  BY <1>1, <1>2, <1>3 DEF HistoryInv

\* A file written again: its number, its day and whether it is whole are new.
Refilled(f, s, d, w) == [f EXCEPT !.serial = s, !.day = d, !.whole = w]

\* It stays a file of its folder.
LEMMA RefilledFile ==
  ASSUME NEW f \in CacheFile, NEW w \in BOOLEAN, NEW s \in Nat, NEW d \in Nat
  PROVE  /\ Refilled(f, s, d, w) \in CacheFile
         /\ Refilled(f, s, d, w).serial = s /\ Refilled(f, s, d, w).day = d
         /\ Refilled(f, s, d, w).folder = f.folder
  BY DEF CacheFile, Refilled

\* Every step of a command, and the passing of a day, keeps the invariant.
LEMMA HistoryInductive == HistoryInv /\ [JHNext]_hvars => HistoryInv'
<1> SUFFICES ASSUME HistoryInv, [JHNext]_hvars PROVE HistoryInv'
  OBVIOUS
<1> DEFINE AllConnections == UNION {Connections[o] : o \in Orgs}
<1>0. CacheOK /\ proc = [p \in Procs |-> proc[p]]
  BY DEF HistoryInv
<1>1. \A p \in Procs : CommandOK(p) /\ AgedOK(p) /\ ServedBy(p)
  BY DEF HistoryInv
<1>2. CASE UNCHANGED hvars
  BY <1>2 DEF HistoryInv, hvars, CacheOK, CommandOK, AgedOK, ServedBy, InFolder
<1>3. CASE NextDay
  <2>1. day \in Nat /\ day' = day + 1 /\ UNCHANGED <<stamp, serial, files, proc>>
    BY <1>0, <1>3 DEF NextDay, CacheOK
  <2>2. CacheOK'
    BY <2>1, <1>0 DEF CacheOK, CacheFile
  <2>3. ASSUME NEW p \in Procs PROVE CommandOK(p)' /\ AgedOK(p)' /\ ServedBy(p)'
    <3>1. CommandOK(p) /\ AgedOK(p) /\ ServedBy(p)
      BY <1>1
    <3>2. 0 .. day \subseteq 0 .. day'
      BY <2>1
    <3> QED
      BY <2>1, <3>1, <3>2 DEF CommandOK, AgedOK, ServedBy, InFolder
  <2> QED
    BY <1>0, <2>1, <2>2, <2>3 DEF HistoryInv
<1>4. ASSUME NEW p \in Procs, Set(p, Idle), UNCHANGED <<day, stamp, serial, files>> PROVE HistoryInv'
  <2>1. proc'[p].at = "idle"
    BY <1>0, <1>4 DEF Set, Idle
  <2> QED
    BY <1>4, <2>1, OneCommand DEF CommandOK, AgedOK, ServedBy
<1>5. ASSUME NEW p \in Procs, NEW n \in Names, NEW force \in BOOLEAN, Ask(p, n, force) PROVE HistoryInv'
  <2> DEFINE m == Max({f.serial : f \in InFolder(n)} \cup {0})
             aged == ~force /\ HasCache(n) /\ Age(GetLatestCacheFile(n)) <= MaxAge
             r == [at |-> IF aged THEN "aged" ELSE "lookup", name |-> n, day |-> day, newest |-> m]
  <2>1. /\ m \in 0 .. serial
        /\ \A g \in InFolder(n) : g.serial <= m
        /\ InFolder(n) # {} => \E f \in InFolder(n) : f.serial >= m
    BY <1>0, NewestSerial
  <2>2. Set(p, r) /\ UNCHANGED <<day, stamp, serial, files>>
    BY <1>5 DEF Ask, CacheSame
  <2>3. aged => \A f \in InFolder(n) : f.serial >= m => day - f.day <= MaxAge
    <3> SUFFICES ASSUME aged, NEW f \in InFolder(n), f.serial >= m PROVE day - f.day <= MaxAge
      OBVIOUS
    <3> DEFINE l == GetLatestCacheFile(n)
    <3>1. l \in InFolder(n) /\ day - l.day <= MaxAge
      BY <1>0, LatestCacheFile DEF Age
    <3>2. l \in files /\ f \in files
      BY <3>1 DEF InFolder
    <3>3. l.serial <= f.serial
      BY <1>0, <2>1, <3>1, <3>2 DEF CacheOK, CacheFile
    <3> QED
      BY <1>0, <3>1, <3>2, <3>3, AgeAssumption DEF CacheOK, CacheFile
  <2> HIDE DEF m, aged
  <2>4. proc'[p] = r
    BY <1>0, <2>2 DEF Set
  <2>5. InFolder(n)' = InFolder(n) /\ day \in Nat
    BY <2>2, <1>0 DEF InFolder, CacheOK
  <2>6. r \in [at : {"aged", "lookup"}, name : Names, day : 0 .. day, newest : 0 .. serial]
    BY <2>1, <2>5
  <2>7. r.at \in {"aged", "lookup"} /\ (r.at = "aged" => aged) /\ r.name = n /\ r.day = day /\ r.newest = m
    OBVIOUS
  <2> HIDE DEF r
  <2>8. CommandOK(p)' /\ ServedBy(p)'
    BY <2>2, <2>4, <2>6, <2>7 DEF CommandOK, ServedBy
  <2>9. AgedOK(p)'
    BY <2>1, <2>2, <2>3, <2>4, <2>5, <2>7 DEF AgedOK
  <2> QED
    BY <2>2, <2>8, <2>9, OneCommand
<1>6. ASSUME NEW p \in Procs, ServeCached(p) PROVE HistoryInv'
  <2> DEFINE r == proc[p]
             n == r.name
  <2>1. /\ r.at = "aged" /\ r \in [at : {"aged", "lookup"}, name : Names, day : 0 .. day, newest : 0 .. serial]
        /\ AgedOK(p) /\ UNCHANGED <<day, stamp, serial, files>>
    BY <1>1, <1>6 DEF ServeCached, CommandOK, CacheSame
  <2>2. CASE GetCached(n) # {}
    <3>1. PICK f \in GetCached(n) :
            Set(p, [at |-> "served", file |-> f, name |-> n, day |-> r.day, newest |-> r.newest])
      BY <1>6, <2>2 DEF ServeCached
    <3>2. HasCache(n) /\ f = GetLatestCacheFile(n) /\ f.whole
      BY <3>1 DEF GetCached, Loads
    <3>3. f \in InFolder(n) /\ \A g \in InFolder(n) : g.serial <= f.serial
      BY <1>0, <3>2, LatestCacheFile
    <3>4. f.folder = FolderOf[n] /\ f \in CacheFile /\ \A g \in InFolder(n) : g \in CacheFile
      BY <1>0, <3>3 DEF InFolder, CacheOK
    <3>5. f.serial >= r.newest
      <4>1. PICK g \in InFolder(n) : g.serial >= r.newest
        BY <2>1, <3>3 DEF AgedOK
      <4> QED
        BY <2>1, <4>1, <3>3, <3>4 DEF CacheFile
    <3>6. r.day - f.day <= MaxAge
      BY <2>1, <3>3, <3>5 DEF AgedOK
    <3>7. proc'[p] = [at |-> "served", file |-> f, name |-> n, day |-> r.day, newest |-> r.newest]
      BY <1>0, <3>1 DEF Set
    <3>8. CommandOK(p)' /\ AgedOK(p)'
      BY <3>7 DEF CommandOK, AgedOK
    <3>9. ServedBy(p)'
      BY <3>2, <3>4, <3>5, <3>6, <3>7 DEF ServedBy
    <3> QED
      BY <2>1, <3>1, <3>8, <3>9, OneCommand
  <2>3. CASE GetCached(n) = {}
    <3>1. Set(p, [r EXCEPT !.at = "lookup"])
      BY <1>6, <2>3 DEF ServeCached
    <3>2. proc'[p] = [r EXCEPT !.at = "lookup"]
      BY <1>0, <3>1 DEF Set
    <3>3. CommandOK(p)' /\ AgedOK(p)' /\ ServedBy(p)'
      BY <2>1, <3>2 DEF CommandOK, AgedOK, ServedBy
    <3> QED
      BY <2>1, <3>1, <3>3, OneCommand
  <2> QED
    BY <2>2, <2>3
<1>7. ASSUME NEW p \in Procs, NEW org \in Orgs \cup {NoOrg}, ResolveOrganization(p, org) PROVE HistoryInv'
  <2>1. /\ proc[p].name \in Names
        /\ UNCHANGED <<day, stamp, serial, files>>
    BY <1>1, <1>7 DEF ResolveOrganization, CommandOK, CacheSame
  <2>2. CASE org = NoOrg
    BY <1>4, <1>7, <2>1, <2>2 DEF ResolveOrganization, Fail
  <2>3. CASE org # NoOrg
    <3> DEFINE r == [at |-> "workspaces", name |-> proc[p].name, org |-> org]
    <3>1. Set(p, r) /\ r \in [at : {"workspaces"}, name : Names, org : Orgs] /\ r.at = "workspaces"
      BY <1>7, <2>1, <2>3 DEF ResolveOrganization
    <3> HIDE DEF r
    <3>2. proc'[p] = r
      BY <1>0, <3>1 DEF Set
    <3>3. CommandOK(p)' /\ AgedOK(p)' /\ ServedBy(p)'
      BY <3>1, <3>2 DEF CommandOK, AgedOK, ServedBy
    <3> QED
      BY <2>1, <3>1, <3>3, OneCommand
  <2> QED
    BY <2>2, <2>3
<1> DEFINE JobRecords == [at : {"jobs"}, name : Names, org : Orgs, left : SUBSET AllConnections,
                          got : SUBSET AllConnections, tries : Nat]
<1>8. ASSUME NEW p \in Procs, NEW r \in JobRecords, Set(p, r), UNCHANGED <<day, stamp, serial, files>>
      PROVE  HistoryInv'
  <2>1. proc'[p] = r /\ r.at = "jobs"
    BY <1>0, <1>8 DEF Set
  <2>2. CommandOK(p)' /\ AgedOK(p)' /\ ServedBy(p)'
    BY <1>8, <2>1 DEF CommandOK, AgedOK, ServedBy
  <2> QED
    BY <1>8, <2>2, OneCommand
<1>9. ASSUME NEW p \in Procs, NEW ok \in BOOLEAN, NEW offered \in SUBSET Orgs, FetchWorkspaces(p, ok, offered)
      PROVE  HistoryInv'
  <2> DEFINE org  == proc[p].org
             own  == offered \cap {org}
             used == IF org \in WorkspaceMap THEN {org} ELSE IF own = {} THEN offered ELSE own
             r == [at |-> "jobs", name |-> proc[p].name, org |-> org,
                   left |-> UNION {Connections[o] : o \in used}, got |-> {}, tries |-> 0]
  <2>1. /\ proc[p].name \in Names /\ org \in Orgs
        /\ UNCHANGED <<day, stamp, serial, files>>
    BY <1>1, <1>9 DEF FetchWorkspaces, CommandOK, CacheSame
  <2>2. used \subseteq Orgs
    BY <2>1
  <2>3. UNION {Connections[o] : o \in used} \in SUBSET AllConnections
    BY <2>2
  <2>4. r \in JobRecords
    BY <2>1, <2>3
  <2>5. Set(p, Idle) \/ Set(p, r)
    BY <1>9 DEF FetchWorkspaces, Fail
  <2> HIDE DEF r
  <2> QED
    BY <1>4, <1>8, <2>1, <2>4, <2>5
<1>10. ASSUME NEW p \in Procs, NEW c \in AllConnections, NEW answer, FetchJobHistory(p, c, answer)
       PROVE  HistoryInv'
  <2> DEFINE r == proc[p]
             again == answer = "busy" /\ r.tries + 1 < MaxRetries
             q == IF again THEN [r EXCEPT !.tries = @ + 1]
                  ELSE [r EXCEPT !.tries = 0, !.left = @ \ {c}, !.got = IF answer = "jobs" THEN @ \cup {c} ELSE @]
  <2>1. r \in JobRecords /\ UNCHANGED <<day, stamp, serial, files>>
    BY <1>1, <1>10 DEF FetchJobHistory, CommandOK, CacheSame
  <2>2. q \in JobRecords
    <3> DEFINE l == r.left \ {c}
               g == IF answer = "jobs" THEN r.got \cup {c} ELSE r.got
    <3>1. l \in SUBSET AllConnections /\ g \in SUBSET AllConnections
      <4> HIDE DEF AllConnections
      <4> QED
        BY <1>10, <2>1
    <3> HIDE DEF AllConnections, l, g
    <3>2. [r EXCEPT !.tries = 0, !.left = l, !.got = g] \in JobRecords
      BY <2>1, <3>1
    <3>3. [r EXCEPT !.tries = @ + 1] \in JobRecords
      BY <2>1
    <3> QED
      BY <3>2, <3>3 DEF l, g
  <2>3. Set(p, q)
    BY <1>10 DEF FetchJobHistory
  <2> HIDE DEF q
  <2> QED
    BY <1>8, <2>1, <2>2, <2>3
<1>11. ASSUME NEW p \in Procs, NEW same \in BOOLEAN, OpenCacheFile(p, same) PROVE HistoryInv'
  <2> DEFINE r == proc[p]
             mine == [folder |-> FolderOf[r.name], stamp |-> IF same THEN stamp ELSE stamp + 1,
                      by |-> p, serial |-> serial + 1, day |-> day, whole |-> FALSE,
                      org |-> r.org, got |-> r.got]
             q == [at |-> "writing", name |-> r.name, file |-> mine]
  <2>1. r \in JobRecords
    BY <1>1, <1>11 DEF OpenCacheFile, CommandOK
  <2>2. mine \in CacheFile /\ mine.serial = serial + 1 /\ mine.day = day /\ stamp' \in Nat
    BY <1>0, <1>11, <2>1 DEF OpenCacheFile, CacheOK, CacheFile, Folders
  <2>3. /\ files' \subseteq files \cup {mine} /\ mine \in files'
        /\ \A n : InFolder(n)' = InFolder(n) \/ mine \in InFolder(n)'
    <3>1. mine.folder = FolderOf[r.name]
      OBVIOUS
    <3> HIDE DEF mine
    <3>2. \/ files' = files \cup {mine}
          \/ files' = (files \ {f \in InFolder(r.name) : f.stamp = stamp /\ f.day = day}) \cup {mine}
      BY <1>11 DEF OpenCacheFile, mine
    <3> QED
      BY <3>1, <3>2 DEF InFolder
  <2>4. serial' = serial + 1 /\ day' = day /\ Set(p, q)
    BY <1>11 DEF OpenCacheFile
  <2>5. q \in [at : {"writing"}, name : Names, file : CacheFile] /\ q.at = "writing"
    BY <2>1, <2>2
  <2> HIDE DEF mine, q
  <2>6. proc'[p] = q
    BY <1>0, <2>4 DEF Set
  <2>7. CommandOK(p)' /\ AgedOK(p)' /\ ServedBy(p)'
    BY <2>5, <2>6 DEF CommandOK, AgedOK, ServedBy
  <2>8. {mine} \in SUBSET CacheFile /\ \A f \in {mine} : f.serial = serial + 1 /\ f.day = day
    BY <2>2
  <2> QED
    BY <2>2, <2>3, <2>4, <2>7, <2>8, FileWritten
<1>12. ASSUME NEW p \in Procs, NEW luck \in BOOLEAN, FillCacheFile(p, luck) PROVE HistoryInv'
  <2>0. PICK mine, s, d : mine = proc[p].file /\ s = serial + 1 /\ d = day
    OBVIOUS
  <2> DEFINE there == {f \in files : f.folder = mine.folder /\ f.stamp = mine.stamp}
             Filled(f) == Refilled(mine, s, d, f.by = p \/ luck)
             new == {Filled(f) : f \in there}
  <2>1. mine \in CacheFile /\ s \in Nat /\ d \in Nat
    <3>1. proc[p].file \in CacheFile
      BY <1>1, <1>12 DEF FillCacheFile, CommandOK
    <3>2. serial \in Nat /\ day \in Nat
      BY <1>0 DEF CacheOK
    <3> QED
      BY <2>0, <3>1, <3>2
  <2>2. \A f : Filled(f) \in CacheFile /\ Filled(f).serial = s /\ Filled(f).day = d
               /\ Filled(f).folder = mine.folder
    <3>1. \A f : (f.by = p \/ luck) \in BOOLEAN
      OBVIOUS
    <3>2. \A w \in BOOLEAN : LET g == Refilled(mine, s, d, w) IN
            g \in CacheFile /\ g.serial = s /\ g.day = d /\ g.folder = mine.folder
      BY <2>1, RefilledFile
    <3> QED
      BY <3>1, <3>2, Zenon
  <2>3. files' = (files \ there) \cup new
    BY <1>12, <2>0 DEF FillCacheFile, Refilled
  <2> HIDE DEF Filled
  <2>4. /\ new \in SUBSET CacheFile /\ (\A f \in new : f.serial = serial + 1 /\ f.day = day)
        /\ files' \subseteq files \cup new
    BY <2>0, <2>2, <2>3
  <2>5. \A n : InFolder(n)' = InFolder(n) \/ \E f \in new : f \in InFolder(n)'
    <3> TAKE n
    <3>1. CASE FolderOf[n] = mine.folder /\ there # {}
      <4>1. PICK f \in there : TRUE
        BY <3>1
      <4>2. Filled(f) \in new
        BY <4>1
      <4>3. Filled(f) \in InFolder(n)'
        BY <2>2, <2>3, <3>1, <4>2 DEF InFolder
      <4> QED
        BY <4>2, <4>3
    <3>2. CASE there = {}
      BY <2>3, <3>2 DEF InFolder
    <3>3. CASE FolderOf[n] # mine.folder
      BY <2>2, <2>3, <3>3 DEF InFolder
    <3> QED
      BY <3>1, <3>2, <3>3
  <2>6. Set(p, Idle) /\ stamp' \in Nat /\ serial' = serial + 1 /\ day' = day
    BY <1>0, <1>12 DEF FillCacheFile, CacheOK
  <2>7. proc'[p].at = "idle"
    BY <1>0, <2>6 DEF Set, Idle
  <2>8. CommandOK(p)' /\ AgedOK(p)' /\ ServedBy(p)'
    BY <2>7 DEF CommandOK, AgedOK, ServedBy
  <2> HIDE DEF new
  <2> QED
    BY <2>4, <2>5, <2>6, <2>8, FileWritten
<1>13. ASSUME NEW p \in Procs, ClearOldCache(p) PROVE HistoryInv'
  <2>1. files' = {f \in files : day - f.day <= KeepAge} /\ Set(p, Idle) /\ UNCHANGED <<day, stamp, serial>>
    BY <1>13 DEF ClearOldCache, Age
  <2>2. CacheOK'
    BY <1>0, <2>1 DEF CacheOK
  <2>3. proc' = [q \in Procs |-> proc'[q]] /\ proc'[p].at = "idle" /\ \A q \in Procs \ {p} : proc'[q] = proc[q]
    BY <1>0, <2>1 DEF Set, Idle
  <2>4. CommandOK(p)' /\ AgedOK(p)' /\ ServedBy(p)'
    BY <2>3 DEF CommandOK, AgedOK, ServedBy
  <2>5. ASSUME NEW q \in Procs \ {p} PROVE CommandOK(q)' /\ AgedOK(q)' /\ ServedBy(q)'
    <3>1. proc'[q] = proc[q] /\ CommandOK(q) /\ AgedOK(q) /\ ServedBy(q)
      BY <1>1, <2>3
    <3>2. CommandOK(q)' /\ ServedBy(q)'
      BY <2>1, <3>1 DEF CommandOK, ServedBy
    <3>3. AgedOK(q)'
      <4>0. PICK c, n : c = proc[q] /\ n = c.name
        OBVIOUS
      <4> SUFFICES ASSUME c.at = "aged"
                   PROVE  /\ \A f \in InFolder(n)' : f.serial >= c.newest => c.day - f.day <= MaxAge
                          /\ InFolder(n)' # {} => \E f \in InFolder(n)' : f.serial >= c.newest
        BY <3>1, <4>0 DEF AgedOK
      <4>1. /\ c.newest \in 0 .. serial
            /\ \A f \in InFolder(n) : f.serial >= c.newest => c.day - f.day <= MaxAge
            /\ InFolder(n) # {} => \E f \in InFolder(n) : f.serial >= c.newest
        BY <3>1, <4>0 DEF CommandOK, AgedOK
      <4>2. InFolder(n)' = {f \in InFolder(n) : day - f.day <= KeepAge}
        BY <2>1 DEF InFolder
      <4>3. ASSUME NEW g \in InFolder(n)' PROVE \E f \in InFolder(n)' : f.serial >= c.newest
        <5>1. PICK f \in InFolder(n) : f.serial >= c.newest
          BY <4>1, <4>2, <4>3
        <5>2. /\ f \in files /\ g \in files /\ g \in InFolder(n) /\ day - g.day <= KeepAge
          BY <4>2, <4>3, <5>1 DEF InFolder
        <5>3. /\ {f.serial, g.serial, f.day, g.day, day} \subseteq Nat
              /\ g.serial <= f.serial => g.day <= f.day
          BY <1>0, <5>2 DEF CacheOK, CacheFile
        <5>4. CASE g.serial <= f.serial
          BY <4>2, <5>1, <5>2, <5>3, <5>4, AgeAssumption
        <5>5. CASE f.serial <= g.serial
          BY <4>1, <4>2, <5>1, <5>2, <5>3, <5>5
        <5> QED
          BY <5>3, <5>4, <5>5
      <4> QED
        BY <4>1, <4>2, <4>3
    <3> QED
      BY <3>2, <3>3
  <2> QED
    BY <2>2, <2>3, <2>4, <2>5 DEF HistoryInv
<1>14. ASSUME NEW p \in Procs, NEW r, r.at \in {"report", "mapping"}, Set(p, r), UNCHANGED <<day, stamp, serial, files>>,
              r.at = "report" => r = [at |-> "report", left |-> r.left, got |-> r.got, refused |-> r.refused],
              r.at = "mapping" => r = [at |-> "mapping", open |-> r.open, new |-> r.new]
       PROVE  HistoryInv'
  <2>1. proc'[p] = r
    BY <1>0, <1>14 DEF Set
  <2>2. CommandOK(p)' /\ AgedOK(p)' /\ ServedBy(p)'
    BY <1>14, <2>1 DEF CommandOK, AgedOK, ServedBy
  <2> QED
    BY <1>14, <2>2, OneCommand
<1>15. ASSUME NEW p \in Procs, NEW n \in Names, StartReport(p, n) PROVE HistoryInv'
  <2>1. PICK org \in GetOrganizationInfo(n) :
          Set(p, Idle) \/ Set(p, [at |-> "report", left |-> Connections[org], got |-> {}, refused |-> 0])
    BY <1>15 DEF StartReport, Fail
  <2>2. UNCHANGED <<day, stamp, serial, files>>
    BY <1>15 DEF StartReport, CacheSame
  <2> QED
    BY <1>4, <1>14, <2>1, <2>2
<1>16. ASSUME NEW p \in Procs, NEW w, NEW answer, FetchWorkspaceData(p, w, answer) PROVE HistoryInv'
  <2> DEFINE c == proc[p]
             l == c.left \ {w}
             g == IF answer = "jobs" THEN c.got \cup {w} ELSE c.got
             f == CASE answer = "jobs" -> 0 [] answer = "busy" -> c.refused + 1 [] OTHER -> c.refused
             r == [at |-> "report", left |-> l, got |-> g, refused |-> f]
  <2>1. /\ c = [at |-> "report", left |-> c.left, got |-> c.got, refused |-> c.refused]
        /\ UNCHANGED <<day, stamp, serial, files>>
    BY <1>1, <1>16 DEF FetchWorkspaceData, CommandOK, CacheSame
  <2>2. Set(p, [c EXCEPT !.left = l, !.got = g, !.refused = f])
    BY <1>16 DEF FetchWorkspaceData
  <2>3. PICK x, y, z : c = [at |-> "report", left |-> x, got |-> y, refused |-> z]
    BY <2>1
  <2> HIDE DEF l, g, f, c
  <2>4. [c EXCEPT !.left = l, !.got = g, !.refused = f] = r
    <3> DEFINE d == [c EXCEPT !.left = l, !.got = g, !.refused = f]
    <3>1. d.at = "report" /\ d.left = l /\ d.got = g /\ d.refused = f
      BY <2>3
    <3>2. d = [i \in {"at", "left", "got", "refused"} |-> d[i]]
      BY <2>3
    <3> HIDE DEF d
    <3>3. d = [at |-> "report", left |-> l, got |-> g, refused |-> f]
      BY <3>1, <3>2
    <3> QED
      BY <3>3 DEF d
  <2> QED
    BY <1>14, <2>1, <2>2, <2>4
<1>17. ASSUME NEW p \in Procs, NEW n \in Names, NEW org \in Orgs, SaveMappingReads(p, n, org) PROVE HistoryInv'
  <2>1. /\ Set(p, [at |-> "mapping", open |-> FALSE, new |-> WithMapping(orgFile, n, org)])
        /\ UNCHANGED <<day, stamp, serial, files>>
    BY <1>17 DEF SaveMappingReads, CacheSame
  <2> QED
    BY <1>14, <2>1
<1>18. ASSUME NEW p \in Procs, SaveMappingOpens(p) PROVE HistoryInv'
  <2> DEFINE c == proc[p]
  <2>1. c = [at |-> "mapping", open |-> c.open, new |-> c.new] /\ UNCHANGED <<day, stamp, serial, files>>
    BY <1>1, <1>18 DEF SaveMappingOpens, CommandOK
  <2>2. Set(p, [c EXCEPT !.open = TRUE])
    BY <1>18 DEF SaveMappingOpens
  <2>3. PICK x, y : c = [at |-> "mapping", open |-> x, new |-> y]
    BY <2>1
  <2> HIDE DEF c
  <2>4. [c EXCEPT !.open = TRUE] = [at |-> "mapping", open |-> TRUE, new |-> y]
    <3>1. \A b : [[at |-> "mapping", open |-> x, new |-> y] EXCEPT !.open = b] = [at |-> "mapping", open |-> b, new |-> y]
      OBVIOUS
    <3> QED
      BY <2>3, <3>1, Zenon
  <2> QED
    BY <1>14, <2>1, <2>2, <2>4
<1>19. ASSUME NEW p \in Procs, EndReport(p) \/ Killed(p) \/ SaveMappingFills(p) \/ Served(p) PROVE HistoryInv'
  BY <1>4, <1>19 DEF EndReport, Killed, SaveMappingFills, Served, CacheSame, Fail
<1> QED
  BY <1>2, <1>3, <1>5, <1>6, <1>7, <1>9, <1>10, <1>11, <1>12, <1>13, <1>15, <1>16, <1>17, <1>18, <1>19 DEF JHNext

\* get_or_fetch_job_history, with any number of commands at once, each killed at any step:
\* what it answers from the cache was written to the end, was no older than MaxAge when it
\* was asked for, and is the newest history of the folder at that time or a later one.
THEOREM ServedHistory == JHSpec => []ServedIsWhole
<1>1. JHInit => HistoryInv
  BY DEF JHInit, HistoryInv, CacheOK, CommandOK, AgedOK, ServedBy, Idle
<1>2. HistoryInv => ServedIsWhole
  BY DEF HistoryInv, ServedIsWhole, ServedBy
<1> QED
  BY <1>1, <1>2, HistoryInductive, PTL DEF JHSpec

-----------------------------------------------------------------------------
(* The evaluation runner, for any suite and any number of commands.        *)
(*                                                                         *)
(* The results of a command, the reports on disk and what is left to do    *)
(* are tied together: a suite numbers its results as it does its           *)
(* manifests, so that no report of a command is written twice and a        *)
(* workspace that is cleaned up is not that of a scenario that failed.     *)

\* The command under way, and the reports.
ResultType == [manifest : Suite, passed : BOOLEAN]
Todos == Seq(Suite)
ResultSeqs == Seq(ResultType)
CommandType == [pc : {"none", "manifest", "skill", "report", "clean", "raised", "finally", "ended"},
                kind : {"run", "suite"}, todo : Todos, skill : Nat, executor : {"mock", "claude"},
                semantic : BOOLEAN, retain : BOOLEAN, failed : BOOLEAN,
                results : ResultSeqs, exit : {0, 1, 2}]
EvalTypes ==
  /\ command \in CommandType
  /\ reports \in [Suite -> [by : Nat, passed : BOOLEAN]]
  /\ combined \in [by : Nat, passed : BOOLEAN]
  /\ commandNo \in Nat /\ rmFaults \in Nat

\* The manifest that is reported but not yet cleaned up is still the first one to do.
Reported == IF command.pc = "clean" THEN 1 ELSE 0

\* A suite takes its manifests in turn, and a run has only one.
TodoOK ==
  LET done == Len(command.results) - Reported IN
  /\ command.pc \in {"manifest", "skill", "report", "clean"} =>
       /\ Len(command.todo) + done = IF command.kind = "suite" THEN Manifests ELSE 1
       /\ command.kind = "suite" => \A i \in DOMAIN command.todo : command.todo[i] = i + done
  /\ command.pc \in {"skill", "report", "clean"} => command.todo # <<>> /\ Current \in DOMAIN spaces
  /\ command.pc = "clean" => /\ command.results # <<>>
                             /\ command.results[Len(command.results)] = [manifest |-> Current, passed |-> ~command.failed]

\* Every result so far is in a report of this command, and a suite has them in order.
ResultsOK ==
  /\ \A k \in DOMAIN command.results :
       reports[command.results[k].manifest] = [by |-> commandNo, passed |-> command.results[k].passed]
  /\ IF command.kind = "suite" THEN \A k \in DOMAIN command.results : command.results[k].manifest = k
     ELSE Len(command.results) <= 1

\* The combined report of this command was written after its last manifest.
CombinedOK ==
  /\ combined.by <= commandNo
  /\ command.pc # "none" => commandNo > 0
  /\ command.pc \in {"manifest", "skill", "report", "clean", "raised"} => combined.by < commandNo
  /\ command.pc # "none" /\ combined.by = commandNo =>
       /\ command.kind = "suite" /\ Len(command.results) = Manifests
       /\ combined.passed = AllPassed
  /\ command.pc = "finally" => command.kind = "suite" /\ command.todo = <<>> /\ combined.by = commandNo
  /\ command.pc = "ended" /\ command.exit = 0 =>
       /\ command.todo = <<>> /\ AllPassed
       /\ command.kind = "suite" => combined.by = commandNo

\* The workspace of a scenario that failed stays until the end of the suite.
SpacesOK ==
  command.kind = "suite" /\ command.pc # "ended" =>
    \A k \in DOMAIN command.results : ~command.results[k].passed => command.results[k].manifest \in DOMAIN spaces

EvalInv == EvalTypes /\ TodoOK /\ ResultsOK /\ CombinedOK /\ SpacesOK /\ WorkspacesAsAsked

\* What the steps do to the record of the command.
LEMMA CommandMoves ==
  ASSUME NEW c \in CommandType, NEW q \in {"manifest", "skill", "report", "clean", "raised", "finally", "ended"}
  PROVE  LET d == [c EXCEPT !.pc = q] IN
         /\ d \in CommandType /\ d.pc = q /\ d.kind = c.kind /\ d.todo = c.todo /\ d.results = c.results
         /\ d.retain = c.retain /\ d.failed = c.failed
  BY DEF CommandType

\* ... the end
LEMMA CommandExits ==
  ASSUME NEW c \in CommandType, NEW e \in {0, 1, 2}
  PROVE  LET d == [c EXCEPT !.pc = "ended", !.exit = e] IN
         /\ d \in CommandType /\ d.pc = "ended" /\ d.kind = c.kind /\ d.todo = c.todo /\ d.results = c.results
         /\ d.retain = c.retain /\ d.exit = e
  BY DEF CommandType

\* A command starts with everything to do.
LEMMA EvalStarts ==
  ASSUME EvalInv, NEW kind \in {"run", "suite"}, NEW todo \in Seq(Suite), NEW executor \in {"mock", "claude"},
         NEW semantic \in BOOLEAN, NEW retain \in BOOLEAN, StartCommand(kind, todo, executor, semantic, retain),
         kind = "suite" => Len(todo) = Manifests /\ \A i \in DOMAIN todo : todo[i] = i,
         kind = "run" => Len(todo) = 1
  PROVE  EvalInv'
<1>0. EvalTypes /\ CombinedOK
  BY DEF EvalInv
<1>1. command' = [NoCommand EXCEPT !.pc = "manifest", !.kind = kind, !.todo = todo, !.executor = executor,
                                   !.semantic = semantic, !.retain = retain]
  BY DEF StartCommand
<1>a. <<>> \in ResultSeqs /\ todo \in Todos
  BY DEF ResultSeqs, Todos
<1>2. /\ command'.pc = "manifest" /\ command'.kind = kind /\ command'.todo = todo /\ command'.results = <<>>
      /\ command' \in CommandType
  BY <1>1, <1>a DEF NoCommand, CommandType
<1>3. commandNo' = commandNo + 1 /\ UNCHANGED <<reports, combined, rmFaults>>
  BY DEF StartCommand
<1>4. EvalTypes'
  BY <1>0, <1>2, <1>3 DEF EvalTypes
<1>5. TodoOK' /\ ResultsOK' /\ SpacesOK' /\ WorkspacesAsAsked'
  BY <1>2, EvalAssumption DEF TodoOK, ResultsOK, SpacesOK, WorkspacesAsAsked, Reported
<1>6. CombinedOK'
  BY <1>0, <1>2, <1>3 DEF CombinedOK, EvalTypes
<1> QED
  BY <1>4, <1>5, <1>6 DEF EvalInv

\* An exception, the end of a skill, a timeout of the judge: the results stay as they are.
LEMMA EvalGoesOn ==
  ASSUME EvalInv, command.pc \in {"manifest", "skill", "report", "clean"}, command' \in CommandType,
         command'.pc \in {"skill", "report", "raised"},
         command'.pc \in {"skill", "report"} => /\ command.pc # "clean" /\ command.todo # <<>>
                                               /\ Current \in DOMAIN spaces',
         command'.kind = command.kind, command'.todo = command.todo, command'.results = command.results,
         command'.retain = command.retain, DOMAIN spaces \subseteq DOMAIN spaces',
         UNCHANGED <<reports, combined, commandNo>>, rmFaults' \in Nat
  PROVE  EvalInv'
<1>0. EvalTypes /\ TodoOK /\ ResultsOK /\ CombinedOK /\ SpacesOK
  BY DEF EvalInv
<1>1. EvalTypes'
  BY <1>0 DEF EvalTypes
<1>2. TodoOK'
  BY <1>0 DEF TodoOK, Reported, Current
<1>3. ResultsOK' /\ SpacesOK' /\ WorkspacesAsAsked'
  BY <1>0 DEF ResultsOK, SpacesOK, WorkspacesAsAsked
<1>4. CombinedOK'
  BY <1>0 DEF CombinedOK, AllPassed
<1> QED
  BY <1>1, <1>2, <1>3, <1>4 DEF EvalInv

\* The end of a command, by itself or killed.
LEMMA EvalEnds ==
  ASSUME EvalInv, command.pc \notin {"none", "ended"}, command' \in CommandType, command'.pc = "ended",
         command'.kind = command.kind, command'.todo = command.todo, command'.results = command.results,
         command'.retain = command.retain,
         command'.exit = 0 => /\ command.pc \in {"finally", "manifest"} /\ AllPassed
                              /\ command.pc = "manifest" => command.kind = "run" /\ command.todo = <<>>,
         command.kind = "suite" /\ command'.exit # 2 /\ rmFaults' = 0 =>
           IF command.retain THEN AllPassed \/ spaces' = spaces ELSE DOMAIN spaces' = {},
         UNCHANGED <<reports, combined, commandNo>>, rmFaults' \in Nat
  PROVE  EvalInv'
<1>0. EvalTypes /\ TodoOK /\ ResultsOK /\ CombinedOK /\ SpacesOK
  BY DEF EvalInv
<1>1. EvalTypes'
  BY <1>0 DEF EvalTypes
<1>2. TodoOK' /\ ResultsOK' /\ SpacesOK'
  BY <1>0 DEF TodoOK, ResultsOK, SpacesOK, Reported
<1>3. CombinedOK'
  BY <1>0 DEF CombinedOK, AllPassed
<1>4. WorkspacesAsAsked'
  BY <1>0 DEF WorkspacesAsAsked, SpacesOK, AllPassed
<1> QED
  BY <1>1, <1>2, <1>3, <1>4 DEF EvalInv

\* Every step of a command keeps the invariant.
LEMMA EvalInductive == EvalInv /\ [EvalNext]_evars => EvalInv'
<1> SUFFICES ASSUME EvalInv, [EvalNext]_evars PROVE EvalInv'
  OBVIOUS
<1>0. EvalTypes /\ TodoOK /\ ResultsOK /\ CombinedOK /\ SpacesOK /\ WorkspacesAsAsked
  BY DEF EvalInv
<1>a. /\ command \in CommandType /\ command.todo \in Seq(Suite) /\ command.results \in Seq(ResultType)
      /\ Manifests \in Nat /\ rmFaults \in Nat /\ commandNo \in Nat
  BY <1>0, EvalAssumption DEF EvalTypes, CommandType, Todos, ResultSeqs
<1>1. CASE UNCHANGED evars
  BY <1>0, <1>1 DEF evars, EvalInv, EvalTypes, TodoOK, ResultsOK, CombinedOK, SpacesOK, WorkspacesAsAsked,
                    Reported, Current, AllPassed
<1>2. ASSUME NEW executor \in {"mock", "claude"}, NEW semantic \in BOOLEAN, NEW retain \in BOOLEAN,
             \/ \E m \in Suite : StartCommand("run", <<m>>, executor, semantic, retain)
             \/ StartCommand("suite", [k \in Suite |-> k], executor, semantic, retain)
      PROVE  EvalInv'
  <2>1. ASSUME NEW m \in Suite, StartCommand("run", <<m>>, executor, semantic, retain) PROVE EvalInv'
    <3>1. <<m>> \in Seq(Suite) /\ Len(<<m>>) = 1
      OBVIOUS
    <3> QED
      BY <1>2, <2>1, <3>1, EvalStarts
  <2>2. CASE StartCommand("suite", [k \in Suite |-> k], executor, semantic, retain)
    <3> DEFINE all == [k \in Suite |-> k]
    <3>1. all \in Seq(Suite) /\ Len(all) = Manifests /\ \A i \in DOMAIN all : all[i] = i
      BY <1>a DEF Suite
    <3> HIDE DEF all
    <3>2. StartCommand("suite", all, executor, semantic, retain)
      BY <2>2 DEF all
    <3> QED
      BY <1>2, <3>1, <3>2, EvalStarts
  <2> QED
    BY <1>2, <2>1, <2>2
<1>3. ASSUME NEW m \in Suite, Build(m) PROVE EvalInv'
  <2>1. /\ command.pc = "manifest" /\ command.todo # <<>> /\ m = Current
        /\ \/ command' = [command EXCEPT !.pc = "skill", !.skill = 1, !.failed = FALSE]
           \/ command' = [command EXCEPT !.pc = "raised"]
        /\ DOMAIN spaces' = DOMAIN spaces \cup {m}
        /\ UNCHANGED <<reports, combined, commandNo, rmFaults>>
    BY <1>3 DEF Build
  <2>2. /\ command' \in CommandType /\ command'.pc \in {"skill", "raised"}
        /\ command'.kind = command.kind /\ command'.todo = command.todo /\ command'.results = command.results
        /\ command'.retain = command.retain
    <3>1. CASE command' = [command EXCEPT !.pc = "skill", !.skill = 1, !.failed = FALSE]
      BY <1>a, <3>1 DEF CommandType
    <3>2. CASE command' = [command EXCEPT !.pc = "raised"]
      BY <1>a, <3>2, CommandMoves
    <3> QED
      BY <2>1, <3>1, <3>2
  <2> QED
    BY <1>a, <2>1, <2>2, EvalGoesOn
<1>4. ASSUME NEW r, NEW v, RunSkill(r, v) PROVE EvalInv'
  <2>1. PICK b \in BOOLEAN, q \in {"skill", "report"} :
          command' = [command EXCEPT !.failed = b, !.skill = @ + 1, !.pc = q]
    <3>1. (command.failed \/ Failures(r, v) # {}) \in BOOLEAN
      OBVIOUS
    <3>2. (IF command.skill = Len(UnderTest[Current]) THEN "report" ELSE command.pc) \in {"skill", "report"}
      BY <1>4 DEF RunSkill
    <3>3. command' = [command EXCEPT !.failed = command.failed \/ Failures(r, v) # {}, !.skill = @ + 1,
                                     !.pc = IF command.skill = Len(UnderTest[Current]) THEN "report" ELSE command.pc]
      BY <1>4 DEF RunSkill
    <3> QED
      BY <3>1, <3>2, <3>3
  <2>2. /\ command.pc = "skill" /\ DOMAIN spaces' = DOMAIN spaces
        /\ UNCHANGED <<reports, combined, commandNo, rmFaults>>
    BY <1>4 DEF RunSkill
  <2>3. /\ command' \in CommandType /\ command'.pc \in {"skill", "report"}
        /\ command'.kind = command.kind /\ command'.todo = command.todo /\ command'.results = command.results
        /\ command'.retain = command.retain
    <3>1. PICK n : n = command.skill + 1
      OBVIOUS
    <3>2. n \in Nat /\ command' = [command EXCEPT !.failed = b, !.skill = n, !.pc = q]
      BY <1>a, <2>1, <3>1 DEF CommandType
    <3> QED
      BY <1>a, <2>1, <3>2 DEF CommandType
  <2>4. command.todo # <<>> /\ Current \in DOMAIN spaces
    BY <1>0, <2>2 DEF TodoOK
  <2> QED
    BY <1>a, <2>2, <2>3, <2>4, EvalGoesOn
<1>5. CASE JudgeTimesOut
  <2>1. /\ command.pc = "skill" /\ command' = [command EXCEPT !.pc = "raised"]
        /\ UNCHANGED <<spaces, reports, combined, commandNo, rmFaults>>
    BY <1>5 DEF JudgeTimesOut
  <2>2. /\ command' \in CommandType /\ command'.pc = "raised"
        /\ command'.kind = command.kind /\ command'.todo = command.todo /\ command'.results = command.results
        /\ command'.retain = command.retain
    BY <1>a, <2>1, CommandMoves
  <2> QED
    BY <1>a, <2>1, <2>2, EvalGoesOn
<1>6. CASE WriteReport
  <2>1. PICK m, b, R : m = Current /\ b = ~command.failed /\ R = [manifest |-> m, passed |-> b]
    OBVIOUS
  <2>2. command.pc = "report" /\ command.todo # <<>> /\ m \in Suite /\ b \in BOOLEAN /\ m \in DOMAIN spaces
        /\ m = command.todo[1] /\ Len(command.todo) \in Nat /\ 1 \in DOMAIN command.todo
    BY <1>0, <1>6, <1>a, <2>1 DEF WriteReport, TodoOK, Current
  <2>3. /\ command' = [command EXCEPT !.pc = "clean", !.results = Append(@, R)]
        /\ reports' = [reports EXCEPT ![m] = [by |-> commandNo, passed |-> b]]
        /\ UNCHANGED <<spaces, combined, commandNo, rmFaults>>
    BY <1>6, <2>1 DEF WriteReport, Report
  <2>4. R \in ResultType /\ R.manifest = m /\ R.passed = b
    BY <2>1, <2>2 DEF ResultType
  <2> DEFINE res == Append(command.results, R)
             n == Len(command.results)
  <2>5. /\ res \in Seq(ResultType) /\ n \in Nat /\ Len(res) = n + 1 /\ res[n + 1] = R
        /\ DOMAIN res = 1 .. n + 1 /\ DOMAIN command.results = 1 .. n
        /\ \A k \in 1 .. n : res[k] = command.results[k]
    BY <1>a, <2>4
  <2> HIDE DEF res, n
  <2>6. /\ command' \in CommandType /\ command'.pc = "clean" /\ command'.results = res
        /\ command'.kind = command.kind /\ command'.todo = command.todo /\ command'.failed = command.failed
        /\ command'.retain = command.retain
    <3>1. PICK x : x = res /\ x \in ResultSeqs /\ command' = [command EXCEPT !.pc = "clean", !.results = x]
      BY <2>3, <2>5 DEF ResultSeqs, res
    <3> QED
      BY <1>a, <3>1 DEF CommandType
  <2>7. EvalTypes'
    BY <1>0, <2>2, <2>3, <2>6, <1>a DEF EvalTypes
  <2>8. /\ Len(command.todo) + n = IF command.kind = "suite" THEN Manifests ELSE 1
        /\ command.kind = "suite" => \A i \in DOMAIN command.todo : command.todo[i] = i + n
    <3>1. Reported = 0 /\ Len(command.results) - Reported = n
      BY <2>2, <2>5 DEF Reported, n
    <3> QED
      BY <1>0, <2>2, <3>1 DEF TodoOK
  <2>9. TodoOK'
    <3>1. n + 1 - 1 = n
      BY <2>5
    <3>2. Reported' = 1 /\ Current' = m /\ Len(command'.results) - Reported' = n
      BY <2>1, <2>2, <2>5, <2>6, <3>1 DEF Reported, Current
    <3>3. /\ command'.results # <<>>
          /\ command'.results[Len(command'.results)] = [manifest |-> Current', passed |-> ~command'.failed]
      BY <2>1, <2>5, <2>6, <3>2
    <3> QED
      BY <2>2, <2>3, <2>6, <2>8, <3>2, <3>3 DEF TodoOK
  <2>10. command.kind = "suite" => m = n + 1
    BY <2>2, <2>5, <2>8
  <2>11. command.kind # "suite" => n = 0
    BY <2>2, <2>5, <2>8, <1>a DEF CommandType
  <2>12. ResultsOK'
    <3>1. \A k \in 1 .. n : command.results[k].manifest # m
      BY <1>0, <2>5, <2>10, <2>11 DEF ResultsOK
    <3>2. \A k \in 1 .. n : command.results[k].manifest \in Suite
      <4>1. \A k \in 1 .. n : command.results[k] \in ResultType
        BY <1>a, <2>5
      <4> QED
        BY <4>1 DEF ResultType
    <3>3. \A k \in 1 .. n : reports'[command.results[k].manifest] = reports[command.results[k].manifest]
      BY <1>0, <2>3, <3>1, <3>2 DEF EvalTypes
    <3>4. reports'[m] = [by |-> commandNo, passed |-> b]
      BY <1>0, <2>2, <2>3 DEF EvalTypes
    <3>5. \A k \in 1 .. n + 1 : reports'[res[k].manifest] = [by |-> commandNo, passed |-> res[k].passed]
      <4> SUFFICES ASSUME NEW k \in 1 .. n + 1
                   PROVE  reports'[res[k].manifest] = [by |-> commandNo, passed |-> res[k].passed]
        OBVIOUS
      <4>1. CASE k = n + 1
        BY <2>4, <2>5, <3>4, <4>1
      <4>2. CASE k \in 1 .. n
        BY <1>0, <2>5, <3>3, <4>2 DEF ResultsOK
      <4> QED
        BY <2>5, <4>1, <4>2
    <3>6. command.kind = "suite" => \A k \in 1 .. n + 1 : res[k].manifest = k
      BY <1>0, <2>4, <2>5, <2>10 DEF ResultsOK
    <3> QED
      BY <2>3, <2>5, <2>6, <2>11, <3>5, <3>6 DEF ResultsOK
  <2>13. CombinedOK'
    BY <1>0, <2>2, <2>3, <2>6 DEF CombinedOK, EvalTypes
  <2>14. SpacesOK' /\ WorkspacesAsAsked'
    BY <1>0, <2>2, <2>3, <2>4, <2>5, <2>6 DEF SpacesOK, WorkspacesAsAsked
  <2> QED
    BY <2>7, <2>9, <2>12, <2>13, <2>14 DEF EvalInv
<1>7. CASE CleanUp
  <2>1. command.pc = "clean" /\ UNCHANGED <<reports, combined, commandNo>>
    BY <1>7 DEF CleanUp
  <2>2. CASE command' = [command EXCEPT !.pc = "raised"] /\ UNCHANGED spaces /\ rmFaults' = rmFaults + 1
    <3>1. /\ command' \in CommandType /\ command'.pc = "raised"
          /\ command'.kind = command.kind /\ command'.todo = command.todo /\ command'.results = command.results
          /\ command'.retain = command.retain
      BY <1>a, <2>2, CommandMoves
    <3> QED
      BY <1>a, <2>1, <2>2, <3>1, EvalGoesOn
  <2>3. CASE /\ command' = [command EXCEPT !.pc = "manifest", !.todo = Tail(@)]
             /\ UNCHANGED rmFaults
             /\ \/ Discarded /\ spaces' = Remaining({Current})
                \/ UNCHANGED spaces
    <3>1. command.todo # <<>> /\ command.results # <<>>
          /\ command.results[Len(command.results)] = [manifest |-> Current, passed |-> ~command.failed]
      BY <1>0, <2>1 DEF TodoOK
    <3> DEFINE t == Tail(command.todo)
               n == Len(command.results)
    <3>2. /\ t \in Seq(Suite) /\ Len(command.todo) \in Nat /\ Len(t) = Len(command.todo) - 1 /\ n \in Nat /\ n > 0
          /\ DOMAIN t = 1 .. Len(t) /\ DOMAIN command.todo = 1 .. Len(command.todo)
          /\ DOMAIN command.results = 1 .. n
          /\ \A i \in 1 .. Len(t) : t[i] = command.todo[i + 1]
      BY <1>a, <3>1
    <3> HIDE DEF t, n
    <3>3. /\ command' \in CommandType /\ command'.pc = "manifest" /\ command'.results = command.results
          /\ command'.kind = command.kind /\ command'.todo = t /\ command'.retain = command.retain
      <4>1. PICK x : x = t /\ x \in Todos /\ command' = [command EXCEPT !.pc = "manifest", !.todo = x]
        BY <2>3, <3>2 DEF Todos, t
      <4> QED
        BY <1>a, <4>1 DEF CommandType
    <3>4. EvalTypes'
      BY <1>0, <2>1, <2>3, <3>3 DEF EvalTypes
    <3>5. /\ Len(command.todo) + (n - 1) = IF command.kind = "suite" THEN Manifests ELSE 1
          /\ command.kind = "suite" => \A i \in DOMAIN command.todo : command.todo[i] = i + (n - 1)
      BY <1>0, <2>1 DEF TodoOK, Reported, n
    <3>6. /\ Len(t) + n = IF command.kind = "suite" THEN Manifests ELSE 1
          /\ command.kind = "suite" => \A i \in DOMAIN t : t[i] = i + n
      <4>1. Len(t) + n = Len(command.todo) + (n - 1)
        BY <3>2
      <4>2. ASSUME command.kind = "suite", NEW i \in DOMAIN t PROVE t[i] = i + n
        <5>1. i \in Nat /\ i + 1 \in DOMAIN command.todo /\ t[i] = command.todo[i + 1]
          BY <3>2
        <5>2. command.todo[i + 1] = (i + 1) + (n - 1)
          BY <3>5, <4>2, <5>1
        <5> QED
          BY <3>2, <5>1, <5>2
      <4> QED
        BY <3>5, <4>1, <4>2
    <3>7. TodoOK'
      <4>1. Reported' = 0 /\ Len(command'.results) - Reported' = n
        BY <3>2, <3>3 DEF Reported, n
      <4> QED
        BY <3>3, <3>6, <4>1 DEF TodoOK
    <3>8. ResultsOK' /\ WorkspacesAsAsked'
      BY <1>0, <2>1, <3>3 DEF ResultsOK, WorkspacesAsAsked
    <3>9. CombinedOK'
      <4>1. combined.by < commandNo /\ combined.by \in Nat /\ commandNo > 0
        BY <1>0, <2>1 DEF CombinedOK, EvalTypes
      <4> QED
        BY <1>a, <2>1, <3>3, <4>1 DEF CombinedOK
    <3>10. SpacesOK'
      <4> SUFFICES ASSUME command.kind = "suite", NEW k \in DOMAIN command.results, ~command.results[k].passed
                   PROVE  command.results[k].manifest \in DOMAIN spaces'
        BY <3>3 DEF SpacesOK
      <4>1. command.results[k].manifest \in DOMAIN spaces
        BY <1>0, <2>1 DEF SpacesOK
      <4>2. CASE Discarded /\ spaces' = Remaining({Current})
        <5>1. ~command.failed
          BY <4>2 DEF Discarded
        <5>2. k # n
          <6>1. command.results[n].passed
            <7>1. PICK b \in BOOLEAN : b = ~command.failed
              OBVIOUS
            <7>2. command.results[n] = [manifest |-> Current, passed |-> b] /\ b = TRUE
              BY <3>1, <5>1, <7>1 DEF n
            <7> QED
              BY <7>2
          <6> QED
            BY <6>1
        <5>3. command.results[k].manifest = k /\ command.results[n].manifest = n /\ Current = n
          BY <1>0, <3>1, <3>2 DEF ResultsOK, n
        <5>4. DOMAIN spaces' = DOMAIN spaces \ {Current}
          BY <4>2 DEF Remaining
        <5> QED
          BY <4>1, <5>2, <5>3, <5>4
      <4> QED
        BY <2>3, <4>1, <4>2
    <3> QED
      BY <3>4, <3>7, <3>8, <3>9, <3>10 DEF EvalInv
  <2> QED
    BY <1>7, <2>2, <2>3 DEF CleanUp, RmFault
<1>8. CASE WriteCombined
  <2>1. /\ command.pc = "manifest" /\ command.todo = <<>> /\ command.kind = "suite"
        /\ command' = [command EXCEPT !.pc = "finally"]
        /\ combined' = [by |-> commandNo, passed |-> AllPassed]
        /\ UNCHANGED <<spaces, reports, commandNo, rmFaults>>
    BY <1>8 DEF WriteCombined
  <2>2. /\ command' \in CommandType /\ command'.pc = "finally" /\ command'.results = command.results
        /\ command'.kind = command.kind /\ command'.todo = command.todo
        /\ command'.retain = command.retain
    BY <1>a, <2>1, CommandMoves
  <2>3. AllPassed \in BOOLEAN
    BY DEF AllPassed
  <2>4. combined' \in [by : Nat, passed : BOOLEAN] /\ combined'.by = commandNo /\ combined'.passed = AllPassed
    BY <1>a, <2>1, <2>3
  <2>5. EvalTypes'
    BY <1>0, <2>1, <2>2, <2>4 DEF EvalTypes
  <2>6. TodoOK' /\ ResultsOK' /\ SpacesOK' /\ WorkspacesAsAsked'
    <3>1. TodoOK'
      BY <2>2 DEF TodoOK
    <3>2. ResultsOK'
      BY <1>0, <2>1, <2>2 DEF ResultsOK
    <3>3. SpacesOK' /\ WorkspacesAsAsked'
      BY <1>0, <2>1, <2>2 DEF SpacesOK, WorkspacesAsAsked
    <3> QED
      BY <3>1, <3>2, <3>3
  <2>7. Len(command.results) = Manifests
    BY <1>0, <1>a, <2>1 DEF TodoOK, Reported
  <2>8. AllPassed' = AllPassed
    BY <2>2 DEF AllPassed
  <2>9. CombinedOK'
    BY <1>0, <1>a, <2>1, <2>2, <2>4, <2>7, <2>8 DEF CombinedOK
  <2> QED
    BY <2>5, <2>6, <2>9 DEF EvalInv
<1>9. CASE Finally
  <2>1. /\ command.kind = "suite" /\ command.pc \in {"finally", "raised"}
        /\ UNCHANGED <<reports, combined, commandNo>>
    BY <1>9 DEF Finally
  <2>2. PICK e \in {0, 1} :
          /\ command' = [command EXCEPT !.pc = "ended", !.exit = e]
          /\ e = 0 => command.pc = "finally" /\ AllPassed
    <3> DEFINE f == IF command.pc = "finally" /\ AllPassed THEN 0 ELSE 1
    <3>1. \/ command' = [command EXCEPT !.pc = "ended", !.exit = f]
          \/ command' = [command EXCEPT !.pc = "ended", !.exit = 1]
      BY <1>9 DEF Finally
    <3>2. f \in {0, 1} /\ (f = 0 => command.pc = "finally" /\ AllPassed)
      OBVIOUS
    <3> HIDE DEF f
    <3> QED
      BY <3>1, <3>2
  <2>3. /\ command' \in CommandType /\ command'.pc = "ended" /\ command'.results = command.results
        /\ command'.kind = command.kind /\ command'.todo = command.todo /\ command'.exit = e
        /\ command'.retain = command.retain
    <3>1. e \in {0, 1, 2} /\ command' = [command EXCEPT !.pc = "ended", !.exit = e]
      BY <2>2
    <3> QED
      BY <1>a, <3>1 DEF CommandType
  <2>4. /\ rmFaults' \in Nat
        /\ rmFaults' = 0 => IF command.retain THEN AllPassed \/ spaces' = spaces ELSE DOMAIN spaces' = {}
    <3>1. CASE (spaces' = IF Removed THEN Remaining(DOMAIN spaces) ELSE spaces) /\ UNCHANGED rmFaults
      <4>1. DOMAIN Remaining(DOMAIN spaces) = {}
        BY DEF Remaining
      <4> QED
        BY <1>a, <3>1, <4>1 DEF Removed
    <3>2. CASE RmFault
      BY <1>a, <3>2 DEF RmFault
    <3> QED
      BY <1>9, <3>1, <3>2 DEF Finally
  <2>5. command'.exit = 0 => /\ command.pc \in {"finally", "manifest"} /\ AllPassed
                             /\ command.pc = "manifest" => command.kind = "run" /\ command.todo = <<>>
    BY <2>2, <2>3
  <2> QED
    BY <2>1, <2>3, <2>4, <2>5, EvalEnds
<1>10. CASE EndRun
  <2>1. /\ command.kind = "run" /\ UNCHANGED <<spaces, reports, combined, commandNo, rmFaults>>
        /\ command.pc \in {"raised", "manifest"} /\ (command.pc = "manifest" => command.todo = <<>>)
    BY <1>10 DEF EndRun
  <2>2. PICK e \in {0, 1} :
          /\ command' = [command EXCEPT !.pc = "ended", !.exit = e]
          /\ e = 0 => command.pc = "manifest" /\ AllPassed
    <3> DEFINE f == IF command.pc = "manifest" /\ AllPassed THEN 0 ELSE 1
    <3>1. \/ command' = [command EXCEPT !.pc = "ended", !.exit = f]
          \/ command' = [command EXCEPT !.pc = "ended", !.exit = 1]
      BY <1>10 DEF EndRun
    <3>2. f \in {0, 1} /\ (f = 0 => command.pc = "manifest" /\ AllPassed)
      OBVIOUS
    <3> HIDE DEF f
    <3> QED
      BY <3>1, <3>2
  <2>3. /\ command' \in CommandType /\ command'.pc = "ended" /\ command'.results = command.results
        /\ command'.kind = command.kind /\ command'.todo = command.todo /\ command'.exit = e
        /\ command'.retain = command.retain
    <3>1. e \in {0, 1, 2} /\ command' = [command EXCEPT !.pc = "ended", !.exit = e]
      BY <2>2
    <3> QED
      BY <1>a, <3>1 DEF CommandType
  <2>4. command'.exit = 0 => /\ command.pc \in {"finally", "manifest"} /\ AllPassed
                             /\ command.pc = "manifest" => command.kind = "run" /\ command.todo = <<>>
    BY <2>1, <2>2, <2>3
  <2> QED
    BY <1>a, <2>1, <2>3, <2>4, EvalEnds
<1>11. CASE RunnerKilled
  <2>1. /\ command.pc \notin {"none", "ended"} /\ command' = [command EXCEPT !.pc = "ended", !.exit = 2]
        /\ UNCHANGED <<spaces, reports, combined, commandNo, rmFaults>>
    BY <1>11 DEF RunnerKilled
  <2>2. /\ command' \in CommandType /\ command'.pc = "ended" /\ command'.results = command.results
        /\ command'.kind = command.kind /\ command'.todo = command.todo /\ command'.exit = 2
        /\ command'.retain = command.retain
    BY <1>a, <2>1, CommandExits
  <2> QED
    BY <1>a, <2>1, <2>2, EvalEnds
<1> QED
  BY <1>1, <1>2, <1>3, <1>4, <1>5, <1>6, <1>7, <1>8, <1>9, <1>10, <1>11 DEF EvalNext

\* What the exit code of a command says is what the reports on disk say, also with
\* reports of earlier commands there: exit code 0 stands for reports of this command that
\* passed, and the combined report for those of the suite.
LEMMA EvalReported == EvalInv => ExitIsReported
<1> SUFFICES ASSUME EvalInv, command.pc = "ended" PROVE ExitIsReported
  BY DEF ExitIsReported
<1>0. EvalTypes /\ ResultsOK /\ CombinedOK
  BY DEF EvalInv
<1>1. /\ command \in CommandType /\ command.results \in Seq(ResultType) /\ DOMAIN command.results = 1 .. Len(command.results)
  BY <1>0 DEF EvalTypes, CommandType, ResultSeqs
<1>2. command.kind = "suite" /\ Len(command.results) = Manifests => Ran = Suite
  BY <1>0, <1>1 DEF ResultsOK, Ran, Suite
<1>3. \A k \in DOMAIN command.results :
        /\ reports[command.results[k].manifest].by = commandNo
        /\ reports[command.results[k].manifest].passed <=> command.results[k].passed
  <2> SUFFICES ASSUME NEW k \in DOMAIN command.results
               PROVE  /\ reports[command.results[k].manifest].by = commandNo
                      /\ reports[command.results[k].manifest].passed <=> command.results[k].passed
    OBVIOUS
  <2>1. PICK b \in BOOLEAN : b = command.results[k].passed
    <3>1. command.results[k] \in ResultType
      BY <1>1
    <3> QED
      BY <3>1 DEF ResultType
  <2>2. reports[command.results[k].manifest] = [by |-> commandNo, passed |-> b]
    BY <1>0, <2>1 DEF ResultsOK
  <2> QED
    BY <2>1, <2>2
<1>4. combined.by = commandNo => combined.passed = (\A m \in Suite : reports[m].passed)
  <2> SUFFICES ASSUME combined.by = commandNo PROVE combined.passed = (\A m \in Suite : reports[m].passed)
    OBVIOUS
  <2>1. command.kind = "suite" /\ Len(command.results) = Manifests /\ combined.passed = AllPassed
    BY <1>0 DEF CombinedOK
  <2>2. \A m \in Suite : m \in DOMAIN command.results /\ command.results[m].manifest = m
    BY <1>0, <1>1, <2>1 DEF ResultsOK, Suite
  <2>3. AllPassed <=> \A m \in Suite : reports[m].passed
    BY <1>1, <1>3, <2>1, <2>2 DEF AllPassed, Suite
  <2>4. AllPassed \in BOOLEAN /\ (\A m \in Suite : reports[m].passed) \in BOOLEAN
    BY DEF AllPassed
  <2> QED
    BY <2>1, <2>3, <2>4
<1>5. ASSUME command.exit = 0
      PROVE  /\ command.todo = <<>>
             /\ \A m \in Ran : reports[m].by = commandNo /\ reports[m].passed
             /\ command.kind = "suite" => Ran = Suite /\ combined = [by |-> commandNo, passed |-> TRUE]
  <2>1. command.todo = <<>> /\ AllPassed /\ (command.kind = "suite" => combined.by = commandNo)
    BY <1>0, <1>5 DEF CombinedOK
  <2>2. \A m \in Ran : reports[m].by = commandNo /\ reports[m].passed
    BY <1>3, <2>1 DEF Ran, AllPassed
  <2>3. ASSUME command.kind = "suite" PROVE Ran = Suite /\ combined = [by |-> commandNo, passed |-> TRUE]
    <3>1. Len(command.results) = Manifests /\ combined.passed = AllPassed /\ combined.by = commandNo
      BY <1>0, <2>1, <2>3 DEF CombinedOK
    <3>2. combined.passed = TRUE
      BY <2>1, <3>1
    <3>3. combined = [by |-> combined.by, passed |-> combined.passed]
      BY <1>0 DEF EvalTypes
    <3> QED
      BY <1>2, <2>3, <3>1, <3>2, <3>3
  <2> QED
    BY <2>1, <2>2, <2>3
<1> QED
  BY <1>4, <1>5 DEF ExitIsReported

\* eval/runner.py, for any suite and any number of commands, killed at any step: a command
\* leaves the reports and the workspaces that its exit code and its options promise.
THEOREM SuiteReported == EvalSpec => []SuiteIsReported
<1>1. EvalInit => EvalInv
  <2> SUFFICES ASSUME EvalInit PROVE EvalInv
    OBVIOUS
  <2>1. command \in CommandType /\ command.pc = "none" /\ command.results = <<>>
    BY DEF EvalInit, NoCommand, CommandType, Todos, ResultSeqs
  <2>2. EvalTypes
    BY <2>1 DEF EvalInit, EvalTypes, NoReport
  <2> QED
    BY <2>1, <2>2 DEF EvalInit, EvalInv, TodoOK, ResultsOK, CombinedOK, SpacesOK, WorkspacesAsAsked, Reported
<1>2. EvalInv => SuiteIsReported
  BY EvalReported DEF EvalInv, SuiteIsReported
<1> QED
  BY <1>1, <1>2, EvalInductive, PTL DEF EvalSpec
=============================================================================
