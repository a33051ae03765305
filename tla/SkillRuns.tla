----------------------------- MODULE SkillRuns -----------------------------
(***************************************************************************)
(* Skill runs of the local web app: the planner (orchestrator.py), the     *)
(* invocation (services/skill_runtime_service.py), the run of the claude   *)
(* CLI (services/job_service.py) and the questions about a document        *)
(* (services/ask_service.py). Requests are coroutines of one event loop:   *)
(* what lies between two awaits is one step.                               *)
(*                                                                         *)
(* An output is its validation status and its time; an instruction is a    *)
(* model value, and Brief is what its first 80 characters tell apart.      *)
(***************************************************************************)
EXTENDS Naturals, Sequences

CONSTANTS
  RunCallers,      \* the clients of the web app
  Askers,          \* those who ask about a document
  Chosen,          \* the skills each of them invokes, for one opportunity
  Texts, Brief,    \* instructions, and the part of each that is compared
  Upstreams,       \* the upstream skills whose outputs change
  MaxRuns, MaxWrites

ASSUME RunsAssumption == {MaxRuns, MaxWrites} \subseteq Nat /\ Askers \subseteq RunCallers

VARIABLES
  runs,       \* JobService.jobs, in order of launch
  caller,     \* the requests
  shown,      \* the choices each client has been shown
  outputs,    \* the newest Markdown of a skill per level: its status and time
  record,     \* the persisted run of each skill
  asking      \* the ask of each client

rvars == <<runs, caller, shown, outputs, record, asking>>

Levels == {"opportunity", "account"}
NoOutput == [status |-> "missing", at |-> 0]
NoCall == [pc |-> "idle", skill |-> "", text |-> "", waived |-> {}, job |-> 0]
NoAsk == [pc |-> "idle", job |-> 0, answered |-> FALSE]
-----------------------------------------------------------------------------
(* The planner.                                                             *)

\* SKILL_PREREQUISITES: the advisory upstream of a skill. The other rules, of
\* transcripts and of configuration, only warn.
Advisory(skill) ==
  CASE skill = "poc-plan" -> {"biz-qual", "tech-qual"}
    [] skill \in {"roi-business-case", "mutual-close-plan"} -> {"biz-qual"}
    [] OTHER -> {}

TranscriptWarns ==
  {"post-call", "deployment-model-qual", "biz-qual", "deal-assessment", "tech-qual", "poc-plan",
   "full-qual", "roi-business-case", "mutual-close-plan"}

\* _latest_output looks at both levels and takes the newest.
LatestOutput(u) == CHOOSE o \in {outputs[u][v] : v \in Levels} : \A v \in Levels : outputs[u][v].at <= o.at

\* _check_upstream: a usable output is one that validates.
Usable(u) == LatestOutput(u).status = "valid"

\* _check_worker_analysis_modes, with what the configuration holds.
ReadyModes(config) ==
  {"questionnaire"}
  \cup (IF {"client_id", "client_secret"} \subseteq config THEN {"workspace"} ELSE {})
  \cup (IF "bigquery_project" \in config THEN {"metabase"} ELSE {})
  \cup (IF "datadog_dashboard_url" \in config THEN {"datadog"} ELSE {})

\* _has_qualification_doc: a qualification output of either level with the shape
\* of a document, valid or not.
HasQualification == \E u \in Upstreams, v \in Levels : outputs[u][v].status \in {"valid", "invalid"}

\* The warnings of check_prerequisites.
Warnings(skill, hasTranscript, config) ==
  (IF skill \in TranscriptWarns /\ ~hasTranscript THEN {"transcript"} ELSE {})
  \cup (IF skill = "deal-assessment" /\ ~hasTranscript /\ HasQualification THEN {"thin sources"} ELSE {})
  \cup (IF skill = "worker-analysis" THEN {"workspace", "metabase", "datadog"} \ ReadyModes(config) ELSE {})

\* check_prerequisites: the choices, each named by the skills that are missing.
Choices(skill) ==
  LET missing == {u \in Advisory(skill) : ~Usable(u)}
  IN IF missing = {} THEN {} ELSE {missing}

PendingByRule(skill, acknowledged) == IF acknowledged = {} THEN Choices(skill) ELSE {}
Pending(skill, acknowledged) == Choices(skill) \ acknowledged
-----------------------------------------------------------------------------
(* Permissions.                                                             *)

\* SKILL_PERMISSIONS and _permission_profile: every skill writes.
Profile(skill) ==
  {"write"}
  \cup (IF skill \in {"connector-feasibility", "freeform", "pov-gsheet", "worker-analysis"} THEN {"shell"} ELSE {})
  \cup (IF skill \in {"connector-feasibility", "freeform"} THEN {"git"} ELSE {})

\* SkillPermission.from_profile.
RequiresApproval(skill) == Profile(skill) # {}
PermissionMode(skill, allowlist) ==
  IF "shell" \in Profile(skill) /\ skill \in allowlist THEN "bypassPermissions" ELSE "auto"

-----------------------------------------------------------------------------
(* invoke.                                                                  *)

Signature(skill, text, waived) == [skill |-> skill, text |-> Brief[text], waived |-> waived]

\* find_reused_job: the first running job of the signature.
ReusedChild(sig) ==
  LET same == {j \in DOMAIN runs : runs[j].sig = sig /\ runs[j].status = "running" /\ runs[j].child # "none"}
  IN IF same = {} THEN 0 ELSE CHOOSE j \in same : \A k \in same : j <= k
Reused(sig) ==
  LET same == {j \in DOMAIN runs : runs[j].sig = sig /\ runs[j].status = "running"}
  IN IF same = {} THEN 0 ELSE CHOOSE j \in same : \A k \in same : j <= k

Call(c) == [caller EXCEPT ![c] = NoCall]

\* A skill with choices the client has not acknowledged, or without approval, is
\* blocked: the answer shows them.
InvokeBlocked(c, skill, acknowledged, approved) ==
  /\ caller[c].pc = "idle"
  /\ Pending(skill, acknowledged) # {} \/ (RequiresApproval(skill) /\ ~approved)
  /\ shown' = [shown EXCEPT ![c] = @ \cup Pending(skill, acknowledged)]
  /\ UNCHANGED <<runs, caller, outputs, record, asking>>

\* The request passes its checks, and awaits the refresh of the connector registry.
InvokeAccepted(c, skill, text, acknowledged) ==
  /\ caller[c].pc = "idle"
  /\ Pending(skill, acknowledged) = {}
  /\ caller' = [caller EXCEPT ![c] =
       [pc |-> "refresh", skill |-> skill, text |-> text, waived |-> UNION Choices(skill), job |-> 0]]
  /\ UNCHANGED <<runs, shown, outputs, record, asking>>

\* The clock of the outputs.
Now == CHOOSE n \in 0 .. MaxWrites + 1 :
         /\ n = 0 \/ \E u \in Upstreams, v \in Levels : outputs[u][v].at = n
         /\ \A u \in Upstreams, v \in Levels : outputs[u][v].at <= n

NewRun(c, kind, sig, skill, waived) ==
  [by |-> c, kind |-> kind, sig |-> sig, skill |-> skill, waived |-> waived, status |-> "running",
   child |-> "none", task |-> FALSE, since |-> Now,
   produced |-> FALSE]

\* The rest of invoke, up to the snapshot: a running job of the signature is
\* answered instead, or JobService.launch registers a new one.
Launch(c) ==
  LET r == caller[c]
      sig == Signature(r.skill, r.text, r.waived)
  IN
  /\ r.pc = "refresh"
  /\ IF Reused(sig) # 0
     THEN caller' = Call(c) /\ UNCHANGED runs
     ELSE /\ Len(runs) < MaxRuns
          /\ runs' = Append(runs, NewRun(c, "skill", sig, r.skill, r.waived))
          /\ caller' = [caller EXCEPT ![c].pc = "saving", ![c].job = Len(runs) + 1]
  /\ UNCHANGED <<shown, outputs, record, asking>>

\* The snapshot is saved, or it is not and the answer warns: the task is created.
Launched(c) ==
  /\ caller[c].pc = "saving"
  /\ runs' = [runs EXCEPT ![caller[c].job].task = TRUE]
  /\ caller' = Call(c)
  /\ UNCHANGED <<shown, outputs, record, asking>>

-----------------------------------------------------------------------------
(* _run_job.                                                                *)

Ends(j, status, produced) ==
  /\ runs' = [runs EXCEPT ![j] =
       LET ended == runs[j].child = "on" /\ status = "done"
       IN [runs[j] EXCEPT !.status = status, !.produced = produced, !.child = IF ended THEN "ended" ELSE @]]
  /\ record' = [record EXCEPT ![runs[j].skill] = [status |-> status, produced |-> produced]]
  /\ UNCHANGED <<caller, shown, outputs, asking>>

Running(j) == j \in DOMAIN runs /\ runs[j].status = "running" /\ runs[j].task

\* The CLI is started.
StartChild(j) ==
  /\ Running(j) /\ runs[j].child = "none"
  /\ runs' = [runs EXCEPT ![j].child = "on"]
  /\ UNCHANGED <<caller, shown, outputs, record, asking>>

\* It is not on the PATH, or cannot be started.
NoChild(j) == Running(j) /\ runs[j].child = "none" /\ Ends(j, "error", FALSE)

\* It ends: has_output_since looks for an output of the skill that is no older
\* than the job, whoever wrote it.
HasOutputSince(j) ==
  runs[j].skill \in Upstreams /\ \E v \in Levels : outputs[runs[j].skill][v].at > runs[j].since
ChildEnds(j) == Running(j) /\ runs[j].child = "on" /\ Ends(j, "done", HasOutputSince(j))

\* 20 minutes pass: the job fails and the child is left to itself.
RunTimesOut(j) == Running(j) /\ runs[j].child = "on" /\ Ends(j, "error", FALSE)

\* A child, of a job or left over, writes an output.
ChildWrites(j, status) ==
  LET u == runs[j].skill
  IN
  /\ j \in DOMAIN runs /\ runs[j].child = "on" /\ u \in Upstreams
  /\ Now <= MaxWrites
  /\ outputs' = [outputs EXCEPT ![u]["opportunity"] = [status |-> status, at |-> Now + 1]]
  /\ UNCHANGED <<runs, caller, shown, record, asking>>

\* A user's edit invalidates an output, or a correction validates it.
Edited(u, v, status) ==
  /\ outputs[u][v].at # 0 /\ outputs[u][v].status # status
  /\ outputs' = [outputs EXCEPT ![u][v].status = status]
  /\ UNCHANGED <<runs, caller, shown, record, asking>>
-----------------------------------------------------------------------------
(* Ask: a quick answer is streamed; a deep one is a job.                    *)

\* output_ask and transcript_ask: to a deep job on request, on a hint in the
\* question, or without a key for the quick path.
AskDeep(c) ==
  /\ asking[c].pc = "idle" /\ Len(runs) < MaxRuns
  /\ runs' = Append(runs, [NewRun(c, "ask", [skill |-> "ask", text |-> "", waived |-> {}], "ask", {}) EXCEPT !.task = TRUE])
  /\ asking' = [asking EXCEPT ![c] = [pc |-> "done", job |-> Len(runs) + 1, answered |-> FALSE]]
  /\ UNCHANGED <<caller, shown, outputs, record>>

AskQuick(c) ==
  /\ asking[c].pc = "idle"
  /\ asking' = [asking EXCEPT ![c].pc = "stream"]
  /\ UNCHANGED <<runs, caller, shown, outputs, record>>

\* The stream of a quick answer ends: with an answer, with one that needs more,
\* empty, or with an error. An answer that needs more, and an empty one, escalate.
EscalatesOnRequest(answer) == answer = "needs deep"
Escalates(answer) == answer \in {"needs deep", "empty"}

QuickEnds(c, answer, launches) ==
  LET deep == Escalates(answer) /\ launches /\ Len(runs) < MaxRuns
  IN
  /\ asking[c].pc = "stream"
  /\ Escalates(answer) /\ launches => Len(runs) < MaxRuns
  /\ runs' = IF deep
             THEN Append(runs, [NewRun(c, "ask", [skill |-> "ask", text |-> "auto", waived |-> {}], "ask", {})
                                EXCEPT !.task = TRUE])
             ELSE runs
  /\ asking' = [asking EXCEPT ![c] =
       [pc |-> IF answer = "error" \/ (Escalates(answer) /\ ~launches) THEN "failed" ELSE "done",
        job |-> IF deep THEN Len(runs) + 1 ELSE 0,
        answered |-> answer \in {"answer", "needs deep"}]]
  /\ UNCHANGED <<caller, shown, outputs, record>>

AskAgain(c) ==
  /\ asking[c].pc \in {"done", "failed"}
  /\ asking' = [asking EXCEPT ![c] = NoAsk]
  /\ UNCHANGED <<runs, caller, shown, outputs, record>>
-----------------------------------------------------------------------------
RunsInit ==
  /\ runs = <<>>
  /\ caller = [c \in RunCallers |-> NoCall]
  /\ shown = [c \in RunCallers |-> {}]
  /\ outputs \in [Upstreams -> {[v \in Levels |-> NoOutput],
                                [v \in Levels |-> IF v = "account" THEN [status |-> "valid", at |-> 1] ELSE NoOutput]}]
  /\ record = [s \in UNION {Chosen[c] : c \in RunCallers} \cup {"ask"} |-> [status |-> "none", produced |-> FALSE]]
  /\ asking = [c \in Askers |-> NoAsk]

InvokeNext ==
  \/ \E c \in RunCallers : \E skill \in Chosen[c], acknowledged \in SUBSET shown[c] :
          \/ \E approved \in BOOLEAN : InvokeBlocked(c, skill, acknowledged, approved)
          \/ \E text \in Texts : InvokeAccepted(c, skill, text, acknowledged)
  \/ \E c \in RunCallers : Launch(c) \/ Launched(c)
  \/ \E u \in Upstreams, v \in Levels, status \in {"valid", "invalid"} : Edited(u, v, status)

AskNext ==
  \/ \E c \in Askers : AskDeep(c) \/ AskQuick(c) \/ AskAgain(c)
  \/ \E c \in Askers, answer \in {"answer", "needs deep", "empty", "error"}, launches \in BOOLEAN :
       QuickEnds(c, answer, launches)

JobNext ==
  \E j \in 1 .. MaxRuns :
    \/ StartChild(j) \/ NoChild(j) \/ ChildEnds(j) \/ RunTimesOut(j)
    \/ \E status \in {"valid", "invalid"} : ChildWrites(j, status)

RunsNext == InvokeNext \/ AskNext \/ JobNext

RunsSpec == RunsInit /\ [][RunsNext]_rvars
-----------------------------------------------------------------------------
(* Properties.                                                              *)

\* Two running jobs of skills never have the same signature: the check for one and
\* the registration of the next are not separated by an await, even though the
\* checks before them are.
OneRunPerSignature ==
  \A i, j \in DOMAIN runs :
    /\ i # j /\ runs[i].kind = "skill" /\ runs[j].kind = "skill"
    /\ runs[i].status = "running" /\ runs[j].status = "running"
    => runs[i].sig # runs[j].sig

\* A run skips only upstream skills that its client was shown as missing, together:
\* when another output went away since, the client is asked again.
WaivedWasShown ==
  \A j \in DOMAIN runs : runs[j].waived = {} \/ runs[j].waived \in shown[runs[j].by]

\* "the SE should never see 'no response' when a working fallback exists": a quick
\* answer that ends in good order has a text, or the job of a deep one.
NoEmptyAnswer ==
  \A c \in Askers : asking[c].pc = "done" => asking[c].answered \/ asking[c].job # 0

\* A run is the one that was asked for, once, with the waivers that were shown, and an
\* answer is not empty.
RunsAsAsked == OneRunPerSignature /\ WaivedWasShown /\ NoEmptyAnswer
=============================================================================
