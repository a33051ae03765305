---------------------------- MODULE NotesIntake ----------------------------
(***************************************************************************)
(* Granola retrieval of the local web app:                                 *)
(* services/granola_retrieval_service.py over the relay of                 *)
(* integrations/granola_mcp_relay.py, which runs the user's Claude Code    *)
(* once for each tool call and takes the tool's result out of the          *)
(* transcript. The language model in between is not trusted: it may call   *)
(* another tool, ask for other meetings, call twice, or not call at all.   *)
(*                                                                         *)
(* The text of a meeting is the set of meetings that it came from, with a  *)
(* version for the summary.                                                *)
(***************************************************************************)
EXTENDS EvidenceLedger, FiniteSets

CONSTANTS
  Meetings,
  MaxNoteEvents,     \* bound on what the user and the provider do
  MaxRelayFaults,    \* bound on calls that go wrong and deaths of the process
  MaxSelection,      \* MAX_MEETINGS_PER_GET
  MaxNoteRevision    \* revisions of a source

ASSUME NotesAssumption ==
  {MaxNoteEvents, MaxRelayFaults, MaxSelection, MaxNoteRevision} \subseteq Nat /\ IsFiniteSet(Meetings)

VARIABLES
  notes,      \* what Granola has of each meeting
  checked,    \* the connection marker file exists
  nsources,   \* the ledger's record of each meeting ...
  nlast,      \* ... and the payload its latest revision was made from
  njob,       \* the retrieval job
  nbefore,    \* history: the records when the job was started
  ncounts

nvars == <<notes, checked, nsources, nlast, njob, nbefore, ncounts>>

NoNotesJob ==
  [phase |-> "none", ids |-> <<>>, details |-> <<>>, code |-> "none", at |-> 1,
   meetings |-> <<>>, order |-> <<>>, outcome |-> <<>>]

NChance(c, max) == ncounts[c] < max /\ ncounts' = [ncounts EXCEPT ![c] = @ + 1]

-----------------------------------------------------------------------------
(* The relay.                                                               *)

Failure(code, retry) == [ok |-> FALSE, code |-> code, retry |-> retry]
Success(body)        == [ok |-> TRUE, body |-> body]

RetryCodes == {"relay_timeout", "relay_exit_error"}
FatalCodes == {"runtime_unavailable", "relay_output_too_large"}

\* The results of known uses, and the first of them.
Matched(stream) == {i \in DOMAIN stream.results : stream.results[i].use \in DOMAIN stream.uses}
FirstResult(stream) ==
  stream.results[CHOOSE i \in Matched(stream) : \A j \in Matched(stream) : i <= j]

ExtractOther(stream, tool, args) ==
  LET matched == Matched(stream)
      result  == FirstResult(stream)
  IN
  IF \E u \in DOMAIN stream.uses : stream.uses[u].tool # tool THEN Failure("relay_wrong_tool", FALSE)
  ELSE IF Len(stream.uses) > 1 THEN Failure("relay_unexpected_call", FALSE)
  ELSE IF matched = {} THEN Failure("relay_no_tool_result", TRUE)
  ELSE IF result.error # "none" THEN Failure(result.error, FALSE)
  ELSE Success(result.body)

\* extract_tool_result: one use, of the tool asked for, with the arguments asked
\* for, and one result of that use. Results of unknown uses are ignored.
ExtractToolResult(stream, tool, args) ==
  LET matched == Matched(stream)
      result  == FirstResult(stream)
  IN
  IF \E u \in DOMAIN stream.uses : stream.uses[u].tool # tool THEN Failure("relay_wrong_tool", FALSE)
  ELSE IF Len(stream.uses) > 1 THEN Failure("relay_unexpected_call", FALSE)
  ELSE IF \E u \in DOMAIN stream.uses : stream.uses[u].args # args THEN Failure("relay_wrong_arguments", FALSE)
  ELSE IF matched = {} THEN Failure("relay_no_tool_result", TRUE)
  ELSE IF \E i, j \in matched : i # j THEN Failure("relay_unexpected_call", FALSE)
  ELSE IF result.error = "unreadable" THEN Failure("relay_unparseable_result", TRUE)
  ELSE IF result.error # "none" THEN Failure(result.error, FALSE)
  ELSE Success(result.body)

\* What Granola's tools answer. A meeting that is not visible has no row.
Visible(m) == notes[m].kind # "hidden"

ToolAnswer(tool, args) ==
  CASE tool = "get_meetings" -> [error |-> "none", body |-> {m \in args : Visible(m)}]
    [] tool = "get_meeting_transcript" ->
         [error |-> IF \E m \in args : notes[m].kind = "full" THEN "none" ELSE "tool_not_found", body |-> args]

\* The streams one run of Claude Code can produce for a call: as asked, for other
\* meetings, of another tool, twice, without a result, or with an answer that is
\* an error or cannot be read.
GoodStream(tool, args) ==
  [uses    |-> <<[tool |-> tool, args |-> args]>>,
   results |-> <<[use |-> 1, error |-> ToolAnswer(tool, args).error, body |-> ToolAnswer(tool, args).body]>>]

OtherArguments(tool) ==
  IF tool = "get_meetings" THEN SUBSET Meetings \ {{}} ELSE {{m} : m \in Meetings}

BadStreams(tool, args) ==
  LET good == GoodStream(tool, args)
      wild == UNION {{GoodStream(tool, other)} : other \in OtherArguments(tool)}
  IN  wild
      \cup {[uses |-> good.uses \o w.uses, results |-> w.results] : w \in wild}
      \cup {[good EXCEPT !.uses = <<>>], [good EXCEPT !.results = <<>>],
            [good EXCEPT !.uses = <<[tool |-> "query_granola_meetings", args |-> args]>>]}
      \cup {[good EXCEPT !.results = <<[use |-> 1, error |-> e, body |-> {}]>>]
              : e \in {"unreadable", "tool_error", "tool_access_denied", "tool_auth_required"}}

\* ClaudeCodeMcpRelay.call: what a call can end with.
CallResults(tool, args) ==
  {ExtractToolResult(s, tool, args) : s \in BadStreams(tool, args)}
  \cup {Failure(c, TRUE) : c \in RetryCodes} \cup {Failure(c, FALSE) : c \in FatalCodes}

Relayed(tool, args, result) ==
  \/ result = ExtractToolResult(GoodStream(tool, args), tool, args) /\ UNCHANGED ncounts
  \/ result \in CallResults(tool, args) /\ NChance("faults", MaxRelayFaults)

-----------------------------------------------------------------------------
(* The retrieval job.                                                       *)

\* check_connection: only an answer writes the marker.
CheckConnection ==
  /\ ~checked /\ NChance("events", MaxNoteEvents)
  /\ checked' = TRUE
  /\ UNCHANGED <<notes, nsources, nlast, njob, nbefore>>

\* start_retrieval: without duplicates, bounded, and one at a time.
Distinct(ids) == \A i, j \in DOMAIN ids : ids[i] = ids[j] => i = j

StartNotes(ids) ==
  /\ checked /\ njob.phase \in {"none", "done", "error"}
  /\ Distinct(ids) /\ Len(ids) \in 1 .. MaxSelection
  /\ NChance("events", MaxNoteEvents)
  /\ njob' = [NoNotesJob EXCEPT !.phase = "connect", !.ids = ids]
  /\ nbefore' = nsources
  /\ UNCHANGED <<notes, checked, nsources, nlast>>

\* _assert_connected.
ConnectNotes(up) ==
  /\ njob.phase = "connect"
  /\ IF up THEN UNCHANGED ncounts ELSE NChance("faults", MaxRelayFaults)
  /\ njob' = [njob EXCEPT !.phase = IF up THEN "batch" ELSE "error"]
  /\ UNCHANGED <<notes, checked, nsources, nlast, nbefore>>

Selected == {njob.ids[i] : i \in DOMAIN njob.ids}

\* _pick: what a row says of its meeting.
Pick(m) == [kind |-> notes[m].kind, ver |-> notes[m].ver, said |-> {}]

\* _run, the batch call: rows that were not asked for are dropped; a failure
\* that can be retried ends the job, any other one is remembered.
FetchBatch(result) ==
  /\ njob.phase = "batch"
  /\ Relayed("get_meetings", Selected, result)
  /\ njob' =
       IF result.ok
       THEN [njob EXCEPT !.phase = "each",
               !.details = [m \in result.body \cap Selected |-> Pick(m)]]
       ELSE IF result.retry
       THEN [njob EXCEPT !.phase = "done", !.outcome = [m \in Selected |-> "failed_retryable"]]
       ELSE [njob EXCEPT !.phase = "each", !.code = result.code]
  /\ UNCHANGED <<notes, checked, nsources, nlast, nbefore>>

\* _error_code_for.
ErrorKind(code) == IF code \in {"tool_access_denied", "tool_auth_required"} THEN "refused" ELSE "missing"

Lost(kind) == [kind |-> kind, ver |-> 0, said |-> {}]

Going(m) == njob.code = "none" /\ m \in DOMAIN njob.details

\* What the transcript call leaves of a meeting's payload: a transcript that names
\* another meeting is dropped, a refusal takes the summary with it, and without a
\* transcript the summary remains.
WithTranscript(m, result, named) ==
  LET detail == njob.details[m] IN
  IF result.ok
  THEN IF named /\ result.body # {m} THEN detail ELSE [detail EXCEPT !.said = result.body]
  ELSE IF ErrorKind(result.code) = "refused" THEN Lost("refused")
  ELSE detail

\* normalize: a payload that does not have the documented shape is refused.
Normalizes(payload) == payload.kind # "garbled"

\* One meeting of the selection becomes a payload, an outcome or both.
Took(m, payload) ==
  IF Normalizes(payload)
  THEN [njob EXCEPT !.at = @ + 1, !.meetings = Append(@, payload), !.order = Append(@, m)]
  ELSE [njob EXCEPT !.at = @ + 1,
                    !.outcome = [x \in DOMAIN @ \cup {m} |-> IF x = m THEN "rejected" ELSE @[x]]]

Skipped(m) ==
  [njob EXCEPT !.at = @ + 1,
               !.outcome = [x \in DOMAIN @ \cup {m} |-> IF x = m THEN "failed_retryable" ELSE @[x]]]

\* _run, the loop: a meeting without a row.
EachMissing ==
  LET m == njob.ids[njob.at] IN
  /\ njob.phase = "each" /\ njob.at <= Len(njob.ids) /\ ~Going(m)
  /\ njob' = Took(m, Lost(IF njob.code # "none" THEN ErrorKind(njob.code) ELSE "missing"))
  /\ UNCHANGED <<notes, checked, nsources, nlast, nbefore, ncounts>>

\* A meeting with a row: its transcript, which may or may not carry an id.
EachTranscript(result, named) ==
  LET m == njob.ids[njob.at] IN
  /\ njob.phase = "each" /\ njob.at <= Len(njob.ids) /\ Going(m)
  /\ Relayed("get_meeting_transcript", {m}, result)
  /\ njob' = IF ~result.ok /\ result.retry THEN Skipped(m) ELSE Took(m, WithTranscript(m, result, named))
  /\ UNCHANGED <<notes, checked, nsources, nlast, nbefore>>

\* _normalize_mcp_meeting and _normalize_unavailable.
NoteAvailability(p) ==
  IF p.kind = "refused" THEN "withheld"
  ELSE IF p.said # {} \/ p.kind \in {"summary", "full"} THEN "content" ELSE "none"

\* _record_meeting.
NoteRecorded(m, p) == IF nlast[m] = p THEN nsources[m] ELSE Imported(nsources[m], NoteAvailability(p))

\* _classify.
Classify(m, p) ==
  LET r == NoteRecorded(m, p) IN
  IF NoteAvailability(p) = "withheld" THEN "inaccessible"
  ELSE IF NoteAvailability(p) = "none" THEN "pending_content"
  ELSE IF r = nsources[m] THEN "already_known"
  ELSE IF r.rev > 1 THEN "edited" ELSE "imported"

\* zip(order, results): the results are in the order of what was imported.
ZipSelection(i) == njob.ids[i]
ZipOrder(i) == njob.order[i]

\* The import of the whole batch, and the outcomes.
ImportNotes ==
  LET got(m)  == \E i \in DOMAIN njob.order : njob.order[i] = m
      for(m)  == njob.meetings[CHOOSE i \in DOMAIN njob.order : njob.order[i] = m]
      said    == [i \in DOMAIN njob.order |-> Classify(njob.order[i], njob.meetings[i])]
  IN
  /\ njob.phase = "each" /\ njob.at > Len(njob.ids)
  /\ \A i \in DOMAIN njob.order : nsources[njob.order[i]].rev < MaxNoteRevision
  /\ nsources' = [m \in Meetings |-> IF got(m) THEN NoteRecorded(m, for(m)) ELSE nsources[m]]
  /\ nlast' = [m \in Meetings |-> IF got(m) THEN for(m) ELSE nlast[m]]
  /\ njob' = [njob EXCEPT !.phase = "done",
       !.outcome = [m \in Selected |->
          IF \E i \in DOMAIN said : ZipOrder(i) = m THEN said[CHOOSE i \in DOMAIN said : ZipOrder(i) = m]
          ELSE IF m \in DOMAIN @ THEN @[m]
          ELSE "failed_retryable"]]
  /\ UNCHANGED <<notes, checked, nbefore, ncounts>>

-----------------------------------------------------------------------------
(* The user, the provider and the process.                                  *)

DecideNote(m, o) ==
  /\ nsources[m].rev > 0 /\ nsources[m].assoc # o /\ NChance("events", MaxNoteEvents)
  /\ nsources' = [nsources EXCEPT ![m] = Confirmed(@, o)]
  /\ UNCHANGED <<notes, checked, nlast, njob, nbefore>>

NoteKinds == {"hidden", "empty", "summary", "full", "garbled"}

ChangeNote(m, kind) ==
  /\ NChance("events", MaxNoteEvents)
  /\ notes' = [notes EXCEPT ![m] = [kind |-> kind, ver |-> @.ver + 1]]
  /\ UNCHANGED <<checked, nsources, nlast, njob, nbefore>>

NotesCrash ==
  /\ njob.phase # "none" /\ NChance("faults", MaxRelayFaults)
  /\ njob' = NoNotesJob
  /\ UNCHANGED <<notes, checked, nsources, nlast, nbefore>>

NotesInit ==
  /\ notes = [m \in Meetings |-> [kind |-> "full", ver |-> 1]]
  /\ checked = FALSE
  /\ nsources = [m \in Meetings |-> NoSource]
  /\ nlast = [m \in Meetings |-> Lost("none")]
  /\ njob = NoNotesJob
  /\ nbefore = nsources
  /\ ncounts = [events |-> 0, faults |-> 0]

Selections == UNION {[1 .. n -> Meetings] : n \in 1 .. Cardinality(Meetings)}

NotesNext ==
  \/ CheckConnection
  \/ \E ids \in Selections : StartNotes(ids)
  \/ \E up \in BOOLEAN : ConnectNotes(up)
  \/ /\ njob.phase = "batch"
     /\ \E result \in CallResults("get_meetings", Selected) : FetchBatch(result)
  \/ EachMissing
  \/ /\ njob.phase = "each" /\ njob.at <= Len(njob.ids)
     /\ \E result \in CallResults("get_meeting_transcript", {njob.ids[njob.at]}), named \in BOOLEAN :
          EachTranscript(result, named)
  \/ ImportNotes
  \/ \E m \in Meetings : (\E o \in Opps : DecideNote(m, o)) \/ (\E k \in NoteKinds : ChangeNote(m, k))
  \/ NotesCrash

NotesSpec == NotesInit /\ [][NotesNext]_nvars
-----------------------------------------------------------------------------
(* Properties.                                                              *)

\* Whatever the language model in the relay does, a transcript is recorded only
\* of the meeting it belongs to, even when the provider leaves out its id.
NotesAreOwn == \A m \in Meetings : nlast[m].said \subseteq {m}

\* The outcome the job reports for each selected meeting is what happened to its
\* record: _run matches results with meetings by position, and meetings that
\* were skipped or rejected are missing from the results.
OutcomesMatch ==
  njob.phase = "done" => \A m \in Selected :
    LET was == nbefore[m].rev
        r   == nsources[m]
        out == njob.outcome[m]
    IN  /\ out = "imported"      <=> was = 0 /\ r.rev = 1 /\ Latest(r) = "content"
        /\ out = "edited"        <=> was > 0 /\ r.rev = was + 1 /\ Latest(r) = "content"
        /\ out = "already_known" => was > 0 /\ r.rev = was /\ Latest(r) = "content"
        /\ out = "pending_content" => r.rev > 0 /\ Latest(r) = "none"
        /\ out = "inaccessible"  => r.rev > 0 /\ Latest(r) = "withheld"
        /\ out \in {"failed_retryable", "rejected"} => r.rev = was

\* What a selection brings is what was selected: the notes of a meeting come from that
\* meeting, and its outcome is told of it and of no other.
NotesMatch == NotesAreOwn /\ OutcomesMatch
=============================================================================
