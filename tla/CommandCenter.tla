--------------------------- MODULE CommandCenter ---------------------------
(***************************************************************************)
(* The command center of the local web app: reconciliation of a source     *)
(* with the overview of its opportunity, the actions and changes derived   *)
(* from it, the corrections of an association and the removal of a mail    *)
(* (services/command_center_operations_service.py, gmail_forget_service.py *)
(* and the read barrier of opportunity_state_service.py).                  *)
(*                                                                         *)
(* Every operation that writes holds one lock over processes, computes its *)
(* files under it and writes them one after the other: "todo" is what it   *)
(* has left to write. A failing write ends the operation there, a death of *)
(* the process drops the rest. A reconciliation job analyses without the   *)
(* lock and takes it to commit. The overview of an opportunity is the      *)
(* chain of versions that OverviewStore implements. Run receipts and the   *)
(* fields of an action other than its status are left out.                 *)
(***************************************************************************)
EXTENDS EvidenceLedger, FiniteSets, SequencesExt

CONSTANTS
  Sources,        \* the sources that can be imported
  Home,           \* the opportunity they belong to at first
  Mail,           \* those that come from Gmail, which can be forgotten
  Observations,   \* what the model says of a source: nothing, a commitment with
                  \* owner and date in the text or without, or that it is done
  Imports,        \* the availability a revision can have
  Targets,        \* the statuses a user moves an action to
  MaxRevision,    \* revisions of a source
  MaxVersions,    \* versions of an overview
  MaxDecisions,   \* association decisions of a source
  MaxTransitions, \* transitions of an action
  MaxRequests,    \* what users ask for, over all
  MaxFaults       \* failing analyses and writes, and deaths of the process

ASSUME CenterAssumption ==
  /\ Home \in Opps /\ Mail \subseteq Sources /\ Imports \subseteq Availability
  /\ Observations \subseteq {"nothing", "open", "proposed", "done"}
  /\ Targets \subseteq {"open", "blocked", "completed", "dismissed"}
  /\ {MaxRevision, MaxVersions, MaxDecisions, MaxTransitions, MaxRequests, MaxFaults} \subseteq Nat

CONSTANTS None    \* no source, no opportunity

\* An identifier of a source or of an opportunity is none of the marks.
ASSUME NamesAssumption ==
  /\ IsFiniteSet(Sources) /\ IsFiniteSet(Opps)
  /\ None \notin Sources \cup Opps
  /\ {Unassociated, Proposed} \cap Opps = {}

VARIABLES
  ledger,     \* the record of each source
  receipts,   \* the forget receipt of each source
  history,    \* the versions of each opportunity's overview
  retired,    \* the source for which an overview was retired
  actions,    \* the action that each source gave each opportunity
  changes,    \* the change log of each opportunity
  pending,    \* the pending application of each source
  jobs,       \* the reconciliation job of each source
  start,      \* the start that holds the start lock
  work,       \* the operation that holds the writer's lock ...
  todo,       \* ... and the writes it has left
  counts      \* requests and faults so far, and whether one cut off a correction

stored == <<ledger, receipts, history, retired, actions, changes, pending>>
vars   == <<ledger, receipts, history, retired, actions, changes, pending, jobs, start, work, todo, counts>>

NoAction  == [trans |-> <<>>, origin |-> 0, evidence |-> {}, hints |-> {}, dup |-> FALSE, retracted |-> FALSE]
NoPending == [o |-> None, rev |-> 0, base |-> 0, seq |-> 0]
NoJob     == [phase |-> "none", o |-> None, rev |-> 0, base |-> 0, seq |-> 0, obs |-> "nothing"]
NoStart   == [s |-> None, kind |-> "none", snap |-> NoSource, base |-> 0]
NoWork    == [kind |-> "none", s |-> None]

Chance(c, max) == counts[c] < max /\ counts' = [counts EXCEPT ![c] = @ + 1]

Requested == Chance("requests", MaxRequests)


-----------------------------------------------------------------------------
(* Reading the overview.                                                    *)

Forgotten == {s \in Sources : receipts[s] # "none"}
CitesOf(v, s) == \E c \in v.cites : c[1] = s

\* _visible_history: a forgotten source taints every version from one that
\* cites it to the one that its removal wrote.
Tainted(o, i) ==
  {s \in Forgotten :
     \E j \in 1 .. i :
       /\ CitesOf(history[o][j], s)
       /\ \A k \in j .. i : ~(history[o][k].rt = "gmail_forget" /\ history[o][k].by = <<s, 0>>
                              /\ ~CitesOf(history[o][k], s))}

\* read_current and inspect_current.
Inspect(o) ==
  IF history[o] = <<>> THEN "not_created"
  ELSE IF retired[o] # None THEN "retired"
  ELSE IF Tainted(o, Len(history[o])) # {} THEN "withheld"
  ELSE "current"

Visible(o) == {i \in 1 .. Len(history[o]) : Tainted(o, i) = {}}

-----------------------------------------------------------------------------
(* Actions and changes.                                                     *)

Exists(a) == a.trans # <<>>
Status(a) == Last(a.trans).to
HumanTouched(a) == \E t \in ToSet(a.trans) : t.by # "analysis"

HumanTransitions ==
  {<<"proposed", "open">>, <<"proposed", "dismissed">>, <<"open", "blocked">>, <<"open", "completed">>,
   <<"open", "dismissed">>, <<"blocked", "open">>, <<"blocked", "completed">>, <<"blocked", "dismissed">>,
   <<"completed", "open">>, <<"dismissed", "open">>}

\* _action_retired: hidden with the overview that was retired for its source.
ActionRetired(o, s) == retired[o] = s

Entry(type, subject, n, src) == [type |-> type, subject |-> subject, n |-> n, src |-> src]

\* _change_exists.
ChangeExists(o, type, subject, n) ==
  \E e \in ToSet(changes[o]) : e.type = type /\ e.subject = subject /\ e.n = n

WriteAction(o, s, a)  == <<[w |-> "action", o |-> o, s |-> s, val |-> a]>>
WriteChange(o, e)     == <<[w |-> "change", o |-> o, val |-> e]>>
WriteSource(s, r)     == <<[w |-> "source", s |-> s, val |-> r]>>
WritePending(s, p)    == <<[w |-> "pending", s |-> s, val |-> p]>>
WriteVersion(o, v)    == <<[w |-> "version", o |-> o, val |-> v]>>
WriteRetired(o, s)    == <<[w |-> "retired", o |-> o, val |-> s]>>
WriteReceipt(s, st)   == <<[w |-> "receipt", s |-> s, val |-> st]>>

\* ensure_change: the key of an entry has the revision but not the source.
EnsureChange(o, type, subject, src, rev) ==
  IF ChangeExists(o, type, subject, rev) THEN <<>>
  ELSE WriteChange(o, Entry(type, subject, rev, src))

ForEach(S, Writes(_)) == FlattenSeq([i \in 1 .. Cardinality(S) |-> Writes(SetToSeq(S)[i])])

RepairNothing(o, s) == <<>>

\* _repair_transition_changes: the change of every user transition without one.
RepairWrites(o, s) ==
  LET missing == {n \in 1 .. Len(actions[o][s].trans) :
                    /\ actions[o][s].trans[n].by # "analysis"
                    /\ ~ChangeExists(o, "action_transition", s, n)}
  IN ForEach(missing, LAMBDA n : WriteChange(o, Entry("action_transition", s, n, None)))

\* _apply_observations of "done": a hint on every action that is still open.
HintWrites(o, s, rev) ==
  LET open == {t \in Sources : LET a == actions[o][t] IN
                 Exists(a) /\ ~a.retracted /\ Status(a) \in {"open", "blocked"}}
      New(t) == \A h \in actions[o][t].hints : <<h.src, h.rev>> # <<s, rev>>
      Hinted(t) == [actions[o][t] EXCEPT !.hints = @ \cup {[src |-> s, rev |-> rev, live |-> TRUE]}]
  IN ForEach(open, LAMBDA t : (IF New(t) THEN WriteAction(o, t, Hinted(t)) ELSE <<>>)
                              \o EnsureChange(o, "completion_suggested", t, s, rev))

\* _apply_observations of a commitment: the source's action is found again by
\* its identity, and linked; a new one is opened only when nothing like it is
\* there. Nothing here changes the status of an action that exists.
ActionWrites(o, s, rev, obs) ==
  LET a   == actions[o][s]
      dup == \E t \in Sources \ {s} : Exists(actions[o][t]) /\ ~actions[o][t].retracted
      new == [NoAction EXCEPT !.trans = <<[to |-> IF dup THEN "proposed" ELSE obs, by |-> "analysis"]>>,
                              !.origin = rev, !.evidence = {rev}, !.dup = dup]
      Created(flag) == EnsureChange(o, "action_created", s, s, rev)
                       \o (IF flag THEN EnsureChange(o, "possible_duplicate_flagged", s, s, rev) ELSE <<>>)
  IN IF ~Exists(a) THEN WriteAction(o, s, new) \o Created(dup)
     ELSE IF rev \notin a.evidence
     THEN WriteAction(o, s, [a EXCEPT !.evidence = @ \cup {rev}]) \o EnsureChange(o, "action_linked", s, s, rev)
     ELSE IF a.origin = rev THEN Created(a.dup)
     ELSE EnsureChange(o, "action_linked", s, s, rev)

ApplyWrites(o, s, rev, n, obs) ==
  EnsureChange(o, "overview_revision", n, s, rev)
  \o (CASE obs = "nothing" -> <<>>
         [] obs = "done"    -> HintWrites(o, s, rev)
         [] OTHER           -> ActionWrites(o, s, rev, obs))

CompleteMarksFirst(o, s, rev, n, obs) ==
  WriteSource(s, MarkedProcessed(ledger[s], rev)) \o WritePending(s, NoPending) \o ApplyWrites(o, s, rev, n, obs)

\* _complete: apply, mark the source processed, drop the marker. A source that
\* is not in progress any more leaves the application incomplete.
CompleteWrites(o, s, rev, n, obs) ==
  LET r == ledger[s] IN
  ApplyWrites(o, s, rev, n, obs)
  \o (IF r.status = "processed" /\ r.done = rev THEN WritePending(s, NoPending)
      ELSE IF r.status = "processing" THEN WriteSource(s, MarkedProcessed(r, rev)) \o WritePending(s, NoPending)
      ELSE <<>>)

-----------------------------------------------------------------------------
(* Corrections and removals.                                                *)

RetractOwnOnly(s, o) ==
  IF Exists(actions[o][s]) THEN WriteAction(o, s, [actions[o][s] EXCEPT !.retracted = TRUE]) ELSE <<>>

\* _retract_source: the marker, the source's action and its hints on others.
RetractWrites(s, o) ==
  LET Live(t)    == \E h \in actions[o][t].hints : h.src = s /\ h.live
      Own(t)     == t = s /\ Exists(actions[o][t]) /\ ~actions[o][t].retracted
      Updated(t) == [actions[o][t] EXCEPT
                       !.retracted = @ \/ Own(t),
                       !.hints = {[h EXCEPT !.live = @ /\ h.src # s] : h \in @}]
      Retract(t) == WriteAction(o, t, Updated(t))
                    \o (IF Own(t) THEN WriteChange(o, Entry("association_corrected", t, 0, s)) ELSE <<>>)
                    \o (IF Live(t) THEN WriteChange(o, Entry("suggestion_retracted", t, 0, s)) ELSE <<>>)
  IN (IF pending[s].o = o THEN WritePending(s, NoPending) ELSE <<>>)
     \o ForEach({t \in Sources : Own(t) \/ Live(t)}, Retract)

CitesNow(o, s)      == history[o] # <<>> /\ CitesOf(Last(history[o]), s)
CleanVersions(o, s) == {i \in Visible(o) : ~CitesOf(history[o][i], s)}

\* _assert_revert_possible: a source that every version cites leaves only with
\* the first version, and only when nothing else went into it.
MustRetire(o, s) == retired[o] = None /\ CitesNow(o, s) /\ CleanVersions(o, s) = {}

CanCorrect(o, s) ==
  IF retired[o] # None THEN retired[o] = s
  ELSE /\ Inspect(o) # "withheld"
       /\ MustRetire(o, s) => /\ Len(history[o]) = 1
                             /\ \A c \in Last(history[o]).cites : c[1] = s
                             /\ ~HumanTouched(actions[o][s])

\* _revert_overview: a new version equal to the last one without the source;
\* other sources that are dropped with it can be processed again.
RevertWrites(s, o) ==
  IF retired[o] = s \/ MustRetire(o, s)
  THEN IF ChangeExists(o, "overview_retired", 1, 0) THEN <<>>
       ELSE WriteChange(o, Entry("overview_retired", 1, 0, s))
  ELSE IF ~CitesNow(o, s) THEN <<>>
  ELSE LET target  == history[o][CHOOSE i \in CleanVersions(o, s) : \A j \in CleanVersions(o, s) : j <= i]
           dropped == {t \in Sources \ {s} : /\ receipts[t] = "none"
                                            /\ \E c \in Last(history[o]).cites \ target.cites : c[1] = t}
       IN WriteVersion(o, [target EXCEPT !.by = <<None, 0>>, !.rt = "association_correction", !.obs = "nothing"])
          \o ForEach(dropped, LAMBDA t : WriteSource(t, Reprocessable(ledger[t])))
          \o WriteChange(o, Entry("overview_reverted", Len(history[o]) + 1, 0, s))

\* _retired_prior_association: a correction that was cut off after the overview
\* had been retired is taken up again. No other one is.
Unfinished(s) ==
  LET o == ledger[s].prior IN
  /\ o \in Opps /\ retired[o] = s
  /\ \/ Exists(actions[o][s]) /\ ~actions[o][s].retracted
     \/ ~ChangeExists(o, "overview_retired", 1, 0)

\* confirm_association and clear_association.
CorrectionWrites(s, to) ==
  LET r   == ledger[s]
      o   == r.assoc
      new == IF to \in Opps THEN Confirmed(r, to) ELSE Cleared(r)
  IN IF Associated(r) /\ to # o
     THEN (IF MustRetire(o, s) THEN WriteRetired(o, s) ELSE <<>>)
          \o WriteSource(s, new) \o RetractWrites(s, o) \o RevertWrites(s, o)
     ELSE (IF new # r THEN WriteSource(s, new) ELSE <<>>)
          \o (IF Unfinished(s) THEN RetractWrites(s, r.prior) \o RevertWrites(s, r.prior) ELSE <<>>)

\* _repair_overview: undo what the mail's versions changed, unless a later run
\* of the model saw them; a candidate that still cites the mail is refused.
Attributed(o, s) ==
  {i \in 2 .. Len(history[o]) : \E c \in history[o][i].cites \ history[o][i - 1].cites : c[1] = s}

NotSeen(o, s) == FALSE

SeenByModel(o, s) ==
  \E i \in 1 .. Len(history[o]) :
    /\ \E j \in Attributed(o, s) : j < i
    /\ i \notin Attributed(o, s)
    /\ history[o][i].rt # "gmail_forget"

OverviewRepair(s, o) ==
  LET first == CHOOSE i \in Attributed(o, s) : \A j \in Attributed(o, s) : i <= j
      cur   == Last(history[o])
  IN IF \/ \E v \in ToSet(history[o]) : v.rt = "gmail_forget" /\ v.by = <<s, 0>>
        \/ Attributed(o, s) = {}
        \/ SeenByModel(o, s)
        \/ s \in history[o][first - 1].from
        \/ retired[o] # None
     THEN <<>>
     ELSE WriteVersion(o, [cites |-> {c \in cur.cites : c[1] # s}, by |-> <<s, 0>>, rt |-> "gmail_forget",
                           from |-> IF \E i \in (first + 1) .. Len(history[o]) :
                                         i \notin Attributed(o, s) /\ history[o][i].rt = "model"
                                    THEN cur.from ELSE cur.from \ {s},
                           obs |-> "nothing"])

\* forget: the receipt is the barrier and comes first; all that follows is
\* repeated until the last write, which completes the receipt.
ForgetWrites(s) ==
  LET Mentions(o) == \E t \in Sources : LET a == actions[o][t] IN
                       Exists(a) /\ (t = s \/ \E h \in a.hints : h.src = s)
      Affected(o) == \E v \in ToSet(history[o]) : CitesOf(v, s)
  IN (IF receipts[s] = "none" THEN WriteReceipt(s, "pending") ELSE <<>>)
     \o WritePending(s, NoPending)
     \o ForEach({o \in Opps : Mentions(o)}, LAMBDA o : RetractWrites(s, o))
     \o ForEach({o \in Opps : Affected(o)}, LAMBDA o : OverviewRepair(s, o))
     \o WriteSource(s, NoSource)
     \o WriteReceipt(s, "complete")

-----------------------------------------------------------------------------
(* The operations.                                                          *)

Idle == work = NoWork

\* Take the writer's lock with what there is to write.
Take(kind, s, writes) ==
  /\ writes # <<>>
  /\ work' = [kind |-> kind, s |-> s]
  /\ todo' = writes

\* import_meetings, for one source whose content changed.
Import(s, a) ==
  /\ Idle /\ receipts[s] = "none" /\ ledger[s].rev < MaxRevision
  /\ ledger' = [ledger EXCEPT ![s] = Imported(@, a)]
  /\ Requested
  /\ UNCHANGED <<receipts, history, retired, actions, changes, pending, jobs, start, work, todo>>

Known(s) == receipts[s] = "none" /\ ledger[s].rev > 0

Propose(s) ==
  /\ Idle /\ Known(s) /\ ~Associated(ledger[s]) /\ ledger[s].seq < MaxDecisions
  /\ ledger' = [ledger EXCEPT ![s] = ProposedFor(@)]
  /\ Requested
  /\ UNCHANGED <<receipts, history, retired, actions, changes, pending, jobs, start, work, todo>>

\* retry: asked for by a user, the source waits again.
Retry(s) ==
  /\ Idle /\ Known(s) /\ ledger[s].status = "failed" /\ ledger[s].retry
  /\ ledger' = [ledger EXCEPT ![s] = Retried(@)]
  /\ Requested
  /\ UNCHANGED <<receipts, history, retired, actions, changes, pending, jobs, start, work, todo>>

Room(o) == Len(history[o]) < MaxVersions

Correct(s, to) ==
  /\ Idle /\ Known(s) /\ ledger[s].seq < MaxDecisions
  /\ Associated(ledger[s]) /\ to # ledger[s].assoc => CanCorrect(ledger[s].assoc, s) /\ Room(ledger[s].assoc)
  /\ Take("correct", s, CorrectionWrites(s, to))
  /\ Requested /\ UNCHANGED <<stored, jobs, start>>

Forget(s) ==
  /\ Idle /\ s \in Mail /\ receipts[s] # "complete"
  /\ ledger[s].rev > 0 \/ receipts[s] = "pending"
  /\ \A o \in Opps : Room(o)
  /\ Take("forget", s, ForgetWrites(s))
  /\ Requested /\ UNCHANGED <<stored, jobs, start>>

HumanMay(o, s) == Idle /\ Exists(actions[o][s]) /\ receipts[s] = "none" /\ ~ActionRetired(o, s)
                  /\ Len(actions[o][s].trans) < MaxTransitions

HumanWrites(o, s, to, by) ==
  LET a == actions[o][s] IN
  RepairWrites(o, s)
  \o WriteAction(o, s, [a EXCEPT !.trans = Append(@, [to |-> to, by |-> by])])
  \o WriteChange(o, Entry("action_transition", s, Len(a.trans) + 1, None))

\* transition_action.
Transition(o, s, to) ==
  /\ HumanMay(o, s) /\ ~actions[o][s].retracted
  /\ <<Status(actions[o][s]), to>> \in HumanTransitions
  /\ Take("human", s, HumanWrites(o, s, to, "user"))
  /\ Requested /\ UNCHANGED <<stored, jobs, start>>

\* undo_last_transition, which does not ask whether the action is retracted.
Undo(o, s) ==
  /\ HumanMay(o, s) /\ Last(actions[o][s].trans).by = "user"
  /\ LET a == actions[o][s] IN Take("human", s, HumanWrites(o, s, a.trans[Len(a.trans) - 1].to, "undo"))
  /\ Requested /\ UNCHANGED <<stored, jobs, start>>

\* list_changes repairs what a cut-off transition left out before it reads.
ListChanges(o) ==
  /\ Idle
  /\ Take("repair", None, ForEach(Sources, LAMBDA s : RepairWrites(o, s)))
  /\ UNCHANGED <<stored, jobs, start, counts>>

\* An overview version made from saved transcripts (OverviewStore).
SavedVersion(h) ==
  [cites |-> (IF h = <<>> THEN {} ELSE Last(h).cites) \cup {<<None, Len(h) + 1>>},
   from |-> IF h = <<>> THEN {} ELSE Last(h).from,
   by |-> <<None, 0>>, rt |-> "model", obs |-> "nothing"]

OtherVersion(o) ==
  /\ Idle /\ Room(o) /\ Inspect(o) \in {"not_created", "current"}
  /\ \A s \in Sources : jobs[s].o # o
  /\ Requested
  /\ history' = [history EXCEPT ![o] = Append(@, SavedVersion(@))]
  /\ UNCHANGED <<ledger, receipts, retired, actions, changes, pending, jobs, start, work, todo>>

-----------------------------------------------------------------------------
(* Starting a reconciliation: the source is read before an await, the rest  *)
(* after it. The start lock admits one start at a time.                     *)

BeginStart(s, kind, base) ==
  /\ start = NoStart /\ Known(s) /\ Associated(ledger[s])
  /\ LET n == Len(history[ledger[s].assoc])
     IN IF kind = "first" THEN base = 0 ELSE base \in {n, n - 1} \ {0}
  /\ Requested
  /\ start' = [s |-> s, kind |-> kind, snap |-> ledger[s], base |-> base]
  /\ UNCHANGED <<stored, jobs, work, todo>>

\* _promoted_version_for: the current version is the one that was promoted.
PromotedFor(s, p) ==
  /\ Len(history[p.o]) = p.base + 1
  /\ <<s, p.rev>> \in Last(history[p.o]).cites

\* _resume_plan: does the marker belong to what is started now?
Belongs(p, r) == p.o = r.assoc /\ p.rev = r.rev /\ (p.seq # 0 => p.seq = r.seq)

Resumable(st) ==
  LET p == pending[st.s]
      r == st.snap
  IN /\ p # NoPending /\ PromotedFor(st.s, p)
     /\ IF st.kind = "first" THEN p.base = 0 /\ Belongs(p, r) /\ p.seq = r.seq
        ELSE Belongs(p, r) /\ st.base \in {p.base, Len(history[p.o])}

\* Errors and the reuse of a running job, before anything is written.
Refused(st) ==
  LET s == st.s
      r == st.snap
      o == r.assoc
  IN \/ receipts[s] # "none"
     \/ jobs[s].phase # "none"
     \/ Inspect(o) \notin {"current", "not_created"}
     \/ st.kind = "first" /\ Inspect(o) = "current" /\ ~Resumable(st)
     \/ st.kind = "again" /\ Inspect(o) # "current"
     \/ (\E t \in Sources : jobs[t].o = o) /\ (st.kind = "again" \/ ~Resumable(st))
     \/ st.kind = "again" /\ pending[s] # NoPending /\ PromotedFor(s, pending[s])
         /\ Belongs(pending[s], r) /\ ~Resumable(st)

StartRefused ==
  /\ start # NoStart /\ Refused(start)
  /\ start' = NoStart
  /\ UNCHANGED <<stored, jobs, work, todo, counts>>

Launch(s, phase, o, rev, base, seq) ==
  jobs' = [jobs EXCEPT ![s] = [NoJob EXCEPT !.phase = phase, !.o = o, !.rev = rev, !.base = base, !.seq = seq]]

\* A promoted application is resumed; for a first overview the source is left
\* as it is.
StartResumes ==
  LET s == start.s
      p == pending[s]
      r == start.snap
      R == Retried(ledger[s])
      owned == r.status = "processing" \/ (r.status = "processed" /\ r.done = p.rev) \/ start.kind = "first"
  IN /\ start # NoStart /\ Idle /\ ~Refused(start) /\ Resumable(start)
     /\ IF owned THEN UNCHANGED ledger
        ELSE ledger' = [ledger EXCEPT ![s] = IF CanProcess(R) THEN Processing(R) ELSE R]
     /\ IF owned \/ CanProcess(R) THEN Launch(s, "resume", p.o, p.rev, p.base, p.seq) ELSE UNCHANGED jobs
     /\ start' = NoStart
     /\ UNCHANGED <<receipts, history, retired, actions, changes, pending, work, todo, counts>>

\* A run of its own: a marker that was never promoted is dropped, a source that
\* is in progress without a job is made retryable, and then marked. The status
\* that decides is the one that was read before the await: after _resume_plan
\* has marked the source failed, marking it again is an error, and only the
\* next start runs.
StartRuns ==
  LET s == start.s
      r == start.snap
      stale == start.kind = "again" /\ start.base # Len(history[r.assoc])
      done  == r.status = "processed" /\ r.done = r.rev
      again == start.kind = "again" /\ pending[s] # NoPending /\ Belongs(pending[s], r)
      lost  == r.status = "processing" /\ (again \/ ledger[s].status # "processing")
      R == Retried(IF r.status = "processing" THEN Failed(ledger[s]) ELSE ledger[s])
  IN /\ start # NoStart /\ Idle /\ ~Refused(start) /\ ~Resumable(start)
     /\ pending' = [pending EXCEPT ![s] = NoPending]
     /\ IF stale \/ done \/ lost
        THEN /\ ledger' = IF again /\ r.status = "processing" THEN [ledger EXCEPT ![s] = Failed(@)] ELSE ledger
             /\ UNCHANGED jobs
        ELSE /\ ledger' = [ledger EXCEPT ![s] = IF CanProcess(R) THEN Processing(R) ELSE R]
             /\ IF CanProcess(R)
                THEN Launch(s, "ready", r.assoc, r.rev, start.base, IF start.kind = "first" THEN r.seq ELSE 0)
                ELSE UNCHANGED jobs
     /\ start' = NoStart
     /\ UNCHANGED <<receipts, history, retired, actions, changes, work, todo, counts>>

-----------------------------------------------------------------------------
(* The job.                                                                 *)

UncheckedSource(j, r) == r.rev > 0

\* _check_source_unchanged.
SourceUnchanged(j, r) ==
  /\ r.rev = j.rev /\ Latest(r) = "content"
  /\ r.assoc = j.o /\ (j.seq # 0 => r.seq = j.seq)

BaseUnchanged(j) ==
  IF j.base = 0 THEN Inspect(j.o) = "not_created"
  ELSE Inspect(j.o) = "current" /\ Len(history[j.o]) = j.base

\* _fail; a forgotten source has no record left to mark.
FailJob(s) ==
  /\ ledger' = IF receipts[s] = "none" THEN [ledger EXCEPT ![s] = Failed(@)] ELSE ledger
  /\ jobs' = [jobs EXCEPT ![s] = NoJob]

\* _reconcile up to the call of the model.
Analyse(s) ==
  /\ jobs[s].phase = "ready" /\ Idle
  /\ IF /\ receipts[s] = "none"
        /\ SourceUnchanged(jobs[s], ledger[s]) /\ Readable(ledger[s], jobs[s].rev)
        /\ BaseUnchanged(jobs[s])
     THEN jobs' = [jobs EXCEPT ![s].phase = "model"] /\ UNCHANGED ledger
     ELSE FailJob(s)
  /\ UNCHANGED <<receipts, history, retired, actions, changes, pending, start, work, todo, counts>>

\* The model answers, or fails, or its answer is not valid.
Answer(s, obs) ==
  /\ jobs[s].phase = "model"
  /\ jobs' = [jobs EXCEPT ![s].phase = "commit", ![s].obs = obs]
  /\ UNCHANGED <<stored, start, work, todo, counts>>

ModelFails(s) ==
  /\ jobs[s].phase = "model" /\ Idle /\ Chance("faults", MaxFaults)
  /\ FailJob(s)
  /\ UNCHANGED <<receipts, history, retired, actions, changes, pending, start, work, todo>>

\* promote_create and promote_update, which do not look at the read barrier.
CanPromote(j) == retired[j.o] = None /\ Len(history[j.o]) = j.base

NewVersion(s, j) ==
  LET base == IF j.base = 0 THEN [cites |-> {}, from |-> {}] ELSE Last(history[j.o])
  IN [cites |-> base.cites \cup {<<s, j.rev>>}, by |-> <<s, j.rev>>, rt |-> "model",
      from |-> base.from \cup {s}, obs |-> j.obs]

\* The commit barrier of _reconcile: the source is checked again under the lock.
Commit(s) ==
  LET j == jobs[s] IN
  /\ j.phase = "commit" /\ Idle /\ Room(j.o)
  /\ IF receipts[s] = "none" /\ SourceUnchanged(j, ledger[s]) /\ CanPromote(j)
     THEN /\ Take("commit", s, WritePending(s, [o |-> j.o, rev |-> j.rev, base |-> j.base, seq |-> j.seq])
                              \o WriteVersion(j.o, NewVersion(s, j))
                              \o CompleteWrites(j.o, s, j.rev, j.base + 1, j.obs))
          /\ UNCHANGED <<ledger, jobs>>
     ELSE FailJob(s) /\ UNCHANGED <<work, todo>>
  /\ UNCHANGED <<receipts, history, retired, actions, changes, pending, start, counts>>

\* _resume: what a run promoted is applied without asking the model again. An
\* error here does not mark the source failed.
Resume(s) ==
  LET p == pending[s]
      j == jobs[s]
  IN /\ j.phase = "resume" /\ Idle
     /\ IF /\ receipts[s] = "none" /\ SourceUnchanged(j, ledger[s])
           /\ Inspect(j.o) = "current" /\ PromotedFor(s, [NoPending EXCEPT !.o = j.o, !.rev = j.rev, !.base = j.base])
        THEN /\ Take("commit", s, CompleteWrites(j.o, s, j.rev, j.base + 1, Last(history[j.o]).obs))
             /\ UNCHANGED <<pending, jobs>>
        ELSE /\ pending' = IF receipts[s] = "none" /\ SourceUnchanged(j, ledger[s]) /\ Inspect(j.o) = "current"
                           THEN [pending EXCEPT ![s] = NoPending] ELSE pending
             /\ jobs' = [jobs EXCEPT ![s] = NoJob]
             /\ UNCHANGED <<work, todo>>
     /\ UNCHANGED <<ledger, receipts, history, retired, actions, changes, start, counts>>

-----------------------------------------------------------------------------
(* The writes.                                                              *)

Put(w) ==
  /\ ledger'   = IF w.w = "source"  THEN [ledger EXCEPT ![w.s] = w.val] ELSE ledger
  /\ receipts' = IF w.w = "receipt" THEN [receipts EXCEPT ![w.s] = w.val] ELSE receipts
  /\ history'  = IF w.w = "version" THEN [history EXCEPT ![w.o] = Append(@, w.val)] ELSE history
  /\ retired'  = IF w.w = "retired" THEN [retired EXCEPT ![w.o] = w.val] ELSE retired
  /\ actions'  = IF w.w = "action"  THEN [actions EXCEPT ![w.o][w.s] = w.val] ELSE actions
  /\ changes'  = IF w.w = "change"  THEN [changes EXCEPT ![w.o] = Append(@, w.val)] ELSE changes
  /\ pending'  = IF w.w = "pending" THEN [pending EXCEPT ![w.s] = w.val] ELSE pending

\* The lock is released, and a job that held it is over.
Release ==
  /\ work' = NoWork /\ todo' = <<>>
  /\ jobs' = IF work.kind = "commit" THEN [jobs EXCEPT ![work.s] = NoJob] ELSE jobs

Write ==
  /\ todo # <<>>
  /\ Put(Head(todo))
  /\ IF Len(todo) = 1 THEN Release ELSE todo' = Tail(todo) /\ UNCHANGED <<work, jobs>>
  /\ UNCHANGED <<start, counts>>

Cut ==
  /\ counts.faults < MaxFaults
  /\ counts' = [counts EXCEPT !.faults = @ + 1, !.torn = @ \/ work.kind = "correct"]

\* A write fails: a promotion that fails takes the marker back.
WriteFails ==
  /\ todo # <<>> /\ Cut
  /\ pending' = IF work.kind = "commit" /\ Head(todo).w = "version"
                THEN [pending EXCEPT ![work.s] = NoPending] ELSE pending
  /\ Release
  /\ UNCHANGED <<ledger, receipts, history, retired, actions, changes, start>>

\* The process dies and is started again: the files are what is left.
Crash ==
  /\ Cut
  /\ jobs' = [s \in Sources |-> NoJob]
  /\ start' = NoStart /\ work' = NoWork /\ todo' = <<>>
  /\ UNCHANGED stored

-----------------------------------------------------------------------------
\* Every source was imported and belongs to one opportunity, whose overview
\* may have a version already.
Init ==
  /\ ledger = [s \in Sources |-> Decided(FirstRevision("content"), Home)]
  /\ receipts = [s \in Sources |-> "none"]
  /\ \E h \in {<<>>, <<SavedVersion(<<>>)>>} : history = [o \in Opps |-> IF o = Home THEN h ELSE <<>>]
  /\ retired = [o \in Opps |-> None]
  /\ actions = [o \in Opps |-> [s \in Sources |-> NoAction]]
  /\ changes = [o \in Opps |-> <<>>]
  /\ pending = [s \in Sources |-> NoPending]
  /\ jobs = [s \in Sources |-> NoJob]
  /\ start = NoStart /\ work = NoWork /\ todo = <<>>
  /\ counts = [requests |-> 0, faults |-> 0, torn |-> FALSE]

User(s) ==
  \/ \E a \in Imports : Import(s, a)
  \/ Propose(s) \/ Retry(s)
  \/ \E to \in Opps \cup {Unassociated} : Correct(s, to)
  \/ Forget(s)
  \/ \E o \in Opps : Undo(o, s) \/ \E to \in Targets : Transition(o, s, to)
  \/ \E b \in 0 .. MaxVersions : BeginStart(s, "first", b) \/ BeginStart(s, "again", b)

Job(s) == Analyse(s) \/ (\E obs \in Observations : Answer(s, obs)) \/ ModelFails(s) \/ Commit(s) \/ Resume(s)

Next ==
  \/ \E s \in Sources : User(s) \/ Job(s)
  \/ StartRefused \/ StartResumes \/ StartRuns
  \/ \E o \in Opps : ListChanges(o) \/ OtherVersion(o)
  \/ Write \/ WriteFails \/ Crash

Spec == Init /\ [][Next]_vars
-----------------------------------------------------------------------------
(* Properties.                                                              *)

\* A version that the model made from a source is promoted only on the version
\* it was made from and only while the source belongs to the opportunity, has
\* this revision as its latest, can be read and is not forgotten, whatever
\* happened during the analysis (the commit barrier of _reconcile).
PromotedIsAuthorized ==
  [][\A o \in Opps :
       (Len(history'[o]) > Len(history[o]) /\ Last(history'[o]).by[1] \in Sources /\ Last(history'[o]).rt = "model") =>
         LET v == Last(history'[o])
             s == v.by[1]
         IN /\ receipts[s] = "none" /\ ledger[s].assoc = o /\ ledger[s].rev = v.by[2]
            /\ Latest(ledger[s]) = "content"
            /\ jobs[s].base = Len(history[o])]_vars

\* A processed source is applied: its opportunity's overview cites the processed
\* revision, and what the model said of it is in the actions, over cut-off
\* applications, resumptions, corrections of this and of other sources. (Unless a
\* correction was cut off between its version and the sources it dropped, and for
\* one fault at most: when an application is cut off before its actions and a later
\* run of the same source between marker and version, _promoted_version_for takes
\* the next version for the promoted one.)
ProcessedIsApplied ==
  \A s \in Sources :
    LET r == ledger[s]
        o == r.assoc
    IN (Idle /\ ~counts.torn /\ counts.faults <= 1 /\ Known(s) /\ r.status = "processed") =>
         /\ Associated(r) /\ history[o] # <<>>
         /\ <<s, r.done>> \in Last(history[o]).cites \/ Inspect(o) \in {"retired", "withheld"}
         /\ \E v \in ToSet(history[o]) :
              /\ v.by = <<s, r.done>>
              /\ v.obs \in {"open", "proposed"} => Exists(actions[o][s]) /\ r.done \in actions[o][s].evidence

\* Of a user's transitions only the last can lack its change, and none has two:
\* every writer repairs before it writes, and what a reader lists is complete.
TransitionsAreRecorded ==
  \A o \in Opps, s \in Sources :
    LET a == actions[o][s]
        Of(n) == {i \in 1 .. Len(changes[o]) : changes[o][i].type = "action_transition"
                                             /\ changes[o][i].subject = s /\ changes[o][i].n = n}
    IN \A n \in 1 .. Len(a.trans) :
         /\ Cardinality(Of(n)) <= 1
         /\ (a.trans[n].by # "analysis" /\ n < Len(a.trans)) => Of(n) # {}

\* No view of an opportunity treats a source as authorized that does not belong
\* to it: neither the current overview nor a live action nor a live hint. (A
\* correction that was cut off after the ledger was written is not taken up again.)
EffectiveIsAuthorized ==
  Idle /\ ~counts.torn => \A o \in Opps, s \in Sources \ Forgotten :
    ledger[s].assoc # o =>
      /\ Inspect(o) = "current" => ~CitesOf(Last(history[o]), s)
      /\ Exists(actions[o][s]) /\ ~ActionRetired(o, s) => actions[o][s].retracted
      /\ \A t \in Sources : \A h \in actions[o][t].hints : h.src = s => ~h.live

\* No version that a reader can see was derived from a forgotten mail, not even
\* by a later run of the model that saw it in its base.
VisibleIsClean ==
  \A o \in Opps : \A i \in Visible(o) : history[o][i].from \cap Forgotten = {}

\* A source that belongs to an opportunity and can be read is never stuck: it is
\* queued, processed, in the hands of a job or of a start that would take it
\* over, or it failed and may be retried.
NoDeadEnd ==
  \A s \in Sources :
    LET r == ledger[s] IN
    (Known(s) /\ Associated(r) /\ Latest(r) = "content") =>
      \/ r.status \in {"queued", "processing"}
      \/ r.status = "processed" /\ r.done = r.rev
      \/ r.status = "failed" /\ r.retry

\* What an operation of several writes leaves is complete, over cut-off operations
\* and their repair: the applied sources and the recorded transitions.
OperationsAreWhole == ProcessedIsApplied /\ TransitionsAreRecorded

\* Nothing that a reader sees comes from a source that it should not come from.
ViewsAreAuthorized == EffectiveIsAuthorized /\ VisibleIsClean

=============================================================================
