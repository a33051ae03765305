------------------------- MODULE CommandCenterViews -------------------------
(***************************************************************************)
(* What the command center shows: services/command_center_read_service.py, *)
(* the aggregate reads over the records that CommandCenter writes. A page  *)
(* is computed from the files as they are; it contacts nobody. Due dates,  *)
(* risks, blockers, paging and order are left out.                         *)
(***************************************************************************)
EXTENDS CommandCenter

\* _sources: a forgotten source has no record.
Listed == {s \in Sources : Known(s)}

Mine(o) == {s \in Listed : ledger[s].assoc = o}

\* _source_freshness, its classes.
ProcessedOf(o) == {s \in Mine(o) : ledger[s].status = "processed"}
PendingOf(o)   == {s \in Mine(o) : ledger[s].status \in Waiting \cup {"processing"}}
FailedOf(o)    == {s \in Mine(o) : ledger[s].status = "failed"}
WithheldOf(o)  == {s \in Mine(o) : Latest(ledger[s]) = "withheld"}
StaleOf(o)     == {s \in ProcessedOf(o) : ledger[s].done # 0 /\ ledger[s].done < ledger[s].rev}
MissingOf(o)   == {s \in ProcessedOf(o) : Inspect(o) = "current" /\ ~CitesOf(Last(history[o]), s)}

FreshnessOfFailed(o) ==
  IF Mine(o) = {} THEN "no_sources"
  ELSE IF FailedOf(o) # {} THEN "failed"
  ELSE IF PendingOf(o) \cup StaleOf(o) # {} THEN "source_pending"
  ELSE "processed_latest_import"

\* _source_freshness.
Freshness(o) ==
  IF Mine(o) = {} THEN "no_sources"
  ELSE IF WithheldOf(o) # {} THEN "unavailable"
  ELSE IF FailedOf(o) # {} THEN "failed"
  ELSE IF PendingOf(o) \cup StaleOf(o) # {} THEN "source_pending"
  ELSE IF MissingOf(o) # {} THEN "overview_behind"
  ELSE "processed_latest_import"

\* _actions, and those of a row that wait for a review.
ShownActions(o) ==
  {s \in Sources : Exists(actions[o][s]) /\ receipts[s] = "none" /\ ~ActionRetired(o, s)}
ToReview(o) == {s \in ShownActions(o) : ~actions[o][s].retracted /\ Status(actions[o][s]) = "proposed"}

\* _portfolio_row, attention.
RowAttention(o) ==
  (IF ToReview(o) # {} THEN {"proposals"} ELSE {})
    \cup ({Freshness(o)} \cap {"unavailable", "failed", "source_pending", "overview_behind"})

\* today: at most one item of a source, the first that applies.
TodayItem(s) ==
  LET r == ledger[s] IN
  IF r.status \in {"discovered", "awaiting_association"} THEN "association_review"
  ELSE IF Latest(r) = "withheld" THEN "source_failure"
  ELSE IF r.status = "failed" THEN "reconciliation_failure"
  ELSE IF r.status = "awaiting_content" THEN "source_failure"
  ELSE IF Associated(r) /\ (r.status = "queued" \/ (r.done # 0 /\ r.done < r.rev /\ r.status # "processing"))
  THEN "source_pending"
  ELSE "none"

StartableQueued(s) == ledger[s].status = "queued"

\* source_review: can_start_processing, and the capabilities.
Startable(s) ==
  \/ ledger[s].status \in {"queued", "failed"}
  \/ jobs[s].phase = "none" /\ (ledger[s].status = "processing" \/ pending[s] # NoPending)
Offered(s, overview) ==
  /\ Associated(ledger[s]) /\ Inspect(ledger[s].assoc) = overview
  /\ Startable(s) /\ Latest(ledger[s]) = "content"
CanReconcile(s)   == Offered(s, "current")
CanCreateFirst(s) == Offered(s, "not_created")

-----------------------------------------------------------------------------
(* Properties.                                                              *)

\* The last revision of a source is in the overview of its opportunity.
Reflected(s) ==
  LET r == ledger[s] IN
  /\ Associated(r) /\ r.status = "processed" /\ r.done = r.rev
  /\ Inspect(r.assoc) = "current" => <<s, r.rev>> \in Last(history[r.assoc]).cites

\* "Current through the latest user-initiated import": no imported source of the
\* opportunity is missing from a visible overview, in its latest revision.
FreshIsFresh ==
  Idle /\ ~counts.torn =>
    \A o \in Opps : Freshness(o) = "processed_latest_import" /\ Inspect(o) = "current" =>
      \A s \in Mine(o) : Reflected(s) /\ Latest(ledger[s]) = "content"

\* A source that is not in the overview and that no job works on is somewhere to be
\* seen: in Today, or in the row of its opportunity. (Unless a correction was cut off
\* between its version and the sources that it dropped: a source whose older revision
\* is still cited then counts as processed, and nothing tells that it is not.)
NothingFallsThrough ==
  Idle /\ ~counts.torn => \A s \in Listed : ~Reflected(s) /\ jobs[s].phase = "none" =>
    \/ TodayItem(s) # "none"
    \/ Associated(ledger[s]) /\ RowAttention(ledger[s].assoc) # {}

\* As long as a source can be read and is not done, its page offers to go on, whatever
\* crash or correction came between.
OfferedUntilDone ==
  \A s \in Listed :
    LET r == ledger[s] IN
    /\ Idle /\ Associated(r) /\ Latest(r) = "content" /\ jobs[s].phase = "none"
    /\ Inspect(r.assoc) \in {"current", "not_created"}
    /\ r.status # "processed" \/ pending[s] # NoPending
    => CanReconcile(s) \/ CanCreateFirst(s)

\* What the page offers is not refused, unless a job is at work on the opportunity.
OfferedIsAccepted ==
  \A s \in Listed :
    LET r == ledger[s]
        Asked(kind, base) == [s |-> s, kind |-> kind, snap |-> r, base |-> base]
    IN Idle /\ jobs[s].phase = "none" /\ (\A t \in Sources : jobs[t].o # r.assoc) =>
         /\ CanReconcile(s) => ~Refused(Asked("again", Len(history[r.assoc])))
         /\ CanCreateFirst(s) => ~Refused(Asked("first", 0))

\* The pages tell what there is to do, and what they offer can be done.
ScreensAreTrue ==
  NoDeadEnd /\ FreshIsFresh /\ NothingFallsThrough /\ OfferedUntilDone /\ OfferedIsAccepted
=============================================================================
