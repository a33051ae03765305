--------------------------- MODULE EvidenceLedger ---------------------------
(***************************************************************************)
(* The evidence ledger of the command center                               *)
(* (services/evidence_ledger_service.py, command_center_evidence.py): what *)
(* each of its operations does to the record of one source. A source is a  *)
(* meeting note or a mail; every import of changed content is a revision.  *)
(* Each operation runs under the ledger's lock, in this and in every other *)
(* process, and writes one file; the module CommandCenter says when.       *)
(*                                                                         *)
(* The text of a revision is data: what is kept of it is whether it can be *)
(* read ("content"), has no text ("none"), or must not be shown any more,  *)
(* with every revision before it ("withheld").                             *)
(***************************************************************************)
EXTENDS Naturals, Sequences

CONSTANT Opps     \* the opportunities a source can belong to

Availability == {"content", "none", "withheld"}

Unassociated == "unassociated"
Proposed     == "proposed"

\* EvidenceSource. done is the processed revision, 0 for none; prior is the
\* association before the current one; seq counts the decisions.
NoSource ==
  [rev |-> 0, avail |-> <<>>, assoc |-> Unassociated, prior |-> Unassociated, seq |-> 0,
   status |-> "absent", done |-> 0, retry |-> FALSE]

Latest(r)     == r.avail[r.rev]
Associated(r) == r.assoc \in Opps

\* The statuses that say what a source waits for.
Waiting == {"discovered", "awaiting_association", "awaiting_content", "queued"}

\* _derive_processing.
Derive(r) ==
  IF r.status \notin Waiting THEN r
  ELSE [r EXCEPT !.status = IF r.done = r.rev THEN "processed"
                            ELSE IF ~Associated(r) THEN "awaiting_association"
                            ELSE IF Latest(r) # "content" THEN "awaiting_content"
                            ELSE "queued"]

FirstRevision(a) ==
  Derive([NoSource EXCEPT !.rev = 1, !.avail = <<a>>, !.seq = 1, !.status = "discovered"])

\* _record_meeting, for content that differs from the latest revision: a source
\* that is being processed stays so, every other one starts again.
Imported(r, a) ==
  IF r.rev = 0 THEN FirstRevision(a)
  ELSE Derive([r EXCEPT !.rev    = @ + 1,
                        !.avail  = Append(@, a),
                        !.status = IF @ = "processing" THEN @ ELSE "discovered",
                        !.retry  = r.status = "processing" /\ @])

\* _append_decision.
Decided(r, a) == Derive([r EXCEPT !.prior = r.assoc, !.assoc = a, !.seq = @ + 1])

\* What a corrected association invalidates.
Reset(r) == [r EXCEPT !.status = "discovered", !.done = 0, !.retry = FALSE]

\* propose_association: candidates for review, never an association.
ProposedFor(r) == Decided(r, Proposed)

\* confirm_association.
Confirmed(r, o) ==
  IF r.assoc = o THEN r
  ELSE IF Associated(r) THEN Derive(Reset(Decided(r, o)))
  ELSE Decided(r, o)

\* clear_association.
Cleared(r) == IF r.assoc = Unassociated THEN r ELSE Derive(Reset(Decided(r, Unassociated)))

\* mark_processing: only a queued source, or a failed one that may be retried.
CanProcess(r) == r.status = "queued" \/ (r.status = "failed" /\ r.retry)
Processing(r) == [r EXCEPT !.status = "processing"]

\* mark_processed: a newer revision supersedes the one that was processed.
MarkedProcessed(r, v) ==
  IF v = r.rev THEN [r EXCEPT !.status = "processed", !.done = v, !.retry = FALSE]
  ELSE Derive([r EXCEPT !.status = "discovered", !.retry = FALSE])

FailedForGood(r) == IF r.status = "processing" THEN [r EXCEPT !.status = "failed"] ELSE r

\* mark_failed, whose callers ignore the error of a source not in progress.
Failed(r) == IF r.status = "processing" THEN [r EXCEPT !.status = "failed", !.retry = TRUE] ELSE r

\* retry.
Retried(r) ==
  IF r.status = "failed" /\ r.retry THEN Derive([r EXCEPT !.status = "discovered", !.retry = FALSE])
  ELSE r

\* request_reprocessing; refused for a source in progress, which _revert_overview
\* passes over.
Reprocessable(r) == IF r.rev = 0 \/ r.status = "processing" THEN r ELSE Derive(Reset(r))

\* read_content: nothing once the latest revision is withheld.
Readable(r, v) ==
  /\ v \in 1 .. r.rev
  /\ Latest(r) # "withheld"
  /\ r.avail[v] = "content"
=============================================================================
