------------------------------- MODULE Reviews -------------------------------
(***************************************************************************)
(* Human review of one generated output: comments, approvals and           *)
(* corrections (webapp/hosted/reviews.py and migration 009), and the       *)
(* worker's cleanup of correction uploads that never became a version.     *)
(*                                                                         *)
(* A correction is reserve -> upload -> commit, over a database and a      *)
(* Storage that share no transaction; when anything fails the object is    *)
(* deleted and the reservation abandoned.  A submission is one HTTP        *)
(* request; a member's retry is another one with the same request id.      *)
(* Every database function locks the output or the reservation and is one  *)
(* action, and so is every Storage call.                                   *)
(***************************************************************************)
EXTENDS Naturals, FiniteSets

CONSTANTS
    Ids,           \* request ids; a version has the id of the request it came from
    V0,            \* version id NULL: the generated output itself
    None,
    Submissions,   \* POST .../corrections requests
    RequestOf,     \* the request id of a submission
    Workers,
    MaxTries,      \* CORRECTION_CLEANUP_MAX_ATTEMPTS
    MaxFaults,     \* bound: database or Storage calls that fail or lose the answer
    Overlapping,   \* whether a retry may be sent while the first request runs
    LostCommits,   \* whether the commit of a version may lose its answer
    Slow           \* whether a request outlasts the grace period, a cleanup its lease

ASSUME ReviewAssumption ==
    /\ RequestOf \in [Submissions -> Ids]
    /\ V0 \notin Ids /\ None \notin Ids \cup {V0} \cup Workers
    /\ MaxTries \in Nat /\ MaxFaults \in Nat
    /\ {Overlapping, LostCommits, Slow} \subseteq BOOLEAN

VARIABLES
    seen,      \* the base version a member started to correct, per request id
    res,       \* public.output_correction_uploads, per request id
    previous,  \* public.output_versions: previous_version_id, None if no row
    review,    \* public.reviews, per request id
    audit,     \* audit_events per request id
    object,    \* whether Storage holds the object of the reserved version
    sub,       \* the submissions
    cleaner,   \* the correction cleanup of each worker process
    faults

vars == <<seen, res, previous, review, audit, object, sub, cleaner, faults>>

tables == <<res, previous, review, audit>>

Reservation ==
    [state: {"none", "pending", "committed", "aborted", "orphaned"},
     base: Ids \cup {V0, None}, tries: Nat, claimedBy: Workers \cup {None},
     claimLive: BOOLEAN, stale: BOOLEAN]

NoReservation ==
    [state |-> "none", base |-> None, tries |-> 0, claimedBy |-> None,
     claimLive |-> FALSE, stale |-> FALSE]

NoReview == [action |-> "none", target |-> None]

TypeOK ==
    /\ seen \in [Ids -> Ids \cup {V0, None}]
    /\ res \in [Ids -> Reservation]
    /\ previous \in [Ids -> Ids \cup {V0, None}]
    /\ review \in [Ids -> [action: {"none", "comment", "approve", "correct"},
                           target: Ids \cup {V0, None}]]
    /\ audit \in [Ids -> Nat]
    /\ object \in [Ids -> BOOLEAN]
    /\ sub \in [Submissions -> [pc: {"new", "upload", "commit", "discard", "abandon", "over"},
                                replay: BOOLEAN, deleted: BOOLEAN]]
    /\ cleaner \in [Workers -> [pc: {"idle", "delete", "finalize"}, id: Ids \cup {None}]]
    /\ faults \in 0..MaxFaults

Init ==
    /\ seen = [r \in Ids |-> None]
    /\ res = [r \in Ids |-> NoReservation]
    /\ previous = [r \in Ids |-> None]
    /\ review = [r \in Ids |-> NoReview]
    /\ audit = [r \in Ids |-> 0]
    /\ object = [r \in Ids |-> FALSE]
    /\ sub = [s \in Submissions |-> [pc |-> "new", replay |-> FALSE, deleted |-> FALSE]]
    /\ cleaner = [w \in Workers |-> [pc |-> "idle", id |-> None]]
    /\ faults = 0

NoFault == UNCHANGED faults

Fault == faults < MaxFaults /\ faults' = faults + 1

-----------------------------------------------------------------------------
(***************************************************************************)
(* The version chain.                                                      *)
(***************************************************************************)

Versions == {r \in Ids : previous[r] # None}

Children(v) == {c \in Versions : previous[c] = v}

\* current_output_version = v: the generated output while there is no version,
\* the one leaf afterwards; two roots or two leaves raise.
IsCurrent(v) ==
    /\ Cardinality(Children(V0)) <= 1
    /\ IF Versions = {} THEN v = V0
       ELSE {u \in Versions : Children(u) = {}} = {v}

\* assert_version_of_output
IsVersion(v) == v = V0 \/ v \in Versions

\* _ordered_chain: from V0, child by child; a second child, or a version that is
\* not reached, raises.
OrderedChain(q) ==
    /\ \A i \in DOMAIN q : Children(IF i = 1 THEN V0 ELSE q[i - 1]) = {q[i]}
    /\ Versions = {q[i] : i \in DOMAIN q}

-----------------------------------------------------------------------------
(***************************************************************************)
(* Comments and approvals.                                                 *)
(***************************************************************************)

\* Mutant: the request id is not looked up, and a retry is recorded again.
RecordAgain(r, action, v) ==
    /\ review' = [review EXCEPT ![r] = [action |-> action, target |-> v]]
    /\ audit' = [audit EXCEPT ![r] = @ + 1]
    /\ UNCHANGED <<seen, res, previous, object, sub, cleaner, faults>>

\* The review row and its audit event, in one transaction.  A request id that has
\* a row is a replay, or raises SE003: neither writes.
Record(r, action, v) ==
    /\ review[r] = NoReview
    /\ review' = [review EXCEPT ![r] = [action |-> action, target |-> v]]
    /\ audit' = [audit EXCEPT ![r] = @ + 1]
    /\ UNCHANGED <<seen, res, previous, object, sub, cleaner, faults>>

AddOutputComment(r, v) == IsVersion(v) /\ Record(r, "comment", v)

ApproveOutputVersion(r, v) == IsVersion(v) /\ IsCurrent(v) /\ Record(r, "approve", v)

-----------------------------------------------------------------------------
(***************************************************************************)
(* submit_output_correction.                                               *)
(***************************************************************************)

Goto(s, pc) == sub' = [sub EXCEPT ![s].pc = pc]

Running(s) == sub[s].pc \notin {"new", "over"}

\* A member opens the current version in the editor: base_version_id of the
\* payload, whatever happens to the output until it is submitted.
OpenEditor(r) ==
    /\ seen[r] = None
    /\ \E v \in Ids \cup {V0} : IsCurrent(v) /\ seen' = [seen EXCEPT ![r] = v]
    /\ UNCHANGED <<tables, object, sub, cleaner, faults>>

\* reserve_output_correction: a pending or committed reservation of the same
\* request is handed out again, a closed one refuses; a fresh one needs the base
\* to be current.
ReserveOutputCorrection(s) ==
    LET r == RequestOf[s]
        fresh == [res EXCEPT ![r] = [NoReservation EXCEPT !.state = "pending",
                                                          !.base = seen[r]]]
        again == res[r].state \in {"pending", "committed"}
        granted == again \/ (res[r].state = "none" /\ IsCurrent(seen[r]))
    IN
    /\ sub[s].pc = "new" /\ seen[r] # None
    /\ Overlapping \/ \A o \in Submissions : RequestOf[o] = r => ~ Running(o)
    /\ \/ /\ granted /\ NoFault
          /\ res' = IF again THEN res ELSE fresh
          /\ sub' = [sub EXCEPT ![s].pc = IF res[r].state = "committed"
                                          THEN "commit" ELSE "upload",
                                ![s].replay = res[r].state = "committed"]
       \/ ~ granted /\ NoFault /\ Goto(s, "over") /\ UNCHANGED res
       \/ granted /\ Fault /\ Goto(s, "over") /\ (res' = IF again THEN res ELSE fresh)
    /\ UNCHANGED <<seen, previous, review, audit, object, cleaner>>

\* Storage upload without upsert: an object that is there already is an error,
\* and so is a lost answer; either way the object is discarded.
UploadCorrection(s) ==
    LET r == RequestOf[s] IN
    /\ sub[s].pc = "upload"
    /\ \/ /\ ~ object[r] /\ NoFault
          /\ object' = [object EXCEPT ![r] = TRUE] /\ Goto(s, "commit")
       \/ object[r] /\ NoFault /\ UNCHANGED object /\ Goto(s, "discard")
       \/ /\ ~ object[r] /\ Fault
          /\ object' \in {object, [object EXCEPT ![r] = TRUE]} /\ Goto(s, "discard")
    /\ UNCHANGED <<seen, tables, cleaner>>

\* Mutant: the reservation's word is enough, the base is not looked at again.
CommittablePending(r) == res[r].state = "pending" /\ review[r] = NoReview

\* Mutant: a reservation the cleanup has taken over can still be committed.
CommittableOrphaned(r) ==
    /\ res[r].state \in {"pending", "orphaned"}
    /\ IsCurrent(res[r].base)
    /\ review[r] = NoReview

\* commit_output_correction inserts when the reservation is pending and its base
\* is still current; the review row must not meet its unique request_id.
Committable(r) ==
    /\ res[r].state = "pending"
    /\ IsCurrent(res[r].base)
    /\ review[r] = NoReview

\* Mutant: the review row gets the name of the audit action.
CommittedAsCorrection(r) ==
    /\ previous' = [previous EXCEPT ![r] = res[r].base]
    /\ review' = [review EXCEPT ![r] = [action |-> "output_correction", target |-> r]]
    /\ audit' = [audit EXCEPT ![r] = @ + 1]
    /\ res' = [res EXCEPT ![r].state = "committed"]

\* The version, its review row, its audit event and the reservation together.
Committed(r) ==
    /\ previous' = [previous EXCEPT ![r] = res[r].base]
    /\ review' = [review EXCEPT ![r] = [action |-> "correct", target |-> r]]
    /\ audit' = [audit EXCEPT ![r] = @ + 1]
    /\ res' = [res EXCEPT ![r].state = "committed"]

\* commit_output_correction.  A committed reservation answers as a replay.  When
\* the call raises, the object is discarded, unless this was a replay.
CommitOutputCorrection(s) ==
    LET r == RequestOf[s]
        undo == IF sub[s].replay
                THEN sub' = [sub EXCEPT ![s].pc = "abandon", ![s].deleted = TRUE]
                ELSE Goto(s, "discard")
    IN
    /\ sub[s].pc = "commit"
    /\ \/ Committable(r) /\ Committed(r) /\ Goto(s, "over") /\ NoFault
       \/ res[r].state = "committed" /\ UNCHANGED tables /\ Goto(s, "over") /\ NoFault
       \/ /\ res[r].state # "committed" /\ ~ Committable(r)
          /\ UNCHANGED tables /\ undo /\ NoFault
       \/ UNCHANGED tables /\ undo /\ Fault
       \/ LostCommits /\ Committable(r) /\ Committed(r) /\ undo /\ Fault
    /\ UNCHANGED <<seen, object, cleaner>>

\* _discard_uncommitted_object, the delete: confirmed, or its outcome unknown.
DiscardObject(s) ==
    LET r == RequestOf[s]
        gone == [object EXCEPT ![r] = FALSE]
    IN
    /\ sub[s].pc = "discard"
    /\ \/ /\ object' = gone /\ NoFault
          /\ sub' = [sub EXCEPT ![s].pc = "abandon", ![s].deleted = TRUE]
       \/ /\ object' \in {object, gone} /\ Fault
          /\ sub' = [sub EXCEPT ![s].pc = "abandon", ![s].deleted = FALSE]
    /\ UNCHANGED <<seen, tables, cleaner>>

\* Mutant: the reservation is closed whatever its state.
AbandonableAny(r) == TRUE

\* abandon_output_correction raises on a committed reservation only.
Abandonable(r) == res[r].state # "committed"

\* Mutant: a delete with an unknown outcome closes the reservation.
AbandonedAsDeleted(r, deleted) ==
    [res EXCEPT ![r].state = "aborted", ![r].stale = FALSE]

\* 'orphaned' leaves evidence for the cleanup, and counts as one attempt of it.
Abandoned(r, deleted) ==
    [res EXCEPT ![r].state = IF deleted THEN "aborted" ELSE "orphaned",
                ![r].tries = IF deleted THEN @ ELSE @ + 1,
                ![r].stale = FALSE]

\* _abandon_reservation: any failure is logged and swallowed.
AbandonOutputCorrection(s) ==
    LET r == RequestOf[s] IN
    /\ sub[s].pc = "abandon"
    /\ \/ /\ Abandonable(r)
          /\ res' = Abandoned(r, sub[s].deleted)
          /\ NoFault \/ Fault
       \/ ~ Abandonable(r) /\ UNCHANGED res /\ NoFault
       \/ UNCHANGED res /\ Fault
    /\ Goto(s, "over")
    /\ UNCHANGED <<seen, previous, review, audit, object, cleaner>>

\* The API process dies, or the client disconnects, between two calls.
SubmissionDies(s) ==
    /\ Running(s)
    /\ Goto(s, "over")
    /\ UNCHANGED <<seen, tables, object, cleaner, faults>>

Submit(s) ==
    \/ ReserveOutputCorrection(s) \/ UploadCorrection(s) \/ CommitOutputCorrection(s)
    \/ DiscardObject(s) \/ AbandonOutputCorrection(s)

-----------------------------------------------------------------------------
(***************************************************************************)
(* cleanup_next_correction_upload, by a worker.                            *)
(***************************************************************************)

\* Mutant: what a dead request left pending is not cleaned up.
OrphanedOnly(r) ==
    /\ res[r].state = "orphaned"
    /\ res[r].tries < MaxTries
    /\ res[r].claimedBy = None \/ ~ res[r].claimLive

\* The WHERE of claim_orphaned_correction_upload.
Orphaned(r) ==
    /\ res[r].state = "orphaned" \/ (res[r].state = "pending" /\ res[r].stale)
    /\ res[r].tries < MaxTries
    /\ res[r].claimedBy = None \/ ~ res[r].claimLive

ClaimOrphanedCorrectionUpload(w, r) ==
    /\ cleaner[w].pc = "idle"
    /\ Orphaned(r)
    /\ res' = [res EXCEPT ![r].state = "orphaned", ![r].tries = @ + 1,
                          ![r].claimedBy = w, ![r].claimLive = TRUE, ![r].stale = FALSE]
    /\ \/ cleaner' = [cleaner EXCEPT ![w] = [pc |-> "delete", id |-> r]] /\ NoFault
       \/ UNCHANGED cleaner /\ Fault
    /\ UNCHANGED <<seen, previous, review, audit, object, sub>>

CleanerIdle(w) == cleaner' = [cleaner EXCEPT ![w] = [pc |-> "idle", id |-> None]]

\* delete_for_maintenance.  After an error the claim is left to expire.
DeleteOrphanedObject(w) ==
    LET gone == [object EXCEPT ![cleaner[w].id] = FALSE] IN
    /\ cleaner[w].pc = "delete"
    /\ \/ object' = gone /\ cleaner' = [cleaner EXCEPT ![w].pc = "finalize"] /\ NoFault
       \/ object' \in {object, gone} /\ CleanerIdle(w) /\ Fault
    /\ UNCHANGED <<seen, tables, sub>>

\* finalize_correction_cleanup: orphaned and still claimed by this worker.
FinalizeCorrectionCleanup(w) ==
    LET r == cleaner[w].id
        mine == res[r].state = "orphaned" /\ res[r].claimedBy = w
    IN
    /\ cleaner[w].pc = "finalize"
    /\ \/ mine /\ res' = [res EXCEPT ![r].state = "aborted"] /\ (NoFault \/ Fault)
       \/ ~ mine /\ UNCHANGED res /\ NoFault
       \/ UNCHANGED res /\ Fault
    /\ CleanerIdle(w)
    /\ UNCHANGED <<seen, previous, review, audit, object, sub>>

\* The worker dies with a claim in hand and is started again.
CleanerDies(w) ==
    /\ cleaner[w].pc # "idle"
    /\ Fault /\ CleanerIdle(w)
    /\ UNCHANGED <<seen, tables, object, sub>>

CleanUp(w) ==
    \/ \E r \in Ids : ClaimOrphanedCorrectionUpload(w, r)
    \/ DeleteOrphanedObject(w) \/ FinalizeCorrectionCleanup(w)

\* now() passes the grace period (30 minutes) of a pending reservation, or the
\* lease (15 minutes) of a claim.
ReviewClock(r) ==
    /\ \/ /\ res[r].state = "pending" /\ ~ res[r].stale
          /\ Slow \/ \A s \in Submissions : RequestOf[s] = r => ~ Running(s)
          /\ res' = [res EXCEPT ![r].stale = TRUE]
       \/ /\ res[r].claimLive
          /\ Slow \/ \A w \in Workers : cleaner[w].id # r
          /\ res' = [res EXCEPT ![r].claimLive = FALSE]
    /\ UNCHANGED <<seen, previous, review, audit, object, sub, cleaner, faults>>

-----------------------------------------------------------------------------

Next ==
    \/ \E r \in Ids, v \in Ids \cup {V0} : AddOutputComment(r, v) \/ ApproveOutputVersion(r, v)
    \/ \E r \in Ids : OpenEditor(r) \/ ReviewClock(r)
    \/ \E s \in Submissions : Submit(s) \/ SubmissionDies(s)
    \/ \E w \in Workers : CleanUp(w) \/ CleanerDies(w)

Spec == Init /\ [][Next]_vars

\* Workers and clocks do not stop for ever, nor does a request once it was
\* accepted, unless it dies.  What members do is not forced.
Fairness ==
    /\ \A w \in Workers : WF_vars(CleanUp(w))
    /\ \A r \in Ids : WF_vars(ReviewClock(r))
    /\ \A s \in Submissions : WF_vars(Running(s) /\ Submit(s))

FairSpec == Spec /\ Fairness

-----------------------------------------------------------------------------
(***************************************************************************)
(* What the review promises.                                               *)
(***************************************************************************)

\* The corrections form one chain from the generated output, whichever of them
\* were written at the same time: _ordered_chain never finds a branch or a
\* version it does not reach, so the review state of the output can be read.
ChainIsLinear ==
    \E q \in [1..Cardinality(Versions) -> Versions] : OrderedChain(q)

\* A version members can read has its object in Storage: neither the undoing of
\* a failed submission nor the worker's cleanup deletes it.
CommittedHasObject == \A r \in Versions : object[r]

\* Customer content in Storage is owned by a version or by a reservation that
\* the cleanup will come back to: 'aborted' means that there is no object.
ObjectIsTracked ==
    \A r \in Ids : object[r] => res[r].state \in {"pending", "committed", "orphaned"}

\* The tables agree: a version, a committed reservation and a 'correct' review go
\* together, and every review has exactly one audit event, retries included.
RecordedOnce ==
    \A r \in Ids :
        /\ r \in Versions <=> res[r].state = "committed"
        /\ r \in Versions <=> review[r] = [action |-> "correct", target |-> r]
        /\ audit[r] = IF review[r] = NoReview THEN 0 ELSE 1

\* The versions form one chain, and what members did is recorded once, however their
\* requests race, are repeated or lose their answers.
ReviewsAreRecorded == ChainIsLinear /\ RecordedOnce

\* A version never disappears or moves in the chain, and what was approved or
\* commented on stays on record as it was.
HistoryIsImmutable ==
    [][\A r \in Ids : /\ r \in Versions => previous'[r] = previous[r]
                                           /\ res'[r].state = "committed"
                      /\ review[r] # NoReview => review'[r] = review[r]]_vars

\* Every reservation is settled: it becomes a version, or its object is gone.
ReservationsAreSettled ==
    \A r \in Ids : res[r].state \in {"pending", "orphaned"} ~>
                       res[r].state \in {"committed", "aborted"}

=============================================================================
