----------------------------- MODULE MCReviews -----------------------------
(* At most two request ids: enough for two corrections of the same base, and *)
(* for an id that is used for a comment or an approval as well.  The         *)
(* submissions first and retry carry the same id, other carries another one. *)
(* The constants describe "chain", where requests and cleanups may be slower *)
(* than their leases and a member tries again; in "settled" nothing is slow, *)
(* but the commit of a version may lose its answer.                          *)
EXTENDS Exports

CONSTANTS r1, r2, r3, first, retry, other, k1, x1, x2, x3

MCKeyOf == [e \in Exporters |-> k1]
MCFormatOf == [e \in Exporters |-> IF e = x3 THEN "pdf" ELSE "md"]
MCRequestOf == [s \in Submissions |-> IF s = other THEN r2 ELSE r1]

Settled == INSTANCE Reviews WITH
    Submissions <- Submissions \ {retry},
    RequestOf <- [s \in Submissions \ {retry} |-> RequestOf[s]],
    MaxTries <- MaxTries + 2, MaxFaults <- MaxFaults + 1, LostCommits <- TRUE, Slow <- FALSE

Exporting == INSTANCE Exports WITH
    Ids <- Ids \cup {r3}, Submissions <- {first}, RequestOf <- [s \in {first} |-> r1],
    Workers <- {}, Slow <- FALSE

VARIABLE focus

MCInit ==
    /\ ExportInit
    /\ \/ focus = "chain" /\ Init
       \/ focus = "settled" /\ Settled!Init
       \/ focus = "export" /\ Exporting!Init

MCNext ==
    /\ UNCHANGED focus
    /\ \/ focus = "chain" /\ Next /\ UNCHANGED xvars
       \/ focus = "settled" /\ Settled!Next /\ UNCHANGED xvars
       \/ focus = "export" /\ Exporting!ExportNext

MCSpec ==
    /\ MCInit /\ [][MCNext]_<<vars, xvars, focus>>
    /\ \A w \in Workers : WF_vars(focus = "settled" /\ Settled!CleanUp(w))
    /\ \A r \in Ids : WF_vars(focus = "settled" /\ Settled!ReviewClock(r))
    /\ \A s \in Submissions \ {retry} :
           WF_vars(focus = "settled" /\ Settled!Running(s) /\ Settled!Submit(s))

\* A version keeps its object however slow its request was; while nothing is slow, no
\* object escapes the reservations, even if the answer of a commit is lost; and nothing
\* is exported that was not approved.
ObjectsAreKept ==
    /\ focus = "chain" => TypeOK /\ CommittedHasObject
    /\ focus = "settled" => Settled!TypeOK /\ ObjectIsTracked
    /\ focus = "export" => Exporting!TypeOK /\ Exporting!ExportsAreApproved

\* What is on record stays as it was, and while nothing is slow every reservation
\* becomes a version or is cleaned up.
ReviewsAreSettled ==
    /\ HistoryIsImmutable /\ ExportsAreImmutable
    /\ (focus = "settled" => ReservationsAreSettled)
=============================================================================
