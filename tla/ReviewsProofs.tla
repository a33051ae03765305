---------------------------- MODULE ReviewsProofs ----------------------------
(***************************************************************************)
(* Machine-checked proofs about the review of one output.                  *)
(*                                                                         *)
(* Three inductive invariants.  BooksInv holds whatever is lost, slow or   *)
(* repeated: the tables that are written in one transaction agree, and the *)
(* versions form one line from the generated output.  KeptInv says who may *)
(* still delete the object of a reservation; it needs that a commit does   *)
(* not lose its answer and that a member does not send a request again     *)
(* while it runs.  TrackedInv says that the cleanup never takes over what  *)
(* a request is still working on; it needs that requests are faster than   *)
(* the grace period and that each is sent once.  Beside them, ExportInv    *)
(* says that an export under way keeps the approval it was granted on.     *)
(***************************************************************************)
EXTENDS Exports, FiniteSetTheorems, TLAPS

-----------------------------------------------------------------------------
(***************************************************************************)
(* The tables.                                                             *)
(***************************************************************************)

VersionIds == Ids \cup {V0, None}

ReviewRow == [action: {"none", "comment", "approve", "correct"}, target: VersionIds]

BooksInv == TypeOK /\ IsFiniteSet(Versions) /\ ReviewsAreRecorded

\* What a version may be written on.
LEMMA CurrentIsLeaf ==
  ASSUME NEW v, IsCurrent(v)
  PROVE  /\ v \in Versions \cup {V0}
         /\ \A u \in Versions : previous[u] # v
<1>1. CASE Versions = {}
  BY <1>1 DEF IsCurrent
<1>2. CASE Versions # {}
  <2>1. v \in {u \in Versions : Children(u) = {}}
    BY <1>2 DEF IsCurrent
  <2> QED
    BY <2>1 DEF Children
<1> QED
  BY <1>1, <1>2

SubRow == [pc: {"new", "upload", "commit", "discard", "abandon", "over"}, replay: BOOLEAN, deleted: BOOLEAN]

CleanerRow == [pc: {"idle", "delete", "finalize"}, id: Ids \cup {None}]

\* A submission that goes from one call to the next.
LEMMA SubGoes ==
  ASSUME sub \in [Submissions -> SubRow], NEW s \in Submissions,
         NEW pc \in {"upload", "commit", "discard", "abandon", "over"}, Goto(s, pc)
  PROVE  /\ sub' \in [Submissions -> SubRow]
         /\ sub'[s].pc = pc /\ sub'[s].replay = sub[s].replay /\ sub'[s].deleted = sub[s].deleted
         /\ \A o \in Submissions : o # s => sub'[o] = sub[o]
<1> DEFINE new == [sub[s] EXCEPT !.pc = pc]
<1>1. sub' = [sub EXCEPT ![s] = new] /\ sub[s] \in SubRow
  BY DEF Goto
<1>2. new \in SubRow /\ new.pc = pc /\ new.replay = sub[s].replay /\ new.deleted = sub[s].deleted
  BY <1>1 DEF SubRow
<1> HIDE DEF new
<1> QED
  BY <1>1, <1>2

\* A submission that goes on to the closing of its reservation.
LEMMA SubUndone ==
  ASSUME sub \in [Submissions -> SubRow], NEW s \in Submissions, NEW d \in BOOLEAN,
         sub' = [sub EXCEPT ![s].pc = "abandon", ![s].deleted = d]
  PROVE  /\ sub' \in [Submissions -> SubRow]
         /\ sub'[s].pc = "abandon" /\ sub'[s].replay = sub[s].replay /\ sub'[s].deleted = d
         /\ \A o \in Submissions : o # s => sub'[o] = sub[o]
<1> DEFINE new == [sub[s] EXCEPT !.pc = "abandon", !.deleted = d]
<1>1. sub' = [sub EXCEPT ![s] = new] /\ sub[s] \in SubRow
  OBVIOUS
<1>2. new \in SubRow /\ new.pc = "abandon" /\ new.replay = sub[s].replay /\ new.deleted = d
  BY <1>1 DEF SubRow
<1> HIDE DEF new
<1> QED
  BY <1>1, <1>2

\* A submission whose reservation is granted.
LEMMA SubStarts ==
  ASSUME sub \in [Submissions -> SubRow], NEW s \in Submissions, NEW pc \in {"upload", "commit"}, NEW b \in BOOLEAN,
         sub' = [sub EXCEPT ![s].pc = pc, ![s].replay = b]
  PROVE  /\ sub' \in [Submissions -> SubRow]
         /\ sub'[s].pc = pc /\ sub'[s].replay = b /\ sub'[s].deleted = sub[s].deleted
         /\ \A o \in Submissions : o # s => sub'[o] = sub[o]
<1> DEFINE new == [sub[s] EXCEPT !.pc = pc, !.replay = b]
<1>1. sub' = [sub EXCEPT ![s] = new] /\ sub[s] \in SubRow
  OBVIOUS
<1>2. new \in SubRow /\ new.pc = pc /\ new.replay = b /\ new.deleted = sub[s].deleted
  BY <1>1 DEF SubRow
<1> HIDE DEF new
<1> QED
  BY <1>1, <1>2

\* Only the reservation of r changes: given out for the first time, or written off by
\* the request itself or by the cleanup.
OnlyRes(r) == res' \in [Ids -> Reservation] /\ \A i \in Ids : i # r => res'[i] = res[i]

Given(r) ==
  /\ OnlyRes(r)
  /\ res[r].state = "none" /\ IsCurrent(seen[r])
  /\ res'[r].state = "pending" /\ ~ res'[r].stale /\ res'[r].base = seen[r]

WrittenOff(r, state) ==
  OnlyRes(r) /\ res'[r].state = state /\ ~ res'[r].stale /\ res'[r].base = res[r].base

Only(s) == sub' \in [Submissions -> SubRow] /\ \A o \in Submissions : o # s => sub'[o] = sub[o]

\* The ranges of the tables, of the threads and of the fault counter, as the provers need them.
LEMMA Types ==
  /\ TypeOK => /\ seen \in [Ids -> VersionIds] /\ res \in [Ids -> Reservation]
               /\ previous \in [Ids -> VersionIds] /\ review \in [Ids -> ReviewRow]
               /\ audit \in [Ids -> Nat] /\ object \in [Ids -> BOOLEAN]
               /\ sub \in [Submissions -> SubRow] /\ cleaner \in [Workers -> CleanerRow]
               /\ faults \in 0 .. MaxFaults /\ (NoFault \/ Fault => faults' \in 0 .. MaxFaults)
  /\ RequestOf \in [Submissions -> Ids]
  BY ReviewAssumption DEF TypeOK, VersionIds, ReviewRow, SubRow, CleanerRow, NoFault, Fault

\* The same after a step.
LEMMA TypesAfter ==
  ASSUME seen' \in [Ids -> VersionIds], res' \in [Ids -> Reservation],
         previous' \in [Ids -> VersionIds], review' \in [Ids -> ReviewRow],
         audit' \in [Ids -> Nat], object' \in [Ids -> BOOLEAN],
         sub' \in [Submissions -> SubRow], cleaner' \in [Workers -> CleanerRow],
         faults' \in 0 .. MaxFaults
  PROVE  TypeOK'
  BY DEF TypeOK, VersionIds, ReviewRow, SubRow, CleanerRow

\* reserve_output_correction: what it gives out, and to whom.
LEMMA Reserving ==
  ASSUME TypeOK, NEW s \in Submissions, ReserveOutputCorrection(s)
  PROVE  LET r == RequestOf[s] IN
         /\ TypeOK' /\ UNCHANGED <<previous, review, audit, object, cleaner>>
         /\ sub[s].pc = "new" /\ Only(s)
         /\ Overlapping \/ \A o \in Submissions : RequestOf[o] = r => ~ Running(o)
         /\ res' = res \/ Given(r)
         /\ \/ sub'[s].pc = "over"
            \/ sub'[s].pc = "upload" /\ ~ sub'[s].replay /\ res'[r].state = "pending"
            \/ sub'[s].pc = "commit" /\ sub'[s].replay /\ res'[r].state = "committed"
<1> DEFINE r == RequestOf[s]
           new == [NoReservation EXCEPT !.state = "pending", !.base = seen[r]]
           fresh == [res EXCEPT ![r] = new]
           again == res[r].state \in {"pending", "committed"}
           granted == again \/ (res[r].state = "none" /\ IsCurrent(seen[r]))
           given == IF again THEN res ELSE fresh
<1>0. /\ r \in Ids /\ seen[r] \in VersionIds /\ res \in [Ids -> Reservation] /\ sub \in [Submissions -> SubRow]
      /\ seen \in [Ids -> VersionIds] /\ previous \in [Ids -> VersionIds] /\ review \in [Ids -> ReviewRow]
      /\ audit \in [Ids -> Nat] /\ object \in [Ids -> BOOLEAN] /\ cleaner \in [Workers -> CleanerRow]
      /\ NoFault \/ Fault => faults' \in 0 .. MaxFaults
  BY Types
<1>1. new \in Reservation /\ new.state = "pending" /\ ~ new.stale /\ new.base = seen[r]
  BY <1>0 DEF NoReservation, Reservation, VersionIds
<1>2. /\ sub[s].pc = "new" /\ (Overlapping \/ \A o \in Submissions : RequestOf[o] = r => ~ Running(o))
      /\ UNCHANGED <<seen, previous, review, audit, object, cleaner>> /\ (NoFault \/ Fault)
      /\ \/ /\ granted /\ res' = given
            /\ sub' = [sub EXCEPT ![s].pc = IF res[r].state = "committed" THEN "commit" ELSE "upload",
                                  ![s].replay = res[r].state = "committed"]
         \/ Goto(s, "over") /\ res' = res
         \/ granted /\ Goto(s, "over") /\ res' = given
  BY DEF ReserveOutputCorrection
<1> HIDE DEF new
<1>3. granted /\ res' = given => res' = res \/ Given(r)
  BY <1>0, <1>1 DEF Given, OnlyRes
<1>4. granted /\ res' = given => res'[r].state = IF res[r].state = "committed" THEN "committed" ELSE "pending"
  BY <1>0, <1>1
<1>5. CASE Goto(s, "over")
  <2>1. Only(s) /\ sub'[s].pc = "over"
    BY <1>0, <1>5, SubGoes DEF Only
  <2>2. res' = res \/ Given(r)
    BY <1>2, <1>3, <1>5
  <2>3. TypeOK'
    BY <1>0, <1>2, <2>1, <2>2, TypesAfter DEF Only, Given, OnlyRes
  <2> QED
    BY <1>2, <2>1, <2>2, <2>3
<1>6. CASE /\ granted /\ res' = given
           /\ sub' = [sub EXCEPT ![s].pc = IF res[r].state = "committed" THEN "commit" ELSE "upload",
                                 ![s].replay = res[r].state = "committed"]
  <2>0. res' = res \/ Given(r)
    BY <1>3, <1>6
  <2>1. CASE res[r].state = "committed"
    <3>1. sub' = [sub EXCEPT ![s].pc = "commit", ![s].replay = TRUE]
      BY <1>6, <2>1
    <3>2. Only(s) /\ sub'[s].pc = "commit" /\ sub'[s].replay
      BY <1>0, <3>1, SubStarts DEF Only
    <3>3. TypeOK'
      BY <1>0, <1>2, <2>0, <3>2, TypesAfter DEF Only, Given, OnlyRes
    <3> QED
      BY <1>2, <1>4, <1>6, <2>0, <2>1, <3>2, <3>3
  <2>2. CASE res[r].state # "committed"
    <3>1. sub' = [sub EXCEPT ![s].pc = "upload", ![s].replay = FALSE]
      BY <1>6, <2>2
    <3>2. Only(s) /\ sub'[s].pc = "upload" /\ ~ sub'[s].replay
      BY <1>0, <3>1, SubStarts DEF Only
    <3>3. TypeOK'
      BY <1>0, <1>2, <2>0, <3>2, TypesAfter DEF Only, Given, OnlyRes
    <3> QED
      BY <1>2, <1>4, <1>6, <2>0, <2>2, <3>2, <3>3
  <2> QED
    BY <2>1, <2>2
<1> QED
  BY <1>2, <1>5, <1>6

\* UploadCorrection: the object is there, or the submission is about to undo.
LEMMA Uploading ==
  ASSUME TypeOK, NEW s \in Submissions, UploadCorrection(s)
  PROVE  LET r == RequestOf[s] IN
         /\ TypeOK' /\ UNCHANGED <<seen, tables, cleaner>>
         /\ sub[s].pc = "upload" /\ Only(s) /\ sub'[s].replay = sub[s].replay
         /\ object' = object \/ object' = [object EXCEPT ![r] = TRUE]
         /\ sub'[s].pc = "discard" \/ (sub'[s].pc = "commit" /\ object'[r])
<1> DEFINE r == RequestOf[s]
<1>0. /\ r \in Ids /\ res \in [Ids -> Reservation] /\ sub \in [Submissions -> SubRow]
      /\ seen \in [Ids -> VersionIds] /\ previous \in [Ids -> VersionIds] /\ review \in [Ids -> ReviewRow]
      /\ audit \in [Ids -> Nat] /\ object \in [Ids -> BOOLEAN] /\ cleaner \in [Workers -> CleanerRow]
      /\ NoFault \/ Fault => faults' \in 0 .. MaxFaults
  BY Types
<1>1. /\ sub[s].pc = "upload" /\ UNCHANGED <<seen, tables, cleaner>> /\ (NoFault \/ Fault)
      /\ \/ object' = [object EXCEPT ![r] = TRUE] /\ Goto(s, "commit")
         \/ (object' = object \/ object' = [object EXCEPT ![r] = TRUE]) /\ Goto(s, "discard")
  BY DEF UploadCorrection
<1>2. PICK pc \in {"commit", "discard"} : Goto(s, pc) /\ (pc = "commit" => object' = [object EXCEPT ![r] = TRUE])
  BY <1>1
<1>3. Only(s) /\ sub'[s].pc = pc /\ sub'[s].replay = sub[s].replay
  BY <1>0, <1>2, SubGoes DEF Only
<1>4. (object' = object \/ object' = [object EXCEPT ![r] = TRUE]) /\ object' \in [Ids -> BOOLEAN]
  BY <1>0, <1>1
<1>5. TypeOK'
  BY <1>0, <1>1, <1>3, <1>4, TypesAfter DEF Only, tables
<1> QED
  BY <1>0, <1>1, <1>2, <1>3, <1>4, <1>5

\* The version, its review, its event and the reservation are written together.
Written(r) ==
  /\ Committable(r)
  /\ previous' = [previous EXCEPT ![r] = res[r].base]
  /\ review' = [review EXCEPT ![r] = [action |-> "correct", target |-> r]]
  /\ audit' = [audit EXCEPT ![r] = @ + 1]
  /\ OnlyRes(r) /\ res'[r].state = "committed" /\ res'[r].stale = res[r].stale

\* commit_output_correction, answered or not.
LEMMA Committing ==
  ASSUME TypeOK, NEW s \in Submissions, CommitOutputCorrection(s)
  PROVE  LET r == RequestOf[s] IN
         /\ TypeOK' /\ UNCHANGED <<seen, object, cleaner>>
         /\ sub[s].pc = "commit" /\ Only(s) /\ sub'[s].replay = sub[s].replay
         /\ \/ UNCHANGED tables
            \/ Written(r) /\ (sub'[s].pc = "over" \/ LostCommits)
         /\ \/ sub'[s].pc = "over"
            \/ sub'[s].pc = "discard" /\ ~ sub[s].replay
            \/ sub'[s].pc = "abandon" /\ sub[s].replay
<1> DEFINE r == RequestOf[s]
           new == [res[r] EXCEPT !.state = "committed"]
<1>0. /\ r \in Ids /\ res \in [Ids -> Reservation] /\ sub \in [Submissions -> SubRow]
      /\ seen \in [Ids -> VersionIds] /\ previous \in [Ids -> VersionIds] /\ review \in [Ids -> ReviewRow]
      /\ audit \in [Ids -> Nat] /\ object \in [Ids -> BOOLEAN] /\ cleaner \in [Workers -> CleanerRow]
      /\ NoFault \/ Fault => faults' \in 0 .. MaxFaults
      /\ res[r] \in Reservation /\ sub[s] \in SubRow
  BY Types
<1>1. new \in Reservation /\ new.state = "committed" /\ new.stale = res[r].stale /\ res[r].base \in VersionIds
  BY <1>0 DEF Reservation, VersionIds
<1>2. Committed(r) => res' = [res EXCEPT ![r] = new]
  BY DEF Committed
<1> HIDE DEF new
<1>3. Committable(r) /\ Committed(r) => Written(r)
  BY <1>0, <1>1, <1>2 DEF Committed, Written, OnlyRes
<1>4. /\ sub[s].pc = "commit" /\ UNCHANGED <<seen, object, cleaner>> /\ (NoFault \/ Fault)
      /\ UNCHANGED tables \/ (Committable(r) /\ Committed(r) /\ (Goto(s, "over") \/ LostCommits))
      /\ \/ Goto(s, "over")
         \/ sub[s].replay /\ sub' = [sub EXCEPT ![s].pc = "abandon", ![s].deleted = TRUE]
         \/ ~ sub[s].replay /\ Goto(s, "discard")
  <2> HIDE DEF r
  <2> QED
    BY DEF CommitOutputCorrection, r
<1>5. /\ Only(s) /\ sub'[s].replay = sub[s].replay
      /\ \/ Goto(s, "over") /\ sub'[s].pc = "over"
         \/ sub'[s].pc = "discard" /\ ~ sub[s].replay
         \/ sub'[s].pc = "abandon" /\ sub[s].replay
  <2>1. CASE Goto(s, "over")
    BY <1>0, <2>1, SubGoes DEF Only
  <2>2. CASE ~ sub[s].replay /\ Goto(s, "discard")
    BY <1>0, <2>2, SubGoes DEF Only
  <2>3. CASE sub[s].replay /\ sub' = [sub EXCEPT ![s].pc = "abandon", ![s].deleted = TRUE]
    <3>1. /\ sub' \in [Submissions -> SubRow]
          /\ sub'[s].pc = "abandon" /\ sub'[s].replay = sub[s].replay
          /\ \A o \in Submissions : o # s => sub'[o] = sub[o]
      BY <1>0, <2>3, SubUndone
    <3> QED
      BY <2>3, <3>1 DEF Only
  <2> QED
    BY <1>4, <2>1, <2>2, <2>3
<1>6. Goto(s, "over") => sub'[s].pc = "over"
  BY <1>0, SubGoes
<1>7. UNCHANGED tables \/ (Written(r) /\ (sub'[s].pc = "over" \/ LostCommits))
  BY <1>3, <1>4, <1>6
<1>8. TypeOK'
  <2>1. /\ res' \in [Ids -> Reservation] /\ previous' \in [Ids -> VersionIds]
        /\ review' \in [Ids -> ReviewRow] /\ audit' \in [Ids -> Nat]
    <3>1. [action |-> "correct", target |-> r] \in ReviewRow /\ audit[r] + 1 \in Nat
      BY <1>0 DEF ReviewRow, VersionIds
    <3> QED
      BY <1>0, <1>1, <1>7, <3>1 DEF Written, OnlyRes, tables
  <2> QED
    BY <1>0, <1>4, <1>5, <2>1, TypesAfter DEF Only
<1> QED
  BY <1>4, <1>5, <1>7, <1>8

\* _discard_uncommitted_object.
LEMMA Discarding ==
  ASSUME TypeOK, NEW s \in Submissions, DiscardObject(s)
  PROVE  LET r == RequestOf[s] IN
         /\ TypeOK' /\ UNCHANGED <<seen, tables, cleaner>>
         /\ sub[s].pc = "discard" /\ Only(s)
         /\ object' = object \/ object' = [object EXCEPT ![r] = FALSE]
         /\ sub'[s].pc = "abandon" /\ (sub'[s].deleted => ~ object'[r])
<1> DEFINE r == RequestOf[s]
<1>0. /\ r \in Ids /\ res \in [Ids -> Reservation] /\ sub \in [Submissions -> SubRow]
      /\ seen \in [Ids -> VersionIds] /\ previous \in [Ids -> VersionIds] /\ review \in [Ids -> ReviewRow]
      /\ audit \in [Ids -> Nat] /\ object \in [Ids -> BOOLEAN] /\ cleaner \in [Workers -> CleanerRow]
      /\ NoFault \/ Fault => faults' \in 0 .. MaxFaults
  BY Types
<1>1. /\ sub[s].pc = "discard" /\ UNCHANGED <<seen, tables, cleaner>> /\ (NoFault \/ Fault)
      /\ object' = object \/ object' = [object EXCEPT ![r] = FALSE]
      /\ \E d \in BOOLEAN : /\ sub' = [sub EXCEPT ![s].pc = "abandon", ![s].deleted = d]
                            /\ d => object' = [object EXCEPT ![r] = FALSE]
  BY DEF DiscardObject
<1>2. PICK d \in BOOLEAN : /\ sub' = [sub EXCEPT ![s].pc = "abandon", ![s].deleted = d]
                           /\ d => object' = [object EXCEPT ![r] = FALSE]
  BY <1>1
<1>3. Only(s) /\ sub'[s].pc = "abandon" /\ sub'[s].deleted = d
  BY <1>0, <1>2, SubUndone DEF Only
<1>4. object' \in [Ids -> BOOLEAN]
  BY <1>0, <1>1
<1>5. TypeOK'
  BY <1>0, <1>1, <1>3, <1>4, TypesAfter DEF Only, tables
<1> QED
  BY <1>0, <1>1, <1>2, <1>3, <1>5

\* _abandon_reservation: aborted if the delete was confirmed, orphaned otherwise.
LEMMA Abandoning ==
  ASSUME TypeOK, NEW s \in Submissions, AbandonOutputCorrection(s)
  PROVE  LET r == RequestOf[s] IN
         /\ TypeOK' /\ UNCHANGED <<seen, previous, review, audit, object, cleaner>>
         /\ sub[s].pc = "abandon" /\ Only(s) /\ sub'[s].pc = "over"
         /\ \/ UNCHANGED res
            \/ /\ res[r].state # "committed"
               /\ WrittenOff(r, IF sub[s].deleted THEN "aborted" ELSE "orphaned")
<1> DEFINE r == RequestOf[s]
           state == IF sub[s].deleted THEN "aborted" ELSE "orphaned"
           tries == IF sub[s].deleted THEN res[r].tries ELSE res[r].tries + 1
           new == [res[r] EXCEPT !.state = state, !.tries = tries, !.stale = FALSE]
<1>0. /\ r \in Ids /\ res \in [Ids -> Reservation] /\ sub \in [Submissions -> SubRow]
      /\ seen \in [Ids -> VersionIds] /\ previous \in [Ids -> VersionIds] /\ review \in [Ids -> ReviewRow]
      /\ audit \in [Ids -> Nat] /\ object \in [Ids -> BOOLEAN] /\ cleaner \in [Workers -> CleanerRow]
      /\ NoFault \/ Fault => faults' \in 0 .. MaxFaults
      /\ res[r] \in Reservation
  BY Types
<1>1. new \in Reservation /\ new.state = state /\ ~ new.stale /\ new.base = res[r].base
  <2>1. tries \in Nat /\ state \in {"none", "pending", "committed", "aborted", "orphaned"}
    BY <1>0 DEF Reservation
  <2> HIDE DEF tries, state
  <2> QED
    BY <1>0, <2>1 DEF Reservation
<1>2. Abandoned(r, sub[s].deleted) = [res EXCEPT ![r] = new]
  BY <1>0 DEF Abandoned, Reservation
<1> HIDE DEF new
<1>3. /\ sub[s].pc = "abandon" /\ Goto(s, "over") /\ (NoFault \/ Fault)
      /\ UNCHANGED <<seen, previous, review, audit, object, cleaner>>
      /\ UNCHANGED res \/ (res[r].state # "committed" /\ res' = Abandoned(r, sub[s].deleted))
  BY DEF AbandonOutputCorrection, Abandonable
<1>4. UNCHANGED res \/ (res[r].state # "committed" /\ WrittenOff(r, state))
  BY <1>0, <1>1, <1>2, <1>3 DEF WrittenOff, OnlyRes
<1>5. Only(s) /\ sub'[s].pc = "over"
  BY <1>0, <1>3, SubGoes DEF Only
<1>6. TypeOK'
  BY <1>0, <1>3, <1>4, <1>5, TypesAfter DEF Only, WrittenOff, OnlyRes
<1> QED
  BY <1>3, <1>4, <1>5, <1>6

\* claim_orphaned_correction_upload.
LEMMA Claiming ==
  ASSUME TypeOK, NEW w \in Workers, NEW r \in Ids, ClaimOrphanedCorrectionUpload(w, r)
  PROVE  /\ TypeOK' /\ UNCHANGED <<seen, previous, review, audit, object, sub>>
         /\ res[r].state = "orphaned" \/ (res[r].state = "pending" /\ res[r].stale)
         /\ WrittenOff(r, "orphaned")
         /\ cleaner' = cleaner \/ cleaner' = [cleaner EXCEPT ![w] = [pc |-> "delete", id |-> r]]
<1> DEFINE tries == res[r].tries + 1
           new == [res[r] EXCEPT !.state = "orphaned", !.tries = tries,
                                 !.claimedBy = w, !.claimLive = TRUE, !.stale = FALSE]
<1>0. /\ res \in [Ids -> Reservation] /\ sub \in [Submissions -> SubRow]
      /\ seen \in [Ids -> VersionIds] /\ previous \in [Ids -> VersionIds] /\ review \in [Ids -> ReviewRow]
      /\ audit \in [Ids -> Nat] /\ object \in [Ids -> BOOLEAN] /\ cleaner \in [Workers -> CleanerRow]
      /\ NoFault \/ Fault => faults' \in 0 .. MaxFaults
      /\ res[r] \in Reservation
  BY Types
<1>t. tries \in Nat
  BY <1>0 DEF Reservation
<1> HIDE DEF tries
<1>1. new \in Reservation /\ new.state = "orphaned" /\ ~ new.stale /\ new.base = res[r].base
  BY <1>0, <1>t DEF Reservation
<1>2. res' = [res EXCEPT ![r] = new]
  BY <1>0 DEF ClaimOrphanedCorrectionUpload, Reservation, tries
<1> HIDE DEF new
<1>3. /\ UNCHANGED <<seen, previous, review, audit, object, sub>> /\ (NoFault \/ Fault)
      /\ res[r].state = "orphaned" \/ (res[r].state = "pending" /\ res[r].stale)
      /\ cleaner' = cleaner \/ cleaner' = [cleaner EXCEPT ![w] = [pc |-> "delete", id |-> r]]
  BY DEF ClaimOrphanedCorrectionUpload, Orphaned
<1>4. WrittenOff(r, "orphaned")
  BY <1>0, <1>1, <1>2 DEF WrittenOff, OnlyRes
<1>5. cleaner' \in [Workers -> CleanerRow]
  BY <1>0, <1>3 DEF CleanerRow
<1>6. TypeOK'
  BY <1>0, <1>3, <1>4, <1>5, TypesAfter DEF WrittenOff, OnlyRes
<1> QED
  BY <1>3, <1>4, <1>6

\* A cleanup that is over, one way or another.
LEMMA Idling ==
  ASSUME cleaner \in [Workers -> CleanerRow], NEW w \in Workers, CleanerIdle(w)
  PROVE  /\ cleaner' \in [Workers -> CleanerRow] /\ cleaner'[w].pc = "idle"
         /\ \A u \in Workers : u # w => cleaner'[u] = cleaner[u]
  BY DEF CleanerIdle, CleanerRow

\* delete_for_maintenance, by the cleanup.
LEMMA Deleting ==
  ASSUME TypeOK, NEW w \in Workers, DeleteOrphanedObject(w)
  PROVE  LET r == cleaner[w].id IN
         /\ TypeOK' /\ UNCHANGED <<seen, tables, sub>>
         /\ cleaner[w].pc = "delete"
         /\ object' = object \/ object' = [object EXCEPT ![r] = FALSE]
         /\ \A u \in Workers : u # w => cleaner'[u] = cleaner[u]
         /\ \/ cleaner'[w].pc = "idle"
            \/ /\ cleaner'[w].pc = "finalize" /\ cleaner'[w].id = r
               /\ object' = [object EXCEPT ![r] = FALSE]
<1> DEFINE r == cleaner[w].id
           new == [cleaner[w] EXCEPT !.pc = "finalize"]
<1>0. /\ res \in [Ids -> Reservation] /\ sub \in [Submissions -> SubRow]
      /\ seen \in [Ids -> VersionIds] /\ previous \in [Ids -> VersionIds] /\ review \in [Ids -> ReviewRow]
      /\ audit \in [Ids -> Nat] /\ object \in [Ids -> BOOLEAN] /\ cleaner \in [Workers -> CleanerRow]
      /\ NoFault \/ Fault => faults' \in 0 .. MaxFaults
      /\ cleaner[w] \in CleanerRow
  BY Types
<1>1. new \in CleanerRow /\ new.pc = "finalize" /\ new.id = r
  BY <1>0 DEF CleanerRow
<1>2. /\ cleaner[w].pc = "delete" /\ UNCHANGED <<seen, tables, sub>> /\ (NoFault \/ Fault)
      /\ object' = object \/ object' = [object EXCEPT ![r] = FALSE]
      /\ \/ CleanerIdle(w)
         \/ cleaner' = [cleaner EXCEPT ![w] = new] /\ object' = [object EXCEPT ![r] = FALSE]
  BY DEF DeleteOrphanedObject
<1> HIDE DEF new
<1>3. /\ cleaner' \in [Workers -> CleanerRow] /\ \A u \in Workers : u # w => cleaner'[u] = cleaner[u]
      /\ \/ cleaner'[w].pc = "idle"
         \/ cleaner'[w] = new /\ object' = [object EXCEPT ![r] = FALSE]
  BY <1>0, <1>1, <1>2, Idling
<1>4. object' \in [Ids -> BOOLEAN]
  BY <1>0, <1>2
<1>5. TypeOK'
  BY <1>0, <1>2, <1>3, <1>4, TypesAfter DEF tables
<1> QED
  BY <1>1, <1>2, <1>3, <1>5

\* finalize_correction_cleanup, and the death of the worker.
LEMMA Finalizing ==
  ASSUME TypeOK, NEW w \in Workers, FinalizeCorrectionCleanup(w) \/ CleanerDies(w)
  PROVE  LET r == cleaner[w].id IN
         /\ TypeOK' /\ UNCHANGED <<seen, previous, review, audit, object, sub>>
         /\ cleaner'[w].pc = "idle" /\ \A u \in Workers : u # w => cleaner'[u] = cleaner[u]
         /\ \/ UNCHANGED res
            \/ /\ cleaner[w].pc = "finalize" /\ r \in Ids /\ res[r].state = "orphaned"
               /\ OnlyRes(r) /\ res'[r].state = "aborted" /\ res'[r].stale = res[r].stale
<1> DEFINE r == cleaner[w].id
           new == [res[r] EXCEPT !.state = "aborted"]
<1>0. /\ res \in [Ids -> Reservation] /\ sub \in [Submissions -> SubRow]
      /\ seen \in [Ids -> VersionIds] /\ previous \in [Ids -> VersionIds] /\ review \in [Ids -> ReviewRow]
      /\ audit \in [Ids -> Nat] /\ object \in [Ids -> BOOLEAN] /\ cleaner \in [Workers -> CleanerRow]
      /\ NoFault \/ Fault => faults' \in 0 .. MaxFaults
      /\ cleaner[w] \in CleanerRow
  BY Types
<1>1. r \in Ids => new \in Reservation /\ new.state = "aborted" /\ new.stale = res[r].stale
  BY <1>0 DEF Reservation
<1>2. /\ CleanerIdle(w) /\ UNCHANGED <<seen, previous, review, audit, object, sub>> /\ (NoFault \/ Fault)
      /\ \/ UNCHANGED res
         \/ cleaner[w].pc = "finalize" /\ res[r].state = "orphaned" /\ res' = [res EXCEPT ![r] = new]
  BY DEF FinalizeCorrectionCleanup, CleanerDies, tables
<1> HIDE DEF new
<1>3. cleaner' \in [Workers -> CleanerRow] /\ cleaner'[w].pc = "idle" /\ \A u \in Workers : u # w => cleaner'[u] = cleaner[u]
  BY <1>0, <1>2, Idling
<1>4. \/ UNCHANGED res
      \/ /\ cleaner[w].pc = "finalize" /\ r \in Ids /\ res[r].state = "orphaned"
         /\ OnlyRes(r) /\ res'[r].state = "aborted" /\ res'[r].stale = res[r].stale
  <2>1. CASE r \in Ids
    BY <1>0, <1>1, <1>2, <2>1 DEF OnlyRes
  <2>2. CASE r \notin Ids
    BY <1>0, <1>2, <2>2
  <2> QED
    BY <2>1, <2>2
<1>5. TypeOK'
  BY <1>0, <1>2, <1>3, <1>4, TypesAfter DEF OnlyRes
<1> QED
  BY <1>2, <1>3, <1>4, <1>5

\* The clock makes a reservation stale, or lets a claim expire.
LEMMA Aging ==
  ASSUME TypeOK, NEW r \in Ids, ReviewClock(r)
  PROVE  /\ TypeOK' /\ UNCHANGED <<seen, previous, review, audit, object, sub, cleaner>>
         /\ OnlyRes(r) /\ res'[r].state = res[r].state
         /\ \/ res'[r].stale = res[r].stale
            \/ /\ res[r].state = "pending"
               /\ Slow \/ \A s \in Submissions : RequestOf[s] = r => ~ Running(s)
<1> DEFINE old == [res[r] EXCEPT !.stale = TRUE]
           free == [res[r] EXCEPT !.claimLive = FALSE]
<1>0. /\ res \in [Ids -> Reservation] /\ sub \in [Submissions -> SubRow]
      /\ seen \in [Ids -> VersionIds] /\ previous \in [Ids -> VersionIds] /\ review \in [Ids -> ReviewRow]
      /\ audit \in [Ids -> Nat] /\ object \in [Ids -> BOOLEAN] /\ cleaner \in [Workers -> CleanerRow]
      /\ faults \in 0 .. MaxFaults /\ res[r] \in Reservation
  BY Types
<1>1. /\ old \in Reservation /\ old.state = res[r].state
      /\ free \in Reservation /\ free.state = res[r].state /\ free.stale = res[r].stale
  BY <1>0 DEF Reservation
<1>2. /\ UNCHANGED <<seen, previous, review, audit, object, sub, cleaner, faults>>
      /\ \/ /\ res[r].state = "pending" /\ res' = [res EXCEPT ![r] = old]
            /\ Slow \/ \A s \in Submissions : RequestOf[s] = r => ~ Running(s)
         \/ res' = [res EXCEPT ![r] = free]
  BY DEF ReviewClock
<1> HIDE DEF old, free
<1>3. /\ OnlyRes(r) /\ res'[r].state = res[r].state
      /\ \/ res'[r].stale = res[r].stale
         \/ /\ res[r].state = "pending"
            /\ Slow \/ \A s \in Submissions : RequestOf[s] = r => ~ Running(s)
  BY <1>0, <1>1, <1>2 DEF OnlyRes
<1>4. TypeOK'
  BY <1>0, <1>2, <1>3, TypesAfter DEF OnlyRes
<1> QED
  BY <1>2, <1>3, <1>4

\* A comment or an approval, with its event.
Noted(r) ==
  /\ review[r] = NoReview
  /\ \E action \in {"comment", "approve"}, v \in Ids \cup {V0} :
        review' = [review EXCEPT ![r] = [action |-> action, target |-> v]]
  /\ audit' = [audit EXCEPT ![r] = @ + 1]
  /\ UNCHANGED <<res, previous>>

\* A comment or an approval writes its review and its audit event, and nothing else.
LEMMA Recording ==
  ASSUME TypeOK, NEW r \in Ids, NEW v \in Ids \cup {V0}, AddOutputComment(r, v) \/ ApproveOutputVersion(r, v)
  PROVE  TypeOK' /\ UNCHANGED <<seen, object, sub, cleaner>> /\ Noted(r)
<1>1. /\ UNCHANGED <<seen, res, previous, object, sub, cleaner, faults>> /\ Noted(r)
  BY DEF AddOutputComment, ApproveOutputVersion, Record, Noted
<1>2. \A action \in {"comment", "approve"}, u \in Ids \cup {V0} : [action |-> action, target |-> u] \in ReviewRow
  BY DEF ReviewRow, VersionIds
<1>3. review' \in [Ids -> ReviewRow] /\ audit' \in [Ids -> Nat]
  BY <1>1, <1>2, Types DEF Noted
<1> QED
  BY <1>1, <1>3, Types, TypesAfter

\* A member who opens the editor remembers a version; no table changes.
LEMMA Opening ==
  ASSUME TypeOK, NEW r \in Ids, OpenEditor(r)
  PROVE  TypeOK' /\ UNCHANGED <<tables, object, sub, cleaner>>
<1>1. UNCHANGED <<tables, object, sub, cleaner, faults>> /\ \E v \in Ids \cup {V0} : seen' = [seen EXCEPT ![r] = v]
  BY DEF OpenEditor
<1>2. seen' \in [Ids -> VersionIds]
  BY <1>1, Types DEF VersionIds
<1> QED
  BY <1>1, <1>2, Types, TypesAfter DEF tables

\* A request whose server dies leaves its reservation and its object behind.
LEMMA Dying ==
  ASSUME TypeOK, NEW s \in Submissions, SubmissionDies(s)
  PROVE  TypeOK' /\ UNCHANGED <<seen, tables, object, cleaner>> /\ Only(s) /\ sub'[s].pc = "over"
<1>1. Only(s) /\ sub'[s].pc = "over"
  BY Types, SubGoes DEF SubmissionDies, Only
<1> QED
  BY <1>1, Types, TypesAfter DEF SubmissionDies, Only, tables

\* The tables after any step: as they were, with one more comment or approval, or with
\* one more version.
Untouched ==
  /\ UNCHANGED <<previous, review, audit>>
  /\ \A r \in Ids : res'[r].state = "committed" <=> res[r].state = "committed"

\* Every step of reviews.py leaves the tables alone, or writes one review or one version whole.
LEMMA TablesChange ==
  ASSUME TypeOK, [Next]_vars
  PROVE  TypeOK' /\ (Untouched \/ \E r \in Ids : Noted(r) \/ Written(r))
<1> DEFINE Goal == TypeOK' /\ (Untouched \/ \E r \in Ids : Noted(r) \/ Written(r))
<1>r. \A s \in Submissions : RequestOf[s] \in Ids
  BY Types
<1>1. CASE \E r \in Ids, v \in Ids \cup {V0} : AddOutputComment(r, v) \/ ApproveOutputVersion(r, v)
  BY <1>1, Recording
<1>2. ASSUME NEW r \in Ids, OpenEditor(r) PROVE Goal
  BY <1>2, Opening DEF Untouched, tables
<1>3. ASSUME NEW r \in Ids, ReviewClock(r) PROVE Goal
  <2>1. TypeOK' /\ UNCHANGED <<previous, review, audit>> /\ OnlyRes(r) /\ res'[r].state = res[r].state
    BY <1>3, Aging
  <2> QED
    BY <2>1 DEF OnlyRes, Untouched
<1>4. ASSUME NEW s \in Submissions, ReserveOutputCorrection(s) PROVE Goal
  <2>1. /\ TypeOK' /\ UNCHANGED <<previous, review, audit>>
        /\ res' = res \/ Given(RequestOf[s])
    BY <1>4, Reserving
  <2> QED
    BY <1>r, <2>1 DEF Given, OnlyRes, Untouched
<1>5. ASSUME NEW s \in Submissions, UploadCorrection(s) PROVE Goal
  BY <1>5, Uploading DEF Untouched, tables
<1>6. ASSUME NEW s \in Submissions, CommitOutputCorrection(s) PROVE Goal
  <2>1. TypeOK' /\ (UNCHANGED tables \/ Written(RequestOf[s]))
    BY <1>6, Committing
  <2> QED
    BY <1>r, <2>1 DEF Untouched, tables
<1>7. ASSUME NEW s \in Submissions, DiscardObject(s) PROVE Goal
  BY <1>7, Discarding DEF Untouched, tables
<1>8. ASSUME NEW s \in Submissions, AbandonOutputCorrection(s) PROVE Goal
  <2>1. /\ TypeOK' /\ UNCHANGED <<previous, review, audit>>
        /\ \/ UNCHANGED res
           \/ /\ res[RequestOf[s]].state # "committed"
              /\ WrittenOff(RequestOf[s], IF sub[s].deleted THEN "aborted" ELSE "orphaned")
    BY <1>8, Abandoning
  <2> QED
    BY <1>r, <2>1 DEF WrittenOff, OnlyRes, Untouched
<1>9. ASSUME NEW s \in Submissions, SubmissionDies(s) PROVE Goal
  BY <1>9, Dying DEF Untouched, tables
<1>10. ASSUME NEW w \in Workers, NEW r \in Ids, ClaimOrphanedCorrectionUpload(w, r) PROVE Goal
  BY <1>10, Claiming DEF WrittenOff, OnlyRes, Untouched
<1>11. ASSUME NEW w \in Workers, DeleteOrphanedObject(w) PROVE Goal
  BY <1>11, Deleting DEF Untouched, tables
<1>12. ASSUME NEW w \in Workers, FinalizeCorrectionCleanup(w) \/ CleanerDies(w) PROVE Goal
  <2>1. /\ TypeOK' /\ UNCHANGED <<previous, review, audit>>
        /\ \/ UNCHANGED res
           \/ /\ res[cleaner[w].id].state = "orphaned"
              /\ OnlyRes(cleaner[w].id) /\ res'[cleaner[w].id].state = "aborted"
    BY <1>12, Finalizing
  <2> QED
    BY <2>1 DEF OnlyRes, Untouched
<1>13. CASE UNCHANGED vars
  BY <1>13, Types, TypesAfter DEF vars, Untouched
<1> HIDE DEF Goal
<1>14. Goal
  BY <1>1, <1>2, <1>3, <1>4, <1>5, <1>6, <1>7, <1>8, <1>9, <1>10, <1>11, <1>12, <1>13 DEF Next, Submit, CleanUp, Goal
<1> QED
  BY <1>14 DEF Goal

\* Every review, reservation, version and cleanup stays in its range (the checked type invariant).
THEOREM Typed == Spec => []TypeOK
<1>1. Init => TypeOK
  <2>1. NoReservation \in Reservation /\ NoReview \in ReviewRow
    BY DEF NoReservation, Reservation, NoReview, ReviewRow, VersionIds
  <2> QED
    BY <2>1, ReviewAssumption DEF Init, TypeOK, ReviewRow, VersionIds
<1>2. TypeOK /\ [Next]_vars => TypeOK'
  BY TablesChange
<1> QED
  BY <1>1, <1>2, PTL DEF Spec

\* A new version is the next one of the chain.
LEMMA ChainGrows ==
  ASSUME TypeOK, IsFiniteSet(Versions), ChainIsLinear, NEW r \in Ids, previous[r] = None, Written(r)
  PROVE  IsFiniteSet(Versions)' /\ ChainIsLinear' /\ Versions' = Versions \cup {r}
<1> DEFINE b == res[r].base
           n == Cardinality(Versions)
           Parent(q, i) == IF i = 1 THEN V0 ELSE q[i - 1]
<1>0. /\ previous \in [Ids -> VersionIds] /\ V0 \notin Ids /\ None \notin Ids \cup {V0}
      /\ IsCurrent(b) /\ previous' = [previous EXCEPT ![r] = b]
      /\ Versions \subseteq Ids /\ r \notin Versions /\ n \in Nat
  BY Types, ReviewAssumption, FS_CardinalityType DEF Written, Committable, Versions
<1>1. b \in Versions \cup {V0} /\ \A u \in Versions : previous[u] # b
  BY <1>0, CurrentIsLeaf
<1> HIDE DEF b
<1>2. b # None
  BY <1>0, <1>1
<1>3. Versions' = Versions \cup {r}
  BY <1>0, <1>2 DEF Versions
<1>4. IsFiniteSet(Versions') /\ Cardinality(Versions') = n + 1
  BY <1>0, <1>3, FS_AddElement
<1>5. \A x : Children(x)' = IF x = b THEN {r} ELSE Children(x)
  BY <1>0, <1>1, <1>3 DEF Children
<1>6. PICK q \in [1 .. n -> Versions] : OrderedChain(q)
  BY DEF ChainIsLinear
<1>7. /\ \A i \in 1 .. n : Children(Parent(q, i)) = {q[i]}
      /\ Versions = {q[i] : i \in 1 .. n}
  BY <1>6 DEF OrderedChain
<1>8. ASSUME NEW i \in 1 .. n PROVE Parent(q, i) # b
  <2>1. q[i] \in Children(Parent(q, i))
    BY <1>7
  <2> QED
    BY <1>1, <2>1 DEF Children
<1>9. Parent(q, n + 1) = b
  <2>1. CASE b = V0
    <3>1. n = 0
      <4> SUFFICES ASSUME 1 \in 1 .. n PROVE FALSE
        BY <1>0
      <4> QED
        BY <1>8, <2>1
    <3> QED
      BY <2>1, <3>1
  <2>2. CASE b \in Versions
    <3>1. PICK k \in 1 .. n : q[k] = b
      BY <1>7, <2>2
    <3>2. k = n
      <4> SUFFICES ASSUME k + 1 \in 1 .. n PROVE FALSE
        BY <1>0, <3>1
      <4>1. Parent(q, k + 1) = q[k]
        BY <3>1
      <4> QED
        BY <1>8, <3>1, <4>1
    <3> QED
      BY <1>0, <3>1, <3>2
  <2> QED
    BY <1>1, <2>1, <2>2
<1>10. PICK p \in [1 .. n + 1 -> Versions \cup {r}] : p = [i \in 1 .. n + 1 |-> IF i = n + 1 THEN r ELSE q[i]]
  <2>1. \A i \in 1 .. n + 1 : (IF i = n + 1 THEN r ELSE q[i]) \in Versions \cup {r}
    BY <1>0, <1>6
  <2> QED
    BY <2>1
<1>11. p[n + 1] = r /\ (\A i \in 1 .. n : p[i] = q[i]) /\ DOMAIN p = 1 .. n + 1
  BY <1>0, <1>10
<1>12. \A i \in 1 .. n + 1 : Parent(p, i) = Parent(q, i)
  BY <1>0, <1>11
<1>13. ASSUME NEW i \in 1 .. n + 1 PROVE Children(Parent(p, i))' = {p[i]}
  <2>1. CASE i = n + 1
    BY <1>5, <1>9, <1>11, <1>12, <2>1
  <2>2. CASE i # n + 1
    <3>1. i \in 1 .. n
      BY <1>0, <2>2
    <3> QED
      BY <1>5, <1>7, <1>8, <1>11, <1>12, <3>1
  <2> QED
    BY <2>1, <2>2
<1>14. Versions' = {p[i] : i \in 1 .. n + 1}
  BY <1>0, <1>3, <1>7, <1>11
<1>15. OrderedChain(p)'
  BY <1>11, <1>13, <1>14 DEF OrderedChain
<1>16. ChainIsLinear'
  BY <1>3, <1>4, <1>10, <1>15 DEF ChainIsLinear
<1> QED
  BY <1>3, <1>4, <1>16

\* The output starts with no version, no review and no reservation.
LEMMA BooksInitially == Init => BooksInv
<1> SUFFICES ASSUME Init PROVE BooksInv
  OBVIOUS
<1>1. TypeOK
  <2>1. NoReservation \in Reservation /\ NoReview \in ReviewRow
    BY DEF NoReservation, Reservation, NoReview, ReviewRow, VersionIds
  <2> QED
    BY <2>1, ReviewAssumption DEF Init, TypeOK, ReviewRow, VersionIds
<1>2. Versions = {}
  BY DEF Init, Versions
<1>3. IsFiniteSet(Versions) /\ Cardinality(Versions) = 0
  BY <1>2, FS_EmptySet
<1>4. ChainIsLinear
  <2> DEFINE q == [i \in 1 .. 0 |-> V0]
  <2>1. q \in [1 .. 0 -> Versions] /\ OrderedChain(q)
    BY <1>2 DEF OrderedChain
  <2> HIDE DEF q
  <2> QED
    BY <1>3, <2>1 DEF ChainIsLinear
<1>5. RecordedOnce
  BY <1>2 DEF Init, RecordedOnce, NoReview, NoReservation
<1> QED
  BY <1>1, <1>3, <1>4, <1>5 DEF BooksInv, ReviewsAreRecorded

\* BooksInv is inductive: a version is only added at the end of the line, with its review and its commit.
LEMMA BooksInductive == BooksInv /\ [Next]_vars => BooksInv'
<1> SUFFICES ASSUME BooksInv, [Next]_vars PROVE BooksInv'
  OBVIOUS
<1>0. /\ TypeOK /\ IsFiniteSet(Versions) /\ ChainIsLinear /\ RecordedOnce
      /\ previous \in [Ids -> VersionIds] /\ review \in [Ids -> ReviewRow] /\ audit \in [Ids -> Nat]
      /\ res \in [Ids -> Reservation] /\ None \notin Ids \cup {V0}
  BY Types, ReviewAssumption DEF BooksInv, ReviewsAreRecorded
<1>1. TypeOK' /\ (Untouched \/ \E r \in Ids : Noted(r) \/ Written(r))
  BY <1>0, TablesChange
<1>2. ASSUME UNCHANGED previous PROVE IsFiniteSet(Versions)' /\ ChainIsLinear' /\ Versions' = Versions
  <2>1. Versions' = Versions
    BY <1>2 DEF Versions
  <2>2. \A x : Children(x)' = Children(x)
    BY <1>2, <2>1 DEF Children
  <2>3. PICK q \in [1 .. Cardinality(Versions) -> Versions] : OrderedChain(q)
    BY <1>0 DEF ChainIsLinear
  <2>4. OrderedChain(q)'
    BY <2>1, <2>2, <2>3 DEF OrderedChain
  <2> QED
    BY <1>0, <2>1, <2>3, <2>4 DEF ChainIsLinear
<1>3. CASE Untouched
  <2>1. RecordedOnce'
    BY <1>0, <1>2, <1>3 DEF Untouched, RecordedOnce
  <2> QED
    BY <1>1, <1>2, <1>3, <2>1 DEF BooksInv, ReviewsAreRecorded, Untouched
<1>4. ASSUME NEW r \in Ids, Noted(r) PROVE BooksInv'
  <2>1. UNCHANGED <<res, previous>> /\ review[r] = NoReview /\ audit' = [audit EXCEPT ![r] = @ + 1]
    BY <1>4 DEF Noted
  <2>2. /\ review'[r] # NoReview /\ review'[r] # [action |-> "correct", target |-> r]
        /\ \A i \in Ids : i # r => review'[i] = review[i]
    BY <1>0, <1>4 DEF Noted, NoReview
  <2>3. RecordedOnce'
    <3>1. ASSUME NEW i \in Ids, i # r
          PROVE  /\ i \in Versions' <=> res'[i].state = "committed"
                 /\ i \in Versions' <=> review'[i] = [action |-> "correct", target |-> i]
                 /\ audit'[i] = IF review'[i] = NoReview THEN 0 ELSE 1
      BY <1>0, <1>2, <2>1, <2>2, <3>1 DEF RecordedOnce
    <3>2. /\ r \notin Versions /\ res[r].state # "committed" /\ audit'[r] = 1
      BY <1>0, <2>1 DEF RecordedOnce, NoReview
    <3>3. /\ r \in Versions' <=> res'[r].state = "committed"
          /\ r \in Versions' <=> review'[r] = [action |-> "correct", target |-> r]
          /\ audit'[r] = IF review'[r] = NoReview THEN 0 ELSE 1
      BY <1>2, <2>1, <2>2, <3>2
    <3> QED
      BY <3>1, <3>3 DEF RecordedOnce
  <2> QED
    BY <1>1, <1>2, <2>1, <2>3 DEF BooksInv, ReviewsAreRecorded
<1>5. ASSUME NEW r \in Ids, Written(r) PROVE BooksInv'
  <2>1. review[r] = NoReview /\ res' \in [Ids -> Reservation] /\ res'[r].state = "committed"
        /\ \A i \in Ids : i # r => res'[i] = res[i]
    BY <1>5 DEF Written, Committable, OnlyRes
  <2>2. r \notin Versions /\ previous[r] = None /\ audit[r] = 0
    BY <1>0, <2>1 DEF RecordedOnce, NoReview, Versions
  <2>3. IsFiniteSet(Versions)' /\ ChainIsLinear' /\ Versions' = Versions \cup {r}
    BY <1>0, <1>5, <2>2, ChainGrows
  <2>4. /\ review'[r] = [action |-> "correct", target |-> r] /\ audit'[r] = 1
        /\ \A i \in Ids : i # r => review'[i] = review[i] /\ audit'[i] = audit[i]
    BY <1>0, <1>5, <2>2 DEF Written
  <2>5. RecordedOnce'
    BY <1>0, <2>1, <2>3, <2>4 DEF RecordedOnce, NoReview
  <2> QED
    BY <1>1, <2>3, <2>5 DEF BooksInv, ReviewsAreRecorded
<1> QED
  BY <1>1, <1>3, <1>4, <1>5

\* However requests race, are sent again, lose their answers or die: the versions of an
\* output form one chain that _ordered_chain reads from end to end, and a version, its
\* reservation, its review and its one event are on record together.
THEOREM Recorded == Spec => []ReviewsAreRecorded
<1>1. Init => BooksInv
  BY BooksInitially
<1>2. BooksInv => ReviewsAreRecorded
  BY DEF BooksInv
<1> QED
  BY <1>1, <1>2, BooksInductive, PTL DEF Spec

\* No step changes a version, its place in the line or a recorded review.
LEMMA StaysOnRecord ==
  ASSUME BooksInv, [Next]_vars, NEW r \in Ids
  PROVE  /\ r \in Versions => previous'[r] = previous[r] /\ res'[r].state = "committed"
         /\ review[r] # NoReview => review'[r] = review[r]
<1>0. TypeOK /\ RecordedOnce
  BY DEF BooksInv, ReviewsAreRecorded
<1>1. previous \in [Ids -> VersionIds] /\ review \in [Ids -> ReviewRow]
  BY <1>0, Types
<1>2. Untouched \/ \E i \in Ids : Noted(i) \/ Written(i)
  BY <1>0, TablesChange
<1>3. CASE Untouched
  BY <1>0, <1>3 DEF Untouched, RecordedOnce
<1>4. ASSUME NEW i \in Ids, Noted(i)
      PROVE  /\ r \in Versions => previous'[r] = previous[r] /\ res'[r].state = "committed"
             /\ review[r] # NoReview => review'[r] = review[r]
  BY <1>0, <1>1, <1>4 DEF Noted, RecordedOnce
<1>5. ASSUME NEW i \in Ids, Written(i)
      PROVE  /\ r \in Versions => previous'[r] = previous[r] /\ res'[r].state = "committed"
             /\ review[r] # NoReview => review'[r] = review[r]
  <2>1. review[i] = NoReview /\ i \notin Versions
    BY <1>0, <1>5 DEF Written, Committable, RecordedOnce, NoReview
  <2> QED
    BY <1>0, <1>1, <1>5, <2>1 DEF Written, OnlyRes, RecordedOnce
<1> QED
  BY <1>2, <1>3, <1>4, <1>5

\* A version never disappears or moves, and what was commented on or approved stays on
\* record as it was.
THEOREM Immutable == Spec => HistoryIsImmutable
<1>1. BooksInv /\ [Next]_vars =>
        [\A r \in Ids : /\ r \in Versions => previous'[r] = previous[r] /\ res'[r].state = "committed"
                        /\ review[r] # NoReview => review'[r] = review[r]]_vars
  <2>1. BooksInv /\ [Next]_vars => \A r \in Ids :
          /\ r \in Versions => previous'[r] = previous[r] /\ res'[r].state = "committed"
          /\ review[r] # NoReview => review'[r] = review[r]
    BY StaysOnRecord
  <2> QED
    BY <2>1
<1> QED
  BY <1>1, BooksInitially, BooksInductive, PTL DEF Spec, HistoryIsImmutable

-----------------------------------------------------------------------------
(***************************************************************************)
(* The object of a version.                                                *)
(***************************************************************************)

\* At most one submission works on a reservation; one that will undo has not been
\* committed, one that will commit has uploaded.
Alone == \A s, o \in Submissions : RequestOf[s] = RequestOf[o] /\ Running(s) /\ Running(o) => s = o

Careful(s) ==
  LET state == res[RequestOf[s]].state IN
  /\ sub[s].pc \in {"upload", "discard"} => state # "committed"
  /\ sub[s].pc = "commit" => /\ sub[s].replay \/ state # "committed"
                             /\ state = "pending" => object[RequestOf[s]]

\* The cleanup has only what was written off.
Cleaning(w) ==
  cleaner[w].pc # "idle" => cleaner[w].id \in Ids /\ res[cleaner[w].id].state \in {"orphaned", "aborted"}

Kept == \A r \in Ids : res[r].state = "committed" => object[r]

KeptInv == Alone /\ (\A s \in Submissions : Careful(s)) /\ (\A w \in Workers : Cleaning(w)) /\ Kept

\* The cleanup keeps to what was written off, whatever happens.
LEMMA CleaningStays ==
  ASSUME TypeOK, \A w \in Workers : Cleaning(w), [Next]_vars
  PROVE  \A w \in Workers : Cleaning(w)'
<1> DEFINE Goal == \A w \in Workers : Cleaning(w)'
<1> HIDE DEF Goal
<1>r. \A s \in Submissions : RequestOf[s] \in Ids
  BY Types
<1>c. cleaner \in [Workers -> CleanerRow] /\ \A w \in Workers : cleaner[w] \in CleanerRow
  BY Types
<1>1. ASSUME UNCHANGED cleaner,
             \A i \in Ids : res[i].state \in {"orphaned", "aborted"} => res'[i].state \in {"orphaned", "aborted"}
      PROVE  Goal
  BY <1>1 DEF Cleaning, Goal
<1>2. ASSUME \E r \in Ids, v \in Ids \cup {V0} : AddOutputComment(r, v) \/ ApproveOutputVersion(r, v) PROVE Goal
  BY <1>1, <1>2, Recording DEF Noted
<1>3. ASSUME NEW r \in Ids, OpenEditor(r) PROVE Goal
  BY <1>1, <1>3, Opening DEF tables
<1>4. ASSUME NEW r \in Ids, ReviewClock(r) PROVE Goal
  BY <1>1, <1>4, Aging DEF OnlyRes
<1>5. ASSUME NEW s \in Submissions, ReserveOutputCorrection(s) PROVE Goal
  <2>1. UNCHANGED cleaner /\ (res' = res \/ Given(RequestOf[s]))
    BY <1>5, Reserving
  <2> QED
    BY <1>1, <1>r, <2>1 DEF Given, OnlyRes
<1>6. ASSUME NEW s \in Submissions, UploadCorrection(s) \/ DiscardObject(s) \/ SubmissionDies(s) PROVE Goal
  BY <1>1, <1>6, Uploading, Discarding, Dying DEF tables
<1>7. ASSUME NEW s \in Submissions, CommitOutputCorrection(s) PROVE Goal
  <2>1. UNCHANGED cleaner /\ (UNCHANGED tables \/ Written(RequestOf[s]))
    BY <1>7, Committing
  <2> QED
    BY <1>1, <1>r, <2>1 DEF Written, Committable, OnlyRes, tables
<1>8. ASSUME NEW s \in Submissions, AbandonOutputCorrection(s) PROVE Goal
  <2>1. /\ UNCHANGED cleaner
        /\ UNCHANGED res \/ WrittenOff(RequestOf[s], IF sub[s].deleted THEN "aborted" ELSE "orphaned")
    BY <1>8, Abandoning
  <2> QED
    BY <1>1, <1>r, <2>1 DEF WrittenOff, OnlyRes
<1>9. ASSUME NEW w \in Workers, NEW r \in Ids, ClaimOrphanedCorrectionUpload(w, r) PROVE Goal
  <2>1. /\ WrittenOff(r, "orphaned")
        /\ cleaner' = cleaner \/ cleaner' = [cleaner EXCEPT ![w] = [pc |-> "delete", id |-> r]]
    BY <1>9, Claiming
  <2> QED
    BY <1>c, <2>1 DEF Cleaning, WrittenOff, OnlyRes, Goal
<1>10. ASSUME NEW w \in Workers, DeleteOrphanedObject(w) PROVE Goal
  <2>1. /\ UNCHANGED res /\ cleaner[w].pc = "delete"
        /\ \A u \in Workers : u # w => cleaner'[u] = cleaner[u]
        /\ cleaner'[w].pc = "idle" \/ cleaner'[w].id = cleaner[w].id
    BY <1>10, Deleting DEF tables
  <2> QED
    BY <2>1 DEF Cleaning, Goal
<1>11. ASSUME NEW w \in Workers, FinalizeCorrectionCleanup(w) \/ CleanerDies(w) PROVE Goal
  <2>1. /\ cleaner'[w].pc = "idle" /\ \A u \in Workers : u # w => cleaner'[u] = cleaner[u]
        /\ UNCHANGED res \/ (OnlyRes(cleaner[w].id) /\ res'[cleaner[w].id].state = "aborted")
    BY <1>11, Finalizing
  <2> QED
    BY <2>1 DEF Cleaning, OnlyRes, Goal
<1>12. ASSUME UNCHANGED vars PROVE Goal
  BY <1>1, <1>12 DEF vars
<1>13. Goal
  BY <1>2, <1>3, <1>4, <1>5, <1>6, <1>7, <1>8, <1>9, <1>10, <1>11, <1>12 DEF Next, Submit, CleanUp
<1> QED
  BY <1>13 DEF Goal

\* KeptInv is inductive when no commit loses its answer and no request is sent twice at once.
LEMMA KeptInductive ==
  ASSUME ~ LostCommits, ~ Overlapping, TypeOK, KeptInv, [Next]_vars
  PROVE  KeptInv'
<1> DEFINE Goal == Alone' /\ (\A s \in Submissions : Careful(s)') /\ Kept'
<1> HIDE DEF Goal
<1>r. \A s \in Submissions : RequestOf[s] \in Ids
  BY Types
<1>0. /\ Alone /\ (\A s \in Submissions : Careful(s)) /\ (\A w \in Workers : Cleaning(w)) /\ Kept
      /\ object \in [Ids -> BOOLEAN]
  BY Types DEF KeptInv
<1>1. ASSUME UNCHANGED <<object, sub>>,
             \A i \in Ids : res'[i].state = res[i].state
                            \/ (res[i].state # "committed" /\ res'[i].state \in {"orphaned", "aborted"})
      PROVE  Goal
  BY <1>0, <1>1, <1>r DEF Alone, Careful, Kept, Running, Goal
<1>2. ASSUME \E r \in Ids, v \in Ids \cup {V0} : AddOutputComment(r, v) \/ ApproveOutputVersion(r, v) PROVE Goal
  BY <1>1, <1>2, Recording DEF Noted
<1>3. ASSUME NEW r \in Ids, OpenEditor(r) PROVE Goal
  BY <1>1, <1>3, Opening DEF tables
<1>4. ASSUME NEW r \in Ids, ReviewClock(r) PROVE Goal
  BY <1>1, <1>4, Aging DEF OnlyRes
<1>5. ASSUME NEW s \in Submissions, ReserveOutputCorrection(s) PROVE Goal
  <2> DEFINE r == RequestOf[s]
  <2>1. /\ UNCHANGED object /\ Only(s) /\ \A o \in Submissions : RequestOf[o] = r => ~ Running(o)
        /\ res' = res \/ Given(r)
        /\ \/ sub'[s].pc = "over"
           \/ sub'[s].pc = "upload" /\ res'[r].state = "pending"
           \/ sub'[s].pc = "commit" /\ sub'[s].replay /\ res'[r].state = "committed"
    BY <1>5, Reserving
  <2>2. \A i \in Ids : i # r => res'[i] = res[i]
    BY <2>1 DEF Given, OnlyRes
  <2>3. res'[r].state = "committed" => res[r].state = "committed"
    BY <2>1 DEF Given
  <2>4. Alone'
    BY <1>0, <2>1 DEF Alone, Running, Only
  <2>5. Careful(s)'
    BY <2>1 DEF Careful
  <2>6. ASSUME NEW o \in Submissions, o # s PROVE Careful(o)'
    <3>1. sub'[o] = sub[o] /\ RequestOf[o] \in Ids
      BY <1>r, <2>1, <2>6 DEF Only
    <3>2. CASE RequestOf[o] = r
      BY <2>1, <3>1, <3>2 DEF Careful, Running
    <3>3. CASE RequestOf[o] # r
      BY <1>0, <2>1, <2>2, <3>1, <3>3 DEF Careful
    <3> QED
      BY <3>2, <3>3
  <2>7. Kept'
    BY <1>0, <1>r, <2>1, <2>2, <2>3 DEF Kept
  <2> QED
    BY <2>4, <2>5, <2>6, <2>7 DEF Goal
<1>a. ASSUME NEW s \in Submissions, Running(s), Only(s),
             \A i \in Ids : i # RequestOf[s] => res'[i] = res[i] /\ object'[i] = object[i],
             Careful(s)', res'[RequestOf[s]].state = "committed" => object'[RequestOf[s]]
      PROVE  Goal
  <2> DEFINE r == RequestOf[s]
  <2>1. \A o \in Submissions : o # s /\ RequestOf[o] = r => ~ Running(o)
    BY <1>0, <1>a DEF Alone
  <2>2. Alone'
    <3>1. \A o \in Submissions : o # s => (Running(o)' <=> Running(o))
      BY <1>a DEF Only, Running
    <3> QED
      BY <1>0, <1>a, <2>1, <3>1 DEF Alone
  <2>3. ASSUME NEW o \in Submissions, o # s PROVE Careful(o)'
    <3>1. sub'[o] = sub[o] /\ RequestOf[o] \in Ids
      BY <1>a, <1>r, <2>3 DEF Only
    <3>2. CASE RequestOf[o] = r
      BY <2>1, <2>3, <3>1, <3>2 DEF Careful, Running
    <3>3. CASE RequestOf[o] # r
      BY <1>0, <1>a, <3>1, <3>3 DEF Careful
    <3> QED
      BY <3>2, <3>3
  <2>4. Kept'
    BY <1>0, <1>a DEF Kept
  <2> QED
    BY <1>a, <2>2, <2>3, <2>4 DEF Goal
<1>6. ASSUME NEW s \in Submissions, UploadCorrection(s) PROVE Goal
  <2> DEFINE r == RequestOf[s]
  <2>1. /\ UNCHANGED res /\ sub[s].pc = "upload" /\ Only(s)
        /\ object' = object \/ object' = [object EXCEPT ![r] = TRUE]
        /\ sub'[s].pc = "discard" \/ (sub'[s].pc = "commit" /\ object'[r])
    BY <1>6, Uploading DEF tables
  <2>2. r \in Ids /\ res[r].state # "committed"
    BY <1>0, <1>r, <2>1 DEF Careful
  <2>3. Careful(s)'
    BY <2>1, <2>2 DEF Careful
  <2>4. \A i \in Ids : i # r => object'[i] = object[i]
    BY <1>0, <2>1
  <2> QED
    BY <1>a, <2>1, <2>2, <2>3, <2>4 DEF Running
<1>7. ASSUME NEW s \in Submissions, CommitOutputCorrection(s) PROVE Goal
  <2> DEFINE r == RequestOf[s]
  <2>1. /\ UNCHANGED object /\ sub[s].pc = "commit" /\ Only(s) /\ sub'[s].replay = sub[s].replay
        /\ UNCHANGED tables \/ (Written(r) /\ sub'[s].pc = "over")
        /\ \/ sub'[s].pc = "over"
           \/ sub'[s].pc = "discard" /\ ~ sub[s].replay
           \/ sub'[s].pc = "abandon" /\ sub[s].replay
    BY <1>7, Committing
  <2>2. Careful(s) /\ r \in Ids
    BY <1>0, <1>r
  <2>3. UNCHANGED res \/ (res[r].state = "pending" /\ OnlyRes(r) /\ sub'[s].pc = "over")
    BY <2>1 DEF Written, Committable, tables
  <2>4. Careful(s)'
    BY <2>1, <2>2, <2>3 DEF Careful
  <2>5. res'[r].state = "committed" => object'[r]
    BY <1>0, <2>1, <2>2, <2>3 DEF Careful, Kept
  <2> QED
    BY <1>a, <2>1, <2>3, <2>4, <2>5 DEF Running, OnlyRes
<1>8. ASSUME NEW s \in Submissions, DiscardObject(s) PROVE Goal
  <2> DEFINE r == RequestOf[s]
  <2>1. /\ UNCHANGED res /\ sub[s].pc = "discard" /\ Only(s) /\ sub'[s].pc = "abandon"
        /\ object' = object \/ object' = [object EXCEPT ![r] = FALSE]
    BY <1>8, Discarding DEF tables
  <2>2. r \in Ids /\ res[r].state # "committed" /\ \A i \in Ids : i # r => object'[i] = object[i]
    BY <1>0, <1>r, <2>1 DEF Careful
  <2>3. Careful(s)'
    BY <2>1 DEF Careful
  <2> QED
    BY <1>a, <2>1, <2>2, <2>3 DEF Running
<1>9. ASSUME NEW s \in Submissions, AbandonOutputCorrection(s) PROVE Goal
  <2> DEFINE r == RequestOf[s]
             state == IF sub[s].deleted THEN "aborted" ELSE "orphaned"
  <2>1. /\ UNCHANGED object /\ sub[s].pc = "abandon" /\ Only(s) /\ sub'[s].pc = "over"
        /\ UNCHANGED res \/ (res[r].state # "committed" /\ WrittenOff(r, state))
    BY <1>9, Abandoning
  <2>2. r \in Ids /\ (res'[r].state = "committed" => object'[r])
    BY <1>0, <1>r, <2>1 DEF WrittenOff, Kept
  <2>3. Careful(s)'
    BY <2>1 DEF Careful
  <2> QED
    BY <1>a, <2>1, <2>2, <2>3 DEF Running, WrittenOff, OnlyRes
<1>10. ASSUME NEW s \in Submissions, SubmissionDies(s) PROVE Goal
  <2>1. UNCHANGED <<tables, object>> /\ Only(s) /\ sub'[s].pc = "over" /\ Running(s)
    BY <1>10, Dying DEF SubmissionDies
  <2>2. Careful(s)'
    BY <2>1 DEF Careful
  <2> QED
    BY <1>0, <1>a, <1>r, <2>1, <2>2 DEF tables, Kept
<1>11. ASSUME NEW w \in Workers, NEW r \in Ids, ClaimOrphanedCorrectionUpload(w, r) PROVE Goal
  BY <1>1, <1>11, Claiming DEF WrittenOff, OnlyRes
<1>12. ASSUME NEW w \in Workers, DeleteOrphanedObject(w) PROVE Goal
  <2> DEFINE r == cleaner[w].id
  <2>1. /\ UNCHANGED <<tables, sub>> /\ cleaner[w].pc = "delete"
        /\ object' = object \/ object' = [object EXCEPT ![r] = FALSE]
    BY <1>12, Deleting
  <2>2. r \in Ids /\ res[r].state \in {"orphaned", "aborted"} /\ \A i \in Ids : i # r => object'[i] = object[i]
    BY <1>0, <2>1 DEF Cleaning
  <2> QED
    BY <1>0, <1>r, <2>1, <2>2 DEF tables, Alone, Careful, Kept, Running, Goal
<1>13. ASSUME NEW w \in Workers, FinalizeCorrectionCleanup(w) \/ CleanerDies(w) PROVE Goal
  BY <1>1, <1>13, Finalizing DEF OnlyRes
<1>14. ASSUME UNCHANGED vars PROVE Goal
  BY <1>1, <1>14 DEF vars
<1>15. Goal
  BY <1>2, <1>3, <1>4, <1>5, <1>6, <1>7, <1>8, <1>9, <1>10, <1>11, <1>12, <1>13, <1>14 DEF Next, Submit, CleanUp
<1> QED
  BY <1>0, <1>15, CleaningStays DEF KeptInv, Goal

\* A version that members can read keeps its object, however slow requests and cleanups
\* are: as long as a commit does not lose its answer, and a member does not send a
\* request again while it runs.
THEOREM KeptObjects ==
  ASSUME ~ LostCommits, ~ Overlapping
  PROVE  Spec => []CommittedHasObject
<1>1. Init => KeptInv
  BY DEF Init, KeptInv, Alone, Careful, Cleaning, Kept, Running, NoReservation
<1>2. BooksInv /\ KeptInv /\ [Next]_vars => KeptInv'
  BY KeptInductive DEF BooksInv
<1>3. BooksInv /\ KeptInv => CommittedHasObject
  BY DEF BooksInv, ReviewsAreRecorded, RecordedOnce, KeptInv, Kept, CommittedHasObject, Versions
<1> QED
  BY <1>1, <1>2, <1>3, BooksInitially, BooksInductive, PTL DEF Spec

-----------------------------------------------------------------------------
(***************************************************************************)
(* The objects of everybody else.                                          *)
(***************************************************************************)

\* A request that is still running has a reservation the cleanup leaves alone.
Owns(s) ==
  LET r == RequestOf[s] IN
  /\ sub[s].pc = "new" => res[r].state = "none"
  /\ sub[s].pc # "over" => ~ res[r].stale /\ res[r].state \notin {"aborted", "orphaned"}
  /\ Running(s) => res[r].state # "none"
  /\ sub[s].pc \in {"new", "upload", "commit"} => ~ sub[s].replay
  /\ sub[s].pc = "abandon" /\ sub[s].deleted => ~ object[r] \/ res[r].state = "committed"

Gone(w) == cleaner[w].pc = "finalize" => ~ object[cleaner[w].id]

TrackedInv ==
  /\ \A s \in Submissions : Owns(s)
  /\ \A w \in Workers : Cleaning(w) /\ Gone(w)
  /\ ObjectIsTracked

\* TrackedInv is inductive when each request is sent once and is faster than the grace period.
LEMMA TrackedInductive ==
  ASSUME ~ Slow, \A s, o \in Submissions : RequestOf[s] = RequestOf[o] => s = o,
         TypeOK, TrackedInv, [Next]_vars
  PROVE  TrackedInv'
<1> DEFINE Goal == (\A s \in Submissions : Owns(s)') /\ (\A w \in Workers : Gone(w)') /\ ObjectIsTracked'
<1> HIDE DEF Goal
<1>r. /\ \A s \in Submissions : RequestOf[s] \in Ids
      /\ \A s, o \in Submissions : RequestOf[s] = RequestOf[o] => s = o
  BY Types
<1>0. /\ (\A s \in Submissions : Owns(s)) /\ (\A w \in Workers : Cleaning(w) /\ Gone(w)) /\ ObjectIsTracked
      /\ object \in [Ids -> BOOLEAN]
  BY Types DEF TrackedInv
<1>1. ASSUME UNCHANGED <<object, sub, cleaner>>, \A i \in Ids : res'[i] = res[i] PROVE Goal
  BY <1>0, <1>1, <1>r DEF Owns, Gone, ObjectIsTracked, Running, Goal
<1>a. ASSUME NEW s \in Submissions, Only(s), UNCHANGED cleaner,
             \A i \in Ids : i # RequestOf[s] => res'[i] = res[i] /\ object'[i] = object[i],
             Owns(s)', object'[RequestOf[s]] => res'[RequestOf[s]].state \in {"pending", "committed", "orphaned"},
             object'[RequestOf[s]] => object[RequestOf[s]] \/ res[RequestOf[s]].state \in {"pending", "committed"}
      PROVE  Goal
  <2>1. ASSUME NEW o \in Submissions, o # s PROVE Owns(o)'
    <3>1. sub'[o] = sub[o] /\ RequestOf[o] \in Ids /\ RequestOf[o] # RequestOf[s]
      BY <1>a, <1>r, <2>1 DEF Only
    <3> QED
      BY <1>0, <1>a, <3>1 DEF Owns, Running
  <2>2. ASSUME NEW w \in Workers PROVE Gone(w)'
    <3>1. cleaner[w].pc = "finalize" => /\ cleaner[w].id \in Ids /\ ~ object[cleaner[w].id]
                                        /\ res[cleaner[w].id].state \in {"orphaned", "aborted"}
      BY <1>0 DEF Cleaning, Gone
    <3> QED
      BY <1>a, <3>1 DEF Gone
  <2>3. ObjectIsTracked'
    BY <1>0, <1>a DEF ObjectIsTracked
  <2> QED
    BY <1>a, <2>1, <2>2, <2>3 DEF Goal
<1>2. ASSUME \E r \in Ids, v \in Ids \cup {V0} : AddOutputComment(r, v) \/ ApproveOutputVersion(r, v) PROVE Goal
  BY <1>1, <1>2, Recording DEF Noted
<1>3. ASSUME NEW r \in Ids, OpenEditor(r) PROVE Goal
  BY <1>1, <1>3, Opening DEF tables
<1>4. ASSUME NEW r \in Ids, ReviewClock(r) PROVE Goal
  <2>1. /\ UNCHANGED <<object, sub, cleaner>> /\ OnlyRes(r) /\ res'[r].state = res[r].state
        /\ \/ res'[r].stale = res[r].stale
           \/ res[r].state = "pending" /\ \A s \in Submissions : RequestOf[s] = r => ~ Running(s)
    BY <1>4, Aging
  <2>2. \A i \in Ids : res'[i].state = res[i].state
    BY <2>1 DEF OnlyRes
  <2>3. ASSUME NEW s \in Submissions PROVE Owns(s)'
    <3>1. Owns(s) /\ RequestOf[s] \in Ids
      BY <1>0, <1>r
    <3>2. sub[s].pc # "over" => res'[RequestOf[s]].stale = res[RequestOf[s]].stale
      BY <2>1, <3>1 DEF Owns, Running, OnlyRes
    <3> QED
      BY <2>1, <2>2, <3>1, <3>2 DEF Owns, Running
  <2> QED
    BY <1>0, <2>1, <2>2, <2>3 DEF Goal, Gone, ObjectIsTracked
<1>5. ASSUME NEW s \in Submissions, ReserveOutputCorrection(s) PROVE Goal
  <2> DEFINE r == RequestOf[s]
  <2>1. /\ UNCHANGED <<object, cleaner>> /\ Only(s) /\ sub[s].pc = "new"
        /\ res' = res \/ Given(r)
        /\ \/ sub'[s].pc = "over"
           \/ sub'[s].pc = "upload" /\ ~ sub'[s].replay /\ res'[r].state = "pending"
           \/ sub'[s].pc = "commit" /\ sub'[s].replay /\ res'[r].state = "committed"
    BY <1>5, Reserving
  <2>2. r \in Ids /\ res[r].state = "none" /\ ~ res[r].stale /\ ~ object[r]
    BY <1>0, <1>r, <2>1 DEF Owns, ObjectIsTracked
  <2>3. (res'[r].state = "none" \/ res'[r].state = "pending") /\ ~ res'[r].stale
    BY <2>1, <2>2 DEF Given
  <2>4. Owns(s)'
    BY <2>1, <2>3 DEF Owns, Running
  <2> QED
    BY <1>a, <2>1, <2>2, <2>3, <2>4 DEF Given, OnlyRes
<1>6. ASSUME NEW s \in Submissions, UploadCorrection(s) PROVE Goal
  <2> DEFINE r == RequestOf[s]
  <2>1. /\ UNCHANGED <<res, cleaner>> /\ sub[s].pc = "upload" /\ Only(s) /\ sub'[s].replay = sub[s].replay
        /\ object' = object \/ object' = [object EXCEPT ![r] = TRUE]
        /\ sub'[s].pc = "discard" \/ sub'[s].pc = "commit"
    BY <1>6, Uploading DEF tables
  <2>2. /\ r \in Ids /\ ~ sub[s].replay /\ ~ res[r].stale
        /\ res[r].state # "none" /\ res[r].state \notin {"aborted", "orphaned"} /\ res[r] \in Reservation
    BY <1>0, <1>r, <2>1, Types DEF Owns, Running
  <2>3. res[r].state \in {"pending", "committed"}
    BY <2>2 DEF Reservation
  <2>4. Owns(s)'
    BY <2>1, <2>2, <2>3 DEF Owns, Running
  <2>5. \A i \in Ids : i # r => object'[i] = object[i]
    BY <1>0, <2>1
  <2> QED
    BY <1>a, <2>1, <2>3, <2>4, <2>5
<1>7. ASSUME NEW s \in Submissions, CommitOutputCorrection(s) PROVE Goal
  <2> DEFINE r == RequestOf[s]
  <2>1. /\ UNCHANGED <<object, cleaner>> /\ sub[s].pc = "commit" /\ Only(s)
        /\ UNCHANGED tables \/ Written(r)
        /\ \/ sub'[s].pc = "over"
           \/ sub'[s].pc = "discard" /\ ~ sub[s].replay
           \/ sub'[s].pc = "abandon" /\ sub[s].replay
    BY <1>7, Committing
  <2>2. /\ r \in Ids /\ ~ sub[s].replay /\ ~ res[r].stale
        /\ res[r].state # "none" /\ res[r].state \notin {"aborted", "orphaned"} /\ res[r] \in Reservation
    BY <1>0, <1>r, <2>1, Types DEF Owns, Running
  <2>3. res[r].state \in {"pending", "committed"}
    BY <2>2 DEF Reservation
  <2>4. /\ \A i \in Ids : i # r => res'[i] = res[i]
        /\ res'[r].state \in {"pending", "committed"} /\ ~ res'[r].stale
    BY <2>1, <2>2, <2>3 DEF Written, OnlyRes, tables
  <2>5. Owns(s)'
    BY <2>1, <2>2, <2>4 DEF Owns, Running
  <2> QED
    BY <1>a, <2>1, <2>4, <2>5
<1>8. ASSUME NEW s \in Submissions, DiscardObject(s) PROVE Goal
  <2> DEFINE r == RequestOf[s]
  <2>1. /\ UNCHANGED <<res, cleaner>> /\ sub[s].pc = "discard" /\ Only(s) /\ sub'[s].pc = "abandon"
        /\ object' = object \/ object' = [object EXCEPT ![r] = FALSE]
        /\ sub'[s].deleted => ~ object'[r]
    BY <1>8, Discarding DEF tables
  <2>2. r \in Ids /\ Owns(s) /\ (\A i \in Ids : i # r => object'[i] = object[i]) /\ (object'[r] => object[r])
    BY <1>0, <1>r, <2>1
  <2>3. Owns(s)'
    BY <2>1, <2>2 DEF Owns, Running
  <2> QED
    BY <1>0, <1>a, <2>1, <2>2, <2>3 DEF ObjectIsTracked
<1>9. ASSUME NEW s \in Submissions, AbandonOutputCorrection(s) PROVE Goal
  <2> DEFINE r == RequestOf[s]
             state == IF sub[s].deleted THEN "aborted" ELSE "orphaned"
  <2>1. /\ UNCHANGED <<object, cleaner>> /\ sub[s].pc = "abandon" /\ Only(s) /\ sub'[s].pc = "over"
        /\ UNCHANGED res \/ (res[r].state # "committed" /\ WrittenOff(r, state))
    BY <1>9, Abandoning
  <2>2. r \in Ids /\ Owns(s)
    BY <1>0, <1>r
  <2>3. object'[r] => res'[r].state \in {"pending", "committed", "orphaned"}
    BY <1>0, <2>1, <2>2 DEF WrittenOff, Owns, ObjectIsTracked
  <2>4. Owns(s)'
    BY <2>1 DEF Owns, Running
  <2> QED
    BY <1>a, <2>1, <2>2, <2>3, <2>4 DEF WrittenOff, OnlyRes
<1>10. ASSUME NEW s \in Submissions, SubmissionDies(s) PROVE Goal
  <2>1. UNCHANGED <<tables, object, cleaner>> /\ Only(s) /\ sub'[s].pc = "over"
    BY <1>10, Dying
  <2>2. Owns(s)'
    BY <2>1 DEF Owns, Running
  <2> QED
    BY <1>0, <1>a, <1>r, <2>1, <2>2 DEF tables, ObjectIsTracked
<1>b. ASSUME NEW r \in Ids, UNCHANGED <<object, sub>>, OnlyRes(r), res'[r].state \in {"orphaned", "aborted"},
             res[r].state = "orphaned" \/ (res[r].state = "pending" /\ res[r].stale)
      PROVE  \A s \in Submissions : Owns(s)'
  <2> SUFFICES ASSUME NEW s \in Submissions PROVE Owns(s)'
    OBVIOUS
  <2>0. Owns(s) /\ RequestOf[s] \in Ids
    BY <1>0, <1>r
  <2>1. CASE RequestOf[s] = r
    BY <1>b, <2>0, <2>1 DEF Owns, Running
  <2>2. CASE RequestOf[s] # r
    BY <1>b, <2>0, <2>2 DEF Owns, Running, OnlyRes
  <2> QED
    BY <2>1, <2>2
<1>11. ASSUME NEW w \in Workers, NEW r \in Ids, ClaimOrphanedCorrectionUpload(w, r) PROVE Goal
  <2>1. /\ UNCHANGED <<object, sub>> /\ WrittenOff(r, "orphaned")
        /\ res[r].state = "orphaned" \/ (res[r].state = "pending" /\ res[r].stale)
        /\ cleaner' = cleaner \/ cleaner' = [cleaner EXCEPT ![w] = [pc |-> "delete", id |-> r]]
    BY <1>11, Claiming
  <2>2. \A s \in Submissions : Owns(s)'
    BY <1>b, <2>1 DEF WrittenOff
  <2>3. \A u \in Workers : Gone(u)'
    BY <1>0, <2>1, Types DEF Gone
  <2>4. ObjectIsTracked'
    BY <1>0, <2>1 DEF ObjectIsTracked, WrittenOff, OnlyRes
  <2> QED
    BY <2>2, <2>3, <2>4 DEF Goal
<1>12. ASSUME NEW w \in Workers, DeleteOrphanedObject(w) PROVE Goal
  <2> DEFINE r == cleaner[w].id
  <2>1. /\ UNCHANGED <<tables, sub>> /\ cleaner[w].pc = "delete"
        /\ object' = object \/ object' = [object EXCEPT ![r] = FALSE]
        /\ \A u \in Workers : u # w => cleaner'[u] = cleaner[u]
        /\ \/ cleaner'[w].pc = "idle"
           \/ cleaner'[w].pc = "finalize" /\ cleaner'[w].id = r /\ object' = [object EXCEPT ![r] = FALSE]
    BY <1>12, Deleting
  <2>2. r \in Ids /\ \A i \in Ids : object'[i] => object[i]
    BY <1>0, <2>1 DEF Cleaning
  <2>3. \A s \in Submissions : Owns(s)'
    BY <1>0, <1>r, <2>1, <2>2 DEF Owns, Running, tables
  <2>4. Gone(w)'
    BY <1>0, <2>1, <2>2 DEF Gone
  <2>5. ASSUME NEW u \in Workers, u # w PROVE Gone(u)'
    <3>1. cleaner[u].pc = "finalize" => cleaner[u].id \in Ids /\ ~ object[cleaner[u].id]
      BY <1>0 DEF Cleaning, Gone
    <3> QED
      BY <2>1, <2>2, <2>5, <3>1 DEF Gone
  <2>6. ObjectIsTracked'
    BY <1>0, <2>1, <2>2 DEF ObjectIsTracked, tables
  <2> QED
    BY <2>3, <2>4, <2>5, <2>6 DEF Goal
<1>13. ASSUME NEW w \in Workers, FinalizeCorrectionCleanup(w) \/ CleanerDies(w) PROVE Goal
  <2> DEFINE r == cleaner[w].id
  <2>1. /\ UNCHANGED <<object, sub>>
        /\ cleaner'[w].pc = "idle" /\ \A u \in Workers : u # w => cleaner'[u] = cleaner[u]
        /\ \/ UNCHANGED res
           \/ /\ cleaner[w].pc = "finalize" /\ r \in Ids /\ res[r].state = "orphaned"
              /\ OnlyRes(r) /\ res'[r].state = "aborted"
    BY <1>13, Finalizing
  <2>2. \A s \in Submissions : Owns(s)'
    BY <1>0, <1>b, <1>r, <2>1 DEF Owns, Running
  <2>3. \A u \in Workers : Gone(u)'
    BY <1>0, <2>1 DEF Gone
  <2>4. ObjectIsTracked'
    BY <1>0, <2>1 DEF ObjectIsTracked, OnlyRes, Gone
  <2> QED
    BY <2>2, <2>3, <2>4 DEF Goal
<1>14. ASSUME UNCHANGED vars PROVE Goal
  BY <1>1, <1>14 DEF vars
<1>15. Goal
  BY <1>2, <1>3, <1>4, <1>5, <1>6, <1>7, <1>8, <1>9, <1>10, <1>11, <1>12, <1>13, <1>14 DEF Next, Submit, CleanUp
<1> QED
  BY <1>0, <1>15, CleaningStays DEF TrackedInv, Goal

\* Storage holds no object of a correction that no reservation leads to, even if the
\* answer of a commit is lost: as long as each request is sent once and is faster than
\* the grace period after which the cleanup takes its reservation over.
THEOREM TrackedObjects ==
  ASSUME ~ Slow, \A s, o \in Submissions : RequestOf[s] = RequestOf[o] => s = o
  PROVE  Spec => []ObjectIsTracked
<1>1. Init => TrackedInv
  <2> SUFFICES ASSUME Init PROVE TrackedInv
    OBVIOUS
  <2>1. \A s \in Submissions : RequestOf[s] \in Ids
    BY Types
  <2>2. \A s \in Submissions : Owns(s)
    BY <2>1 DEF Init, Owns, Running, NoReservation
  <2>3. \A w \in Workers : Cleaning(w) /\ Gone(w)
    BY DEF Init, Cleaning, Gone
  <2>4. ObjectIsTracked
    BY DEF Init, ObjectIsTracked
  <2> QED
    BY <2>2, <2>3, <2>4 DEF TrackedInv
<1>2. BooksInv /\ TrackedInv /\ [Next]_vars => TrackedInv'
  BY TrackedInductive DEF BooksInv
<1>3. TrackedInv => ObjectIsTracked
  BY DEF TrackedInv
<1> QED
  BY <1>1, <1>2, <1>3, BooksInitially, BooksInductive, PTL DEF Spec

-----------------------------------------------------------------------------
(***************************************************************************)
(* Exports.                                                                *)
(***************************************************************************)

ExportRow == [pc: {"new", "read", "record", "sent", "over"}, version: VersionIds]

EventRow == [version: VersionIds, format: {"none", "md", "pdf"}]

\* An export was granted on an approval, and one that was answered is on record.
Granted(e) ==
  /\ export[e].pc \in {"read", "record", "sent"} => Approved(export[e].version)
  /\ export[e].pc = "sent" => exported[KeyOf[e]] = ExportOf(e, export[e].version)

ExportInv ==
  /\ BooksInv
  /\ export \in [Exporters -> ExportRow] /\ exported \in [Keys -> EventRow]
  /\ \A e \in Exporters : Granted(e)

\* What an export does to the requests and to the events on record.
Proceeds(e) ==
  /\ export' \in [Exporters -> ExportRow] /\ exported' \in [Keys -> EventRow]
  /\ \A o \in Exporters : o # e => export'[o] = export[o]
  /\ export'[e].pc \in {"read", "record", "sent"} => Approved(export'[e].version)
  /\ export'[e].pc = "sent" => exported'[KeyOf[e]] = ExportOf(e, export'[e].version)
  /\ \A k \in Keys : /\ exported[k] # NoExport => exported'[k] = exported[k]
                     /\ exported'[k] # exported[k] =>
                          export[e] = [pc |-> "record", version |-> exported'[k].version]

\* A request that goes on keeps its version.
LEMMA ExportGoes ==
  ASSUME export \in [Exporters -> ExportRow], NEW e \in Exporters,
         NEW pc \in {"new", "read", "record", "sent", "over"}, ExportGoto(e, pc)
  PROVE  /\ export' \in [Exporters -> ExportRow]
         /\ export'[e].pc = pc /\ export'[e].version = export[e].version
         /\ \A o \in Exporters : o # e => export'[o] = export[o]
  BY DEF ExportGoto, ExportRow

\* Each of the calls of an export keeps to what it was granted.
LEMMA ExportSteps ==
  ASSUME ExportInv, NEW e \in Exporters, Export(e)
  PROVE  Proceeds(e) /\ UNCHANGED <<seen, tables, object, sub, cleaner>> /\ (NoFault \/ Fault)
<1>0. /\ export \in [Exporters -> ExportRow] /\ exported \in [Keys -> EventRow]
      /\ Granted(e) /\ KeyOf[e] \in Keys /\ FormatOf[e] \in {"md", "pdf"}
  BY ExportAssumption DEF ExportInv
<1>5. ASSUME ExportGoto(e, "over"), exported' \in [Keys -> EventRow],
             \A k \in Keys : /\ exported[k] # NoExport => exported'[k] = exported[k]
                             /\ exported'[k] # exported[k] =>
                                  export[e] = [pc |-> "record", version |-> exported'[k].version]
      PROVE  Proceeds(e)
  <2>1. /\ export' \in [Exporters -> ExportRow] /\ export'[e].pc = "over"
        /\ \A o \in Exporters : o # e => export'[o] = export[o]
    BY <1>0, <1>5, ExportGoes
  <2>2. /\ export'[e].pc \notin {"read", "record", "sent"}
        /\ export'[e].pc # "sent"
    BY <2>1
  <2> QED
    BY <1>5, <2>1, <2>2 DEF Proceeds
<1>1. CASE AuthorizeOutputExport(e)
  <2>1. export[e].pc = "new" /\ exported' = exported
    BY <1>1 DEF AuthorizeOutputExport
  <2>2. UNCHANGED <<seen, tables, object, sub, cleaner>> /\ (NoFault \/ Fault)
    BY <1>1 DEF AuthorizeOutputExport
  <2>3. ASSUME NEW v \in Ids \cup {V0}, Exportable(e, v),
               export' = [export EXCEPT ![e] = [pc |-> "read", version |-> v]]
        PROVE  Proceeds(e)
    <3>1. Approved(v) /\ [pc |-> "read", version |-> v] \in ExportRow
      BY <2>3 DEF Exportable, ExportRow, VersionIds
    <3> QED
      BY <1>0, <2>1, <2>3, <3>1 DEF Proceeds
  <2>4. CASE ExportGoto(e, "over")
    BY <1>0, <1>5, <2>1, <2>2, <2>4
  <2> QED
    BY <1>1, <2>2, <2>3, <2>4 DEF AuthorizeOutputExport
<1>2. CASE ReadExport(e)
  <2>1. /\ export[e].pc = "read" /\ exported' = exported
        /\ ExportGoto(e, "record") \/ ExportGoto(e, "over")
        /\ UNCHANGED <<seen, tables, object, sub, cleaner>> /\ (NoFault \/ Fault)
    BY <1>2 DEF ReadExport
  <2> QED
    BY <1>0, <2>1, ExportGoes DEF Proceeds, Granted
<1>3. CASE RecordOutputExport(e)
  <2> DEFINE k == KeyOf[e]
             new == ExportOf(e, export[e].version)
             recorded == IF exported[k] = NoExport THEN [exported EXCEPT ![k] = new] ELSE exported
  <2>1. /\ export[e].pc = "record"
        /\ UNCHANGED <<seen, tables, object, sub, cleaner>> /\ (NoFault \/ Fault)
        /\ exported' \in {exported, recorded}
        /\ \/ Recordable(e) /\ exported' = recorded /\ ExportGoto(e, "sent")
           \/ ExportGoto(e, "over")
    BY <1>3 DEF RecordOutputExport
  <2>2. new \in EventRow /\ new.version = export[e].version /\ export[e] \in ExportRow
    BY <1>0 DEF ExportOf, EventRow, ExportRow
  <2>3. /\ recorded \in [Keys -> EventRow]
        /\ \A i \in Keys : i # k => recorded[i] = exported[i]
        /\ recorded[k] = IF exported[k] = NoExport THEN new ELSE exported[k]
    BY <1>0, <2>2
  <2>4. Recordable(e) => recorded[k] = new
    BY <2>3 DEF Recordable
  <2>5. export[e] = [pc |-> "record", version |-> new.version]
    BY <2>1, <2>2 DEF ExportRow
  <2> HIDE DEF k, new, recorded
  <2>6. \A i \in Keys : /\ exported[i] # NoExport => exported'[i] = exported[i]
                        /\ exported'[i] # exported[i] => exported'[i] = new
    BY <2>1, <2>3
  <2>7. Approved(export[e].version)
    BY <1>0, <2>1 DEF Granted
  <2>8. exported' \in [Keys -> EventRow]
    BY <1>0, <2>1, <2>3
  <2>9. CASE Recordable(e) /\ exported' = recorded /\ ExportGoto(e, "sent")
    <3>1. /\ export' \in [Exporters -> ExportRow]
          /\ export'[e].pc = "sent" /\ export'[e].version = export[e].version
          /\ \A o \in Exporters : o # e => export'[o] = export[o]
      BY <1>0, <2>9, ExportGoes
    <3>2. Approved(export'[e].version)
      BY <2>7, <3>1
    <3>3. exported'[KeyOf[e]] = ExportOf(e, export'[e].version)
      BY <2>4, <2>9, <3>1 DEF k, new
    <3> QED
      BY <2>1, <2>5, <2>6, <2>8, <3>1, <3>2, <3>3 DEF Proceeds
  <2>10. CASE ExportGoto(e, "over")
    BY <1>5, <2>1, <2>5, <2>6, <2>8, <2>10
  <2> QED
    BY <2>1, <2>9, <2>10
<1>4. CASE ExportDies(e)
  <2>1. /\ ExportGoto(e, "over") /\ exported' = exported /\ UNCHANGED vars
    BY <1>4 DEF ExportDies
  <2> QED
    BY <1>0, <2>1, ExportGoes DEF Proceeds, vars, NoFault, tables
<1> QED
  BY <1>1, <1>2, <1>3, <1>4 DEF Export

\* An approval outlasts every step, so the exports that wait for nothing stay granted.
LEMMA ExportInductive == ExportInv /\ [ExportNext]_<<vars, xvars>> => ExportInv'
<1> SUFFICES ASSUME ExportInv, [ExportNext]_<<vars, xvars>> PROVE ExportInv'
  OBVIOUS
<1>0. BooksInv /\ TypeOK
  BY DEF ExportInv, BooksInv
<1>1. ASSUME [Next]_vars, UNCHANGED xvars PROVE ExportInv'
  <2>1. ASSUME NEW v, Approved(v) PROVE Approved(v)'
    <3>1. PICK r \in Ids : review[r] = [action |-> "approve", target |-> v]
      BY <2>1 DEF Approved
    <3>2. review[r] # NoReview
      BY <3>1 DEF NoReview
    <3>3. review'[r] = review[r]
      BY <1>0, <1>1, <3>2, StaysOnRecord
    <3> QED
      BY <3>1, <3>3 DEF Approved
  <2> QED
    BY <1>0, <1>1, <2>1, BooksInductive DEF ExportInv, Granted, ExportOf, Approved, xvars
<1>2. ASSUME NEW e \in Exporters, Export(e) PROVE ExportInv'
  <2>1. Proceeds(e) /\ UNCHANGED <<seen, tables, object, sub, cleaner>> /\ (NoFault \/ Fault)
    BY <1>2, ExportSteps
  <2>2. faults' \in 0 .. MaxFaults
    BY <1>0, <2>1, ReviewAssumption DEF TypeOK, NoFault, Fault
  <2>3. BooksInv'
    <3>1. TypeOK'
      BY <1>0, <2>1, <2>2 DEF TypeOK, tables
    <3>2. UNCHANGED <<res, previous, review, audit>>
      BY <2>1 DEF tables
    <3>3. Versions' = Versions /\ RecordedOnce'
      BY <1>0, <3>2 DEF BooksInv, ReviewsAreRecorded, RecordedOnce, Versions
    <3>4. ChainIsLinear'
      BY <1>0, <3>2, <3>3 DEF BooksInv, ReviewsAreRecorded, ChainIsLinear, OrderedChain, Children
    <3> QED
      BY <1>0, <3>1, <3>3, <3>4 DEF BooksInv, ReviewsAreRecorded
  <2>4. ASSUME NEW o \in Exporters PROVE Granted(o)'
    <3>1. \A v : Approved(v)' <=> Approved(v)
      BY <2>1 DEF Approved, tables
    <3>2. KeyOf[o] \in Keys /\ ExportOf(o, export[o].version) # NoExport
      BY ExportAssumption DEF ExportOf, NoExport
    <3>3. CASE o = e
      BY <2>1, <3>1, <3>3 DEF Granted, Proceeds, ExportOf
    <3>4. CASE o # e
      BY <2>1, <3>1, <3>2, <3>4 DEF ExportInv, Granted, Proceeds, ExportOf
    <3> QED
      BY <3>3, <3>4
  <2> QED
    BY <2>1, <2>3, <2>4 DEF ExportInv, Proceeds
<1> QED
  BY <1>1, <1>2 DEF ExportNext, vars, xvars

\* Exports of every request: what a member has downloaded was approved in exactly that
\* version and is on record under its key, whatever is corrected and approved meanwhile
\* and however many exports share the key.
THEOREM ApprovedExports == ExportSpec => []ExportsAreApproved
<1>1. Init /\ ExportInit => ExportInv
  <2> SUFFICES ASSUME Init, ExportInit PROVE ExportInv
    OBVIOUS
  <2>1. [pc |-> "new", version |-> None] \in ExportRow /\ NoExport \in EventRow
    BY DEF ExportRow, EventRow, NoExport, VersionIds
  <2> QED
    BY <2>1, BooksInitially DEF ExportInit, ExportInv, Granted
<1>2. ExportInv => ExportsAreApproved
  <2> SUFFICES ASSUME ExportInv, NEW e \in Exporters, export[e].pc = "sent"
               PROVE  /\ \E r \in Ids : review[r].action = "approve" /\ review[r].target = export[e].version
                      /\ exported[KeyOf[e]] = ExportOf(e, export[e].version)
    BY DEF ExportsAreApproved
  <2>1. Approved(export[e].version) /\ exported[KeyOf[e]] = ExportOf(e, export[e].version)
    BY DEF ExportInv, Granted
  <2>2. PICK r \in Ids : review[r] = [action |-> "approve", target |-> export[e].version]
    BY <2>1 DEF Approved
  <2> QED
    BY <2>1, <2>2
<1> QED
  BY <1>1, <1>2, ExportInductive, PTL DEF ExportSpec
=============================================================================
