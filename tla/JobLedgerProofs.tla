-------------------------- MODULE JobLedgerProofs --------------------------
(***************************************************************************)
(* Machine-checked proofs about the job ledger, for any sets of jobs,      *)
(* workers, keys and requests and any attempt budgets.                     *)
(*                                                                         *)
(* All invariants but the one about acks speak of one job at a time, so    *)
(* they are restated over the triple (row, attempt history, audit counts)  *)
(* of a job.  Each ledger function gives one job a new triple (recovery    *)
(* gives several of them one), and one lemma per function shows that the   *)
(* new triple is good when the old one was.                                *)
(***************************************************************************)
EXTENDS JobLedger, TLAPS, SequenceTheorems

AuditRow == [runRequested: Nat, cancelRequested: Nat]

\* LeaseIsExclusive, of one job.
LeasePart(row, hist) ==
    /\ row.attempts = Len(hist)
    /\ row.status = "running" => Len(hist) > 0
    /\ \A n \in 1..Len(hist) :
          hist[n].outcome = "open" <=> row.status = "running" /\ n = Len(hist)

\* RowIsConsistent, of one job.
RowPart(row, hist) ==
    /\ row.lease # "none" <=> row.status = "running"
    /\ row.finished <=> row.status \in Terminal
    /\ row.deadLettered <=> row.status \in {"failure", "timeout"}
    /\ row.backoff => row.status = "queued"
    /\ row.status = "running" => row.worker = hist[Len(hist)].worker

\* AttemptBudget, of one job; an absent job has no attempts.
BudgetPart(row) ==
    /\ row.attempts <= MaxAttempts[row.request]
    /\ row.status = "queued" => row.attempts < MaxAttempts[row.request]
    /\ row.deadLettered => row.attempts = MaxAttempts[row.request]
    /\ row.status = "absent" => row.attempts = 0

\* CancelWins, of one job; a member's request is recorded as a pending one or
\* was granted at once.
CancelPart(row) ==
    /\ row.cancelRequested => row.status \in {"running", "cancelled"}
    /\ row.cancelledBy => row.cancelRequested \/ row.status = "cancelled"

\* HistoryExplainsStatus, of one job.
HistoryPart(row, hist) ==
    /\ \A n \in 1..Len(hist) :
          n < Len(hist) => hist[n].outcome \in {"failure", "timeout"}
    /\ row.status \in {"success", "failure", "timeout"} =>
          Len(hist) > 0 /\ hist[Len(hist)].outcome = row.status
    /\ row.status = "queued" /\ Len(hist) > 0 =>
          hist[Len(hist)].outcome \in {"failure", "timeout"}
    /\ row.status = "cancelled" /\ Len(hist) > 0 =>
          hist[Len(hist)].outcome \in {"failure", "timeout", "cancelled"}

\* AuditedOnce, of one job.
AuditPart(row, aud) ==
    /\ aud.runRequested = IF row.status = "absent" THEN 0 ELSE 1
    /\ aud.cancelRequested = IF row.cancelledBy THEN 1 ELSE 0

JobInv(row, hist, aud) ==
    /\ row \in JobRow /\ hist \in Seq(AttemptRow) /\ aud \in AuditRow
    /\ LeasePart(row, hist)
    /\ RowPart(row, hist)
    /\ BudgetPart(row)
    /\ CancelPart(row)
    /\ HistoryPart(row, hist)
    /\ AuditPart(row, aud)

-----------------------------------------------------------------------------

\* Closing the newest attempt keeps the length and the other attempts.
LEMMA CloseLast ==
    ASSUME NEW hist \in Seq(AttemptRow), Len(hist) > 0, NEW o \in Terminal,
           NEW new, new = [hist EXCEPT ![Len(hist)] = [@ EXCEPT !.outcome = o]]
    PROVE  /\ new \in Seq(AttemptRow)
           /\ Len(new) = Len(hist)
           /\ new[Len(hist)].outcome = o
           /\ \A n \in 1..Len(hist) : n # Len(hist) => new[n] = hist[n]
  <1>1. Len(hist) \in 1..Len(hist)
    OBVIOUS
  <1>2. hist[Len(hist)] \in AttemptRow
    BY <1>1
  <1>3. [hist[Len(hist)] EXCEPT !.outcome = o] \in AttemptRow
    BY <1>2 DEF AttemptRow, Outcome
  <1>4. [hist[Len(hist)] EXCEPT !.outcome = o].outcome = o
    BY <1>2 DEF AttemptRow
  <1> QED BY <1>1, <1>3, <1>4

\* claim_next_job.
LEMMA ClaimRow ==
    ASSUME NEW row, NEW hist, NEW aud, JobInv(row, hist, aud), NEW w \in Workers,
           row.status = "queued", ~ row.cancelRequested,
           NEW new, new = [row EXCEPT !.status = "running",
                          !.attempts = row.attempts + 1, !.worker = w,
                          !.lease = "live", !.backoff = FALSE, !.finished = FALSE],
           NEW h2, h2 = Append(hist, [worker |-> w, outcome |-> "open"])
    PROVE  JobInv(new, h2, aud)
  <1> DEFINE a == [worker |-> w, outcome |-> "open"]
  <1>1. row \in JobRow /\ hist \in Seq(AttemptRow) /\ aud \in AuditRow
    BY DEF JobInv
  <1>2. row.attempts + 1 \in Nat /\ a \in AttemptRow
    BY <1>1 DEF JobRow, AttemptRow, Outcome
  <1>3. new \in JobRow
    BY <1>1, <1>2 DEF JobRow, Status
  <1>4. /\ h2 \in Seq(AttemptRow)
        /\ Len(h2) = Len(hist) + 1
        /\ h2[Len(h2)] = a
        /\ \A n \in 1..Len(hist) : h2[n] = hist[n]
    BY <1>1, <1>2
  <1>5. /\ new.status = "running"
        /\ new.attempts = row.attempts + 1
        /\ new.worker = w
        /\ new.lease = "live"
        /\ new.backoff = FALSE
        /\ new.finished = FALSE
        /\ new.cancelRequested = row.cancelRequested
        /\ new.cancelledBy = row.cancelledBy
        /\ new.deadLettered = row.deadLettered
        /\ new.request = row.request
    BY <1>1 DEF JobRow
  <1>6. LeasePart(new, h2)
    BY <1>1, <1>4, <1>5 DEF JobInv, LeasePart
  <1>7. RowPart(new, h2)
    BY <1>4, <1>5 DEF JobInv, RowPart, Terminal
  <1>8. BudgetPart(new)
    BY <1>1, <1>5, BudgetAssumption DEF JobInv, BudgetPart, RowPart, JobRow
  <1>9. CancelPart(new)
    BY <1>5 DEF JobInv, CancelPart
  <1>10. HistoryPart(new, h2)
    BY <1>1, <1>4, <1>5 DEF JobInv, HistoryPart, LeasePart
  <1>11. AuditPart(new, aud)
    BY <1>5 DEF JobInv, AuditPart
  <1> QED BY <1>1, <1>3, <1>4, <1>6, <1>7, <1>8, <1>9, <1>10, <1>11 DEF JobInv

\* The part every ending has in common: the newest attempt is closed with the
\* status the job ends in, and the job is dead-lettered only with its budget
\* spent, and cancelled if somebody asked for it.
LEMMA EndRow ==
    ASSUME NEW row, NEW hist, NEW aud, JobInv(row, hist, aud),
           row.status = "running",
           NEW new \in JobRow, NEW final \in Terminal, new.status = final,
           new.attempts = row.attempts, new.request = row.request,
           new.lease = "none", new.finished = TRUE, new.backoff = FALSE,
           new.cancelledBy = row.cancelledBy,
           new.deadLettered <=> final \in {"failure", "timeout"},
           final \in {"failure", "timeout"} =>
              row.attempts >= MaxAttempts[row.request],
           row.cancelRequested \/ new.cancelRequested => final = "cancelled",
           NEW h2, h2 = [hist EXCEPT ![Len(hist)] = [@ EXCEPT !.outcome = final]]
    PROVE  JobInv(new, h2, aud)
  <1>1. row \in JobRow /\ hist \in Seq(AttemptRow) /\ aud \in AuditRow
    BY DEF JobInv
  <1>2. Len(hist) > 0
    BY DEF JobInv, LeasePart
  <1>3. /\ h2 \in Seq(AttemptRow)
        /\ Len(h2) = Len(hist)
        /\ h2[Len(hist)].outcome = final
        /\ \A n \in 1..Len(hist) : n # Len(hist) => h2[n] = hist[n]
    BY <1>1, <1>2, CloseLast
  <1>4. final # "open" /\ final # "running" /\ final # "queued" /\ final # "absent"
    BY DEF Terminal
  <1>5. LeasePart(new, h2)
    BY <1>1, <1>3, <1>4 DEF JobInv, LeasePart
  <1>6. RowPart(new, h2)
    BY <1>4 DEF JobInv, RowPart
  <1>7. BudgetPart(new)
    <2>1. row.attempts \in Nat /\ MaxAttempts[row.request] \in Nat
      BY <1>1, BudgetAssumption DEF JobRow
    <2> QED BY <1>4, <2>1 DEF JobInv, BudgetPart
  <1>8. CancelPart(new)
    BY DEF JobInv, CancelPart
  <1>9. HistoryPart(new, h2)
    BY <1>1, <1>2, <1>3, <1>4 DEF JobInv, HistoryPart
  <1>10. AuditPart(new, aud)
    BY <1>4 DEF JobInv, AuditPart
  <1> QED BY <1>1, <1>3, <1>5, <1>6, <1>7, <1>8, <1>9, <1>10 DEF JobInv

\* The part every retry has in common: the newest attempt is closed, and the job
\* goes back to the queue because an attempt is left and nobody cancelled it.
LEMMA RequeueRow ==
    ASSUME NEW row, NEW hist, NEW aud, JobInv(row, hist, aud),
           row.status = "running", ~ row.cancelRequested,
           row.attempts < MaxAttempts[row.request],
           NEW new, new = [row EXCEPT !.status = "queued", !.finished = FALSE,
                             !.lease = "none", !.worker = NoWorker,
                             !.backoff = TRUE],
           NEW final \in {"failure", "timeout"},
           NEW h2, h2 = [hist EXCEPT ![Len(hist)] = [@ EXCEPT !.outcome = final]]
    PROVE  JobInv(new, h2, aud)
  <1>1. row \in JobRow /\ hist \in Seq(AttemptRow) /\ aud \in AuditRow
    BY DEF JobInv
  <1>2. Len(hist) > 0
    BY DEF JobInv, LeasePart
  <1>3. /\ h2 \in Seq(AttemptRow)
        /\ Len(h2) = Len(hist)
        /\ h2[Len(hist)].outcome = final
        /\ \A n \in 1..Len(hist) : n # Len(hist) => h2[n] = hist[n]
    BY <1>1, <1>2, CloseLast DEF Terminal
  <1>4. new \in JobRow
    BY <1>1 DEF JobRow, Status
  <1>5. /\ new.status = "queued"
        /\ new.attempts = row.attempts
        /\ new.lease = "none"
        /\ new.finished = FALSE
        /\ new.cancelRequested = row.cancelRequested
        /\ new.cancelledBy = row.cancelledBy
        /\ new.deadLettered = row.deadLettered
        /\ new.request = row.request
    BY <1>1 DEF JobRow
  <1>6. LeasePart(new, h2)
    BY <1>1, <1>3, <1>5 DEF JobInv, LeasePart
  <1>7. RowPart(new, h2)
    BY <1>5 DEF JobInv, RowPart, Terminal
  <1>8. BudgetPart(new)
    BY <1>5 DEF JobInv, BudgetPart, RowPart
  <1>9. CancelPart(new)
    BY <1>5 DEF JobInv, CancelPart
  <1>10. HistoryPart(new, h2)
    BY <1>1, <1>2, <1>3, <1>5 DEF JobInv, HistoryPart
  <1>11. AuditPart(new, aud)
    BY <1>5 DEF JobInv, AuditPart
  <1> QED BY <1>1, <1>3, <1>4, <1>6, <1>7, <1>8, <1>9, <1>10, <1>11 DEF JobInv

\* The part every other update of a running or queued row has in common: only
\* the lease, the backoff or the cancellation request change.
LEMMA TouchRow ==
    ASSUME NEW row, NEW hist, NEW aud, JobInv(row, hist, aud),
           NEW new \in JobRow, new.status = row.status,
           new.attempts = row.attempts, new.request = row.request,
           new.lease # "none" <=> row.lease # "none",
           new.finished = row.finished, new.worker = row.worker,
           new.deadLettered = row.deadLettered,
           new.backoff => row.backoff,
           new.cancelRequested => row.cancelRequested \/ row.status = "running",
           row.cancelRequested => new.cancelRequested,
           NEW aud2 \in AuditRow, aud2.runRequested = aud.runRequested,
           \/ new.cancelledBy = row.cancelledBy /\ aud2 = aud
           \/ /\ ~ row.cancelledBy /\ new.cancelledBy = TRUE /\ new.cancelRequested
              /\ aud2.cancelRequested = aud.cancelRequested + 1
    PROVE  JobInv(new, hist, aud2)
  <1>1. row \in JobRow /\ hist \in Seq(AttemptRow) /\ aud \in AuditRow
    BY DEF JobInv
  <1>2. LeasePart(new, hist)
    BY DEF JobInv, LeasePart
  <1>3. RowPart(new, hist)
    BY DEF JobInv, RowPart
  <1>4. BudgetPart(new)
    BY DEF JobInv, BudgetPart
  <1>5. CancelPart(new)
    BY DEF JobInv, CancelPart
  <1>6. HistoryPart(new, hist)
    BY DEF JobInv, HistoryPart
  <1>7. AuditPart(new, aud2)
    BY DEF JobInv, AuditPart
  <1> QED BY <1>1, <1>2, <1>3, <1>4, <1>5, <1>6, <1>7 DEF JobInv

-----------------------------------------------------------------------------
(***************************************************************************)
(* The inductive invariant of the whole ledger.                            *)
(***************************************************************************)

\* UNIQUE (org_id, idempotency_key) over the rows that exist.
KeysUnique ==
    \A i, j \in Jobs :
        /\ job[i].status # "absent" /\ job[j].status # "absent"
        /\ job[i].key = job[j].key /\ job[i].key # NoKey
        => i = j

\* Every answer names a row that still carries the key and the request.
AcksKept ==
    \A a \in acks : /\ job[a.job].status # "absent"
                    /\ job[a.job].key = a.key
                    /\ job[a.job].request = a.request

IInv == /\ TypeOK
        /\ \A j \in Jobs : JobInv(job[j], attempt[j], audit[j])
        /\ KeysUnique
        /\ AcksKept

\* A transaction that gives one existing job a new row, history and audit counts
\* keeps the invariant when the new triple is good and the row keeps its
\* identity (key and request).
LEMMA OneJob ==
    ASSUME IInv, NEW j \in Jobs, NEW row, NEW hist, NEW aud,
           JobInv(row, hist, aud),
           job' = [job EXCEPT ![j] = row],
           attempt' = [attempt EXCEPT ![j] = hist],
           audit' = [audit EXCEPT ![j] = aud],
           acks' = acks,
           job[j].status # "absent", row.status # "absent",
           row.key = job[j].key, row.request = job[j].request
    PROVE  IInv'
  <1>1. row \in JobRow /\ hist \in Seq(AttemptRow) /\ aud \in AuditRow
    BY DEF JobInv
  <1>2. TypeOK'
    BY <1>1 DEF IInv, TypeOK, AuditRow
  <1>3. ASSUME NEW i \in Jobs
        PROVE  /\ i = j => job'[i] = row /\ attempt'[i] = hist /\ audit'[i] = aud
               /\ i # j => job'[i] = job[i] /\ attempt'[i] = attempt[i]
                           /\ audit'[i] = audit[i]
    BY DEF IInv, TypeOK
  <1>4. \A i \in Jobs : JobInv(job'[i], attempt'[i], audit'[i])
    BY <1>3 DEF IInv
  <1>5. \A i \in Jobs : /\ job'[i].status = "absent" <=> job[i].status = "absent"
                        /\ job'[i].key = job[i].key
                        /\ job'[i].request = job[i].request
    BY <1>3
  <1>6. KeysUnique'
    BY <1>5 DEF IInv, KeysUnique
  <1>7. AcksKept'
    BY <1>5 DEF IInv, TypeOK, AcksKept
  <1> QED BY <1>2, <1>4, <1>6, <1>7 DEF IInv

\* The lease that a ledger function accepts is the one of the newest attempt.
LEMMA HeldIsNewest ==
    ASSUME IInv, NEW j \in Jobs, NEW n \in DOMAIN attempt[j], LeaseHeld(j, n)
    PROVE  n = Len(attempt[j]) /\ n = job[j].attempts
  <1>1. JobInv(job[j], attempt[j], audit[j])
    BY DEF IInv
  <1>2. attempt[j] \in Seq(AttemptRow)
    BY <1>1 DEF JobInv
  <1>3. n \in 1..Len(attempt[j])
    BY <1>2
  <1> QED BY <1>1, <1>3 DEF LeaseHeld, JobInv, LeasePart

\* Init establishes the invariant.
LEMMA InitIInv == Init => IInv
  <1> SUFFICES ASSUME Init PROVE IInv
    OBVIOUS
  <1> DEFINE row == [FreshRow(NoKey, AnyRequest) EXCEPT !.status = "absent"]
             aud == [runRequested |-> 0, cancelRequested |-> 0]
  <1>1. AnyRequest \in Requests
    BY BudgetAssumption DEF AnyRequest
  <1>2. MaxAttempts[AnyRequest] \in Nat \ {0}
    BY <1>1, BudgetAssumption
  <1>3. FreshRow(NoKey, AnyRequest) \in JobRow
    BY <1>1 DEF FreshRow, JobRow, Status, Terminal
  <1>4. row \in JobRow
    BY <1>3 DEF JobRow, Status
  <1>5. /\ row.status = "absent" /\ row.attempts = 0 /\ row.lease = "none"
        /\ row.cancelRequested = FALSE /\ row.cancelledBy = FALSE
        /\ row.backoff = FALSE /\ row.deadLettered = FALSE
        /\ row.finished = FALSE /\ row.request = AnyRequest
    BY DEF FreshRow
  <1>6. aud \in AuditRow /\ aud.runRequested = 0 /\ aud.cancelRequested = 0
    BY DEF AuditRow
  <1> HIDE DEF row, aud
  <1>7. << >> \in Seq(AttemptRow) /\ Len(<< >>) = 0
    OBVIOUS
  <1>8. LeasePart(row, << >>)
    BY <1>5, <1>7 DEF LeasePart
  <1>9. RowPart(row, << >>)
    BY <1>5 DEF RowPart, Terminal
  <1>10. BudgetPart(row)
    BY <1>2, <1>5 DEF BudgetPart
  <1>11. CancelPart(row) /\ AuditPart(row, aud)
    BY <1>5, <1>6 DEF CancelPart, AuditPart
  <1>12. HistoryPart(row, << >>)
    BY <1>5, <1>7 DEF HistoryPart
  <1>13. JobInv(row, << >>, aud)
    BY <1>4, <1>6, <1>7, <1>8, <1>9, <1>10, <1>11, <1>12 DEF JobInv
  <1>14. \A j \in Jobs : job[j] = row /\ attempt[j] = << >> /\ audit[j] = aud
    BY DEF Init, row, aud
  <1>15. TypeOK
    BY <1>4, <1>6, <1>7 DEF Init, TypeOK, row, aud, AuditRow
  <1>16. KeysUnique
    BY <1>5, <1>14 DEF KeysUnique
  <1>17. AcksKept
    BY DEF Init, AcksKept
  <1> QED BY <1>13, <1>14, <1>15, <1>16, <1>17 DEF IInv

\* enqueue_job: a new row takes no key that is in use, a replay changes no row.
LEMMA EnqueueStep ==
    ASSUME IInv, NEW j \in Jobs, NEW k \in Keys \cup {NoKey}, NEW r \in Requests,
           EnqueueJob(j, k, r)
    PROVE  IInv'
  <1>1. CASE InsertJob(j, k, r)
    <2> DEFINE row == FreshRow(k, r)
               aud == [audit[j] EXCEPT !.runRequested = audit[j].runRequested + 1]
    <2>1. /\ job[j].status = "absent"
          /\ k # NoKey => KeyRows(k) = {}
          /\ job' = [job EXCEPT ![j] = row]
          /\ audit' = [audit EXCEPT ![j] = aud]
          /\ acks' = acks \cup {[key |-> k, request |-> r, job |-> j]}
          /\ attempt' = attempt
      BY <1>1 DEF InsertJob
    <2>2. JobInv(job[j], attempt[j], audit[j])
      BY DEF IInv
    <2>3. attempt[j] \in Seq(AttemptRow) /\ Len(attempt[j]) = 0
          /\ ~ job[j].cancelledBy
      BY <2>1, <2>2 DEF JobInv, LeasePart, BudgetPart, CancelPart
    <2>4. /\ audit[j] \in AuditRow /\ audit[j].runRequested = 0
          /\ audit[j].cancelRequested = 0
      BY <2>1, <2>2, <2>3 DEF JobInv, AuditPart
    <2>5. aud \in AuditRow /\ aud.runRequested = 1 /\ aud.cancelRequested = 0
      <3>1. audit[j].runRequested + 1 = 1 /\ 1 \in Nat
        BY <2>4
      <3> QED BY <2>4, <3>1 DEF AuditRow
    <2>6. row \in JobRow
      BY DEF FreshRow, JobRow, Status, Terminal
    <2>7. /\ row.status = "queued" /\ row.attempts = 0 /\ row.lease = "none"
          /\ row.cancelRequested = FALSE /\ row.cancelledBy = FALSE
          /\ row.backoff = FALSE /\ row.deadLettered = FALSE
          /\ row.finished = FALSE /\ row.request = r /\ row.key = k
      BY DEF FreshRow
    <2> HIDE DEF row, aud
    <2>8. MaxAttempts[r] \in Nat \ {0}
      BY BudgetAssumption
    <2>9. JobInv(row, attempt[j], aud)
      <3>1. LeasePart(row, attempt[j])
        BY <2>3, <2>7 DEF LeasePart
      <3>2. RowPart(row, attempt[j])
        BY <2>7 DEF RowPart, Terminal
      <3>3. BudgetPart(row)
        BY <2>7, <2>8 DEF BudgetPart
      <3>4. CancelPart(row) /\ AuditPart(row, aud)
        BY <2>5, <2>7 DEF CancelPart, AuditPart
      <3>5. HistoryPart(row, attempt[j])
        BY <2>3, <2>7 DEF HistoryPart
      <3> QED BY <2>3, <2>5, <2>6, <3>1, <3>2, <3>3, <3>4, <3>5 DEF JobInv
    <2>10. \A i \in Jobs :
              /\ i = j => job'[i] = row /\ audit'[i] = aud
              /\ i # j => job'[i] = job[i] /\ audit'[i] = audit[i]
      BY <2>1 DEF IInv, TypeOK
    <2>11. TypeOK'
      <3>1. [key |-> k, request |-> r, job |-> j]
              \in [key: Keys \cup {NoKey}, request: Requests, job: Jobs]
        OBVIOUS
      <3>2. job' \in [Jobs -> JobRow] /\ audit' \in [Jobs -> AuditRow]
        BY <2>1, <2>5, <2>6 DEF IInv, TypeOK, AuditRow
      <3> QED BY <2>1, <3>1, <3>2 DEF IInv, TypeOK, AuditRow
    <2>12. \A i \in Jobs : JobInv(job'[i], attempt'[i], audit'[i])
      BY <2>1, <2>9, <2>10 DEF IInv
    <2>13. \A i \in Jobs : i # j /\ job[i].status # "absent" /\ job[i].key = k
                             => k = NoKey
      BY <2>1 DEF KeyRows
    <2>14. KeysUnique'
      BY <2>7, <2>10, <2>13 DEF IInv, KeysUnique
    <2>15. AcksKept'
      <3> SUFFICES ASSUME NEW a \in acks'
                   PROVE  /\ job'[a.job].status # "absent"
                          /\ job'[a.job].key = a.key
                          /\ job'[a.job].request = a.request
        BY DEF AcksKept
      <3>1. CASE a \in acks
        <4>1. a.job \in Jobs /\ a.job # j
          BY <2>1, <3>1 DEF IInv, TypeOK, AcksKept
        <4> QED BY <2>10, <3>1, <4>1 DEF IInv, AcksKept
      <3>2. CASE a = [key |-> k, request |-> r, job |-> j]
        BY <2>7, <2>10, <3>2
      <3> QED BY <2>1, <3>1, <3>2
    <2> QED BY <2>11, <2>12, <2>14, <2>15 DEF IInv
  <1>2. CASE ReplayJob(j, k, r)
    <2>1. /\ job' = job /\ attempt' = attempt /\ audit' = audit
          /\ acks' = acks \cup {[key |-> k, request |-> r, job |-> j]}
          /\ job[j].status # "absent" /\ job[j].key = k /\ job[j].request = r
      BY <1>2 DEF ReplayJob, KeyRows
    <2>2. [key |-> k, request |-> r, job |-> j]
            \in [key: Keys \cup {NoKey}, request: Requests, job: Jobs]
      OBVIOUS
    <2>3. TypeOK'
      BY <2>1, <2>2 DEF IInv, TypeOK
    <2>4. AcksKept'
      BY <2>1 DEF IInv, AcksKept
    <2> QED BY <2>1, <2>3, <2>4 DEF IInv, KeysUnique
  <1> QED BY <1>1, <1>2 DEF EnqueueJob

\* request_job_cancellation.
LEMMA RequestCancellationStep ==
    ASSUME IInv, NEW j \in Jobs, RequestJobCancellation(j)
    PROVE  IInv'
  <1> DEFINE aud == [audit[j] EXCEPT !.cancelRequested = audit[j].cancelRequested + 1]
  <1>1. JobInv(job[j], attempt[j], audit[j]) /\ job[j] \in JobRow /\ audit[j] \in AuditRow
    BY DEF IInv, JobInv
  <1>2. /\ audit' = [audit EXCEPT ![j] = aud] /\ acks' = acks
        /\ attempt' = [attempt EXCEPT ![j] = attempt[j]]
    BY DEF RequestJobCancellation, IInv, TypeOK
  <1>3. /\ aud \in AuditRow /\ aud.runRequested = audit[j].runRequested
        /\ aud.cancelRequested = audit[j].cancelRequested + 1
    <2>1. audit[j].cancelRequested + 1 \in Nat
      BY <1>1 DEF AuditRow
    <2> QED BY <1>1, <2>1 DEF AuditRow
  <1> HIDE DEF aud
  <1>4. CASE CancelQueued(j)
    <2> DEFINE new == [job[j] EXCEPT !.status = "cancelled", !.cancelledBy = TRUE,
                         !.finished = TRUE, !.lease = "none", !.backoff = FALSE]
    <2>1. job[j].status = "queued" /\ job' = [job EXCEPT ![j] = new]
      BY <1>4 DEF CancelQueued
    <2>2. new \in JobRow
      BY <1>1 DEF JobRow, Status, Terminal
    <2>3. /\ new.status = "cancelled" /\ new.cancelledBy = TRUE
          /\ new.finished = TRUE /\ new.lease = "none" /\ new.backoff = FALSE
          /\ new.attempts = job[j].attempts /\ new.request = job[j].request
          /\ new.key = job[j].key /\ new.deadLettered = job[j].deadLettered
          /\ new.cancelRequested = job[j].cancelRequested
      BY <1>1 DEF JobRow
    <2> HIDE DEF new
    <2>4. ~ job[j].cancelledBy
      BY <1>1, <2>1 DEF JobInv, CancelPart
    <2>5. JobInv(new, attempt[j], aud)
      <3>1. LeasePart(new, attempt[j])
        BY <1>1, <2>1, <2>3 DEF JobInv, LeasePart
      <3>2. RowPart(new, attempt[j])
        BY <1>1, <2>1, <2>3 DEF JobInv, RowPart, Terminal
      <3>3. BudgetPart(new)
        BY <1>1, <2>3 DEF JobInv, BudgetPart
      <3>4. CancelPart(new)
        BY <2>3 DEF CancelPart
      <3>5. HistoryPart(new, attempt[j])
        BY <1>1, <2>1, <2>3 DEF JobInv, HistoryPart
      <3>6. AuditPart(new, aud)
        BY <1>1, <1>3, <2>1, <2>3, <2>4 DEF JobInv, AuditPart
      <3> QED BY <1>1, <1>3, <2>2, <3>1, <3>2, <3>3, <3>4, <3>5, <3>6 DEF JobInv
    <2> QED BY <1>2, <2>1, <2>3, <2>5, OneJob
  <1>5. CASE CancelRunning(j)
    <2> DEFINE new == [job[j] EXCEPT !.cancelRequested = TRUE, !.cancelledBy = TRUE]
    <2>1. /\ job[j].status = "running" /\ ~ job[j].cancelRequested
          /\ job' = [job EXCEPT ![j] = new]
      BY <1>5 DEF CancelRunning
    <2>2. new \in JobRow
      BY <1>1 DEF JobRow
    <2>3. /\ new.status = job[j].status /\ new.cancelledBy = TRUE
          /\ new.cancelRequested = TRUE
          /\ new.finished = job[j].finished /\ new.lease = job[j].lease
          /\ new.backoff = job[j].backoff /\ new.worker = job[j].worker
          /\ new.attempts = job[j].attempts /\ new.request = job[j].request
          /\ new.key = job[j].key /\ new.deadLettered = job[j].deadLettered
      BY <1>1 DEF JobRow
    <2> HIDE DEF new
    <2>4. ~ job[j].cancelledBy
      BY <1>1, <2>1 DEF JobInv, CancelPart
    <2>5. JobInv(new, attempt[j], aud)
      BY <1>1, <1>3, <2>1, <2>2, <2>3, <2>4, TouchRow
    <2> QED BY <1>2, <2>1, <2>3, <2>5, OneJob
  <1> QED BY <1>4, <1>5 DEF RequestJobCancellation

\* claim_next_job.
LEMMA ClaimStep ==
    ASSUME IInv, NEW w \in Workers, NEW j \in Jobs, ClaimNextJob(w, j)
    PROVE  IInv'
  <1> DEFINE new == [job[j] EXCEPT !.status = "running",
                       !.attempts = job[j].attempts + 1, !.worker = w,
                       !.lease = "live", !.backoff = FALSE, !.finished = FALSE]
             h2 == Append(attempt[j], [worker |-> w, outcome |-> "open"])
  <1>1. JobInv(job[j], attempt[j], audit[j]) /\ job[j] \in JobRow
    BY DEF IInv, JobInv
  <1>2. /\ job[j].status = "queued" /\ ~ job[j].cancelRequested
        /\ job' = [job EXCEPT ![j] = new]
        /\ attempt' = [attempt EXCEPT ![j] = h2]
        /\ acks' = acks
    BY DEF ClaimNextJob, Claimable
  <1>3. audit' = [audit EXCEPT ![j] = audit[j]]
    BY DEF ClaimNextJob, IInv, TypeOK
  <1>4. /\ new.status = "running" /\ new.key = job[j].key
        /\ new.request = job[j].request
    BY <1>1 DEF JobRow
  <1>5. JobInv(new, h2, audit[j])
    BY <1>1, <1>2, ClaimRow
  <1> HIDE DEF new, h2
  <1> QED BY <1>2, <1>3, <1>4, <1>5, OneJob

\* worker_heartbeat, and the passing of the two deadlines.
LEMMA TouchStep ==
    ASSUME IInv, NEW j \in Jobs,
           \/ \E n \in DOMAIN attempt[j] : WorkerHeartbeat(j, n)
           \/ LeaseExpires(j)
           \/ BackoffElapses(j)
    PROVE  IInv'
  <1>1. JobInv(job[j], attempt[j], audit[j]) /\ job[j] \in JobRow /\ audit[j] \in AuditRow
    BY DEF IInv, JobInv
  <1>2. /\ attempt' = [attempt EXCEPT ![j] = attempt[j]]
        /\ audit' = [audit EXCEPT ![j] = audit[j]]
        /\ acks' = acks
    BY DEF WorkerHeartbeat, LeaseExpires, BackoffElapses, IInv, TypeOK
  <1>3. ASSUME NEW l \in {"live", "expired"}, job[j].status = "running",
               job' = [job EXCEPT ![j] = [@ EXCEPT !.lease = l]]
        PROVE  IInv'
    <2> DEFINE new == [job[j] EXCEPT !.lease = l]
    <2>1. new \in JobRow
      BY <1>1 DEF JobRow
    <2>2. /\ new.lease = l /\ new.status = job[j].status
          /\ new.cancelRequested = job[j].cancelRequested
          /\ new.cancelledBy = job[j].cancelledBy
          /\ new.finished = job[j].finished /\ new.backoff = job[j].backoff
          /\ new.worker = job[j].worker /\ new.attempts = job[j].attempts
          /\ new.request = job[j].request /\ new.key = job[j].key
          /\ new.deadLettered = job[j].deadLettered
      BY <1>1 DEF JobRow
    <2>3. job' = [job EXCEPT ![j] = new]
      BY <1>3
    <2> HIDE DEF new
    <2>4. job[j].lease # "none" /\ job[j].status # "absent"
      BY <1>1, <1>3 DEF JobInv, RowPart
    <2>5. JobInv(new, attempt[j], audit[j])
      BY <1>1, <2>1, <2>2, <2>4, TouchRow
    <2> QED BY <1>2, <2>2, <2>3, <2>4, <2>5, OneJob
  <1>4. CASE \E n \in DOMAIN attempt[j] : WorkerHeartbeat(j, n)
    BY <1>3, <1>4 DEF WorkerHeartbeat, LeaseHeld
  <1>5. CASE LeaseExpires(j)
    BY <1>1, <1>3, <1>5 DEF LeaseExpires, JobInv, RowPart
  <1>6. CASE BackoffElapses(j)
    <2> DEFINE new == [job[j] EXCEPT !.backoff = FALSE]
    <2>1. new \in JobRow
      BY <1>1 DEF JobRow
    <2>2. /\ new.backoff = FALSE /\ new.status = job[j].status
          /\ new.cancelRequested = job[j].cancelRequested
          /\ new.cancelledBy = job[j].cancelledBy
          /\ new.finished = job[j].finished /\ new.lease = job[j].lease
          /\ new.worker = job[j].worker /\ new.attempts = job[j].attempts
          /\ new.request = job[j].request /\ new.key = job[j].key
          /\ new.deadLettered = job[j].deadLettered
      BY <1>1 DEF JobRow
    <2>3. job' = [job EXCEPT ![j] = new] /\ job[j].status # "absent"
      BY <1>1, <1>6 DEF BackoffElapses, JobInv, RowPart
    <2> HIDE DEF new
    <2>4. JobInv(new, attempt[j], audit[j])
      BY <1>1, <2>1, <2>2, TouchRow
    <2> QED BY <1>2, <2>2, <2>3, <2>4, OneJob
  <1> QED BY <1>4, <1>5, <1>6

\* The row a failed attempt leaves behind is good: fail_job and recovery.
LEMMA RetriedRow ==
    ASSUME IInv, NEW j \in Jobs, job[j].status = "running",
           ~ job[j].cancelRequested, NEW final \in {"failure", "timeout"}
    PROVE  /\ JobInv(Retried(j, final), Closed(j, Len(attempt[j]), final), audit[j])
           /\ Retried(j, final).status # "absent"
           /\ Retried(j, final).key = job[j].key
           /\ Retried(j, final).request = job[j].request
  <1>1. JobInv(job[j], attempt[j], audit[j]) /\ job[j] \in JobRow
    BY DEF IInv, JobInv
  <1>2. /\ job[j].attempts \in Nat /\ Budget(j) \in Nat
        /\ Budget(j) = MaxAttempts[job[j].request]
    BY <1>1, BudgetAssumption DEF Budget, JobRow
  <1>3. CASE job[j].attempts >= Budget(j)
    <2> DEFINE new == [job[j] EXCEPT !.status = final, !.finished = TRUE,
                         !.lease = "none", !.worker = NoWorker,
                         !.backoff = FALSE, !.deadLettered = TRUE]
    <2>1. Retried(j, final) = new
      BY <1>3 DEF Retried
    <2>2. new \in JobRow
      BY <1>1 DEF JobRow, Status, Terminal
    <2>3. /\ new.status = final /\ new.finished = TRUE /\ new.lease = "none"
          /\ new.backoff = FALSE /\ new.deadLettered = TRUE
          /\ new.cancelRequested = job[j].cancelRequested
          /\ new.cancelledBy = job[j].cancelledBy
          /\ new.attempts = job[j].attempts /\ new.key = job[j].key
          /\ new.request = job[j].request
      BY <1>1 DEF JobRow
    <2> HIDE DEF new
    <2>4. JobInv(new, Closed(j, Len(attempt[j]), final), audit[j])
      <3>1. final \in Terminal
        BY DEF Terminal
      <3> QED BY <1>1, <1>2, <1>3, <2>2, <2>3, <3>1, EndRow DEF Closed
    <2> QED BY <2>1, <2>3, <2>4
  <1>4. CASE ~ (job[j].attempts >= Budget(j))
    <2> DEFINE new == [job[j] EXCEPT !.status = "queued", !.finished = FALSE,
                         !.lease = "none", !.worker = NoWorker, !.backoff = TRUE]
    <2>1. Retried(j, final) = new
      BY <1>4 DEF Retried
    <2>2. job[j].attempts < MaxAttempts[job[j].request]
      BY <1>2, <1>4
    <2>3. JobInv(new, Closed(j, Len(attempt[j]), final), audit[j])
      BY <1>1, <2>2, RequeueRow DEF Closed
    <2>4. new.status = "queued" /\ new.key = job[j].key /\ new.request = job[j].request
      BY <1>1 DEF JobRow
    <2> QED BY <2>1, <2>3, <2>4
  <1> QED BY <1>3, <1>4

\* complete_job, cancel_job and fail_job.
LEMMA FinishStep ==
    ASSUME IInv, NEW j \in Jobs, NEW n \in DOMAIN attempt[j],
           \/ CompleteJob(j, n)
           \/ CancelJob(j, n)
           \/ \E final \in {"failure", "timeout"} : FailJob(j, n, final)
    PROVE  IInv'
  <1>1. JobInv(job[j], attempt[j], audit[j]) /\ job[j] \in JobRow
    BY DEF IInv, JobInv
  <1>2. /\ audit' = [audit EXCEPT ![j] = audit[j]]
        /\ acks' = acks
    BY DEF CompleteJob, CancelJob, FailJob, FailCancelled, FailRetried, IInv, TypeOK
  <1>3. LeaseHeld(j, n)
    BY DEF CompleteJob, CancelJob, FailJob, FailCancelled, FailRetried
  <1>4. n = Len(attempt[j]) /\ job[j].status = "running"
    BY <1>3, HeldIsNewest DEF LeaseHeld
  <1>5. job[j].backoff = FALSE /\ job[j].deadLettered = FALSE
    <2>1. ~ job[j].backoff /\ ~ job[j].deadLettered
      BY <1>1, <1>4 DEF JobInv, RowPart
    <2>2. job[j].backoff \in BOOLEAN /\ job[j].deadLettered \in BOOLEAN
      BY <1>1 DEF JobRow
    <2> QED BY <2>1, <2>2
  <1>6. ASSUME NEW final \in {"success", "cancelled"}, NEW new \in JobRow,
               new.status = final, new.attempts = job[j].attempts,
               new.request = job[j].request, new.key = job[j].key,
               new.lease = "none", new.finished = TRUE, new.backoff = FALSE,
               new.deadLettered = FALSE, new.cancelledBy = job[j].cancelledBy,
               job[j].cancelRequested \/ new.cancelRequested => final = "cancelled",
               job' = [job EXCEPT ![j] = new],
               attempt' = [attempt EXCEPT ![j] = Closed(j, n, final)]
        PROVE  IInv'
    <2>1. JobInv(new, Closed(j, n, final), audit[j])
      BY <1>1, <1>4, <1>6, EndRow DEF Closed, Terminal
    <2> QED BY <1>2, <1>4, <1>6, <2>1, OneJob
  <1>7. CASE CompleteJob(j, n)
    <2>1. PICK final \in {"success", "cancelled"} :
             /\ final = "cancelled" <=> job[j].cancelRequested
             /\ attempt' = [attempt EXCEPT ![j] = Closed(j, n, final)]
             /\ job' = [job EXCEPT ![j] = [@ EXCEPT !.status = final,
                          !.finished = TRUE, !.lease = "none"]]
      BY <1>7 DEF CompleteJob
    <2> DEFINE new == [job[j] EXCEPT !.status = final, !.finished = TRUE,
                         !.lease = "none"]
    <2>2. new \in JobRow
      BY <1>1 DEF JobRow, Status, Terminal
    <2>3. /\ new.status = final /\ new.attempts = job[j].attempts
          /\ new.request = job[j].request /\ new.key = job[j].key
          /\ new.lease = "none" /\ new.finished = TRUE
          /\ new.backoff = job[j].backoff
          /\ new.deadLettered = job[j].deadLettered
          /\ new.cancelledBy = job[j].cancelledBy
          /\ new.cancelRequested = job[j].cancelRequested
      BY <1>1 DEF JobRow
    <2>4. job' = [job EXCEPT ![j] = new]
      BY <2>1
    <2> HIDE DEF new
    <2> QED BY <1>5, <1>6, <2>1, <2>2, <2>3, <2>4
  <1>8. CASE CancelJob(j, n)
    <2> DEFINE new == [job[j] EXCEPT !.status = "cancelled",
                         !.cancelRequested = TRUE, !.finished = TRUE,
                         !.lease = "none", !.backoff = FALSE]
    <2>1. /\ attempt' = [attempt EXCEPT ![j] = Closed(j, n, "cancelled")]
          /\ job' = [job EXCEPT ![j] = new]
      BY <1>8 DEF CancelJob
    <2>2. new \in JobRow
      BY <1>1 DEF JobRow, Status, Terminal
    <2>3. /\ new.status = "cancelled" /\ new.attempts = job[j].attempts
          /\ new.request = job[j].request /\ new.key = job[j].key
          /\ new.lease = "none" /\ new.finished = TRUE /\ new.backoff = FALSE
          /\ new.deadLettered = job[j].deadLettered
          /\ new.cancelledBy = job[j].cancelledBy
      BY <1>1 DEF JobRow
    <2> HIDE DEF new
    <2> QED BY <1>5, <1>6, <2>1, <2>2, <2>3
  <1>9. CASE FailCancelled(j, n)
    <2> DEFINE new == [job[j] EXCEPT !.status = "cancelled", !.finished = TRUE,
                         !.lease = "none", !.backoff = FALSE, !.worker = NoWorker]
    <2>1. /\ attempt' = [attempt EXCEPT ![j] = Closed(j, n, "cancelled")]
          /\ job' = [job EXCEPT ![j] = new]
      BY <1>9 DEF FailCancelled
    <2>2. new \in JobRow
      BY <1>1 DEF JobRow, Status, Terminal
    <2>3. /\ new.status = "cancelled" /\ new.attempts = job[j].attempts
          /\ new.request = job[j].request /\ new.key = job[j].key
          /\ new.lease = "none" /\ new.finished = TRUE /\ new.backoff = FALSE
          /\ new.deadLettered = job[j].deadLettered
          /\ new.cancelledBy = job[j].cancelledBy
      BY <1>1 DEF JobRow
    <2> HIDE DEF new
    <2> QED BY <1>5, <1>6, <2>1, <2>2, <2>3
  <1>10. ASSUME NEW final \in {"failure", "timeout"}, FailRetried(j, n, final)
         PROVE  IInv'
    <2>1. /\ ~ job[j].cancelRequested
          /\ attempt' = [attempt EXCEPT ![j] = Closed(j, n, final)]
          /\ job' = [job EXCEPT ![j] = Retried(j, final)]
      BY <1>10 DEF FailRetried
    <2>2. /\ JobInv(Retried(j, final), Closed(j, n, final), audit[j])
          /\ Retried(j, final).status # "absent"
          /\ Retried(j, final).key = job[j].key
          /\ Retried(j, final).request = job[j].request
      BY <1>4, <2>1, RetriedRow
    <2> QED BY <1>2, <1>4, <2>1, <2>2, OneJob
  <1> QED BY <1>7, <1>8, <1>9, <1>10 DEF FailJob

\* recover_expired_leases, over any set of recoverable jobs.
LEMMA RecoverStep ==
    ASSUME IInv, NEW S \in SUBSET Jobs, RecoverExpiredLeases(S)
    PROVE  IInv'
  <1>1. ASSUME NEW i \in Jobs
        PROVE  /\ JobInv(job'[i], attempt'[i], audit'[i])
               /\ job'[i].status = "absent" <=> job[i].status = "absent"
               /\ job'[i].key = job[i].key
               /\ job'[i].request = job[i].request
    <2>1. audit' = audit
      BY DEF RecoverExpiredLeases
    <2>2. CASE i \in S
      <3>1. /\ job[i].status = "running" /\ ~ job[i].cancelRequested
            /\ job'[i] = Retried(i, "timeout")
            /\ attempt'[i] = Closed(i, job[i].attempts, "timeout")
        BY <2>2 DEF RecoverExpiredLeases, Recoverable
      <3>2. job[i].attempts = Len(attempt[i])
        BY DEF IInv, JobInv, LeasePart
      <3> QED BY <2>1, <3>1, <3>2, RetriedRow
    <2>3. CASE i \notin S
      BY <2>1, <2>3 DEF RecoverExpiredLeases, IInv
    <2> QED BY <2>2, <2>3
  <1>2. TypeOK'
    <2>1. \A i \in Jobs : job'[i] \in JobRow /\ attempt'[i] \in Seq(AttemptRow)
      BY <1>1 DEF JobInv
    <2>2. /\ job' = [i \in Jobs |-> job'[i]] /\ attempt' = [i \in Jobs |-> attempt'[i]]
          /\ acks' = acks /\ audit' = audit
      BY DEF RecoverExpiredLeases
    <2> QED BY <2>1, <2>2 DEF IInv, TypeOK
  <1>3. KeysUnique'
    BY <1>1 DEF IInv, KeysUnique
  <1>4. AcksKept'
    <2>1. acks' = acks
      BY DEF RecoverExpiredLeases
    <2> QED BY <1>1, <2>1 DEF IInv, TypeOK, AcksKept
  <1> QED BY <1>1, <1>2, <1>3, <1>4 DEF IInv

\* Every transaction preserves the invariant.
LEMMA NextIInv == IInv /\ [Next]_vars => IInv'
  <1> SUFFICES ASSUME IInv, [Next]_vars PROVE IInv'
    OBVIOUS
  <1>1. ASSUME NEW j \in Jobs, NEW n \in DOMAIN attempt[j], LeaseCall(j, n)
        PROVE  IInv'
    BY <1>1, TouchStep, FinishStep DEF LeaseCall
  <1>2. CASE UNCHANGED vars
    BY <1>2 DEF vars, IInv, TypeOK, KeysUnique, AcksKept
  <1> QED BY <1>1, <1>2, EnqueueStep, RequestCancellationStep, ClaimStep,
             RecoverStep, TouchStep DEF Next

\* IInv implies each invariant that the model checker was given.
LEMMA IInvImplies ==
    IInv => /\ LeaseIsExclusive /\ RowIsConsistent /\ AttemptBudget
            /\ CancelWins /\ HistoryExplainsStatus
            /\ EnqueueIsIdempotent /\ AuditedOnce
  <1> SUFFICES ASSUME IInv
               PROVE  /\ LeaseIsExclusive /\ RowIsConsistent /\ AttemptBudget
                      /\ CancelWins /\ HistoryExplainsStatus
                      /\ EnqueueIsIdempotent /\ AuditedOnce
    OBVIOUS
  <1>1. ASSUME NEW j \in Jobs
        PROVE  /\ JobInv(job[j], attempt[j], audit[j])
               /\ DOMAIN attempt[j] = 1..Len(attempt[j])
               /\ job[j].attempts = Len(attempt[j]) /\ Len(attempt[j]) \in Nat
    BY DEF IInv, JobInv, LeasePart
  <1>2. LeaseIsExclusive
    <2> SUFFICES ASSUME NEW j \in Jobs
                 PROVE  {n \in DOMAIN attempt[j] : attempt[j][n].outcome = "open"}
                          = IF job[j].status = "running" THEN {job[j].attempts} ELSE {}
      BY <1>1 DEF LeaseIsExclusive
    <2> QED BY <1>1 DEF JobInv, LeasePart
  <1>3. RowIsConsistent
    BY <1>1 DEF JobInv, RowPart, RowIsConsistent
  <1>4. AttemptBudget
    BY <1>1 DEF JobInv, BudgetPart, AttemptBudget, Budget
  <1>5. CancelWins
    BY <1>1 DEF JobInv, CancelPart, CancelWins
  <1>6. HistoryExplainsStatus
    BY <1>1 DEF JobInv, HistoryPart, HistoryExplainsStatus
  <1>7. EnqueueIsIdempotent
    <2> SUFFICES ASSUME NEW a \in acks, NEW b \in acks, a.key = b.key, a.key # NoKey
                 PROVE  a = b
      BY DEF EnqueueIsIdempotent
    <2>1. a.job = b.job
      BY DEF IInv, TypeOK, AcksKept, KeysUnique
    <2>2. a.request = b.request
      BY <2>1 DEF IInv, AcksKept
    <2>3. /\ a = [key |-> a.key, request |-> a.request, job |-> a.job]
          /\ b = [key |-> b.key, request |-> b.request, job |-> b.job]
      BY DEF IInv, TypeOK
    <2> QED BY <2>1, <2>2, <2>3
  <1>8. AuditedOnce
    BY <1>1 DEF JobInv, AuditPart, AuditedOnce
  <1> QED BY <1>2, <1>3, <1>4, <1>5, <1>6, <1>7, <1>8

-----------------------------------------------------------------------------

\* The invariant holds in every reachable state of the ledger.
LEMMA Inductive == Spec => []IInv
  BY InitIInv, NextIInv, PTL DEF Spec

\* The rows of public.jobs and public.job_attempts stay within their CHECK
\* constraints whatever sequence of ledger functions is called.
THEOREM TypeCorrect == Spec => []TypeOK
  <1>1. IInv => TypeOK
    BY DEF IInv
  <1> QED BY <1>1, Inductive, PTL

\* At most one lease of a job is in force: claim, the finalizers and recovery
\* leave exactly the newest attempt of a running job open.
THEOREM ExclusiveLease == Spec => []LeaseIsExclusive
  BY Inductive, IInvImplies, PTL

\* The scheduling columns of a job agree with its status.
THEOREM ConsistentRow == Spec => []RowIsConsistent
  BY Inductive, IInvImplies, PTL

\* Retries never exceed max_attempts, for any budget.
THEOREM BoundedRetries == Spec => []AttemptBudget
  BY Inductive, IInvImplies, PTL

\* No completion, failure or recovery overtakes an accepted cancellation.
THEOREM CancellationWins == Spec => []CancelWins
  BY Inductive, IInvImplies, PTL

\* A final status is the outcome of the last attempt, and only failed or timed
\* out attempts were retried.
THEOREM HistoryIsFaithful == Spec => []HistoryExplainsStatus
  BY Inductive, IInvImplies, PTL

\* One idempotency key is answered with one job and one request.
THEOREM IdempotentEnqueue == Spec => []EnqueueIsIdempotent
  BY Inductive, IInvImplies, PTL

\* One audit event per run request and per accepted cancellation.
THEOREM AuditIsExact == Spec => []AuditedOnce
  BY Inductive, IInvImplies, PTL

-----------------------------------------------------------------------------
(***************************************************************************)
(* What no transaction may do.                                             *)
(***************************************************************************)

\* Only a job that is not over is changed: its row, or a new attempt.
LEMMA FinalStep ==
    ASSUME IInv, [Next]_vars, NEW j \in Jobs, job[j].status \in Terminal
    PROVE  job'[j] = job[j] /\ attempt'[j] = attempt[j]
  <1> USE DEF Terminal
  <1>0. job \in [Jobs -> JobRow] /\ attempt \in [Jobs -> Seq(AttemptRow)]
        /\ ~ job[j].backoff /\ job[j].lease = "none"
    BY DEF IInv, TypeOK, JobInv, RowPart
  <1>1. ASSUME NEW i \in Jobs, NEW k \in Keys \cup {NoKey}, NEW r \in Requests,
               EnqueueJob(i, k, r)
        PROVE  job'[j] = job[j] /\ attempt'[j] = attempt[j]
    BY <1>0, <1>1 DEF EnqueueJob, InsertJob, ReplayJob
  <1>2. ASSUME NEW i \in Jobs, RequestJobCancellation(i)
        PROVE  job'[j] = job[j] /\ attempt'[j] = attempt[j]
    <2>1. i # j
      BY <1>2 DEF RequestJobCancellation, CancelQueued, CancelRunning
    <2> QED BY <1>0, <1>2, <2>1 DEF RequestJobCancellation, CancelQueued, CancelRunning
  <1>3. ASSUME NEW w \in Workers, NEW i \in Jobs, ClaimNextJob(w, i)
        PROVE  job'[j] = job[j] /\ attempt'[j] = attempt[j]
    <2>1. i # j
      BY <1>3 DEF ClaimNextJob, Claimable
    <2> QED BY <1>0, <1>3, <2>1 DEF ClaimNextJob
  <1>4. ASSUME NEW i \in Jobs, NEW n \in DOMAIN attempt[i], LeaseCall(i, n)
        PROVE  job'[j] = job[j] /\ attempt'[j] = attempt[j]
    <2>1. LeaseHeld(i, n)
      BY <1>4 DEF LeaseCall, WorkerHeartbeat, CompleteJob, CancelJob, FailJob,
                  FailCancelled, FailRetried
    <2>2. i # j
      BY <2>1 DEF LeaseHeld
    <2>3. CASE WorkerHeartbeat(i, n)
      BY <1>0, <2>2, <2>3 DEF WorkerHeartbeat
    <2>4. CASE CompleteJob(i, n)
      BY <1>0, <2>2, <2>4 DEF CompleteJob
    <2>5. CASE CancelJob(i, n)
      BY <1>0, <2>2, <2>5 DEF CancelJob
    <2>6. CASE \E final \in {"failure", "timeout"} : FailJob(i, n, final)
      BY <1>0, <2>2, <2>6 DEF FailJob, FailCancelled, FailRetried
    <2> QED BY <1>4, <2>3, <2>4, <2>5, <2>6 DEF LeaseCall
  <1>5. ASSUME NEW S \in SUBSET Jobs, RecoverExpiredLeases(S)
        PROVE  job'[j] = job[j] /\ attempt'[j] = attempt[j]
    <2>1. j \notin S
      BY <1>5 DEF RecoverExpiredLeases, Recoverable
    <2> QED BY <1>5, <2>1 DEF RecoverExpiredLeases
  <1>6. ASSUME NEW i \in Jobs, LeaseExpires(i) \/ BackoffElapses(i)
        PROVE  job'[j] = job[j] /\ attempt'[j] = attempt[j]
    BY <1>0, <1>6 DEF LeaseExpires, BackoffElapses
  <1>7. CASE UNCHANGED vars
    BY <1>7 DEF vars
  <1> QED BY <1>1, <1>2, <1>3, <1>4, <1>5, <1>6, <1>7 DEF Next

\* A finished job is never changed again by any ledger function.
THEOREM TerminalStays == Spec => TerminalIsFinal
  <1>1. IInv /\ [Next]_vars =>
          [\A j \in Jobs : job[j].status \in Terminal =>
             job'[j] = job[j] /\ attempt'[j] = attempt[j]]_vars
    BY FinalStep
  <1> QED BY <1>1, Inductive, PTL DEF Spec, TerminalIsFinal

\* A lease of an attempt that is not the newest one is refused.
THEOREM StaleLeases == Spec => StaleLeaseIsRejected
  <1>1. IInv /\ [Next]_vars =>
          [\A j \in Jobs : \A n \in DOMAIN attempt[j] :
             LeaseCall(j, n) => n = job[j].attempts]_vars
    <2> SUFFICES ASSUME IInv, NEW j \in Jobs, NEW n \in DOMAIN attempt[j],
                        LeaseCall(j, n)
                 PROVE  n = job[j].attempts
      OBVIOUS
    <2>1. LeaseHeld(j, n)
      BY DEF LeaseCall, WorkerHeartbeat, CompleteJob, CancelJob, FailJob,
             FailCancelled, FailRetried
    <2> QED BY <2>1, HeldIsNewest
  <1> QED BY <1>1, Inductive, PTL DEF Spec, StaleLeaseIsRejected

\* What the columns and the attempt history of a job say together is sound: types,
\* scheduling columns, retry budget and history.
THEOREM SoundRows == Spec => []RowsAreSound
  BY TypeCorrect, ConsistentRow, BoundedRetries, HistoryIsFaithful, PTL DEF RowsAreSound

\* A request of a member takes effect once and is audited once.
THEOREM RequestsOnce == Spec => []RequestsCountOnce
  BY IdempotentEnqueue, AuditIsExact, PTL DEF RequestsCountOnce

\* No ledger function and no stale lease undoes an outcome.
THEOREM FinalOutcomes == Spec => OutcomesAreFinal
  BY TerminalStays, StaleLeases DEF OutcomesAreFinal

=============================================================================
