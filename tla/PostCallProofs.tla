--------------------------- MODULE PostCallProofs ---------------------------
(***************************************************************************)
(* Machine-checked proofs about workers that run post-call jobs.           *)
(*                                                                         *)
(* Two inductive invariants, because the code promises less when several   *)
(* workers are up.  PoolInv holds with any number of workers and a Storage *)
(* that may be late: a worker acts under an attempt of its own, a worker   *)
(* that holds its lease on the way to the INSERT has a job without an      *)
(* outputs row, and a job has succeeded exactly when its output is valid.  *)
(* SoloInv adds what is in Storage, which no lease protects: it holds as   *)
(* long as one worker is up at a time and no abandoned request is carried  *)
(* out later, and it says what the one worker that is awake knows of its   *)
(* row and of its object at each of its calls.                             *)
(***************************************************************************)
EXTENDS PostCall, JobLedgerProofs, FiniteSetTheorems

\* The attempts of a job are only added to and closed: none is dropped, given to
\* another worker or opened again, whatever the ledger is asked to do.
LEMMA HistoryGrows ==
  ASSUME IInv, [Next]_vars, NEW j \in Jobs, NEW n \in DOMAIN attempt[j]
  PROVE  /\ n \in DOMAIN attempt'[j]
         /\ attempt'[j][n].worker = attempt[j][n].worker
         /\ attempt'[j][n].outcome = "open" => attempt[j][n].outcome = "open"
<1> DEFINE Kept(h) == /\ n \in DOMAIN h
                      /\ h[n].worker = attempt[j][n].worker
                      /\ h[n].outcome = "open" => attempt[j][n].outcome = "open"
<1>0. attempt \in [Jobs -> Seq(AttemptRow)] /\ attempt[j] \in Seq(AttemptRow) /\ attempt[j][n] \in AttemptRow
  BY DEF IInv, TypeOK
<1>1. ASSUME NEW i \in Jobs, NEW row \in AttemptRow, attempt' = [attempt EXCEPT ![i] = Append(@, row)]
      PROVE  Kept(attempt'[j])
  BY <1>0, <1>1
<1>2. ASSUME NEW m, NEW o \in Terminal PROVE Kept(Closed(j, m, o))
  BY <1>0 DEF Closed, AttemptRow, Terminal
<1>3. ASSUME NEW i \in Jobs, NEW m, NEW o \in Terminal, attempt' = [attempt EXCEPT ![i] = Closed(i, m, o)]
      PROVE  Kept(attempt'[j])
  BY <1>0, <1>2, <1>3
<1>4. Kept(attempt[j])
  OBVIOUS
<1> HIDE DEF Kept
<1>6. ASSUME NEW w \in Workers, NEW i \in Jobs, ClaimNextJob(w, i) PROVE Kept(attempt'[j])
  BY <1>1, <1>6 DEF ClaimNextJob, AttemptRow, Outcome
<1>7. ASSUME NEW i \in Jobs, NEW m \in DOMAIN attempt[i], LeaseCall(i, m) PROVE Kept(attempt'[j])
  <2>1. CASE attempt' = attempt
    BY <1>4, <2>1
  <2>2. CASE \E o \in Terminal : attempt' = [attempt EXCEPT ![i] = Closed(i, m, o)]
    BY <1>3, <2>2
  <2> HIDE DEF Closed
  <2> QED
    BY <1>7, <2>1, <2>2
       DEF LeaseCall, WorkerHeartbeat, CompleteJob, CancelJob, FailJob, FailCancelled, FailRetried, Terminal
<1>8. ASSUME NEW S \in SUBSET Jobs, RecoverExpiredLeases(S) PROVE Kept(attempt'[j])
  <2>1. attempt'[j] = IF j \in S THEN Closed(j, job[j].attempts, "timeout") ELSE attempt[j]
    BY <1>8 DEF RecoverExpiredLeases
  <2> QED
    BY <1>2, <1>4, <2>1 DEF Terminal
<1>9. Kept(attempt'[j])
  <2>1. CASE \/ \E i \in Jobs, k \in Keys \cup {NoKey}, r \in Requests : EnqueueJob(i, k, r)
             \/ \E i \in Jobs : RequestJobCancellation(i) \/ LeaseExpires(i) \/ BackoffElapses(i)
             \/ UNCHANGED vars
    BY <1>4, <2>1 DEF EnqueueJob, InsertJob, ReplayJob, RequestJobCancellation, LeaseExpires, BackoffElapses, vars
  <2> QED
    BY <1>6, <1>7, <1>8, <2>1 DEF Next
<1> QED
  BY <1>9 DEF Kept

\* A lease that is in force is the lease of an open attempt, and the other way round.
LEMMA HeldIsOpen ==
  ASSUME IInv, NEW j \in Jobs, NEW n \in DOMAIN attempt[j]
  PROVE  LeaseHeld(j, n) <=> attempt[j][n].outcome = "open"
<1>1. LeasePart(job[j], attempt[j]) /\ attempt[j] \in Seq(AttemptRow)
  BY DEF IInv, JobInv
<1>2. DOMAIN attempt[j] = 1 .. Len(attempt[j])
  BY <1>1
<1> QED
  BY <1>1, <1>2 DEF LeasePart, LeaseHeld

\* Nobody gets a lease back that is not in force any more.
LEMMA LostForGood ==
  ASSUME IInv, IInv', [Next]_vars, NEW j \in Jobs, NEW n \in DOMAIN attempt[j],
         attempt'[j][n].outcome = "open"
  PROVE  LeaseHeld(j, n)
  BY HistoryGrows, HeldIsOpen DEF LeaseHeld

\* Only complete_job ends a job with success.
LEMMA NoOtherSuccess ==
  ASSUME IInv, NEW j \in Jobs,
         \/ \E i \in Jobs, k \in Keys \cup {NoKey}, r \in Requests : EnqueueJob(i, k, r)
         \/ \E i \in Jobs : RequestJobCancellation(i) \/ LeaseExpires(i) \/ BackoffElapses(i)
         \/ \E w \in Workers, i \in Jobs : ClaimNextJob(w, i)
         \/ \E i \in Jobs : \E n \in DOMAIN attempt[i] :
              \/ WorkerHeartbeat(i, n) \/ CancelJob(i, n)
              \/ \E final \in {"failure", "timeout"} : FailJob(i, n, final)
         \/ \E S \in SUBSET Jobs : RecoverExpiredLeases(S)
         \/ UNCHANGED job
  PROVE  job'[j].status = "success" <=> job[j].status = "success"
<1>0. job \in [Jobs -> JobRow] /\ \A i \in Jobs : job[i] \in JobRow
  BY DEF IInv, TypeOK
<1>1. ASSUME NEW i \in Jobs, NEW new, job' = [job EXCEPT ![i] = new],
             new.status = "success" <=> job[i].status = "success"
      PROVE  job'[j].status = "success" <=> job[j].status = "success"
  BY <1>0, <1>1
<1>2. ASSUME NEW i \in Jobs, NEW final \in {"failure", "timeout"} PROVE Retried(i, final).status # "success"
  BY <1>0 DEF Retried, JobRow
<1>3. ASSUME NEW i \in Jobs, NEW k, NEW r, EnqueueJob(i, k, r)
      PROVE  job'[j].status = "success" <=> job[j].status = "success"
  BY <1>0, <1>3 DEF EnqueueJob, InsertJob, ReplayJob, FreshRow
<1>4. ASSUME NEW i \in Jobs, RequestJobCancellation(i) \/ LeaseExpires(i) \/ BackoffElapses(i)
      PROVE  job'[j].status = "success" <=> job[j].status = "success"
  <2>0. job[i] \in JobRow
    BY <1>0
  <2>1. CASE CancelQueued(i)
    BY <1>1, <2>0, <2>1 DEF CancelQueued, JobRow
  <2>2. CASE CancelRunning(i)
    BY <1>1, <2>0, <2>2 DEF CancelRunning, JobRow
  <2>3. CASE LeaseExpires(i)
    BY <1>1, <2>0, <2>3 DEF LeaseExpires, JobRow
  <2>4. CASE BackoffElapses(i)
    BY <1>1, <2>0, <2>4 DEF BackoffElapses, JobRow
  <2> QED
    BY <1>4, <2>1, <2>2, <2>3, <2>4 DEF RequestJobCancellation
<1>5. ASSUME NEW w \in Workers, NEW i \in Jobs, ClaimNextJob(w, i)
      PROVE  job'[j].status = "success" <=> job[j].status = "success"
  BY <1>0, <1>5 DEF ClaimNextJob, Claimable, JobRow
<1>6. ASSUME NEW i \in Jobs, NEW n, WorkerHeartbeat(i, n) \/ CancelJob(i, n) \/ FailCancelled(i, n)
      PROVE  job'[j].status = "success" <=> job[j].status = "success"
  <2>0. job[i] \in JobRow
    BY <1>0
  <2>1. CASE WorkerHeartbeat(i, n)
    BY <1>1, <2>0, <2>1 DEF WorkerHeartbeat, JobRow
  <2>2. CASE CancelJob(i, n)
    BY <1>1, <2>0, <2>2 DEF CancelJob, LeaseHeld, JobRow
  <2>3. CASE FailCancelled(i, n)
    BY <1>1, <2>0, <2>3 DEF FailCancelled, LeaseHeld, JobRow
  <2> QED
    BY <1>6, <2>1, <2>2, <2>3
<1>7. ASSUME NEW i \in Jobs, NEW n, NEW final \in {"failure", "timeout"}, FailRetried(i, n, final)
      PROVE  job'[j].status = "success" <=> job[j].status = "success"
  <2>1. job' = [job EXCEPT ![i] = Retried(i, final)] /\ job[i].status = "running"
    BY <1>7 DEF FailRetried, LeaseHeld
  <2> HIDE DEF Retried
  <2> QED
    BY <1>1, <1>2, <2>1
<1>8. ASSUME NEW S \in SUBSET Jobs, RecoverExpiredLeases(S)
      PROVE  job'[j].status = "success" <=> job[j].status = "success"
  <2>1. /\ job'[j] = IF j \in S THEN Retried(j, "timeout") ELSE job[j]
        /\ j \in S => job[j].status = "running"
    BY <1>8 DEF RecoverExpiredLeases, Recoverable
  <2> HIDE DEF Retried
  <2> QED
    BY <1>2, <2>1
<1> QED
  BY <1>3, <1>4, <1>5, <1>6, <1>7, <1>8 DEF FailJob
-----------------------------------------------------------------------------
(***************************************************************************)
(* Where a worker process can be, and with what.                           *)
(***************************************************************************)

Asleep == {"down", "dead"}

\* Removing what this execution has staged, and sweeping what was claimed.
Unstaging == {"tombstone", "deleteObject", "deleteRow"}
Sweeping == {"purgeObject", "purgeRow"}

\* What is known of a worker process from the place where it is: whether it has a
\* job, with which attempt, and where it goes after a removal.
Shape(k) ==
  /\ k \in Worker
  /\ k.pc \in PollLoop \cup Asleep => k.n = 0
  /\ k.pc \in Finalizing \cup Executing => k.n > 0
  /\ k.pc \in Purging => k.job \in Jobs
  /\ k.n > 0 => k.job \in Jobs
  /\ k.pc \in Unstaging => k.then \in {"check1", "fail", "cancel"}
  /\ k.pc \in Sweeping => k.then \in {"claim", "recover"}
  /\ k.pc \notin Unstaging \cup Sweeping => k.then = "recover"

\* The attempt a worker works on is its own.
Owned(w) ==
  wk[w].n > 0 => /\ wk[w].n \in DOMAIN attempt[wk[w].job]
                 /\ attempt[wk[w].job][wk[w].n].worker = w

\* On the way from an outputs row that is not there to the INSERT.
BeforeCreate == {"check1", "run", "check2", "create"}

Vacant(w) == wk[w].pc \in BeforeCreate /\ Held(w) => out[wk[w].job].status = "none"

VisibleIsNoTombstone == \A j \in Jobs : out[j].status = "valid" => ~ out[j].tombstoned

Crew == \A w \in Workers : Shape(wk[w]) /\ Owned(w)

PoolInv ==
  /\ IInv /\ PTypeOK /\ Crew
  /\ \A w \in Workers : Vacant(w)
  /\ SuccessIffValid /\ VisibleIsNoTombstone

\* The calls of an execution that a plain Goto leads to.
Ahead == (Executing \ Unstaging) \cup Finalizing \cup {"purgeClaim"}

\* Back to the poll loop, or dead: nothing is left of the execution.
LEMMA GoesHome ==
  ASSUME PTypeOK, NEW w \in Workers, NEW pc \in PollLoop \cup {"dead"}, Goto(w, pc)
  PROVE  /\ wk' = [wk EXCEPT ![w] = wk'[w]]
         /\ Shape(wk'[w]) /\ wk'[w].n = 0 /\ wk'[w].pc = pc
<1> DEFINE new == Fresh(pc)
<1>1. wk' = [wk EXCEPT ![w] = new]
  BY DEF Goto
<1>2. new \in Worker /\ new.pc = pc /\ new.n = 0 /\ new.then = "recover"
  BY DEF Fresh, Worker, Locations, PollLoop
<1> HIDE DEF new
<1>3. wk'[w] = new
  BY <1>1 DEF PTypeOK
<1>4. Shape(new)
  BY <1>2 DEF Shape, PollLoop, Asleep, Finalizing, Executing, Purging, Unstaging, Sweeping
<1> QED
  BY <1>1, <1>2, <1>3, <1>4

\* To another call of the same execution, or of the same sweep.
LEMMA GoesOn ==
  ASSUME PTypeOK, NEW w \in Workers, Shape(wk[w]), NEW pc, Goto(w, pc),
         \/ pc \in Ahead /\ wk[w].n > 0
         \/ pc \in {"deleteObject", "deleteRow"} /\ wk[w].pc \in Unstaging
         \/ pc \in Sweeping /\ wk[w].pc \in Purging
  PROVE  /\ wk' = [wk EXCEPT ![w] = wk'[w]]
         /\ Shape(wk'[w]) /\ wk'[w].pc = pc
         /\ wk'[w].job = wk[w].job /\ wk'[w].n = wk[w].n /\ wk'[w].seen = wk[w].seen
<1> DEFINE then == IF pc \in Removing THEN wk[w].then ELSE "recover"
           new == [wk[w] EXCEPT !.pc = pc, !.then = then]
<1>0. pc \notin PollLoop \cup {"dead"} /\ pc \in Locations
  BY DEF Ahead, PollLoop, Executing, Finalizing, Purging, Unstaging, Sweeping, Locations
<1>1. wk' = [wk EXCEPT ![w] = new]
  BY <1>0 DEF Goto
<1>2. wk[w] \in Worker
  BY DEF Shape
<1>3. then \in Locations
  BY <1>2 DEF Worker, Locations, PollLoop
<1> HIDE DEF then
<1>4. new \in Worker /\ new.pc = pc /\ new.then = then /\ new.job = wk[w].job /\ new.n = wk[w].n /\ new.seen = wk[w].seen
  BY <1>0, <1>2, <1>3 DEF Worker
<1>5. wk'[w] = new
  BY <1>1 DEF PTypeOK
<1> HIDE DEF new
<1>6. CASE pc \in Ahead /\ wk[w].n > 0
  <2>1. then = "recover"
    BY <1>6 DEF Ahead, then, Removing, Executing, Unstaging, Finalizing
  <2> QED
    BY <1>1, <1>4, <1>5, <1>6, <2>1
       DEF Ahead, Shape, PollLoop, Asleep, Finalizing, Executing, Purging, Unstaging, Sweeping
<1>7. CASE pc \in {"deleteObject", "deleteRow"} /\ wk[w].pc \in Unstaging
  <2>1. then = wk[w].then
    BY <1>7 DEF then, Removing
  <2> QED
    BY <1>1, <1>4, <1>5, <1>7, <2>1
       DEF Shape, PollLoop, Asleep, Finalizing, Executing, Purging, Unstaging, Sweeping
<1>8. CASE pc \in Sweeping /\ wk[w].pc \in Purging
  <2>1. then = wk[w].then
    BY <1>8 DEF then, Removing, Sweeping
  <2> QED
    BY <1>1, <1>4, <1>5, <1>8, <2>1
       DEF Shape, PollLoop, Asleep, Finalizing, Executing, Purging, Unstaging, Sweeping
<1> QED
  BY <1>6, <1>7, <1>8

\* To the removal of what the execution has staged.
LEMMA GoesUnstaging ==
  ASSUME PTypeOK, NEW w \in Workers, Shape(wk[w]), wk[w].n > 0,
         NEW pc \in {"check1", "fail", "cancel"}, GotoUnstage(w, pc)
  PROVE  /\ wk' = [wk EXCEPT ![w] = wk'[w]]
         /\ Shape(wk'[w]) /\ wk'[w].pc = "tombstone"
         /\ wk'[w].job = wk[w].job /\ wk'[w].n = wk[w].n /\ wk'[w].seen = wk[w].seen
<1> DEFINE new == [wk[w] EXCEPT !.pc = "tombstone", !.then = pc]
<1>1. wk' = [wk EXCEPT ![w] = new]
  BY DEF GotoUnstage
<1>2. wk[w] \in Worker
  BY DEF Shape
<1>3. /\ new \in Worker /\ new.pc = "tombstone" /\ new.then = pc
      /\ new.job = wk[w].job /\ new.n = wk[w].n /\ new.seen = wk[w].seen
  BY <1>2 DEF Worker, Locations, Executing, Finalizing
<1>4. wk'[w] = new
  BY <1>1 DEF PTypeOK
<1> HIDE DEF new
<1> QED
  BY <1>1, <1>3, <1>4 DEF Shape, PollLoop, Asleep, Finalizing, Executing, Purging, Unstaging, Sweeping

\* A step of a worker process: it goes home, goes on with the job it has, or has
\* claimed one; and it gets to where the outputs row is inserted only from where it
\* has seen that there is none, or has deleted it.
Moved(w) ==
  /\ wk' = [wk EXCEPT ![w] = wk'[w]]
  /\ Shape(wk'[w])
  /\ \/ wk'[w].n = 0
     \/ wk[w].n > 0 /\ wk'[w].n = wk[w].n /\ wk'[w].job = wk[w].job
     \/ \E j \in Jobs : /\ ClaimNextJob(w, j)
                        /\ wk'[w].job = j /\ wk'[w].n = job[j].attempts + 1 /\ wk'[w].pc = "staged"
  /\ wk'[w].pc \in BeforeCreate =>
       /\ wk'[w].job = wk[w].job
       /\ \/ wk[w].pc \in BeforeCreate
          \/ wk[w].pc = "staged" /\ out[wk[w].job].status = "none"
          \/ wk[w].pc = "deleteRow" /\ out' = [out EXCEPT ![wk[w].job] = NoRow]

\* What any step of a worker, of its threads or of its crash may do to the files of its job.
LEMMA Moves ==
  ASSUME PTypeOK, Crew, NEW w \in Workers,
         Step(w) \/ Monitor(w) \/ Deadline(w) \/ Crash(w) \/ StartWorker(w)
  PROVE  Moved(w)
<1> DEFINE k == wk[w]
<1>0. Shape(k) /\ wk \in [Workers -> Worker]
  BY DEF Crew, PTypeOK
<1>1. ASSUME NEW pc \in PollLoop \cup {"dead"}, Goto(w, pc) PROVE Moved(w)
  <2>1. wk' = [wk EXCEPT ![w] = wk'[w]] /\ Shape(wk'[w]) /\ wk'[w].n = 0 /\ wk'[w].pc = pc
    BY <1>1, GoesHome
  <2> QED
    BY <1>1, <2>1 DEF Moved, BeforeCreate, PollLoop
<1>o. ASSUME NEW pc, Goto(w, pc), pc \notin BeforeCreate,
             \/ pc \in Ahead /\ k.n > 0
             \/ pc \in {"deleteObject", "deleteRow"} /\ k.pc \in Unstaging
             \/ pc \in Sweeping /\ k.pc \in Purging
      PROVE  Moved(w)
  <2>1. /\ wk' = [wk EXCEPT ![w] = wk'[w]]
        /\ Shape(wk'[w]) /\ wk'[w].pc = pc /\ wk'[w].job = k.job /\ wk'[w].n = k.n
    BY <1>0, <1>o, GoesOn
  <2>2. k.n \in Nat
    BY <1>0 DEF Shape, Worker
  <2> QED
    BY <1>o, <2>1, <2>2 DEF Moved
<1>2. ASSUME NEW pc \in {"recomplete", "check3", "upload", "check4", "complete", "cancel", "cleanupFailed",
                         "abort", "fail", "timeout", "purgeClaim"}, Goto(w, pc), k.n > 0
      PROVE  Moved(w)
  <2>1. pc \in Ahead /\ pc \notin BeforeCreate
    BY DEF Ahead, Executing, Unstaging, Finalizing, BeforeCreate
  <2> QED
    BY <1>o, <1>2, <2>1
<1>u. ASSUME NEW pc \in {"deleteObject", "deleteRow"}, Goto(w, pc), k.pc \in Unstaging PROVE Moved(w)
  BY <1>o, <1>u DEF BeforeCreate
<1>s. ASSUME NEW pc \in {"purgeObject", "purgeRow"}, Goto(w, pc), k.pc \in Purging PROVE Moved(w)
  BY <1>o, <1>s DEF BeforeCreate, Sweeping
<1>3. ASSUME NEW pc \in BeforeCreate, Goto(w, pc), k.n > 0,
             \/ k.pc \in BeforeCreate
             \/ k.pc = "staged" /\ out[k.job].status = "none"
             \/ k.pc = "deleteRow" /\ out' = [out EXCEPT ![k.job] = NoRow]
      PROVE  Moved(w)
  <2>1. pc \in Ahead
    BY <1>3 DEF BeforeCreate, Ahead, Executing, Unstaging
  <2>2. /\ wk' = [wk EXCEPT ![w] = wk'[w]]
        /\ Shape(wk'[w]) /\ wk'[w].pc = pc /\ wk'[w].job = k.job /\ wk'[w].n = k.n
    BY <1>0, <1>3, <2>1, GoesOn
  <2> QED
    BY <1>3, <2>2 DEF Moved
<1>4. ASSUME NEW pc \in {"check1", "fail", "cancel"}, GotoUnstage(w, pc), k.n > 0 PROVE Moved(w)
  <2>1. /\ wk' = [wk EXCEPT ![w] = wk'[w]]
        /\ Shape(wk'[w]) /\ wk'[w].pc = "tombstone" /\ wk'[w].job = k.job /\ wk'[w].n = k.n
    BY <1>0, <1>4, GoesUnstaging
  <2> QED
    BY <1>4, <2>1 DEF Moved, BeforeCreate
<1>5. ASSUME UNCHANGED wk PROVE Moved(w)
  <2>1. wk' = [wk EXCEPT ![w] = wk'[w]] /\ wk'[w] = wk[w]
    BY <1>0, <1>5
  <2>2. k.n \in Nat
    BY <1>0 DEF Shape, Worker
  <2> QED
    BY <1>0, <2>1, <2>2 DEF Moved
<1>6. ASSUME NEW new \in Worker, wk' = [wk EXCEPT ![w] = new] PROVE wk'[w] = new
  BY <1>0, <1>6
<1>h. {"recover", "sweep", "claim"} = PollLoop
  BY DEF PollLoop
<1>n. k.pc \in Executing \cup Finalizing => k.n > 0
  BY <1>0 DEF Shape
<1>7. CASE Recover(w)
  BY <1>1, <1>7, <1>h DEF Recover
<1>8. CASE Sweep(w)
  <2>1. ASSUME NEW j \in Jobs, wk' = [wk EXCEPT ![w] = [Fresh("purgeObject") EXCEPT !.job = j, !.then = "claim"]]
        PROVE  Moved(w)
    <3> DEFINE new == [Fresh("purgeObject") EXCEPT !.job = j, !.then = "claim"]
    <3>1. new \in Worker /\ new.n = 0 /\ new.pc = "purgeObject" /\ new.then = "claim" /\ new.job = j
      BY DEF Fresh, Worker, Locations, PollLoop, Purging
    <3>2. wk' = [wk EXCEPT ![w] = new]
      BY <2>1
    <3> HIDE DEF new
    <3>3. wk'[w] = new
      BY <1>6, <3>1, <3>2
    <3>4. Shape(new)
      BY <3>1 DEF Shape, PollLoop, Asleep, Finalizing, Executing, Unstaging, Sweeping
    <3> QED
      BY <3>1, <3>2, <3>3, <3>4 DEF Moved, BeforeCreate
  <2> QED
    BY <1>1, <1>8, <1>h, <2>1 DEF Sweep
<1>9. CASE Claim(w)
  <2>1. ASSUME NEW j \in Jobs, ClaimNextJob(w, j),
               wk' = [wk EXCEPT ![w] = [Fresh("staged") EXCEPT !.job = j, !.n = job[j].attempts + 1]]
        PROVE  Moved(w)
    <3> DEFINE new == [Fresh("staged") EXCEPT !.job = j, !.n = job[j].attempts + 1]
    <3>0. job[j].attempts \in Nat
      BY DEF PTypeOK, TypeOK, JobRow
    <3>a. job[j].attempts + 1 \in Nat
      BY <3>0
    <3>1. /\ new \in Worker /\ new.n = job[j].attempts + 1 /\ new.pc = "staged"
          /\ new.then = "recover" /\ new.job = j
      BY <3>a DEF Fresh, Worker, Locations, PollLoop, Executing
    <3>2. wk' = [wk EXCEPT ![w] = new]
      BY <2>1
    <3> HIDE DEF new
    <3>3. wk'[w] = new
      BY <1>6, <3>1, <3>2
    <3>4. Shape(new)
      BY <3>0, <3>1 DEF Shape, PollLoop, Asleep, Finalizing, Executing, Unstaging, Sweeping, Purging
    <3> QED
      BY <2>1, <3>1, <3>2, <3>3, <3>4 DEF Moved, BeforeCreate
  <2> QED
    BY <1>1, <1>9, <1>h, <2>1 DEF Claim
<1>10. CASE Staged(w)
  <2>1. k.n > 0
    BY <1>10, <1>n DEF Staged, Between, Executing
  <2>2. ASSUME wk' = [wk EXCEPT ![w].pc = "hash", ![w].seen = out[k.job].content], out[k.job].status # "none",
               k.pc = "staged"
        PROVE  Moved(w)
    <3> DEFINE new == [k EXCEPT !.pc = "hash", !.seen = out[k.job].content]
    <3>0. k \in Worker /\ k.job \in Jobs /\ k.then = "recover"
      BY <1>0, <2>1, <2>2 DEF Shape, Unstaging, Sweeping
    <3>1. out[k.job].content \in Nat
      BY <3>0 DEF PTypeOK
    <3>2. new \in Worker /\ new.n = k.n /\ new.pc = "hash" /\ new.then = "recover" /\ new.job = k.job
      BY <3>0, <3>1 DEF Worker, Locations, Executing
    <3>3. wk' = [wk EXCEPT ![w] = new]
      BY <2>2
    <3> HIDE DEF new
    <3>4. wk'[w] = new
      BY <1>6, <3>2, <3>3
    <3>5. Shape(new)
      BY <2>1, <3>0, <3>2 DEF Shape, PollLoop, Asleep, Finalizing, Executing, Unstaging, Sweeping, Purging
    <3> QED
      BY <2>1, <3>2, <3>3, <3>4, <3>5 DEF Moved, BeforeCreate
  <2>3. Goto(w, "fail") => Moved(w)
    BY <1>2, <2>1
  <2>4. k.pc = "staged" /\ Goto(w, "check1") /\ out[k.job].status = "none" => Moved(w)
    BY <1>3, <2>1 DEF BeforeCreate
  <2> QED
    BY <1>10, <2>2, <2>3, <2>4 DEF Staged, Between
<1>11. CASE Hash(w)
  <2>1. k.n > 0
    BY <1>11, <1>n DEF Hash, Between, Executing
  <2>2. Goto(w, "fail") \/ Goto(w, "recomplete") => Moved(w)
    BY <1>2, <2>1
  <2> QED
    BY <1>4, <1>11, <2>1, <2>2 DEF Hash
<1>12. ASSUME NEW pc \in {"recomplete", "complete"}, Complete(w, pc) PROVE Moved(w)
  <2>1. k.n > 0
    BY <1>12, <1>n DEF Complete, Between, Executing
  <2>2. Goto(w, "fail") \/ Goto(w, "purgeClaim") => Moved(w)
    BY <1>2, <2>1
  <2> QED
    BY <1>1, <1>12, <1>h, <2>2 DEF Complete, DbCall
<1>13. ASSUME NEW pc, NEW no, Check(w, pc, no),
              <<pc, no>> \in {<<"check1", "run">>, <<"check2", "create">>, <<"check3", "upload">>, <<"check4", "complete">>}
       PROVE  Moved(w)
  <2>1. k.n > 0 /\ k.pc = pc
    BY <1>13, <1>n DEF Check, Between, Executing
  <2>2. Goto(w, "cancel") => Moved(w)
    BY <1>2, <2>1
  <2>3. Goto(w, no) => Moved(w)
    BY <1>2, <1>3, <1>13, <2>1 DEF BeforeCreate
  <2> QED
    BY <1>4, <1>13, <2>1, <2>2, <2>3 DEF Check
<1>14. CASE Run(w)
  <2>1. k.n > 0 /\ k.pc = "run"
    BY <1>14, <1>n DEF Run, Between, Executing
  <2>2. Goto(w, "fail") \/ Goto(w, "timeout") => Moved(w)
    BY <1>2, <2>1
  <2>3. Goto(w, "check2") => Moved(w)
    BY <1>3, <2>1 DEF BeforeCreate
  <2> QED
    BY <1>14, <2>2, <2>3 DEF Run
<1>15. CASE Create(w)
  <2>1. k.n > 0
    BY <1>15, <1>n DEF Create, Between, Executing
  <2>2. Goto(w, "fail") \/ Goto(w, "check3") => Moved(w)
    BY <1>2, <2>1
  <2> QED
    BY <1>15, <2>2 DEF Create, DbCall
<1>16. CASE Upload(w)
  <2>1. k.n > 0
    BY <1>16, <1>n DEF Upload, Between, Executing
  <2>2. Goto(w, "check4") => Moved(w)
    BY <1>2, <2>1
  <2> QED
    BY <1>4, <1>16, <2>1, <2>2 DEF Upload
<1>17. CASE Tombstone(w) \/ DeleteStagedObject(w)
  <2>1. k.n > 0 /\ k.pc \in Unstaging
    BY <1>17, <1>n DEF Tombstone, DeleteStagedObject, Between, Executing, Unstaging
  <2>2. Goto(w, "deleteObject") \/ Goto(w, "deleteRow") \/ Goto(w, "cleanupFailed") => Moved(w)
    BY <1>2, <1>u, <2>1
  <2> QED
    BY <1>17, <2>2 DEF Tombstone, DeleteStagedObject, DbCall, DeleteObject
<1>18. CASE DeleteStagedRow(w)
  <2>1. k.n > 0 /\ k.pc = "deleteRow" /\ k.then \in {"check1", "fail", "cancel"}
    BY <1>0, <1>18, <1>n DEF DeleteStagedRow, Between, Executing, Shape, Unstaging
  <2>2. Goto(w, "cleanupFailed") \/ Goto(w, "fail") \/ Goto(w, "cancel") => Moved(w)
    BY <1>2, <2>1
  <2>3. Goto(w, "check1") /\ out' = [out EXCEPT ![k.job] = NoRow] => Moved(w)
    BY <1>3, <2>1 DEF BeforeCreate
  <2>4. \/ Goto(w, k.then) /\ out' = [out EXCEPT ![k.job] = NoRow]
        \/ Goto(w, "cleanupFailed")
    BY <1>18 DEF DeleteStagedRow, DbCall
  <2> QED
    BY <2>1, <2>2, <2>3, <2>4
<1>19. CASE CleanupFailed(w) \/ Fail(w) \/ Timeout(w) \/ Abort(w)
  BY <1>1, <1>19, <1>h DEF CleanupFailed, Fail, Timeout, Abort, DbCall
<1>20. CASE Cancel(w)
  <2>1. k.n > 0
    BY <1>20, <1>n DEF Cancel, Between, Executing
  <2>2. Goto(w, "fail") => Moved(w)
    BY <1>2, <2>1
  <2> QED
    BY <1>1, <1>20, <1>h, <2>2 DEF Cancel, DbCall
<1>21. CASE PurgeClaim(w) \/ PurgeObject(w) \/ PurgeRow(w)
  <2>1. k.pc \in Purging /\ (k.pc \in Sweeping => k.then \in PollLoop)
    BY <1>0, <1>21, <1>h DEF PurgeClaim, PurgeObject, PurgeRow, Between, Purging, Shape
  <2>2. Goto(w, "purgeObject") \/ Goto(w, "purgeRow") => Moved(w)
    BY <1>s, <2>1
  <2>3. k.pc \in Sweeping /\ Goto(w, k.then) => Moved(w)
    BY <1>1, <2>1
  <2> QED
    BY <1>1, <1>21, <1>h, <2>2, <2>3 DEF PurgeClaim, PurgeObject, PurgeRow, DbCall, DeleteObject, Between, Sweeping
<1>22. CASE Monitor(w)
  <2>1. k.n > 0
    BY <1>22, <1>n DEF Monitor, InExecution
  <2>2. Goto(w, "abort") => Moved(w)
    BY <1>2, <2>1
  <2> QED
    BY <1>1, <1>5, <1>22, <1>h, <2>2 DEF Monitor
<1>23. CASE Deadline(w)
  <2>1. k.n > 0
    BY <1>23, <1>n DEF Deadline, InExecution
  <2> QED
    BY <1>2, <1>23, <2>1 DEF Deadline
<1>24. CASE Crash(w) \/ StartWorker(w)
  BY <1>1, <1>24, <1>h DEF Crash, StartWorker
<1> QED
  BY <1>7, <1>8, <1>9, <1>10, <1>11, <1>12, <1>13, <1>14, <1>15, <1>16, <1>17, <1>18, <1>19, <1>20, <1>21,
     <1>22, <1>23, <1>24 DEF Step
-----------------------------------------------------------------------------
(***************************************************************************)
(* What a step does to the ledger and to the outputs table.                *)
(***************************************************************************)

\* The workers drive the ledger through its functions only, and a call presents the
\* lease that the worker was given.
LEMMA WorkerLedger ==
  ASSUME PTypeOK, Crew, NEW w \in Workers,
         Step(w) \/ Monitor(w) \/ Deadline(w) \/ Crash(w) \/ StartWorker(w)
  PROVE  \/ UNCHANGED vars
         \/ \E j \in Jobs : ClaimNextJob(w, j)
         \/ RecoverExpiredLeases({j \in Jobs : Recoverable(j)})
         \/ /\ wk[w].job \in Jobs /\ wk[w].n \in DOMAIN attempt[wk[w].job]
            /\ LeaseCall(wk[w].job, wk[w].n)
<1> DEFINE j == wk[w].job
           n == wk[w].n
<1> USE DEF ledger, vars
<1>0. Shape(wk[w])
  BY DEF Crew
<1>1. wk[w].pc \in Executing \cup Finalizing => j \in Jobs
  BY <1>0 DEF Shape
<1>2. InExecution(w) => j \in Jobs
  BY <1>0 DEF Shape, InExecution
<1>3. ASSUME j \in Jobs,
             \/ WorkerHeartbeat(j, n) \/ CompleteJob(j, n) \/ CancelJob(j, n)
             \/ FailJob(j, n, "failure") \/ FailJob(j, n, "timeout")
      PROVE  n \in DOMAIN attempt[j] /\ LeaseCall(j, n)
  BY <1>3 DEF LeaseCall, WorkerHeartbeat, CompleteJob, CancelJob, FailJob, FailCancelled, FailRetried, LeaseHeld
<1> HIDE DEF j, n
<1>4. ASSUME Recover(w) \/ Sweep(w) \/ Claim(w) \/ Staged(w) \/ Hash(w) \/ Run(w) \/ Upload(w)
      PROVE  \/ UNCHANGED vars
             \/ \E i \in Jobs : ClaimNextJob(w, i)
             \/ RecoverExpiredLeases({i \in Jobs : Recoverable(i)})
  BY <1>4 DEF Recover, Sweep, Claim, Staged, Hash, Run, Upload
<1>5. ASSUME NEW pc \in {"recomplete", "complete"}, Complete(w, pc)
      PROVE  \/ UNCHANGED vars
             \/ j \in Jobs /\ CompleteJob(j, n)
  BY <1>1, <1>5 DEF Complete, DbCall, CompleteWithOutput, Between, Executing, j, n
<1>6. ASSUME NEW pc \in {"check1", "check2", "check3", "check4"}, NEW no, Check(w, pc, no)
      PROVE  \/ UNCHANGED vars
             \/ j \in Jobs /\ WorkerHeartbeat(j, n)
  BY <1>1, <1>6 DEF Check, Between, Executing, j, n
<1>7. ASSUME \/ Create(w) \/ Tombstone(w) \/ DeleteStagedObject(w) \/ DeleteStagedRow(w)
             \/ PurgeClaim(w) \/ PurgeObject(w) \/ PurgeRow(w)
      PROVE  UNCHANGED vars
  BY <1>7 DEF Create, Tombstone, DeleteStagedObject, DeleteStagedRow, PurgeClaim, PurgeObject, PurgeRow,
              DbCall, DeleteObject
<1>8. ASSUME CleanupFailed(w) \/ Cancel(w) \/ Abort(w)
      PROVE  \/ UNCHANGED vars
             \/ j \in Jobs /\ CancelJob(j, n)
  BY <1>1, <1>8 DEF CleanupFailed, Cancel, Abort, DbCall, CancelWithOutput, Between, Executing, Finalizing, j, n
<1>9. ASSUME Fail(w) \/ Timeout(w)
      PROVE  \/ UNCHANGED vars
             \/ j \in Jobs /\ (FailJob(j, n, "failure") \/ FailJob(j, n, "timeout"))
  BY <1>1, <1>9 DEF Fail, Timeout, DbCall, FailWithOutput, Between, Finalizing, j, n
<1>10. ASSUME Monitor(w) \/ Deadline(w) \/ Crash(w) \/ StartWorker(w)
       PROVE  \/ UNCHANGED vars
              \/ j \in Jobs /\ WorkerHeartbeat(j, n)
  BY <1>2, <1>10 DEF Monitor, Deadline, Crash, StartWorker, j, n
<1>11. \/ UNCHANGED vars
       \/ \E i \in Jobs : ClaimNextJob(w, i)
       \/ RecoverExpiredLeases({i \in Jobs : Recoverable(i)})
       \/ j \in Jobs /\ n \in DOMAIN attempt[j] /\ LeaseCall(j, n)
  BY <1>3, <1>4, <1>5, <1>6, <1>7, <1>8, <1>9, <1>10 DEF Step
<1> QED
  BY <1>11 DEF j, n

\* Every step of the composition is a step of the ledger, or leaves the ledger alone.
LEMMA LedgerStep ==
  ASSUME PTypeOK, Crew, [PNext]_pvars
  PROVE  [Next]_vars
<1>1. ASSUME NEW w \in Workers, Step(w) \/ Monitor(w) \/ Deadline(w) \/ Crash(w) \/ StartWorker(w)
      PROVE  [Next]_vars
  BY <1>1, WorkerLedger DEF Next
<1>2. CASE Member
  BY <1>2 DEF Member, Next
<1>3. ASSUME NEW j \in Jobs, Clock(j) PROVE [Next]_vars
  BY <1>3 DEF Clock, ClaimExpires, ledger, vars, Next
<1>4. CASE (\E r \in late : StorageCatchesUp(r)) \/ UNCHANGED pvars
  BY <1>4 DEF StorageCatchesUp, ledger, vars, pvars
<1> QED
  BY <1>1, <1>2, <1>3, <1>4 DEF PNext

OutRow == [status: {"none", "unvalidated", "valid"}, content: Nat, tombstoned: BOOLEAN,
           claimedBy: Workers \cup {NoWorker}, claimLive: BOOLEAN]

\* The rows of the outputs table keep their status and their content, and what
\* members see is not tombstoned; no job succeeds.
Quiet ==
  /\ \A j \in Jobs : /\ out'[j].status = out[j].status /\ out'[j].content = out[j].content
                     /\ out'[j].tombstoned => out[j].tombstoned \/ out[j].status = "unvalidated"
  /\ \A j \in Jobs : job'[j].status = "success" <=> job[j].status = "success"

\* create_job_output, complete_job, and the two deletions of a row.
Created(w) ==
  /\ wk[w].job \in Jobs /\ wk[w].n > 0
  /\ Held(w) /\ out[wk[w].job].status = "none"
  /\ out' = [out EXCEPT ![wk[w].job] = [NoRow EXCEPT !.status = "unvalidated", !.content = wk[w].n]]
  /\ UNCHANGED job
  /\ wk'[w].pc \notin BeforeCreate
Completed(w) ==
  /\ wk[w].job \in Jobs /\ wk[w].n > 0
  /\ CompleteWithOutput(w) /\ (job[wk[w].job].cancelRequested \/ out[wk[w].job].status # "none")
  /\ wk'[w].pc \notin BeforeCreate
Removed(w) ==
  /\ wk[w].job \in Jobs
  /\ out[wk[w].job].status = "unvalidated"
  /\ out' = [out EXCEPT ![wk[w].job] = NoRow]
  /\ UNCHANGED job

\* Where a plain Goto leads.
LEMMA Arrives ==
  ASSUME PTypeOK, NEW w \in Workers, NEW pc, Goto(w, pc)
  PROVE  wk'[w].pc = pc
<1> DEFINE new == IF pc \in PollLoop \cup {"dead"} THEN Fresh(pc)
                  ELSE [wk[w] EXCEPT !.pc = pc, !.then = IF pc \in Removing THEN wk[w].then ELSE "recover"]
<1>1. wk' = [wk EXCEPT ![w] = new] /\ wk \in [Workers -> Worker]
  BY DEF Goto, PTypeOK
<1>2. new.pc = pc
  BY <1>1 DEF Fresh, Worker
<1> HIDE DEF new
<1> QED
  BY <1>1, <1>2

\* tombstone_unvalidated_output marks a row that is not validated, and nothing else.
LEMMA TombstonedRow ==
  ASSUME out \in [Jobs -> OutRow], NEW j \in Jobs, NEW i \in Jobs
  PROVE  /\ Tombstoned(j) \in [Jobs -> OutRow]
         /\ Tombstoned(j)[i].status = out[i].status /\ Tombstoned(j)[i].content = out[i].content
         /\ Tombstoned(j)[i].tombstoned => out[i].tombstoned \/ out[i].status = "unvalidated"
<1> DEFINE new == [out[j] EXCEPT !.tombstoned = out[j].tombstoned \/ out[j].status = "unvalidated"]
<1>1. out[j] \in OutRow
  OBVIOUS
<1>2. /\ new \in OutRow /\ new.status = out[j].status /\ new.content = out[j].content
      /\ new.tombstoned => out[j].tombstoned \/ out[j].status = "unvalidated"
  BY <1>1 DEF OutRow
<1>3. Tombstoned(j) = [out EXCEPT ![j] = new]
  BY DEF Tombstoned
<1> HIDE DEF new
<1> QED
  BY <1>2, <1>3

\* A claim for cleaning changes who may delete, never the state or content of the row.
LEMMA ClaimedRow ==
  ASSUME out \in [Jobs -> OutRow], NEW j \in Jobs, NEW w \in Workers, TakeClaim(w, j)
  PROVE  /\ out' \in [Jobs -> OutRow]
         /\ \A i \in Jobs : /\ out'[i].status = out[i].status /\ out'[i].content = out[i].content
                            /\ out'[i].tombstoned = out[i].tombstoned
<1> DEFINE new == [out[j] EXCEPT !.claimedBy = w, !.claimLive = TRUE]
<1>1. out[j] \in OutRow
  OBVIOUS
<1>2. /\ new \in OutRow /\ new.status = out[j].status /\ new.content = out[j].content
      /\ new.tombstoned = out[j].tombstoned
  BY <1>1 DEF OutRow
<1>3. out' = [out EXCEPT ![j] = new]
  BY DEF TakeClaim
<1> HIDE DEF new
<1> QED
  BY <1>2, <1>3

\* A row that is completed: visible, or tombstoned if somebody asked to cancel.
LEMMA CompletedRow ==
  ASSUME out \in [Jobs -> OutRow], NEW w \in Workers, wk[w].job \in Jobs, CompleteWithOutput(w), NEW i \in Jobs
  PROVE  /\ out' \in [Jobs -> OutRow]
         /\ out'[i].content = out[i].content
         /\ i # wk[w].job => out'[i] = out[i]
         /\ job[wk[w].job].cancelRequested => out' = Tombstoned(wk[w].job)
         /\ ~ job[wk[w].job].cancelRequested =>
              out'[wk[w].job].status = "valid" /\ ~ out'[wk[w].job].tombstoned
<1> DEFINE j == wk[w].job
           new == [out[j] EXCEPT !.status = "valid", !.tombstoned = FALSE]
<1>1. out[j] \in OutRow
  OBVIOUS
<1>2. new \in OutRow /\ new.status = "valid" /\ ~ new.tombstoned /\ new.content = out[j].content
  BY <1>1 DEF OutRow
<1>3. out' = IF job[j].cancelRequested THEN Tombstoned(j) ELSE [out EXCEPT ![j] = new]
  BY DEF CompleteWithOutput
<1> HIDE DEF new
<1>4. i # j => Tombstoned(j)[i] = out[i]
  BY DEF Tombstoned
<1> QED
  BY <1>2, <1>3, <1>4, TombstonedRow

\* What a worker process does to the outputs table: four kinds of steps.
LEMMA Outputs ==
  ASSUME IInv, PTypeOK, Crew, NEW w \in Workers,
         Step(w) \/ Monitor(w) \/ Deadline(w) \/ Crash(w) \/ StartWorker(w)
  PROVE  /\ out' \in [Jobs -> OutRow]
         /\ Quiet \/ Created(w) \/ Completed(w) \/ Removed(w)
<1> DEFINE j == wk[w].job
           n == wk[w].n
           Goal == out' \in [Jobs -> OutRow] /\ (Quiet \/ Created(w) \/ Completed(w) \/ Removed(w))
<1> USE DEF ledger
<1>0. Shape(wk[w]) /\ out \in [Jobs -> OutRow] /\ n \in Nat
  BY DEF Crew, PTypeOK, OutRow, Shape, Worker
<1>a. wk[w].pc \in Executing \cup Finalizing \cup Purging => j \in Jobs
  BY <1>0 DEF Shape
<1>b. InExecution(w) => j \in Jobs
  BY <1>a DEF InExecution
<1>s. ASSUME NEW i \in Jobs,
             \/ UNCHANGED job
             \/ \E u \in Jobs : ClaimNextJob(w, u)
             \/ RecoverExpiredLeases({u \in Jobs : Recoverable(u)})
             \/ j \in Jobs /\ \/ WorkerHeartbeat(j, n) \/ CancelJob(j, n)
                              \/ FailJob(j, n, "failure") \/ FailJob(j, n, "timeout")
      PROVE  job'[i].status = "success" <=> job[i].status = "success"
  <2>1. WorkerHeartbeat(j, n) \/ CancelJob(j, n) \/ FailJob(j, n, "failure") \/ FailJob(j, n, "timeout")
          => n \in DOMAIN attempt[j]
    BY DEF WorkerHeartbeat, CancelJob, FailJob, FailCancelled, FailRetried, LeaseHeld
  <2> HIDE DEF j, n
  <2> QED
    BY <1>s, <2>1, NoOtherSuccess
<1>1. ASSUME UNCHANGED out,
             \/ UNCHANGED job
             \/ \E u \in Jobs : ClaimNextJob(w, u)
             \/ RecoverExpiredLeases({u \in Jobs : Recoverable(u)})
             \/ j \in Jobs /\ WorkerHeartbeat(j, n)
      PROVE  Goal
  <2>1. \A i \in Jobs : job'[i].status = "success" <=> job[i].status = "success"
    BY <1>1, <1>s
  <2> QED
    BY <1>0, <1>1, <2>1 DEF Quiet
<1>2. ASSUME j \in Jobs, out' = Tombstoned(j),
             UNCHANGED job \/ CancelJob(j, n) \/ FailJob(j, n, "failure") \/ FailJob(j, n, "timeout")
      PROVE  Goal
  <2>1. \A i \in Jobs : job'[i].status = "success" <=> job[i].status = "success"
    BY <1>2, <1>s
  <2> QED
    BY <1>0, <1>2, <2>1, TombstonedRow DEF Quiet
<1>3. ASSUME NEW i \in Jobs, TakeClaim(w, i), UNCHANGED job PROVE Goal
  BY <1>0, <1>3, ClaimedRow DEF Quiet
<1>4. ASSUME j \in Jobs, Removed(w) PROVE Goal
  <2>1. NoRow \in OutRow
    BY DEF NoRow, OutRow
  <2> QED
    BY <1>0, <1>4, <2>1 DEF Removed
<1>5. ASSUME j \in Jobs, Created(w) PROVE Goal
  <2>1. [NoRow EXCEPT !.status = "unvalidated", !.content = n] \in OutRow
    BY <1>0 DEF NoRow, OutRow
  <2> QED
    BY <1>0, <1>5, <2>1 DEF Created
<1>6. ASSUME j \in Jobs, Completed(w) PROVE Goal
  BY <1>0, <1>6, CompletedRow DEF Completed
<1> HIDE DEF j, n, Goal
<1>7. CASE Recover(w) \/ Claim(w) \/ Staged(w) \/ Hash(w) \/ Run(w) \/ Upload(w)
  BY <1>1, <1>7 DEF Recover, Claim, Staged, Hash, Run, Upload, Goal
<1>8. CASE DeleteStagedObject(w) \/ PurgeObject(w) \/ Deadline(w) \/ Crash(w) \/ StartWorker(w)
  BY <1>1, <1>8 DEF DeleteStagedObject, PurgeObject, DeleteObject, Deadline, Crash, StartWorker, Goal
<1>9. CASE Monitor(w)
  BY <1>1, <1>9, <1>b DEF Monitor, j, n, Goal
<1>10. ASSUME NEW pc \in {"check1", "check2", "check3", "check4"}, NEW no, Check(w, pc, no)
       PROVE  Goal
  BY <1>1, <1>10, <1>a DEF Check, Between, Executing, j, n
<1>11. CASE Sweep(w)
  BY <1>1, <1>3, <1>11 DEF Sweep, Goal
<1>12. ASSUME NEW pc \in {"recomplete", "complete"}, Complete(w, pc) PROVE Goal
  <2>1. j \in Jobs
    BY <1>12, <1>a DEF Complete, Between, Executing
  <2>a. Goto(w, "purgeClaim") \/ Goto(w, "recover") \/ Goto(w, "fail")
    BY <1>12 DEF Complete, DbCall
  <2>b. wk'[w].pc \notin BeforeCreate
    BY <2>a, Arrives DEF BeforeCreate
  <2>c. n > 0
    BY <1>0, <1>12 DEF Complete, Between, Executing, Shape, n
  <2>2. UNCHANGED <<out, job>> \/ Completed(w)
    BY <1>12, <2>1, <2>b, <2>c DEF n, Complete, DbCall, CompleteRefused, Completed, j
  <2> QED
    BY <1>1, <1>6, <2>1, <2>2
<1>13. CASE Create(w)
  <2>1. j \in Jobs
    BY <1>13, <1>a DEF Create, Between, Executing
  <2>a. Goto(w, "check3") \/ Goto(w, "fail")
    BY <1>13 DEF Create, DbCall
  <2>b. wk'[w].pc \notin BeforeCreate
    BY <2>a, Arrives DEF BeforeCreate
  <2>c. n > 0
    BY <1>0, <1>13 DEF Create, Between, Executing, Shape, n
  <2>2. UNCHANGED <<out, job>> \/ Created(w)
    BY <1>13, <2>1, <2>b, <2>c DEF n, Create, DbCall, Created, j
  <2> QED
    BY <1>1, <1>5, <2>1, <2>2 DEF Goal
<1>14. CASE Tombstone(w)
  <2>1. j \in Jobs
    BY <1>14, <1>a DEF Tombstone, Between, Executing
  <2>2. UNCHANGED <<out, job>> \/ (out' = Tombstoned(j) /\ UNCHANGED job)
    BY <1>14 DEF Tombstone, DbCall, j
  <2> QED
    BY <1>1, <1>2, <2>1, <2>2 DEF Goal
<1>15. CASE DeleteStagedRow(w) \/ PurgeRow(w)
  <2>1. j \in Jobs
    BY <1>15, <1>a DEF DeleteStagedRow, PurgeRow, Between, Executing, Purging
  <2>2. UNCHANGED <<out, job>> \/ Removed(w)
    BY <1>15, <2>1 DEF DeleteStagedRow, PurgeRow, DbCall, Removed, Purgeable, j
  <2> QED
    BY <1>1, <1>4, <2>1, <2>2 DEF Goal
<1>16. CASE CleanupFailed(w) \/ Cancel(w) \/ Abort(w)
  <2>1. j \in Jobs
    BY <1>16, <1>a DEF CleanupFailed, Cancel, Abort, Between, Executing, Finalizing
  <2>2. UNCHANGED <<out, job>> \/ CancelWithOutput(w)
    BY <1>16 DEF CleanupFailed, Cancel, Abort, DbCall
  <2> QED
    BY <1>1, <1>2, <2>1, <2>2 DEF CancelWithOutput, Goal, j, n
<1>17. CASE Fail(w) \/ Timeout(w)
  <2>1. j \in Jobs
    BY <1>17, <1>a DEF Fail, Timeout, Between, Finalizing
  <2>2. UNCHANGED <<out, job>> \/ FailWithOutput(w, "failure") \/ FailWithOutput(w, "timeout")
    BY <1>17 DEF Fail, Timeout, DbCall
  <2> QED
    BY <1>1, <1>2, <2>1, <2>2 DEF FailWithOutput, Goal, j, n
<1>18. CASE PurgeClaim(w)
  <2>1. j \in Jobs
    BY <1>18, <1>a DEF PurgeClaim, Between, Purging
  <2>2. UNCHANGED <<out, job>> \/ (TakeClaim(w, j) /\ UNCHANGED job)
    BY <1>18 DEF PurgeClaim, DbCall, j
  <2> QED
    BY <1>1, <1>3, <2>1, <2>2 DEF Goal
<1>19. Goal
  BY <1>7, <1>8, <1>9, <1>10, <1>11, <1>12, <1>13, <1>14, <1>15, <1>16, <1>17, <1>18 DEF Step, Goal
<1> QED
  BY <1>19 DEF Goal

-----------------------------------------------------------------------------
(***************************************************************************)
(* Any number of workers, and a Storage that may be late.                  *)
(***************************************************************************)

\* What a worker process does to Storage and to the count of faults.
LEMMA Stores ==
  ASSUME PTypeOK, Crew, NEW w \in Workers,
         Step(w) \/ Monitor(w) \/ Deadline(w) \/ Crash(w) \/ StartWorker(w)
  PROVE  object' \in [Jobs -> Nat] /\ late' \subseteq LateRequest /\ faults' \in 0 .. MaxFaults
<1> USE DEF storage
<1>0. /\ Shape(wk[w]) /\ object \in [Jobs -> Nat] /\ late \subseteq LateRequest
      /\ faults \in 0 .. MaxFaults /\ MaxFaults \in Nat /\ NoObject \in Nat
  BY PostCallAssumption DEF Crew, PTypeOK, NoObject
<1>1. wk[w].n \in Nat
  BY <1>0 DEF Shape, Worker
<1>2. NoFault \/ Fault => faults' \in 0 .. MaxFaults
  BY <1>0 DEF NoFault, Fault
<1>3. Abandon(w) => late' \subseteq LateRequest
  <2>1. wk[w].pc \in {"upload", "deleteObject", "purgeObject"} => wk[w].job \in Jobs
    BY <1>0 DEF Shape, Executing, Purging
  <2> QED
    BY <1>0, <1>1, <2>1 DEF Abandon, LateRequest
<1>4. CASE Recover(w) \/ Sweep(w) \/ Claim(w)
  BY <1>0, <1>2, <1>4 DEF Recover, Sweep, Claim
<1>5. CASE Staged(w) \/ Hash(w) \/ Run(w)
  BY <1>0, <1>2, <1>5 DEF Staged, Hash, Run
<1>7. CASE Complete(w, "recomplete") \/ Complete(w, "complete") \/ Create(w) \/ Tombstone(w)
           \/ DeleteStagedRow(w) \/ CleanupFailed(w) \/ Cancel(w) \/ PurgeClaim(w) \/ PurgeRow(w)
           \/ Fail(w) \/ Timeout(w) \/ Abort(w)
  <2>1. UNCHANGED storage
    BY <1>7 DEF Complete, Create, Tombstone, DeleteStagedRow, CleanupFailed, Cancel, PurgeClaim, PurgeRow,
                Fail, Timeout, Abort
  <2>2. NoFault \/ Fault
    BY <1>7 DEF Complete, Create, Tombstone, DeleteStagedRow, CleanupFailed, Cancel, PurgeClaim, PurgeRow,
                Fail, Timeout, Abort, DbCall
  <2> QED
    BY <1>0, <1>2, <2>1, <2>2
<1>8. CASE Check(w, "check1", "run") \/ Check(w, "check2", "create") \/ Check(w, "check3", "upload")
           \/ Check(w, "check4", "complete")
  BY <1>0, <1>2, <1>8 DEF Check
<1>9. CASE Upload(w)
  BY <1>0, <1>1, <1>2, <1>9 DEF Upload
<1>10. CASE DeleteStagedObject(w) \/ PurgeObject(w)
  BY <1>0, <1>2, <1>10 DEF DeleteStagedObject, PurgeObject, DeleteObject
<1>11. CASE Monitor(w)
  BY <1>0, <1>2, <1>3, <1>11 DEF Monitor
<1>12. CASE Deadline(w) \/ Crash(w) \/ StartWorker(w)
  BY <1>0, <1>3, <1>12 DEF Deadline, Crash, StartWorker
<1> QED
  BY <1>4, <1>5, <1>7, <1>8, <1>9, <1>10, <1>11, <1>12 DEF Step

\* What the others do: members, the clock, and a Storage that catches up.
LEMMA Others ==
  ASSUME IInv, PTypeOK, Member \/ (\E j \in Jobs : Clock(j)) \/ (\E r \in late : StorageCatchesUp(r)) \/ UNCHANGED pvars
  PROVE  /\ UNCHANGED <<wk, faults>> /\ out' \in [Jobs -> OutRow] /\ Quiet
         /\ object' \in [Jobs -> Nat] /\ late' \subseteq LateRequest
<1> USE DEF ledger, storage
<1>0. /\ out \in [Jobs -> OutRow] /\ object \in [Jobs -> Nat] /\ late \subseteq LateRequest
      /\ NoObject \in Nat
  BY DEF PTypeOK, OutRow, NoObject
<1>1. ASSUME NEW i \in Jobs,
             \/ UNCHANGED job
             \/ \E j \in Jobs, k \in Keys \cup {NoKey}, r \in Requests : EnqueueJob(j, k, r)
             \/ \E j \in Jobs : RequestJobCancellation(j) \/ LeaseExpires(j) \/ BackoffElapses(j)
      PROVE  job'[i].status = "success" <=> job[i].status = "success"
  BY <1>1, NoOtherSuccess
<1>2. CASE Member
  <2>1. \A i \in Jobs : job'[i].status = "success" <=> job[i].status = "success"
    BY <1>1, <1>2 DEF Member
  <2> QED
    BY <1>0, <1>2, <2>1 DEF Member, Quiet
<1>3. ASSUME NEW j \in Jobs, LeaseExpires(j) \/ BackoffElapses(j), UNCHANGED <<out, storage, wk, faults>>
      PROVE  /\ UNCHANGED <<wk, faults>> /\ out' \in [Jobs -> OutRow] /\ Quiet
             /\ object' \in [Jobs -> Nat] /\ late' \subseteq LateRequest
  <2>1. \A i \in Jobs : job'[i].status = "success" <=> job[i].status = "success"
    BY <1>1, <1>3
  <2> QED
    BY <1>0, <1>3, <2>1 DEF Quiet
<1>4. ASSUME NEW j \in Jobs, ClaimExpires(j)
      PROVE  /\ UNCHANGED <<wk, faults>> /\ out' \in [Jobs -> OutRow] /\ Quiet
             /\ object' \in [Jobs -> Nat] /\ late' \subseteq LateRequest
  <2> DEFINE new == [out[j] EXCEPT !.claimLive = FALSE]
  <2>1. out[j] \in OutRow
    BY <1>0
  <2>2. /\ new \in OutRow /\ new.status = out[j].status /\ new.content = out[j].content
        /\ new.tombstoned = out[j].tombstoned
    BY <2>1 DEF OutRow
  <2>3. out' = [out EXCEPT ![j] = new]
    BY <1>4 DEF ClaimExpires
  <2> HIDE DEF new
  <2> QED
    BY <1>0, <1>4, <2>2, <2>3 DEF ClaimExpires, Quiet
<1>5. ASSUME NEW r \in late, StorageCatchesUp(r)
      PROVE  /\ UNCHANGED <<wk, faults>> /\ out' \in [Jobs -> OutRow] /\ Quiet
             /\ object' \in [Jobs -> Nat] /\ late' \subseteq LateRequest
  <2>1. r.job \in Jobs /\ r.put \in Nat
    BY <1>0 DEF LateRequest
  <2>2. object' = [object EXCEPT ![r.job] = IF r.put # NoObject /\ object[r.job] # NoObject
                                           THEN object[r.job] ELSE r.put]
    BY <1>5 DEF StorageCatchesUp
  <2> QED
    BY <1>0, <1>5, <2>1, <2>2 DEF StorageCatchesUp, Quiet
<1>6. CASE UNCHANGED pvars
  BY <1>0, <1>6 DEF pvars, Quiet
<1> QED
  BY <1>2, <1>3, <1>4, <1>5, <1>6 DEF Clock

\* A lease that two workers hold is one worker's.
LEMMA OneHolder ==
  ASSUME IInv, Crew, NEW v \in Workers, NEW w \in Workers, wk[v].job = wk[w].job,
         wk[v].n > 0, wk[w].n > 0, Held(v), Held(w)
  PROVE  v = w
<1>1. /\ wk[v].job \in Jobs /\ wk[v].n \in DOMAIN attempt[wk[v].job]
      /\ attempt[wk[v].job][wk[v].n].worker = v
      /\ wk[w].n \in DOMAIN attempt[wk[w].job] /\ attempt[wk[w].job][wk[w].n].worker = w
  BY DEF Crew, Shape, Owned
<1>2. wk[v].n = wk[w].n
  BY <1>1, HeldIsNewest DEF Held
<1> QED
  BY <1>1, <1>2

\* Types and worker processes, after any step.
LEMMA CrewStays ==
  ASSUME IInv, IInv', PTypeOK, Crew, [PNext]_pvars
  PROVE  PTypeOK' /\ Crew'
<1>0. [Next]_vars /\ wk \in [Workers -> Worker]
  BY LedgerStep DEF PTypeOK
<1>1. ASSUME NEW v \in Workers, wk'[v] = wk[v] PROVE Shape(wk'[v]) /\ Owned(v)'
  <2>1. Shape(wk[v]) /\ Owned(v)
    BY DEF Crew
  <2>2. wk[v].n > 0 => wk[v].job \in Jobs
    BY <2>1 DEF Shape
  <2> QED
    BY <1>0, <1>1, <2>1, <2>2, HistoryGrows DEF Owned
<1>2. ASSUME NEW w \in Workers, Step(w) \/ Monitor(w) \/ Deadline(w) \/ Crash(w) \/ StartWorker(w)
      PROVE  PTypeOK' /\ Crew'
  <2>1. Moved(w)
    BY <1>2, Moves
  <2>2. wk' = [wk EXCEPT ![w] = wk'[w]] /\ Shape(wk'[w]) /\ wk'[w] \in Worker
    BY <2>1 DEF Moved, Shape
  <2>3. out' \in [Jobs -> OutRow] /\ object' \in [Jobs -> Nat] /\ late' \subseteq LateRequest
        /\ faults' \in 0 .. MaxFaults
    BY <1>2, Outputs, Stores
  <2>4. wk' \in [Workers -> Worker]
    BY <1>0, <2>2
  <2>5. PTypeOK'
    BY <2>3, <2>4 DEF PTypeOK, OutRow, IInv
  <2>6. ASSUME NEW v \in Workers, v # w PROVE wk'[v] = wk[v]
    BY <1>0, <2>2, <2>6
  <2>7. Owned(w)'
    <3>1. CASE wk'[w].n = 0
      BY <3>1 DEF Owned
    <3>2. CASE wk[w].n > 0 /\ wk'[w].n = wk[w].n /\ wk'[w].job = wk[w].job
      <4>1. Owned(w) /\ wk[w].job \in Jobs
        BY <3>2 DEF Crew, Shape
      <4> QED
        BY <1>0, <3>2, <4>1, HistoryGrows DEF Owned
    <3>3. ASSUME NEW j \in Jobs, ClaimNextJob(w, j), wk'[w].job = j, wk'[w].n = job[j].attempts + 1
          PROVE  Owned(w)'
      <4>1. attempt \in [Jobs -> Seq(AttemptRow)] /\ attempt[j] \in Seq(AttemptRow)
        BY DEF IInv, TypeOK
      <4>2. job[j].attempts = Len(attempt[j])
        BY DEF IInv, JobInv, LeasePart
      <4>3. attempt'[j] = Append(attempt[j], [worker |-> w, outcome |-> "open"])
        BY <3>3, <4>1 DEF ClaimNextJob
      <4>4. /\ Len(attempt[j]) + 1 \in DOMAIN attempt'[j]
            /\ attempt'[j][Len(attempt[j]) + 1].worker = w
        BY <4>1, <4>3 DEF AttemptRow, Outcome
      <4> QED
        BY <3>3, <4>2, <4>4 DEF Owned
    <3> QED
      BY <2>1, <3>1, <3>2, <3>3 DEF Moved
  <2> QED
    BY <1>1, <2>2, <2>5, <2>6, <2>7 DEF Crew
<1>3. ASSUME Member \/ (\E j \in Jobs : Clock(j)) \/ (\E r \in late : StorageCatchesUp(r)) \/ UNCHANGED pvars
      PROVE  PTypeOK' /\ Crew'
  <2>1. /\ UNCHANGED <<wk, faults>> /\ out' \in [Jobs -> OutRow]
        /\ object' \in [Jobs -> Nat] /\ late' \subseteq LateRequest
    BY <1>3, Others
  <2>2. PTypeOK'
    BY <2>1 DEF PTypeOK, OutRow, IInv
  <2> QED
    BY <1>1, <2>1, <2>2 DEF Crew
<1> QED
  BY <1>2, <1>3 DEF PNext

\* The outputs row of the job a worker has, and how it got there.
LEMMA WholeStays ==
  ASSUME PoolInv, IInv', Crew', [PNext]_pvars
  PROVE  SuccessIffValid' /\ VisibleIsNoTombstone' /\ \A v \in Workers : Vacant(v)'
<1>0. IInv /\ PTypeOK /\ Crew /\ [Next]_vars /\ out \in [Jobs -> OutRow] /\ wk \in [Workers -> Worker]
      /\ job \in [Jobs -> JobRow]
  BY LedgerStep DEF PoolInv, PTypeOK, OutRow, TypeOK
<1>1. ASSUME NEW v \in Workers, wk'[v].pc \in BeforeCreate, Held(v)',
             wk'[v].job = wk[v].job, wk'[v].n = wk[v].n
      PROVE  /\ wk[v].n > 0 /\ wk[v].job \in Jobs /\ Held(v)
             /\ wk[v].pc \in BeforeCreate => out[wk[v].job].status = "none"
  <2>1. Shape(wk'[v])
    BY DEF Crew
  <2>2. wk[v].n > 0
    BY <1>1, <2>1 DEF Shape, BeforeCreate, Executing
  <2>3. wk[v].job \in Jobs /\ wk[v].n \in DOMAIN attempt[wk[v].job]
    BY <1>0, <2>2 DEF Crew, Shape, Owned
  <2>4. attempt'[wk[v].job][wk[v].n].outcome = "open"
    BY <1>1 DEF Held, LeaseHeld
  <2>5. Held(v)
    BY <1>0, <2>3, <2>4, LostForGood DEF Held
  <2> QED
    BY <2>2, <2>3, <2>5 DEF PoolInv, Vacant
<1>2. ASSUME Quiet PROVE SuccessIffValid' /\ VisibleIsNoTombstone'
  BY <1>2 DEF PoolInv, Quiet, SuccessIffValid, VisibleIsNoTombstone
<1>3. ASSUME NEW w \in Workers, Step(w) \/ Monitor(w) \/ Deadline(w) \/ Crash(w) \/ StartWorker(w)
      PROVE  SuccessIffValid' /\ VisibleIsNoTombstone' /\ \A v \in Workers : Vacant(v)'
  <2>0. Moved(w) /\ (Quiet \/ Created(w) \/ Completed(w) \/ Removed(w))
    BY <1>0, <1>3, Moves, Outputs
  <2> DEFINE j == wk[w].job
  <2>h. Created(w) \/ Completed(w) => Held(w) /\ wk[w].n > 0 /\ j \in Jobs /\ job[j].status = "running"
    BY DEF Created, Completed, CompleteWithOutput, CompleteJob, Held, LeaseHeld
  <2>1. SuccessIffValid' /\ VisibleIsNoTombstone'
    <3>1. CASE Created(w)
      <4>1. /\ j \in Jobs /\ out' = [out EXCEPT ![j] = [NoRow EXCEPT !.status = "unvalidated", !.content = wk[w].n]]
            /\ UNCHANGED job /\ out[j].status = "none"
        BY <3>1 DEF Created
      <4> QED
        BY <1>0, <4>1 DEF PoolInv, SuccessIffValid, VisibleIsNoTombstone, NoRow
    <3>2. CASE Removed(w)
      BY <1>0, <3>2 DEF Removed, PoolInv, SuccessIffValid, VisibleIsNoTombstone, NoRow
    <3>3. CASE Completed(w)
      <4>0. CompleteWithOutput(w) /\ j \in Jobs /\ job[j].status = "running"
        BY <2>h, <3>3 DEF Completed
      <4>1. ASSUME NEW i \in Jobs, i # j PROVE out'[i] = out[i] /\ job'[i] = job[i]
        BY <1>0, <4>0, <4>1, CompletedRow DEF CompleteWithOutput, CompleteJob
      <4>2. job[j] \in JobRow
        BY <1>0, <4>0
      <4>3. job'[j].status = IF job[j].cancelRequested THEN "cancelled" ELSE "success"
        BY <1>0, <4>0, <4>2 DEF CompleteWithOutput, CompleteJob, JobRow
      <4>4. out[j].status # "valid"
        BY <4>0 DEF PoolInv, SuccessIffValid
      <4>5. CASE job[j].cancelRequested
        <5>1. out'[j].status = out[j].status
          BY <1>0, <4>0, <4>5, CompletedRow, TombstonedRow
        <5> QED
          BY <4>1, <4>3, <4>4, <4>5, <5>1 DEF PoolInv, SuccessIffValid, VisibleIsNoTombstone
      <4>6. CASE ~ job[j].cancelRequested
        <5>1. out'[j].status = "valid" /\ ~ out'[j].tombstoned
          BY <1>0, <4>0, <4>6, CompletedRow
        <5> QED
          BY <4>1, <4>3, <4>6, <5>1 DEF PoolInv, SuccessIffValid, VisibleIsNoTombstone
      <4> QED
        BY <4>5, <4>6
    <3> QED
      BY <1>2, <2>0, <3>1, <3>2, <3>3
  <2>2. ASSUME NEW v \in Workers PROVE Vacant(v)'
    <3> SUFFICES ASSUME wk'[v].pc \in BeforeCreate, Held(v)' PROVE out'[wk'[v].job].status = "none"
      BY DEF Vacant
    <3>0. Shape(wk'[v])
      BY DEF Crew
    <3>1. wk'[v].job = wk[v].job /\ wk'[v].n = wk[v].n
      <4>1. CASE v # w
        BY <1>0, <2>0, <4>1 DEF Moved
      <4>2. CASE v = w
        <5>1. wk'[w].n # 0 /\ wk'[w].pc # "staged"
          BY <3>0, <4>2 DEF Shape, BeforeCreate, Executing
        <5> QED
          BY <2>0, <4>2, <5>1 DEF Moved
      <4> QED
        BY <4>1, <4>2
    <3> DEFINE i == wk[v].job
    <3>2. /\ wk[v].n > 0 /\ i \in Jobs /\ Held(v)
          /\ wk[v].pc \in BeforeCreate => out[i].status = "none"
      BY <1>1, <3>1
    <3>3. \/ out[i].status = "none"
          \/ v = w /\ out' = [out EXCEPT ![i] = NoRow]
      <4>1. CASE v # w
        <5>1. wk'[v] = wk[v]
          BY <1>0, <2>0, <4>1 DEF Moved
        <5> QED
          BY <3>2, <5>1
      <4>2. CASE v = w
        BY <2>0, <3>2, <4>2 DEF Moved
      <4> QED
        BY <4>1, <4>2
    <3>4. CASE out' = [out EXCEPT ![i] = NoRow]
      BY <1>0, <3>1, <3>2, <3>4 DEF NoRow
    <3>5. CASE out[i].status = "none"
      <4>1. CASE Quiet
        BY <3>1, <3>2, <3>5, <4>1 DEF Quiet
      <4>2. CASE Removed(w)
        BY <1>0, <3>1, <3>2, <3>5, <4>2 DEF Removed, NoRow
      <4>3. CASE Created(w) \/ Completed(w)
        <5>1. v # w
          BY <4>3 DEF Created, Completed
        <5>2. i # j
          BY <1>0, <2>h, <3>2, <4>3, <5>1, OneHolder
        <5>3. out'[i] = out[i]
          <6>1. CASE Created(w)
            BY <1>0, <3>2, <5>2, <6>1 DEF Created
          <6>2. CASE Completed(w)
            BY <1>0, <2>h, <3>2, <5>2, <6>2, CompletedRow DEF Completed
          <6> QED
            BY <4>3, <6>1, <6>2
        <5> QED
          BY <3>1, <3>5, <5>3
      <4> QED
        BY <2>0, <4>1, <4>2, <4>3
    <3> QED
      BY <3>3, <3>4, <3>5
  <2> QED
    BY <2>1, <2>2
<1>4. ASSUME Member \/ (\E j \in Jobs : Clock(j)) \/ (\E r \in late : StorageCatchesUp(r)) \/ UNCHANGED pvars
      PROVE  SuccessIffValid' /\ VisibleIsNoTombstone' /\ \A v \in Workers : Vacant(v)'
  <2>1. Quiet /\ UNCHANGED wk
    BY <1>0, <1>4, Others
  <2>2. ASSUME NEW v \in Workers PROVE Vacant(v)'
    <3> SUFFICES ASSUME wk'[v].pc \in BeforeCreate, Held(v)' PROVE out'[wk[v].job].status = "none"
      BY <2>1 DEF Vacant
    <3> QED
      BY <1>1, <2>1 DEF Quiet
  <2> QED
    BY <1>2, <2>1, <2>2
<1> QED
  BY <1>3, <1>4 DEF PNext

\* A pool starts with idle workers, no output row and no object.
LEMMA PoolInitially == PInit => PoolInv
<1> SUFFICES ASSUME PInit PROVE PoolInv
  OBVIOUS
<1> USE DEF PInit
<1>1. IInv
  BY InitIInv
<1>2. \A j \in Jobs : job[j].status = "absent"
  BY DEF Init, FreshRow
<1>3. out \in [Jobs -> OutRow]
  BY DEF NoRow, OutRow
<1>4. ASSUME NEW w \in Workers PROVE wk[w] \in Worker /\ Shape(wk[w]) /\ Owned(w) /\ Vacant(w)
  <2>1. wk[w] \in {Fresh("recover"), Fresh("down")}
    OBVIOUS
  <2> QED
    BY <2>1 DEF Fresh, Worker, Locations, PollLoop, Shape, Asleep, Finalizing, Executing, Purging, Unstaging,
                Sweeping, Owned, Vacant, BeforeCreate
<1>5. wk \in [Workers -> Worker]
  BY <1>4
<1>6. PTypeOK
  BY <1>1, <1>3, <1>5, PostCallAssumption DEF PTypeOK, IInv, OutRow, NoObject, LateRequest
<1> QED
  BY <1>1, <1>2, <1>4, <1>6 DEF PoolInv, Crew, SuccessIffValid, VisibleIsNoTombstone, NoRow

\* Every step of the workers, of the members, of the clock and of Storage keeps the
\* invariant.
THEOREM PoolInductive == PoolInv /\ [PNext]_pvars => PoolInv'
<1> SUFFICES ASSUME PoolInv, [PNext]_pvars PROVE PoolInv'
  OBVIOUS
<1>1. IInv /\ PTypeOK /\ Crew /\ [Next]_vars
  BY LedgerStep DEF PoolInv
<1>2. IInv'
  BY <1>1, NextIInv
<1>3. PTypeOK' /\ Crew'
  BY <1>1, <1>2, CrewStays
<1> QED
  BY <1>2, <1>3, WholeStays DEF PoolInv

\* PoolInv holds in every state of the pool, with any number of workers, crashes and retries.
THEOREM PoolInvariance == PSpec => []PoolInv
<1> USE DEF PSpec
<1> QED
  BY PoolInitially, PoolInductive, PTL

\* The post-call workers drive the job ledger only through its functions: what is
\* proved of the ledger under its most general callers is true of the jobs they run.
THEOREM LedgerRespected == PSpec => LedgerIsRespected
<1>1. PoolInv /\ [PNext]_pvars => [Next]_vars
  BY LedgerStep DEF PoolInv
<1>2. PInit => Init
  BY DEF PInit
<1> USE DEF PSpec, LedgerIsRespected, Spec
<1> QED
  BY <1>1, <1>2, PoolInvariance, PTL

\* Whichever workers crash or are slow, whatever calls fail or are carried out late: a
\* job has succeeded exactly when its output is visible, and the worker that inserts
\* the outputs row never finds one.
THEOREM WholeSuccess == PSpec => []SuccessIsWhole
<1>1. PoolInv => SuccessIsWhole
  <2> SUFFICES ASSUME PoolInv PROVE SuccessIsWhole
    OBVIOUS
  <2>1. SuccessIffValid /\ NothingToRecover
    BY DEF PoolInv, NothingToRecover, Vacant, Between, BeforeCreate
  <2> QED
    BY <2>1 DEF SuccessIsWhole
<1> QED
  BY <1>1, PoolInvariance, PTL

\* An output that members can see is never changed, hidden or deleted: not by the
\* cleanup of another attempt, not by the sweeper, not by a late worker.
THEOREM ImmutableOutput == PSpec => ValidOutputIsImmutable
<1>1. ASSUME PoolInv, [PNext]_pvars, NEW j \in Jobs, out[j].status = "valid"
      PROVE  out'[j].status = "valid" /\ ~ out'[j].tombstoned /\ out'[j].content = out[j].content
  <2>0. /\ IInv /\ PTypeOK /\ Crew /\ out \in [Jobs -> OutRow]
        /\ job[j].status = "success" /\ ~ out[j].tombstoned
    BY <1>1 DEF PoolInv, PTypeOK, OutRow, SuccessIffValid, VisibleIsNoTombstone
  <2>1. CASE Quiet
    BY <1>1, <2>0, <2>1 DEF Quiet
  <2>2. ASSUME NEW w \in Workers, Created(w) \/ Removed(w)
        PROVE  out'[j].status = "valid" /\ ~ out'[j].tombstoned /\ out'[j].content = out[j].content
    BY <1>1, <2>0, <2>2 DEF Created, Removed
  <2>3. ASSUME NEW w \in Workers, Completed(w)
        PROVE  out'[j].status = "valid" /\ ~ out'[j].tombstoned /\ out'[j].content = out[j].content
    <3>1. wk[w].job # j
      BY <2>0, <2>3 DEF Completed, CompleteWithOutput, CompleteJob, LeaseHeld
    <3>2. out'[j] = out[j]
      BY <2>0, <2>3, <3>1, CompletedRow DEF Completed
    <3> QED
      BY <1>1, <2>0, <3>2
  <2>4. CASE \E w \in Workers : Step(w) \/ Monitor(w) \/ Deadline(w) \/ Crash(w) \/ StartWorker(w)
    BY <2>0, <2>1, <2>2, <2>3, <2>4, Outputs
  <2>5. CASE Member \/ (\E i \in Jobs : Clock(i)) \/ (\E r \in late : StorageCatchesUp(r)) \/ UNCHANGED pvars
    BY <2>0, <2>1, <2>5, Others
  <2> QED
    BY <1>1, <2>4, <2>5 DEF PNext
<1>2. PoolInv /\ [PNext]_pvars =>
        [\A j \in Jobs : out[j].status = "valid" =>
           /\ out'[j].status = "valid" /\ ~ out'[j].tombstoned
           /\ out'[j].content = out[j].content]_pvars
  BY <1>1
<1> QED
  BY <1>2, PoolInvariance, PTL DEF PSpec, ValidOutputIsImmutable

-----------------------------------------------------------------------------
(***************************************************************************)
(* One worker at a time, and a Storage that is never late.                 *)
(***************************************************************************)

\* A worker with an outputs row on its hands, and what is in Storage for it.
WithRow == Unstaging \cup Sweeping \cup {"hash", "recomplete", "check3", "upload", "check4", "complete"}

RowOf(k, o, b) ==
  /\ k.pc \in WithRow => o.status = "unvalidated"
  /\ k.pc = "hash" => k.seen = o.content
  /\ k.pc \in {"recomplete", "check4", "complete"} => b = o.content
  /\ k.pc \in {"check3", "upload"} => k.n = o.content
  /\ k.pc \in {"deleteRow", "purgeRow"} => b = NoObject

HasRow(w) == RowOf(wk[w], out[wk[w].job], object[wk[w].job])

Awake(w) == wk[w].pc \notin Asleep

Looked == ValidOutputHasObject /\ NoOrphanObject

SoloInv ==
  /\ late = {}
  /\ \A v, w \in Workers : Awake(v) /\ Awake(w) => v = w
  /\ \A w \in Workers : HasRow(w)
  /\ Looked

\* Rows and objects that keep what matters of them.
RowsKept == \A i \in Jobs : out'[i].status = out[i].status /\ out'[i].content = out[i].content

\* Steps that touch neither the state of a row nor an object leave outputs and objects matched.
LEMMA RowsStayLooked ==
  ASSUME Looked, RowsKept, UNCHANGED object
  PROVE  Looked'
  BY DEF Looked, RowsKept, ValidOutputHasObject, NoOrphanObject

\* Whatever is done to the object of a row that is neither gone nor visible.
LEMMA ObjectOfStaged ==
  ASSUME Looked, RowsKept, object \in [Jobs -> Nat], NEW j \in Jobs, out[j].status = "unvalidated",
         NEW n \in Nat, object' = object \/ object' = [object EXCEPT ![j] = n]
  PROVE  Looked'
<1>1. \A i \in Jobs : i # j => object'[i] = object[i]
  OBVIOUS
<1> QED
  BY <1>1 DEF Looked, RowsKept, ValidOutputHasObject, NoOrphanObject

\* The steps of the one worker that is awake.
LEMMA WorkerAlone ==
  ASSUME PoolInv, SoloInv, NEW w \in Workers, Step(w) \/ Monitor(w) \/ Deadline(w) \/ Crash(w) \/ StartWorker(w)
  PROVE  HasRow(w)' /\ Looked'
<1> DEFINE k == wk[w]
           j == k.job
           Goal == HasRow(w)' /\ Looked'
<1> USE DEF ledger, storage
<1>0. /\ IInv /\ PTypeOK /\ Crew /\ Shape(k) /\ out \in [Jobs -> OutRow] /\ object \in [Jobs -> Nat]
      /\ Looked /\ RowOf(k, out[j], object[j]) /\ k.n \in Nat /\ NoObject \in Nat
  BY DEF PoolInv, SoloInv, PTypeOK, OutRow, Crew, HasRow, Shape, Worker, NoObject
<1>j. k.pc \in Executing \cup Finalizing \cup Purging => j \in Jobs
  BY <1>0 DEF Shape
<1>n. k.pc \in Executing \cup Finalizing => k.n > 0
  BY <1>0 DEF Shape
<1>v. j \in Jobs /\ Held(w) => out[j].status # "valid"
  BY <1>0 DEF PoolInv, SuccessIffValid, Held, LeaseHeld
<1>1. ASSUME NEW pc, pc \notin WithRow, Goto(w, pc) PROVE HasRow(w)'
  <2>1. wk'[w].pc = pc
    BY <1>0, <1>1, Arrives
  <2> QED
    BY <1>1, <2>1 DEF HasRow, RowOf, WithRow, Unstaging, Sweeping
<1>2. ASSUME NEW pc \in {"recomplete", "check3", "upload", "check4", "complete"}, Goto(w, pc), k.n > 0
      PROVE  wk'[w].pc = pc /\ wk'[w].job = j /\ wk'[w].n = k.n /\ wk'[w].seen = k.seen
  <2>1. pc \in Ahead
    BY DEF Ahead, Executing, Unstaging
  <2> QED
    BY <1>0, <1>2, <2>1, GoesOn
<1>3. ASSUME NEW pc \in {"deleteObject", "deleteRow"}, Goto(w, pc), k.pc \in Unstaging
      PROVE  wk'[w].pc = pc /\ wk'[w].job = j
  BY <1>0, <1>3, GoesOn
<1>4. ASSUME NEW pc \in {"purgeObject", "purgeRow"}, Goto(w, pc), k.pc \in Purging
      PROVE  wk'[w].pc = pc /\ wk'[w].job = j
  BY <1>0, <1>4, GoesOn DEF Sweeping
<1>5. ASSUME NEW pc \in {"check1", "fail", "cancel"}, GotoUnstage(w, pc), k.n > 0,
             j \in Jobs, out'[j].status = "unvalidated"
      PROVE  HasRow(w)'
  <2>1. wk'[w].pc = "tombstone" /\ wk'[w].job = j
    BY <1>0, <1>5, GoesUnstaging
  <2> QED
    BY <1>5, <2>1 DEF HasRow, RowOf
<1>6. ASSUME UNCHANGED <<out, object>> PROVE Looked' /\ RowsKept
  BY <1>0, <1>6, RowsStayLooked DEF RowsKept
<1>7. ASSUME NEW i \in Jobs, NEW u \in Workers, UNCHANGED object,
             UNCHANGED out \/ out' = Tombstoned(i) \/ TakeClaim(u, i)
      PROVE  Looked' /\ RowsKept
  <2>1. RowsKept
    BY <1>0, <1>7, TombstonedRow, ClaimedRow DEF RowsKept
  <2> QED
    BY <1>0, <1>7, <2>1, RowsStayLooked
<1>t. {"fail", "timeout", "abort", "cancel", "cleanupFailed", "purgeClaim", "recover", "sweep", "claim",
       "staged", "check1", "run", "check2", "create", "dead"} \cap WithRow = {}
  BY DEF WithRow, Unstaging, Sweeping
<1> HIDE DEF k, j
<1>8. CASE Recover(w) \/ Run(w) \/ Crash(w) \/ StartWorker(w) \/ Deadline(w)
  <2>1. UNCHANGED <<out, object>>
    BY <1>8 DEF Recover, Run, Crash, StartWorker, Deadline
  <2>2. \E pc \in {"sweep", "recover", "check2", "fail", "timeout", "dead"} : Goto(w, pc)
    BY <1>8 DEF Recover, Run, Crash, StartWorker, Deadline
  <2> QED
    BY <1>1, <1>6, <1>t, <2>1, <2>2
<1>9. CASE Sweep(w)
  <2>1. ASSUME NEW i \in Jobs, Purgeable(i), TakeClaim(w, i),
               wk' = [wk EXCEPT ![w] = [Fresh("purgeObject") EXCEPT !.job = i, !.then = "claim"]]
        PROVE  HasRow(w)'
    <3>1. wk'[w] = [Fresh("purgeObject") EXCEPT !.job = i, !.then = "claim"]
      BY <1>0, <2>1 DEF PTypeOK
    <3>2. wk'[w].pc = "purgeObject" /\ wk'[w].job = i
      BY <3>1 DEF Fresh
    <3>3. out'[i].status = "unvalidated"
      BY <1>0, <2>1, ClaimedRow DEF Purgeable
    <3> QED
      BY <3>2, <3>3 DEF HasRow, RowOf
  <2>2. Goto(w, "claim") => HasRow(w)'
    BY <1>1, <1>t
  <2>3. UNCHANGED object /\ (UNCHANGED out \/ \E i \in Jobs : TakeClaim(w, i))
    BY <1>9 DEF Sweep
  <2>4. Looked'
    BY <1>6, <1>7, <2>3
  <2> QED
    BY <1>9, <2>1, <2>2, <2>4 DEF Sweep
<1>10. CASE Claim(w)
  <2>1. ASSUME NEW i \in Jobs, wk' = [wk EXCEPT ![w] = [Fresh("staged") EXCEPT !.job = i, !.n = job[i].attempts + 1]]
        PROVE  HasRow(w)'
    <3>1. wk'[w] = [Fresh("staged") EXCEPT !.job = i, !.n = job[i].attempts + 1]
      BY <1>0, <2>1 DEF PTypeOK
    <3>2. wk'[w].pc = "staged"
      BY <3>1 DEF Fresh
    <3> QED
      BY <3>2 DEF HasRow, RowOf, WithRow, Unstaging, Sweeping
  <2>2. Goto(w, "recover") => HasRow(w)'
    BY <1>1, <1>t
  <2> QED
    BY <1>6, <1>10, <2>1, <2>2 DEF Claim
<1>11. CASE Staged(w)
  <2>1. j \in Jobs /\ k.pc = "staged"
    BY <1>11, <1>j DEF Staged, Between, Executing, k
  <2>2. ASSUME Held(w), out[j].status # "none", UNCHANGED <<out, object>>,
               wk' = [wk EXCEPT ![w].pc = "hash", ![w].seen = out[j].content]
        PROVE  HasRow(w)'
    <3>1. wk'[w] = [k EXCEPT !.pc = "hash", !.seen = out[j].content] /\ k \in Worker
      BY <1>0, <2>2 DEF PTypeOK, k
    <3>2. wk'[w].pc = "hash" /\ wk'[w].seen = out[j].content /\ wk'[w].job = j
      BY <3>1 DEF Worker, j
    <3>3. out[j].status = "unvalidated"
      BY <1>0, <1>v, <2>1, <2>2 DEF OutRow
    <3> QED
      BY <2>2, <3>2, <3>3 DEF HasRow, RowOf
  <2>3. Goto(w, "fail") \/ Goto(w, "check1") => HasRow(w)'
    BY <1>1, <1>t
  <2>4. UNCHANGED <<out, object>>
    BY <1>11 DEF Staged
  <2>5. \/ Goto(w, "fail") \/ Goto(w, "check1")
        \/ Held(w) /\ out[j].status # "none" /\ wk' = [wk EXCEPT ![w].pc = "hash", ![w].seen = out[j].content]
    BY <1>11 DEF Staged, j, k
  <2> QED
    BY <1>6, <2>2, <2>3, <2>4, <2>5
<1>12. CASE Hash(w)
  <2>1. j \in Jobs /\ k.pc = "hash" /\ k.n > 0 /\ out[j].status = "unvalidated" /\ k.seen = out[j].content
    BY <1>0, <1>12, <1>j, <1>n DEF Hash, Between, Executing, RowOf, WithRow, k
  <2>2. UNCHANGED <<out, object>>
    BY <1>12 DEF Hash
  <2>3. \/ GotoUnstage(w, "check1") \/ GotoUnstage(w, "fail") \/ Goto(w, "fail")
        \/ Goto(w, "recomplete") /\ object[j] = k.seen
    BY <1>12 DEF Hash, j, k
  <2>4. Goto(w, "recomplete") /\ object[j] = k.seen => HasRow(w)'
    <3> SUFFICES ASSUME Goto(w, "recomplete"), object[j] = k.seen PROVE HasRow(w)'
      OBVIOUS
    <3>1. wk'[w].pc = "recomplete" /\ wk'[w].job = j
      BY <1>2, <2>1
    <3> QED
      BY <2>1, <2>2, <3>1 DEF HasRow, RowOf
  <2>5. HasRow(w)'
    BY <1>1, <1>5, <1>t, <2>1, <2>2, <2>3, <2>4
  <2> QED
    BY <1>6, <2>2, <2>5
<1>13. ASSUME NEW pc \in {"recomplete", "complete"}, Complete(w, pc) PROVE Goal
  <2>1. j \in Jobs /\ object[j] = out[j].content /\ UNCHANGED object
    BY <1>0, <1>13, <1>j DEF Complete, Between, Executing, RowOf, k
  <2>2. UNCHANGED out \/ CompleteWithOutput(w)
    BY <1>13 DEF Complete, DbCall
  <2>3. Goto(w, "purgeClaim") \/ Goto(w, "recover") \/ Goto(w, "fail")
    BY <1>13 DEF Complete, DbCall
  <2>4. Looked'
    <3>1. CASE UNCHANGED out
      BY <1>6, <2>1, <3>1
    <3>2. CASE CompleteWithOutput(w) /\ job[j].cancelRequested
      BY <1>0, <1>7, <2>1, <3>2, CompletedRow DEF j, k
    <3>3. CASE CompleteWithOutput(w) /\ ~ job[j].cancelRequested
      <4>1. \A i \in Jobs : out'[i].content = out[i].content /\ (i # j => out'[i] = out[i])
        BY <1>0, <2>1, <3>3, CompletedRow DEF j, k
      <4>2. out'[j].status = "valid"
        BY <1>0, <2>1, <3>3, CompletedRow DEF j, k
      <4> QED
        BY <1>0, <2>1, <4>1, <4>2 DEF Looked, ValidOutputHasObject, NoOrphanObject
    <3> QED
      BY <2>2, <3>1, <3>2, <3>3
  <2> QED
    BY <1>1, <1>t, <2>3, <2>4
<1>14. ASSUME NEW pc, NEW no, Check(w, pc, no),
              <<pc, no>> \in {<<"check1", "run">>, <<"check2", "create">>, <<"check3", "upload">>, <<"check4", "complete">>}
       PROVE  Goal
  <2>1. j \in Jobs /\ k.pc = pc /\ k.n > 0 /\ UNCHANGED <<out, object>>
    BY <1>14, <1>j, <1>n DEF Check, Between, Executing, k
  <2>2. \/ Goto(w, no) \/ Goto(w, "cancel")
        \/ pc \in {"check3", "check4"} /\ GotoUnstage(w, "cancel")
    BY <1>14 DEF Check
  <2>3. ASSUME pc \in {"check3", "check4"}, Goto(w, no) PROVE HasRow(w)'
    <3>1. no \in {"upload", "complete"} /\ (pc = "check3" <=> no = "upload")
      BY <1>14, <2>3
    <3>2. wk'[w].pc = no /\ wk'[w].job = j /\ wk'[w].n = k.n
      BY <1>2, <2>1, <2>3, <3>1
    <3>3. /\ out[j].status = "unvalidated"
          /\ pc = "check3" => k.n = out[j].content
          /\ pc = "check4" => object[j] = out[j].content
      BY <1>0, <2>1, <2>3 DEF RowOf, WithRow
    <3> QED
      BY <2>1, <2>3, <3>1, <3>2, <3>3 DEF HasRow, RowOf
  <2>4. pc \in {"check3", "check4"} /\ GotoUnstage(w, "cancel") => HasRow(w)'
    <3>1. pc \in {"check3", "check4"} => out'[j].status = "unvalidated"
      BY <1>0, <2>1 DEF RowOf, WithRow
    <3> QED
      BY <1>5, <2>1, <3>1
  <2>5. (Goto(w, "cancel") => HasRow(w)') /\ (pc \in {"check1", "check2"} /\ Goto(w, no) => HasRow(w)')
    BY <1>1, <1>14, <1>t
  <2>6. pc \in {"check1", "check2", "check3", "check4"}
    BY <1>14
  <2> QED
    BY <1>6, <2>1, <2>2, <2>3, <2>4, <2>5, <2>6
<1>15. CASE Create(w)
  <2>1. j \in Jobs /\ k.n > 0 /\ UNCHANGED object
    BY <1>15, <1>j, <1>n DEF Create, Between, Executing, k
  <2> DEFINE new == [NoRow EXCEPT !.status = "unvalidated", !.content = k.n]
  <2>2. \/ Goto(w, "fail") /\ UNCHANGED out
        \/ out[j].status = "none" /\ out' = [out EXCEPT ![j] = new] /\ (Goto(w, "check3") \/ Goto(w, "fail"))
    BY <1>15 DEF Create, DbCall, j, k
  <2>3. new.status = "unvalidated" /\ new.content = k.n
    BY DEF NoRow
  <2> HIDE DEF new
  <2>4. CASE Goto(w, "fail") /\ UNCHANGED out
    BY <1>1, <1>6, <1>t, <2>1, <2>4
  <2>5. CASE out[j].status = "none" /\ out' = [out EXCEPT ![j] = new] /\ (Goto(w, "check3") \/ Goto(w, "fail"))
    <3>1. out'[j] = new /\ \A i \in Jobs : i # j => out'[i] = out[i]
      BY <1>0, <2>1, <2>5
    <3>2. Looked'
      BY <1>0, <2>1, <2>3, <3>1 DEF Looked, ValidOutputHasObject, NoOrphanObject
    <3>3. Goto(w, "check3") => HasRow(w)'
      <4> SUFFICES ASSUME Goto(w, "check3") PROVE HasRow(w)'
        OBVIOUS
      <4>1. wk'[w].pc = "check3" /\ wk'[w].job = j /\ wk'[w].n = k.n
        BY <1>2, <2>1
      <4> QED
        BY <2>3, <3>1, <4>1 DEF HasRow, RowOf
    <3> QED
      BY <1>1, <1>t, <2>5, <3>2, <3>3
  <2> QED
    BY <2>2, <2>4, <2>5
<1>16. CASE Upload(w)
  <2>1. j \in Jobs /\ k.pc = "upload" /\ k.n > 0 /\ UNCHANGED out
    BY <1>16, <1>j, <1>n DEF Upload, Between, Executing, k
  <2>2. out[j].status = "unvalidated" /\ out[j].content = k.n
    BY <1>0, <2>1 DEF RowOf, WithRow
  <2>3. \/ object' = [object EXCEPT ![j] = k.n] /\ Goto(w, "check4")
        \/ GotoUnstage(w, "fail") /\ (object' = object \/ object' = [object EXCEPT ![j] = k.n])
    BY <1>16 DEF Upload, j, k
  <2>4. Looked'
    BY <1>0, <2>1, <2>2, <2>3, ObjectOfStaged DEF RowsKept
  <2>5. object' = [object EXCEPT ![j] = k.n] /\ Goto(w, "check4") => HasRow(w)'
    <3> SUFFICES ASSUME object' = [object EXCEPT ![j] = k.n], Goto(w, "check4") PROVE HasRow(w)'
      OBVIOUS
    <3>1. wk'[w].pc = "check4" /\ wk'[w].job = j
      BY <1>2, <2>1
    <3>2. object'[j] = k.n
      BY <1>0, <2>1
    <3> QED
      BY <2>1, <2>2, <3>1, <3>2 DEF HasRow, RowOf
  <2>6. GotoUnstage(w, "fail") => HasRow(w)'
    BY <1>5, <2>1, <2>2
  <2> QED
    BY <2>3, <2>4, <2>5, <2>6
<1>17. CASE Tombstone(w)
  <2>1. j \in Jobs /\ k.pc = "tombstone" /\ UNCHANGED object
    BY <1>17, <1>j DEF Tombstone, Between, Executing, k
  <2>2. out[j].status = "unvalidated"
    BY <1>0, <2>1 DEF RowOf, WithRow, Unstaging
  <2>3. (UNCHANGED out \/ out' = Tombstoned(j)) /\ (Goto(w, "deleteObject") \/ Goto(w, "cleanupFailed"))
    BY <1>17 DEF Tombstone, DbCall, j, k
  <2>4. Looked' /\ RowsKept
    BY <1>7, <2>1, <2>3
  <2>5. Goto(w, "deleteObject") => HasRow(w)'
    <3> SUFFICES ASSUME Goto(w, "deleteObject") PROVE HasRow(w)'
      OBVIOUS
    <3>1. wk'[w].pc = "deleteObject" /\ wk'[w].job = j
      BY <1>3, <2>1 DEF Unstaging
    <3> QED
      BY <2>1, <2>2, <2>4, <3>1 DEF HasRow, RowOf, RowsKept
  <2> QED
    BY <1>1, <1>t, <2>3, <2>4, <2>5
<1>18. CASE DeleteStagedObject(w)
  <2>1. j \in Jobs /\ k.pc = "deleteObject" /\ UNCHANGED out
    BY <1>18, <1>j DEF DeleteStagedObject, DeleteObject, Between, Executing, k
  <2>2. out[j].status = "unvalidated"
    BY <1>0, <2>1 DEF RowOf, WithRow, Unstaging
  <2>3. \/ object' = [object EXCEPT ![j] = NoObject] /\ Goto(w, "deleteRow")
        \/ Goto(w, "cleanupFailed") /\ object' \in {object, [object EXCEPT ![j] = NoObject]}
    BY <1>18 DEF DeleteStagedObject, DeleteObject, j, k
  <2>4. Looked'
    BY <1>0, <2>1, <2>2, <2>3, ObjectOfStaged DEF RowsKept
  <2>5. object' = [object EXCEPT ![j] = NoObject] /\ Goto(w, "deleteRow") => HasRow(w)'
    <3> SUFFICES ASSUME object' = [object EXCEPT ![j] = NoObject], Goto(w, "deleteRow") PROVE HasRow(w)'
      OBVIOUS
    <3>1. wk'[w].pc = "deleteRow" /\ wk'[w].job = j
      BY <1>3, <2>1 DEF Unstaging
    <3>2. object'[j] = NoObject
      BY <1>0, <2>1
    <3> QED
      BY <2>1, <2>2, <3>1, <3>2 DEF HasRow, RowOf
  <2> QED
    BY <1>1, <1>t, <2>3, <2>4, <2>5
<1>19. CASE DeleteStagedRow(w) \/ PurgeRow(w)
  <2>1. j \in Jobs /\ k.pc \in {"deleteRow", "purgeRow"} /\ UNCHANGED object
    BY <1>19, <1>j DEF DeleteStagedRow, PurgeRow, Between, Executing, Purging, k
  <2>2. out[j].status = "unvalidated" /\ object[j] = NoObject
    BY <1>0, <2>1 DEF RowOf, WithRow, Unstaging, Sweeping
  <2>3. (UNCHANGED out \/ out' = [out EXCEPT ![j] = NoRow]) /\ (Goto(w, k.then) \/ Goto(w, "cleanupFailed"))
    BY <1>19 DEF DeleteStagedRow, PurgeRow, DbCall, j, k
  <2>4. k.then \in {"check1", "fail", "cancel", "claim", "recover"}
    BY <1>0, <2>1 DEF Shape, Unstaging, Sweeping
  <2>5. Looked'
    <3>1. CASE UNCHANGED out
      BY <1>6, <2>1, <3>1
    <3>2. CASE out' = [out EXCEPT ![j] = NoRow]
      <4>1. out'[j] = NoRow /\ \A i \in Jobs : i # j => out'[i] = out[i]
        BY <1>0, <2>1, <3>2
      <4> QED
        BY <1>0, <2>1, <2>2, <4>1 DEF Looked, ValidOutputHasObject, NoOrphanObject, NoRow
    <3> QED
      BY <2>3, <3>1, <3>2
  <2> QED
    BY <1>1, <1>t, <2>3, <2>4, <2>5
<1>20. CASE CleanupFailed(w) \/ Cancel(w) \/ Abort(w) \/ Fail(w) \/ Timeout(w)
  <2>1. j \in Jobs /\ UNCHANGED object
    BY <1>20, <1>j DEF CleanupFailed, Cancel, Abort, Fail, Timeout, Between, Executing, Finalizing, k
  <2>2. UNCHANGED out \/ out' = Tombstoned(j)
    BY <1>20 DEF CleanupFailed, Cancel, Abort, Fail, Timeout, DbCall, CancelWithOutput, FailWithOutput, j, k
  <2>3. Goto(w, "recover") \/ Goto(w, "fail")
    BY <1>20 DEF CleanupFailed, Cancel, Abort, Fail, Timeout, DbCall
  <2> QED
    BY <1>1, <1>7, <1>t, <2>1, <2>2, <2>3
<1>21. CASE PurgeClaim(w)
  <2>1. j \in Jobs /\ k.pc \in Purging /\ UNCHANGED object
    BY <1>21, <1>j DEF PurgeClaim, Between, Purging, k
  <2>2. (UNCHANGED out \/ TakeClaim(w, j)) /\ (Goto(w, "recover") \/ (Purgeable(j) /\ Goto(w, "purgeObject")))
    BY <1>21 DEF PurgeClaim, DbCall, j, k
  <2>3. Looked' /\ RowsKept
    BY <1>7, <2>1, <2>2
  <2>4. Purgeable(j) /\ Goto(w, "purgeObject") => HasRow(w)'
    <3> SUFFICES ASSUME Purgeable(j), Goto(w, "purgeObject") PROVE HasRow(w)'
      OBVIOUS
    <3>1. wk'[w].pc = "purgeObject" /\ wk'[w].job = j
      BY <1>4, <2>1
    <3> QED
      BY <2>1, <2>3, <3>1 DEF HasRow, RowOf, RowsKept, Purgeable
  <2> QED
    BY <1>1, <1>t, <2>2, <2>3, <2>4
<1>22. CASE PurgeObject(w)
  <2>1. j \in Jobs /\ k.pc = "purgeObject" /\ UNCHANGED out
    BY <1>22, <1>j DEF PurgeObject, DeleteObject, Between, Purging, k
  <2>2. out[j].status = "unvalidated" /\ k.then \in {"claim", "recover"}
    BY <1>0, <2>1 DEF RowOf, WithRow, Sweeping, Shape
  <2>3. \/ object' = [object EXCEPT ![j] = NoObject] /\ Goto(w, "purgeRow")
        \/ Goto(w, k.then) /\ object' \in {object, [object EXCEPT ![j] = NoObject]}
    BY <1>22 DEF PurgeObject, DeleteObject, j, k
  <2>4. Looked'
    BY <1>0, <2>1, <2>2, <2>3, ObjectOfStaged DEF RowsKept
  <2>5. object' = [object EXCEPT ![j] = NoObject] /\ Goto(w, "purgeRow") => HasRow(w)'
    <3> SUFFICES ASSUME object' = [object EXCEPT ![j] = NoObject], Goto(w, "purgeRow") PROVE HasRow(w)'
      OBVIOUS
    <3>1. wk'[w].pc = "purgeRow" /\ wk'[w].job = j
      BY <1>4, <2>1 DEF Purging
    <3>2. object'[j] = NoObject
      BY <1>0, <2>1
    <3> QED
      BY <2>1, <2>2, <3>1, <3>2 DEF HasRow, RowOf
  <2> QED
    BY <1>1, <1>t, <2>2, <2>3, <2>4, <2>5
<1>23. CASE Monitor(w)
  <2>1. UNCHANGED <<out, object>> /\ (Goto(w, "abort") \/ Goto(w, "recover") \/ UNCHANGED wk)
    BY <1>23 DEF Monitor
  <2>2. UNCHANGED wk => HasRow(w)'
    BY <1>0, <2>1 DEF HasRow, k, j
  <2> QED
    BY <1>1, <1>6, <1>t, <2>1, <2>2
<1> QED
  BY <1>8, <1>9, <1>10, <1>11, <1>12, <1>13, <1>14, <1>15, <1>16, <1>17, <1>18, <1>19, <1>20, <1>21, <1>22,
     <1>23 DEF Step

\* When at most one worker is awake, and one was started, a second one starts only
\* when none is.
LEMMA StartsAlone ==
  ASSUME NEW s, Started = {s}, NEW w \in Workers, StartWorker(w),
         \A u, v \in Workers : Awake(u) /\ Awake(v) => u = v, NEW v \in Workers, Awake(v)
  PROVE  FALSE
<1> DEFINE awake == {u \in Workers : wk[u].pc \notin {"down", "dead"}}
<1>1. awake = {v}
  BY DEF Awake, Asleep
<1>2. Cardinality(awake) = 1 /\ Cardinality(Started) = 1
  BY <1>1, FS_Singleton
<1>3. Cardinality(awake) < Cardinality(Started)
  BY DEF StartWorker
<1> HIDE DEF awake
<1> QED
  BY <1>2, <1>3

\* A worker that is not awake takes no step but its start, and without late requests
\* an abandoned one is not carried out.
LEMMA SleepersRest ==
  ASSUME Crew, PTypeOK, NEW w \in Workers,
         Step(w) \/ Monitor(w) \/ Deadline(w) \/ Crash(w) \/ StartWorker(w)
  PROVE  /\ Awake(w) \/ StartWorker(w)
         /\ ~ LateStorage => late' = late
<1> USE DEF storage
<1>1. CASE Recover(w) \/ Sweep(w) \/ Claim(w) \/ Staged(w) \/ Hash(w) \/ Run(w)
  BY <1>1 DEF Recover, Sweep, Claim, Staged, Hash, Run, Between, Awake, Asleep
<1>2. CASE \/ Complete(w, "recomplete") \/ Complete(w, "complete") \/ Create(w) \/ Tombstone(w)
           \/ DeleteStagedRow(w) \/ CleanupFailed(w) \/ Cancel(w) \/ PurgeClaim(w) \/ PurgeRow(w)
           \/ Fail(w) \/ Timeout(w) \/ Abort(w)
  BY <1>2 DEF Complete, Create, Tombstone, DeleteStagedRow, CleanupFailed, Cancel, PurgeClaim, PurgeRow,
              Fail, Timeout, Abort, Between, Awake, Asleep
<1>3. CASE Check(w, "check1", "run") \/ Check(w, "check2", "create") \/ Check(w, "check3", "upload")
           \/ Check(w, "check4", "complete")
  BY <1>3 DEF Check, Between, Awake, Asleep
<1>4. CASE Upload(w) \/ DeleteStagedObject(w) \/ PurgeObject(w)
  BY <1>4 DEF Upload, DeleteStagedObject, PurgeObject, DeleteObject, Between, Awake, Asleep
<1>5. InExecution(w) => Awake(w)
  BY DEF InExecution, Awake, Asleep, Executing, Purging
<1>6. CASE Monitor(w) \/ Deadline(w) \/ Crash(w)
  BY <1>5, <1>6 DEF Monitor, Deadline, Crash, Abandon, Awake, Asleep
<1>7. CASE StartWorker(w)
  BY <1>7 DEF StartWorker
<1> QED
  BY <1>1, <1>2, <1>3, <1>4, <1>6, <1>7 DEF Step

\* With one started worker, every step keeps what that worker knows of its staged output.
LEMMA SoloStays ==
  ASSUME ~ LateStorage, NEW s, Started = {s}, PoolInv, SoloInv, [PNext]_pvars
  PROVE  SoloInv'
<1>0. /\ IInv /\ PTypeOK /\ Crew /\ wk \in [Workers -> Worker] /\ late = {} /\ Looked
      /\ \A u, v \in Workers : Awake(u) /\ Awake(v) => u = v
  BY DEF PoolInv, PTypeOK, SoloInv
<1>1. ASSUME NEW w \in Workers, Step(w) \/ Monitor(w) \/ Deadline(w) \/ Crash(w) \/ StartWorker(w)
      PROVE  SoloInv'
  <2>1. HasRow(w)' /\ Looked'
    BY <1>1, WorkerAlone
  <2>2. (Awake(w) \/ StartWorker(w)) /\ late' = {}
    BY <1>0, <1>1, SleepersRest
  <2>3. wk' = [wk EXCEPT ![w] = wk'[w]]
    BY <1>0, <1>1, Moves DEF Moved
  <2>4. ASSUME NEW v \in Workers, v # w PROVE wk'[v] = wk[v] /\ wk[v].pc \in Asleep
    BY <1>0, <2>2, <2>3, <2>4, StartsAlone DEF Awake
  <2>5. ASSUME NEW v \in Workers, v # w PROVE HasRow(v)' /\ ~ Awake(v)'
    <3>1. wk'[v].pc \in {"down", "dead"}
      BY <2>4, <2>5 DEF Asleep
    <3> QED
      BY <3>1 DEF HasRow, RowOf, WithRow, Unstaging, Sweeping, Awake, Asleep
  <2> QED
    BY <2>1, <2>2, <2>5 DEF SoloInv
<1>2. ASSUME Member \/ (\E j \in Jobs : Clock(j)) \/ (\E r \in late : StorageCatchesUp(r)) \/ UNCHANGED pvars
      PROVE  SoloInv'
  <2>1. UNCHANGED wk /\ Quiet
    BY <1>0, <1>2, Others
  <2>2. UNCHANGED <<object, late>>
    BY <1>0, <1>2 DEF Member, Clock, ClaimExpires, pvars, storage
  <2>3. RowsKept
    BY <2>1 DEF Quiet, RowsKept
  <2>4. Looked'
    BY <1>0, <2>2, <2>3, RowsStayLooked
  <2>5. ASSUME NEW v \in Workers PROVE HasRow(v)'
    <3>1. Shape(wk[v]) /\ HasRow(v)
      BY <1>0 DEF Crew, SoloInv
    <3>2. wk[v].pc \in WithRow => wk[v].job \in Jobs
      BY <3>1 DEF Shape, WithRow, Unstaging, Sweeping, Executing, Purging
    <3> QED
      BY <2>1, <2>2, <2>3, <3>1, <3>2 DEF HasRow, RowOf, RowsKept, WithRow, Unstaging, Sweeping
  <2> QED
    BY <1>0, <2>1, <2>2, <2>4, <2>5 DEF SoloInv, Awake
<1> QED
  BY <1>1, <1>2 DEF PNext

\* A pool with one started worker starts with no output and no object.
LEMMA SoloInitially ==
  ASSUME NEW s, Started = {s}, PInit
  PROVE  SoloInv
<1>1. ASSUME NEW w \in Workers PROVE HasRow(w) /\ (Awake(w) => w = s)
  <2>1. wk[w].pc = IF w = s THEN "recover" ELSE "down"
    BY DEF PInit, Fresh
  <2> QED
    BY <2>1 DEF HasRow, RowOf, WithRow, Unstaging, Sweeping, Awake, Asleep
<1>2. Looked
  BY DEF PInit, Looked, ValidOutputHasObject, NoOrphanObject, NoRow
<1>3. late = {}
  BY DEF PInit
<1> QED
  BY <1>1, <1>2, <1>3 DEF SoloInv

\* Over any number of crashes, restarts, lost answers and failed cleanups, when one
\* worker process runs at a time and Storage carries out no request after its caller
\* gave up: what members see has its bytes in Storage, and Storage holds nothing that
\* no outputs row leads to.
THEOREM OwnedOutputs ==
  ASSUME ~ LateStorage, \E s : Started = {s}
  PROVE  PSpec => []OutputsAreOwned
<1>1. PInit => PoolInv /\ SoloInv
  BY PoolInitially, SoloInitially
<1>2. PoolInv /\ SoloInv /\ [PNext]_pvars => (PoolInv /\ SoloInv)'
  BY PoolInductive, SoloStays
<1>3. PoolInv /\ SoloInv => OutputsAreOwned
  BY DEF PoolInv, SoloInv, Looked, OutputsAreOwned
<1> QED
  BY <1>1, <1>2, <1>3, PTL DEF PSpec
=============================================================================
