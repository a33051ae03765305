-------------------------- MODULE OverviewProofs ---------------------------
(***************************************************************************)
(* Machine-checked proofs about the store of an overview, for any number   *)
(* of transcripts, jobs, edits and faults: one job at a time writes, what  *)
(* is reported is true, and the files implement OverviewChain.             *)
(*                                                                         *)
(* The inductive invariant has five parts: types; the phases of the jobs   *)
(* (one of them works, it runs, and only a job that is being launched or   *)
(* is over has a snapshot under way); the files (consecutive revisions, at *)
(* most one beyond the pointer, one file per job, and what a job between   *)
(* its two writes has put there); the reports (every table that says       *)
(* "done", in memory, in a snapshot or on disk, is backed by a file); and  *)
(* the limit on what a version file cites (ManifestsFit).                  *)
(***************************************************************************)
EXTENDS OverviewStore, TLAPS, FiniteSetTheorems

Early    == {"launch", "start", "verify", "run", "after"}
AtWork   == Early \cup {"wrote"}
Phases   == AtWork \cup {"none", "final", "over", "orphan"}
Statuses == {"absent", "running", "done", "error", "lost"}
Errors   == {"none", "evidence_changed", "invalid_model_output", "execution", "stale", "storage", "interrupted"}
Manifest == [Evidence -> 0 .. MaxContent]

FileRow == [rev : Nat, job : JobIds, parent : Nat, manifest : Manifest]
JobRow  == [status : Statuses, kind : {"none", "create", "update"}, sel : SUBSET Transcripts,
            auth : Manifest, base : Nat, phase : Phases, result : Nat, tries : Nat,
            error : Errors, warn : BOOLEAN]
Table   == [JobIds -> JobRow]
Shots   == Table \cup {NoShot}
SaveRow == [stage : {"none", "asked", "taken", "written"}, shot : Shots]

TypeInv ==
  /\ files \subseteq FileRow /\ IsFiniteSet(files)
  /\ pointer \in files \cup {NoFile}
  /\ retired \in BOOLEAN
  /\ content \in Manifest /\ content[Meta] # 0
  /\ jobs \in Table
  /\ saves \in [JobIds -> SaveRow]
  /\ tmp \in Shots /\ disk \in Shots
  /\ up \in BOOLEAN

WriterInv ==
  /\ \A i, j \in JobIds : jobs[i].phase \in AtWork /\ jobs[j].phase \in AtWork => i = j
  /\ \A j \in JobIds : jobs[j].phase \in AtWork => Running(j)
  /\ \A j \in JobIds : saves[j].stage # "none" => jobs[j].phase \in {"launch", "final"}
  /\ ~up => \A j \in JobIds : jobs[j].phase = "none" /\ ~Running(j)

\* What a job has written when it is about to move the pointer.
Promised(j, f) ==
  /\ f.job = j /\ f.rev = pointer.rev + 1
  /\ f.manifest = jobs[j].auth /\ f.parent = jobs[j].base
  /\ pointer # NoFile => \A e \in Evidence : pointer.manifest[e] # 0 => f.manifest[e] # 0

FilesInv ==
  /\ \A f \in files : 1 <= f.rev /\ f.rev <= pointer.rev + 1
  /\ \A f, g \in files : f.rev = g.rev => f = g
  /\ \A i \in 1 .. pointer.rev : \E f \in files : f.rev = i
  /\ \A f, g \in files : f.job = g.job => f = g
  /\ \A f \in files : jobs[f.job].status # "absent" /\ jobs[f.job].phase \notin Early
  /\ \A j \in JobIds : jobs[j].phase = "wrote" => ~retired /\ \E f \in files : Promised(j, f)
  /\ \A j \in JobIds : jobs[j].phase \in AtWork /\ jobs[j].kind = "create" => jobs[j].base = 0

\* A record of job j that says "done" has its version among the committed ones.
Backed(j, r) ==
  \E f \in files : /\ f.job = j /\ f.rev = r.result /\ f.rev <= pointer.rev
                   /\ f.manifest = r.auth /\ f.parent = r.base
Honest(t) == \A j \in JobIds : t[j].status = "done" => Backed(j, t[j])

ReportInv ==
  /\ Honest(jobs)
  /\ \A j \in JobIds : saves[j].shot # NoShot => Honest(saves[j].shot)
  /\ tmp # NoShot => Honest(tmp)
  /\ disk # NoShot => Honest(disk)

Inv == TypeInv /\ WriterInv /\ FilesInv /\ ReportInv /\ ManifestsFit

-----------------------------------------------------------------------------

\* The greatest element of a set of numbers is the one that is above all others.
LEMMA MaxIs ==
  ASSUME NEW S \in SUBSET Nat, NEW x \in S, \A y \in S : x >= y
  PROVE  Max(S) = x
<1> DEFINE m == Max(S)
<1>1. m \in S /\ \A y \in S : m >= y
  BY DEF Max
<1>2. m \in Nat /\ x \in Nat
  BY <1>1
<1>3. m >= x /\ x >= m
  BY <1>1
<1> HIDE DEF m
<1>4. m = x
  BY <1>2, <1>3
<1> QED
  BY <1>4 DEF m

\* The records that stand for nothing: no file, no job, no save, no snapshot.
LEMMA Empty ==
  /\ NoFile.manifest \in Manifest /\ NoFile.rev = 0 /\ NoFile.parent = 0
  /\ NoJob \in JobRow /\ NoSave \in SaveRow
  /\ NoShot \notin Table
  /\ NoFile \notin {f \in FileRow : 1 <= f.rev}
<1>1. NoFile.manifest \in Manifest /\ NoFile.rev = 0 /\ NoFile.parent = 0
  BY StoreAssumption DEF NoFile, Manifest
<1>2. NoJob \in JobRow
  <2> DEFINE m == NoFile.manifest
  <2>1. m \in Manifest
    BY <1>1
  <2> HIDE DEF m
  <2>2. [status |-> "absent", kind |-> "none", sel |-> {}, auth |-> m, base |-> 0, phase |-> "none",
         result |-> 0, tries |-> 0, error |-> "none", warn |-> FALSE] \in JobRow
    BY <2>1 DEF JobRow, Phases, Statuses, Errors
  <2> QED
    BY <2>2 DEF NoJob, m
<1>3. NoSave \in SaveRow
  BY DEF NoSave, SaveRow, Shots, NoShot
<1>4. NoShot \notin Table
  BY StoreAssumption DEF NoShot, Table, JobIds
<1>5. NoFile \notin {f \in FileRow : 1 <= f.rev}
  BY <1>1
<1> QED
  BY <1>1, <1>2, <1>3, <1>4, <1>5

\* The manifests that jobs are authorized for.
LEMMA Manifests ==
  ASSUME TypeInv, NEW sel \in SUBSET Transcripts
  PROVE  /\ FirstManifest(sel) \in Manifest
         /\ \A v \in FileRow : CumulativeManifest(v, sel) \in Manifest
<1> USE DEF TypeInv, Manifest, Evidence
<1>1. FirstManifest(sel) \in Manifest
  BY StoreAssumption DEF FirstManifest
<1>2. \A v \in FileRow : CumulativeManifest(v, sel) \in Manifest
  BY StoreAssumption DEF CumulativeManifest, FileRow, Metadata
<1> QED
  BY <1>1, <1>2

\* A job's record stays a record under each kind of change the job service makes:
\* its status and phase (Set),
LEMMA RowSet ==
  ASSUME NEW r \in JobRow, NEW s \in Statuses, NEW p \in Phases, NEW e \in Errors
  PROVE  [r EXCEPT !.status = s, !.phase = p, !.error = e] \in JobRow
  BY DEF JobRow

\* its registration (launch_managed),
LEMMA RowNew ==
  ASSUME NEW r \in JobRow, NEW k \in {"create", "update"}, NEW sel \in SUBSET Transcripts,
         NEW auth \in Manifest, NEW base \in Nat
  PROVE  [r EXCEPT !.status = "running", !.kind = k, !.sel = sel, !.auth = auth,
                   !.base = base, !.phase = "launch"] \in JobRow
  BY DEF JobRow, Statuses, Phases, AtWork, Early

\* one more attempt (execute),
LEMMA RowTries ==
  ASSUME NEW r \in JobRow, NEW p \in Phases, NEW n \in Nat
  PROVE  [r EXCEPT !.tries = n, !.phase = p] \in JobRow
  BY DEF JobRow

\* its success,
LEMMA RowDone ==
  ASSUME NEW r \in JobRow, NEW n \in Nat
  PROVE  [r EXCEPT !.status = "done", !.phase = "final", !.result = n] \in JobRow
  BY DEF JobRow, Statuses, Phases

\* and what follows a snapshot (save_jobs).
LEMMA RowPhase ==
  ASSUME NEW r \in JobRow, NEW p \in Phases, NEW w \in BOOLEAN
  PROVE  /\ [r EXCEPT !.phase = p] \in JobRow
         /\ [r EXCEPT !.phase = p, !.warn = w] \in JobRow
  BY DEF JobRow

\* _next_revision is one more than the newest file, committed or not.
LEMMA NextRevisionIs ==
  ASSUME Inv
  PROVE  /\ pointer.rev \in Nat
         /\ pointer = NoFile <=> pointer.rev = 0
         /\ (\E f \in files : f.rev = pointer.rev + 1) => NextRevision = pointer.rev + 2
         /\ (\A f \in files : f.rev # pointer.rev + 1) => NextRevision = pointer.rev + 1
<1> DEFINE S == {0} \cup {f.rev : f \in files}
           R == pointer.rev
<1>1. R \in Nat /\ (pointer = NoFile <=> R = 0) /\ R \in S
  BY Empty DEF Inv, TypeInv, FilesInv, FileRow
<1>2. S \in SUBSET Nat /\ \A y \in S : y <= R + 1
  BY <1>1 DEF Inv, TypeInv, FilesInv, FileRow
<1>3. ASSUME NEW f \in files, f.rev = R + 1 PROVE NextRevision = R + 2
  <2>1. R + 1 \in S
    BY <1>3
  <2>2. Max(S) = R + 1
    BY <1>1, <1>2, <2>1, MaxIs
  <2> QED
    BY <1>1, <2>2 DEF NextRevision
<1>4. ASSUME \A f \in files : f.rev # R + 1 PROVE NextRevision = R + 1
  <2>1. \A y \in S : y <= R
    BY <1>1, <1>2, <1>4
  <2>2. Max(S) = R
    BY <1>1, <1>2, <2>1, MaxIs
  <2> QED
    BY <1>1, <2>2 DEF NextRevision
<1> QED
  BY <1>1, <1>3, <1>4

\* The number of the next version file is a number.
LEMMA NextRevisionType == ASSUME Inv PROVE NextRevision \in Nat
  BY NextRevisionIs

\* The file a job has written is the one it promises.
LEMMA WrittenIs ==
  ASSUME Inv, NEW j \in JobIds, jobs[j].phase = "wrote"
  PROVE  Written(j) \in files /\ Promised(j, Written(j)) /\ Written(j) # pointer
<1>1. PICK f \in files : Promised(j, f)
  BY DEF Inv, FilesInv
<1>2. Written(j) \in files /\ Written(j).job = j
  BY <1>1 DEF Written, Promised
<1>3. Written(j) = f
  BY <1>1, <1>2 DEF Inv, FilesInv, Promised
<1>4. f # pointer
  BY <1>1, NextRevisionIs DEF Promised
<1> QED
  BY <1>1, <1>3, <1>4

\* Every step keeps the types of the store, the job table and its snapshots.
LEMMA TypeStep == Inv /\ [Next]_vars => TypeInv'
<1> SUFFICES ASSUME Inv, [Next]_vars PROVE TypeInv'
  OBVIOUS
<1> USE DEF Inv, storeVars, jobVars, Manifest
<1>0. ASSUME NEW j \in JobIds, NEW k \in {"create", "update"}, NEW sel \in SUBSET Transcripts,
             NEW auth \in Manifest, NEW base \in Nat, Register(j, k, sel, auth, base)
      PROVE  jobs' \in Table /\ saves' \in [JobIds -> SaveRow]
  <2>1. [NoJob EXCEPT !.status = "running", !.kind = k, !.sel = sel, !.auth = auth,
                      !.base = base, !.phase = "launch"] \in JobRow
    BY ONLY Empty, RowNew, <1>0
  <2> QED
    BY <1>0, <2>1 DEF Register, TypeInv, Table, SaveRow, Shots
<1>1. ASSUME NEW j \in JobIds, NEW sel \in SUBSET Transcripts, StartCreate(j, sel)
      PROVE  TypeInv'
  BY <1>0, <1>1, Manifests DEF StartCreate, TypeInv
<1>2. ASSUME NEW j \in JobIds, NEW sel \in SUBSET Transcripts, StartUpdate(j, sel)
      PROVE  TypeInv'
  <2>1. pointer \in FileRow /\ pointer.rev \in Nat
    BY <1>2 DEF StartUpdate, Inspect, TypeInv, FileRow
  <2> QED
    BY <1>0, <1>2, <2>1, Manifests DEF StartUpdate, TypeInv
<1>3. ASSUME NEW j \in JobIds, TakeShot(j)
      PROVE  TypeInv'
  BY <1>3 DEF TakeShot, TypeInv, SaveRow, Shots
<1>4. ASSUME NEW j \in JobIds, WriteTmp(j)
      PROVE  TypeInv'
  BY <1>4 DEF WriteTmp, TypeInv, SaveRow, Shots
<1>5. ASSUME NEW j \in JobIds, NEW ok \in BOOLEAN, Continue(j, ok)
      PROVE  jobs' \in Table
  <2> DEFINE row(i) == [jobs[i] EXCEPT
               !.phase = IF i # j THEN @ ELSE IF @ = "launch" THEN "start" ELSE "over",
               !.warn  = IF ok THEN FALSE ELSE IF i = j THEN TRUE ELSE @]
  <2>1. ASSUME NEW i \in JobIds PROVE row(i) \in JobRow
    <3> DEFINE p == IF i # j THEN jobs[i].phase ELSE IF jobs[i].phase = "launch" THEN "start" ELSE "over"
               w == IF ok THEN FALSE ELSE IF i = j THEN TRUE ELSE jobs[i].warn
    <3>1. jobs[i] \in JobRow /\ p \in Phases /\ w \in BOOLEAN
      BY DEF TypeInv, Table, JobRow, Phases, AtWork, Early
    <3>2. row(i) = [jobs[i] EXCEPT !.phase = p, !.warn = w]
      OBVIOUS
    <3> QED
      BY ONLY <3>1, <3>2, RowPhase
  <2> QED
    BY <1>5, <2>1 DEF Continue, Table
<1>6. ASSUME NEW j \in JobIds, Replace(j)
      PROVE  TypeInv'
  BY <1>5, <1>6, Empty DEF Replace, TypeInv, Shots
<1>7. ASSUME NEW j \in JobIds, SaveFails(j)
      PROVE  TypeInv'
  BY <1>5, <1>7, Empty DEF SaveFails, TypeInv
<1>8. ASSUME NEW j \in JobIds, SaveRaises(j)
      PROVE  TypeInv'
  <2>1. jobs' \in Table
    BY <1>8, RowPhase DEF SaveRaises, TypeInv, Table, Phases, AtWork, Early
  <2> QED
    BY <1>8, <2>1, Empty DEF SaveRaises, TypeInv
<1>9. ASSUME NEW j \in JobIds, NEW s \in Statuses, NEW p \in Phases, NEW e \in Errors, Set(j, s, p, e)
      PROVE  jobs' \in Table
  <2>1. jobs[j] \in JobRow
    BY DEF TypeInv, Table
  <2>2. [jobs[j] EXCEPT !.status = s, !.phase = p, !.error = e] \in JobRow
    BY ONLY <2>1, RowSet, <1>9
  <2> QED
    BY <1>9, <2>2 DEF Set, TypeInv, Table
<1>10. ASSUME NEW j \in JobIds, NEW s \in Statuses, NEW e \in Errors, Finish(j, s, e)
       PROVE  jobs' \in Table /\ saves' \in [JobIds -> SaveRow]
  <2>1. jobs' \in Table
    BY <1>9, <1>10 DEF Finish, Phases
  <2> QED
    BY <1>10, <2>1 DEF Finish, TypeInv, SaveRow, Shots
<1> USE DEF Statuses, Phases, AtWork, Early, Errors
<1>11. ASSUME NEW j \in JobIds, Before(j)
       PROVE  TypeInv'
  BY <1>9, <1>10, <1>11 DEF Before, TypeInv
<1>12. ASSUME NEW j \in JobIds, VerifyCli(j)
       PROVE  TypeInv'
  BY <1>9, <1>12 DEF VerifyCli, TypeInv
<1>13. ASSUME NEW j \in JobIds, Executed(j)
       PROVE  TypeInv'
  BY <1>9, <1>13 DEF Executed, TypeInv
<1>14. ASSUME NEW j \in JobIds, Rejected(j)
       PROVE  TypeInv'
  <2>1. CASE jobs[j].tries + 1 < MaxAttempts
    <3>1. jobs[j] \in JobRow /\ jobs[j].tries + 1 \in Nat
      BY DEF TypeInv, Table, JobRow
    <3>2. [jobs[j] EXCEPT !.tries = jobs[j].tries + 1, !.phase = "verify"] \in JobRow
      BY <3>1, RowTries
    <3> QED
      BY <1>14, <2>1, <3>2 DEF Rejected, TypeInv, Table
  <2>2. CASE ~(jobs[j].tries + 1 < MaxAttempts)
    BY <1>10, <1>14, <2>2 DEF Rejected, TypeInv
  <2> QED
    BY <2>1, <2>2
<1>15. ASSUME NEW j \in JobIds, ExecutionFails(j)
       PROVE  TypeInv'
  BY <1>10, <1>15 DEF ExecutionFails, TypeInv
<1>16. ASSUME NEW j \in JobIds, NEW f \in FileRow, Wrote(j, f)
       PROVE  /\ jobs' \in Table /\ saves' = saves
              /\ files' \subseteq FileRow /\ IsFiniteSet(files') /\ files \subseteq files'
  <2>1. jobs' \in Table
    BY <1>9, <1>16 DEF Wrote
  <2> QED
    BY <1>16, <2>1, FS_AddElement DEF Wrote, TypeInv
<1>17. ASSUME NEW j \in JobIds, WriteFirstVersion(j)
       PROVE  TypeInv'
  <2>1. CASE Stale(j)
    BY <1>10, <1>17, <2>1 DEF WriteFirstVersion, Stale, TypeInv
  <2>2. ASSUME NEW f \in FileRow, Wrote(j, f)
        PROVE  TypeInv'
    BY <1>16, <1>17, <2>2 DEF WriteFirstVersion, TypeInv
  <2>3. [rev |-> NextRevision, job |-> j, parent |-> 0, manifest |-> jobs[j].auth] \in FileRow
    BY NextRevisionType DEF FileRow, TypeInv, Table, JobRow
  <2> QED
    BY <1>17, <2>1, <2>2, <2>3 DEF WriteFirstVersion
<1>18. ASSUME NEW j \in JobIds, WriteNextVersion(j)
       PROVE  TypeInv'
  <2>1. CASE Stale(j)
    BY <1>10, <1>18, <2>1 DEF WriteNextVersion, Stale, TypeInv
  <2>2. ASSUME NEW f \in FileRow, Wrote(j, f)
        PROVE  TypeInv'
    BY <1>16, <1>18, <2>2 DEF WriteNextVersion, TypeInv
  <2>3. [rev |-> NextRevision, job |-> j, parent |-> pointer.rev, manifest |-> jobs[j].auth] \in FileRow
    BY NextRevisionType, NextRevisionIs DEF FileRow, TypeInv, Table, JobRow
  <2> QED
    BY <1>18, <2>1, <2>2, <2>3 DEF WriteNextVersion
<1>19. ASSUME NEW j \in JobIds, MovePointer(j)
       PROVE  TypeInv'
  <2>1. Written(j) \in files
    BY <1>19, WrittenIs DEF MovePointer
  <2>2. [jobs[j] EXCEPT !.status = "done", !.phase = "final", !.result = Written(j).rev] \in JobRow
    <3>1. jobs[j] \in JobRow /\ Written(j).rev \in Nat
      BY <2>1 DEF TypeInv, Table, FileRow
    <3> QED
      BY ONLY <3>1, RowDone
  <2> QED
    BY <1>19, <2>1, <2>2 DEF MovePointer, TypeInv, Table, SaveRow, Shots
<1>20. ASSUME NEW j \in JobIds, MoveFails(j)
       PROVE  TypeInv'
  <2>1. Written(j) \in files /\ Written(j) # pointer
    BY <1>20, WrittenIs DEF MoveFails
  <2>2. IsFiniteSet(files \ {Written(j)})
    BY FS_RemoveElement DEF TypeInv
  <2> QED
    BY <1>10, <1>20, <2>1, <2>2 DEF MoveFails, TypeInv
<1>21. CASE Retire
  BY <1>21 DEF Retire, TypeInv
<1>22. ASSUME NEW e \in Evidence, NEW c \in 0 .. MaxContent, Edit(e, c)
       PROVE  TypeInv'
  BY <1>22 DEF Edit, TypeInv
<1>23. CASE Crash
  <2>1. jobs' \in Table
    BY <1>23, Empty DEF Crash, Table, JobRow
  <2> QED
    BY <1>23, <2>1, Empty DEF Crash, TypeInv
<1>24. CASE Restart
  <2>1. ASSUME NEW j \in JobIds PROVE Loaded(j) \in JobRow
    <3>1. jobs[j] \in JobRow /\ (disk # NoShot => disk[j] \in JobRow)
      BY DEF TypeInv, Shots, Table
    <3>2. disk # NoShot => /\ [disk[j] EXCEPT !.phase = "over"] \in JobRow
                           /\ [disk[j] EXCEPT !.status = "error", !.phase = "over", !.error = "interrupted"] \in JobRow
      BY <3>1, RowPhase, RowSet
    <3>3. disk # NoShot =>
            [disk[j] EXCEPT !.status = "error", !.error = "interrupted", !.phase = "over"]
              = [disk[j] EXCEPT !.status = "error", !.phase = "over", !.error = "interrupted"]
      BY <3>1 DEF JobRow
    <3> QED
      BY <3>1, <3>2, <3>3 DEF Loaded
  <2> QED
    BY <1>24, <2>1 DEF Restart, TypeInv, Table
<1>25. CASE UNCHANGED vars
  BY <1>25 DEF vars, TypeInv
<1> QED
  BY <1>1, <1>2, <1>3, <1>4, <1>6, <1>7, <1>8, <1>11, <1>12, <1>13, <1>14, <1>15, <1>17,
     <1>18, <1>19, <1>20, <1>21, <1>22, <1>23, <1>24, <1>25 DEF Next, Start, Save, Step

\* What follows a snapshot changes the phase of its job and the warnings.
LEMMA ContinueIs ==
  ASSUME TypeInv, NEW j \in JobIds, NEW ok \in BOOLEAN, Continue(j, ok), NEW i \in JobIds
  PROVE  /\ jobs'[i].phase = IF i # j THEN jobs[i].phase
                             ELSE IF jobs[i].phase = "launch" THEN "start" ELSE "over"
         /\ jobs'[i].status = jobs[i].status /\ jobs'[i].kind = jobs[i].kind
         /\ jobs'[i].base = jobs[i].base /\ jobs'[i].auth = jobs[i].auth
         /\ jobs'[i].result = jobs[i].result
<1> DEFINE p == IF i # j THEN jobs[i].phase ELSE IF jobs[i].phase = "launch" THEN "start" ELSE "over"
           w == IF ok THEN FALSE ELSE IF i = j THEN TRUE ELSE jobs[i].warn
<1>1. jobs[i] \in JobRow
  BY DEF TypeInv, Table
<1>2. jobs'[i] = [jobs[i] EXCEPT !.phase = p, !.warn = w]
  BY DEF Continue
<1> HIDE DEF w
<1> QED
  BY <1>1, <1>2 DEF JobRow

\* A job that is loaded is not at work, and says of itself what was saved of it.
LEMMA LoadedIs ==
  ASSUME TypeInv, NEW j \in JobIds
  PROVE  \/ Loaded(j) = jobs[j]
         \/ /\ disk # NoShot /\ Loaded(j).phase = "over"
            /\ Loaded(j).status \notin {"absent", "running"}
            /\ Loaded(j).status = "done" =>
                 /\ disk[j].status = "done" /\ Loaded(j).result = disk[j].result
                 /\ Loaded(j).auth = disk[j].auth /\ Loaded(j).base = disk[j].base
<1>1. CASE disk = NoShot \/ disk[j].status = "absent"
  BY <1>1 DEF Loaded
<1>2. CASE disk # NoShot /\ disk[j].status # "absent"
  <2>1. disk[j] \in JobRow
    BY <1>2 DEF TypeInv, Shots, Table
  <2>2. CASE disk[j].status = "running"
    <3>1. Loaded(j) = [disk[j] EXCEPT !.status = "error", !.error = "interrupted", !.phase = "over"]
      BY <1>2, <2>2 DEF Loaded
    <3> QED
      BY <1>2, <2>1, <3>1 DEF JobRow
  <2>3. CASE disk[j].status # "running"
    <3>1. Loaded(j) = [disk[j] EXCEPT !.phase = "over"]
      BY <1>2, <2>3 DEF Loaded
    <3> QED
      BY <1>2, <2>1, <2>3, <3>1 DEF JobRow
  <2> QED
    BY <2>2, <2>3
<1> QED
  BY <1>1, <1>2

\* One job at a time is at work, and it is the running one.
LEMMA WriterStep == Inv /\ [Next]_vars => WriterInv'
<1> SUFFICES ASSUME Inv, [Next]_vars PROVE WriterInv'
  OBVIOUS
<1> USE DEF AtWork, Early
<1>0. /\ WriterInv /\ jobs \in [JobIds -> JobRow] /\ saves \in [JobIds -> SaveRow]
  BY DEF Inv, TypeInv, Table
<1>1. ASSUME NEW j \in JobIds, NEW sel \in SUBSET Transcripts, StartCreate(j, sel)
      PROVE  WriterInv'
  BY <1>0, <1>1 DEF StartCreate, Register, WriterInv, Running, ActiveJob, JobRow, SaveRow, NoJob
<1>2. ASSUME NEW j \in JobIds, NEW sel \in SUBSET Transcripts, StartUpdate(j, sel)
      PROVE  WriterInv'
  BY <1>0, <1>2 DEF StartUpdate, Register, WriterInv, Running, ActiveJob, JobRow, SaveRow, NoJob
<1>3. ASSUME NEW j \in JobIds, TakeShot(j)
      PROVE  WriterInv'
  BY <1>0, <1>3 DEF TakeShot, WriterInv, Running, JobRow, SaveRow, NoSave, jobVars
<1>4. ASSUME NEW j \in JobIds, WriteTmp(j)
      PROVE  WriterInv'
  BY <1>0, <1>4 DEF WriteTmp, WriterInv, Running, JobRow, SaveRow, NoSave, jobVars
<1>5. ASSUME NEW j \in JobIds, Replace(j)
      PROVE  WriterInv'
  <2>1. \E ok \in BOOLEAN : Continue(j, ok)
    BY <1>5 DEF Replace
  <2>2. \A i \in JobIds : /\ jobs'[i].phase = IF i # j THEN jobs[i].phase
                                              ELSE IF jobs[i].phase = "launch" THEN "start" ELSE "over"
                          /\ jobs'[i].status = jobs[i].status
    BY <2>1, ContinueIs DEF Inv
  <2>3. /\ up' = up /\ jobs[j].phase \in {"launch", "final"}
        /\ \A i \in JobIds : saves'[i].stage # "none" => i # j /\ saves[i].stage # "none"
    BY <1>0, <1>5 DEF Replace, WriterInv, NoSave
  <2> QED
    BY <1>0, <2>2, <2>3 DEF WriterInv, Running
<1>6. ASSUME NEW j \in JobIds, SaveFails(j)
      PROVE  WriterInv'
  <2>1. \E ok \in BOOLEAN : Continue(j, ok)
    BY <1>6 DEF SaveFails
  <2>2. \A i \in JobIds : /\ jobs'[i].phase = IF i # j THEN jobs[i].phase
                                              ELSE IF jobs[i].phase = "launch" THEN "start" ELSE "over"
                          /\ jobs'[i].status = jobs[i].status
    BY <2>1, ContinueIs DEF Inv
  <2>3. /\ up' = up /\ jobs[j].phase \in {"launch", "final"}
        /\ \A i \in JobIds : saves'[i].stage # "none" => i # j /\ saves[i].stage # "none"
    BY <1>0, <1>6 DEF SaveFails, WriterInv, NoSave
  <2> QED
    BY <1>0, <2>2, <2>3 DEF WriterInv, Running
<1>7. ASSUME NEW j \in JobIds, SaveRaises(j)
      PROVE  WriterInv'
  BY <1>0, <1>7 DEF SaveRaises, WriterInv, Running, JobRow, SaveRow, NoSave, jobVars
<1>8. ASSUME NEW j \in JobIds, Before(j)
      PROVE  WriterInv'
  BY <1>0, <1>8 DEF Before, Set, Finish, WriterInv, Running, JobRow, SaveRow, NoSave, jobVars
<1>9. ASSUME NEW j \in JobIds, VerifyCli(j)
      PROVE  WriterInv'
  BY <1>0, <1>9 DEF VerifyCli, Set, WriterInv, Running, JobRow, SaveRow, NoSave, jobVars
<1>10. ASSUME NEW j \in JobIds, Executed(j)
      PROVE  WriterInv'
  BY <1>0, <1>10 DEF Executed, Set, WriterInv, Running, JobRow, SaveRow, NoSave, jobVars
<1>11. ASSUME NEW j \in JobIds, Rejected(j)
      PROVE  WriterInv'
  BY <1>0, <1>11 DEF Rejected, Finish, Set, WriterInv, Running, JobRow, SaveRow, NoSave, jobVars
<1>12. ASSUME NEW j \in JobIds, ExecutionFails(j)
      PROVE  WriterInv'
  BY <1>0, <1>12 DEF ExecutionFails, Finish, Set, WriterInv, Running, JobRow, SaveRow, NoSave, jobVars
<1>13. ASSUME NEW j \in JobIds, WriteFirstVersion(j)
      PROVE  WriterInv'
  BY <1>0, <1>13 DEF WriteFirstVersion, Wrote, Stale, Finish, Set, WriterInv, Running, JobRow, SaveRow, NoSave, jobVars
<1>14. ASSUME NEW j \in JobIds, WriteNextVersion(j)
      PROVE  WriterInv'
  BY <1>0, <1>14 DEF WriteNextVersion, Wrote, Stale, Finish, Set, WriterInv, Running, JobRow, SaveRow, NoSave, jobVars
<1>15. ASSUME NEW j \in JobIds, MovePointer(j)
      PROVE  WriterInv'
  BY <1>0, <1>15 DEF MovePointer, WriterInv, Running, JobRow, SaveRow, NoSave, jobVars
<1>16. ASSUME NEW j \in JobIds, MoveFails(j)
      PROVE  WriterInv'
  BY <1>0, <1>16 DEF MoveFails, Finish, Set, WriterInv, Running, JobRow, SaveRow, NoSave, jobVars
<1>17. CASE Retire
  BY <1>0, <1>17 DEF Retire, WriterInv, Running, jobVars
<1>18. ASSUME NEW e \in Evidence, NEW c \in 0 .. MaxContent, Edit(e, c)
      PROVE  WriterInv'
  BY <1>0, <1>18 DEF Edit, WriterInv, Running, jobVars
<1>19. CASE Crash
  BY <1>0, <1>19 DEF Crash, WriterInv, Running, NoJob, NoSave
<1>20. CASE Restart
  BY <1>0, <1>20, LoadedIs DEF Restart, WriterInv, Running, Inv
<1>21. CASE UNCHANGED vars
  BY <1>0, <1>21 DEF vars, WriterInv, Running
<1> QED
  BY <1>1, <1>2, <1>3, <1>4, <1>5, <1>6, <1>7, <1>8, <1>9, <1>10, <1>11, <1>12, <1>13, <1>14, <1>15, <1>16, <1>17, <1>18, <1>19, <1>20, <1>21 DEF Next, Start, Save, Step

\* What a step that leaves the files alone may do to a job.
Gentle(i) ==
  /\ jobs[i].status # "absent" =>
       jobs'[i].status # "absent" /\ (jobs'[i].phase \in Early => jobs[i].phase \in Early)
  /\ jobs'[i].phase = "wrote" => /\ jobs[i].phase = "wrote"
                                 /\ jobs'[i].auth = jobs[i].auth /\ jobs'[i].base = jobs[i].base
  /\ jobs'[i].phase \in AtWork /\ jobs'[i].kind = "create" => jobs'[i].base = 0

\* A step that is gentle to every job and leaves the files alone keeps FilesInv.
LEMMA GentleKeepsFiles ==
  ASSUME Inv, UNCHANGED storeVars, \A i \in JobIds : Gentle(i)
  PROVE  FilesInv'
<1>0. /\ files' = files /\ pointer' = pointer /\ retired' = retired
      /\ \A f \in files : f.job \in JobIds
  BY DEF storeVars, Inv, TypeInv, FileRow
<1>1. \A f \in files : jobs'[f.job].status # "absent" /\ jobs'[f.job].phase \notin Early
  BY <1>0 DEF Inv, FilesInv, Gentle
<1>2. ASSUME NEW j \in JobIds, jobs'[j].phase = "wrote"
      PROVE  ~retired /\ \E f \in files : Promised(j, f)'
  <2>1. jobs[j].phase = "wrote" /\ jobs'[j].auth = jobs[j].auth /\ jobs'[j].base = jobs[j].base
    BY <1>2 DEF Gentle
  <2>2. PICK f \in files : Promised(j, f)
    BY <2>1 DEF Inv, FilesInv
  <2>3. Promised(j, f)'
    BY <1>0, <2>1, <2>2 DEF Promised
  <2> QED
    BY <2>1, <2>3 DEF Inv, FilesInv
<1>3. \A j \in JobIds : jobs'[j].phase \in AtWork /\ jobs'[j].kind = "create" => jobs'[j].base = 0
  BY DEF Gentle
<1> QED
  BY <1>0, <1>1, <1>2, <1>3 DEF Inv, FilesInv

\* The steps of jobs that leave the files alone.
LEMMA JobStepsAreGentle ==
  ASSUME Inv, NEW j \in JobIds,
         \/ \E sel \in SUBSET Transcripts : StartCreate(j, sel) \/ StartUpdate(j, sel)
         \/ Save(j) \/ Before(j) \/ VerifyCli(j) \/ Executed(j) \/ Rejected(j) \/ ExecutionFails(j)
         \/ Stale(j) /\ jobs[j].phase = "after"
  PROVE  \A i \in JobIds : Gentle(i)
<1> USE DEF AtWork, Early
<1>0. /\ WriterInv /\ FilesInv /\ jobs \in [JobIds -> JobRow]
  BY DEF Inv, TypeInv, Table
<1>1. ASSUME NEW sel \in SUBSET Transcripts, StartCreate(j, sel)
      PROVE  \A i \in JobIds : Gentle(i)
  BY <1>0, <1>1 DEF StartCreate, FreshJob, Register, Gentle, FilesInv, JobRow, NoJob
<1>2. ASSUME NEW sel \in SUBSET Transcripts, StartUpdate(j, sel)
      PROVE  \A i \in JobIds : Gentle(i)
  BY <1>0, <1>2 DEF StartUpdate, FreshJob, Register, Gentle, FilesInv, JobRow, NoJob
<1>3. ASSUME TakeShot(j)
      PROVE  \A i \in JobIds : Gentle(i)
  BY <1>0, <1>3 DEF TakeShot, Gentle, FilesInv, WriterInv, JobRow
<1>4. ASSUME WriteTmp(j)
      PROVE  \A i \in JobIds : Gentle(i)
  BY <1>0, <1>4 DEF WriteTmp, Gentle, FilesInv, WriterInv, JobRow
<1>5. ASSUME Replace(j)
      PROVE  \A i \in JobIds : Gentle(i)
  <2>1. \E ok \in BOOLEAN : Continue(j, ok)
    BY <1>5 DEF Replace
  <2>2. jobs[j].phase \in {"launch", "final"}
    BY <1>0, <1>5 DEF Replace, WriterInv
  <2> QED
    BY <1>0, <2>1, <2>2, ContinueIs DEF Inv, Gentle, FilesInv
<1>6. ASSUME SaveFails(j)
      PROVE  \A i \in JobIds : Gentle(i)
  <2>1. \E ok \in BOOLEAN : Continue(j, ok)
    BY <1>6 DEF SaveFails
  <2>2. jobs[j].phase \in {"launch", "final"}
    BY <1>0, <1>6 DEF SaveFails, WriterInv
  <2> QED
    BY <1>0, <2>1, <2>2, ContinueIs DEF Inv, Gentle, FilesInv
<1>7. ASSUME SaveRaises(j)
      PROVE  \A i \in JobIds : Gentle(i)
  BY <1>0, <1>7 DEF SaveRaises, Gentle, FilesInv, WriterInv, JobRow
<1>8. ASSUME Before(j)
      PROVE  \A i \in JobIds : Gentle(i)
  BY <1>0, <1>8 DEF Before, Set, Finish, Gentle, FilesInv, WriterInv, JobRow
<1>9. ASSUME VerifyCli(j)
      PROVE  \A i \in JobIds : Gentle(i)
  BY <1>0, <1>9 DEF VerifyCli, Set, Gentle, FilesInv, WriterInv, JobRow
<1>10. ASSUME Executed(j)
      PROVE  \A i \in JobIds : Gentle(i)
  BY <1>0, <1>10 DEF Executed, Set, Gentle, FilesInv, WriterInv, JobRow
<1>11. ASSUME Rejected(j)
      PROVE  \A i \in JobIds : Gentle(i)
  BY <1>0, <1>11 DEF Rejected, Finish, Set, Gentle, FilesInv, WriterInv, JobRow
<1>12. ASSUME ExecutionFails(j)
      PROVE  \A i \in JobIds : Gentle(i)
  BY <1>0, <1>12 DEF ExecutionFails, Finish, Set, Gentle, FilesInv, WriterInv, JobRow
<1>13. ASSUME Stale(j), jobs[j].phase = "after"
      PROVE  \A i \in JobIds : Gentle(i)
  BY <1>0, <1>13 DEF Stale, Finish, Set, Gentle, FilesInv, JobRow
<1> QED
  BY <1>1, <1>2, <1>3, <1>4, <1>5, <1>6, <1>7, <1>8, <1>9, <1>10, <1>11, <1>12, <1>13 DEF Save

\* The write of a version file, which is the next one and keeps what the
\* current one cites.
LEMMA WrotePromised ==
  ASSUME Inv, NEW j \in JobIds, NEW f \in FileRow, Wrote(j, f), UNCHANGED <<pointer, retired>>,
         jobs[j].phase = "after", ~retired,
         f.job = j, f.rev = pointer.rev + 1, f.manifest = jobs[j].auth, f.parent = jobs[j].base,
         pointer # NoFile => \A e \in Evidence : pointer.manifest[e] # 0 => f.manifest[e] # 0,
         \A g \in files : g.rev # pointer.rev + 1
  PROVE  FilesInv'
<1>0. /\ FilesInv /\ WriterInv /\ files \subseteq FileRow /\ jobs \in [JobIds -> JobRow]
      /\ pointer.rev \in Nat
  BY NextRevisionIs DEF Inv, TypeInv, Table
<1>1. /\ files' = files \cup {f} /\ pointer' = pointer /\ retired' = retired
      /\ jobs' = [jobs EXCEPT ![j].status = "running", ![j].phase = "wrote", ![j].error = "none"]
  BY DEF Wrote, Set
<1>2. \A i \in JobIds : i # j => jobs'[i] = jobs[i]
  BY <1>0, <1>1
<1>3. /\ jobs'[j].status = "running" /\ jobs'[j].phase = "wrote"
      /\ jobs'[j].auth = jobs[j].auth /\ jobs'[j].base = jobs[j].base /\ jobs'[j].kind = jobs[j].kind
  BY <1>0, <1>1 DEF JobRow
<1>4. \A g \in files : g.job \in JobIds /\ g.job # j /\ 1 <= g.rev /\ g.rev <= pointer.rev
  BY <1>0 DEF FilesInv, FileRow, Early
<1>5. /\ \A g \in files' : 1 <= g.rev /\ g.rev <= pointer'.rev + 1
      /\ \A g, h \in files' : g.rev = h.rev => g = h
      /\ \A i \in 1 .. pointer'.rev : \E g \in files' : g.rev = i
      /\ \A g, h \in files' : g.job = h.job => g = h
  BY <1>0, <1>1, <1>4 DEF FilesInv, FileRow
<1>6. \A g \in files' : jobs'[g.job].status # "absent" /\ jobs'[g.job].phase \notin Early
  BY <1>0, <1>1, <1>2, <1>3, <1>4 DEF FilesInv, Early
<1>7. Promised(j, f)'
  BY <1>1, <1>3 DEF Promised
<1>8. \A i \in JobIds : i # j => jobs'[i].phase # "wrote"
  BY <1>0, <1>2 DEF WriterInv, AtWork, Early
<1>9. \A i \in JobIds : jobs'[i].phase = "wrote" => ~retired' /\ \E g \in files' : Promised(i, g)'
  BY <1>1, <1>7, <1>8
<1>10. \A i \in JobIds : jobs'[i].phase \in AtWork /\ jobs'[i].kind = "create" => jobs'[i].base = 0
  BY <1>0, <1>2, <1>3 DEF FilesInv, AtWork, Early
<1> QED
  BY <1>5, <1>6, <1>9, <1>10 DEF FilesInv

\* The files: revisions follow each other, and a job between its two writes
\* has put there what it was authorized for.
LEMMA FilesStep == Inv /\ [Next]_vars => FilesInv'
<1> SUFFICES ASSUME Inv, [Next]_vars PROVE FilesInv'
  OBVIOUS
<1>0. /\ FilesInv /\ WriterInv /\ files \subseteq FileRow /\ jobs \in [JobIds -> JobRow]
      /\ pointer.rev \in Nat
  BY NextRevisionIs DEF Inv, TypeInv, Table
<1>1. ASSUME NEW j \in JobIds, Start(j) \/ Save(j) \/ Before(j) \/ VerifyCli(j) \/ Executed(j)
                               \/ Rejected(j) \/ ExecutionFails(j)
      PROVE  FilesInv'
  <2>1. \A i \in JobIds : Gentle(i)
    BY <1>1, JobStepsAreGentle DEF Start
  <2>2. UNCHANGED storeVars
    BY <1>1 DEF Start, Save, StartCreate, StartUpdate, TakeShot, WriteTmp, Replace, SaveFails,
                SaveRaises, Before, VerifyCli, Executed, Rejected, ExecutionFails
  <2> QED
    BY <2>1, <2>2, GentleKeepsFiles
<1>2. ASSUME NEW j \in JobIds, Stale(j), jobs[j].phase = "after", UNCHANGED <<pointer, retired>>
      PROVE  FilesInv'
  <2>1. \A i \in JobIds : Gentle(i)
    BY <1>2, JobStepsAreGentle
  <2> QED
    BY <1>2, <2>1, GentleKeepsFiles DEF Stale, storeVars
<1>3. ASSUME NEW j \in JobIds, WriteFirstVersion(j)
      PROVE  FilesInv'
  <2> DEFINE f == [rev |-> NextRevision, job |-> j, parent |-> 0, manifest |-> jobs[j].auth]
  <2>1. CASE Stale(j)
    BY <1>2, <1>3, <2>1 DEF WriteFirstVersion
  <2>2. CASE Inspect = "not_created" /\ Wrote(j, f)
    <3>1. files = {} /\ pointer = NoFile /\ ~retired
      BY <2>2 DEF Inspect, Dangling
    <3>2. NextRevision = pointer.rev + 1 /\ pointer.rev = 0
      BY <3>1, NextRevisionIs
    <3>3. f \in FileRow
      BY <1>0, <3>2 DEF FileRow, JobRow
    <3>4. jobs[j].base = 0 /\ jobs[j].phase = "after"
      BY <1>0, <1>3 DEF WriteFirstVersion, FilesInv, AtWork, Early
    <3> QED
      BY <1>3, <2>2, <3>1, <3>2, <3>3, <3>4, WrotePromised DEF WriteFirstVersion
  <2> QED
    BY <1>3, <2>1, <2>2 DEF WriteFirstVersion
<1>4. ASSUME NEW j \in JobIds, WriteNextVersion(j)
      PROVE  FilesInv'
  <2> DEFINE f == [rev |-> NextRevision, job |-> j, parent |-> pointer.rev, manifest |-> jobs[j].auth]
  <2>1. CASE Stale(j)
    BY <1>2, <1>4, <2>1 DEF WriteNextVersion
  <2>2. CASE UpdateUnchanged(j) /\ NextRevision = pointer.rev + 1 /\ Wrote(j, f)
    <3>1. pointer.rev = jobs[j].base /\ ~retired /\ pointer \in files
      BY <2>2 DEF UpdateUnchanged, Inspect, Dangling, Inv, TypeInv
    <3>2. \A g \in files : g.rev # pointer.rev + 1
      BY <1>0, <2>2, NextRevisionIs
    <3>3. f \in FileRow
      BY <1>0, <2>2 DEF FileRow, JobRow
    <3>4. \A e \in Evidence : pointer.manifest[e] # 0 => jobs[j].auth[e] # 0
      BY <2>2 DEF UpdateUnchanged, Selectable, Available, CumulativeManifest, Metadata, Inv, TypeInv
    <3>5. jobs[j].phase = "after" /\ UNCHANGED <<pointer, retired>>
      BY <1>4 DEF WriteNextVersion
    <3> QED
      BY <2>2, <3>1, <3>2, <3>3, <3>4, <3>5, WrotePromised
  <2> QED
    BY <1>4, <2>1, <2>2 DEF WriteNextVersion
<1>5. ASSUME NEW j \in JobIds, jobs[j].phase = "wrote",
             \A i \in JobIds : i # j => jobs'[i] = jobs[i],
             jobs'[j].status # "absent", jobs'[j].phase = "final"
      PROVE  /\ \A f \in files : jobs'[f.job].status # "absent" /\ jobs'[f.job].phase \notin Early
             /\ \A i \in JobIds : jobs'[i].phase # "wrote"
             /\ \A i \in JobIds : jobs'[i].phase \in AtWork /\ jobs'[i].kind = "create" => jobs'[i].base = 0
  BY <1>0, <1>5 DEF WriterInv, FilesInv, FileRow, AtWork, Early
<1>6. ASSUME NEW j \in JobIds, MovePointer(j)
      PROVE  FilesInv'
  <2>1. Written(j) \in files /\ Written(j).rev = pointer.rev + 1
    BY <1>6, WrittenIs DEF MovePointer, Promised
  <2>2. /\ \A i \in JobIds : i # j => jobs'[i] = jobs[i]
        /\ jobs'[j].status = "done" /\ jobs'[j].phase = "final" /\ jobs[j].phase = "wrote"
    BY <1>0, <1>6 DEF MovePointer, JobRow
  <2>3. files' = files /\ retired' = retired /\ pointer' = Written(j)
    BY <1>6 DEF MovePointer
  <2> HIDE DEF Written
  <2>4. /\ \A f \in files : f.rev \in Nat /\ 1 <= f.rev /\ f.rev <= pointer'.rev + 1
        /\ \A i \in 1 .. pointer'.rev : \E f \in files : f.rev = i
    BY <1>0, <2>1, <2>3 DEF FilesInv, FileRow
  <2> QED
    BY <1>0, <1>5, <2>2, <2>3, <2>4 DEF FilesInv
<1>7. ASSUME NEW j \in JobIds, MoveFails(j)
      PROVE  FilesInv'
  <2>1. Written(j) \in files /\ Written(j).rev = pointer.rev + 1
    BY <1>7, WrittenIs DEF MoveFails, Promised
  <2>2. /\ \A i \in JobIds : i # j => jobs'[i] = jobs[i]
        /\ jobs'[j].status = "error" /\ jobs'[j].phase = "final" /\ jobs[j].phase = "wrote"
    BY <1>0, <1>7 DEF MoveFails, Finish, Set, JobRow
  <2>3. /\ retired' = retired /\ pointer' = pointer
        /\ files' \subseteq files /\ \A f \in files : f # Written(j) => f \in files'
    BY <1>7 DEF MoveFails
  <2>4. \A i \in 1 .. pointer'.rev : \E f \in files' : f.rev = i
    BY <1>0, <2>1, <2>3 DEF FilesInv
  <2> QED
    BY <1>0, <1>5, <2>2, <2>3, <2>4 DEF FilesInv
<1>8. CASE Retire
  <2>1. files' = files /\ pointer' = pointer /\ jobs' = jobs /\ \A j \in JobIds : jobs[j].phase # "wrote"
    BY <1>8 DEF Retire, jobVars, Storing
  <2> QED
    BY <1>0, <2>1 DEF FilesInv
<1>9. CASE (\E e \in Evidence, c \in 0 .. MaxContent : Edit(e, c)) \/ UNCHANGED vars
  <2>1. UNCHANGED <<storeVars, jobs>>
    BY <1>9 DEF Edit, vars, storeVars, jobVars
  <2>2. \A i \in JobIds : Gentle(i)
    BY <1>0, <2>1 DEF Gentle, FilesInv
  <2> QED
    BY <2>1, <2>2, GentleKeepsFiles
<1>10. CASE Crash
  <2>1. \A i \in JobIds : Gentle(i)
    BY <1>0, <1>10 DEF Crash, Gentle, NoJob, JobRow, AtWork, Early
  <2> QED
    BY <1>10, <2>1, GentleKeepsFiles DEF Crash
<1>11. CASE Restart
  <2>1. \A i \in JobIds : jobs'[i] = Loaded(i) /\ jobs[i].phase = "none"
    BY <1>0, <1>11 DEF Restart, WriterInv
  <2>2. \A i \in JobIds : Gentle(i)
    BY <1>0, <2>1, LoadedIs DEF Gentle, AtWork, Early, Inv
  <2> QED
    BY <1>11, <2>2, GentleKeepsFiles DEF Restart
<1> QED
  BY <1>1, <1>3, <1>4, <1>6, <1>7, <1>8, <1>9, <1>10, <1>11 DEF Next, Step

\* What the store may do in a step: the committed files stay.
StoreGrows ==
  /\ pointer'.rev \in Nat /\ pointer'.rev >= pointer.rev
  /\ \A f \in files : f.rev <= pointer.rev => f \in files'

\* No step takes a committed version away.
LEMMA StoreOnlyGrows == Inv /\ [Next]_vars => StoreGrows
<1> SUFFICES ASSUME Inv, [Next]_vars PROVE StoreGrows
  OBVIOUS
<1>0. pointer.rev \in Nat /\ \A f \in files : f.rev \in Nat
  BY NextRevisionIs DEF Inv, TypeInv, FileRow
<1>1. CASE UNCHANGED storeVars
  BY <1>0, <1>1 DEF StoreGrows, storeVars
<1>2. ASSUME NEW j \in JobIds, WriteFirstVersion(j) \/ WriteNextVersion(j)
      PROVE  StoreGrows
  BY <1>0, <1>2 DEF WriteFirstVersion, WriteNextVersion, Wrote, Stale, StoreGrows
<1>3. ASSUME NEW j \in JobIds, MovePointer(j) \/ MoveFails(j)
      PROVE  StoreGrows
  <2>1. Written(j).rev = pointer.rev + 1
    BY <1>3, WrittenIs DEF MovePointer, MoveFails, Promised
  <2>2. /\ files' = files \/ files' = files \ {Written(j)}
        /\ pointer' = pointer \/ pointer' = Written(j)
    BY <1>3 DEF MovePointer, MoveFails
  <2> QED
    BY <1>0, <2>1, <2>2 DEF StoreGrows
<1>4. CASE Retire
  BY <1>0, <1>4 DEF Retire, StoreGrows
<1>5. CASE UNCHANGED vars
  BY <1>1, <1>5 DEF vars, storeVars
<1>6. ASSUME NEW j \in JobIds, Start(j) \/ Save(j) \/ Before(j) \/ VerifyCli(j) \/ Executed(j)
                               \/ Rejected(j) \/ ExecutionFails(j)
      PROVE  UNCHANGED storeVars
  BY <1>6 DEF Start, Save, StartCreate, StartUpdate, TakeShot, WriteTmp, Replace, SaveFails,
              SaveRaises, Before, VerifyCli, Executed, Rejected, ExecutionFails
<1>7. ASSUME Crash \/ Restart \/ \E e \in Evidence, c \in 0 .. MaxContent : Edit(e, c)
      PROVE  UNCHANGED storeVars
  BY <1>7 DEF Crash, Restart, Edit
<1> QED
  BY <1>1, <1>2, <1>3, <1>4, <1>5, <1>6, <1>7 DEF Next, Step

\* A record that says "done" keeps its version.
BackedStill(j, r) ==
  \E f \in files' : /\ f.job = j /\ f.rev = r.result /\ f.rev <= pointer'.rev
                    /\ f.manifest = r.auth /\ f.parent = r.base

\* A table that is right about its finished jobs stays so while the store grows.
LEMMA HonestStays ==
  ASSUME Inv, StoreGrows, NEW t, Honest(t), NEW j \in JobIds, t[j].status = "done"
  PROVE  BackedStill(j, t[j])
<1>1. PICK f \in files : /\ f.job = j /\ f.rev = t[j].result /\ f.rev <= pointer.rev
                         /\ f.manifest = t[j].auth /\ f.parent = t[j].base
  BY DEF Honest, Backed
<1>2. f \in files' /\ f.rev <= pointer'.rev
  BY <1>1, NextRevisionIs DEF StoreGrows, Inv, TypeInv, FileRow
<1> QED
  BY <1>1, <1>2 DEF BackedStill

\* What a step may do to a record, and to the copies of the table.
Frank(i) ==
  jobs'[i].status = "done" =>
    \/ /\ jobs[i].status = "done" /\ jobs'[i].result = jobs[i].result
       /\ jobs'[i].auth = jobs[i].auth /\ jobs'[i].base = jobs[i].base
    \/ BackedStill(i, jobs'[i])

Copied ==
  /\ \A i \in JobIds : saves'[i].shot \in {NoShot, saves[i].shot, jobs}
  /\ tmp' \in {NoShot, tmp} \cup {saves[i].shot : i \in JobIds}
  /\ disk' \in {disk, tmp}

\* A step that only copies tables and reports what is backed keeps ReportInv.
LEMMA FrankIsHonest ==
  ASSUME Inv, StoreGrows, \A i \in JobIds : Frank(i), Copied
  PROVE  ReportInv'
<1>1. ASSUME NEW i \in JobIds, jobs'[i].status = "done" PROVE BackedStill(i, jobs'[i])
  <2>1. jobs[i].status = "done" => BackedStill(i, jobs[i])
    BY HonestStays DEF Inv, ReportInv
  <2> QED
    BY <1>1, <2>1 DEF Frank, BackedStill
<1>2. Honest(jobs)'
  BY <1>1 DEF Honest, Backed, BackedStill
<1>3. ASSUME NEW t, Honest(t), NEW i \in JobIds, t[i].status = "done" PROVE BackedStill(i, t[i])
  BY <1>3, HonestStays
<1>4. Honest(jobs) /\ \A i \in JobIds : saves[i].shot # NoShot => Honest(saves[i].shot)
  BY DEF Inv, ReportInv
<1>5. ASSUME NEW j \in JobIds, saves'[j].shot # NoShot PROVE Honest(saves[j].shot)'
  <2>1. \A i \in JobIds : saves'[j].shot[i].status = "done" => BackedStill(i, saves'[j].shot[i])
    BY <1>3, <1>4, <1>5 DEF Copied
  <2> QED
    BY <2>1 DEF Honest, Backed, BackedStill
<1>6. ASSUME tmp' # NoShot PROVE Honest(tmp)'
  <2>1. \A i \in JobIds : tmp'[i].status = "done" => BackedStill(i, tmp'[i])
    BY <1>3, <1>4, <1>6 DEF Copied, Inv, ReportInv
  <2> QED
    BY <2>1 DEF Honest, Backed, BackedStill
<1>7. ASSUME disk' # NoShot PROVE Honest(disk)'
  <2>1. \A i \in JobIds : disk'[i].status = "done" => BackedStill(i, disk'[i])
    BY <1>3, <1>7 DEF Copied, Inv, ReportInv
  <2> QED
    BY <2>1 DEF Honest, Backed, BackedStill
<1>8. NoShot' = NoShot
  BY DEF NoShot
<1> QED
  BY <1>2, <1>5, <1>6, <1>7, <1>8 DEF ReportInv

\* Every table that says a job is done is right about it.
LEMMA ReportStep == Inv /\ [Next]_vars => ReportInv'
<1> SUFFICES ASSUME Inv, [Next]_vars PROVE Copied /\ \A i \in JobIds : Frank(i)
  BY StoreOnlyGrows, FrankIsHonest
<1>0. /\ WriterInv /\ jobs \in [JobIds -> JobRow] /\ saves \in [JobIds -> SaveRow]
  BY DEF Inv, TypeInv, Table
<1>1. Copied
  <2>1. ASSUME NEW j \in JobIds, Start(j) \/ Save(j) \/ Step(j) PROVE Copied
    <3>1. CASE Start(j)
      BY <1>0, <3>1 DEF Start, StartCreate, StartUpdate, Register, Copied, SaveRow
    <3>2. CASE Save(j)
      <4>1. CASE TakeShot(j) \/ WriteTmp(j)
        BY <1>0, <4>1 DEF TakeShot, WriteTmp, Copied, SaveRow
      <4>2. CASE Replace(j) \/ SaveFails(j) \/ SaveRaises(j)
        <5>1. NoSave.shot = NoShot
          BY DEF NoSave, NoShot
        <5>2. saves' = [saves EXCEPT ![j] = NoSave] /\ tmp' \in {NoShot, tmp} /\ disk' \in {disk, tmp}
          BY <4>2 DEF Replace, SaveFails, SaveRaises
        <5> QED
          BY <1>0, <5>1, <5>2 DEF Copied
      <4> QED
        BY <3>2, <4>1, <4>2 DEF Save
    <3>3. CASE Step(j)
      BY <1>0, <3>3 DEF Step, Before, VerifyCli, Executed, Rejected, ExecutionFails, WriteFirstVersion,
                        WriteNextVersion, Wrote, Stale, MovePointer, MoveFails, Finish, Copied, SaveRow
    <3> QED
      BY <2>1, <3>1, <3>2, <3>3
  <2>2. CASE Retire \/ Crash \/ Restart \/ (\E e \in Evidence, c \in 0 .. MaxContent : Edit(e, c)) \/ UNCHANGED vars
    BY <1>0, <2>2 DEF Retire, Crash, Restart, Edit, vars, jobVars, NoSave, NoShot, Copied
  <2> QED
    BY <2>1, <2>2 DEF Next
<1>2. ASSUME NEW j \in JobIds, Start(j), NEW i \in JobIds PROVE Frank(i)
  <2>1. PICK k, sel, auth, base : Register(j, k, sel, auth, base)
    BY <1>2 DEF Start, StartCreate, StartUpdate
  <2>2. CASE i # j
    BY <1>0, <2>1, <2>2 DEF Register, Frank
  <2>3. CASE i = j
    BY <1>0, <2>1, <2>3, Empty DEF Register, Frank, JobRow
  <2> QED
    BY <2>2, <2>3
<1>3. ASSUME NEW j \in JobIds, Save(j), NEW i \in JobIds PROVE Frank(i)
  <2>1. CASE TakeShot(j) \/ WriteTmp(j)
    BY <2>1 DEF TakeShot, WriteTmp, Frank
  <2>2. CASE Replace(j) \/ SaveFails(j)
    <3>1. \E ok \in BOOLEAN : Continue(j, ok)
      BY <2>2 DEF Replace, SaveFails
    <3> QED
      BY <3>1, ContinueIs DEF Inv, Frank
  <2>3. CASE SaveRaises(j)
    BY <1>0, <2>3 DEF SaveRaises, Frank, JobRow
  <2> QED
    BY <1>3, <2>1, <2>2, <2>3 DEF Save
<1>4. ASSUME NEW j \in JobIds, NEW s \in {"running", "error"}, NEW p, NEW e, Set(j, s, p, e), NEW i \in JobIds
      PROVE  Frank(i)
  BY <1>0, <1>4 DEF Set, Frank, JobRow
<1>5. ASSUME NEW j \in JobIds, Step(j), NEW i \in JobIds PROVE Frank(i)
  <2>1. CASE Before(j) \/ VerifyCli(j) \/ Executed(j) \/ ExecutionFails(j)
             \/ WriteFirstVersion(j) \/ WriteNextVersion(j) \/ MoveFails(j)
    <3>1. \E s \in {"running", "error"}, p, e \in Errors \cup Phases : Set(j, s, p, e)
      BY <2>1 DEF Before, VerifyCli, Executed, ExecutionFails, WriteFirstVersion, WriteNextVersion,
                  Wrote, Stale, MoveFails, Finish, Errors, Phases, AtWork, Early
    <3> QED
      BY <3>1, <1>4
  <2>2. CASE Rejected(j)
    BY <1>0, <1>4, <2>2 DEF Rejected, Finish, Frank, JobRow
  <2>3. CASE MovePointer(j)
    <3> DEFINE w == Written(j)
    <3>1. w \in files /\ w.job = j /\ w.manifest = jobs[j].auth /\ w.parent = jobs[j].base /\ w.rev \in Nat
      BY <2>3, WrittenIs DEF MovePointer, Promised, Inv, TypeInv, FileRow
    <3>2. /\ files' = files /\ pointer' = w
          /\ jobs' = [jobs EXCEPT ![j].status = "done", ![j].phase = "final", ![j].result = w.rev]
      BY <2>3 DEF MovePointer
    <3> HIDE DEF w
    <3>3. CASE i # j
      BY <1>0, <3>2, <3>3 DEF Frank
    <3>4. CASE i = j
      <4>1. jobs'[i].result = w.rev /\ jobs'[i].auth = jobs[j].auth /\ jobs'[i].base = jobs[j].base
        BY <1>0, <3>2, <3>4 DEF JobRow
      <4>2. w \in files' /\ w.rev <= pointer'.rev
        BY <3>1, <3>2
      <4>3. BackedStill(i, jobs'[i])
        BY <3>1, <3>4, <4>1, <4>2 DEF BackedStill
      <4> QED
        BY <4>3 DEF Frank
    <3> QED
      BY <3>3, <3>4
  <2> QED
    BY <1>5, <2>1, <2>2, <2>3 DEF Step
<1>6. ASSUME Retire \/ (\E e \in Evidence, c \in 0 .. MaxContent : Edit(e, c)) \/ UNCHANGED vars,
             NEW i \in JobIds
      PROVE  Frank(i)
  BY <1>6 DEF Retire, Edit, vars, jobVars, Frank
<1>7. ASSUME Crash, NEW i \in JobIds PROVE Frank(i)
  BY <1>0, <1>7 DEF Crash, NoJob, Frank, JobRow
<1>8. ASSUME Restart, NEW i \in JobIds PROVE Frank(i)
  <2>1. jobs'[i] = Loaded(i) /\ UNCHANGED storeVars
    BY <1>8 DEF Restart
  <2>2. disk # NoShot /\ disk[i].status = "done" => BackedStill(i, disk[i])
    BY <2>1, StoreOnlyGrows, HonestStays DEF Inv, ReportInv
  <2> QED
    BY <2>1, <2>2, LoadedIs DEF Frank, BackedStill, Inv
<1> QED
  BY <1>1, <1>2, <1>3, <1>5, <1>6, <1>7, <1>8 DEF Next

-----------------------------------------------------------------------------
(* The theorems.                                                            *)

\* What is cited is finite, and citing one piece more is one more at most.
LEMMA CitedIsFinite ==
  ASSUME NEW m
  PROVE  IsFiniteSet(Cited(m)) /\ Cardinality(Cited(m)) \in Nat
<1>1. IsFiniteSet(Evidence)
  BY StoreAssumption, FS_AddElement DEF Evidence
<1>2. IsFiniteSet(Cited(m))
  BY <1>1, FS_Subset DEF Cited
<1> QED
  BY <1>2, FS_CardinalityType

LEMMA OneMore ==
  ASSUME NEW m, NEW S, IsFiniteSet(S), NEW x, Cited(m) \subseteq S \cup {x}
  PROVE  /\ Cardinality(Cited(m)) <= Cardinality(S) + 1
         /\ x \in S => Cardinality(Cited(m)) <= Cardinality(S)
<1>1. /\ IsFiniteSet(S \cup {x})
      /\ Cardinality(S \cup {x}) = IF x \in S THEN Cardinality(S) ELSE Cardinality(S) + 1
  BY FS_AddElement
<1>2. Cardinality(Cited(m)) <= Cardinality(S \cup {x})
  BY <1>1, FS_Subset
<1>3. Cardinality(S) \in Nat /\ Cardinality(Cited(m)) \in Nat
  BY FS_CardinalityType, CitedIsFinite
<1> QED
  BY <1>1, <1>2, <1>3

\* resolve_evidence_transcripts and _cumulative_manifest keep what is authorized
\* within the limit, and both runs of them, when a job starts and before it writes.
LEMMA AuthorizedFits ==
  ASSUME TypeInv, NEW j \in JobIds, CreateUnchanged(j) \/ UpdateUnchanged(j)
  PROVE  Meta \in Cited(jobs[j].auth) /\ Cardinality(Cited(jobs[j].auth)) <= MaxManifest
<1> DEFINE sel == jobs[j].sel
<1>1. /\ Meta \in Evidence /\ content[Meta] # 0 /\ sel \in SUBSET Transcripts
  BY DEF TypeInv, Evidence, Table, JobRow
<1>2. CASE CreateUnchanged(j)
  <2>1. /\ jobs[j].auth = FirstManifest(sel) /\ Cardinality(sel) < MaxManifest
    BY <1>2 DEF CreateUnchanged, Available
  <2>2. IsFiniteSet(sel) /\ Cardinality(sel) \in Nat
    BY <1>1, StoreAssumption, FS_Subset, FS_CardinalityType
  <2>3. Meta \in Cited(FirstManifest(sel)) /\ Cited(FirstManifest(sel)) \subseteq sel \cup {Meta}
    BY <1>1 DEF Cited, FirstManifest
  <2>4. Cardinality(Cited(FirstManifest(sel))) <= Cardinality(sel) + 1
    BY <2>2, <2>3, OneMore
  <2> QED
    BY <2>1, <2>2, <2>3, <2>4, CitedIsFinite, StoreAssumption
<1>3. CASE UpdateUnchanged(j)
  <2>1. jobs[j].auth = CumulativeManifest(pointer, sel) /\ Fits(CumulativeManifest(pointer, sel))
    BY <1>3 DEF UpdateUnchanged, Selectable
  <2>2. Meta \in Cited(CumulativeManifest(pointer, sel))
    BY <1>1 DEF Cited, CumulativeManifest, Metadata
  <2> QED
    BY <2>1, <2>2 DEF Fits
<1> QED
  BY <1>2, <1>3

\* The version files stay within the limit that their schema has.
LEMMA FitStep == Inv /\ [Next]_vars => ManifestsFit'
<1> SUFFICES ASSUME Inv, [Next]_vars PROVE ManifestsFit'
  OBVIOUS
<1> DEFINE Good(m) == Meta \in Cited(m) /\ Cardinality(Cited(m)) <= MaxManifest
<1>0. \A f \in files : Good(f.manifest)
  BY DEF Inv, ManifestsFit
<1>1. ASSUME NEW j \in JobIds, WriteFirstVersion(j) \/ WriteNextVersion(j)
      PROVE  \A f \in files' : f \in files \/ (f.manifest = jobs[j].auth /\ Good(jobs[j].auth))
  <2>1. CASE Stale(j)
    BY <2>1 DEF Stale
  <2>2. ASSUME NEW f, f.manifest = jobs[j].auth, Wrote(j, f), CreateUnchanged(j) \/ UpdateUnchanged(j)
        PROVE  \A g \in files' : g \in files \/ (g.manifest = jobs[j].auth /\ Good(jobs[j].auth))
    BY <2>2, AuthorizedFits DEF Wrote, Inv
  <2>3. CASE WriteFirstVersion(j)
    BY <2>1, <2>2, <2>3 DEF WriteFirstVersion
  <2>4. CASE WriteNextVersion(j)
    BY <2>1, <2>2, <2>4 DEF WriteNextVersion
  <2> QED
    BY <1>1, <2>3, <2>4
<1>2. ASSUME NEW j \in JobIds, WriteFirstVersion(j) \/ WriteNextVersion(j)
      PROVE  \A f \in files' : Good(f.manifest)
  BY <1>0, <1>1, <1>2
<1>3. ASSUME NEW j \in JobIds, Start(j) \/ Save(j) \/ Before(j) \/ VerifyCli(j) \/ Executed(j)
                               \/ Rejected(j) \/ ExecutionFails(j) \/ MovePointer(j) \/ MoveFails(j)
      PROVE  files' \subseteq files
  BY <1>3 DEF Start, Save, StartCreate, StartUpdate, TakeShot, WriteTmp, Replace, SaveFails,
              SaveRaises, Before, VerifyCli, Executed, Rejected, ExecutionFails, MovePointer,
              MoveFails, storeVars
<1>4. ASSUME Retire \/ (\E e \in Evidence, c \in 0 .. MaxContent : Edit(e, c)) \/ Crash \/ Restart
             \/ UNCHANGED vars
      PROVE  files' = files
  BY <1>4 DEF Retire, Edit, Crash, Restart, vars, storeVars
<1> HIDE DEF Good
<1>5. \A f \in files' : Good(f.manifest)
  BY <1>0, <1>2, <1>3, <1>4 DEF Next, Step
<1> QED
  BY <1>5 DEF ManifestsFit, Cited, Good

\* An empty store and an empty job table satisfy the invariant.
THEOREM Initially == Init => Inv
<1> SUFFICES ASSUME Init PROVE Inv
  OBVIOUS
<1>0. /\ files = {} /\ pointer = NoFile /\ retired = FALSE /\ up = TRUE
      /\ content = [e \in Evidence |-> IF e \in Saved \cup {Meta} THEN 1 ELSE 0]
      /\ tmp = NoShot /\ disk = NoShot
      /\ \A j \in JobIds : jobs[j] = NoJob /\ saves[j] = NoSave
      /\ jobs = [j \in JobIds |-> NoJob] /\ saves = [j \in JobIds |-> NoSave]
  BY DEF Init
<1>1. /\ NoJob.status = "absent" /\ NoJob.phase = "none"
      /\ NoSave.stage = "none" /\ NoSave.shot = NoShot
  BY DEF NoJob, NoSave, NoShot
<1>2. TypeInv
  <2>1. files \subseteq FileRow /\ IsFiniteSet(files) /\ pointer \in files \cup {NoFile}
    BY <1>0, FS_EmptySet
  <2>2. content \in Manifest /\ content[Meta] # 0
    BY <1>0, StoreAssumption DEF Manifest, Evidence
  <2>3. jobs \in Table /\ saves \in [JobIds -> SaveRow]
    BY <1>0, Empty DEF Table
  <2> QED
    BY <1>0, <2>1, <2>2, <2>3 DEF TypeInv, Shots
<1>3. WriterInv
  BY <1>0, <1>1 DEF WriterInv, AtWork, Early, Running
<1>4. FilesInv
  BY <1>0, <1>1, Empty DEF FilesInv, AtWork, Early
<1>5. ReportInv
  BY <1>0, <1>1 DEF ReportInv, Honest
<1>6. ManifestsFit
  BY <1>0 DEF ManifestsFit
<1> QED
  BY <1>2, <1>3, <1>4, <1>5, <1>6 DEF Inv

\* Every step of the server, of its jobs, of a restart or from outside
\* preserves the invariant.
THEOREM Inductive == Inv /\ [Next]_vars => Inv'
  BY TypeStep, WriterStep, FilesStep, ReportStep, FitStep DEF Inv

\* So it holds in every reachable state.
THEOREM Invariance == Spec => []Inv
  BY Initially, Inductive, PTL DEF Spec

\* active_opportunity_state_job under the start lock: whatever was launched,
\* interrupted or lost in a restart, at most one job is at work on the overview.
THEOREM OneAtATime == Spec => []OneWriter
<1>1. Inv => OneWriter
  <2> SUFFICES ASSUME Inv PROVE OneWriter
    OBVIOUS
  <2> DEFINE S == {j \in JobIds : jobs[j].phase \in {"launch", "start", "verify", "run", "after", "wrote"}}
  <2>1. \A i, j \in S : i = j
    BY DEF Inv, WriterInv, AtWork, Early
  <2>2. CASE S = {}
    BY <2>2, FS_EmptySet DEF OneWriter
  <2>3. CASE S # {}
    <3>1. PICK j \in S : TRUE
      BY <2>3
    <3>2. S = {j}
      BY <2>1, <3>1
    <3>3. Cardinality({j}) = 1
      BY FS_Singleton
    <3> QED
      BY <3>2, <3>3 DEF OneWriter
  <2> QED
    BY <2>2, <2>3
<1> QED
  BY <1>1, Invariance, PTL

\* get_readiness against start_update, whatever the evidence is: a selection is
\* accepted exactly when something changed, or is new and there is room for it.
LEMMA ReadinessIsExact == Inv => ReadinessAgrees
<1> DEFINE v == pointer
           m(sel) == CumulativeManifest(v, sel)
<1> SUFFICES ASSUME Inv, Inspect = "current"
             PROVE  UpToDate(v) \/ OutOfRoom(v) <=> ~ \E sel \in SUBSET Transcripts : Selectable(v, sel)
  BY DEF ReadinessAgrees
<1>0. /\ v \in files /\ Meta \in Cited(v.manifest) /\ Cardinality(Cited(v.manifest)) <= MaxManifest
      /\ Meta \in Evidence /\ content[Meta] # 0
      /\ IsFiniteSet(Cited(v.manifest)) /\ Cardinality(Cited(v.manifest)) \in Nat
  BY CitedIsFinite DEF Inspect, Dangling, Inv, TypeInv, ManifestsFit, Evidence
<1>1. ASSUME UpToDate(v), NEW sel \in SUBSET Transcripts, Selectable(v, sel)
      PROVE  FALSE
  BY <1>1 DEF UpToDate, Selectable, Available, Classified, Eligible
<1>2. ASSUME OutOfRoom(v), NEW sel \in SUBSET Transcripts, Selectable(v, sel)
      PROVE  FALSE
  <2>1. PICK t \in sel : content[t] # 0 /\ content[t] # v.manifest[t]
    BY <1>2 DEF OutOfRoom, Selectable, Available, Classified
  <2>2. t \in Evidence /\ v.manifest[t] = 0 /\ t # Meta
    BY <1>2, <2>1 DEF OutOfRoom, Eligible, Evidence, Metadata
  <2>3. Cited(v.manifest) \cup {t} \subseteq Cited(m(sel))
    BY <1>0, <1>2, <2>1, <2>2 DEF Cited, CumulativeManifest, Selectable, Available, Metadata
  <2>4. Cardinality(Cited(v.manifest) \cup {t}) = MaxManifest + 1
    <3>1. t \notin Cited(v.manifest) /\ Cardinality(Cited(v.manifest)) = MaxManifest
      BY <1>2, <2>2 DEF OutOfRoom, Cited
    <3>2. Cardinality(Cited(v.manifest) \cup {t}) = Cardinality(Cited(v.manifest)) + 1
      BY <3>1, CitedIsFinite, FS_AddElement
    <3> QED
      BY <3>1, <3>2
  <2>5. Cardinality(Cited(v.manifest) \cup {t}) <= Cardinality(Cited(m(sel)))
    BY <2>3, CitedIsFinite, FS_Subset
  <2>6. Cardinality(Cited(m(sel))) <= MaxManifest /\ Cardinality(Cited(m(sel))) \in Nat
    BY <1>2, CitedIsFinite DEF Selectable, Fits
  <2> QED
    BY <2>4, <2>5, <2>6, StoreAssumption
<1>3. ASSUME NEW t \in Eligible, v.manifest[t] \notin {0, content[t]}
      PROVE  {t} \in SUBSET Transcripts /\ Selectable(v, {t})
  <2>1. t \in Transcripts /\ Available({t}) /\ Classified(v, {t})
    BY <1>3, FS_Singleton, StoreAssumption DEF Eligible, Available, Classified
  <2>2. t \in Cited(v.manifest) /\ Cited(m({t})) \subseteq Cited(v.manifest) \cup {t}
    BY <1>0, <1>3, <2>1 DEF Cited, CumulativeManifest, Evidence
  <2>3. Cardinality(Cited(m({t}))) <= Cardinality(Cited(v.manifest)) /\ Cardinality(Cited(m({t}))) \in Nat
    BY <1>0, <2>2, OneMore, CitedIsFinite
  <2>4. Fits(m({t}))
    BY <1>0, <2>3, StoreAssumption DEF Fits
  <2> QED
    BY <2>1, <2>4 DEF Selectable
<1>4. ASSUME Metadata # v.manifest[Meta]
      PROVE  {} \in SUBSET Transcripts /\ Selectable(v, {})
  <2>1. Available({}) /\ Classified(v, {})
    BY FS_EmptySet, StoreAssumption DEF Available, Classified
  <2>2. Cited(m({})) \subseteq Cited(v.manifest) \cup {Meta}
    BY <1>0 DEF Cited, CumulativeManifest
  <2>3. Fits(m({}))
    BY <1>0, <2>2, OneMore, CitedIsFinite, StoreAssumption DEF Fits
  <2> QED
    BY <1>4, <2>1, <2>3 DEF Selectable
<1>5. ASSUME NEW t \in Eligible, v.manifest[t] = 0, Cardinality(Cited(v.manifest)) # MaxManifest
      PROVE  {t} \in SUBSET Transcripts /\ Selectable(v, {t})
  <2>1. t \in Transcripts /\ Available({t}) /\ Classified(v, {t})
    BY <1>5, FS_Singleton, StoreAssumption DEF Eligible, Available, Classified
  <2>2. Cited(m({t})) \subseteq Cited(v.manifest) \cup {t}
    BY <1>0 DEF Cited, CumulativeManifest
  <2>3. Cardinality(Cited(m({t}))) <= Cardinality(Cited(v.manifest)) + 1 /\ Cardinality(Cited(m({t}))) \in Nat
    BY <1>0, <2>2, OneMore, CitedIsFinite
  <2>4. Fits(m({t}))
    BY <1>0, <1>5, <2>3, StoreAssumption DEF Fits
  <2> QED
    BY <2>1, <2>4 DEF Selectable
<1>6. ASSUME ~UpToDate(v), ~OutOfRoom(v)
      PROVE  \E sel \in SUBSET Transcripts : Selectable(v, sel)
  <2>1. CASE Metadata # v.manifest[Meta] \/ \E t \in Eligible : v.manifest[t] \notin {0, content[t]}
    BY <1>3, <1>4, <2>1
  <2>2. CASE Metadata = v.manifest[Meta] /\ \A t \in Eligible : v.manifest[t] \in {0, content[t]}
    <3>1. Cardinality(Cited(v.manifest)) # MaxManifest
      BY <1>6, <2>2 DEF OutOfRoom
    <3>2. PICK t \in Eligible : v.manifest[t] = 0
      BY <1>6, <2>2 DEF UpToDate
    <3> QED
      BY <1>5, <3>1, <3>2
  <2> QED
    BY <2>1, <2>2
<1> QED
  BY <1>1, <1>2, <1>6

\* What the server tells is true: a job that is done has committed exactly the
\* evidence it was authorized for, also when its record comes back from
\* jobs.json; readiness agrees with what an update accepts but at the limit of
\* the manifest; and every version file is within that limit.
THEOREM TrueReports == Spec => []ReportsAreTrue
<1>1. Inv => ReportsAreTrue
  <2>1. Inv => TypeOK
    BY DEF Inv, TypeInv, TypeOK, FileRow, Manifest
  <2>2. Inv => DoneIsCommitted
    BY DEF Inv, ReportInv, Honest, Backed, DoneIsCommitted
  <2> QED
    BY <2>1, <2>2, ReadinessIsExact DEF ReportsAreTrue, Inv
<1> QED
  BY <1>1, Invariance, PTL

\* No crash, no failing write and no cleanup of a failed update takes back a
\* version that was committed, and the pointer never goes back.
THEOREM CommittedForGood == Spec => [][StoreGrows]_storeVars
<1>1. Inv /\ [Next]_vars => [StoreGrows]_storeVars
  BY StoreOnlyGrows
<1> QED
  BY <1>1, Invariance, PTL DEF Spec

\* The committed versions are the files up to the pointer, each found by its
\* revision.
LEMMA CommittedIs ==
  ASSUME Inv
  PROVE  /\ Committed \in Seq(Manifest) /\ Len(Committed) = pointer.rev
         /\ \A f \in files : f.rev <= pointer.rev => Committed[f.rev] = f.manifest
<1> DEFINE At(i) == CHOOSE f \in files : f.rev = i
<1>0. pointer.rev \in Nat
  BY NextRevisionIs
<1>1. \A i \in 1 .. pointer.rev : At(i) \in files /\ At(i).rev = i
  BY DEF Inv, FilesInv
<1>2. \A f \in files : f.rev \in 1 .. pointer.rev => At(f.rev) = f
  BY <1>1 DEF Inv, FilesInv
<1>3. \A i \in 1 .. pointer.rev : At(i).manifest \in Manifest
  BY <1>1 DEF Inv, TypeInv, FileRow
<1>4. Committed = [i \in 1 .. pointer.rev |-> At(i).manifest]
  BY DEF Committed
<1> HIDE DEF At
<1>5. Committed \in Seq(Manifest) /\ Len(Committed) = pointer.rev
  BY <1>0, <1>3, <1>4
<1>6. ASSUME NEW f \in files, f.rev <= pointer.rev PROVE Committed[f.rev] = f.manifest
  <2>1. f.rev \in 1 .. pointer.rev
    BY <1>0, <1>6 DEF Inv, TypeInv, FilesInv, FileRow
  <2> QED
    BY <1>2, <1>4, <2>1
<1> QED
  BY <1>5, <1>6

\* Whatever leaves the pointer alone leaves the chain alone: a version file that
\* is written or removed is never a committed one.
LEMMA CommittedStays ==
  ASSUME Inv, Inv', StoreGrows, pointer' = pointer
  PROVE  Committed' = Committed
<1>1. ASSUME NEW i \in 1 .. pointer.rev
      PROVE  (CHOOSE f \in files' : f.rev = i) = (CHOOSE f \in files : f.rev = i)
  <2>1. PICK f \in files : f.rev = i
    BY DEF Inv, FilesInv
  <2>2. f \in files'
    BY <2>1 DEF StoreGrows
  <2>3. \A g \in files : g.rev = i => g = f
    BY <2>1 DEF Inv, FilesInv
  <2>4. \A g \in files' : g.rev = i => g = f
    BY <2>1, <2>2 DEF Inv, FilesInv
  <2>5. (CHOOSE g \in files : g.rev = i) = f
    BY <2>1, <2>3
  <2>6. (CHOOSE g \in files' : g.rev = i) = f
    BY <2>1, <2>2, <2>4
  <2> QED
    BY <2>5, <2>6
<1> DEFINE Now(i)  == (CHOOSE f \in files : f.rev = i).manifest
           Then(i) == (CHOOSE f \in files' : f.rev = i).manifest
<1>2. Committed = [i \in 1 .. pointer.rev |-> Now(i)] /\ Committed' = [i \in 1 .. pointer.rev |-> Then(i)]
  BY DEF Committed
<1>3. \A i \in 1 .. pointer.rev : Now(i) = Then(i)
  BY <1>1
<1> HIDE DEF Now, Then
<1> QED
  BY <1>2, <1>3

\* The second write of a job appends one version to the chain: the first one,
\* or one that cites whatever the version before it cites.
LEMMA MovePointerAppends ==
  ASSUME Inv, Inv', NEW j \in JobIds, MovePointer(j)
  PROVE  \E m \in Manifest : Chain!CreateVersion(m) \/ Chain!UpdateVersion(m)
<1> DEFINE w == Written(j)
<1>1. /\ w \in files /\ w.rev = pointer.rev + 1 /\ ~retired /\ w.manifest \in Manifest
      /\ pointer # NoFile => \A e \in Evidence : pointer.manifest[e] # 0 => w.manifest[e] # 0
  BY WrittenIs DEF MovePointer, Promised, Inv, FilesInv, TypeInv, FileRow
<1>2. files' = files /\ retired' = retired /\ pointer' = w
  BY DEF MovePointer
<1> HIDE DEF w
<1>3. pointer.rev \in Nat /\ (pointer = NoFile <=> pointer.rev = 0) /\ pointer \in files \cup {NoFile}
  BY NextRevisionIs DEF Inv, TypeInv
<1>4. /\ Committed \in Seq(Manifest) /\ Len(Committed) = pointer.rev
      /\ \A f \in files : f.rev <= pointer.rev => Committed[f.rev] = f.manifest
  BY CommittedIs
<1>5. Committed = [i \in 1 .. pointer.rev |-> (CHOOSE f \in files : f.rev = i).manifest]
  BY DEF Committed
<1>6. Committed' = [i \in 1 .. pointer.rev + 1 |-> (CHOOSE f \in files : f.rev = i).manifest]
  BY <1>1, <1>2 DEF Committed
<1>7. (CHOOSE f \in files : f.rev = pointer.rev + 1) = w
  BY <1>1 DEF Inv, FilesInv
<1>8. Committed' = Append(Committed, w.manifest)
  <2> DEFINE At(i) == (CHOOSE f \in files : f.rev = i).manifest
             R == pointer.rev
  <2>1. Committed = [i \in 1 .. R |-> At(i)] /\ Committed' = [i \in 1 .. R + 1 |-> At(i)]
        /\ At(R + 1) = w.manifest /\ R \in Nat
    BY <1>3, <1>5, <1>6, <1>7
  <2> HIDE DEF At, R
  <2>2. Len(Committed) = R
    BY <1>4 DEF R
  <2>3. Append(Committed, w.manifest) = [i \in 1 .. R + 1 |-> IF i <= R THEN Committed[i] ELSE w.manifest]
    BY <1>1, <1>4, <2>2
  <2> QED
    BY <2>1, <2>3
<1>9. CASE pointer.rev = 0
  <2>1. Committed = <<>>
    BY <1>4, <1>9
  <2>2. Committed' = <<w.manifest>>
    BY <1>8, <2>1
  <2> QED
    BY <1>1, <1>2, <2>1, <2>2 DEF Chain!CreateVersion
<1>10. CASE pointer.rev # 0
  <2>1. Committed # <<>> /\ Committed[Len(Committed)] = pointer.manifest
    BY <1>3, <1>4, <1>10
  <2>2. DOMAIN pointer.manifest = Evidence /\ DOMAIN w.manifest = Evidence
    BY <1>1, <1>3, <1>10 DEF Inv, TypeInv, FileRow, Manifest
  <2>3. Chain!Cited(pointer.manifest) \subseteq Chain!Cited(w.manifest)
    BY <1>1, <1>3, <1>10, <2>2 DEF Chain!Cited
  <2> QED
    BY <1>1, <1>2, <1>8, <2>1, <2>3 DEF Chain!UpdateVersion
<1> QED
  BY <1>9, <1>10

\* An overview is retired while its chain is one version long.
LEMMA RetireIsOfFirst ==
  ASSUME Inv, Inv', Retire
  PROVE  Chain!RetireChain
<1>1. pointer \in files /\ Cardinality(files) = 1 /\ IsFiniteSet(files) /\ ~retired /\ retired' = TRUE
      /\ UNCHANGED <<files, pointer>>
  BY DEF Retire, Inspect, Dangling, Inv, TypeInv
<1>2. \A f \in files : f = pointer
  <2>1. PICK x : files = {x}
    BY <1>1, FS_Singleton
  <2> QED
    BY <1>1, <2>1
<1>3. pointer.rev \in Nat /\ 1 <= pointer.rev
  BY <1>1 DEF Inv, FilesInv, TypeInv, FileRow
<1>4. \E f \in files : f.rev = 1
  BY <1>3 DEF Inv, FilesInv
<1>5. Len(Committed) = 1
  BY <1>2, <1>4, CommittedIs
<1>6. Committed' = Committed
  BY <1>1 DEF Committed
<1> QED
  BY <1>1, <1>5, <1>6 DEF Chain!RetireChain

\* Each step of the store is a step of the chain or leaves it alone.
LEMMA StepRefines ==
  Inv /\ Inv' /\ [Next]_vars => [Chain!ChainNext]_(Chain!cvars)
<1> SUFFICES ASSUME Inv, Inv', [Next]_vars PROVE [Chain!ChainNext]_(Chain!cvars)
  OBVIOUS
<1>1. StoreGrows
  BY StoreOnlyGrows
<1>2. ASSUME UNCHANGED <<pointer, retired>> PROVE UNCHANGED Chain!cvars
  BY <1>1, <1>2, CommittedStays DEF Chain!cvars
<1>3. ASSUME NEW j \in JobIds, MovePointer(j) PROVE Chain!ChainNext
  BY <1>3, MovePointerAppends DEF Chain!ChainNext, Manifest
<1>4. CASE Retire
  BY <1>4, RetireIsOfFirst DEF Chain!ChainNext
<1>5. ASSUME NEW j \in JobIds, Start(j) \/ Save(j) \/ (Step(j) /\ ~MovePointer(j))
      PROVE  UNCHANGED <<pointer, retired>>
  BY <1>5 DEF Start, Save, StartCreate, StartUpdate, TakeShot, WriteTmp, Replace, SaveFails, SaveRaises,
              Step, Before, VerifyCli, Executed, Rejected, ExecutionFails, WriteFirstVersion,
              WriteNextVersion, MoveFails, storeVars
<1>6. ASSUME Crash \/ Restart \/ UNCHANGED vars \/ \E e \in Evidence, c \in 0 .. MaxContent : Edit(e, c)
      PROVE  UNCHANGED <<pointer, retired>>
  BY <1>6 DEF Crash, Restart, Edit, vars, storeVars
<1> QED
  BY <1>2, <1>3, <1>4, <1>5, <1>6 DEF Next

\* The files, their writers and the deaths between two writes implement the
\* chain: it begins once, grows by one version at a time, never loses a piece of
\* evidence and is not changed once it is retired.
THEOREM Refinement == Spec => ImplementsChain
<1>1. Init => Chain!ChainInit
  BY DEF Init, Chain!ChainInit, Committed, NoFile
<1> QED
  BY <1>1, Invariance, StepRefines, PTL DEF Spec, ImplementsChain, Chain!ChainSpec
=============================================================================
