--------------------------- MODULE OverviewStore ---------------------------
(***************************************************************************)
(* The Opportunity Overview of one opportunity in the local web app: the   *)
(* files of the store (services/opportunity_state_service.py), the create  *)
(* and update jobs that write them (opportunity_state_create_service.py,   *)
(* opportunity_state_update_service.py) and the job table that runs those  *)
(* jobs and survives a restart through snapshots on disk (job_service.py,  *)
(* persistence.py).                                                        *)
(*                                                                         *)
(* A version is a file; it counts once the file current.json points to it. *)
(* The two writes are two steps, and the process may die between them.     *)
(* Bodies, checksums and schemas are data: a version is its revision, its  *)
(* parent and its manifest, which gives each piece of evidence the number  *)
(* of the content that was cited (0 for none).                             *)
(***************************************************************************)
EXTENDS Naturals, FiniteSets, FiniteSetsExt, Sequences

CONSTANTS
  Transcripts,    \* the transcripts the account can have
  Saved,          \* those that are saved at the start
  MaxContent,     \* contents a transcript or the metadata can have
  MaxManifest,    \* pieces of evidence a version may cite, the metadata included (51)
  MaxAttempts,    \* how often a job asks the model for a candidate
  MaxJobs,        \* overview jobs that are ever launched
  MaxEdits,       \* bound on edits of evidence from outside
  MaxFaults       \* bound on calls that fail and deaths of the server

ASSUME StoreAssumption ==
  /\ IsFiniteSet(Transcripts) /\ Saved \subseteq Transcripts
  /\ MaxManifest \in Nat \ {0, 1}
  /\ MaxAttempts \in Nat \ {0} /\ MaxContent \in Nat \ {0} /\ MaxJobs \in Nat \ {0}
  /\ MaxEdits \in Nat /\ MaxFaults \in Nat

CONSTANT Meta     \* the opportunity's metadata, cited by every version

Evidence == Transcripts \cup {Meta}
JobIds   == 1 .. MaxJobs

VARIABLES
  files,      \* the version files: [rev, job, parent, manifest]
  pointer,    \* the file current.json names, or NoFile
  retired,    \* whether retired.json exists
  content,    \* the current content of each piece of evidence, 0 for missing
  jobs,       \* the job table in memory
  saves,      \* the snapshot each job is writing
  tmp,        \* jobs.json.tmp: one file for every writer
  disk,       \* jobs.json
  up,         \* whether the server runs
  counts      \* edits and faults so far

storeVars == <<files, pointer, retired>>
jobVars   == <<jobs, saves, tmp, disk>>
vars      == <<files, pointer, retired, content, jobs, saves, tmp, disk, up, counts>>

NoFile   == [rev |-> 0, job |-> 0, parent |-> 0, manifest |-> [e \in Evidence |-> 0]]
NoJob    == [status |-> "absent", kind |-> "none", sel |-> {}, auth |-> NoFile.manifest,
             base |-> 0, phase |-> "none", result |-> 0, tries |-> 0, error |-> "none", warn |-> FALSE]
NoSave   == [stage |-> "none", shot |-> <<>>]
NoShot   == <<>>

Chance(c, max) == counts[c] < max /\ counts' = [counts EXCEPT ![c] = @ + 1]

-----------------------------------------------------------------------------
(* The store and the evidence: reading.                                     *)

\* _read_current: files that no pointer reaches make the store malformed.
Dangling == pointer = NoFile /\ files # {}

\* read_current and inspect_current.
Inspect ==
  IF Dangling THEN "malformed"
  ELSE IF retired THEN "retired"
  ELSE IF pointer = NoFile THEN "not_created"
  ELSE "current"

\* OpportunityStateVersion: a first version has no parent, a later one the
\* version immediately before it.
Sound(f) == f.parent = f.rev - 1

\* _read_history_unfiltered: sound versions, and the newest one is current.
HistoryIsReadable == ~Dangling /\ \A f \in files : Sound(f) /\ f.rev <= pointer.rev

\* _next_revision: one more than any file, committed or not.
NextRevision == 1 + Max({0} \cup {f.rev : f \in files})

\* resolve_identity: the metadata of the opportunity as it is now.
Metadata == content[Meta]

\* resolve_evidence_transcripts: every selected transcript is there, and they
\* are no more than a version may cite beside the metadata.
Available(sel) == (\A t \in sel : content[t] # 0) /\ Cardinality(sel) < MaxManifest

\* inspect_evidence_transcripts: the transcripts an update could use.
Eligible == {t \in Transcripts : content[t] # 0}

\* _manifest: the selected transcripts and the metadata as they are now.
FirstManifest(sel) == [e \in Evidence |-> IF e \in sel \cup {Meta} THEN content[e] ELSE 0]

ManifestOfSelected(v, sel) == FirstManifest(sel)

\* _cumulative_manifest: they replace or extend what the parent cites.
CumulativeManifest(v, sel) ==
  [e \in Evidence |-> IF e = Meta THEN Metadata ELSE IF e \in sel THEN content[e] ELSE v.manifest[e]]

UpToDateByName(v) ==
  (\A t \in Eligible : v.manifest[t] # 0) /\ Metadata = v.manifest[Meta]

\* get_readiness: nothing new, nothing changed, metadata as cited.
UpToDate(v) ==
  (\A t \in Eligible : content[t] = v.manifest[t]) /\ Metadata = v.manifest[Meta]

\* The evidence a manifest cites, and the limit of _cumulative_manifest on it.
Cited(m) == {e \in Evidence : m[e] # 0}

\* Mutant: the metadata is not counted.
FitsWithoutMetadata(m) == Cardinality(Cited(m) \ {Meta}) <= MaxManifest

Fits(m) == Cardinality(Cited(m)) <= MaxManifest

\* _classify_selected: an unchanged transcript is inherited, not selected.
Classified(v, sel) == \A t \in sel : content[t] # v.manifest[t]

\* _snapshot of an update: the selection is good and there is something to do.
Selectable(v, sel) ==
  /\ Available(sel)
  /\ Classified(v, sel)
  /\ sel # {} \/ Metadata # v.manifest[Meta]
  /\ Fits(CumulativeManifest(v, sel))

-----------------------------------------------------------------------------
(* The job table.                                                           *)

Running(j)  == jobs[j].status = "running"
Launching   == \E j \in JobIds : jobs[j].phase = "launch"   \* holds the start lock
Storing     == \E j \in JobIds : jobs[j].phase = "wrote"    \* holds the store's lock
FreshJob(j) == jobs[j].status = "absent" /\ \A i \in 1 .. (j - 1) : jobs[i].status # "absent"

\* active_opportunity_state_job.
ActiveLaunched == {j \in JobIds : Running(j) /\ jobs[j].phase = "launch"}
ActiveJob == {j \in JobIds : Running(j)}

\* launch_managed: the job is registered as running before its first snapshot.
Register(j, kind, sel, auth, base) ==
  /\ jobs' = [jobs EXCEPT ![j] = [NoJob EXCEPT !.status = "running", !.kind = kind, !.sel = sel,
                                               !.auth = auth, !.base = base, !.phase = "launch"]]
  /\ saves' = [saves EXCEPT ![j] = [stage |-> "asked", shot |-> NoShot]]

Set(j, status, phase, error) ==
  jobs' = [jobs EXCEPT ![j].status = status, ![j].phase = phase, ![j].error = error]

\* _run_managed_job: the outcome is in memory, and the last snapshot follows.
Finish(j, status, error) ==
  /\ Set(j, status, "final", error)
  /\ saves' = [saves EXCEPT ![j] = [stage |-> "asked", shot |-> NoShot]]

\* start_create.
StartCreate(j, sel) ==
  /\ up /\ ~Launching /\ FreshJob(j)
  /\ sel # {} /\ Available(sel)
  /\ Inspect \notin {"current", "malformed"}
  /\ ActiveJob = {}
  /\ Register(j, "create", sel, FirstManifest(sel), 0)
  /\ UNCHANGED <<storeVars, content, tmp, disk, up, counts>>

\* start_update: base is the version the caller saw.
StartUpdate(j, sel) ==
  /\ up /\ ~Launching /\ FreshJob(j)
  /\ Inspect = "current"
  /\ Selectable(pointer, sel)
  /\ ActiveJob = {}
  /\ Register(j, "update", sel, CumulativeManifest(pointer, sel), pointer.rev)
  /\ UNCHANGED <<storeVars, content, tmp, disk, up, counts>>

\* save_jobs copies the table in a thread ...
TakeShot(j) ==
  /\ up /\ saves[j].stage = "asked"
  /\ saves' = [saves EXCEPT ![j] = [stage |-> "taken", shot |-> jobs]]
  /\ UNCHANGED <<storeVars, content, jobs, tmp, disk, up, counts>>

\* ... writes jobs.json.tmp ...
WriteTmp(j) ==
  /\ up /\ saves[j].stage = "taken"
  /\ saves' = [saves EXCEPT ![j].stage = "written"]
  /\ tmp' = saves[j].shot
  /\ UNCHANGED <<storeVars, content, jobs, disk, up, counts>>

\* What follows a snapshot: the runner starts, or the job is over.
Continue(j, ok) ==
  jobs' = [i \in JobIds |->
    [jobs[i] EXCEPT !.phase = IF i # j THEN @ ELSE IF @ = "launch" THEN "start" ELSE "over",
                    !.warn  = IF ok THEN FALSE ELSE IF i = j THEN TRUE ELSE @]]

\* ... and renames it, which fails when another writer renamed it first.
Replace(j) ==
  /\ up /\ saves[j].stage = "written"
  /\ IF tmp = NoShot THEN disk' = disk ELSE disk' = tmp
  /\ Continue(j, tmp # NoShot)
  /\ tmp' = NoShot
  /\ saves' = [saves EXCEPT ![j] = NoSave]
  /\ UNCHANGED <<storeVars, content, up, counts>>

\* save_jobs catches an OSError and returns False.
SaveFails(j) ==
  /\ up /\ saves[j].stage \in {"asked", "taken", "written"}
  /\ Chance("faults", MaxFaults)
  /\ Continue(j, FALSE)
  /\ saves' = [saves EXCEPT ![j] = NoSave]
  /\ UNCHANGED <<storeVars, content, tmp, disk, up>>

\* Another job registers while the thread iterates over the table: the
\* RuntimeError passes save_jobs. launch_managed raises, and its job keeps the
\* status running without a runner; a last snapshot is best effort.
SaveRaises(j) ==
  /\ up /\ saves[j].stage = "asked"
  /\ Chance("faults", MaxFaults)
  /\ jobs' = [jobs EXCEPT ![j].phase = IF @ = "launch" THEN "orphan" ELSE "over"]
  /\ saves' = [saves EXCEPT ![j] = NoSave]
  /\ UNCHANGED <<storeVars, content, tmp, disk, up>>

-----------------------------------------------------------------------------
(* The runner of a job, whose calls to the store are synchronous.           *)

\* _snapshot again: the evidence, and for an update the base, as authorized.
CreateUnchanged(j) == Available(jobs[j].sel) /\ FirstManifest(jobs[j].sel) = jobs[j].auth

UpdateUnchanged(j) ==
  /\ Inspect = "current" /\ pointer.rev = jobs[j].base
  /\ Selectable(pointer, jobs[j].sel)
  /\ CumulativeManifest(pointer, jobs[j].sel) = jobs[j].auth

Unchanged(j) == IF jobs[j].kind = "create" THEN CreateUnchanged(j) ELSE UpdateUnchanged(j)

Before(j) ==
  /\ up /\ jobs[j].phase = "start"
  /\ IF Unchanged(j)
     THEN Set(j, "running", "verify", "none") /\ UNCHANGED saves
     ELSE Finish(j, "error", "evidence_changed")
  /\ UNCHANGED <<storeVars, content, tmp, disk, up, counts>>

\* _verify_cli_version, before any evidence is sent.
VerifyCli(j) ==
  /\ up /\ jobs[j].phase = "verify"
  /\ Set(j, "running", "run", "none")
  /\ UNCHANGED <<storeVars, content, saves, tmp, disk, up, counts>>

\* _execute_once: a candidate that cites nothing outside the manifest ...
Executed(j) ==
  /\ up /\ jobs[j].phase = "run"
  /\ Set(j, "running", "after", "none")
  /\ UNCHANGED <<storeVars, content, saves, tmp, disk, up, counts>>

\* ... an unusable one, for which the model is asked once more (execute) ...
Rejected(j) ==
  /\ up /\ jobs[j].phase = "run"
  /\ Chance("faults", MaxFaults)
  /\ IF jobs[j].tries + 1 < MaxAttempts
     THEN /\ jobs' = [jobs EXCEPT ![j].tries = @ + 1, ![j].phase = "verify"]
          /\ UNCHANGED saves
     ELSE Finish(j, "error", "invalid_model_output")
  /\ UNCHANGED <<storeVars, content, tmp, disk, up>>

\* ... or a refusal, a timeout or a failure of the program, which is final.
ExecutionFails(j) ==
  /\ up /\ jobs[j].phase \in {"verify", "run"}
  /\ Chance("faults", MaxFaults)
  /\ Finish(j, "error", "execution")
  /\ UNCHANGED <<storeVars, content, tmp, disk, up>>

Wrote(j, f) ==
  /\ files' = files \cup {f}
  /\ Set(j, "running", "wrote", "none")
  /\ UNCHANGED saves

Stale(j) == Finish(j, "error", "stale") /\ UNCHANGED files

\* promote_create, up to the write of the version file.
WriteFirstVersion(j) ==
  /\ up /\ jobs[j].phase = "after" /\ jobs[j].kind = "create" /\ ~Storing
  /\ IF CreateUnchanged(j) /\ Inspect = "not_created"
     THEN Wrote(j, [rev |-> NextRevision, job |-> j, parent |-> 0, manifest |-> jobs[j].auth])
     ELSE Stale(j)
  /\ UNCHANGED <<pointer, retired, content, tmp, disk, up, counts>>

\* promote_update, up to the write of the version file: only on the exact base,
\* and only without a file that is newer than it.
WriteNextVersion(j) ==
  /\ up /\ jobs[j].phase = "after" /\ jobs[j].kind = "update" /\ ~Storing
  /\ IF UpdateUnchanged(j) /\ pointer.rev = jobs[j].base /\ NextRevision = pointer.rev + 1
     THEN Wrote(j, [rev |-> NextRevision, job |-> j, parent |-> pointer.rev, manifest |-> jobs[j].auth])
     ELSE Stale(j)
  /\ UNCHANGED <<pointer, retired, content, tmp, disk, up, counts>>

Written(j) == CHOOSE f \in files : f.job = j

\* The second write commits the version, and the job reports it.
MovePointer(j) ==
  /\ up /\ jobs[j].phase = "wrote"
  /\ pointer' = Written(j)
  /\ jobs' = [jobs EXCEPT ![j].status = "done", ![j].phase = "final", ![j].result = Written(j).rev]
  /\ saves' = [saves EXCEPT ![j] = [stage |-> "asked", shot |-> NoShot]]
  /\ UNCHANGED <<files, retired, content, tmp, disk, up, counts>>

MoveFailsQuietly(j) ==
  /\ up /\ jobs[j].phase = "wrote"
  /\ Chance("faults", MaxFaults)
  /\ Finish(j, "done", "none")
  /\ UNCHANGED <<storeVars, content, tmp, disk, up>>

\* An OSError: promote_update removes the version it wrote, promote_create
\* does not.
MoveFails(j) ==
  /\ up /\ jobs[j].phase = "wrote"
  /\ Chance("faults", MaxFaults)
  /\ files' = IF jobs[j].kind = "update" THEN files \ {Written(j)} ELSE files
  /\ Finish(j, "error", "storage")
  /\ UNCHANGED <<pointer, retired, content, tmp, disk, up>>

\* retire_first_overview, the end of an association correction: only a first
\* version that cites the one corrected source.
Retire ==
  /\ up /\ ~Storing /\ ~retired
  /\ Inspect = "current" /\ HistoryIsReadable
  /\ Cardinality(files) = 1
  /\ Cardinality({t \in Transcripts : pointer.manifest[t] # 0}) = 1
  /\ retired' = TRUE
  /\ UNCHANGED <<files, pointer, content, jobVars, up, counts>>

\* The account's files and the metadata of the opportunity change outside.
Edit(e, c) ==
  /\ e = Meta => c # 0
  /\ c # content[e]
  /\ Chance("edits", MaxEdits)
  /\ content' = [content EXCEPT ![e] = c]
  /\ UNCHANGED <<storeVars, jobVars, up>>

-----------------------------------------------------------------------------
Crash ==
  /\ up /\ Chance("faults", MaxFaults)
  /\ up' = FALSE
  /\ jobs' = [j \in JobIds |->
                IF jobs[j].status = "absent" THEN NoJob ELSE [NoJob EXCEPT !.status = "lost"]]
  /\ saves' = [j \in JobIds |-> NoSave]
  /\ UNCHANGED <<storeVars, content, tmp, disk>>

LoadedRunning(j) ==
  IF disk = NoShot \/ disk[j].status = "absent" THEN jobs[j] ELSE [disk[j] EXCEPT !.phase = "over"]

\* load_jobs: a job that was running is an interrupted one. A job that is not
\* on disk is lost; its number is not used again (a job id is random).
Loaded(j) ==
  IF disk = NoShot \/ disk[j].status = "absent" THEN jobs[j]
  ELSE IF disk[j].status = "running"
  THEN [disk[j] EXCEPT !.status = "error", !.error = "interrupted", !.phase = "over"]
  ELSE [disk[j] EXCEPT !.phase = "over"]

Restart ==
  /\ ~up /\ up' = TRUE
  /\ jobs' = [j \in JobIds |-> Loaded(j)]
  /\ UNCHANGED <<storeVars, content, saves, tmp, disk, counts>>

Init ==
  /\ files = {} /\ pointer = NoFile /\ retired = FALSE
  /\ content = [e \in Evidence |-> IF e \in Saved \cup {Meta} THEN 1 ELSE 0]
  /\ jobs = [j \in JobIds |-> NoJob]
  /\ saves = [j \in JobIds |-> NoSave]
  /\ tmp = NoShot /\ disk = NoShot
  /\ up = TRUE
  /\ counts = [edits |-> 0, faults |-> 0]

Start(j)  == \E sel \in SUBSET Transcripts : StartCreate(j, sel) \/ StartUpdate(j, sel)
Save(j)   == TakeShot(j) \/ WriteTmp(j) \/ Replace(j) \/ SaveFails(j) \/ SaveRaises(j)
Step(j)   == Before(j) \/ VerifyCli(j) \/ Executed(j) \/ Rejected(j) \/ ExecutionFails(j)
             \/ WriteFirstVersion(j) \/ WriteNextVersion(j) \/ MovePointer(j) \/ MoveFails(j)

Next ==
  \/ \E j \in JobIds : Start(j) \/ Save(j) \/ Step(j)
  \/ Retire
  \/ \E e \in Evidence, c \in 0 .. MaxContent : Edit(e, c)
  \/ Crash \/ Restart

\* The event loop and the threads of a running server go on; nothing outside
\* it has to happen, but a server that died is started again.
Fairness == WF_vars(Restart) /\ \A j \in JobIds : WF_vars(Save(j)) /\ WF_vars(Step(j))

Spec == Init /\ [][Next]_vars /\ Fairness
-----------------------------------------------------------------------------
(* Properties.                                                              *)

TypeOK ==
  /\ files \subseteq [rev : Nat, job : JobIds, parent : Nat, manifest : [Evidence -> 0 .. MaxContent]]
  /\ pointer \in files \cup {NoFile}
  /\ content \in [Evidence -> 0 .. MaxContent]

\* The committed versions, as their readers see them.
Committed == [i \in 1 .. pointer.rev |-> (CHOOSE f \in files : f.rev = i).manifest]

Chain == INSTANCE OverviewChain WITH chain <- Committed, Contents <- 0 .. MaxContent

\* The files, their writers and the deaths between two writes implement the
\* chain: it grows by one version at a time, begins once, never loses a piece
\* of evidence and is not changed once it is retired.
ImplementsChain == Chain!ChainSpec

\* The start lock and the search for an active job let one job at a time work
\* on the overview, restarts and half-finished launches included.
OneWriter ==
  Cardinality({j \in JobIds : jobs[j].phase \in {"launch", "start", "verify", "run", "after", "wrote"}}) <= 1

\* A job that reports success has committed exactly the evidence that was
\* authorized when it started, on the version it was started from, and this is
\* still so after the record went through jobs.json and a restart.
DoneIsCommitted ==
  \A j \in JobIds : jobs[j].status = "done" =>
    \E f \in files : /\ f.job = j /\ f.rev = jobs[j].result /\ f.rev <= pointer.rev
                     /\ f.manifest = jobs[j].auth /\ f.parent = jobs[j].base

\* Only transcripts that no version cites are new, and there is no room for one.
OutOfRoom(v) ==
  /\ Cardinality(Cited(v.manifest)) = MaxManifest
  /\ Metadata = v.manifest[Meta]
  /\ \A t \in Eligible : v.manifest[t] \in {0, content[t]}

\* get_readiness and start_update agree up to the limit, which only the latter
\* looks at: no update would be accepted exactly when the overview is reported
\* up to date or, whatever is reported, it is out of room.
ReadinessAgrees ==
  (up /\ Inspect = "current") =>
    (UpToDate(pointer) \/ OutOfRoom(pointer)
       <=> ~ \E sel \in SUBSET Transcripts : Selectable(pointer, sel))

\* A version file always passes the schema that readers check it against: it
\* cites the metadata and at most MaxManifest pieces of evidence, however the
\* evidence and the overview changed while its job was at work.
ManifestsFit == \A f \in files : Meta \in Cited(f.manifest) /\ Cardinality(Cited(f.manifest)) <= MaxManifest

\* Every job that got its runner ends, over restarts and failing writes.
JobsEnd == \A j \in JobIds : Running(j) ~> (~Running(j) \/ jobs[j].phase = "orphan")

\* What the server tells is true: of the jobs that are done, of what is up to
\* date, and of the versions it can read back.
ReportsAreTrue == TypeOK /\ DoneIsCommitted /\ ReadinessAgrees /\ ManifestsFit

=============================================================================
