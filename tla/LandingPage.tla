----------------------------- MODULE LandingPage -----------------------------
(* The landing page (services/overview_service.py): team, accounts, outputs   *)
(* and jobs, put together from three reads, the accounts, the outputs on disk *)
(* and the job table, between which jobs go on. Times count down from Now; 0  *)
(* is a time that is not known.                                               *)
EXTENDS Integers, Sequences, FiniteSets, FiniteSetsExt, SequencesExt

CONSTANTS
  Members,          \* the team
  NoOwner,          \* the owner of an account that has none
  Desks,            \* accounts, outputs and jobs when the page is asked for
  Now,
  LongFor,          \* _LONG_RUNNING_MINUTES
  FailureFor,       \* _ATTENTION_FAILURE_HOURS
  StaleFor,         \* _STALE_ACTIVITY_DAYS
  MaxAttention, MaxRecent

ASSUME LandingAssumption ==
  {Now, LongFor, FailureFor, StaleFor, MaxAttention, MaxRecent} \subseteq Nat

VARIABLES desk, page

lvars == <<desk, page>>

NoPage == [step |-> "asked"]

LandingInit == desk \in Desks /\ page = NoPage

---------------------------------------------------------------------------
(* _classify_jobs.                                                            *)
RunningOf(jobs) == SelectSeq(jobs, LAMBDA j : j.status = "running")

(* Mutant: a job that ended without success counts as done.                   *)
FailedByStatus(jobs) == SelectSeq(jobs, LAMBDA j : j.status = "error")

FailedOf(jobs) == SelectSeq(jobs, LAMBDA j : j.status = "error" \/ (j.status = "done" /\ ~j.ok))
DoneOf(jobs)   == SelectSeq(jobs, LAMBDA j : j.status = "done" /\ j.ok)

When(j) == IF j.finished # 0 THEN j.finished ELSE j.started

(* A failure is recent when it is not known when it was.                      *)
RecentFailures(jobs) ==
  SelectSeq(FailedOf(jobs), LAMBDA j : j.finished = 0 \/ Now - j.finished <= FailureFor)

(* account_meta with _apply_job_timestamps: an account whose folder is gone   *)
(* has none, and its jobs promote nothing.                                    *)
OutputsOf(files, a) == SelectSeq(files.outputs, LAMBDA o : o.account = a)
MetaOf(files, jobs, a) ==
  LET mine == OutputsOf(files, a)
      own  == SelectSeq(jobs, LAMBDA j : j.account = a)
  IN [outputs |-> Len(mine),
      attention |-> Len(SelectSeq(mine, LAMBDA o : o.type # "none")),
      last |-> Max({0} \cup {o.mtime : o \in Range(mine)} \cup {When(j) : j \in Range(own)})]

Active(files) == {a \in DOMAIN files.accounts : ~files.accounts[a].archived}

Added(f(_), S) == FoldSet(LAMBDA x, n : n + f(x), 0, S)

(* _build_member_rows: the accounts of a member and those of nobody.          *)
MemberRow(files, jobs, m) ==
  LET names == {a \in Active(files) : files.accounts[a].owner \in {m, NoOwner}}
      Mine(s) == SelectSeq(s, LAMBDA j : j.account \in names)
  IN [accounts |-> names,
      outputs |-> Added(LAMBDA a : MetaOf(files, jobs, a).outputs, names),
      attention |-> Added(LAMBDA a : MetaOf(files, jobs, a).attention, names),
      running |-> Len(Mine(RunningOf(jobs))),
      failures |-> Len(Mine(RecentFailures(jobs))),
      last |-> Max({0} \cup {MetaOf(files, jobs, a).last : a \in names}
                     \cup {j.started : j \in Range(Mine(RunningOf(jobs)))}
                     \cup {j.finished : j \in Range(Mine(FailedOf(jobs) \o DoneOf(jobs)))})]

(* _build_summary: the outputs and jobs of every account, archived or not.    *)
SummaryRow(files, jobs) ==
  LET all == DOMAIN files.accounts
  IN [active |-> Cardinality(Active(files)), archived |-> Cardinality(all \ Active(files)),
      outputs |-> Added(LAMBDA a : MetaOf(files, jobs, a).outputs, all),
      attention |-> Added(LAMBDA a : MetaOf(files, jobs, a).attention, all),
      running |-> Len(RunningOf(jobs)), failures |-> Len(RecentFailures(jobs)),
      last |-> Max({0} \cup {MetaOf(files, jobs, a).last : a \in all}
                     \cup {j.started : j \in Range(RunningOf(jobs))}
                     \cup {j.finished : j \in Range(FailedOf(jobs) \o DoneOf(jobs))})]

(* A stable sort, cut.                                                        *)
TopOf(s, Before(_, _), n) ==
  LET order == SortSeq([i \in DOMAIN s |-> i],
                       LAMBDA a, b : Before(s[a], s[b]) \/ (~Before(s[b], s[a]) /\ a < b))
  IN [i \in 1 .. Min({n, Len(s)}) |-> s[order[i]]]

Severity(x) == CASE x.level = "error" -> 0 [] x.level = "warn" -> 1 [] x.level = "info" -> 2
MoreUrgent(x, y) ==
  Severity(x) < Severity(y) \/ (Severity(x) = Severity(y) /\ x.when > y.when)
Later(x, y) == x.when > y.when

Known(t) == IF t = 0 THEN Now ELSE t

(* _build_attention: jobs, outputs (the latest of them), accounts without     *)
(* activity; the most urgent first, and no more than MaxAttention.            *)
JobItems(jobs) ==
  LET Long(j) == j.started # 0 /\ Now - j.started >= LongFor
      running == RunningOf(jobs)
      failed  == RecentFailures(jobs)
  IN [i \in DOMAIN running |->
        [type |-> "running", job |-> running[i].id, when |-> Known(running[i].started),
         level |-> IF Long(running[i]) THEN "warn" ELSE "info"]]
     \o [i \in DOMAIN failed |->
           [type |-> "failure", job |-> failed[i].id, when |-> Known(failed[i].finished),
            level |-> "error"]]

OutputItems(files) ==
  LET open   == SelectSeq(files.outputs, LAMBDA o : o.type # "none")
      latest == TopOf([i \in DOMAIN open |->
                       [type |-> open[i].type, job |-> "none", when |-> open[i].mtime,
                        level |-> IF open[i].type = "attention" /\ open[i].invalid
                                  THEN "error" ELSE "warn"]], Later, MaxAttention)
  IN latest

StaleItems(files, jobs) ==
  LET Quiet(a) == LET meta == MetaOf(files, jobs, a)
                  IN meta.last # 0 /\ Now - meta.last > StaleFor /\ meta.outputs > 0
  IN SetToSeq({[type |-> "stale", job |-> a, when |-> MetaOf(files, jobs, a).last, level |-> "info"] :
                 a \in {b \in Active(files) : Quiet(b)}})

AttentionItems(files, jobs) ==
  TopOf(JobItems(jobs) \o OutputItems(files) \o StaleItems(files, jobs), MoreUrgent, MaxAttention)

(* _build_recent.                                                             *)
RecentItems(files, jobs) ==
  LET Event(j) == CASE j.status = "running" -> "job_started"
                    [] j.status # "running" /\ (j.status = "error" \/ ~j.ok) -> "job_error"
                    [] OTHER -> "job_done"
      At(j)    == Known(IF j.status = "running" THEN j.started ELSE j.finished)
      all      == RunningOf(jobs) \o FailedOf(jobs) \o DoneOf(jobs)
  IN TopOf([i \in DOMAIN files.outputs |->
            [type |-> "output", job |-> "none", when |-> files.outputs[i].mtime]]
         \o [i \in DOMAIN all |-> [type |-> Event(all[i]), job |-> all[i].id, when |-> At(all[i])]],
         Later, MaxRecent)

---------------------------------------------------------------------------
(* list_accounts and walk_all_outputs.                                        *)
ReadFiles ==
  /\ page.step = "asked"
  /\ page' = [step |-> "files", files |-> [accounts |-> desk.accounts, outputs |-> desk.outputs]]
  /\ UNCHANGED desk

(* The end of _run_job: the process exits, with or without success, or it     *)
(* cannot be started or takes too long (status error). What it wrote is on    *)
(* disk before its status changes; a success writes an output.                *)
JobEnds(i, status, ok, wrote) ==
  /\ desk.jobs[i].status = "running"
  /\ status = "error" => ~ok
  /\ ok => wrote
  /\ desk' = [desk EXCEPT !.jobs[i].status = status, !.jobs[i].ok = ok, !.jobs[i].finished = Now,
                          !.outputs = IF wrote THEN Append(@, [account |-> desk.jobs[i].account, mtime |-> Now,
                                                               type |-> "review", invalid |-> FALSE])
                                      ELSE @]
  /\ UNCHANGED page

(* overview_jobs, and the page.                                               *)
BuildOverview ==
  /\ page.step = "files"
  /\ LET files == page.files
         jobs  == desk.jobs
     IN page' = [step |-> "shown", accounts |-> files.accounts, jobs |-> jobs,
                 summary |-> SummaryRow(files, jobs),
                 attention |-> AttentionItems(files, jobs),
                 recent |-> RecentItems(files, jobs),
                 members |-> [m \in Members |-> MemberRow(files, jobs, m)]]
  /\ UNCHANGED desk

LandingNext ==
  \/ ReadFiles \/ BuildOverview
  \/ \E i \in DOMAIN desk.jobs, status \in {"done", "error"}, ok, wrote \in BOOLEAN :
       JobEnds(i, status, ok, wrote)

---------------------------------------------------------------------------
(* The numbers of a page agree, although each is counted on its own: the      *)
(* outputs and jobs of the active accounts are in the rows of the team, but   *)
(* for accounts of somebody who has left; no row is more recent than the      *)
(* whole; and a job that failed recently is shown, unless failures or invalid *)
(* outputs no older than it fill the list.                                    *)
LandingAgrees ==
  page.step = "shown" =>
    LET jobs == page.jobs
        Shared == \A a \in DOMAIN page.accounts : page.accounts[a].owner \in Members
        InRows(j) == \E m \in Members : j.account \in page.members[m].accounts
        Count(P(_)) == Cardinality({i \in DOMAIN jobs : P(jobs[i])})
    IN /\ \A m \in Members :
            /\ page.members[m].last <= page.summary.last
            /\ page.members[m].outputs <= page.summary.outputs
       /\ Shared => /\ Added(LAMBDA m : page.members[m].running, Members)
                         = Count(LAMBDA j : j.status = "running" /\ InRows(j))
                    /\ Added(LAMBDA m : page.members[m].failures, Members) <= page.summary.failures
       /\ \A i \in DOMAIN jobs :
            LET j == jobs[i]
            IN /\ j.status # "running" /\ (j.status = "error" \/ ~j.ok) /\ j.finished \in {0, Now} =>
                    \/ \E x \in Range(page.attention) : x.type = "failure" /\ x.job = j.id
                    \/ /\ Len(page.attention) = MaxAttention
                       /\ \A x \in Range(page.attention) : x.level = "error" /\ x.when >= Known(j.finished)
               /\ j.status = "running" => j.id \notin {x.job : x \in {y \in Range(page.attention) : y.type = "failure"}}
=============================================================================
