--------------------------- MODULE WorkerAnalysis ---------------------------
(* One question put to the worker-analysis skill and the report it gives: a   *)
(* questionnaire, a batch to drain, measured use, or a job history. The input *)
(* is chosen at the start, one action per kind of question answers it.        *)
EXTENDS JobConcurrency, WorkerSizing, Schedules

CONSTANTS
  Forms, Batches,
  Uses,             \* measured use: p99, contracted workers, p99 by the hour, connections at the peak
  Evidence,         \* what backs a rescheduling: jobs, connections, overlaps, verified, recommended
  Plans,            \* what a schedule is proposed from
  Crons,            \* expressions found on connections
  Histories         \* raw job histories, each with the connections that are active

VARIABLES task, report

wvars == <<task, report>>
Open == report = [done |-> FALSE]

---------------------------------------------------------------------------
(* How far a history backs a rescheduling. The score has 40 points for jobs,  *)
(* 30 for overlaps and 30 for connections at the peak, in tenths before it is *)
(* rounded, and is halved as far as the recommended connections are not among *)
(* those at the peak.                                                         *)

ConfidenceScore(e) ==
  (Min({8 * e.jobs, 400}) + Min({30 * e.overlaps, 300}) + Min({60 * e.conns, 300}) + 5) \div 10

DataQuality(e) ==
  IF e.jobs >= 100 /\ e.withData >= 5 THEN "high"
  ELSE IF e.jobs >= 50 /\ e.withData >= 3 THEN "medium"
  ELSE IF e.jobs >= 20 THEN "low" ELSE "insufficient"

(* Twice the recommended connections times the adjusted score; without any    *)
(* recommendation the score stands.                                           *)
ReschedulingConfidence(e) ==
  LET r == Largest({e.recommended, 1})
      adjusted == ConfidenceScore(e) * (IF e.recommended = 0 THEN 2 ELSE r + e.verified)
      quality  == DataQuality(e)
  IN IF adjusted >= 140 * r /\ quality \in {"high", "medium"} THEN "high"
     ELSE IF adjusted >= 100 * r /\ quality # "insufficient" THEN "medium"
     ELSE IF adjusted >= 60 * r THEN "low-medium" ELSE "low"

(* The report reads the greatest concurrency at the peak, which is missing    *)
(* when no job runs then.                                                     *)
CalculateReschedulingConfidence(ivs, peaks, recommended) ==
  LET at == PeakHourOverlaps(ivs, peaks)
  IN IF ivs = <<>> THEN "low"
     ELSE IF at.jobs = 0 THEN "KeyError"
     ELSE ReschedulingConfidence(
            [jobs |-> Len(ivs), overlaps |-> at.overlaps, conns |-> Cardinality(at.conns),
             withData |-> Cardinality({ivs[i].conn : i \in DOMAIN ivs}),
             verified |-> Cardinality(recommended \cap at.conns),
             recommended |-> Cardinality(recommended)])

---------------------------------------------------------------------------

SizeQuestionnaire ==
  /\ Open /\ task.kind = "form"
  /\ report' = [done |-> TRUE, valid |-> ValidEstimateInputs(task.form),
                sizing |-> AnalyzeQuestionnaire(task.form),
                legacy |-> CalculateFromEstimate(task.form)]
  /\ UNCHANGED task

SizeBatch ==
  /\ Open /\ task.kind = "batch"
  /\ report' = [done |-> TRUE, queue |-> EstimateWorkersForWindow(task.batch)]
  /\ UNCHANGED task

AssessUse ==
  /\ Open /\ task.kind = "use"
  /\ LET u == task.use
         quiet == IdentifyQuietHours(u.hours, 5)
         recs  == GenerateRecommendations(Min({u.conns, 10}), quiet)
     IN report' = [done |-> TRUE, workers |-> UtilizationAssessment(u.p99, u.contracted),
                   scheduling |-> ShouldGenerateScheduling(u.p99, u.contracted),
                   capacity |-> ShouldGenerateUnderutilization(u.p99, u.contracted),
                   advice |-> UnderutilizationRecommendations(u.p99, u.contracted),
                   recs |-> recs, hours |-> CategorizeHours(u.hours),
                   peaks |-> Range(IdentifyPeakHours(u.hours, 3)),
                   impact |-> PotentialImpact(u.p99, u.hours, u.conns, Len(recs))]
  /\ UNCHANGED task

BackRescheduling ==
  /\ Open /\ task.kind = "evidence"
  /\ report' = [done |-> TRUE, confidence |-> ReschedulingConfidence(task.evidence)]
  /\ UNCHANGED task

(* The schedules proposed for the quiet hours of a customer.                  *)
ProposeSchedules ==
  /\ Open /\ task.kind = "plan"
  /\ LET pl == task.plan
     IN report' = [done |-> TRUE,
                   others |-> GenerateCronAlternatives(pl.hour, pl.count, pl.halves),
                   times |-> GetRecommendedScheduleTimes(pl.quiet, pl.existing, pl.stagger),
                   local |-> [o \in -8 .. 11 |-> ConvertUtcToTimezone(pl.hour, o)]]
  /\ UNCHANGED task

(* A schedule found on a connection, read twice, and the connection in the    *)
(* report.                                                                    *)
ReadSchedule ==
  /\ Open /\ task.kind = "cron"
  /\ LET c == task.cron
         shown == TransformConnections(<<[starts |-> task.starts, crons |-> <<c>>],
                                         [starts |-> task.starts, crons |-> <<>>]>>)
     IN report' = [done |-> TRUE, valid |-> ValidateQuartzCron(c),
                   existing |-> ParseExistingCron(c), schedule |-> ParseCronSchedule(c),
                   shown |-> shown, time |-> FormatTimePart(c),
                   summary |-> GetConnectionScheduleSummary(shown)]
  /\ UNCHANGED task

(* Every program that measures concurrency, on the same history.              *)
MeasureHistory ==
  /\ Open /\ task.kind = "history"
  /\ LET js   == task.history.jobs
         done == ProcessJobs(js)
         all  == BuildJobIntervals(js)
         mine == AnalyzeJobs(js)
         hours == AnalyzeConcurrencyByHour(all)
         peaks == {CalculateP99(hours)}
     IN report' = [done |-> TRUE, intervals |-> all, processed |-> done,
                   hours |-> hours, peaks |-> peaks,
                   patterns |-> CalculateHourlyPatterns(mine, task.history.active),
                   timeline |-> HourlyUtilization(all),
                   samples |-> ConcurrentJobsTimeline(done),
                   fast |-> AnalyzePeakFast(all, AnalysisDay(all)),
                   runs |-> [c \in Conns |->
                               LET own == SelectSeq(done, LAMBDA iv : iv.conn = c)
                               IN [pattern |-> AnalyzeJobPatterns(own),
                                   frequency |-> ClassifySyncFrequency(
                                                   JobIntervals(own), Len(own), "none", "none")]],
                   confidence |-> CalculateReschedulingConfidence(done, peaks, Conns)]
  /\ UNCHANGED task

Tasks ==
  {[kind |-> "form", form |-> f] : f \in Forms}
    \cup {[kind |-> "batch", batch |-> b] : b \in Batches}
    \cup {[kind |-> "use", use |-> u] : u \in Uses}
    \cup {[kind |-> "evidence", evidence |-> e] : e \in Evidence}
    \cup {[kind |-> "plan", plan |-> pl] : pl \in Plans}
    \cup {[kind |-> "cron", cron |-> c.cron, starts |-> c.starts] : c \in Crons}
    \cup {[kind |-> "history", history |-> h] : h \in Histories}

WorkerInit == task \in Tasks /\ report = [done |-> FALSE]

WorkerNext ==
  SizeQuestionnaire \/ SizeBatch \/ AssessUse \/ BackRescheduling
    \/ ProposeSchedules \/ ReadSchedule \/ MeasureHistory

WorkerSpec == WorkerInit /\ [][WorkerNext]_wvars

---------------------------------------------------------------------------
Answered(k) == report.done /\ task.kind = k

(* Two calculators size the same questionnaire (mode2_prospect_questionnaire  *)
(* returns both): whatever the rounding of the splits does, they agree on the *)
(* steady state, every connection is in one cell of the matrix, the burst is  *)
(* no less than the steady state while syncs are shorter than a day, and the  *)
(* recommendation covers both today and the growth target. For a batch, the   *)
(* number with headroom drains it at the 90th percentile if any does.         *)
EstimatesAgree ==
  /\ Answered("form") =>
       LET q == task.form
           s == report.sizing
       IN /\ q.len # 0 => s.steady = report.legacy.workers
          /\ Sum3([b \in Buckets |-> s.matrix[b].total]) = q.total
          /\ \A b \in Buckets : s.matrix[b].api + s.matrix[b].db = s.matrix[b].total
          /\ SyncLen(q) <= DayMinutes => s.burst >= s.steady
          /\ s.recommended >= s.combined /\ s.recommended >= s.future
  /\ Answered("batch") =>
       LET b == task.batch
       IN (\E w \in 1 .. report.queue.top : FitsWindow(b, w, 3 * b.avg))
            => FitsWindow(b, report.queue.room, 3 * b.avg)

(* What a report advises is enough: the recommended workers cover the 99th    *)
(* percentile, and none are added unless it exceeds the contract; every       *)
(* customer with a contract gets one of the two reports; no connection is     *)
(* moved to an hour busier than an hour left alone; and confidence is high    *)
(* only when a fair share of the connections really ran at the peak.          *)
AdviceIsSound ==
  /\ Answered("use") =>
       LET u == task.use
       IN /\ 100 * report.workers >= u.p99
          /\ u.contracted > 0 /\ u.p99 <= 100 * u.contracted => report.workers <= u.contracted
          /\ u.contracted > 0 => report.scheduling \/ report.capacity
          /\ \A f \in report.advice.fits :
               20 * f.api + 50 * f.db <= 100 * u.contracted - u.p99
          /\ \A i \in DOMAIN report.recs :
               Cardinality({h \in DOMAIN u.hours : u.hours[h] < u.hours[report.recs[i]]}) < 5
          /\ report.hours.peak \cap report.hours.quiet = {}
  /\ Answered("evidence") =>
       LET e == task.evidence
       IN report.confidence = "high" /\ e.recommended > 0
            => e.jobs >= 50 /\ 5 * e.verified >= 2 * e.recommended

(* A proposed schedule is one the program itself accepts, reads back as the   *)
(* time it was proposed for, and shares with no other of the proposal; and    *)
(* the two readers of an expression agree on every valid one they both read.  *)
SchedulesAgree ==
  /\ Answered("plan") =>
       LET all == [i \in DOMAIN report.times |-> report.times[i][1]]
       IN /\ \A c \in Range(all) \cup Range(report.others) :
               /\ ValidateQuartzCron(c)
               /\ ParseExistingCron(c) = [type |-> "daily", hour |-> c.hour, min |-> c.min]
               /\ ParseCronSchedule(c) = ParseExistingCron(c)
          /\ IsInjective(report.others)
          /\ task.plan.halves => Len(report.others) = task.plan.count
          /\ IsInjective(task.plan.quiet) => IsInjective(all)
          /\ \A o \in DOMAIN report.local :
               report.local[o].hour + 24 * report.local[o].day = task.plan.hour + o
  /\ Answered("cron") =>
       /\ report.valid /\ report.existing # Raises =>
            /\ report.schedule = report.existing
            /\ report.existing.type \in {"daily", "weekly"} =>
                 report.shown[1].hour = {report.existing.hour}
       /\ FoldSet(LAMBDA h, acc : acc + report.summary.byHour[h], 0, 0 .. 23)
            = Cardinality({i \in DOMAIN report.shown : report.shown[i].hour \cap (0 .. 23) # {}})

Running(ivs, t, kinds) ==
  {i \in DOMAIN ivs : ivs[i].start <= t /\ t < ivs[i].end /\ Kind(ivs[i].conn) \in kinds}

PeakOf(ivs, kinds) ==
  Most({Cardinality(Running(ivs, ivs[i].start, kinds)) : i \in DOMAIN ivs})

(* The measures of one history agree as far as their sampling allows: what a  *)
(* minute shows really ran at once; an hour of the timeline counts at least   *)
(* what a minute of it shows; the fast sweep never misses a job, and counts   *)
(* too many only when one ends as another starts; and when no two events      *)
(* coincide and no connection overlaps itself, the event samples find the     *)
(* very peak. When every job is of the analysed days and has an end, the      *)
(* customer report shows the hours that the other sampler finds for the       *)
(* active connections: the same hours when all are active, and hours of an    *)
(* earlier day, perhaps, when the latest job is of one that is not.           *)
PeaksAgree ==
  Answered("history") =>
    LET ivs  == report.intervals
        done == report.processed
        day  == AnalysisDay(ivs)
        Both == {"API", "DATABASE"}
        Times(s) == [n \in 1 .. 2 * Len(s) |->
                       IF n % 2 = 1 THEN s[(n + 1) \div 2].start ELSE s[n \div 2].end]
        Apart == /\ \A m, n \in 1 .. 2 * Len(done) : m # n => Times(done)[m] # Times(done)[n]
                 /\ \A m, n \in DOMAIN done :
                      m # n /\ done[m].conn = done[n].conn
                        => done[m].end < done[n].start \/ done[n].end < done[m].start
        Whole == \A j \in Range(task.history.jobs) : j.start >= Cutoff /\ j.end # NoTime
    IN /\ \A h \in DOMAIN report.hours :
            /\ report.hours[h].api <= PeakOf(ivs, {"API"})
            /\ report.hours[h].db <= PeakOf(ivs, {"DATABASE"})
            /\ report.hours[h].workers <=
                 (IF (day \div HourLen) + h \in DOMAIN report.timeline
                  THEN report.timeline[(day \div HourLen) + h] ELSE 0)
       /\ \A t \in day .. day + DayLen - 1 : report.fast >= Cardinality(Running(ivs, t, Both))
       /\ \E t \in Range(Times(ivs)) \cup {0} :
            report.fast <= Cardinality({i \in DOMAIN ivs : ivs[i].start <= t /\ t <= ivs[i].end})
       /\ Apart => /\ Most(Range(report.samples.api)) = PeakOf(done, {"API"})
                   /\ Most(Range(report.samples.db)) = PeakOf(done, {"DATABASE"})
       /\ Whole => report.patterns = AnalyzeConcurrencyByHour(OfActive(ivs, task.history.active))

(* The numbers of a form, the advice drawn from them and the schedules that   *)
(* are proposed agree with their definitions, at every boundary.              *)
AdviceAgrees == EstimatesAgree /\ AdviceIsSound /\ SchedulesAgree
=============================================================================
