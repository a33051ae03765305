--------------------------- MODULE JobConcurrency ---------------------------
(* How the worker-analysis skill turns the job history of a customer into     *)
(* numbers of concurrent syncs. Five of its programs measure the same thing:  *)
(*   - job_overlap_analyzer samples every minute of one day,                  *)
(*   - non_metabase_customer_report samples it again from its own job list,   *)
(*     leaving out the connections that are not active,                       *)
(*   - timeline_visualizer counts every job that touches an hour,             *)
(*   - optimize_worker_usage_fast and analyze_org_workspaces sweep the start  *)
(*     and end events, the first counting jobs, the second connections,       *)
(*   - job_history_analyzer sweeps the jobs that touch the peak hours.        *)
(* Times are in ticks: MinuteLen ticks make a minute, HourLen an hour and     *)
(* DayLen a day; a sync may start and end between two minutes.                *)
EXTENDS Integers, Sequences, FiniteSets, FiniteSetsExt, SequencesExt, TLC

CONSTANTS
  Conns,            \* the connections
  ApiConns,         \* those whose source is an API, the others are databases
  MinuteLen, HourLen, DayLen,
  DefaultLen,       \* five minutes, the length of a job of unknown length
  WeekLen,          \* the longest gap between two jobs that is counted
  Cutoff            \* the first tick inside the analysed days

NoTime == -1

ASSUME TicksAssumption ==
  /\ {MinuteLen, HourLen, DayLen, DefaultLen, WeekLen} \subseteq Nat \ {0}
  /\ HourLen % MinuteLen = 0 /\ DayLen % HourLen = 0
  /\ Cutoff \in Nat /\ ApiConns \subseteq Conns

HoursPerDay == DayLen \div HourLen
Hour(t)  == (t % DayLen) \div HourLen
DayOf(t) == t - (t % DayLen)
Kind(c)  == IF c \in ApiConns THEN "API" ELSE "DATABASE"

(* Raw jobs as the API returns them: `end` and `len` (the duration) may be    *)
(* absent, and so may the start.                                              *)
Interval(j, e) == [conn |-> j.conn, start |-> j.start, end |-> e]

---------------------------------------------------------------------------
(* The three readings of a raw job.                                           *)

(* A duration wins; without one only a finished job has an end, and a job     *)
(* that has neither contributes nothing.                                      *)
ProcessJobs(js) ==
  LET Len1(j) == IF j.len > 0 THEN j.len
                 ELSE IF j.done /\ j.end # NoTime THEN j.end - j.start ELSE 0
      Kept    == SelectSeq(js, LAMBDA j : j.start # NoTime /\ Len1(j) > 0)
  IN [i \in DOMAIN Kept |-> Interval(Kept[i], Kept[i].start + Len1(Kept[i]))]

(* An end wins; without one the duration, and without that five minutes.      *)
BuildJobIntervals(js) ==
  LET Kept == SelectSeq(js, LAMBDA j : j.start # NoTime)
      End(j) == IF j.end # NoTime THEN j.end
                ELSE j.start + (IF j.len > 0 THEN j.len ELSE DefaultLen)
  IN [i \in DOMAIN Kept |-> Interval(Kept[i], End(Kept[i]))]

(* Only an end counts: the duration is written as 0 where there is none, so   *)
(* a job without an end is an empty interval.                                 *)
AnalyzeJobs(js) ==
  LET Kept == SelectSeq(js, LAMBDA j : j.start # NoTime /\ j.start >= Cutoff)
  IN [i \in DOMAIN Kept |->
        Interval(Kept[i], IF Kept[i].end # NoTime THEN Kept[i].end ELSE Kept[i].start)]

---------------------------------------------------------------------------
(* How often a connection runs and which hours it likes.                      *)

Total(s) == FoldSeq(+, 0, s)

(* The gaps between the starts, in order, but those of a week and more.       *)
JobIntervals(ivs) ==
  LET starts == SortSeq([i \in DOMAIN ivs |-> ivs[i].start], <)
      Gaps   == [i \in 1 .. Len(starts) - 1 |-> starts[i + 1] - starts[i]]
  IN SelectSeq(Gaps, LAMBDA g : g < WeekLen)

(* The measured gap first, then a hint in a name, then the schedule; daily    *)
(* when nothing is known. `hint` and `cron` are frequencies or "none".        *)
ClassifySyncFrequency(gaps, jobs, hint, cron) ==
  IF gaps # <<>> /\ jobs >= 2
  THEN IF 4 * Total(gaps) < 3 * HourLen * Len(gaps) THEN "sub_hourly"
       ELSE IF Total(gaps) <= 6 * HourLen * Len(gaps) THEN "hourly" ELSE "daily"
  ELSE IF hint # "none" THEN hint
  ELSE IF cron \in {"sub_hourly", "hourly"} THEN cron
  ELSE "daily"

(* The three hours with most starts, all of those that tie; and whether the   *)
(* gaps are within a third of their mean (standard deviation < 0.3 mean).     *)
AnalyzeJobPatterns(ivs) ==
  LET recent == SelectSeq(ivs, LAMBDA iv : iv.start > Cutoff)
      gaps   == JobIntervals(recent)
      n      == Len(gaps)
      squares == Total([i \in DOMAIN gaps |-> gaps[i] * gaps[i]])
      Starts(h) == Cardinality({i \in DOMAIN recent : Hour(recent[i].start) = h})
  IN [jobs |-> Len(recent),
      typical |-> {h \in 0 .. HoursPerDay - 1 :
                     /\ Starts(h) > 0
                     /\ Cardinality({k \in 0 .. HoursPerDay - 1 : Starts(k) > Starts(h)}) < 3},
      consistent |-> \/ n < 2 \/ Total(gaps) = 0
                     \/ 100 * n * (n * squares - Total(gaps) * Total(gaps))
                          < 9 * (n - 1) * Total(gaps) * Total(gaps)]

---------------------------------------------------------------------------
(* Sampling.                                                                  *)

(* Mutant: a sync still runs at the minute it ends.                           *)
AtOrEnding(ivs, t, kind) ==
  Cardinality({i \in DOMAIN ivs : /\ ivs[i].start <= t /\ t <= ivs[i].end
                                  /\ Kind(ivs[i].conn) = kind})

At(ivs, t, kind) ==
  Cardinality({i \in DOMAIN ivs : /\ ivs[i].start <= t /\ t < ivs[i].end
                                  /\ Kind(ivs[i].conn) = kind})

Most(S) == Max(S \cup {0})

(* The latest start decides the day that is analysed.                         *)
AnalysisDay(ivs) == DayOf(Most({ivs[i].start : i \in DOMAIN ivs}))

Minutes(day, h) ==
  {day + h * HourLen + m * MinuteLen : m \in 0 .. (HourLen \div MinuteLen) - 1}

(* The peaks of an hour, each kind at the minute of its own, and the tenths   *)
(* of a worker they need: an API sync takes a fifth, another one a half.      *)
HourPeaks(ivs, h) ==
  LET day == AnalysisDay(ivs)
      api == Most({At(ivs, t, "API") : t \in Minutes(day, h)})
      db  == Most({At(ivs, t, "DATABASE") : t \in Minutes(day, h)})
  IN [api |-> api, db |-> db, workers |-> 2 * api + 5 * db]

AnalyzeConcurrencyByHour(ivs) == [h \in 0 .. HoursPerDay - 1 |-> HourPeaks(ivs, h)]

(* The intervals of the connections in `active`, those whose status says so.  *)
OfActive(ivs, active) == SelectSeq(ivs, LAMBDA iv : iv.conn \in active)

(* Mutant: a connection that was switched off still counts.                   *)
PatternsOfAll(ivs, active) == AnalyzeConcurrencyByHour(ivs)

(* The other sampler: the active connections alone decide the day and the     *)
(* peaks.                                                                     *)
CalculateHourlyPatterns(ivs, active) ==
  [h \in 0 .. HoursPerDay - 1 |-> HourPeaks(OfActive(ivs, active), h)]

(* The busiest hour, the first of them on a tie.                              *)
CalculateP99(stats) ==
  CHOOSE h \in DOMAIN stats :
    /\ \A k \in DOMAIN stats : stats[k].workers <= stats[h].workers
    /\ \A k \in DOMAIN stats : k < h => stats[k].workers < stats[h].workers

(* The timeline counts a job in every hour of every day it touches.           *)
HourlyUtilization(ivs) ==
  LET last == Most({ivs[i].end : i \in DOMAIN ivs})
      Touching(h, kind) ==
        Cardinality({i \in DOMAIN ivs : /\ ivs[i].start < (h + 1) * HourLen
                                        /\ ivs[i].end > h * HourLen
                                        /\ Kind(ivs[i].conn) = kind})
  IN [h \in 0 .. ((DayOf(last) + DayLen) \div HourLen) - 1 |->
        2 * Touching(h, "API") + 5 * Touching(h, "DATABASE")]

---------------------------------------------------------------------------
(* Sweeps. An event is the start (+1) or the end (-1) of a job; `n` is its    *)
(* place in the list, which decides ties no key decides.                      *)

Events(ivs) ==
  [n \in 1 .. 2 * Len(ivs) |->
     LET iv == ivs[(n + 1) \div 2]
     IN [conn |-> iv.conn, n |-> n, delta |-> IF n % 2 = 1 THEN 1 ELSE -1,
         time |-> IF n % 2 = 1 THEN iv.start ELSE iv.end]]

Sorted(evs, Rank(_)) ==
  SortSeq(evs, LAMBDA a, b : \/ a.time < b.time
                             \/ a.time = b.time /\ Rank(a) < Rank(b)
                             \/ a.time = b.time /\ Rank(a) = Rank(b) /\ a.n < b.n)

StartsFirst(e) == -e.delta
EndsFirst(e)   == e.delta
AsListed(e)    == 0

(* The running number of jobs.                                                *)
JobSweep(evs) ==
  FoldLeft(LAMBDA acc, e : [now |-> acc.now + e.delta,
                            peak |-> Most({acc.peak, acc.now + e.delta})],
           [now |-> 0, peak |-> 0], evs).peak

(* The running set of connections: the end of one job of a connection takes   *)
(* the connection out although another job of it still runs.                  *)
ConnSweep(evs) ==
  FoldLeft(LAMBDA acc, e :
             LET now == IF e.delta = 1 THEN acc.now \cup {e.conn} ELSE acc.now \ {e.conn}
             IN [now |-> now, samples |-> Append(acc.samples, now)],
           [now |-> {}, samples |-> <<>>], evs).samples

(* The jobs of a day; starts come before ends, so that two jobs that only     *)
(* meet count as two.                                                         *)
AnalyzePeakFast(ivs, day) ==
  LET today == SelectSeq(ivs, LAMBDA iv : iv.start < day + DayLen /\ iv.end > day)
  IN JobSweep(Sorted(Events(today), StartsFirst))

(* Both kinds are sampled at every event of the whole history.                *)
ConcurrentJobsTimeline(ivs) ==
  LET samples == ConnSweep(Sorted(Events(ivs), AsListed))
      Count(kind) == [s \in DOMAIN samples |->
                        Cardinality({c \in samples[s] : Kind(c) = kind})]
  IN [api |-> Count("API"), db |-> Count("DATABASE")]

(* The hours a job is said to cover: the hour of its start and of every full  *)
(* hour after it, so that one that starts late in an hour misses its last.    *)
HoursCovered(iv) ==
  {Hour(t) : t \in {iv.start + k * HourLen : k \in 0 .. ((iv.end - iv.start - 1) \div HourLen)}}

PeakHourOverlaps(ivs, peaks) ==
  LET AtPeak == SelectSeq(ivs, LAMBDA iv : /\ iv.start >= Cutoff
                                           /\ HoursCovered(iv) \cap peaks # {})
      samples == ConnSweep(Sorted(Events(AtPeak), EndsFirst))
      overlaps == {p \in (DOMAIN AtPeak) \X (DOMAIN AtPeak) :
                     /\ p[1] < p[2]
                     /\ AtPeak[p[1]].end > AtPeak[p[2]].start
                     /\ AtPeak[p[1]].start < AtPeak[p[2]].end}
  IN [jobs |-> Len(AtPeak), conns |-> {AtPeak[i].conn : i \in DOMAIN AtPeak},
      overlaps |-> Cardinality(overlaps),
      most |-> Most({Cardinality(samples[s]) : s \in DOMAIN samples})]
=============================================================================
