---------------------------- MODULE WorkerSizing ----------------------------
(* The arithmetic of the worker-analysis skill: sizing from a questionnaire   *)
(* (questionnaire_calculator, worker_calculator), from a batch and a window   *)
(* (queuing_calculator), and the advice drawn from measured use               *)
(* (metabase_worker_data, underutilization_report, scheduling reports).       *)
(* Every quantity is an integer: concurrent syncs in 1440ths, the minutes of  *)
(* a day, workers of measured use in hundredths, percentages exactly.         *)
EXTENDS Integers, Sequences, FiniteSets, FiniteSetsExt, SequencesExt

ApiPerWorker == 5
DbPerWorker  == 2
SyncInterval == [sub |-> 15, hourly |-> 60, daily |-> 1440]
DayMinutes   == 1440
DefaultSync  == 30
LeftOut      == -1
Buckets      == {"sub", "hourly", "daily"}

CeilDiv(a, b) == (a + b - 1) \div b
Largest(S)    == Max(S \cup {0})
Sum3(f)       == f["sub"] + f["hourly"] + f["daily"]

(* Weights are two, API and database, or three, the buckets.                  *)
SumOf(w) == w[1] + w[2] + (IF Len(w) = 3 THEN w[3] ELSE 0)

(* Mutant: every share is rounded down.                                       *)
SplitFloors(total, w) ==
  LET tw == SumOf(w)
  IN [i \in DOMAIN w |-> IF total <= 0 \/ tw = 0 THEN 0 ELSE (total * w[i]) \div tw]

(* Floors first, then one more for the largest remainders, the larger weight  *)
(* and then the earlier key deciding ties.                                    *)
SplitProportionally(total, w) ==
  LET tw == SumOf(w)
      floor(i) == (total * w[i]) \div tw
      rem(i)   == (total * w[i]) % tw
      deficit  == total - SumOf([i \in DOMAIN w |-> floor(i)])
      Before(j, i) == \/ rem(j) > rem(i)
                      \/ rem(j) = rem(i) /\ w[j] > w[i]
                      \/ rem(j) = rem(i) /\ w[j] = w[i] /\ j < i
  IN IF total <= 0 \/ tw = 0 THEN [i \in DOMAIN w |-> 0]
     ELSE [i \in DOMAIN w |->
             floor(i) + IF Cardinality({j \in DOMAIN w : Before(j, i)}) < deficit
                        THEN 1 ELSE 0]

---------------------------------------------------------------------------
(* The questionnaire. A form has `total`, the percentages `api` and `db` and  *)
(* `freq` of the buckets, the sync length `len` (or LeftOut), the number      *)
(* of environments, the growth target and the freshness window.               *)

FreqWeights(q) == <<q.freq["sub"], q.freq["hourly"], q.freq["daily"]>>
Place(b) == CASE b = "sub" -> 1 [] b = "hourly" -> 2 [] b = "daily" -> 3

ValidEstimateInputs(q) ==
  LET types == q.api + q.db
      freqs == Sum3(q.freq)
  IN /\ q.total > 0
     /\ \A p \in {q.api, q.db, q.freq["sub"], q.freq["hourly"], q.freq["daily"]} :
          p >= 0 /\ p <= 100
     /\ types \in 99 .. 101 /\ freqs \in 99 .. 101

SyncLen(q) == IF q.len <= 0 THEN DefaultSync ELSE q.len

ConnectionMatrix(total, q) ==
  LET all == SplitProportionally(total, FreqWeights(q))
      Row(b) == SplitProportionally(all[Place(b)], <<q.api, q.db>>)
  IN [b \in Buckets |-> [total |-> all[Place(b)], api |-> Row(b)[1], db |-> Row(b)[2]]]

WorkersFromConcurrency(api, db) ==
  CeilDiv(api, DayMinutes * ApiPerWorker) + CeilDiv(db, DayMinutes * DbPerWorker)

Busy(m, kind, b, len) == m[b][kind] * len * (DayMinutes \div SyncInterval[b])

SteadyStateWorkers(m, len) ==
  WorkersFromConcurrency(Sum3([b \in Buckets |-> Busy(m, "api", b, len)]),
                         Sum3([b \in Buckets |-> Busy(m, "db", b, len)]))

(* Every daily sync at once, on top of what runs all day.                     *)
WorstCaseBurstWorkers(m, len) ==
  LET Burst(kind) == Busy(m, kind, "sub", len) + Busy(m, kind, "hourly", len)
                       + m["daily"][kind] * DayMinutes
  IN WorkersFromConcurrency(Burst("api"), Burst("db"))

PeakWindowDrainWorkers(m, len, window) ==
  LET Drain(count, slots) ==
        IF count <= 0 \/ window <= 0 THEN 0
        ELSE CeilDiv(CeilDiv(count * len, window), slots)
  IN Drain(m["daily"].api, ApiPerWorker) + Drain(m["daily"].db, DbPerWorker)

StagingSteadyWorkers(total, q, len) ==
  LET split == SplitProportionally(total, <<q.api, q.db>>)
  IN WorkersFromConcurrency(split[1] * len, split[2] * len)

CombinedWorkers(total, q, len) ==
  SteadyStateWorkers(ConnectionMatrix(total, q), len)
    + Largest({q.envs - 1}) * StagingSteadyWorkers(total, q, len)

HeadroomWorkers(combined, burst, hasDaily, envs) ==
  Largest({IF hasDaily \/ envs > 1 THEN 1 ELSE 0, Min({2, Largest({burst - combined})})})

AnalyzeQuestionnaire(q) ==
  LET len      == SyncLen(q)
      m        == ConnectionMatrix(q.total, q)
      combined == CombinedWorkers(q.total, q, len)
      burst    == WorstCaseBurstWorkers(m, len)
      future   == IF q.growth > 0 THEN CombinedWorkers(q.growth, q, len) ELSE combined
      headroom == HeadroomWorkers(combined, burst, m["daily"].total > 0, q.envs)
  IN [matrix |-> m, steady |-> SteadyStateWorkers(m, len), burst |-> burst,
      drain |-> PeakWindowDrainWorkers(m, len, IF q.window = 0 THEN 60 ELSE q.window),
      combined |-> combined, future |-> future,
      recommended |-> Largest({combined + headroom, future})]

(* The older calculator: the same buckets split once more, and a split by     *)
(* type of the whole, which is what it reports. Only a length that was left   *)
(* out is the default here, one of 0 is taken as it is.                       *)
CalculateFromEstimate(q) ==
  LET len  == IF q.len = LeftOut THEN DefaultSync ELSE q.len
      type == SplitProportionally(q.total, <<q.api, q.db>>)
      freq == SplitProportionally(q.total, FreqWeights(q))
      Of(b) == SplitProportionally(freq[Place(b)], <<q.api, q.db>>)
      Use(k) == Sum3([b \in Buckets |-> Of(b)[k] * len * (DayMinutes \div SyncInterval[b])])
  IN [api |-> type[1], db |-> type[2], freq |-> freq,
      workers |-> CeilDiv(Use(1), DayMinutes * ApiPerWorker)
                    + CeilDiv(Use(2), DayMinutes * DbPerWorker)]

---------------------------------------------------------------------------
(* A batch of `syncs` of `avg` minutes (p90 half as long again) in a window;  *)
(* `slots` syncs run at once. Lengths are in half minutes, so that half as    *)
(* long again is exact, and drain times in 1/(2 slots) minutes: the work      *)
(* divided over the slots and half a poll for every wave but the first.       *)

ConcurrentSlots(workers, kind) == workers * (IF kind = "api" THEN 5 ELSE 2)
SlotsToWorkers(slots, kind)    == CeilDiv(slots, IF kind = "api" THEN 5 ELSE 2)

DrainTime(syncs, slots, halves, poll) ==
  syncs * halves + (CeilDiv(syncs, slots) - 1) * poll * slots

FitsWindow(b, w, halves) ==
  LET s == ConcurrentSlots(w, b.kind)
  IN DrainTime(b.syncs, s, halves, b.poll) <= 2 * s * b.window

EstimateWorkersForWindow(b) ==
  LET top == SlotsToWorkers(b.syncs, b.kind) + 2
      First(halves) == LET S == {w \in 1 .. top : FitsWindow(b, w, halves)}
                       IN IF S = {} THEN top ELSE Min(S)
      least == First(2 * b.avg)
      room  == First(3 * b.avg)
  IN [least |-> least, room |-> IF room <= least THEN least + 1 ELSE room, top |-> top]

---------------------------------------------------------------------------
(* Measured use: the 99th percentile in hundredths of a worker against the    *)
(* contracted workers. Percent = p99 / contracted exactly.                    *)

CapacityStatus(p99, contracted) ==
  IF contracted = 0 THEN "unknown"
  ELSE IF p99 > 100 * contracted THEN "over_capacity"
  ELSE IF p99 > 85 * contracted THEN "near_capacity"
  ELSE IF p99 > 60 * contracted THEN "healthy"
  ELSE IF p99 > 30 * contracted THEN "under_utilized"
  ELSE "significantly_under_utilized"

(* Mutant: the workers in use are rounded down.                               *)
AssessmentRoundedDown(p99, contracted) ==
  LET status == CapacityStatus(p99, contracted)
      enough == p99 \div 100
  IN CASE status = "over_capacity" -> Largest({contracted + 1, enough})
       [] status \in {"near_capacity", "healthy"} -> contracted
       [] OTHER -> Largest({1, enough})

(* The recommended number of workers; where the report only reviews the       *)
(* allocation it is what would be left after the reduction it mentions.       *)
UtilizationAssessment(p99, contracted) ==
  LET status == CapacityStatus(p99, contracted)
      enough == (p99 \div 100) + 1
  IN CASE status = "over_capacity" -> Largest({contracted + 1, enough})
       [] status \in {"near_capacity", "healthy"} -> contracted
       [] status = "under_utilized" -> contracted - Largest({0, contracted - Largest({1, enough})})
       [] OTHER -> Largest({1, enough})

(* The percentage is rounded to a tenth for one decision and not the other.   *)
ShouldGenerateScheduling(p99, contracted) ==
  \/ CapacityStatus(p99, contracted) \in {"over_capacity", "near_capacity"}
  \/ contracted > 0 /\ 100 * p99 >= 8495 * contracted

ShouldGenerateUnderutilization(p99, contracted) ==
  contracted > 0 /\ p99 < 85 * contracted

(* The first recommendation of the capacity report and what fits in the room  *)
(* that is left: API only, databases only, or half of each.                   *)
UnderutilizationRecommendations(p99, contracted) ==
  LET room == contracted * 100 - p99
      first == IF p99 < 25 * contracted THEN "rightsizing"
               ELSE IF p99 < 50 * contracted THEN "growth_opportunity"
               ELSE IF p99 < 70 * contracted THEN "healthy_headroom"
               ELSE "approaching_capacity"
  IN [first |-> first,
      fits |-> IF room <= 50 THEN {}
               ELSE {[api |-> (room * 5) \div 100, db |-> 0],
                     [api |-> 0, db |-> (room * 2) \div 100],
                     [api |-> (room * 5) \div 200, db |-> room \div 100]}]

---------------------------------------------------------------------------
(* Hours by their 99th percentile. `use` is a function from the hours with    *)
(* data; ties keep the order of the hours.                                    *)

Ranked(use, Less(_, _)) ==
  [i \in 1 .. Cardinality(DOMAIN use) |->
     CHOOSE h \in DOMAIN use : Cardinality({k \in DOMAIN use : Less(k, h)}) = i - 1]
Cut(s, n) == SubSeq(s, 1, Min({n, Len(s)}))

IdentifyPeakHours(use, n) ==
  Cut(Ranked(use, LAMBDA a, b : use[a] > use[b] \/ (use[a] = use[b] /\ a < b)), n)

IdentifyQuietHours(use, n) ==
  Cut(Ranked(use, LAMBDA a, b : use[a] < use[b] \/ (use[a] = use[b] /\ a < b)), n)

CategorizeHours(use) ==
  LET hi == Max({use[h] : h \in DOMAIN use})
      lo == Min({use[h] : h \in DOMAIN use})
      peak == {h \in DOMAIN use : 4 * (use[h] - lo) >= 3 * (hi - lo)}
      quiet == {h \in DOMAIN use \ peak : 4 * (use[h] - lo) <= hi - lo}
  IN [peak |-> peak, quiet |-> quiet, normal |-> DOMAIN use \ (peak \cup quiet)]

(* Each of the connections at the peak gets a quiet hour of its own while     *)
(* there is one left, and then the quietest of all.                           *)
GenerateRecommendations(n, quiet) ==
  [i \in 1 .. n |-> IF quiet = <<>> THEN 3
                    ELSE IF i <= Len(quiet) THEN quiet[i] ELSE quiet[1]]

(* A rough estimate from the averages of the peak and the quiet hours, in     *)
(* 60ths of a hundredth (there are at most three of one and five of the       *)
(* other): half of the difference, by the share of connections that move.     *)
PotentialImpact(p99, use, peakConns, recs) ==
  LET Avg60(s) == IF s = <<>> THEN 0
                  ELSE (60 * FoldSeq(+, 0, [i \in DOMAIN s |-> use[s[i]]])) \div Len(s)
      busy  == Avg60(IdentifyPeakHours(use, 3))
      calm  == Avg60(IdentifyQuietHours(use, 5))
      cut   == ((busy - calm) * recs) \div (2 * Largest({peakConns, 1}))
  IN IF recs = 0 THEN 60 * p99 ELSE Max({60 * p99 - cut, calm})
=============================================================================
