------------------------------ MODULE Schedules ------------------------------
(* The schedules the worker-analysis skill proposes and the ones it reads:    *)
(* cron_generator writes and checks Quartz expressions, and airbyte_cloud_data*)
(* has a reader of its own. An expression has the fields sec, min, hour, dom, *)
(* month and dow; a field is a number, Star or NoValue, or a step over the    *)
(* hours (StepBase + n for one every n hours).                                *)
EXTENDS Integers, Sequences, FiniteSets, FiniteSetsExt, SequencesExt

Star     == -1      \* *
NoValue  == -2      \* ?
StepBase == 1000    \* */n
Raises   == [type |-> "ValueError"]
IsNumber(f) == f >= 0 /\ f < StepBase

At1(h, mi) == [sec |-> 0, min |-> mi, hour |-> h, dom |-> Star, month |-> Star, dow |-> NoValue]

(* An hour or a minute out of range is refused, and so is the hour "*".       *)
GenerateQuartzCron(h, mi) ==
  IF h \in 0 .. 23 /\ mi \in 0 .. 59 THEN <<At1(h, mi)>> ELSE <<>>

(* The hour asked for and its half, then the hours around it.                 *)
GenerateCronAlternatives(h, count, halves) ==
  LET Of(k) == IF halves THEN GenerateQuartzCron(k, 0) \o GenerateQuartzCron(k, 30)
               ELSE GenerateQuartzCron(k, 0)
      All   == FoldLeft(LAMBDA acc, o : acc \o Of((h + o) % 24), Of(h), <<1, -1, 2, -2>>)
  IN SubSeq(All, 1, Min({count, Len(All)}))

(* Mutant: the minutes go on past the hour.                                   *)
ScheduleTimesUnwrapped(quiet, existing, stagger) ==
  LET hours == SortSeq(IF quiet = <<>> THEN <<2, 3, 4, 5, 6>> ELSE quiet, <)
  IN [i \in DOMAIN hours |-> <<At1(hours[i], (i - 1) * stagger)>>]

(* The quiet hours in order, but those with three schedules already, each a   *)
(* stagger later in its hour than the one before.                             *)
GetRecommendedScheduleTimes(quiet, existing, stagger) ==
  LET hours == SortSeq(IF quiet = <<>> THEN <<2, 3, 4, 5, 6>> ELSE quiet, <)
      free  == SelectSeq(hours, LAMBDA h :
                 Cardinality({i \in DOMAIN existing : existing[i] = h}) < 3)
  IN [i \in DOMAIN free |-> GenerateQuartzCron(free[i], ((i - 1) * stagger) % 60)]

ValidateQuartzCron(c) ==
  /\ c.sec = Star \/ c.sec \in 0 .. 59
  /\ c.min = Star \/ c.min \in 0 .. 59
  /\ c.hour = Star \/ c.hour \in 0 .. 23
  /\ c.dom \in {Star, NoValue} \/ c.dom \in 1 .. 31
  /\ c.month = Star \/ c.month \in 1 .. 12
  /\ c.dow \in {Star, NoValue} \/ c.dow \in 1 .. 7
  /\ ~(c.dom = NoValue /\ c.dow = NoValue)

(* Only an hourly schedule is read without its minute as a number.            *)
ParseExistingCron(c) ==
  IF ~ValidateQuartzCron(c) THEN [type |-> "unknown"]
  ELSE IF c.hour = Star THEN [type |-> "hourly"]
  ELSE IF c.min = Star THEN Raises
  ELSE [type |-> IF c.dow \in {Star, NoValue} THEN "daily" ELSE "weekly",
        hour |-> c.hour, min |-> c.min]

(* The reader of the connections does not check: a weekly schedule falls back *)
(* to zeros, a daily one formats its hour and minute as numbers.              *)
ParseCronSchedule(c) ==
  LET Zero(f) == IF IsNumber(f) THEN f ELSE 0
      daily   == c.dow \in {Star, NoValue}
  IN IF c.hour = Star THEN [type |-> "hourly"]
     ELSE IF c.hour >= StepBase THEN [type |-> "interval", every |-> c.hour - StepBase]
     ELSE IF daily /\ ~(IsNumber(c.hour) /\ IsNumber(c.min)) THEN Raises
     ELSE [type |-> IF daily THEN "daily" ELSE "weekly",
           hour |-> Zero(c.hour), min |-> Zero(c.min)]

FormatTimePart(c) ==
  IF c.hour = Star THEN <<Star, c.min>>
  ELSE <<c.hour, IF c.min = Star THEN 0 ELSE c.min>>

ConvertUtcToTimezone(h, offset) ==
  [hour |-> (h + offset) % 24,
   day |-> IF h + offset < 0 THEN -1 ELSE IF h + offset >= 24 THEN 1 ELSE 0]

---------------------------------------------------------------------------
(* A connection as the report shows it: the hour most of its jobs start in,   *)
(* unless the schedule says an hour. `starts` are the hours of its jobs, in   *)
(* order; the first of the hours that tie is the typical one.                 *)
TypicalHour(starts) ==
  LET Times(h) == Cardinality({i \in DOMAIN starts : starts[i] = h})
      First(h) == Min({i \in DOMAIN starts : starts[i] = h})
  IN CHOOSE h \in Range(starts) :
       \A k \in Range(starts) :
         Times(k) < Times(h) \/ (Times(k) = Times(h) /\ First(h) <= First(k))

TransformConnection(starts, crons) ==
  LET read == IF crons = <<>> THEN [type |-> "manual"] ELSE ParseCronSchedule(crons[1])
  IN [type |-> read.type,
      hour |-> IF "hour" \in DOMAIN read THEN {read.hour}
               ELSE IF starts # <<>> THEN {TypicalHour(starts)} ELSE {}]

(* What the report keeps: a connection with an hour or an expression.         *)
TransformConnections(conns) ==
  SelectSeq([i \in DOMAIN conns |-> TransformConnection(conns[i].starts, conns[i].crons)],
            LAMBDA c : c.hour # {} \/ c.type # "manual")

GetConnectionScheduleSummary(conns) ==
  LET Count(h) == Cardinality({i \in DOMAIN conns : h \in conns[i].hour})
      used     == {h \in 0 .. 23 : Count(h) > 0}
  IN [byHour |-> [h \in 0 .. 23 |-> Count(h)],
      peaks |-> {h \in used : Cardinality({k \in used : \/ Count(k) > Count(h)
                                                        \/ Count(k) = Count(h) /\ k < h}) < 5}]
=============================================================================
