------------------------------- MODULE MCTools -------------------------------
(* Small questions for the worker analysis. Two ticks make a minute, two      *)
(* minutes an hour and two hours a day, so that a sync can fall between two   *)
(* minutes and run over an hour or over midnight; at most three jobs of two   *)
(* connections. And two processes with three commands on the history of a     *)
(* customer known under two names of one folder, one of them confirmed.       *)
EXTENDS WorkerAnalysis, JobHistory, AgentRun, EvalRunner, TechEval, LandingPage

CONSTANTS c1, c2, Totals, Shares, Lens, n1, n2, o1, m1, m2, left, a1, a2

MCOrgMap      == n1 :> o1
MCItself      == [n \in Names |-> n]
MCOneFolder   == [n \in Names |-> "folder"]
MCConnections == o1 :> {c1}

MCFreqs == {[sub |-> 20, hourly |-> 30, daily |-> 50], [sub |-> 0, hourly |-> 0, daily |-> 100],
            [sub |-> 33, hourly |-> 33, daily |-> 33], [sub |-> 60, hourly |-> 40, daily |-> 0]}

MCForms ==
  [total : Totals, api : Shares, db : {0}, freq : MCFreqs, len : Lens \cup {LeftOut},
   envs : {1, 3}, growth : {0, 20}, window : {0, 15}]

MCFormsWhole == {[f EXCEPT !.db = 100 - f.api] : f \in MCForms}

MCBatches ==
  [syncs : {1, 2, 5, 9, 12}, kind : {"api", "database"}, avg : {1, 5, 20},
   window : {1, 5, 12, 30}, poll : {1, 4}]

MCUses ==
  LET Edges(c) == {0, 30 * c, 60 * c, 85 * c, 100 * c, 150 * c}
      Near(c)  == UNION {{e - 1, e, e + 1} : e \in Edges(c)} \cap Nat
      Hours    == {[h \in 0 .. 6 |-> (h * 3) % 7], [h \in 0 .. 2 |-> 5],
                   [h \in 0 .. 8 |-> IF h < 4 THEN 9 ELSE h]}
  IN UNION {{[p99 |-> p, contracted |-> c, hours |-> hs, conns |-> n] :
               p \in Near(c), hs \in Hours, n \in {0, 2, 7}} : c \in {0, 1, 3, 20}}

MCEvidence ==
  {e \in [jobs : {1, 20, 50, 100}, withData : {1, 3, 5}, overlaps : {0, 5, 10},
          conns : {1, 3, 5}, recommended : {0, 1, 5}, verified : 0 .. 5] :
     e.verified <= e.recommended /\ e.conns <= e.withData}

MCPlans ==
  [hour : {0, 1, 12, 23}, count : {1, 3, 5, 10}, halves : BOOLEAN,
   quiet : {<<>>, <<5, 2>>, <<0, 1, 2, 3, 4, 5>>}, existing : {<<>>, <<2, 2, 2, 5>>},
   stagger : {15, 25}]

MCCrons ==
  [cron : [sec : {0}, min : {Star, 0, 59, 60}, hour : {Star, 0, 23, 24, StepBase + 6},
           dom : {Star, NoValue, 1}, month : {Star, 12}, dow : {Star, NoValue, 1, 7}],
   starts : {<<>>, <<3, 4, 4>>, <<7, 3>>}]

MCJobs(c) ==
  LET Job(s, e, l, d) == [conn |-> c, start |-> s, end |-> e, len |-> l, done |-> d]
      Starts == {0, 1, 4, 9, 26}
  IN      {Job(s, s + 1, 0, TRUE) : s \in Starts}
     \cup {Job(s, s + 5, 0, TRUE) : s \in Starts}
     \cup {Job(s, NoTime, 3, TRUE) : s \in Starts}
     \cup {Job(s, NoTime, 0, FALSE) : s \in {1, 9}}
     \cup {Job(NoTime, NoTime, 0, FALSE)}

(* The jobs of one connection after those of the other, the latest first; one *)
(* of the two may have been switched off since.                               *)
MCHistories ==
  LET Upto(n, c) == {s \in UNION {[1 .. k -> MCJobs(c)] : k \in 0 .. n} :
                       \A i \in 2 .. Len(s) : s[i - 1].start > s[i].start}
      Jobs(m, n) == {a \o b : a \in Upto(m, c1), b \in Upto(n, c2)}
      With(js, active) == {[jobs |-> j, active |-> active] : j \in js}
  IN      With(Jobs(2, 1) \cup Jobs(1, 2), {c1, c2})
     \cup With(Jobs(1, 1), {c1}) \cup With(Jobs(2, 1), {c2})

(* Two scenarios: one whose skills need what others wrote, and one that       *)
(* expects a refusal.                                                         *)
MCUnderTest == <<<<"tech-qual", "poc-plan">>, <<"next-move">>>>
MCPrereqs   == <<"provide_fixtures", "enforce">>
MCProvided  == <<{"biz-qual", "deployment-qual", "connector-feasibility"}, {"biz-qual"}>>
MCRefusals  == <<{}, {"next-move"}>>

(* A checklist with each type of item, the gates in two phases.               *)
MCTemplate == <<[phase |-> "plan", type |-> "gate"], [phase |-> "plan", type |-> "recommended"],
                [phase |-> "prepare", type |-> "gate"], [phase |-> "execute", type |-> "required"],
                [phase |-> "close", type |-> "optional"]>>

(* Two accounts, of members, of nobody or of somebody who has left; at most   *)
(* two outputs and two jobs, one of them perhaps of a third account that is   *)
(* gone, at the edges of a day and a week.                                    *)
MCDesks ==
  LET Account(o, x) == [owner |-> o, archived |-> x]
      Accounts == {a1 :> Account(m1, FALSE) @@ a2 :> y :
                     y \in {Account(m2, FALSE), Account(m2, TRUE), Account(left, FALSE), Account(NoOwner, FALSE)}}
      Outputs == [account : {a1, a2}, mtime : {Now - StaleFor - 1, Now - FailureFor},
                  type : {"none", "attention", "review"}, invalid : {TRUE}]
      Job(id, a, status, ok, s, f) ==
        [id |-> id, account |-> a, status |-> status, ok |-> ok, started |-> s, finished |-> f]
      Jobs(id, accounts) ==
        UNION {{Job(id, a, "running", FALSE, Now - LongFor, 0), Job(id, a, "running", FALSE, Now, 0),
                Job(id, a, "error", FALSE, Now - FailureFor, 0),
                Job(id, a, "error", FALSE, 1, Now - FailureFor - 1),
                Job(id, a, "done", TRUE, 1, Now), Job(id, a, "done", FALSE, 1, Now - FailureFor)} : a \in accounts}
      Upto2(S) == {<<>>} \cup {<<x>> : x \in S}
  IN {[accounts |-> as, outputs |-> o \o p, jobs |-> j \o k] :
        as \in Accounts, o \in Upto2(Outputs), p \in {<<>>, <<[account |-> a1, mtime |-> Now, type |-> "review", invalid |-> FALSE]>>},
        j \in Upto2(Jobs("j1", {a1})), k \in Upto2(Jobs("j2", {a2, left}))}

VARIABLE focus

wstill == task = [kind |-> "none"] /\ report = [done |-> FALSE]
lstill == desk = <<>> /\ page = NoPage

others == <<hvars, avars, evars>>
pages  == <<tvars, lvars>>

(* They have no state in common: a behaviour is about one of them.            *)
MCInit ==
  /\ JHInit /\ AgentInit /\ EvalInit /\ TrackerInit
  /\ \/ focus = "analysis" /\ WorkerInit /\ lstill
     \/ focus \in {"history", "agent", "eval", "tracker"} /\ wstill /\ lstill
     \/ focus = "landing" /\ wstill /\ LandingInit

MCNext ==
  /\ UNCHANGED focus
  /\ \/ focus = "analysis" /\ WorkerNext /\ UNCHANGED <<others, pages>>
     \/ focus = "history" /\ JHNext /\ UNCHANGED <<wvars, avars, evars, pages>>
     \/ focus = "agent" /\ AgentNext /\ UNCHANGED <<wvars, hvars, evars, pages>>
     \/ focus = "eval" /\ EvalNext /\ UNCHANGED <<wvars, hvars, avars, pages>>
     \/ focus = "tracker" /\ TrackerNext /\ UNCHANGED <<wvars, others, lvars>>
     \/ focus = "landing" /\ LandingNext /\ UNCHANGED <<wvars, others, tvars>>

(* The fairness of AgentSpec.                                                 *)
Agent(step) == focus = "agent" /\ step /\ UNCHANGED <<wvars, hvars, evars, pages, focus>>
MCSpec ==
  /\ MCInit /\ [][MCNext]_<<wvars, others, pages, focus>>
  /\ WF_avars(Agent(LoopStep)) /\ WF_avars(Agent(ProxyStep))
  /\ WF_avars(Agent(RuntimeStep)) /\ WF_avars(Agent(Expire))

(* The checklist of an evaluation and the landing page agree with themselves. *)
PagesAgree == TrackerAgrees /\ (focus = "landing" => LandingAgrees)

(* AgentRun: every attempt ends.                                              *)
EveryAttemptEnds == focus = "agent" => AttemptEnds
=============================================================================
