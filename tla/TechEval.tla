------------------------------ MODULE TechEval ------------------------------
(* The checklist of a technical evaluation (services/tech_eval_service.py):   *)
(* one file per opportunity, made from a fixed template when it is first      *)
(* looked at, changed by hand, and summarized in three places. A lock of the  *)
(* service makes each request one step; the file is replaced as a whole, so a *)
(* process that dies leaves the old or the new one. The folder of an account  *)
(* is renamed by account_service, which knows nothing of the checklist.       *)
EXTENDS Integers, Sequences, FiniteSets, FiniteSetsExt, SequencesExt

CONSTANTS
  Template,      \* the items: [phase, type] in order
  FolderNames,   \* the names an account can have
  MaxEdits       \* bound: changes made by hand

Phases   == <<"plan", "prepare", "execute", "validate", "close">>
Statuses == {"not_started", "in_progress", "blocked", "done", "not_applicable"}

ASSUME TemplateAssumption ==
  \A i \in DOMAIN Template :
    /\ Template[i].phase \in Range(Phases)
    /\ Template[i].type \in {"gate", "required", "recommended", "optional"}

VARIABLES
  folder,        \* the name of the account's folder
  tracker,       \* the file: the account it was made for, the statuses, the count of changes
  accepted       \* ghost: changes that were answered with success

tvars == <<folder, tracker, accepted>>

NoTracker == [account |-> "none", items |-> <<>>, changes |-> 0]

NewTracker ==
  [account |-> folder, items |-> [i \in DOMAIN Template |-> "not_started"], changes |-> 0]

TrackerInit == folder = (CHOOSE n \in FolderNames : TRUE) /\ tracker = NoTracker /\ accepted = 0

---------------------------------------------------------------------------
(* _summary, from the statuses.                                               *)

Applicable(items) == {i \in DOMAIN items : items[i] # "not_applicable"}
Finished(items)   == {i \in Applicable(items) : items[i] = "done"}
Unfinished(items, types) ==
  {i \in Applicable(items) : Template[i].type \in types /\ items[i] # "done"}
Core == {"gate", "required"}

(* Mutant: only the gates decide whether the rest is merely a risk.           *)
OverallOfGates(items) ==
  IF \A i \in DOMAIN items : items[i] = "not_started" THEN "not_started"
  ELSE IF \E i \in DOMAIN items : items[i] = "blocked" THEN "blocked"
  ELSE IF Finished(items) = Applicable(items) THEN "complete"
  ELSE IF Unfinished(items, {"gate"}) = {} THEN "ready_with_risks" ELSE "in_progress"

OverallState(items) ==
  IF \A i \in DOMAIN items : items[i] = "not_started" THEN "not_started"
  ELSE IF \E i \in DOMAIN items : items[i] = "blocked" THEN "blocked"
  ELSE IF Finished(items) = Applicable(items) THEN "complete"
  ELSE IF Unfinished(items, Core) = {} THEN "ready_with_risks" ELSE "in_progress"

(* The first phase with something unfinished that is not optional.            *)
CurrentPhase(items) ==
  LET open == SelectSeq(Phases, LAMBDA p : \E i \in Unfinished(items, Core) : Template[i].phase = p)
  IN IF open = <<>> THEN "close" ELSE Head(open)

(* What is said to remain: a blocked gate, the next gate, the next required   *)
(* item, or how many others.                                                  *)
RemainingOf(items) ==
  LET gates   == Unfinished(items, {"gate"})
      blocked == {i \in gates : items[i] = "blocked"}
      core    == Unfinished(items, Core)
  IN IF Finished(items) = Applicable(items) THEN [what |-> "nothing"]
     ELSE IF gates # {} THEN [what |-> "gate", item |-> Min(IF blocked = {} THEN gates ELSE blocked),
                              others |-> Cardinality(gates) - 1]
     ELSE IF core # {} THEN [what |-> "required", item |-> Min(core)]
     ELSE [what |-> "risks", others |-> Cardinality(Applicable(items) \ Finished(items))]

PhaseSummary(items, p) ==
  LET here == {i \in Applicable(items) : Template[i].phase = p}
  IN [completed |-> Cardinality(here \cap Finished(items)), total |-> Cardinality(here),
      gates |-> Cardinality(here \cap Unfinished(items, {"gate"}))]

Summary(items) ==
  [overall |-> OverallState(items), phase |-> CurrentPhase(items),
   completed |-> Cardinality(Finished(items)), total |-> Cardinality(Applicable(items)),
   gates |-> Cardinality(Unfinished(items, {"gate"})), remaining |-> RemainingOf(items),
   phases |-> [p \in Range(Phases) |-> PhaseSummary(items, p)]]

---------------------------------------------------------------------------
(* _validate_loaded: a file made for another account is refused as malformed. *)
Loadable == tracker = NoTracker \/ tracker.account = folder

LoadedTracker == IF tracker = NoTracker THEN NewTracker ELSE tracker

(* get_tracker: the template is written on the first look.                    *)
GetTracker ==
  /\ Loadable
  /\ tracker' = LoadedTracker
  /\ UNCHANGED <<folder, accepted>>

(* Mutant: a file made for another account is started over.                  *)
UpdateAfresh(i, status) ==
  /\ accepted < MaxEdits
  /\ tracker' = [IF tracker.account = folder THEN tracker ELSE NewTracker
                   EXCEPT !.items[i] = status, !.changes = @ + 1]
  /\ accepted' = accepted + 1
  /\ UNCHANGED folder

(* update_item: a status, or an owner or a note, which no summary looks at.   *)
UpdateItem(i, status) ==
  /\ accepted < MaxEdits /\ Loadable
  /\ tracker' = [LoadedTracker EXCEPT !.items[i] = status, !.changes = @ + 1]
  /\ accepted' = accepted + 1
  /\ UNCHANGED folder

(* rename_account: the folder moves with all that is in it.                   *)
RenameFolder(n) ==
  /\ folder # n
  /\ folder' = n
  /\ UNCHANGED <<tracker, accepted>>

TrackerNext ==
  \/ GetTracker
  \/ \E i \in DOMAIN Template, status \in Statuses : UpdateItem(i, status)
  \/ \E n \in FolderNames : RenameFolder(n)

---------------------------------------------------------------------------
(* The parts of a summary, each counted on its own, tell one story: complete  *)
(* means nothing remains, and only risks remain exactly when no gate and no   *)
(* required item does; the gate that is named is not in a phase already left  *)
(* behind; and the phases add up. Every accepted change is in the file.       *)
TrackerAgrees ==
  /\ tracker # NoTracker =>
       LET items == tracker.items
           s     == Summary(items)
           At(p) == CHOOSE n \in DOMAIN Phases : Phases[n] = p
           Added(f(_)) == FoldSet(LAMBDA p, n : n + f(p), 0, Range(Phases))
       IN /\ s.overall = "complete" => s.remaining.what = "nothing" /\ s.gates = 0 /\ s.phase = "close"
          /\ s.overall = "ready_with_risks" => s.remaining.what = "risks" /\ s.phase = "close"
          /\ s.remaining.what \in {"gate", "required"} =>
               /\ s.overall \in {"not_started", "in_progress", "blocked"}
               /\ At(Template[s.remaining.item].phase) >= At(s.phase)
          /\ Added(LAMBDA p : s.phases[p].total) = s.total
          /\ Added(LAMBDA p : s.phases[p].completed) = s.completed
          /\ Added(LAMBDA p : s.phases[p].gates) = s.gates
  /\ tracker.changes = accepted
=============================================================================
