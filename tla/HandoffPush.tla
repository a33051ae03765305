---------------------------- MODULE HandoffPush -----------------------------
(***************************************************************************)
(* The coverage handoff of the local web app, push_to_repo of              *)
(* services/output_service.py: the page of an account and its card in the  *)
(* handover page of the SE go onto a new branch of the one clone of the    *)
(* internal repository, and a pull request is opened. Every git command is *)
(* an await of the event loop, and no lock keeps two requests apart: they  *)
(* share the branch that is checked out, the working tree and the index.    *)
(* Every push is for an account of its own, and all are for one SE.        *)
(***************************************************************************)
EXTENDS Naturals, FiniteSets

CONSTANTS
  Pushes,         \* requests, each with its account and its branch
  MaxGitFaults    \* commands that fail or time out

ASSUME PushAssumption == MaxGitFaults \in Nat

VARIABLES
  pushing,    \* where each request is
  head,       \* the branch checked out
  refs,       \* local branches, as the files of their last commit
  work,       \* the files of the working tree
  staged,     \* the files that the next commit has
  main,       \* origin/main, in the repository
  fetched,    \* origin/main, as the clone knows it
  remote,     \* the branches in the repository
  disturbed,  \* requests during which another branch was checked out
  gitFaults

gvars == <<pushing, head, refs, work, staged, main, fetched, remote, disturbed, gitFaults>>

\* The pages of accounts, and the cards in handover.html.
NoTree == [pages |-> {}, cards |-> {}]
Main == "main"

-----------------------------------------------------------------------------
(* The commands.                                                             *)

\* _run_cmd raises on a failure or a timeout: the request ends where it is, and
\* what the command did, if anything, stays. A command that timed out runs on.
Fails(p) ==
  /\ gitFaults < MaxGitFaults /\ gitFaults' = gitFaults + 1
  /\ pushing' = [pushing EXCEPT ![p] = "failed"]
Returns(p, next) ==
  /\ pushing' = [pushing EXCEPT ![p] = next]
  /\ UNCHANGED gitFaults
Finishes(p, next) == Returns(p, next) \/ Fails(p)

\* git fetch origin main
Fetch(p) ==
  /\ pushing[p] = "asked"
  /\ \/ Finishes(p, "fetched") /\ fetched' = main
     \/ Fails(p) /\ UNCHANGED fetched
  /\ UNCHANGED <<head, refs, work, staged, main, remote, disturbed>>

\* git carries changes that are not committed over to the new branch, unless they
\* are to a file in which the two branches differ.
InTheWay ==
  \/ (work.cards # refs[head].cards /\ refs[head].cards # fetched.cards)
  \/ (work.pages \ refs[head].pages) \cap fetched.pages # {}
CarriedOver(tree) ==
  [pages |-> (tree.pages \ refs[head].pages) \cup fetched.pages,
   cards |-> IF tree.cards # refs[head].cards THEN tree.cards ELSE fetched.cards]

\* git checkout -B <branch> origin/main
Checkout(p) ==
  /\ pushing[p] = "fetched"
  /\ \/ /\ ~InTheWay /\ Finishes(p, "branched")
        /\ head' = p
        /\ refs' = [refs EXCEPT ![p] = fetched]
        /\ work' = CarriedOver(work) /\ staged' = CarriedOver(staged)
        /\ disturbed' = disturbed \cup {q \in Pushes \ {p} : pushing[q] \in {"branched", "wrote", "added"}}
     \/ /\ Fails(p) \/ (InTheWay /\ Returns(p, "failed"))
        /\ UNCHANGED <<head, refs, work, staged, disturbed>>
  /\ UNCHANGED <<main, fetched, remote>>

\* The page is written, and the card put into the handover page as it is now.
WritePage(p) ==
  /\ pushing[p] = "branched"
  /\ work' = [pages |-> work.pages \cup {p}, cards |-> work.cards \cup {p}]
  /\ Returns(p, "wrote")
  /\ UNCHANGED <<head, refs, staged, main, fetched, remote, disturbed>>

AddedPageOnly(p) == [staged EXCEPT !.pages = @ \cup {p}]

\* git add <page> <handover.html>
AddedTo(p) == [pages |-> staged.pages \cup ({p} \cap work.pages), cards |-> work.cards]
Add(p) ==
  /\ pushing[p] = "wrote"
  /\ \/ Finishes(p, "added") /\ staged' = AddedTo(p)
     \/ Fails(p) /\ UNCHANGED staged
  /\ UNCHANGED <<head, refs, work, main, fetched, remote, disturbed>>

\* git commit, on the branch that is checked out; an error if nothing changed.
Commit(p) ==
  /\ pushing[p] = "added"
  /\ \/ /\ staged # refs[head] /\ Finishes(p, "committed")
        /\ refs' = [refs EXCEPT ![head] = staged]
     \/ /\ Fails(p) \/ (staged = refs[head] /\ Returns(p, "failed"))
        /\ UNCHANGED refs
  /\ UNCHANGED <<head, work, staged, main, fetched, remote, disturbed>>

\* git push -u origin <branch>
Push(p) ==
  /\ pushing[p] = "committed"
  /\ \/ Finishes(p, "pushed") /\ remote' = [remote EXCEPT ![p] = refs[p]]
     \/ Fails(p) /\ UNCHANGED remote
  /\ UNCHANGED <<head, refs, work, staged, main, fetched, disturbed>>

\* gh pr create: an error if the branch has nothing that main has not.
HasCommits(p) == ~(remote[p].pages \subseteq main.pages /\ remote[p].cards \subseteq main.cards)
OpenPr(p) ==
  /\ pushing[p] = "pushed"
  /\ IF HasCommits(p) THEN Finishes(p, "opened") ELSE Returns(p, "failed")
  /\ UNCHANGED <<head, refs, work, staged, main, fetched, remote, disturbed>>

\* Somebody merges a pull request.
MergePr(p) ==
  /\ pushing[p] = "opened"
  /\ main' = [pages |-> main.pages \cup remote[p].pages, cards |-> main.cards \cup remote[p].cards]
  /\ pushing' = [pushing EXCEPT ![p] = "merged"]
  /\ UNCHANGED <<head, refs, work, staged, fetched, remote, disturbed, gitFaults>>

-----------------------------------------------------------------------------
PushInit ==
  /\ pushing = [p \in Pushes |-> "idle"]
  /\ head = Main
  /\ refs = [b \in Pushes \cup {Main} |-> NoTree] /\ remote = [p \in Pushes |-> NoTree]
  /\ work = NoTree /\ staged = NoTree /\ main = NoTree /\ fetched = NoTree
  /\ disturbed = {} /\ gitFaults = 0

\* api_push_to_repo: the checks before the first command have passed.
Ask(p) ==
  /\ pushing[p] = "idle"
  /\ Returns(p, "asked")
  /\ UNCHANGED <<head, refs, work, staged, main, fetched, remote, disturbed>>

PushNext ==
  \E p \in Pushes :
    Ask(p) \/ Fetch(p) \/ Checkout(p) \/ WritePage(p) \/ Add(p) \/ Commit(p) \/ Push(p) \/ OpenPr(p) \/ MergePr(p)

PushSpec == PushInit /\ [][PushNext]_gvars

-----------------------------------------------------------------------------
\* push_to_repo, on a clone that other requests used before, use now, or left with
\* files that no commit has: unless another branch is checked out between its
\* checkout and its commit, a request answered with a pull request has the page and
\* the card of its account in it.
PrHasOwnPage ==
  \A p \in Pushes \ disturbed : pushing[p] \in {"opened", "merged"} =>
    p \in remote[p].pages /\ p \in remote[p].cards
=============================================================================
