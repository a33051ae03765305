---------------------------- MODULE LocalProofs -----------------------------
(***************************************************************************)
(* Machine-checked proofs about the services of the local web app. Each of *)
(* them has an inductive invariant of its own:                             *)
(*                                                                         *)
(*  CloneInv      the shared clone, as the requests that nobody disturbed  *)
(*                have left it;                                            *)
(*  PortfolioInv  who confirms a mapping writes what it has read, and an   *)
(*                answer that says it is whole is whole;                   *)
(*  RunsInv       what a request on its way has waived was shown;          *)
(*  MailInv       a retrieval that began since a mailbox was given up      *)
(*                selects none of its mail;                                *)
(*  NotesInv      what a retrieval has collected is of the meetings it is  *)
(*                listed under, and nothing was recorded meanwhile;        *)
(*  LiveInv       where each step of a stop finds what the stop began      *)
(*                with.                                                    *)
(***************************************************************************)
EXTENDS HandoffPush, Portfolio, SkillRuns, MailIntake, NotesIntake, LiveSession,
        FiniteSetTheorems, SequenceTheorems, WellFoundedInduction, TLAPS

-----------------------------------------------------------------------------
(* Numbers and sequences.                                                   *)

\* A set of numbers that is not empty has a least one.
LEMMA Least ==
  ASSUME NEW S \in SUBSET Nat, S # {}
  PROVE  \E n \in S : \A k \in S : n <= k
<1>1. PICK n \in S : \A k \in S : ~ (<<k, n>> \in OpToRel(<, Nat))
  BY NatLessThanWellFounded, WFMin
<1>2. n \in S /\ \A k \in S : ~ (k < n)
  BY <1>1 DEF OpToRel
<1> QED
  BY <1>2

\* A sequence of any values with one more.
LEMMA Appended ==
  ASSUME NEW S, NEW s \in Seq(S), NEW x
  PROVE  /\ Append(s, x) \in Seq(S \cup {x})
         /\ DOMAIN s = 1 .. Len(s) /\ Len(s) \in Nat /\ DOMAIN Append(s, x) = 1 .. Len(s) + 1
         /\ \A i \in DOMAIN s : Append(s, x)[i] = s[i]
         /\ Append(s, x)[Len(s) + 1] = x
<1>1. s \in Seq(S \cup {x})
  OBVIOUS
<1> QED
  BY <1>1

\* The same sequence with one of its values replaced.
LEMMA Replaced ==
  ASSUME NEW S, NEW s \in Seq(S), NEW j \in DOMAIN s, NEW x
  PROVE  /\ [s EXCEPT ![j] = x] \in Seq(S \cup {x}) /\ DOMAIN [s EXCEPT ![j] = x] = DOMAIN s
         /\ [s EXCEPT ![j] = x][j] = x
         /\ \A i \in DOMAIN s : i # j => [s EXCEPT ![j] = x][i] = s[i]
<1>1. s \in Seq(S \cup {x}) /\ x \in S \cup {x}
  OBVIOUS
<1> QED
  BY <1>1

\* A sequence of any values and the same with one more.
Appends(s, t, x) ==
  /\ \E S : t \in Seq(S)
  /\ Len(s) \in Nat /\ Len(t) = Len(s) + 1 /\ DOMAIN s = 1 .. Len(s) /\ DOMAIN t = 1 .. Len(s) + 1
  /\ t[Len(s) + 1] = x /\ \A i \in DOMAIN s : t[i] = s[i]

\* Append gives it.
LEMMA OneMore ==
  ASSUME NEW S, NEW s \in Seq(S), NEW x
  PROVE  Appends(s, Append(s, x), x)
<1>1. Append(s, x) \in Seq(S \cup {x}) /\ Len(Append(s, x)) = Len(s) + 1
  <2>1. s \in Seq(S \cup {x})
    OBVIOUS
  <2> QED
    BY <2>1
<1> QED
  BY <1>1, Appended DEF Appends

-----------------------------------------------------------------------------
(* The handoff: push_to_repo.                                               *)

Stages == {"idle", "asked", "fetched", "branched", "wrote", "added", "committed", "pushed",
           "opened", "merged", "failed"}

Tree == [pages: SUBSET Pushes, cards: SUBSET Pushes]

\* The account of p has its page and its card in a tree.
Has(tree, p) == p \in tree.pages /\ p \in tree.cards

CloneTypeOK ==
  /\ pushing \in [Pushes -> Stages]
  /\ head \in Pushes \cup {Main}
  /\ refs \in [Pushes \cup {Main} -> Tree] /\ remote \in [Pushes -> Tree]
  /\ work \in Tree /\ staged \in Tree /\ main \in Tree /\ fetched \in Tree
  /\ disturbed \subseteq Pushes

\* What a request that nobody disturbed has achieved at each command. Between its
\* checkout and its commit its branch is the one checked out; as long as it is,
\* the other requests that write and add into it take nothing of it away.
Undisturbed(p) ==
  /\ pushing[p] \in {"branched", "wrote", "added"} => head = p
  /\ pushing[p] = "wrote" => Has(work, p)
  /\ pushing[p] = "added" => Has(work, p) /\ Has(staged, p)
  /\ pushing[p] = "committed" => /\ Has(refs[p], p)
                                 /\ head = p => Has(work, p) /\ Has(staged, p)
  /\ pushing[p] \in {"pushed", "opened", "merged"} => Has(remote[p], p)

CloneInv == CloneTypeOK /\ \A p \in Pushes \ disturbed : Undisturbed(p)

\* How one command moves its request.
LEMMA Commands ==
  ASSUME CloneTypeOK, NEW p \in Pushes, NEW next \in Stages, Finishes(p, next) \/ Fails(p)
  PROVE  /\ pushing' \in [Pushes -> Stages]
         /\ pushing'[p] \in {next, "failed"}
         /\ \A q \in Pushes : q # p => pushing'[q] = pushing[q]
  BY DEF CloneTypeOK, Finishes, Returns, Fails, Stages

\* Every command leaves the clone, its branches and the pull requests what they are.
LEMMA CloneTypes ==
  ASSUME CloneTypeOK, [PushNext]_gvars
  PROVE  CloneTypeOK'
<1> USE DEF CloneTypeOK
<1>1. ASSUME NEW p \in Pushes, Ask(p) PROVE CloneTypeOK'
  BY <1>1 DEF Ask, Returns, Stages
<1>2. ASSUME NEW p \in Pushes, Fetch(p) PROVE CloneTypeOK'
  BY <1>2 DEF Fetch, Finishes, Returns, Fails, Stages
<1>3. ASSUME NEW p \in Pushes, Checkout(p) PROVE CloneTypeOK'
  <2>1. /\ pushing' \in [Pushes -> Stages]
        /\ disturbed' \subseteq Pushes /\ UNCHANGED <<main, fetched, remote>>
    BY <1>3 DEF Checkout, Finishes, Returns, Fails, Stages
  <2>2. refs[head] \in Tree
    OBVIOUS
  <2>3. CarriedOver(work) \in Tree /\ CarriedOver(staged) \in Tree
    BY <2>2 DEF CarriedOver, Tree
  <2>4. /\ head' \in Pushes \cup {Main} /\ refs' \in [Pushes \cup {Main} -> Tree]
        /\ work' \in Tree /\ staged' \in Tree
    BY <1>3, <2>3 DEF Checkout
  <2> QED
    BY <2>1, <2>4
<1>4. ASSUME NEW p \in Pushes, WritePage(p) PROVE CloneTypeOK'
  BY <1>4 DEF WritePage, Returns, Stages, Tree
<1>5. ASSUME NEW p \in Pushes, Add(p) PROVE CloneTypeOK'
  <2>1. AddedTo(p) \in Tree
    BY DEF AddedTo, Tree
  <2> QED
    BY <1>5, <2>1 DEF Add, Finishes, Returns, Fails, Stages
<1>6. ASSUME NEW p \in Pushes, Commit(p) PROVE CloneTypeOK'
  BY <1>6 DEF Commit, Finishes, Returns, Fails, Stages
<1>7. ASSUME NEW p \in Pushes, Push(p) PROVE CloneTypeOK'
  BY <1>7 DEF Push, Finishes, Returns, Fails, Stages
<1>8. ASSUME NEW p \in Pushes, OpenPr(p) PROVE CloneTypeOK'
  BY <1>8 DEF OpenPr, Finishes, Returns, Fails, Stages
<1>9. ASSUME NEW p \in Pushes, MergePr(p) PROVE CloneTypeOK'
  <2>1. pushing' \in [Pushes -> Stages] /\ main' \in Tree
    BY <1>9 DEF MergePr, Stages, Tree
  <2> QED
    BY <1>9, <2>1 DEF MergePr
<1>10. CASE UNCHANGED gvars
  BY <1>10 DEF gvars
<1> QED
  BY <1>1, <1>2, <1>3, <1>4, <1>5, <1>6, <1>7, <1>8, <1>9, <1>10 DEF PushNext

\* Every command keeps what the undisturbed requests have achieved.
LEMMA CloneInductive == CloneInv /\ [PushNext]_gvars => CloneInv'
<1> SUFFICES ASSUME CloneInv, [PushNext]_gvars PROVE CloneInv'
  OBVIOUS
<1>0. CloneTypeOK /\ CloneTypeOK' /\ \A p \in Pushes \ disturbed : Undisturbed(p)
  BY CloneTypes DEF CloneInv
<1> DEFINE Goal == \A q \in Pushes \ disturbed' : Undisturbed(q)'
<1>1. ASSUME NEW p \in Pushes, Ask(p) \/ Fetch(p) \/ OpenPr(p) \/ MergePr(p) PROVE Goal
  <2>1. /\ UNCHANGED <<head, refs, work, staged, remote, disturbed>>
        /\ pushing \in [Pushes -> Stages]
        /\ \A q \in Pushes : q # p => pushing'[q] = pushing[q]
    BY <1>0, <1>1 DEF CloneTypeOK, Ask, Fetch, OpenPr, MergePr, Finishes, Returns, Fails
  <2>2. \/ pushing'[p] \in {"asked", "fetched", "failed"}
        \/ pushing[p] \in {"pushed", "opened"} /\ pushing'[p] \in {"opened", "merged", "failed"}
    BY <1>0, <1>1 DEF CloneTypeOK, Ask, Fetch, OpenPr, MergePr, Finishes, Returns, Fails
  <2> QED
    BY <1>0, <2>1, <2>2 DEF Undisturbed, Has
<1>2. ASSUME NEW p \in Pushes, Checkout(p) PROVE Goal
  <2>0. /\ UNCHANGED remote /\ disturbed \subseteq disturbed' /\ pushing[p] = "fetched"
        /\ pushing \in [Pushes -> Stages] /\ refs \in [Pushes \cup {Main} -> Tree]
    BY <1>0, <1>2 DEF Checkout, CloneTypeOK
  <2>1. pushing'[p] \in {"branched", "failed"} /\ \A q \in Pushes : q # p => pushing'[q] = pushing[q]
    BY <2>0, <1>2 DEF Checkout, Finishes, Returns, Fails
  <2>2. CASE head' = p /\ refs' = [refs EXCEPT ![p] = fetched]
             /\ disturbed' = disturbed \cup {q \in Pushes \ {p} : pushing[q] \in {"branched", "wrote", "added"}}
    <3> SUFFICES ASSUME NEW q \in Pushes \ disturbed' PROVE Undisturbed(q)'
      OBVIOUS
    <3>1. CASE q = p
      BY <3>1, <2>1, <2>2 DEF Undisturbed
    <3>2. CASE q # p
      <4>1. pushing'[q] = pushing[q] /\ pushing[q] \notin {"branched", "wrote", "added"} /\ refs'[q] = refs[q]
        BY <2>0, <2>1, <2>2, <3>2
      <4>2. q \in Pushes \ disturbed /\ Undisturbed(q)
        BY <1>0, <2>0
      <4> QED
        BY <2>0, <2>2, <3>2, <4>1, <4>2 DEF Undisturbed, Has
    <3> QED
      BY <3>1, <3>2
  <2>3. CASE UNCHANGED <<head, refs, work, staged, disturbed>> /\ pushing'[p] = "failed"
    BY <1>0, <2>0, <2>1, <2>3 DEF Undisturbed, Has
  <2> QED
    BY <1>2, <2>0, <2>2, <2>3 DEF Checkout, Fails, Returns
<1>3. ASSUME NEW p \in Pushes, WritePage(p) PROVE Goal
  <2>1. /\ UNCHANGED <<head, refs, staged, remote, disturbed>>
        /\ pushing[p] = "branched" /\ pushing'[p] = "wrote"
        /\ \A q \in Pushes : q # p => pushing'[q] = pushing[q]
        /\ Has(work', p) /\ \A q \in Pushes : Has(work, q) => Has(work', q)
    BY <1>0, <1>3 DEF CloneTypeOK, WritePage, Returns, Has
  <2> QED
    BY <1>0, <2>1 DEF Undisturbed, Has
<1>4. ASSUME NEW p \in Pushes, Add(p) PROVE Goal
  <2>1. /\ UNCHANGED <<head, refs, work, remote, disturbed>>
        /\ pushing[p] = "wrote" /\ pushing'[p] \in {"added", "failed"}
        /\ \A q \in Pushes : q # p => pushing'[q] = pushing[q]
    BY <1>0, <1>4 DEF CloneTypeOK, Add, Finishes, Returns, Fails
  <2>2. \/ staged' = staged /\ pushing'[p] = "failed"
        \/ staged' = AddedTo(p)
    BY <1>0, <1>4 DEF CloneTypeOK, Add, Fails
  <2>3. \A q \in Pushes : Has(work, q) /\ (Has(staged, q) \/ q = p) => Has(AddedTo(p), q)
    BY DEF AddedTo, Has
  <2> QED
    BY <1>0, <2>1, <2>2, <2>3 DEF Undisturbed, Has
<1>5. ASSUME NEW p \in Pushes, Commit(p) PROVE Goal
  <2>1. /\ UNCHANGED <<head, work, staged, remote, disturbed>>
        /\ pushing[p] = "added" /\ pushing'[p] \in {"committed", "failed"}
        /\ \A q \in Pushes : q # p => pushing'[q] = pushing[q]
    BY <1>0, <1>5 DEF CloneTypeOK, Commit, Finishes, Returns, Fails
  <2>2. \/ refs' = refs /\ pushing'[p] = "failed"
        \/ refs' = [refs EXCEPT ![head] = staged]
    BY <1>0, <1>5 DEF CloneTypeOK, Commit, Fails, Returns
  <2>3. \A q \in Pushes : refs'[q] = refs[q] \/ (q = head /\ refs'[q] = staged)
    BY <1>0, <2>2 DEF CloneTypeOK
  <2>4. head = p /\ pushing'[p] = "committed" => refs'[p] = staged
    BY <1>0, <2>1, <2>2 DEF CloneTypeOK
  <2> QED
    BY <1>0, <2>1, <2>3, <2>4 DEF Undisturbed, Has
<1>6. ASSUME NEW p \in Pushes, Push(p) PROVE Goal
  <2>1. /\ UNCHANGED <<head, refs, work, staged, disturbed>>
        /\ pushing[p] = "committed" /\ pushing'[p] \in {"pushed", "failed"}
        /\ \A q \in Pushes : q # p => pushing'[q] = pushing[q] /\ remote'[q] = remote[q]
        /\ pushing'[p] = "pushed" => remote'[p] = refs[p]
    BY <1>0, <1>6 DEF CloneTypeOK, Push, Finishes, Returns, Fails
  <2> QED
    BY <1>0, <2>1 DEF Undisturbed, Has
<1>7. ASSUME UNCHANGED gvars PROVE Goal
  BY <1>0, <1>7 DEF gvars, Undisturbed, Has
<1>8. Goal
  BY <1>1, <1>2, <1>3, <1>4, <1>5, <1>6, <1>7 DEF PushNext
<1> QED
  BY <1>0, <1>8 DEF CloneInv

\* A request that is answered with a pull request has the page and the card of its
\* account in it, however many others use the clone and whatever commands fail,
\* unless another branch was checked out between its checkout and its commit.
THEOREM OwnPage == PushSpec => []PrHasOwnPage
<1>1. PushInit => CloneInv
  BY DEF PushInit, CloneInv, CloneTypeOK, Stages, Tree, NoTree, Undisturbed, Has
<1>2. CloneInv => PrHasOwnPage
  BY DEF CloneInv, PrHasOwnPage, Undisturbed, Has
<1> QED
  BY <1>1, <1>2, CloneInductive, PTL DEF PushSpec

-----------------------------------------------------------------------------
(* The portfolio: which Salesforce opportunity a folder is.                 *)

\* A set in which all elements are equal.
LEMMA AtMostOne ==
  ASSUME NEW S, \A x, y \in S : x = y
  PROVE  Cardinality(S) <= 1
<1>1. CASE S = {}
  BY <1>1, FS_EmptySet
<1>2. CASE S # {}
  <2>1. PICK x \in S : S = {x}
    BY <1>2
  <2> QED
    BY <2>1, FS_Singleton
<1> QED
  BY <1>1, <1>2

Link == Folders \cup {None}

PortfolioTypeOK ==
  /\ mappings \in [CrmIds -> Link]
  /\ folders \subseteq Folders
  /\ linked \in [CrmIds -> SUBSET Folders]
  /\ mapper \in [Mappers -> [pc: {"idle", "check", "write"}, id: CrmIds \cup {None}, folder: Link,
                             read: [CrmIds -> Link] \cup {<<>>}]]

\* No two ids have one folder.
Distinctly(f) == \A i, k \in CrmIds : f[i] = f[k] /\ f[i] \in Folders => i = k

\* The thread that confirms a mapping writes what it has read, and nobody else does.
Confirms(t) ==
  /\ mapper[t].pc # "idle" => mapper[t].id \in CrmIds /\ mapper[t].folder \in folders
  /\ mapper[t].pc = "write" => mapper[t].read = mappings /\ FolderIsFree(mappings, mapper[t].id, mapper[t].folder)

MappingInv == PortfolioTypeOK /\ Distinctly(mappings) /\ \A t \in Mappers : Confirms(t)

\* Every refresher that waits or runs has a scope, and waits once.
QueueInv ==
  /\ queue \in Seq(Refreshers) /\ asks \in [Refreshers -> Scopes \cup {None}]
  /\ \A i \in DOMAIN queue : asks[queue[i]] \in Scopes
  /\ \A i, k \in DOMAIN queue : queue[i] = queue[k] => i = k

\* The last answer: if it was a good one, it is what is shown, in the scope that was
\* asked for, and whole unless it says otherwise.
AnswerInv ==
  /\ crm.success.scope \in Scopes \cup {None} /\ crm.success.rows \subseteq CrmIds
  /\ crm.attempt.state \in QueryFailures \cup {"ok", "not_checked"}
  /\ crm.attempt.state = "ok" /\ crm.success.complete => crm.success.rows = InScope[crm.attempt.scope]

PortfolioInv == MappingInv /\ QueueInv /\ AnswerInv

\* A mapping is only written for a folder that no other id has.
LEMMA MappingInductive ==
  ASSUME MappingInv, crm.success.rows \subseteq CrmIds, [PortfolioNext]_pvars, NEW one, Mappers = {one}
  PROVE  MappingInv'
<1>0. PortfolioTypeOK /\ Distinctly(mappings) /\ \A t \in Mappers : Confirms(t)
  BY DEF MappingInv
<1>1. ASSUME UNCHANGED <<mappings, mapper>>, folders' = folders, linked' \in [CrmIds -> SUBSET Folders]
      PROVE  MappingInv'
  BY <1>0, <1>1 DEF MappingInv, PortfolioTypeOK, Distinctly, Confirms, FolderIsFree
<1>2. ASSUME NEW r \in Refreshers,
             \/ AskUpdate(r) \/ (\E s \in Scopes : AskRefresh(r, s))
             \/ \E state \in QueryFailures \cup {"ok"}, rows \in SUBSET CrmIds : Refresh(r, state, rows)
      PROVE  MappingInv'
  BY <1>0, <1>1, <1>2 DEF PortfolioTypeOK, AskUpdate, AskRefresh, Refresh
<1>3. ASSUME NEW t \in Mappers, NEW id \in CrmIds, StartEstablish(t, id) PROVE MappingInv'
  <2>0. Home[id] \in Folders
    BY PortfolioAssumption
  <2> DEFINE new == [NoMapper EXCEPT !.pc = "check", !.id = id, !.folder = Home[id]]
  <2>1. /\ new.pc = "check" /\ new.id = id /\ new.folder = Home[id]
        /\ new \in [pc: {"idle", "check", "write"}, id: CrmIds \cup {None}, folder: Link,
                    read: [CrmIds -> Link] \cup {<<>>}]
    BY <2>0 DEF NoMapper, Link
  <2>2. mapper' = [mapper EXCEPT ![t] = new] /\ UNCHANGED <<mappings, linked>> /\ folders \subseteq folders'
        /\ Home[id] \in folders' /\ folders' \subseteq Folders
    BY <1>0, <2>0, <1>3 DEF StartEstablish, PortfolioTypeOK
  <2> HIDE DEF new
  <2>3. PortfolioTypeOK'
    BY <1>0, <2>1, <2>2 DEF PortfolioTypeOK
  <2> QED
    BY <1>0, <2>1, <2>2, <2>3 DEF MappingInv, PortfolioTypeOK, Distinctly, Confirms, FolderIsFree
<1>4. ASSUME NEW t \in Mappers, NEW id \in CrmIds, NEW f \in Folders, StartMapping(t, id, f) PROVE MappingInv'
  <2> DEFINE new == [NoMapper EXCEPT !.pc = "check", !.id = id, !.folder = f]
  <2>1. /\ new.pc = "check" /\ new.id = id /\ new.folder = f
        /\ new \in [pc: {"idle", "check", "write"}, id: CrmIds \cup {None}, folder: Link,
                    read: [CrmIds -> Link] \cup {<<>>}]
    BY DEF NoMapper, Link
  <2>2. mapper' = [mapper EXCEPT ![t] = new] /\ UNCHANGED <<mappings, linked>> /\ folders \subseteq folders'
        /\ f \in folders' /\ folders' \subseteq Folders
    BY <1>0, <1>4 DEF StartMapping, PortfolioTypeOK
  <2> HIDE DEF new
  <2>3. PortfolioTypeOK'
    BY <1>0, <2>1, <2>2 DEF PortfolioTypeOK
  <2> QED
    BY <1>0, <2>1, <2>2, <2>3 DEF MappingInv, PortfolioTypeOK, Distinctly, Confirms, FolderIsFree
<1>5. ASSUME NEW t \in Mappers, ReadMappings(t) PROVE MappingInv'
  <2>0. /\ mapper[t].pc = "check" /\ mapper[t].id \in CrmIds /\ mapper[t].folder \in folders
        /\ folders \subseteq Folders /\ mappings \in [CrmIds -> Link]
        /\ UNCHANGED <<mappings, folders, linked>>
    BY <1>0, <1>5 DEF ReadMappings, Confirms, PortfolioTypeOK
  <2> DEFINE new == [mapper[t] EXCEPT !.pc = "write", !.read = mappings]
  <2>1. /\ new.pc = "write" /\ new.id = mapper[t].id /\ new.folder = mapper[t].folder /\ new.read = mappings
        /\ new \in [pc: {"idle", "check", "write"}, id: CrmIds \cup {None}, folder: Link,
                    read: [CrmIds -> Link] \cup {<<>>}]
    BY <1>0, <2>0 DEF PortfolioTypeOK
  <2>2. \/ mapper' = [mapper EXCEPT ![t] = new] /\ FolderIsFree(mappings, mapper[t].id, mapper[t].folder)
        \/ mapper' = [mapper EXCEPT ![t] = NoMapper]
    BY <1>5 DEF ReadMappings
  <2> HIDE DEF new
  <2>3. PortfolioTypeOK'
    BY <1>0, <2>0, <2>1, <2>2 DEF PortfolioTypeOK, NoMapper, Link
  <2>4. Confirms(t)'
    BY <1>0, <2>0, <2>1, <2>2 DEF PortfolioTypeOK, NoMapper, Confirms, FolderIsFree
  <2> QED
    BY <1>0, <2>0, <2>3, <2>4 DEF MappingInv, Distinctly
<1>6. ASSUME NEW t \in Mappers, WriteMappings(t) PROVE MappingInv'
  <2>0. /\ mapper[t].id \in CrmIds /\ mapper[t].folder \in folders /\ folders \subseteq Folders
        /\ mappings \in [CrmIds -> Link] /\ FolderIsFree(mappings, mapper[t].id, mapper[t].folder)
        /\ mappings' = [mappings EXCEPT ![mapper[t].id] = mapper[t].folder]
        /\ mapper' = [mapper EXCEPT ![t] = NoMapper] /\ UNCHANGED <<folders, linked>>
    BY <1>0, <1>6 DEF WriteMappings, Confirms, PortfolioTypeOK
  <2>1. PortfolioTypeOK'
    BY <1>0, <2>0 DEF PortfolioTypeOK, NoMapper, Link
  <2>2. Distinctly(mappings)'
    BY <1>0, <2>0 DEF Distinctly, FolderIsFree
  <2>3. Confirms(t)'
    BY <1>0, <2>0 DEF PortfolioTypeOK, Confirms, NoMapper
  <2> QED
    BY <2>1, <2>2, <2>3 DEF MappingInv
<1>7. ASSUME NEW id \in CrmIds, NEW f \in Folders, Associate(id, f) PROVE MappingInv'
  BY <1>0, <1>1, <1>7 DEF PortfolioTypeOK, Associate
<1>8. ASSUME NEW state, NEW pages, RefreshCalendar(state, pages) PROVE MappingInv'
  BY <1>0, <1>1, <1>8 DEF PortfolioTypeOK, RefreshCalendar
<1>9. CASE UNCHANGED pvars
  BY <1>0, <1>1, <1>9 DEF PortfolioTypeOK, pvars
<1> QED
  BY <1>2, <1>3, <1>4, <1>5, <1>6, <1>7, <1>8, <1>9 DEF PortfolioNext

\* Who leaves the queue had a scope, and the others keep theirs.
LEMMA QueueMoves ==
  ASSUME QueueInv, queue # <<>>
  PROVE  /\ Head(queue) \in Refreshers /\ asks[Head(queue)] \in Scopes
         /\ queue' = Tail(queue) /\ asks' = [asks EXCEPT ![Head(queue)] = None] => QueueInv'
<1> USE DEF QueueInv
<1>1. Len(queue) \in Nat /\ Len(queue) >= 1 /\ Head(queue) = queue[1] /\ 1 \in DOMAIN queue
  OBVIOUS
<1>2. ASSUME queue' = Tail(queue), asks' = [asks EXCEPT ![Head(queue)] = None] PROVE QueueInv'
  <2>1. /\ queue' \in Seq(Refreshers) /\ DOMAIN queue' = 1 .. Len(queue) - 1
        /\ \A i \in DOMAIN queue' : i + 1 \in DOMAIN queue /\ queue'[i] = queue[i + 1]
    BY <1>1, <1>2
  <2>2. \A i \in DOMAIN queue' : queue'[i] # Head(queue) /\ queue'[i] \in Refreshers
    BY <1>1, <2>1
  <2> QED
    BY <1>1, <1>2, <2>1, <2>2
<1> QED
  BY <1>1, <1>2

\* A refresher joins the queue with a scope and leaves it when its refresh ends.
LEMMA QueueInductive ==
  ASSUME QueueInv, AnswerInv, [PortfolioNext]_pvars
  PROVE  QueueInv'
<1>1. ASSUME NEW r \in Refreshers, NEW s \in Scopes, asks[r] = None, asks' = [asks EXCEPT ![r] = s],
             queue' = Append(queue, r)
      PROVE  QueueInv'
  <2> USE DEF QueueInv
  <2>0. "none" \notin Scopes
    BY PortfolioAssumption
  <2>1. /\ queue' \in Seq(Refreshers) /\ Len(queue) \in Nat /\ DOMAIN queue = 1 .. Len(queue)
        /\ DOMAIN queue' = 1 .. Len(queue) + 1
        /\ \A i \in DOMAIN queue : queue'[i] = queue[i] /\ queue[i] \in Refreshers /\ queue[i] # r
        /\ queue'[Len(queue) + 1] = r
    BY <1>1, <2>0 DEF None
  <2> QED
    BY <1>1, <2>1
<1>2. ASSUME NEW r \in Refreshers, AskUpdate(r) PROVE QueueInv'
  BY <1>1, <1>2 DEF AskUpdate, AnswerInv
<1>3. ASSUME NEW r \in Refreshers, NEW s \in Scopes, AskRefresh(r, s) PROVE QueueInv'
  BY <1>1, <1>3 DEF AskRefresh
<1>4. ASSUME NEW r \in Refreshers, NEW state, NEW rows, Refresh(r, state, rows) PROVE QueueInv'
  BY <1>4, QueueMoves DEF Refresh
<1>5. ASSUME UNCHANGED <<queue, asks>> PROVE QueueInv'
  BY <1>5 DEF QueueInv
<1> QED
  BY <1>2, <1>3, <1>4, <1>5
     DEF PortfolioNext, pvars, StartEstablish, StartMapping, ReadMappings, WriteMappings, Associate, RefreshCalendar

\* An answer that has no more rows than the limit has all of them.
LEMMA AnswerInductive ==
  ASSUME QueueInv, AnswerInv, [PortfolioNext]_pvars
  PROVE  AnswerInv'
<1>1. ASSUME NEW r \in Refreshers, NEW state \in QueryFailures \cup {"ok"}, NEW rows \in SUBSET CrmIds,
             Refresh(r, state, rows)
      PROVE  AnswerInv'
  <2>1. asks[r] \in Scopes
    BY <1>1, QueueMoves DEF Refresh
  <2>2. InScope[asks[r]] \subseteq CrmIds /\ IsFiniteSet(InScope[asks[r]]) /\ RowLimit \in Nat
    BY <2>1, PortfolioAssumption, FS_Subset
  <2>3. CASE state = "ok"
    <3>1. /\ crm' = [success |-> [scope |-> asks[r], rows |-> rows, complete |-> ~Truncated(InScope[asks[r]])],
                     attempt |-> [scope |-> asks[r], state |-> "ok"]]
          /\ rows \in PortfolioRows(InScope[asks[r]])
      BY <1>1, <2>3 DEF Refresh, Refreshed
    <3>2. ~Truncated(InScope[asks[r]]) => rows = InScope[asks[r]]
      BY <3>1, <2>2, FS_Subset DEF Truncated, PortfolioRows
    <3> QED
      BY <2>1, <3>1, <3>2 DEF AnswerInv
  <2>4. CASE state # "ok"
    BY <1>1, <2>4 DEF Refresh, Refreshed, AnswerInv, QueryFailures
  <2> QED
    BY <2>3, <2>4
<1>2. ASSUME UNCHANGED crm PROVE AnswerInv'
  BY <1>2 DEF AnswerInv
<1> QED
  BY <1>1, <1>2
     DEF PortfolioNext, pvars, AskUpdate, AskRefresh, StartEstablish, StartMapping, ReadMappings, WriteMappings,
         Associate, RefreshCalendar

\* The invariant says what the rows must be.
LEMMA OwnRows ==
  ASSUME PortfolioInv
  PROVE  RowsAreOwn
<1>0. /\ mappings \in [CrmIds -> Link] /\ folders \subseteq Folders /\ Distinctly(mappings)
      /\ "none" \notin Folders /\ crm.success.rows \subseteq CrmIds
  BY PortfolioAssumption DEF PortfolioInv, MappingInv, PortfolioTypeOK, AnswerInv
<1>1. OneIdPerFolder
  BY <1>0, AtMostOne DEF OneIdPerFolder, Distinctly
<1>2. \A f \in Folders : Cardinality(Joined(f)) <= 1
  BY <1>0, AtMostOne DEF Joined
<1>3. ASSUME \A id \in CrmIds : linked[id] = {}, NEW f \in folders PROVE Joined(f) = LocalIdentity(f)
  <2>1. \A id \in CrmIds : LinkOf(id) = IF mappings[id] \in folders THEN mappings[id] ELSE None
    BY <1>3, FS_EmptySet DEF LinkOf
  <2>2. \A id \in CrmIds : LinkOf(id) = f <=> mappings[id] = f
    BY <1>0, <2>1 DEF None
  <2> QED
    BY <1>0, <2>2 DEF Joined, LocalIdentity, Distinctly
<1>4. Coverage = "refreshed" => crm.success.rows = InScope[crm.attempt.scope]
  BY DEF PortfolioInv, AnswerInv, Coverage, QueryFailures
<1> QED
  BY <1>1, <1>2, <1>3, <1>4 DEF RowsAreOwn, RowsAreJoined

\* A local opportunity is one opportunity of Salesforce, in the mappings and in the
\* rows, over refreshes of any scopes that fail, are truncated and wait for one
\* another, while mappings are confirmed one after the other.
THEOREM OwnRowsAlways ==
  ASSUME \E t : Mappers = {t}
  PROVE  PortfolioSpec => []RowsAreOwn
<1>1. PortfolioInit => PortfolioInv
  <2> SUFFICES ASSUME PortfolioInit PROVE PortfolioInv
    OBVIOUS
  <2>1. "none" \notin Folders
    BY PortfolioAssumption
  <2>2. MappingInv
    BY <2>1 DEF PortfolioInit, MappingInv, PortfolioTypeOK, Distinctly, Confirms, NoMapper, Link, None
  <2>3. QueueInv /\ AnswerInv
    BY DEF PortfolioInit, QueueInv, AnswerInv, NoFile, NoSuccess
  <2> QED
    BY <2>2, <2>3 DEF PortfolioInv
<1>2. PortfolioInv /\ [PortfolioNext]_pvars => PortfolioInv'
  BY MappingInductive, QueueInductive, AnswerInductive DEF PortfolioInv, AnswerInv
<1>3. PortfolioInv => RowsAreOwn
  BY OwnRows
<1> QED
  BY <1>1, <1>2, <1>3, PTL DEF PortfolioSpec

\* A refresh that fails takes nothing away: rows and calls are replaced only by those
\* of an answer that is complete, and the page then says so.
THEOREM LastGood == PortfolioSpec => LastGoodStays
<1>1. ASSUME [PortfolioNext]_pvars
      PROVE  /\ crm'.success # crm.success => crm'.attempt = [scope |-> crm'.success.scope, state |-> "ok"]
             /\ calendar'.events # calendar.events => CalendarState(calendar') = "ok"
  <2>1. ASSUME NEW r \in Refreshers, NEW state, NEW rows, Refresh(r, state, rows)
        PROVE  UNCHANGED calendar /\ (crm'.success # crm.success => crm'.attempt = [scope |-> crm'.success.scope, state |-> "ok"])
    BY <2>1 DEF Refresh, Refreshed
  <2>2. ASSUME NEW state, NEW pages, RefreshCalendar(state, pages)
        PROVE  UNCHANGED crm /\ (calendar'.events # calendar.events => CalendarState(calendar') = "ok")
    BY <2>2 DEF RefreshCalendar, CalendarRefreshed, CalendarState
  <2> QED
    BY <1>1, <2>1, <2>2
       DEF PortfolioNext, pvars, AskUpdate, AskRefresh, StartEstablish, StartMapping, ReadMappings, WriteMappings,
           Associate
<1>2. [PortfolioNext]_pvars =>
        [/\ crm'.success # crm.success => crm'.attempt = [scope |-> crm'.success.scope, state |-> "ok"]
         /\ calendar'.events # calendar.events => CalendarState(calendar') = "ok"]_pvars
  BY <1>1
<1> QED
  BY <1>2, PTL DEF PortfolioSpec, LastGoodStays

-----------------------------------------------------------------------------
(* Skill runs.                                                              *)

RunFields == {"by", "kind", "sig", "skill", "waived", "status", "child", "task", "since", "produced"}
IsRun(r) == r = [f \in RunFields |-> r[f]]

\* The registry is a sequence of runs, each with a client.
Registry == (\E S : runs \in Seq(S)) /\ \A j \in DOMAIN runs : IsRun(runs[j]) /\ runs[j].by \in RunCallers

\* The rows of a request and of a question are records, one of each client.
IsCall(r) == r = [f \in {"pc", "skill", "text", "waived", "job"} |-> r[f]]
IsAsk(r) == r = [f \in {"pc", "job", "answered"} |-> r[f]]

ClientRows ==
  /\ caller = [c \in RunCallers |-> caller[c]] /\ \A c \in RunCallers : IsCall(caller[c])
  /\ asking = [c \in Askers |-> asking[c]] /\ \A c \in Askers : IsAsk(asking[c])
  /\ shown = [c \in RunCallers |-> shown[c]]

\* What a request on its way has waived was shown to its client.
CallsWereShown ==
  \A c \in RunCallers : caller[c].pc = "refresh" => caller[c].waived = {} \/ caller[c].waived \in shown[c]

RunsInv == Registry /\ ClientRows /\ CallsWereShown /\ RunsAsAsked

\* A job that was there keeps its client, its signature and its waivers, and does not
\* run again.
Stays(old, new) ==
  /\ IsRun(new) /\ new.by = old.by /\ new.kind = old.kind /\ new.sig = old.sig /\ new.waived = old.waived
  /\ new.status = "running" => old.status = "running"

JobsStay == DOMAIN runs' = DOMAIN runs /\ (\E S : runs' \in Seq(S)) /\ \A j \in DOMAIN runs : Stays(runs[j], runs'[j])

Grown(r) ==
  /\ \E S : runs' \in Seq(S)
  /\ Len(runs) \in Nat /\ DOMAIN runs = 1 .. Len(runs) /\ DOMAIN runs' = 1 .. Len(runs) + 1
  /\ \A j \in DOMAIN runs : runs'[j] = runs[j]
  /\ runs'[Len(runs) + 1] = r

\* The registry after one of its jobs has changed.
LEMMA RowReplaced ==
  ASSUME Registry, NEW j \in DOMAIN runs, NEW r, Stays(runs[j], r), runs' = [runs EXCEPT ![j] = r]
  PROVE  JobsStay
<1>1. PICK S : runs \in Seq(S)
  BY DEF Registry
<1>2. /\ runs' \in Seq(S \cup {r}) /\ DOMAIN runs' = DOMAIN runs /\ runs'[j] = r
      /\ \A i \in DOMAIN runs : i # j => runs'[i] = runs[i]
  BY <1>1, Replaced
<1>3. \A i \in DOMAIN runs : Stays(runs[i], runs[i])
  BY DEF Registry, Stays
<1> QED
  BY <1>2, <1>3 DEF JobsStay

\* _register_job: the registry with one job more.
LEMMA RowAppended ==
  ASSUME Registry, NEW r, runs' = Append(runs, r)
  PROVE  Grown(r)
<1>1. PICK S : runs \in Seq(S)
  BY DEF Registry
<1>2. /\ runs' \in Seq(S \cup {r})
      /\ Len(runs) \in Nat /\ DOMAIN runs = 1 .. Len(runs) /\ DOMAIN runs' = 1 .. Len(runs) + 1
      /\ \A j \in DOMAIN runs : runs'[j] = runs[j]
      /\ runs'[Len(runs) + 1] = r
  BY <1>1, Appended
<1> QED
  BY <1>2 DEF Grown

\* The registry after a step in which no job was launched, and after a launch.
LEMMA KeptRegistry ==
  ASSUME Registry, OneRunPerSignature, WaivedWasShown, JobsStay, \A c \in RunCallers : shown[c] \subseteq shown'[c]
  PROVE  Registry' /\ OneRunPerSignature' /\ WaivedWasShown'
  BY DEF Registry, OneRunPerSignature, WaivedWasShown, JobsStay, Stays

\* A launch keeps one run per signature when no run of that signature is under way.
LEMMA GrownRegistry ==
  ASSUME Registry, OneRunPerSignature, WaivedWasShown, NEW r, Grown(r), UNCHANGED shown,
         IsRun(r), r.by \in RunCallers, r.waived = {} \/ r.waived \in shown[r.by],
         r.kind = "skill" => \A j \in DOMAIN runs : runs[j].status = "running" => runs[j].sig # r.sig
  PROVE  Registry' /\ OneRunPerSignature' /\ WaivedWasShown'
<1>1. /\ DOMAIN runs' = 1 .. Len(runs) + 1 /\ DOMAIN runs = 1 .. Len(runs) /\ Len(runs) \in Nat
      /\ \A j \in DOMAIN runs' : j \in DOMAIN runs \/ j = Len(runs) + 1
      /\ \A j \in DOMAIN runs : runs'[j] = runs[j]
      /\ runs'[Len(runs) + 1] = r
  BY DEF Grown
<1>2. Registry'
  BY <1>1 DEF Registry, Grown
<1>3. WaivedWasShown'
  BY <1>1 DEF WaivedWasShown
<1>4. OneRunPerSignature'
  BY <1>1 DEF OneRunPerSignature
<1> QED
  BY <1>2, <1>3, <1>4

\* find_reused_job misses no job that runs.
LEMMA NotReused ==
  ASSUME Registry, NEW sig, Reused(sig) = 0
  PROVE  \A j \in DOMAIN runs : runs[j].status = "running" => runs[j].sig # sig
<1> DEFINE same == {j \in DOMAIN runs : runs[j].sig = sig /\ runs[j].status = "running"}
<1>1. same \in SUBSET Nat /\ 0 \notin same
  BY DEF Registry
<1>2. CASE same # {}
  <2>1. \E j \in same : \A k \in same : j <= k
    BY <1>1, <1>2, Least
  <2>2. (CHOOSE j \in same : \A k \in same : j <= k) \in same
    BY <2>1
  <2> QED
    BY <1>1, <1>2, <2>2 DEF Reused
<1> QED
  BY <1>2

\* What is waived without being shown again was shown.
LEMMA WaivesShown ==
  ASSUME NEW skill, NEW shownToIt, NEW acknowledged \in SUBSET shownToIt, Pending(skill, acknowledged) = {}
  PROVE  UNION Choices(skill) = {} \/ UNION Choices(skill) \in shownToIt
  BY DEF Pending, Choices

\* Every step keeps the invariant.
LEMMA RunsInductive == RunsInv /\ [RunsNext]_rvars => RunsInv'
<1> SUFFICES ASSUME RunsInv, [RunsNext]_rvars PROVE RunsInv'
  OBVIOUS
<1>0. Registry /\ ClientRows /\ CallsWereShown /\ OneRunPerSignature /\ WaivedWasShown /\ NoEmptyAnswer
  BY DEF RunsInv, RunsAsAsked
<1> DEFINE Goal == RunsInv'
<1> HIDE DEF Goal
<1>1. ASSUME Registry', OneRunPerSignature', WaivedWasShown', UNCHANGED <<caller, shown, asking>> PROVE Goal
  BY <1>0, <1>1 DEF Goal, RunsInv, RunsAsAsked, ClientRows, CallsWereShown, NoEmptyAnswer
<1>2. ASSUME UNCHANGED runs, \A c \in RunCallers : shown[c] \subseteq shown'[c], ClientRows', CallsWereShown', NoEmptyAnswer'
      PROVE  Goal
  <2>1. JobsStay
    BY <1>0, <1>2 DEF JobsStay, Stays, Registry
  <2> QED
    BY <1>0, <1>2, <2>1, KeptRegistry DEF Goal, RunsInv, RunsAsAsked
<1>3. ASSUME NEW c \in RunCallers, NEW skill, NEW acknowledged, NEW approved,
             InvokeBlocked(c, skill, acknowledged, approved)
      PROVE  Goal
  BY <1>0, <1>2, <1>3 DEF InvokeBlocked, ClientRows, CallsWereShown, NoEmptyAnswer
<1>4. ASSUME NEW c \in RunCallers, NEW skill, NEW acknowledged \in SUBSET shown[c], NEW text,
             InvokeAccepted(c, skill, text, acknowledged)
      PROVE  Goal
  <2> DEFINE new == [pc |-> "refresh", skill |-> skill, text |-> text, waived |-> UNION Choices(skill), job |-> 0]
  <2>1. caller' = [caller EXCEPT ![c] = new] /\ UNCHANGED <<runs, shown, asking>>
    BY <1>4 DEF InvokeAccepted
  <2>2. IsCall(new) /\ new.waived = UNION Choices(skill) /\ (new.waived = {} \/ new.waived \in shown[c])
    BY <1>4, WaivesShown DEF InvokeAccepted, IsCall
  <2> HIDE DEF new
  <2>3. ClientRows' /\ CallsWereShown' /\ NoEmptyAnswer'
    BY <1>0, <2>1, <2>2 DEF ClientRows, CallsWereShown, NoEmptyAnswer
  <2> QED
    BY <1>2, <2>1, <2>3
<1>5. ASSUME NEW c \in RunCallers, Launch(c) PROVE Goal
  <2> DEFINE sig == Signature(caller[c].skill, caller[c].text, caller[c].waived)
             r == NewRun(c, "skill", sig, caller[c].skill, caller[c].waived)
  <2>1. caller[c].pc = "refresh" /\ UNCHANGED <<shown, asking>>
    BY <1>5 DEF Launch
  <2>2. CASE Reused(sig) # 0
    <3>1. caller' = [caller EXCEPT ![c] = NoCall] /\ UNCHANGED runs
      BY <1>5, <2>2 DEF Launch, Call
    <3>2. ClientRows' /\ CallsWereShown' /\ NoEmptyAnswer'
      BY <1>0, <2>1, <3>1 DEF ClientRows, CallsWereShown, NoEmptyAnswer, NoCall, IsCall
    <3> QED
      BY <1>2, <2>1, <3>1, <3>2
  <2>3. CASE Reused(sig) = 0
    <3>1. runs' = Append(runs, r) /\ caller' = [caller EXCEPT ![c].pc = "saving", ![c].job = Len(runs) + 1]
      BY <1>5, <2>3 DEF Launch
    <3>2. /\ IsRun(r) /\ r.by = c /\ r.waived = caller[c].waived /\ r.sig = sig
      BY DEF NewRun, IsRun, RunFields
    <3>3. \A j \in DOMAIN runs : runs[j].status = "running" => runs[j].sig # r.sig
      BY <1>0, <2>3, <3>2, NotReused
    <3>4. r.waived = {} \/ r.waived \in shown[r.by]
      BY <1>0, <2>1, <3>2 DEF CallsWereShown
    <3> HIDE DEF r, sig
    <3>5. Registry' /\ OneRunPerSignature' /\ WaivedWasShown'
      BY <1>0, <2>1, <3>1, <3>2, <3>3, <3>4, RowAppended, GrownRegistry
    <3>6. /\ caller' = [d \in RunCallers |-> caller'[d]] /\ \A d \in RunCallers : IsCall(caller'[d])
          /\ caller'[c].pc = "saving" /\ \A d \in RunCallers : d # c => caller'[d] = caller[d]
      BY <1>0, <3>1 DEF ClientRows, IsCall
    <3>7. ClientRows' /\ CallsWereShown' /\ NoEmptyAnswer'
      BY <1>0, <2>1, <3>6 DEF ClientRows, CallsWereShown, NoEmptyAnswer
    <3> QED
      BY <3>5, <3>7 DEF Goal, RunsInv, RunsAsAsked
  <2> QED
    BY <2>2, <2>3
<1>6. ASSUME NEW c \in RunCallers, Launched(c) PROVE Goal
  <2> DEFINE j == caller[c].job
             r == [runs[j] EXCEPT !.task = TRUE]
  <2>1. /\ runs' = [runs EXCEPT ![j] = r] /\ caller' = [caller EXCEPT ![c] = NoCall]
        /\ UNCHANGED <<shown, asking>>
    BY <1>6 DEF Launched, Call
  <2>2. j \in DOMAIN runs => Stays(runs[j], r)
    BY <1>0 DEF Registry, IsRun, RunFields, Stays
  <2> HIDE DEF r, j
  <2>3. JobsStay
    <3>1. CASE j \in DOMAIN runs
      BY <1>0, <2>1, <2>2, <3>1, RowReplaced
    <3>2. CASE j \notin DOMAIN runs
      <4>1. runs' = runs
        BY <1>0, <2>1, <3>2 DEF Registry
      <4> QED
        BY <1>0, <4>1 DEF JobsStay, Stays, Registry
    <3> QED
      BY <3>1, <3>2
  <2>4. Registry' /\ OneRunPerSignature' /\ WaivedWasShown'
    BY <1>0, <2>1, <2>3, KeptRegistry
  <2>5. ClientRows' /\ CallsWereShown' /\ NoEmptyAnswer'
    BY <1>0, <2>1 DEF ClientRows, CallsWereShown, NoEmptyAnswer, NoCall, IsCall
  <2> QED
    BY <2>4, <2>5 DEF Goal, RunsInv, RunsAsAsked
<1>7. ASSUME NEW j, NEW status \in {"done", "error"}, NEW produced, Running(j), Ends(j, status, produced) PROVE Goal
  <2> DEFINE r == LET ended == runs[j].child = "on" /\ status = "done"
                  IN [runs[j] EXCEPT !.status = status, !.produced = produced, !.child = IF ended THEN "ended" ELSE @]
  <2>1. runs' = [runs EXCEPT ![j] = r] /\ j \in DOMAIN runs /\ UNCHANGED <<caller, shown, asking>>
    BY <1>7 DEF Ends, Running
  <2>2. Stays(runs[j], r)
    BY <1>0, <2>1 DEF Registry, IsRun, RunFields, Stays
  <2> HIDE DEF r
  <2> QED
    BY <1>0, <1>1, <2>1, <2>2, RowReplaced, KeptRegistry
<1>8. ASSUME NEW j, StartChild(j) PROVE Goal
  <2> DEFINE r == [runs[j] EXCEPT !.child = "on"]
  <2>1. runs' = [runs EXCEPT ![j] = r] /\ j \in DOMAIN runs /\ UNCHANGED <<caller, shown, asking>>
    BY <1>8 DEF StartChild, Running
  <2>2. Stays(runs[j], r)
    BY <1>0, <2>1 DEF Registry, IsRun, RunFields, Stays
  <2> HIDE DEF r
  <2> QED
    BY <1>0, <1>1, <2>1, <2>2, RowReplaced, KeptRegistry
<1>9. ASSUME NEW j, NoChild(j) \/ ChildEnds(j) \/ RunTimesOut(j) PROVE Goal
  BY <1>7, <1>9 DEF NoChild, ChildEnds, RunTimesOut
<1>10. ASSUME UNCHANGED <<runs, caller, shown, asking>> PROVE Goal
  BY <1>0, <1>2, <1>10 DEF ClientRows, CallsWereShown, NoEmptyAnswer
<1>a. ASSUME NEW c \in Askers, NEW text,
             runs' = Append(runs, [NewRun(c, "ask", [skill |-> "ask", text |-> text, waived |-> {}], "ask", {})
                                   EXCEPT !.task = TRUE]),
             UNCHANGED <<caller, shown>>
      PROVE  Registry' /\ OneRunPerSignature' /\ WaivedWasShown' /\ Len(runs) + 1 # 0
  <2> DEFINE r == [NewRun(c, "ask", [skill |-> "ask", text |-> text, waived |-> {}], "ask", {}) EXCEPT !.task = TRUE]
  <2>1. IsRun(r) /\ r.by = c /\ r.waived = {} /\ r.kind = "ask" /\ c \in RunCallers
    BY RunsAssumption DEF NewRun, IsRun, RunFields
  <2> HIDE DEF r
  <2>2. Grown(r)
    BY <1>0, <1>a, RowAppended DEF r
  <2>3. Registry' /\ OneRunPerSignature' /\ WaivedWasShown'
    BY <1>0, <1>a, <2>1, <2>2, GrownRegistry
  <2>4. Len(runs) + 1 # 0
    BY <2>2 DEF Grown
  <2> QED
    BY <2>3, <2>4
<1>b. ASSUME NEW c \in Askers, NEW row, IsAsk(row), row.pc = "done" => row.answered \/ row.job # 0,
             asking' = [asking EXCEPT ![c] = row], UNCHANGED <<caller, shown>>
      PROVE  ClientRows' /\ CallsWereShown' /\ NoEmptyAnswer'
  BY <1>0, <1>b DEF ClientRows, CallsWereShown, NoEmptyAnswer
<1>11. ASSUME NEW c \in Askers, AskDeep(c) PROVE Goal
  <2> DEFINE row == [pc |-> "done", job |-> Len(runs) + 1, answered |-> FALSE]
  <2>1. Registry' /\ OneRunPerSignature' /\ WaivedWasShown' /\ Len(runs) + 1 # 0
    BY <1>11, <1>a DEF AskDeep
  <2>2. IsAsk(row) /\ row.job # 0
    BY <2>1 DEF IsAsk
  <2>3. asking' = [asking EXCEPT ![c] = row] /\ UNCHANGED <<caller, shown>>
    BY <1>11 DEF AskDeep
  <2> HIDE DEF row
  <2> QED
    BY <1>b, <2>1, <2>2, <2>3 DEF Goal, RunsInv, RunsAsAsked
<1>12. ASSUME NEW c \in Askers, AskQuick(c) PROVE Goal
  <2> DEFINE row == [asking[c] EXCEPT !.pc = "stream"]
  <2>1. asking' = [asking EXCEPT ![c] = row] /\ UNCHANGED <<runs, caller, shown>>
    BY <1>12 DEF AskQuick
  <2>2. IsAsk(row) /\ row.pc = "stream"
    BY <1>0 DEF ClientRows, IsAsk
  <2> HIDE DEF row
  <2> QED
    BY <1>b, <1>2, <2>1, <2>2
<1>13. ASSUME NEW c \in Askers, AskAgain(c) PROVE Goal
  <2>1. asking' = [asking EXCEPT ![c] = NoAsk] /\ UNCHANGED <<runs, caller, shown>>
    BY <1>13 DEF AskAgain
  <2>2. IsAsk(NoAsk) /\ NoAsk.pc = "idle"
    BY DEF NoAsk, IsAsk
  <2> QED
    BY <1>b, <1>2, <2>1, <2>2
<1>14. ASSUME NEW c \in Askers, NEW answer \in {"answer", "needs deep", "empty", "error"}, NEW launches \in BOOLEAN,
              QuickEnds(c, answer, launches)
       PROVE  Goal
  <2> DEFINE deep == Escalates(answer) /\ launches /\ Len(runs) < MaxRuns
             row == [pc |-> IF answer = "error" \/ (Escalates(answer) /\ ~launches) THEN "failed" ELSE "done",
                     job |-> IF deep THEN Len(runs) + 1 ELSE 0,
                     answered |-> answer \in {"answer", "needs deep"}]
  <2>1. asking' = [asking EXCEPT ![c] = row] /\ UNCHANGED <<caller, shown>>
    BY <1>14 DEF QuickEnds
  <2>2. IsAsk(row)
    BY DEF IsAsk
  <2>3. CASE deep
    <3>1. Registry' /\ OneRunPerSignature' /\ WaivedWasShown' /\ Len(runs) + 1 # 0
      BY <1>14, <1>a, <2>3 DEF QuickEnds
    <3>2. row.job # 0
      BY <2>3, <3>1
    <3> HIDE DEF row
    <3> QED
      BY <1>b, <2>1, <2>2, <3>1, <3>2 DEF Goal, RunsInv, RunsAsAsked
  <2>4. CASE ~ deep
    <3>1. UNCHANGED runs /\ (row.pc = "done" => row.answered)
      BY <1>14, <2>4 DEF QuickEnds, Escalates
    <3> HIDE DEF row, deep
    <3> QED
      BY <1>b, <1>2, <2>1, <2>2, <3>1
  <2> QED
    BY <2>3, <2>4
<1>15. Goal
  BY <1>3, <1>4, <1>5, <1>6, <1>8, <1>9, <1>10, <1>11, <1>12, <1>13, <1>14
     DEF RunsNext, InvokeNext, AskNext, JobNext, rvars, Edited, ChildWrites
<1> QED
  BY <1>15 DEF Goal

\* Skill runs are launched as they were asked for: never two at once with one
\* signature, although requests interleave at their awaits; with no waiver that the
\* client was not shown; and no question about a document ends without an answer or a
\* job that looks for one.
THEOREM RunsWereAsked == RunsSpec => []RunsAsAsked
<1>1. RunsInit => RunsInv
  <2> SUFFICES ASSUME RunsInit PROVE RunsInv
    OBVIOUS
  <2>1. runs = <<>> /\ runs \in Seq({}) /\ DOMAIN runs = {}
    BY DEF RunsInit
  <2>2. Registry /\ OneRunPerSignature /\ WaivedWasShown
    BY <2>1 DEF Registry, OneRunPerSignature, WaivedWasShown
  <2>3. ClientRows /\ CallsWereShown /\ NoEmptyAnswer
    BY DEF RunsInit, ClientRows, CallsWereShown, NoEmptyAnswer, NoCall, NoAsk, IsCall, IsAsk
  <2> QED
    BY <2>2, <2>3 DEF RunsInv, RunsAsAsked
<1>2. RunsInv => RunsAsAsked
  BY DEF RunsInv
<1> QED
  BY <1>1, <1>2, RunsInductive, PTL DEF RunsSpec

-----------------------------------------------------------------------------
(* The record of one source.                                                *)

SourceFields == {"rev", "avail", "assoc", "prior", "seq", "status", "done", "retry"}

\* A revision for every availability.
Source(r) ==
  /\ r = [f \in SourceFields |-> r[f]]
  /\ r.rev \in Nat /\ (\E S : r.avail \in Seq(S)) /\ Len(r.avail) = r.rev

\* The same revisions.
SameText(old, new) == Source(new) /\ new.rev = old.rev /\ new.avail = old.avail

\* A meeting or a mail that was never imported.
LEMMA NewSource == Source(NoSource) /\ NoSource.rev = 0
  BY DEF NoSource, Source, SourceFields

\* _derive_processing looks at a source and changes its status only.
LEMMA Deriving ==
  ASSUME NEW r, Source(r)
  PROVE  SameText(r, Derive(r)) /\ Derive(r).assoc = r.assoc
  BY DEF Derive, Source, SameText, SourceFields

\* _record_meeting adds one revision with the availability it was given.
LEMMA Importing ==
  ASSUME NEW r, Source(r), NEW a
  PROVE  /\ Source(Imported(r, a)) /\ Imported(r, a).rev = r.rev + 1 /\ Latest(Imported(r, a)) = a
         /\ Imported(r, a).assoc = IF r.rev = 0 THEN Unassociated ELSE r.assoc
<1>1. CASE r.rev = 0
  <2> DEFINE new == [NoSource EXCEPT !.rev = 1, !.avail = <<a>>, !.seq = 1, !.status = "discovered"]
  <2>1. <<a>> \in Seq({a}) /\ Len(<<a>>) = 1 /\ <<a>>[1] = a
    OBVIOUS
  <2>2. new.rev = 1 /\ new.avail = <<a>> /\ new.assoc = Unassociated /\ new = [f \in SourceFields |-> new[f]]
    BY DEF NoSource, SourceFields
  <2>3. Imported(r, a) = Derive(new)
    BY <1>1 DEF Imported, FirstRevision
  <2> HIDE DEF new
  <2>4. Source(new)
    <3>1. \E S : new.avail \in Seq(S)
      BY <2>1, <2>2
    <3> QED
      BY <2>1, <2>2, <3>1 DEF Source
  <2> QED
    BY <1>1, <2>1, <2>2, <2>3, <2>4, Deriving DEF SameText, Latest
<1>2. CASE r.rev # 0
  <2> DEFINE new == [r EXCEPT !.rev    = @ + 1,
                              !.avail  = Append(@, a),
                              !.status = IF @ = "processing" THEN @ ELSE "discovered",
                              !.retry  = r.status = "processing" /\ @]
  <2>1. PICK S : r.avail \in Seq(S)
    BY DEF Source
  <2>2. /\ Append(r.avail, a) \in Seq(S \cup {a}) /\ Len(Append(r.avail, a)) = r.rev + 1
        /\ Append(r.avail, a)[r.rev + 1] = a
    BY <2>1, Appended DEF Source
  <2>3. new.rev = r.rev + 1 /\ new.avail = Append(r.avail, a) /\ new.assoc = r.assoc /\ new = [f \in SourceFields |-> new[f]]
    BY DEF Source, SourceFields
  <2>4. Imported(r, a) = Derive(new)
    BY <1>2 DEF Imported
  <2> HIDE DEF new
  <2>5. Source(new)
    BY <2>2, <2>3 DEF Source
  <2> QED
    BY <1>2, <2>2, <2>3, <2>4, <2>5, Deriving DEF SameText, Latest
<1> QED
  BY <1>1, <1>2

\* A decision about the association adds no revision.
LEMMA Deciding ==
  ASSUME NEW r, Source(r), NEW o
  PROVE  SameText(r, Decided(r, o)) /\ SameText(r, ProposedFor(r)) /\ SameText(r, Confirmed(r, o)) /\ SameText(r, Cleared(r))
<1>1. ASSUME NEW a PROVE SameText(r, Decided(r, a))
  <2> DEFINE new == [r EXCEPT !.prior = r.assoc, !.assoc = a, !.seq = @ + 1]
  <2>1. SameText(r, new)
    BY DEF Source, SourceFields, SameText
  <2>2. Decided(r, a) = Derive(new)
    BY DEF Decided
  <2> HIDE DEF new
  <2> QED
    BY <2>1, <2>2, Deriving DEF SameText
<1>2. ASSUME NEW q, SameText(r, q) PROVE SameText(r, Derive(Reset(q)))
  <2>1. SameText(r, Reset(q))
    BY <1>2 DEF Reset, Source, SourceFields, SameText
  <2> QED
    BY <2>1, Deriving DEF SameText
<1>3. SameText(r, r)
  BY DEF SameText
<1> QED
  BY <1>1, <1>2, <1>3 DEF ProposedFor, Confirmed, Cleared

-----------------------------------------------------------------------------
(* Mail.                                                                    *)

RetrievalFields == {"phase", "ids", "box", "got", "code", "outcome", "late"}

MailShapes ==
  /\ sources = [m \in Messages |-> sources[m]] /\ \A m \in Messages : Source(sources[m])
  /\ receipts \in [Messages -> {"none", "pending", "complete"}]
  /\ marker = [f \in {"box", "ok"} |-> marker[f]]
  /\ job = [f \in RetrievalFields |-> job[f]] /\ job.late \in BOOLEAN

\* A mailbox that was given up has no check that stands, and a retrieval that began
\* since selects no mail of it.
GivenUp ==
  /\ marker.ok => marker.box \notin revoked
  /\ ~ job.late => \A m \in job.ids : Box[m] \notin revoked

MailInv == MailShapes /\ GivenUp /\ ForgottenStaysGone

\* What a step of the mail intake may do to the records.
MayRecord ==
  \A m \in Messages :
    \/ sources'[m] = sources[m]
    \/ receipts[m] = "none" /\ SameText(sources[m], sources'[m])
    \/ receipts[m] = "pending" /\ sources'[m] = NoSource
    \/ receipts[m] = "none" /\ Source(sources'[m]) /\ Latest(sources'[m]) # "content"
    \/ receipts[m] = "none" /\ Source(sources'[m]) /\ m \in job.ids

MailStep ==
  /\ MailInv' /\ MayRecord

\* Every step of the mail intake keeps the invariant and writes only what it may.
LEMMA MailInductive == MailInv /\ [MailNext]_mvars => MailStep
<1> SUFFICES ASSUME MailInv, [MailNext]_mvars PROVE MailStep
  OBVIOUS
<1>0. MailShapes /\ GivenUp /\ ForgottenStaysGone
  BY DEF MailInv
<1> DEFINE Goal == MailStep
<1> HIDE DEF Goal
<1>1. ASSUME UNCHANGED ledgerVars, MailShapes', GivenUp' PROVE Goal
  BY <1>0, <1>1 DEF Goal, MailStep, MailInv, ledgerVars, ForgottenStaysGone, MayRecord
<1>c. ASSUME ClearCheck \/ UNCHANGED marker
      PROVE  marker'.box = marker.box /\ (marker'.ok => marker.ok) /\ marker' = [f \in {"box", "ok"} |-> marker'[f]]
  BY <1>0, <1>c DEF MailShapes, ClearCheck
<1>2. ASSUME UNCHANGED <<ledgerVars, revoked>>, ClearCheck \/ UNCHANGED marker,
             job' = [f \in RetrievalFields |-> job'[f]], job'.late = job.late, job'.ids = job.ids
      PROVE  Goal
  <2>1. MailShapes'
    BY <1>0, <1>2, <1>c DEF MailShapes, ledgerVars
  <2>2. GivenUp'
    BY <1>0, <1>2, <1>c DEF GivenUp
  <2> QED
    BY <1>1, <1>2, <2>1, <2>2
<1>3. ASSUME NEW c \in Clients, Probe(c) PROVE Goal
  BY <1>0, <1>2, <1>3 DEF Probe, ProbeScopes, ProbeProfile, ProbeRevoked, ProbeFails, MailShapes
<1>4. ASSUME StartCheck PROVE Goal
  BY <1>0, <1>2, <1>4 DEF StartCheck, MailShapes
<1>5. ASSUME EndCheck PROVE Goal
  <2>1. UNCHANGED <<ledgerVars, job>>
    BY <1>5 DEF EndCheck
  <2>2. CASE UNCHANGED revoked /\ (ClearCheck \/ UNCHANGED marker)
    BY <1>0, <1>2, <2>1, <2>2 DEF MailShapes
  <2>3. ASSUME NEW b, RecordCheck(b), revoked' = revoked \ {b} PROVE Goal
    <3>1. marker'.box = b /\ marker' = [f \in {"box", "ok"} |-> marker'[f]]
      BY <2>3 DEF RecordCheck
    <3>2. MailShapes'
      BY <1>0, <2>1, <3>1 DEF MailShapes, ledgerVars
    <3>3. GivenUp'
      BY <1>0, <2>1, <2>3, <3>1 DEF GivenUp
    <3> QED
      BY <1>1, <2>1, <3>2, <3>3
  <2> QED
    BY <1>5, <2>2, <2>3 DEF EndCheck
<1>6. ASSUME NEW ids, NEW terms, StartRetrieval(ids, terms) PROVE Goal
  <2> DEFINE new == [NoRun EXCEPT !.phase = "before", !.ids = ids, !.box = marker.box]
  <2>1. job' = new /\ UNCHANGED <<ledgerVars, marker, revoked>> /\ marker.ok
    BY <1>6 DEF StartRetrieval
  <2>2. new = [f \in RetrievalFields |-> new[f]] /\ new.late = FALSE /\ new.ids = ids
    BY DEF NoRun, RetrievalFields
  <2>3. \A m \in ids : Box[m] = marker.box
    BY <1>6 DEF StartRetrieval, Listed, Offered
  <2> HIDE DEF new
  <2>4. MailShapes' /\ GivenUp'
    BY <1>0, <2>1, <2>2, <2>3 DEF MailShapes, GivenUp, ledgerVars
  <2> QED
    BY <1>1, <2>1, <2>4
<1>e. ASSUME NEW phase, NEW outcome, EndJob(phase, outcome)
      PROVE  job' = [f \in RetrievalFields |-> job'[f]] /\ job'.late = job.late /\ job'.ids = job.ids
  BY <1>0, <1>e DEF EndJob, MailShapes, RetrievalFields
<1>7. ASSUME BeforeFetch PROVE Goal
  <2>1. UNCHANGED <<ledgerVars, revoked>> /\ (ClearCheck \/ UNCHANGED marker)
    BY <1>7 DEF BeforeFetch
  <2>2. job' = [job EXCEPT !.phase = "fetch"] \/ EndJob("error", <<>>)
    BY <1>7 DEF BeforeFetch
  <2>3. job' = [f \in RetrievalFields |-> job'[f]] /\ job'.late = job.late /\ job'.ids = job.ids
    BY <1>0, <1>e, <2>2 DEF MailShapes, RetrievalFields
  <2> QED
    BY <1>2, <2>1, <2>3
<1>8. ASSUME NEW m \in Messages, FetchOne(m) PROVE Goal
  <2>1. job' = [f \in RetrievalFields |-> job'[f]] /\ job'.late = job.late /\ job'.ids = job.ids
    BY <1>0, <1>8 DEF FetchOne, MailShapes, RetrievalFields
  <2> QED
    BY <1>2, <1>8, <2>1 DEF FetchOne
<1>9. ASSUME NEW code, FetchFails(code) PROVE Goal
  <2>1. UNCHANGED <<ledgerVars, revoked, marker>>
    BY <1>9 DEF FetchFails
  <2>2. job' = [job EXCEPT !.code = code] \/ EndJob("done", [m \in job.ids |-> "failed_retryable"])
    BY <1>9 DEF FetchFails
  <2>3. job' = [f \in RetrievalFields |-> job'[f]] /\ job'.late = job.late /\ job'.ids = job.ids
    BY <1>0, <1>e, <2>2 DEF MailShapes, RetrievalFields
  <2> QED
    BY <1>2, <2>1, <2>3
<1>10. ASSUME AfterFetch PROVE Goal
  <2>1. UNCHANGED <<ledgerVars, revoked, marker>>
    BY <1>10 DEF AfterFetch
  <2>2. job' = [job EXCEPT !.phase = "after"] \/ EndJob("done", [m \in job.ids |-> "rejected"])
    BY <1>10 DEF AfterFetch
  <2>3. job' = [f \in RetrievalFields |-> job'[f]] /\ job'.late = job.late /\ job'.ids = job.ids
    BY <1>0, <1>e, <2>2 DEF MailShapes, RetrievalFields
  <2> QED
    BY <1>2, <2>1, <2>3
<1>11. ASSUME Import PROVE Goal
  <2> DEFINE indexed == index \cup {m \in Normalized : Payload(m).row \in {"text", "empty"}}
             written == [m \in Messages |-> IF m \in Normalized THEN Recorded(m, Payload(m)) ELSE sources[m]]
             context == KnownContext(job.box, written, indexed)
             outcome == [m \in job.ids |-> Outcome(m)]
  <2>1. UNCHANGED <<receipts, revoked>> /\ (ClearCheck \/ UNCHANGED marker)
    BY <1>11 DEF Import
  <2>2. EndJob("done", outcome) \/ EndJob("error", <<>>)
    BY <1>11 DEF Import
  <2>3. job' = [f \in RetrievalFields |-> job'[f]] /\ job'.late = job.late /\ job'.ids = job.ids
    BY <1>e, <2>2
  <2>4. \/ UNCHANGED ledgerVars
        \/ /\ \A m \in Normalized : receipts[m] = "none"
           /\ index' = indexed
           /\ sources' = [m \in Messages |-> IF m \in Normalized THEN WithProposal(m, written[m], context) ELSE sources[m]]
    BY <1>11, <2>1 DEF Import, Importable, ledgerVars
  <2>5. CASE UNCHANGED ledgerVars
    BY <1>2, <2>1, <2>3, <2>5
  <2>6. CASE /\ \A m \in Normalized : receipts[m] = "none"
             /\ index' = indexed
             /\ sources' = [m \in Messages |-> IF m \in Normalized THEN WithProposal(m, written[m], context) ELSE sources[m]]
    <3>1. \A m \in Messages : Source(written[m])
      BY <1>0, Importing DEF MailShapes, Recorded
    <3>2. \A m \in Messages : m \in Normalized => written[m] = Recorded(m, Payload(m))
      OBVIOUS
    <3> HIDE DEF written, context
    <3>3. \A m \in Messages : Source(WithProposal(m, written[m], context))
      BY <3>1, Deciding DEF WithProposal, SameText
    <3>4. /\ \A m \in Messages : sources'[m] = sources[m] \/ (m \in Normalized /\ Source(sources'[m]))
          /\ sources' = [m \in Messages |-> sources'[m]]
      BY <2>6, <3>3
    <3>5. Normalized \subseteq job.ids
      BY DEF Normalized
    <3>6. MailShapes'
      BY <1>0, <1>c, <2>1, <2>3, <3>4 DEF MailShapes
    <3>7. GivenUp'
      BY <1>0, <1>c, <2>1, <2>3 DEF GivenUp
    <3>8. ForgottenStaysGone'
      BY <1>0, <2>1, <2>6, <3>4 DEF ForgottenStaysGone
    <3>9. MayRecord
      BY <2>6, <3>4, <3>5 DEF MayRecord
    <3> QED
      BY <3>6, <3>7, <3>8, <3>9 DEF Goal, MailStep, MailInv
  <2> QED
    BY <2>4, <2>5, <2>6
<1>12. ASSUME RevokeAccess PROVE Goal
  <2> DEFINE lost == {m \in GmailSources(marker.box) : Latest(sources[m]) # "withheld"}
  <2>1. /\ UNCHANGED <<index, receipts>> /\ ClearCheck
        /\ revoked' = revoked \cup {marker.box} /\ job' = [job EXCEPT !.late = TRUE]
        /\ sources' = [m \in Messages |-> IF m \in lost THEN Imported(sources[m], "withheld") ELSE sources[m]]
    BY <1>12 DEF RevokeAccess
  <2>2. \A m \in lost : m \in Messages /\ receipts[m] = "none"
    BY DEF GmailSources, Imports
  <2> HIDE DEF lost
  <2>3. /\ \A m \in Messages : \/ sources'[m] = sources[m]
                               \/ receipts[m] = "none" /\ Source(sources'[m]) /\ Latest(sources'[m]) = "withheld"
        /\ sources' = [m \in Messages |-> sources'[m]]
    BY <1>0, <2>1, <2>2, Importing DEF MailShapes
  <2>4. job' = [f \in RetrievalFields |-> job'[f]] /\ job'.late = TRUE
    BY <1>0, <2>1 DEF MailShapes, RetrievalFields
  <2>5. marker'.ok = FALSE /\ marker' = [f \in {"box", "ok"} |-> marker'[f]]
    BY <1>0, <2>1 DEF MailShapes, ClearCheck
  <2>6. MailShapes'
    BY <1>0, <2>1, <2>3, <2>4, <2>5 DEF MailShapes
  <2>7. GivenUp'
    BY <2>4, <2>5 DEF GivenUp
  <2>8. ForgottenStaysGone'
    BY <1>0, <2>1, <2>3 DEF ForgottenStaysGone
  <2>9. MayRecord
    BY <2>3 DEF MayRecord
  <2> QED
    BY <2>6, <2>7, <2>8, <2>9 DEF Goal, MailStep, MailInv
<1>13. ASSUME NEW m \in Messages, NEW o, Decide(m, o) PROVE Goal
  <2>1. /\ UNCHANGED <<marker, index, receipts, job, revoked>> /\ receipts[m] = "none"
        /\ \/ sources' = [sources EXCEPT ![m] = Cleared(sources[m])]
           \/ sources' = [sources EXCEPT ![m] = Confirmed(sources[m], o)]
    BY <1>0, <1>13 DEF Decide, Imports, MailShapes
  <2>2. /\ \A n \in Messages : n # m => sources'[n] = sources[n]
        /\ SameText(sources[m], sources'[m]) /\ sources' = [n \in Messages |-> sources'[n]]
    BY <1>0, <2>1, Deciding DEF MailShapes
  <2>3. MailShapes'
    BY <1>0, <2>1, <2>2 DEF MailShapes, SameText
  <2>4. GivenUp'
    BY <1>0, <2>1 DEF GivenUp
  <2>5. ForgottenStaysGone' /\ MayRecord
    BY <1>0, <2>1, <2>2 DEF ForgottenStaysGone, MayRecord
  <2> QED
    BY <2>3, <2>4, <2>5 DEF Goal, MailStep, MailInv
<1>14. ASSUME NEW m \in Messages, ForgetMessage(m) PROVE Goal
  <2>1. UNCHANGED <<marker, job, revoked>>
    BY <1>14 DEF ForgetMessage
  <2>2. /\ receipts' \in [Messages -> {"none", "pending", "complete"}]
        /\ \A n \in Messages : n # m => receipts'[n] = receipts[n] /\ sources'[n] = sources[n]
        /\ index' \subseteq index
        /\ \/ UNCHANGED sources /\ receipts'[m] = "pending"
           \/ receipts[m] = "pending" /\ sources'[m] = NoSource /\ m \notin index
        /\ sources' = [n \in Messages |-> sources'[n]]
    BY <1>0, <1>14 DEF ForgetMessage, Forget, MailShapes
  <2>3. MailShapes'
    BY <1>0, <2>1, <2>2, NewSource DEF MailShapes
  <2>4. GivenUp'
    BY <1>0, <2>1 DEF GivenUp
  <2>5. ForgottenStaysGone'
    BY <1>0, <2>2, NewSource DEF ForgottenStaysGone
  <2>6. MayRecord
    BY <2>2 DEF MayRecord
  <2> QED
    BY <2>3, <2>4, <2>5, <2>6 DEF Goal, MailStep, MailInv
<1>15. ASSUME NEW b, NEW broad, ChangeGrant(b, broad) PROVE Goal
  BY <1>0, <1>2, <1>15 DEF ChangeGrant, MailShapes
<1>16. ASSUME NEW m \in Messages, NEW row, ChangeMail(m, row) PROVE Goal
  BY <1>0, <1>2, <1>16 DEF ChangeMail, MailShapes
<1>17. ASSUME MailCrash PROVE Goal
  <2>1. job' = NoRun /\ UNCHANGED <<ledgerVars, marker, revoked>>
    BY <1>17 DEF MailCrash
  <2>2. NoRun = [f \in RetrievalFields |-> NoRun[f]] /\ NoRun.late = FALSE /\ NoRun.ids = {}
    BY DEF NoRun, RetrievalFields
  <2>3. MailShapes' /\ GivenUp'
    BY <1>0, <2>1, <2>2 DEF MailShapes, GivenUp, ledgerVars
  <2> QED
    BY <1>1, <2>1, <2>3
<1>18. ASSUME UNCHANGED mvars PROVE Goal
  BY <1>0, <1>2, <1>18 DEF mvars, ledgerVars, MailShapes
<1>19. Goal
  BY <1>3, <1>4, <1>5, <1>6, <1>7, <1>8, <1>9, <1>10, <1>11, <1>12, <1>13, <1>14, <1>15, <1>16, <1>17, <1>18
     DEF MailNext, Retrieve
<1> QED
  BY <1>19 DEF Goal

\* Before the first access check.
LEMMA MailInitially == MailInit => MailInv
<1> SUFFICES ASSUME MailInit PROVE MailInv
  OBVIOUS
<1>1. MailShapes
  BY NewSource DEF MailInit, MailShapes, NoMarker, NoRun, RetrievalFields
<1>2. GivenUp /\ ForgottenStaysGone
  BY DEF MailInit, GivenUp, ForgottenStaysGone, NoRun, NoMarker
<1> QED
  BY <1>1, <1>2 DEF MailInv

\* gmail_forget_service: of a mail whose removal is complete neither a record nor a
\* signal ever comes back, although retrievals run beside it and it can be cut off
\* after each write.
THEOREM ForgottenForGood == MailSpec => []ForgottenStaysGone
<1>1. MailInv /\ [MailNext]_mvars => MailInv'
  BY MailInductive DEF MailStep
<1>2. MailInv => ForgottenStaysGone
  BY DEF MailInv
<1> QED
  BY <1>1, <1>2, MailInitially, PTL DEF MailSpec

\* revoke_access: after a mailbox was given up no content of it is recorded before a
\* check has succeeded again, except by a retrieval that was under way; whatever the
\* account, its scopes and Google's answers become.
THEOREM RevokedForGood == MailSpec => RevokedStaysWithheld
<1>1. ASSUME MailInv, [MailNext]_mvars, NEW m \in Messages, sources'[m].rev > sources[m].rev,
             Latest(sources'[m]) = "content", Box[m] \in revoked
      PROVE  job.late
  <2>1. MayRecord /\ Source(sources[m]) /\ GivenUp
    BY <1>1, MailInductive DEF MailStep, MailInv, MailShapes
  <2>2. sources[m].rev \in Nat
    BY <2>1 DEF Source
  <2>3. sources'[m] # sources[m] /\ ~ SameText(sources[m], sources'[m]) /\ sources'[m] # NoSource
    BY <1>1, <2>2, NewSource DEF SameText
  <2>4. m \in job.ids
    BY <1>1, <2>1, <2>3 DEF MayRecord
  <2> QED
    BY <1>1, <2>1, <2>4 DEF GivenUp
<1>2. MailInv /\ [MailNext]_mvars =>
        [\A m \in Messages :
           (sources'[m].rev > sources[m].rev /\ Latest(sources'[m]) = "content" /\ Box[m] \in revoked) => job.late]_mvars
  BY <1>1
<1>3. MailInv /\ [MailNext]_mvars => MailInv'
  BY MailInductive DEF MailStep
<1> QED
  BY <1>2, <1>3, MailInitially, PTL DEF MailSpec, RevokedStaysWithheld

-----------------------------------------------------------------------------
(* Notes.                                                                   *)

JobFields == {"phase", "ids", "details", "code", "at", "meetings", "order", "outcome"}

PayloadKinds == NoteKinds \cup {"missing", "refused"}

\* A row of the batch call, before its transcript.
PickedRow(d) == d = [f \in {"kind", "ver", "said"} |-> d[f]] /\ d.kind \in NoteKinds /\ d.said = {}

\* A payload that may become a revision of m: nothing of another meeting.
PayloadOf(m, p) == p.said \subseteq {m} /\ p.kind \in PayloadKinds

NotesShapes ==
  /\ notes = [m \in Meetings |-> notes[m]] /\ \A m \in Meetings : notes[m].kind \in NoteKinds
  /\ nsources = [m \in Meetings |-> nsources[m]] /\ \A m \in Meetings : Source(nsources[m])
  /\ nlast = [m \in Meetings |-> nlast[m]]
  /\ njob = [f \in JobFields |-> njob[f]]
  /\ njob.ids \in Seq(Meetings) /\ njob.at \in Nat \ {0}
  /\ \A m \in DOMAIN njob.details : PickedRow(njob.details[m])
  /\ \E S : njob.meetings \in Seq(S)
  /\ njob.order \in Seq(Meetings) /\ Len(njob.order) = Len(njob.meetings)

\* The payload a record was last made from says what the record is.
LastTold ==
  \A m \in Meetings :
    IF nsources[m].rev = 0 THEN nlast[m] = Lost("none")
    ELSE PayloadOf(m, nlast[m]) /\ Latest(nsources[m]) = NoteAvailability(nlast[m])

\* What a job under way has collected, and that nothing was recorded since it began.
Collected ==
  njob.phase \notin {"none", "done"} =>
    /\ \A i \in DOMAIN njob.order : PayloadOf(njob.order[i], njob.meetings[i])
    /\ \A m \in DOMAIN njob.outcome : njob.outcome[m] \in {"rejected", "failed_retryable"}
    /\ \A m \in Meetings : nsources[m].rev = nbefore[m].rev

\* The outcome of a meeting and what became of its record.
OutcomeTold(m) ==
  LET was == nbefore[m].rev
      r   == nsources[m]
      out == njob.outcome[m]
  IN  /\ out = "imported"      <=> was = 0 /\ r.rev = 1 /\ Latest(r) = "content"
      /\ out = "edited"        <=> was > 0 /\ r.rev = was + 1 /\ Latest(r) = "content"
      /\ out = "already_known" => was > 0 /\ r.rev = was /\ Latest(r) = "content"
      /\ out = "pending_content" => r.rev > 0 /\ Latest(r) = "none"
      /\ out = "inaccessible"  => r.rev > 0 /\ Latest(r) = "withheld"
      /\ out \in {"failed_retryable", "rejected"} => r.rev = was

NotesInv ==
  /\ NotesShapes /\ LastTold /\ Collected
  /\ njob.phase = "done" => \A m \in Selected : OutcomeTold(m)

\* extract_tool_result: what it returns is the body of a result, of a use of the tool
\* that was asked for with the arguments that were asked for.
LEMMA Extracted ==
  ASSUME NEW stream, NEW tool, NEW args, DOMAIN stream.results \subseteq Nat,
         ExtractToolResult(stream, tool, args).ok
  PROVE  /\ \A u \in DOMAIN stream.uses : stream.uses[u].tool = tool /\ stream.uses[u].args = args
         /\ ~ Len(stream.uses) > 1
         /\ \E i \in Matched(stream) :
              /\ stream.results[i].error = "none"
              /\ ExtractToolResult(stream, tool, args) = Success(stream.results[i].body)
<1> DEFINE all == Matched(stream)
           result == FirstResult(stream)
<1>1. \A code, retry : ~ Failure(code, retry).ok
  BY DEF Failure
<1>2. all # {} /\ \A i, j \in all : i = j
  BY <1>1 DEF ExtractToolResult
<1>3. all \subseteq Nat
  BY DEF Matched
<1>4. PICK i \in all : \A j \in all : j = i
  BY <1>2
<1>5. result = stream.results[i]
  BY <1>3, <1>4 DEF FirstResult
<1>6. /\ \A u \in DOMAIN stream.uses : stream.uses[u].tool = tool /\ stream.uses[u].args = args
      /\ ~ Len(stream.uses) > 1
  BY <1>1 DEF ExtractToolResult
<1>7. result.error = "none" /\ ExtractToolResult(stream, tool, args) = Success(result.body)
  BY <1>1 DEF ExtractToolResult
<1> QED
  BY <1>4, <1>5, <1>6, <1>7

\* A stream with one call, of a tool with these arguments, and its result.
OneCall(s, args) ==
  /\ s = [uses |-> s.uses, results |-> s.results]
  /\ Len(s.uses) = 1 /\ s.uses \in Seq({s.uses[1]}) /\ s.uses[1].args = args /\ 1 \in DOMAIN s.uses
  /\ DOMAIN s.results = {1} /\ s.results[1].body = args

\* A transcript call that succeeds brings the meeting that was asked for, whatever the
\* model in between did.
LEMMA OneTranscript ==
  ASSUME NEW m \in Meetings, NEW result, Relayed("get_meeting_transcript", {m}, result), result.ok
  PROVE  result.body = {m}
<1> DEFINE tool == "get_meeting_transcript"
           good == GoodStream(tool, {m})
           wild == UNION {{GoodStream(tool, other)} : other \in OtherArguments(tool)}
<1>1. ASSUME NEW other
      PROVE  OneCall(GoodStream(tool, other), other)
  <2> DEFINE use == [tool |-> tool, args |-> other]
             answer == [use |-> 1, error |-> ToolAnswer(tool, other).error, body |-> ToolAnswer(tool, other).body]
  <2>1. answer.body = other /\ answer.use = 1 /\ use.args = other
    BY DEF ToolAnswer
  <2> DEFINE s == GoodStream(tool, other)
  <2>2. s = [uses |-> <<use>>, results |-> <<answer>>]
    BY DEF GoodStream
  <2> HIDE DEF use, answer
  <2>3. <<use>> \in Seq({use}) /\ Len(<<use>>) = 1 /\ <<use>>[1] = use
    OBVIOUS
  <2>4. DOMAIN <<answer>> = {1} /\ <<answer>>[1] = answer
    OBVIOUS
  <2> HIDE DEF s
  <2>5. s.uses = <<use>> /\ s.results = <<answer>>
    BY <2>2
  <2>6. OneCall(s, other)
    BY <2>1, <2>2, <2>3, <2>4, <2>5 DEF OneCall
  <2> QED
    BY <2>6 DEF s
<1> HIDE DEF good
<1>2. ASSUME NEW s, DOMAIN s.results \subseteq Nat, result = ExtractToolResult(s, tool, {m})
      PROVE  /\ \A u \in DOMAIN s.uses : s.uses[u].tool = tool /\ s.uses[u].args = {m}
             /\ ~ Len(s.uses) > 1
             /\ \E i \in Matched(s) : s.results[i].error = "none" /\ result.body = s.results[i].body
  BY <1>2, Extracted DEF Success
<1>3. ASSUME NEW other, result = ExtractToolResult(GoodStream(tool, other), tool, {m}) PROVE result.body = {m}
  <2> DEFINE s == GoodStream(tool, other)
  <2>1. DOMAIN s.results = {1} /\ s.results[1].body = other /\ s.uses[1].args = other /\ 1 \in DOMAIN s.uses
    BY <1>1 DEF OneCall
  <2>0. result = ExtractToolResult(s, tool, {m})
    BY <1>3
  <2> HIDE DEF s
  <2>2. DOMAIN s.results \subseteq Nat
    BY <2>1
  <2>3. \A u \in DOMAIN s.uses : s.uses[u].args = {m}
    BY <1>2, <2>0, <2>2
  <2>4. \E i \in Matched(s) : result.body = s.results[i].body
    BY <1>2, <2>0, <2>2
  <2> QED
    BY <2>1, <2>3, <2>4 DEF Matched
<1>4. CASE result = ExtractToolResult(GoodStream(tool, {m}), tool, {m})
  BY <1>3, <1>4
<1>5. CASE result \in CallResults(tool, {m})
  <2>1. \A code, retry : ~ Failure(code, retry).ok
    BY DEF Failure
  <2>2. PICK s \in BadStreams(tool, {m}) : result = ExtractToolResult(s, tool, {m})
    BY <1>5, <2>1 DEF CallResults
  <2>3. CASE s \in wild
    BY <1>3, <2>2, <2>3
  <2>4. ASSUME NEW w \in wild, s = [uses |-> good.uses \o w.uses, results |-> w.results] PROVE FALSE
    <3>1. PICK other : w = GoodStream(tool, other)
      BY <2>4
    <3>2. Len(w.uses) = 1 /\ w.uses \in Seq({w.uses[1]}) /\ DOMAIN w.results = {1}
      BY <1>1, <3>1 DEF OneCall
    <3>3. Len(good.uses) = 1 /\ good.uses \in Seq({good.uses[1]})
      BY <1>1 DEF good, OneCall
    <3> DEFINE S == {good.uses[1], w.uses[1]}
    <3>4. good.uses \in Seq(S) /\ w.uses \in Seq(S)
      BY <3>2, <3>3
    <3> HIDE DEF S
    <3>5. Len(good.uses \o w.uses) = Len(good.uses) + Len(w.uses)
      BY <3>4, ConcatProperties
    <3>6. s.uses = good.uses \o w.uses /\ s.results = w.results
      BY <2>4
    <3>7. DOMAIN s.results \subseteq Nat
      BY <3>2, <3>6
    <3>9. Len(s.uses) = Len(good.uses \o w.uses)
      BY ONLY <3>6
    <3>8. ~ Len(s.uses) > 1
      BY <1>2, <2>2, <3>7
    <3> QED
      BY <3>2, <3>3, <3>5, <3>9, <3>8
  <2>5. good = [uses |-> good.uses, results |-> good.results] /\ DOMAIN good.results = {1}
    BY <1>1 DEF good, OneCall
  <2>6. ASSUME s \in {[good EXCEPT !.uses = <<>>], [good EXCEPT !.results = <<>>]} PROVE FALSE
    <3>1. DOMAIN s.results \subseteq Nat /\ (s.uses = <<>> \/ s.results = <<>>)
      BY <2>5, <2>6
    <3>2. Matched(s) # {}
      BY <1>2, <2>2, <3>1
    <3> QED
      BY <3>1, <3>2 DEF Matched
  <2>7. ASSUME s = [good EXCEPT !.uses = <<[tool |-> "query_granola_meetings", args |-> {m}]>>] PROVE FALSE
    <3>1. DOMAIN s.results \subseteq Nat /\ s.uses = <<[tool |-> "query_granola_meetings", args |-> {m}]>>
      BY <2>5, <2>7
    <3>2. 1 \in DOMAIN s.uses /\ s.uses[1].tool = "query_granola_meetings"
      BY <3>1
    <3> QED
      BY <1>2, <2>2, <3>1, <3>2
  <2>8. ASSUME NEW e \in {"unreadable", "tool_error", "tool_access_denied", "tool_auth_required"},
               s = [good EXCEPT !.results = <<[use |-> 1, error |-> e, body |-> {}]>>]
        PROVE  FALSE
    <3>1. s.results = <<[use |-> 1, error |-> e, body |-> {}]>>
      BY <2>5, <2>8
    <3>2. DOMAIN s.results = {1} /\ s.results[1].error = e
      BY <3>1
    <3> QED
      BY <1>2, <2>2, <3>2 DEF Matched
  <2> QED
    BY <2>2, <2>3, <2>4, <2>6, <2>7, <2>8 DEF BadStreams, good
<1> QED
  BY <1>4, <1>5 DEF Relayed

\* _record_meeting: a record after its import, and its outcome.
LEMMA Classified ==
  ASSUME NotesShapes, LastTold, NEW m \in Meetings, NEW p, PayloadOf(m, p)
  PROVE  LET r   == NoteRecorded(m, p)
             was == nsources[m].rev
             out == Classify(m, p)
         IN  /\ Source(r) /\ Latest(r) = NoteAvailability(p) /\ r.rev > 0
             /\ r.rev \in {was, was + 1} /\ (r.rev = was => nlast[m] = p)
             /\ out = "imported"      <=> was = 0 /\ r.rev = 1 /\ Latest(r) = "content"
             /\ out = "edited"        <=> was > 0 /\ r.rev = was + 1 /\ Latest(r) = "content"
             /\ out = "already_known" => was > 0 /\ r.rev = was /\ Latest(r) = "content"
             /\ out = "pending_content" => Latest(r) = "none"
             /\ out = "inaccessible"  => Latest(r) = "withheld"
             /\ out \notin {"failed_retryable", "rejected"}
<1> DEFINE r == NoteRecorded(m, p)
           a == NoteAvailability(p)
<1>1. Source(nsources[m]) /\ nsources[m].rev \in Nat
  BY DEF NotesShapes, Source
<1>2. p # Lost("none")
  BY DEF PayloadOf, PayloadKinds, NoteKinds, Lost
<1>3. CASE nlast[m] = p
  <2>1. nsources[m].rev # 0 /\ Latest(nsources[m]) = a
    BY <1>2, <1>3 DEF LastTold
  <2>2. r = nsources[m]
    BY <1>3 DEF NoteRecorded
  <2>3. a \in {"withheld", "content", "none"}
    BY DEF NoteAvailability
  <2> HIDE DEF r, a
  <2> QED
    BY <1>1, <1>3, <2>1, <2>2, <2>3 DEF Classify, r, a
<1>4. CASE nlast[m] # p
  <2>1. r = Imported(nsources[m], a)
    BY <1>4 DEF NoteRecorded
  <2>2. Source(r) /\ r.rev = nsources[m].rev + 1 /\ Latest(r) = a
    BY <1>1, <2>1, Importing
  <2>3. a \in {"withheld", "content", "none"}
    BY DEF NoteAvailability
  <2>4. r # nsources[m]
    BY <1>1, <2>2
  <2> HIDE DEF r, a
  <2> QED
    BY <1>1, <2>2, <2>3, <2>4 DEF Classify, r, a
<1> QED
  BY <1>3, <1>4

\* Before the first retrieval.
LEMMA NotesInitially == NotesInit => NotesInv
<1> SUFFICES ASSUME NotesInit PROVE NotesInv
  OBVIOUS
<1>1. njob = [f \in JobFields |-> njob[f]] /\ njob.phase = "none" /\ njob.ids = <<>> /\ njob.at = 1 /\ njob.details = <<>> /\ njob.meetings = <<>> /\ njob.order = <<>>
  BY DEF NotesInit, NoNotesJob, JobFields
<1>2. \E S : njob.meetings \in Seq(S)
  <2>1. <<>> \in Seq({})
    OBVIOUS
  <2> QED
    BY <1>1, <2>1
<1>3. NotesShapes
  BY <1>1, <1>2, NewSource DEF NotesInit, NotesShapes, NoteKinds
<1>4. LastTold
  BY NewSource DEF NotesInit, LastTold
<1>5. Collected
  BY <1>1 DEF Collected
<1> QED
  BY <1>1, <1>3, <1>4, <1>5 DEF NotesInv

\* A step of the job that records nothing.
LEMMA JobGoesOn ==
  ASSUME NotesShapes, LastTold, UNCHANGED <<notes, nsources, nlast, nbefore>>,
         njob' = [f \in JobFields |-> njob'[f]], njob'.order = njob.order, njob'.meetings = njob.meetings,
         njob'.ids = njob.ids, njob'.at \in Nat \ {0},
         \A m \in DOMAIN njob'.details : PickedRow(njob'.details[m])
  PROVE  NotesShapes' /\ LastTold'
BY DEF NotesShapes, LastTold

\* Every step of a retrieval, of the user and of the provider keeps the invariant.
LEMMA NotesInductive == NotesInv /\ [NotesNext]_nvars => NotesInv'
<1> SUFFICES ASSUME NotesInv, [NotesNext]_nvars PROVE NotesInv'
  OBVIOUS
<1>0. NotesShapes /\ LastTold /\ Collected
  BY DEF NotesInv
<1>a. /\ njob = [f \in JobFields |-> njob[f]]
      /\ njob.ids \in Seq(Meetings) /\ njob.at \in Nat \ {0} /\ njob.at + 1 \in Nat \ {0}
      /\ \A m \in DOMAIN njob.details : PickedRow(njob.details[m])
  BY <1>0 DEF NotesShapes
<1>b. DOMAIN njob.ids = 1 .. Len(njob.ids) /\ (njob.at <= Len(njob.ids) => njob.at \in DOMAIN njob.ids)
  <2>1. njob.ids \in Seq(Meetings) /\ njob.at \in Nat \ {0}
    BY <1>a
  <2> QED
    BY <2>1
<1>o. njob.order \in Seq(Meetings) /\ \A i \in DOMAIN njob.order : njob.order[i] \in Meetings
  <2>1. njob.order \in Seq(Meetings)
    BY <1>0 DEF NotesShapes
  <2> QED
    BY <2>1
<1>e. <<>> \in Seq(Meetings) /\ DOMAIN <<>> = {} /\ 1 \in Nat \ {0}
  OBVIOUS
<1>p. Selected \subseteq Meetings
  BY <1>a DEF Selected
<1>1. ASSUME UNCHANGED <<nsources, nlast, njob, nbefore>>,
             notes' = [m \in Meetings |-> notes'[m]], \A m \in Meetings : notes'[m].kind \in NoteKinds
      PROVE  NotesInv'
  <2>1. NotesShapes' /\ LastTold' /\ Collected'
    BY <1>0, <1>1 DEF NotesShapes, LastTold, Collected, Selected
  <2> QED
    BY <1>1, <2>1 DEF NotesInv, OutcomeTold, Selected
<1>2. CASE CheckConnection
  BY <1>0, <1>1, <1>2 DEF CheckConnection, NotesShapes
<1>3. ASSUME NEW ids \in Selections, StartNotes(ids) PROVE NotesInv'
  <2> DEFINE new == [NoNotesJob EXCEPT !.phase = "connect", !.ids = ids]
  <2>1. njob' = new /\ nbefore' = nsources /\ UNCHANGED <<notes, checked, nsources, nlast>>
    BY <1>3 DEF StartNotes
  <2>2. /\ new = [f \in JobFields |-> new[f]] /\ new.phase = "connect" /\ new.ids = ids /\ new.at = 1
        /\ new.details = <<>> /\ new.meetings = <<>> /\ new.order = <<>> /\ new.outcome = <<>>
    BY DEF NoNotesJob, JobFields
  <2>3. ids \in Seq(Meetings)
    <3>1. PICK n \in 1 .. Cardinality(Meetings) : ids \in [1 .. n -> Meetings]
      BY DEF Selections
    <3>2. n \in Nat
      BY FS_CardinalityType, NotesAssumption
    <3> QED
      BY <3>1, <3>2, SeqDef
  <2> HIDE DEF new
  <2>4. \E S : njob'.meetings \in Seq(S)
    <3>1. <<>> \in Seq({})
      OBVIOUS
    <3> QED
      BY <2>1, <2>2, <3>1
  <2>5. NotesShapes'
    BY <1>0, <1>e, <2>1, <2>2, <2>3, <2>4 DEF NotesShapes
  <2>6. LastTold'
    BY <1>0, <2>1 DEF LastTold
  <2>7. Collected'
    BY <2>1, <2>2 DEF Collected, Selected
  <2> QED
    BY <2>1, <2>2, <2>5, <2>6, <2>7 DEF NotesInv
<1>4. ASSUME NEW up \in BOOLEAN, ConnectNotes(up) PROVE NotesInv'
  <2> DEFINE new == [njob EXCEPT !.phase = IF up THEN "batch" ELSE "error"]
  <2>1. njob' = new /\ njob.phase = "connect" /\ UNCHANGED <<notes, checked, nsources, nlast, nbefore>>
    BY <1>4 DEF ConnectNotes
  <2>2. /\ new = [f \in JobFields |-> new[f]] /\ new.phase \in {"batch", "error"}
        /\ \A f \in JobFields \ {"phase"} : new[f] = njob[f]
    BY <1>a DEF JobFields
  <2> HIDE DEF new
  <2>3. NotesShapes' /\ LastTold'
    BY <1>0, <1>a, <2>1, <2>2, JobGoesOn DEF JobFields
  <2>4. Collected'
    BY <1>0, <2>1, <2>2 DEF Collected, Selected, JobFields
  <2> QED
    BY <2>1, <2>2, <2>3, <2>4 DEF NotesInv
<1>5. ASSUME NEW result, FetchBatch(result) PROVE NotesInv'
  <2>1. /\ njob.phase = "batch" /\ UNCHANGED <<notes, checked, nsources, nlast, nbefore>>
        /\ \/ njob' = [njob EXCEPT !.phase = "each", !.details = [m \in result.body \cap Selected |-> Pick(m)]]
           \/ njob' = [njob EXCEPT !.phase = "done", !.outcome = [m \in Selected |-> "failed_retryable"]]
           \/ njob' = [njob EXCEPT !.phase = "each", !.code = result.code]
    BY <1>5 DEF FetchBatch
  <2>2. Selected \subseteq Meetings /\ \A m \in Meetings : nsources[m].rev = nbefore[m].rev
    BY <1>0, <1>p, <2>1 DEF Collected
  <2>3. \A m \in Selected : PickedRow(Pick(m))
    BY <1>0, <2>2 DEF Pick, NotesShapes, PickedRow
  <2>4. CASE njob' = [njob EXCEPT !.phase = "each", !.details = [m \in result.body \cap Selected |-> Pick(m)]]
    <3> DEFINE new == [njob EXCEPT !.phase = "each", !.details = [m \in result.body \cap Selected |-> Pick(m)]]
    <3>1. /\ new = [f \in JobFields |-> new[f]] /\ new.phase = "each"
          /\ new.details = [m \in result.body \cap Selected |-> Pick(m)]
          /\ \A f \in JobFields \ {"phase", "details"} : new[f] = njob[f]
      BY <1>a DEF JobFields
    <3>2. njob' = new
      BY <2>4
    <3> HIDE DEF new
    <3>3. \A m \in DOMAIN new.details : PickedRow(new.details[m])
      BY <2>3, <3>1
    <3>4. NotesShapes' /\ LastTold'
      BY <1>0, <1>a, <2>1, <3>1, <3>2, <3>3, JobGoesOn DEF JobFields
    <3>5. Collected'
      BY <1>0, <2>1, <3>1, <3>2 DEF Collected, Selected, JobFields
    <3> QED
      BY <3>1, <3>2, <3>4, <3>5 DEF NotesInv
  <2>5. CASE njob' = [njob EXCEPT !.phase = "done", !.outcome = [m \in Selected |-> "failed_retryable"]]
    <3> DEFINE new == [njob EXCEPT !.phase = "done", !.outcome = [m \in Selected |-> "failed_retryable"]]
    <3>1. /\ new = [f \in JobFields |-> new[f]] /\ new.phase = "done"
          /\ new.outcome = [m \in Selected |-> "failed_retryable"]
          /\ \A f \in JobFields \ {"phase", "outcome"} : new[f] = njob[f]
      BY <1>a DEF JobFields
    <3>2. njob' = new
      BY <2>5
    <3> HIDE DEF new
    <3>3. NotesShapes' /\ LastTold'
      BY <1>0, <1>a, <2>1, <3>1, <3>2, JobGoesOn DEF JobFields
    <3>4. Selected' = Selected
      BY <3>1, <3>2 DEF Selected, JobFields
    <3>5. \A m \in Selected : nsources[m].rev \in Nat
      BY <1>0, <2>2 DEF NotesShapes, Source
    <3>6. \A m \in Selected : njob'.outcome[m] = "failed_retryable"
      BY <3>1, <3>2
    <3>7. \A m \in Selected : OutcomeTold(m)'
      BY <2>1, <2>2, <3>5, <3>6 DEF OutcomeTold
    <3> QED
      BY <2>2, <3>1, <3>2, <3>3, <3>4, <3>7 DEF NotesInv, Collected
  <2>6. CASE njob' = [njob EXCEPT !.phase = "each", !.code = result.code]
    <3> DEFINE new == [njob EXCEPT !.phase = "each", !.code = result.code]
    <3>1. /\ new = [f \in JobFields |-> new[f]] /\ new.phase = "each"
          /\ \A f \in JobFields \ {"phase", "code"} : new[f] = njob[f]
      BY <1>a DEF JobFields
    <3>2. njob' = new
      BY <2>6
    <3> HIDE DEF new
    <3>3. NotesShapes' /\ LastTold'
      BY <1>0, <1>a, <2>1, <3>1, <3>2, JobGoesOn DEF JobFields
    <3>4. Collected'
      BY <1>0, <2>1, <3>1, <3>2 DEF Collected, Selected, JobFields
    <3> QED
      BY <3>1, <3>2, <3>3, <3>4 DEF NotesInv
  <2> QED
    BY <2>1, <2>4, <2>5, <2>6
<1>6. ASSUME NEW m \in Meetings, NEW p, PayloadOf(m, p), njob.phase = "each", njob' = Took(m, p),
             UNCHANGED <<notes, nsources, nlast, nbefore>>
      PROVE  NotesInv'
  <2>1. CASE Normalizes(p)
    <3> DEFINE new == [njob EXCEPT !.at = @ + 1, !.meetings = Append(@, p), !.order = Append(@, m)]
    <3>1. /\ new = [f \in JobFields |-> new[f]]
          /\ new.at = njob.at + 1 /\ new.meetings = Append(njob.meetings, p) /\ new.order = Append(njob.order, m)
          /\ \A f \in JobFields \ {"at", "meetings", "order"} : new[f] = njob[f]
      BY <1>a DEF JobFields
    <3>2. njob' = new
      BY <1>6, <2>1 DEF Took
    <3> HIDE DEF new
    <3>3. PICK S : njob.meetings \in Seq(S)
      BY <1>0 DEF NotesShapes
    <3>4. njob.order \in Seq(Meetings) /\ Len(njob.order) = Len(njob.meetings)
      BY <1>0 DEF NotesShapes
    <3>5. Appends(njob.order, new.order, m) /\ Appends(njob.meetings, new.meetings, p)
      <4>1. Appends(njob.order, Append(njob.order, m), m)
        BY <3>4, OneMore
      <4>2. Appends(njob.meetings, Append(njob.meetings, p), p)
        BY <3>3, OneMore
      <4> QED
        BY <3>1, <4>1, <4>2
    <3>10. new.order \in Seq(Meetings) /\ Len(new.order) = Len(new.meetings)
      <4>1. Append(njob.order, m) \in Seq(Meetings)
        BY <1>6, <3>4
      <4>2. Len(new.order) = Len(new.meetings)
        BY <3>4, <3>5 DEF Appends
      <4> QED
        BY <3>1, <4>1, <4>2
    <3>6. NotesShapes'
      <4>1. \E T : njob'.meetings \in Seq(T)
        BY <3>2, <3>5 DEF Appends
      <4>2. njob' = [f \in JobFields |-> njob'[f]] /\ njob'.ids = njob.ids /\ njob'.details = njob.details /\ njob'.at = njob.at + 1
        BY <3>1, <3>2 DEF JobFields
      <4> QED
        BY <1>0, <1>6, <1>a, <3>2, <3>10, <4>1, <4>2 DEF NotesShapes
    <3>7. LastTold'
      BY <1>0, <1>6 DEF LastTold
    <3>8. \A i \in DOMAIN new.order : PayloadOf(new.order[i], new.meetings[i])
      BY <1>0, <1>6, <3>4, <3>5 DEF Collected, Appends
    <3>9. Collected'
      BY <1>0, <1>6, <3>1, <3>2, <3>8 DEF Collected, Selected, JobFields
    <3> QED
      BY <1>6, <3>1, <3>2, <3>6, <3>7, <3>9 DEF NotesInv, JobFields
  <2>2. CASE ~ Normalizes(p)
    <3> DEFINE told == [x \in DOMAIN njob.outcome \cup {m} |-> IF x = m THEN "rejected" ELSE njob.outcome[x]]
               new == [njob EXCEPT !.at = @ + 1, !.outcome = told]
    <3>1. /\ new = [f \in JobFields |-> new[f]] /\ new.outcome = told /\ new.at = njob.at + 1
          /\ \A f \in JobFields \ {"at", "outcome"} : new[f] = njob[f]
      BY <1>a DEF JobFields
    <3>2. njob' = new
      BY <1>6, <2>2 DEF Took
    <3>3. \A x \in DOMAIN told : told[x] \in {"rejected", "failed_retryable"}
      BY <1>0, <1>6 DEF Collected
    <3> HIDE DEF new, told
    <3>4. NotesShapes' /\ LastTold'
      BY <1>0, <1>6, <1>a, <3>1, <3>2, JobGoesOn DEF JobFields
    <3>5. Collected'
      BY <1>0, <1>6, <3>1, <3>2, <3>3 DEF Collected, Selected, JobFields
    <3> QED
      BY <1>6, <3>1, <3>2, <3>4, <3>5 DEF NotesInv, JobFields
  <2> QED
    BY <2>1, <2>2
<1>7. ASSUME NEW m \in Meetings, njob.phase = "each", njob' = Skipped(m), UNCHANGED <<notes, nsources, nlast, nbefore>>
      PROVE  NotesInv'
  <2> DEFINE told == [x \in DOMAIN njob.outcome \cup {m} |-> IF x = m THEN "failed_retryable" ELSE njob.outcome[x]]
             new == [njob EXCEPT !.at = @ + 1, !.outcome = told]
  <2>1. /\ new = [f \in JobFields |-> new[f]] /\ new.outcome = told /\ new.at = njob.at + 1
        /\ \A f \in JobFields \ {"at", "outcome"} : new[f] = njob[f]
    BY <1>a DEF JobFields
  <2>2. njob' = new
    BY <1>7 DEF Skipped
  <2>3. \A x \in DOMAIN told : told[x] \in {"rejected", "failed_retryable"}
    BY <1>0, <1>7 DEF Collected
  <2> HIDE DEF new, told
  <2>4. NotesShapes' /\ LastTold'
    BY <1>0, <1>7, <1>a, <2>1, <2>2, JobGoesOn DEF JobFields
  <2>5. Collected'
    BY <1>0, <1>7, <2>1, <2>2, <2>3 DEF Collected, Selected, JobFields
  <2> QED
    BY <1>7, <2>1, <2>2, <2>4, <2>5 DEF NotesInv, JobFields
<1>8. CASE EachMissing
  <2> DEFINE m == njob.ids[njob.at]
             p == Lost(IF njob.code # "none" THEN ErrorKind(njob.code) ELSE "missing")
  <2>1. njob.phase = "each" /\ njob.at \in DOMAIN njob.ids /\ njob' = Took(m, p) /\ UNCHANGED <<notes, nsources, nlast, nbefore>>
    BY <1>8, <1>b DEF EachMissing
  <2>2. m \in Meetings
    BY <1>0, <1>p, <2>1 DEF Selected
  <2>3. PayloadOf(m, p)
    BY DEF PayloadOf, Lost, ErrorKind, PayloadKinds
  <2> HIDE DEF m, p
  <2> QED
    BY <1>6, <2>1, <2>2, <2>3
<1>9. ASSUME NEW result, NEW named \in BOOLEAN, EachTranscript(result, named) PROVE NotesInv'
  <2> DEFINE m == njob.ids[njob.at]
             p == WithTranscript(m, result, named)
  <2>1. /\ njob.phase = "each" /\ njob.at \in DOMAIN njob.ids /\ UNCHANGED <<notes, nsources, nlast, nbefore>>
        /\ njob' = Skipped(m) \/ njob' = Took(m, p)
        /\ m \in DOMAIN njob.details /\ Relayed("get_meeting_transcript", {m}, result)
    BY <1>9, <1>b DEF EachTranscript, Going
  <2>2. m \in Meetings
    BY <1>0, <1>p, <2>1 DEF Selected
  <2>3. result.ok => result.body = {m}
    BY <2>1, <2>2, OneTranscript
  <2>4. PayloadOf(m, p)
    <3>1. PickedRow(njob.details[m])
      BY <1>a, <2>1
    <3>2. result.ok /\ ~ (named /\ result.body # {m}) => p = [njob.details[m] EXCEPT !.said = {m}]
      BY <2>3 DEF WithTranscript
    <3>3. p \in {njob.details[m], [njob.details[m] EXCEPT !.said = {m}], Lost("refused")}
      BY <3>2 DEF WithTranscript
    <3> QED
      BY <3>1, <3>3 DEF PayloadOf, PayloadKinds, Lost, PickedRow
  <2> HIDE DEF m, p
  <2> QED
    BY <1>6, <1>7, <2>1, <2>2, <2>4
<1>10. CASE ImportNotes
  <2> DEFINE got(m) == \E i \in DOMAIN njob.order : njob.order[i] = m
             at(m)  == CHOOSE i \in DOMAIN njob.order : njob.order[i] = m
             told(m) == IF got(m) THEN Classify(njob.order[at(m)], njob.meetings[at(m)])
                        ELSE IF m \in DOMAIN njob.outcome THEN njob.outcome[m] ELSE "failed_retryable"
             out == [m \in Selected |-> told(m)]
             new == [njob EXCEPT !.phase = "done", !.outcome = out]
  <2>1. /\ njob.phase = "each" /\ UNCHANGED <<notes, nbefore>>
        /\ nsources' = [m \in Meetings |-> IF got(m) THEN NoteRecorded(m, njob.meetings[at(m)]) ELSE nsources[m]]
        /\ nlast' = [m \in Meetings |-> IF got(m) THEN njob.meetings[at(m)] ELSE nlast[m]]
    BY <1>10 DEF ImportNotes
  <2>2. njob' = new
    BY <1>10 DEF ImportNotes, ZipOrder
  <2>3. /\ new = [f \in JobFields |-> new[f]] /\ new.phase = "done" /\ new.outcome = out
        /\ \A f \in JobFields \ {"phase", "outcome"} : new[f] = njob[f]
    BY <1>a DEF JobFields
  <2>4. \A m : got(m) => at(m) \in DOMAIN njob.order /\ njob.order[at(m)] = m
    OBVIOUS
  <2> HIDE DEF new, at
  <2>5. \A m : got(m) => m \in Meetings /\ PayloadOf(m, njob.meetings[at(m)])
    <3>1. \A i \in DOMAIN njob.order : njob.order[i] \in Meetings /\ PayloadOf(njob.order[i], njob.meetings[i])
      BY <1>0, <1>o, <2>1 DEF Collected
    <3> QED
      BY <2>4, <3>1
  <2>6. \A m \in Meetings : IF got(m) THEN nlast'[m] = njob.meetings[at(m)] /\ nsources'[m] = NoteRecorded(m, njob.meetings[at(m)])
                            ELSE nlast'[m] = nlast[m] /\ nsources'[m] = nsources[m]
    BY <2>1
  <2>7. \A m \in Selected : out[m] = told(m)
    OBVIOUS
  <2>8. \A m \in Selected : told(m) = IF got(m) THEN Classify(m, njob.meetings[at(m)])
                                      ELSE IF m \in DOMAIN njob.outcome THEN njob.outcome[m] ELSE "failed_retryable"
    BY <2>4
  <2> HIDE DEF got, told, out
  <2>9. \A m \in Meetings : Source(nsources'[m])
    <3> SUFFICES ASSUME NEW m \in Meetings PROVE Source(nsources'[m])
      OBVIOUS
    <3>1. CASE got(m)
      <4>1. Source(NoteRecorded(m, njob.meetings[at(m)]))
        BY <1>0, <2>5, <3>1, Classified
      <4> QED
        BY <2>6, <3>1, <4>1
    <3>2. CASE ~ got(m)
      BY <1>0, <2>6, <3>2 DEF NotesShapes
    <3> QED
      BY <3>1, <3>2
  <2>10. NotesShapes'
    BY <1>0, <1>a, <2>1, <2>2, <2>3, <2>9 DEF NotesShapes, JobFields
  <2>11. LastTold'
    <3> SUFFICES ASSUME NEW m \in Meetings
                 PROVE  IF nsources'[m].rev = 0 THEN nlast'[m] = Lost("none")
                        ELSE PayloadOf(m, nlast'[m]) /\ Latest(nsources'[m]) = NoteAvailability(nlast'[m])
      BY DEF LastTold
    <3>1. CASE got(m)
      <4> DEFINE r == NoteRecorded(m, njob.meetings[at(m)])
      <4>1. r.rev > 0 /\ Latest(r) = NoteAvailability(njob.meetings[at(m)]) /\ PayloadOf(m, njob.meetings[at(m)])
        BY <1>0, <2>5, <3>1, Classified
      <4>2. nsources'[m] = r /\ nlast'[m] = njob.meetings[at(m)]
        BY <2>6, <3>1
      <4> HIDE DEF r
      <4> QED
        BY <4>1, <4>2
    <3>2. CASE ~ got(m)
      BY <1>0, <2>6, <3>2 DEF LastTold
    <3> QED
      BY <3>1, <3>2
  <2>12. Selected' = Selected /\ Selected \subseteq Meetings
    BY <1>0, <1>p, <2>1, <2>2, <2>3 DEF Selected, JobFields
  <2>13. \A m \in Selected : OutcomeTold(m)'
    <3> SUFFICES ASSUME NEW m \in Selected PROVE OutcomeTold(m)'
      OBVIOUS
    <3>1. m \in Meetings /\ nsources[m].rev \in Nat /\ nbefore'[m].rev = nsources[m].rev
      BY <1>0, <2>1, <2>12 DEF Collected, NotesShapes, Source
    <3>2. njob'.outcome[m] = told(m)
      BY <2>2, <2>3, <2>7
    <3>3. CASE got(m)
      <4> DEFINE r == NoteRecorded(m, njob.meetings[at(m)])
                 verdict == Classify(m, njob.meetings[at(m)])
      <4>1. PayloadOf(m, njob.meetings[at(m)]) /\ nsources'[m] = r /\ told(m) = verdict
        BY <2>5, <2>6, <2>8, <3>1, <3>3
      <4>2. /\ r.rev > 0
            /\ verdict = "imported"      <=> nsources[m].rev = 0 /\ r.rev = 1 /\ Latest(r) = "content"
            /\ verdict = "edited"        <=> nsources[m].rev > 0 /\ r.rev = nsources[m].rev + 1 /\ Latest(r) = "content"
            /\ verdict = "already_known" => nsources[m].rev > 0 /\ r.rev = nsources[m].rev /\ Latest(r) = "content"
            /\ verdict = "pending_content" => Latest(r) = "none"
            /\ verdict = "inaccessible"  => Latest(r) = "withheld"
            /\ verdict \notin {"failed_retryable", "rejected"}
        BY <1>0, <3>1, <4>1, Classified
      <4> HIDE DEF r, verdict
      <4>3. Latest(nsources[m])' = Latest(r)
        BY <4>1 DEF Latest
      <4> QED
        BY <3>1, <3>2, <4>1, <4>2, <4>3 DEF OutcomeTold
    <3>4. CASE ~ got(m)
      <4>1. told(m) \in {"rejected", "failed_retryable"}
        BY <1>0, <2>1, <2>8, <3>4 DEF Collected
      <4>2. nsources'[m] = nsources[m]
        BY <2>6, <3>1, <3>4
      <4> QED
        BY <3>1, <3>2, <4>1, <4>2 DEF OutcomeTold
    <3> QED
      BY <3>3, <3>4
  <2>14. njob'.phase = "done"
    BY <2>2, <2>3
  <2> QED
    BY <2>10, <2>11, <2>12, <2>13, <2>14 DEF NotesInv, Collected
<1>11. ASSUME NEW m \in Meetings, NEW o \in Opps, DecideNote(m, o) PROVE NotesInv'
  <2>1. nsources' = [nsources EXCEPT ![m] = Confirmed(nsources[m], o)] /\ UNCHANGED <<notes, nlast, njob, nbefore>>
    BY <1>0, <1>11 DEF DecideNote, NotesShapes
  <2>2. SameText(nsources[m], Confirmed(nsources[m], o))
    BY <1>0, Deciding DEF NotesShapes
  <2>3. /\ nsources' = [n \in Meetings |-> nsources'[n]]
        /\ \A n \in Meetings : Source(nsources'[n]) /\ nsources'[n].rev = nsources[n].rev /\ nsources'[n].avail = nsources[n].avail
    BY <1>0, <2>1, <2>2 DEF SameText, NotesShapes
  <2>4. \A n \in Meetings : Latest(nsources'[n]) = Latest(nsources[n])
    BY <2>3 DEF Latest
  <2>5. NotesShapes' /\ LastTold' /\ Collected'
    <3>1. NotesShapes'
      BY <1>0, <2>1, <2>3 DEF NotesShapes
    <3>2. LastTold'
      BY <1>0, <2>1, <2>3, <2>4 DEF LastTold
    <3>3. Collected'
      BY <1>0, <2>1, <2>3 DEF Collected
    <3> QED
      BY <3>1, <3>2, <3>3
  <2>6. njob.phase = "done" => \A n \in Selected : OutcomeTold(n)'
    BY <2>1, <2>3, <2>4 DEF NotesInv, OutcomeTold
  <2> QED
    BY <2>1, <2>5, <2>6 DEF NotesInv, Selected
<1>12. ASSUME NEW m \in Meetings, NEW k \in NoteKinds, ChangeNote(m, k) PROVE NotesInv'
  BY <1>0, <1>1, <1>12 DEF ChangeNote, NotesShapes
<1>13. CASE NotesCrash
  <2>1. njob' = NoNotesJob /\ UNCHANGED <<notes, nsources, nlast, nbefore>>
    BY <1>13 DEF NotesCrash
  <2>2. /\ NoNotesJob = [f \in JobFields |-> NoNotesJob[f]] /\ NoNotesJob.phase = "none"
        /\ NoNotesJob.ids = <<>> /\ NoNotesJob.at = 1 /\ NoNotesJob.details = <<>> /\ NoNotesJob.meetings = <<>> /\ NoNotesJob.order = <<>>
    BY DEF NoNotesJob, JobFields
  <2>3. \E S : njob'.meetings \in Seq(S)
    <3>1. <<>> \in Seq({})
      OBVIOUS
    <3> QED
      BY <2>1, <2>2, <3>1
  <2>4. NotesShapes'
    BY <1>0, <1>e, <2>1, <2>2, <2>3 DEF NotesShapes
  <2>5. LastTold' /\ Collected'
    BY <1>0, <2>1, <2>2 DEF LastTold, Collected
  <2> QED
    BY <2>1, <2>2, <2>4, <2>5 DEF NotesInv
<1>14. CASE UNCHANGED nvars
  BY <1>0, <1>1, <1>14 DEF nvars, NotesShapes
<1> QED
  BY <1>2, <1>3, <1>4, <1>5, <1>8, <1>9, <1>10, <1>11, <1>12, <1>13, <1>14 DEF NotesNext

\* granola_retrieval_service with its relay: whatever the language model in between
\* calls, answers or leaves out, a transcript is recorded only of its own meeting, and
\* the outcome a job reports for each meeting is what happened to that meeting's record.
THEOREM NotesOfTheirOwn == NotesSpec => []NotesMatch
<1>1. NotesInv => NotesMatch
  <2> SUFFICES ASSUME NotesInv PROVE NotesMatch
    OBVIOUS
  <2>1. NotesAreOwn
    BY DEF NotesInv, LastTold, PayloadOf, NotesAreOwn, Lost
  <2>2. OutcomesMatch
    BY DEF NotesInv, OutcomeTold, OutcomesMatch
  <2> QED
    BY <2>1, <2>2 DEF NotesMatch
<1> QED
  BY <1>1, NotesInductive, NotesInitially, PTL DEF NotesSpec

-----------------------------------------------------------------------------
(* Live transcription.                                                      *)

LiveFields == {"state", "labeled", "named", "segments", "pending", "recent", "warned"}

Elements(segments) == {segments[i] : i \in DOMAIN segments}

\* What the saved transcripts hold.
Saved == UNION {Elements(library[n].segments) : n \in DOMAIN library}

IsText(t) == \E S : t \in Seq(S)

SessionShape(s) ==
  /\ live[s] = [f \in LiveFields |-> live[s][f]]
  /\ stopper[s] = [f \in {"pc", "text", "path"} |-> stopper[s][f]]
  /\ IsText(live[s].segments) /\ IsText(stored[s].segments) /\ IsText(starting[s].segments)

LiveShapes ==
  /\ live = [s \in Sessions |-> live[s]] /\ stored = [s \in Sessions |-> stored[s]]
  /\ starting = [s \in Sessions |-> starting[s]] /\ stopper = [s \in Sessions |-> stopper[s]]
  /\ had = [s \in Sessions |-> had[s]]
  /\ library = [n \in 1 .. MaxVersions |-> library[n]]
  /\ \A s \in Sessions : SessionShape(s)

\* Of one session: its file and the copy that is still to be saved hold what the
\* session holds, or less; before it has an id neither is there; and each step of a
\* stop finds what its stop began with, in the file, the text or the library.
Held(s) ==
  /\ Elements(stored[s].segments) \subseteq Elements(live[s].segments)
  /\ Elements(starting[s].segments) \subseteq Elements(live[s].segments)
  /\ live[s].state \in {"off", "new"} => ~ live[s].named /\ stored[s] = Nothing /\ starting[s] = Nothing
  /\ had[s] \subseteq Elements(stored[s].segments) \cup Saved
  /\ starting[s] # Nothing => had[s] \subseteq Saved
  /\ stopper[s].pc = "write" => /\ had[s] \subseteq Elements(stopper[s].text) \cup Saved
                                /\ stopper[s].path \in 1 .. MaxVersions
                                /\ library[stopper[s].path] = Nothing
  /\ stopper[s].pc = "delete" => had[s] \subseteq Saved

LiveInv == LiveShapes /\ \A s \in Sessions : Held(s)

\* No two stops are about to write the same file. Sessions of one account that are
\* stopped at once can be: a stop looks for a free name and writes it later.
Apart ==
  \A s, t \in Sessions :
    s # t /\ stopper[s].pc = "write" /\ stopper[t].pc = "write" => stopper[s].path # stopper[t].path

\* No file, and a session in which nothing was said.
LEMMA NoElements == Elements(<<>>) = {} /\ Nothing.segments = <<>> /\ IsText(<<>>)
<1>1. <<>> \in Seq({})
  OBVIOUS
<1> QED
  BY <1>1 DEF Nothing, Elements, IsText

\* A saved copy is told from no file, and holds what was saved.
LEMMA CopyHolds == ASSUME NEW x PROVE Copy(x).segments = x /\ Copy(x) # Nothing
  BY DEF Copy, Nothing

\* One more utterance.
LEMMA MoreElements ==
  ASSUME NEW S, NEW s \in Seq(S), NEW x
  PROVE  Elements(Append(s, x)) = Elements(s) \cup {x} /\ IsText(Append(s, x))
<1>1. /\ DOMAIN Append(s, x) = DOMAIN s \cup {Len(s) + 1}
      /\ \A i \in DOMAIN s : Append(s, x)[i] = s[i]
      /\ Append(s, x)[Len(s) + 1] = x
      /\ Append(s, x) \in Seq(S \cup {x})
  BY Appended
<1> HIDE DEF Elements
<1>2. Elements(Append(s, x)) = Elements(s) \cup {x}
  BY <1>1 DEF Elements
<1>3. IsText(Append(s, x))
  BY <1>1 DEF IsText
<1> QED
  BY <1>2, <1>3

\* Before the first session.
LEMMA LiveInitially == LiveInit => LiveInv
<1> SUFFICES ASSUME LiveInit PROVE LiveInv
  OBVIOUS
<1>1. NoLive = [f \in LiveFields |-> NoLive[f]] /\ NoLive.segments = <<>> /\ NoLive.state = "off" /\ NoLive.named = FALSE
  BY DEF NoLive, LiveFields
<1>3. NoStopper = [f \in {"pc", "text", "path"} |-> NoStopper[f]] /\ NoStopper.pc = "idle"
  BY DEF NoStopper
<1>4. LiveShapes
  BY <1>1, <1>3, NoElements DEF LiveInit, LiveShapes, SessionShape
<1>5. \A s \in Sessions : Held(s)
  BY <1>1, <1>3, NoElements DEF LiveInit, Held
<1> QED
  BY <1>4, <1>5 DEF LiveInv

\* The saved transcripts only grow, so what holds of the sessions that take no part in
\* a step still holds after it.
LEMMA OthersHeld ==
  ASSUME LiveInv, NEW s \in Sessions, UNCHANGED library,
         live' = [t \in Sessions |-> live'[t]], stored' = [t \in Sessions |-> stored'[t]],
         starting' = [t \in Sessions |-> starting'[t]], stopper' = [t \in Sessions |-> stopper'[t]],
         had' = [t \in Sessions |-> had'[t]],
         \A t \in Sessions : t # s => /\ live'[t] = live[t] /\ stored'[t] = stored[t] /\ starting'[t] = starting[t]
                                      /\ stopper'[t] = stopper[t] /\ had'[t] = had[t],
         SessionShape(s)', Held(s)'
  PROVE  LiveInv'
<1>1. LiveShapes'
  <2>1. ASSUME NEW t \in Sessions, t # s PROVE SessionShape(t)'
    <3>1. SessionShape(t)
      BY DEF LiveInv, LiveShapes
    <3> QED
      BY <2>1, <3>1 DEF SessionShape
  <2> QED
    BY <2>1 DEF LiveInv, LiveShapes
<1>2. ASSUME NEW t \in Sessions, t # s PROVE Held(t)'
  <2>1. Saved' = Saved
    BY DEF Saved
  <2>2. Held(t)
    BY DEF LiveInv
  <2>3. /\ live'[t] = live[t] /\ stored'[t] = stored[t] /\ starting'[t] = starting[t]
        /\ stopper'[t] = stopper[t] /\ had'[t] = had[t]
    BY <1>2
  <2> QED
    BY <2>1, <2>2, <2>3 DEF Held
<1> QED
  BY <1>1, <1>2 DEF LiveInv

\* Every step of the sessions keeps the invariant, as long as stops write files of their own.
LEMMA LiveInductive == LiveInv /\ Apart /\ [LiveNext]_lvars => LiveInv'
<1> SUFFICES ASSUME LiveInv, Apart, [LiveNext]_lvars PROVE LiveInv'
  OBVIOUS
<1>0. LiveShapes /\ \A s \in Sessions : Held(s)
  BY DEF LiveInv
\* What a session whose segments grow keeps.
<1>1. ASSUME NEW s \in Sessions, NEW l, NEW ok \in BOOLEAN, NEW u, NEW x,
             x = [f \in LiveFields |-> x[f]], x.state = live[s].state, x.named = live[s].named,
             x.segments = live[s].segments, l = Emitted(x, u),
             Persists(s, l, ok), UNCHANGED <<starting, stopper, library, had>>
      PROVE  LiveInv'
  <2> DEFINE more == Append(live[s].segments, u)
  <2>1. l = [f \in LiveFields |-> l[f]] /\ l.segments = more /\ l.state = live[s].state /\ l.named = live[s].named
    BY <1>1 DEF Emitted, LiveFields
  <2>2. PICK S : live[s].segments \in Seq(S)
    BY <1>0 DEF LiveShapes, SessionShape, IsText
  <2>3. Elements(more) = Elements(live[s].segments) \cup {u} /\ IsText(more)
    BY <2>2, MoreElements
  <2> HIDE DEF more
  <2>4. ASSUME NEW b \in BOOLEAN
        PROVE  LET q == [l EXCEPT !.warned = b] IN
               q = [f \in LiveFields |-> q[f]] /\ q.segments = more /\ q.state = live[s].state /\ q.named = live[s].named
    BY <2>1 DEF LiveFields
  <2>5. \E q : /\ q = [f \in LiveFields |-> q[f]] /\ q.segments = more /\ q.state = live[s].state /\ q.named = live[s].named
               /\ live' = [live EXCEPT ![s] = q]
               /\ \/ UNCHANGED stored
                  \/ q.named /\ stored' = [stored EXCEPT ![s] = Copy(more)]
    BY <1>1, <2>1, <2>4 DEF Persists
  <2>6. PICK q : /\ q = [f \in LiveFields |-> q[f]] /\ q.segments = more /\ q.state = live[s].state /\ q.named = live[s].named
                 /\ live' = [live EXCEPT ![s] = q]
                 /\ \/ UNCHANGED stored
                    \/ q.named /\ stored' = [stored EXCEPT ![s] = Copy(more)]
    BY <2>5
  <2>7. /\ live'[s] = q /\ live' = [t \in Sessions |-> live'[t]] /\ stored' = [t \in Sessions |-> stored'[t]]
        /\ stored'[s] = stored[s] \/ (live[s].named /\ stored'[s] = Copy(more))
        /\ \A t \in Sessions : t # s => live'[t] = live[t] /\ stored'[t] = stored[t]
    BY <1>0, <2>6 DEF LiveShapes
  <2>8. Held(s)'
    <3>1. Held(s) /\ UNCHANGED <<starting, stopper, library, had>> /\ Saved' = Saved
      BY <1>0, <1>1 DEF Saved
    <3>2. live'[s].segments = more /\ live'[s].state = live[s].state /\ live'[s].named = live[s].named
      BY <2>6, <2>7
    <3>3. Elements(stored[s].segments) \subseteq Elements(stored'[s].segments)
      BY <2>3, <2>7, <3>1, CopyHolds DEF Held
    <3>4. Elements(stored'[s].segments) \subseteq Elements(more)
      BY <2>3, <2>7, <3>1, CopyHolds DEF Held
    <3>5. live[s].named \/ stored'[s] = stored[s]
      BY <2>7
    <3> QED
      BY <2>3, <3>1, <3>2, <3>3, <3>4, <3>5 DEF Held
  <2>9. live'[s] = [f \in LiveFields |-> live'[s][f]] /\ IsText(live'[s].segments) /\ IsText(stored'[s].segments)
    BY <1>0, <2>3, <2>6, <2>7, CopyHolds DEF LiveShapes, SessionShape
  <2> QED
    BY <1>0, <1>1, <2>7, <2>8, <2>9, OthersHeld, NoElements, CopyHolds DEF LiveShapes, SessionShape
<1>2. ASSUME NEW s \in Sessions, NEW c \in Channels, NEW ok \in BOOLEAN, SegmentEmitted(s, c, ok) PROVE LiveInv'
  <2> DEFINE l == live[s]
             u == Said(c, said[s][c] + 1)
             x == IF l.labeled THEN [l EXCEPT !.recent = @ \cup {u}] ELSE l
  <2>1. x = [f \in LiveFields |-> x[f]] /\ x.state = l.state /\ x.named = l.named /\ x.segments = l.segments
    <3>1. l = [f \in LiveFields |-> l[f]]
      BY <1>0 DEF LiveShapes, SessionShape
    <3>2. ASSUME NEW k PROVE LET y == [l EXCEPT !.recent = k] IN
            y = [f \in LiveFields |-> y[f]] /\ y.state = l.state /\ y.named = l.named /\ y.segments = l.segments
      BY <3>1 DEF LiveFields
    <3> QED
      BY <3>1, <3>2
  <2>2. Persists(s, Emitted(x, u), ok) /\ UNCHANGED <<starting, stopper, library, had>>
    BY <1>2 DEF SegmentEmitted
  <2> HIDE DEF x, u
  <2> QED
    BY <1>1, <2>1, <2>2
\* A session whose object changes in nothing that is kept.
<1>3. ASSUME NEW s \in Sessions, NEW q, q = [f \in LiveFields |-> q[f]], live' = [live EXCEPT ![s] = q],
             q.segments = live[s].segments, q.state = live[s].state, q.named = live[s].named,
             UNCHANGED <<stored, starting, stopper, library, had>>
      PROVE  LiveInv'
  <2>1. live'[s] = q /\ live' = [t \in Sessions |-> live'[t]] /\ \A t \in Sessions : t # s => live'[t] = live[t]
    BY <1>0, <1>3 DEF LiveShapes
  <2>2. Held(s)'
    <3>1. Saved' = Saved
      BY <1>3 DEF Saved
    <3>2. Held(s)
      BY <1>0
    <3> QED
      BY <1>3, <2>1, <3>1, <3>2 DEF Held
  <2>3. IsText(live'[s].segments)
    BY <1>0, <1>3, <2>1 DEF LiveShapes, SessionShape
  <2> QED
    BY <1>0, <1>3, <2>1, <2>2, <2>3, OthersHeld, NoElements, CopyHolds DEF LiveShapes, SessionShape
<1>4. ASSUME NEW s \in Sessions, SegmentHeld(s) PROVE LiveInv'
  <2>1. PICK p : live' = [live EXCEPT ![s].pending = p]
    BY <1>4 DEF SegmentHeld
  <2> DEFINE q == [live[s] EXCEPT !.pending = p]
  <2>2. q = [f \in LiveFields |-> q[f]] /\ q.segments = live[s].segments /\ q.state = live[s].state /\ q.named = live[s].named
    BY <1>0 DEF LiveShapes, SessionShape, LiveFields
  <2>3. live' = [live EXCEPT ![s] = q] /\ UNCHANGED <<stored, starting, stopper, library, had>>
    BY <1>4, <2>1 DEF SegmentHeld
  <2> HIDE DEF q
  <2> QED
    BY <1>3, <2>2, <2>3
<1>5. ASSUME NEW s \in Sessions, Forgets(s) PROVE LiveInv'
  <2> DEFINE q == [live[s] EXCEPT !.recent = {}]
  <2>1. q = [f \in LiveFields |-> q[f]] /\ q.segments = live[s].segments /\ q.state = live[s].state /\ q.named = live[s].named
    BY <1>0 DEF LiveShapes, SessionShape, LiveFields
  <2>2. live' = [live EXCEPT ![s] = q] /\ UNCHANGED <<stored, starting, stopper, library, had>>
    BY <1>5 DEF Forgets
  <2> HIDE DEF q
  <2> QED
    BY <1>3, <2>1, <2>2
<1>6. ASSUME UNCHANGED <<live, stored, starting, stopper, library, had>> PROVE LiveInv'
  <2>1. LiveShapes'
    BY <1>0, <1>6 DEF LiveShapes, SessionShape
  <2>2. \A s \in Sessions : Held(s)'
    BY <1>0, <1>6 DEF Held, Saved
  <2> QED
    BY <2>1, <2>2 DEF LiveInv
<1>7. ASSUME NEW s \in Sessions, NEW labeled \in BOOLEAN, StartLive(s, labeled) PROVE LiveInv'
  <2> DEFINE q == [NoLive EXCEPT !.state = "new", !.labeled = labeled]
  <2>1. q = [f \in LiveFields |-> q[f]] /\ q.segments = <<>> /\ q.state = "new" /\ ~ q.named
    BY DEF NoLive, LiveFields
  <2>2. /\ live' = [live EXCEPT ![s] = q] /\ UNCHANGED <<stored, starting, stopper, library, had>>
        /\ live[s].state = "off"
    BY <1>7 DEF StartLive
  <2> HIDE DEF q
  <2>3. live'[s] = q /\ live' = [t \in Sessions |-> live'[t]] /\ \A t \in Sessions : t # s => live'[t] = live[t]
    BY <1>0, <2>2 DEF LiveShapes
  <2>4. Held(s)'
    <3>1. stored[s] = Nothing /\ starting[s] = Nothing /\ Saved' = Saved
      BY <1>0, <2>2 DEF Held, Saved
    <3> QED
      BY <1>0, <2>1, <2>2, <2>3, <3>1, NoElements DEF Held
  <2> QED
    BY <1>0, <2>1, <2>2, <2>3, <2>4, OthersHeld, NoElements, CopyHolds DEF LiveShapes, SessionShape
<1>8. ASSUME NEW s \in Sessions, Register(s) PROVE LiveInv'
  <2> DEFINE q == [live[s] EXCEPT !.state = "live", !.named = TRUE]
  <2>1. q = [f \in LiveFields |-> q[f]] /\ q.segments = live[s].segments /\ q.state = "live"
    BY <1>0 DEF LiveShapes, SessionShape, LiveFields
  <2>2. /\ live' = [live EXCEPT ![s] = q] /\ starting' = [starting EXCEPT ![s] = Copy(live[s].segments)]
        /\ UNCHANGED <<stored, stopper, library, had>> /\ live[s].state = "new"
    BY <1>8 DEF Register
  <2> HIDE DEF q
  <2>3. /\ live'[s] = q /\ live' = [t \in Sessions |-> live'[t]] /\ starting' = [t \in Sessions |-> starting'[t]]
        /\ starting'[s] = Copy(live[s].segments)
        /\ \A t \in Sessions : t # s => live'[t] = live[t] /\ starting'[t] = starting[t]
    BY <1>0, <2>2 DEF LiveShapes
  <2>4. Held(s)'
    <3>1. stored[s] = Nothing /\ had[s] \subseteq Saved /\ Saved' = Saved
      BY <1>0, <2>2, NoElements DEF Held, Saved
    <3> QED
      BY <1>0, <2>1, <2>2, <2>3, <3>1, CopyHolds DEF Held
  <2>5. IsText(live'[s].segments)
    BY <1>0, <2>1, <2>3 DEF LiveShapes, SessionShape
  <2> QED
    BY <1>0, <2>1, <2>2, <2>3, <2>4, <2>5, OthersHeld, NoElements, CopyHolds DEF LiveShapes, SessionShape
<1>9. ASSUME NEW s \in Sessions, NEW ok \in BOOLEAN, SaveStart(s, ok) PROVE LiveInv'
  <2> DEFINE q == IF ok THEN live[s] ELSE [live[s] EXCEPT !.warned = TRUE]
  <2>1. /\ q = [f \in LiveFields |-> q[f]] /\ q.segments = live[s].segments /\ q.state = live[s].state
        /\ q.named = live[s].named
    BY <1>0 DEF LiveShapes, SessionShape, LiveFields
  <2>2. live' = [live EXCEPT ![s] = q]
    BY <1>0, <1>9 DEF SaveStart, LiveShapes
  <2> HIDE DEF q
  <2>3. /\ starting' = [starting EXCEPT ![s] = Nothing] /\ UNCHANGED <<stopper, library, had>>
        /\ UNCHANGED stored \/ stored' = [stored EXCEPT ![s] = starting[s]]
        /\ starting[s] # Nothing
    BY <1>9 DEF SaveStart
  <2>4. /\ live'[s] = q /\ live' = [t \in Sessions |-> live'[t]] /\ starting' = [t \in Sessions |-> starting'[t]]
        /\ stored' = [t \in Sessions |-> stored'[t]] /\ starting'[s] = Nothing /\ stored'[s] \in {stored[s], starting[s]}
        /\ \A t \in Sessions : t # s => live'[t] = live[t] /\ starting'[t] = starting[t] /\ stored'[t] = stored[t]
    BY <1>0, <2>2, <2>3 DEF LiveShapes
  <2>5. Held(s)'
    <3>1. had[s] \subseteq Saved /\ Saved' = Saved /\ live[s].state \notin {"off", "new"}
      BY <1>0, <2>3 DEF Held, Saved
    <3>2. Elements(stored'[s].segments) \subseteq Elements(live[s].segments)
      BY <1>0, <2>4 DEF Held
    <3> QED
      BY <1>0, <2>1, <2>3, <2>4, <3>1, <3>2, NoElements DEF Held
  <2>6. IsText(live'[s].segments)
    BY <1>0, <2>1, <2>4 DEF LiveShapes, SessionShape
  <2> QED
    BY <1>0, <2>1, <2>3, <2>4, <2>5, <2>6, OthersHeld, NoElements, CopyHolds DEF LiveShapes, SessionShape
\* A step of the stop of a session.
<1>10. ASSUME NEW s \in Sessions, NEW q, q = [f \in {"pc", "text", "path"} |-> q[f]],
              stopper' = [stopper EXCEPT ![s] = q], UNCHANGED <<live, starting, library, had>>,
              UNCHANGED stored \/ (stored' = [stored EXCEPT ![s] = Nothing] /\ stopper[s].pc = "delete"),
              q.pc \in {"flush", "failed", "path", "done"} \/ (q.pc = "write" /\ Held(s)')
       PROVE  LiveInv'
  <2>1. /\ stopper'[s] = q /\ stopper' = [t \in Sessions |-> stopper'[t]] /\ stored' = [t \in Sessions |-> stored'[t]]
        /\ \/ stored'[s] = stored[s]
           \/ stored'[s] = Nothing /\ stopper[s].pc = "delete"
        /\ \A t \in Sessions : t # s => stopper'[t] = stopper[t] /\ stored'[t] = stored[t]
    BY <1>0, <1>10 DEF LiveShapes, SessionShape
  <2>2. Held(s)'
    <3>1. Saved' = Saved
      BY <1>10 DEF Saved
    <3>2. CASE q.pc \in {"flush", "failed", "path", "done"}
      BY <1>0, <1>10, <2>1, <3>1, <3>2, NoElements DEF Held
    <3> QED
      BY <1>10, <3>2
  <2>3. /\ live'[s] = [f \in LiveFields |-> live'[s][f]] /\ (IsText(live'[s].segments))
        /\ live' = [t \in Sessions |-> live'[t]] /\ starting' = [t \in Sessions |-> starting'[t]]
        /\ had' = [t \in Sessions |-> had'[t]]
    BY <1>0, <1>10 DEF LiveShapes, SessionShape
  <2> QED
    <3>1. SessionShape(s)'
      BY <1>0, <1>10, <2>1, <2>3, NoElements DEF LiveShapes, SessionShape
    <3> QED
      BY <1>10, <2>1, <2>2, <2>3, <3>1, OthersHeld
<1>11. ASSUME NEW s \in Sessions, NEW pc PROVE LET q == [stopper[s] EXCEPT !.pc = pc] IN
              /\ q = [f \in {"pc", "text", "path"} |-> q[f]] /\ q.pc = pc
              /\ q.text = stopper[s].text /\ q.path = stopper[s].path
  BY <1>0 DEF LiveShapes, SessionShape
<1>12. ASSUME NEW s \in Sessions, StopPop(s) PROVE LiveInv'
  <2> DEFINE q == [live[s] EXCEPT !.state = "stopped"]
             p == [stopper[s] EXCEPT !.pc = "flush"]
             h == IF starting[s] = Nothing THEN Kept(s) ELSE {}
  <2>1. q = [f \in LiveFields |-> q[f]] /\ q.segments = live[s].segments /\ q.state = "stopped"
    BY <1>0 DEF LiveShapes, SessionShape, LiveFields
  <2>2. p = [f \in {"pc", "text", "path"} |-> p[f]] /\ p.pc = "flush"
    BY <1>11
  <2>3. /\ live' = [live EXCEPT ![s] = q] /\ stopper' = [stopper EXCEPT ![s] = p] /\ had' = [had EXCEPT ![s] = h]
        /\ UNCHANGED <<stored, starting, library>>
    BY <1>12 DEF StopPop
  <2>4. h \subseteq Elements(stored[s].segments) \cup Saved /\ (starting[s] # Nothing => h = {})
    BY DEF Kept, Elements, Saved
  <2> HIDE DEF q, p, h
  <2>5. /\ live'[s] = q /\ live' = [t \in Sessions |-> live'[t]] /\ stopper' = [t \in Sessions |-> stopper'[t]]
        /\ stopper'[s] = p /\ had' = [t \in Sessions |-> had'[t]] /\ had'[s] = h
        /\ \A t \in Sessions : t # s => live'[t] = live[t] /\ stopper'[t] = stopper[t] /\ had'[t] = had[t]
    BY <1>0, <2>3 DEF LiveShapes
  <2>6. Held(s)'
    <3>1. Saved' = Saved
      BY <2>3 DEF Saved
    <3> QED
      BY <1>0, <2>1, <2>2, <2>3, <2>4, <2>5, <3>1 DEF Held
  <2>7. IsText(live'[s].segments)
    BY <1>0, <2>1, <2>5 DEF LiveShapes, SessionShape
  <2> QED
    BY <1>0, <2>1, <2>2, <2>3, <2>5, <2>6, <2>7, OthersHeld, NoElements, CopyHolds DEF LiveShapes, SessionShape
<1>13. ASSUME NEW s \in Sessions, StopFlush(s) PROVE LiveInv'
  <2> DEFINE pc == IF FlushRaises(live[s]) THEN "failed" ELSE "path"
             q == [stopper[s] EXCEPT !.pc = pc]
  <2>1. q = [f \in {"pc", "text", "path"} |-> q[f]] /\ q.pc = pc
    BY <1>11
  <2>2. stopper' = [stopper EXCEPT ![s] = q] /\ UNCHANGED <<live, stored, starting, library, had>>
    BY <1>13 DEF StopFlush
  <2>3. pc \in {"failed", "path"}
    OBVIOUS
  <2> HIDE DEF q, pc
  <2> QED
    BY <1>10, <2>1, <2>2, <2>3
<1>14. ASSUME NEW s \in Sessions, StopPath(s) PROVE LiveInv'
  <2> DEFINE n == CHOOSE n \in DOMAIN library : library[n] = Nothing /\ \A k \in 1 .. n - 1 : library[k] # Nothing
             q == [pc |-> "write", text |-> live[s].segments, path |-> n]
  <2>1. \E k \in DOMAIN library : library[k] = Nothing
    BY <1>14 DEF StopPath
  <2>2. n \in 1 .. MaxVersions /\ library[n] = Nothing
    <3>1. DOMAIN library = 1 .. MaxVersions
      BY <1>0 DEF LiveShapes
    <3> DEFINE free == {k \in DOMAIN library : library[k] = Nothing}
    <3>2. free \subseteq Nat /\ free # {}
      BY <2>1, <3>1
    <3>3. PICK k \in free : \A j \in free : k <= j
      BY <3>2, Least
    <3>4. k \in DOMAIN library /\ library[k] = Nothing /\ \A j \in 1 .. k - 1 : library[j] # Nothing
      BY <3>1, <3>3, LiveAssumption
    <3> QED
      BY <3>1, <3>4
  <2> HIDE DEF n
  <2>3. q = [f \in {"pc", "text", "path"} |-> q[f]] /\ q.pc = "write" /\ q.text = live[s].segments /\ q.path = n
    OBVIOUS
  <2>4. stopper' = [stopper EXCEPT ![s] = q] /\ UNCHANGED <<live, stored, starting, library, had>>
    BY <1>14 DEF StopPath, n
  <2> HIDE DEF q
  <2>5. stopper'[s] = q
    BY <1>0, <2>4 DEF LiveShapes
  <2>6. Held(s)'
    <3>1. Saved' = Saved
      BY <2>4 DEF Saved
    <3> QED
      BY <1>0, <2>2, <2>3, <2>4, <2>5, <3>1 DEF Held
  <2> QED
    BY <1>10, <2>3, <2>4, <2>6
<1>15. ASSUME NEW s \in Sessions, StopWrite(s) PROVE LiveInv'
  <2> DEFINE q == [stopper[s] EXCEPT !.pc = "delete"]
             n == stopper[s].path
             text == stopper[s].text
  <2>1. q = [f \in {"pc", "text", "path"} |-> q[f]] /\ q.pc = "delete"
    BY <1>11
  <2>2. /\ stopper' = [stopper EXCEPT ![s] = q] /\ library' = [library EXCEPT ![n] = Copy(text)]
        /\ UNCHANGED <<live, stored, starting, had>> /\ stopper[s].pc = "write"
    BY <1>15 DEF StopWrite
  <2> HIDE DEF q
  <2>3. n \in 1 .. MaxVersions /\ library[n] = Nothing
    BY <1>0, <2>2 DEF Held
  <2>4. /\ library' = [k \in 1 .. MaxVersions |-> library'[k]] /\ library'[n] = Copy(text)
        /\ \A k \in 1 .. MaxVersions : k # n => library'[k] = library[k]
        /\ DOMAIN library = 1 .. MaxVersions
    BY <1>0, <2>2, <2>3 DEF LiveShapes
  <2> HIDE DEF n, text
  <2>5. Saved' = Saved \cup Elements(text)
    <3>1. ASSUME NEW x \in Saved' PROVE x \in Saved \cup Elements(text)
      <4>1. PICK k \in 1 .. MaxVersions : x \in Elements(library'[k].segments)
        BY <2>4, <3>1 DEF Saved
      <4> QED
        BY <2>4, <4>1, CopyHolds DEF Saved
    <3>2. ASSUME NEW x \in Saved PROVE x \in Saved'
      <4>1. PICK k \in 1 .. MaxVersions : x \in Elements(library[k].segments)
        BY <2>4, <3>2 DEF Saved
      <4>2. k # n
        BY <2>3, <4>1, NoElements
      <4>3. x \in Elements(library'[k].segments) /\ k \in DOMAIN library'
        BY <2>4, <4>1, <4>2
      <4> QED
        BY <4>3 DEF Saved
    <3>3. ASSUME NEW x \in Elements(text) PROVE x \in Saved'
      <4>1. x \in Elements(library'[n].segments) /\ n \in DOMAIN library'
        BY <2>3, <2>4, <3>3, CopyHolds
      <4> QED
        BY <4>1 DEF Saved
    <3> QED
      BY <3>1, <3>2, <3>3
  <2>6. /\ stopper'[s] = q /\ stopper' = [t \in Sessions |-> stopper'[t]]
        /\ \A t \in Sessions : t # s => stopper'[t] = stopper[t]
    BY <1>0, <2>2 DEF LiveShapes
  <2>7. Held(s)'
    <3>1. had[s] \subseteq Elements(text) \cup Saved
      BY <1>0, <2>2 DEF Held, text
    <3> QED
      BY <1>0, <2>1, <2>2, <2>5, <2>6, <3>1 DEF Held
  <2>8. ASSUME NEW t \in Sessions, t # s PROVE Held(t)'
    <3>1. stopper[t].pc = "write" => stopper[t].path # n
      BY <2>2, <2>8 DEF Apart, n
    <3>2. Held(t) /\ stopper'[t] = stopper[t] /\ UNCHANGED <<live, stored, starting, had>>
      BY <1>0, <2>2, <2>6, <2>8
    <3>3. stopper[t].pc = "write" => library'[stopper[t].path] = Nothing
      BY <2>4, <3>1, <3>2 DEF Held
    <3> QED
      BY <2>5, <3>2, <3>3 DEF Held
  <2>9. LiveShapes'
    BY <1>0, <2>1, <2>2, <2>4, <2>6 DEF LiveShapes, SessionShape
  <2> QED
    BY <2>7, <2>8, <2>9 DEF LiveInv
<1>16. ASSUME NEW s \in Sessions, NEW ok \in BOOLEAN, StopDelete(s, ok) PROVE LiveInv'
  <2> DEFINE q == [stopper[s] EXCEPT !.pc = "done"]
  <2>1. q = [f \in {"pc", "text", "path"} |-> q[f]] /\ q.pc = "done"
    BY <1>11
  <2>2. /\ stopper' = [stopper EXCEPT ![s] = q] /\ UNCHANGED <<live, starting, library, had>>
        /\ UNCHANGED stored \/ (stored' = [stored EXCEPT ![s] = Nothing] /\ stopper[s].pc = "delete")
    BY <1>16 DEF StopDelete
  <2> HIDE DEF q
  <2> QED
    BY <1>10, <2>1, <2>2
<1>17. CASE LiveRestart
  <2> DEFINE back(s) == IF stored[s] = Nothing THEN NoLive
                        ELSE [NoLive EXCEPT !.state = "recovered", !.named = TRUE, !.segments = stored[s].segments]
  <2>1. /\ live' = [s \in Sessions |-> back(s)] /\ starting' = [s \in Sessions |-> Nothing]
        /\ stopper' = [s \in Sessions |-> NoStopper] /\ UNCHANGED <<stored, library, had>>
    BY <1>17 DEF LiveRestart
  <2>2. ASSUME NEW s \in Sessions
        PROVE  /\ back(s) = [f \in LiveFields |-> back(s)[f]] /\ back(s).segments = stored[s].segments
               /\ back(s).state \in {"off", "new"} => ~ back(s).named /\ stored[s] = Nothing
    <3>1. CASE stored[s] = Nothing
      BY <3>1 DEF NoLive, LiveFields, Nothing
    <3>2. CASE stored[s] # Nothing
      <4> DEFINE q == [NoLive EXCEPT !.state = "recovered", !.named = TRUE, !.segments = stored[s].segments]
      <4>1. q = [f \in LiveFields |-> q[f]] /\ q.segments = stored[s].segments /\ q.state = "recovered"
        BY DEF NoLive, LiveFields
      <4>2. back(s) = q
        BY <3>2
      <4> HIDE DEF q, back
      <4> QED
        BY <4>1, <4>2
    <3> QED
      BY <3>1, <3>2
  <2>3. NoStopper = [f \in {"pc", "text", "path"} |-> NoStopper[f]] /\ NoStopper.pc = "idle"
    BY DEF NoStopper
  <2> HIDE DEF back
  <2>4. \A s \in Sessions : live'[s] = back(s) /\ starting'[s] = Nothing /\ stopper'[s] = NoStopper
    BY <2>1
  <2>5. \A s \in Sessions : IsText(stored[s].segments)
    BY <1>0 DEF LiveShapes, SessionShape
  <2>6. LiveShapes'
    <3>1. \A s \in Sessions : SessionShape(s)'
      BY <2>1, <2>2, <2>3, <2>4, <2>5, NoElements DEF SessionShape
    <3> QED
      BY <1>0, <2>1, <3>1 DEF LiveShapes
  <2>7. \A s \in Sessions : Held(s)'
    <3>1. Saved' = Saved
      BY <2>1 DEF Saved
    <3> QED
      BY <1>0, <2>1, <2>2, <2>3, <2>4, <3>1, NoElements DEF Held
  <2> QED
    BY <2>6, <2>7 DEF LiveInv
<1>18. ASSUME NEW s \in Sessions, NEW c \in Channels, SegmentRaises(s, c) PROVE LiveInv'
  BY <1>6, <1>18 DEF SegmentRaises
<1>19. CASE UNCHANGED lvars
  BY <1>6, <1>19 DEF lvars
<1> QED
  BY <1>2, <1>4, <1>5, <1>7, <1>8, <1>9, <1>12, <1>13, <1>14, <1>15, <1>16, <1>17, <1>18, <1>19 DEF LiveNext

\* stop_session: as long as no two stops write the same file, what is on disk of a
\* session when its stop is requested stays on disk, with late segments, failing writes
\* and restarts of the process in between.
THEOREM StopsKeep == LiveSpec /\ []Apart => []StopKeepsAll
<1>1. LiveInv => StopKeepsAll
  BY DEF LiveInv, Held, StopKeepsAll, Kept, Elements, Saved
<1> QED
  BY <1>1, LiveInductive, LiveInitially, PTL DEF LiveSpec
=============================================================================
