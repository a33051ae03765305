---------------------------- MODULE CustomerFiles ----------------------------
(***************************************************************************)
(* The customer folders of the local web app: services/account_service.py  *)
(* (create, rename and merge, archive, trash), services/output_service.py  *)
(* and services/feedback_service.py (the outputs of a folder, their        *)
(* metadata and their reviews), and the sync of routes/salesforce.py,      *)
(* which renames a folder after its account in Salesforce.                 *)
(*                                                                         *)
(* A request is one step and takes at least a second: the stamps of trash  *)
(* and of duplicates are seconds. A run of a skill has three steps, its    *)
(* start, the agent's write and the record of its end, and keeps the name  *)
(* of the folder it was started for. A folder has one place for outputs    *)
(* and all outputs have one stem, so that they collide when folders merge. *)
(***************************************************************************)
EXTENDS Naturals, Sequences, FiniteSets
LOCAL INSTANCE SequencesExt

CONSTANTS
  Names,          \* folder names
  Accounts,       \* Salesforce accounts
  FirstName,      \* the name each account has at first, with a folder
  MaxRequests,    \* steps, one second each
  MaxDocs,        \* outputs
  MaxMarks        \* steps that move nothing

ASSUME CustomerFilesAssumption ==
  /\ FirstName \in [Accounts -> Names] /\ \A i, j \in Accounts : FirstName[i] = FirstName[j] => i = j
  /\ {MaxRequests, MaxDocs, MaxMarks} \subseteq Nat

VARIABLES
  dirs,       \* the customer folders
  trash,      \* _trash: folders by name and second, and single outputs
  crmName,    \* Account.Name, as a folder name
  run,        \* the skill run under way
  clock, docs, marks

cvars == <<dirs, trash, crmName, run, clock, docs, marks>>

Unset == "nothing"
NoFiles == [n \in {} |-> Unset]
NoRecord == [ok |-> FALSE, at |-> 0]
EmptyDir == [files |-> NoFiles, id |-> Unset, owner |-> Unset, archived |-> FALSE, last |-> NoRecord]
NoCustomerRun == [pc |-> "idle", account |-> Unset, since |-> 0]

Exists(D, a) == a \in DOMAIN D

Put(f, x, y)     == [z \in DOMAIN f \cup {x} |-> IF z = x THEN y ELSE f[z]]
Without(f, gone) == [z \in DOMAIN f \ gone |-> f[z]]

\* A step takes a second. The requests that only mark a folder or an output are
\* counted apart.
Step    == clock <= MaxRequests /\ clock' = clock + 1
Request == Step /\ marks' = marks
Mark    == Step /\ marks < MaxMarks /\ marks' = marks + 1

-----------------------------------------------------------------------------
(* File names. dup is the row of __dup-<second> suffixes of the stem; a       *)
(* sidecar that was renamed with a suffix belongs to no output any more:      *)
(* x.md.json becomes x.md__dup-S.json and not x__dup-S.md.json.               *)

Out(kind)      == [kind |-> kind, dup |-> <<>>]
IsOutput(n)    == n.kind \in {"md", "html"}
SidecarFor(n)  == [kind |-> n.kind \o ".json", dup |-> n.dup]
FeedbackFor(n) == [kind |-> "feedback", dup |-> n.dup]
Stray(kind)    == IF kind \in {"md", "html"} THEN kind ELSE "stray"

\* _dedupe_path
DedupePath(n, second) ==
  [kind |-> Stray(n.kind), dup |-> Append(n.dup, second)]

MoveFilesOver(from, into, items, second) ==
  [m \in DOMAIN into \cup items |-> IF m \in items THEN from[m] ELSE into[m]]

\* _merge_account_dirs, the files whose names have as many suffixes: each moves to
\* its own name or, if that is taken, to the name _dedupe_path gives.
MoveFiles(from, into, items, second) ==
  LET target == [n \in items |-> IF n \in DOMAIN into THEN DedupePath(n, second) ELSE n] IN
  [m \in DOMAIN into \cup {target[n] : n \in items} |->
     IF \E n \in items : target[n] = m
     THEN from[CHOOSE n \in items : target[n] = m] ELSE into[m]]

\* _merge_account_dirs goes through a folder in the order of the names, where a
\* suffix comes after its stem, and sees what it has moved so far.
MergedFiles(from, into, second) ==
  LET suffixes == {Len(n.dup) : n \in DOMAIN from}
      after[k \in 0..MaxRequests] ==
        LET sofar == IF k = 0 THEN into ELSE after[k - 1] IN
        IF k \notin suffixes THEN sofar
        ELSE MoveFiles(from, sofar, {n \in DOMAIN from : Len(n.dup) = k}, second)
  IN after[MaxRequests]

\* latest_run: the record that ended last; records with a suffix count too.
LatestRun(one, other) == IF one.at > other.at THEN one ELSE other

\* _merge_account_dirs: of the control files the ones of the destination stay.
MergeAccountDirs(src, dest, second) ==
  [files    |-> MergedFiles(src.files, dest.files, second),
   id       |-> IF dest.id # Unset THEN dest.id ELSE src.id,
   owner    |-> IF dest.owner # Unset THEN dest.owner ELSE src.owner,
   archived |-> dest.archived \/ src.archived,
   last     |-> LatestRun(src.last, dest.last)]

\* _write_sfdc_identity
WithId(dir, id) == IF id = Unset THEN dir ELSE [dir EXCEPT !.id = id]

\* rename_account
RenameAccount(D, a, b, id, second) ==
  IF a = b THEN [D EXCEPT ![a] = WithId(D[a], id)]
  ELSE Put(Without(D, {a}), b,
           WithId(IF Exists(D, b) THEN MergeAccountDirs(D[a], D[b], second) ELSE D[a], id))

-----------------------------------------------------------------------------
(* Accounts.                                                                 *)

Folder(a) == IF Exists(dirs, a) THEN dirs[a] ELSE EmptyDir

\* create_account, alone and in bulk: what is there stays.
CreateAccount(a, id, owner) ==
  /\ Request
  /\ dirs' = Put(dirs, a, WithId([Folder(a) EXCEPT !.owner = IF owner # Unset THEN owner ELSE @], id))
  /\ UNCHANGED <<trash, crmName, run, docs>>

\* api_rename_account
Rename(a, b) ==
  /\ Request /\ Exists(dirs, a)
  /\ dirs' = RenameAccount(dirs, a, b, Unset, clock)
  /\ UNCHANGED <<trash, crmName, run, docs>>

\* set_owner, archive, unarchive and bulk_action: an account that is gone is
\* reported and the others are done.
Marked(dir, action) ==
  CASE action = "set-owner" -> [dir EXCEPT !.owner = "se"]
    [] action = "archive"   -> [dir EXCEPT !.archived = TRUE]
    [] action = "unarchive" -> [dir EXCEPT !.archived = FALSE]

BulkAction(action, names) ==
  /\ Mark /\ \E a \in names : Exists(dirs, a)
  /\ dirs' = [a \in DOMAIN dirs |-> IF a \in names THEN Marked(dirs[a], action) ELSE dirs[a]]
  /\ UNCHANGED <<trash, crmName, run, docs>>

\* delete_account, alone and in bulk
DeleteAccounts(names) ==
  /\ Request /\ \E a \in names : Exists(dirs, a)
  /\ dirs' = Without(dirs, names)
  /\ trash' = trash \cup {[name |-> a, at |-> clock, dir |-> dirs[a]] : a \in names \cap DOMAIN dirs}
  /\ UNCHANGED <<crmName, run, docs>>

\* list_trash: the outputs deleted one by one are files and not listed.
ListTrash == {t \in trash : t.name # Unset}

\* restore_trash: 409 when there is a folder of that name again.
RestoreTrash(t) ==
  /\ Request /\ t \in ListTrash /\ ~Exists(dirs, t.name)
  /\ dirs' = Put(dirs, t.name, t.dir)
  /\ trash' = trash \ {t}
  /\ UNCHANGED <<crmName, run, docs>>

-----------------------------------------------------------------------------
(* The sync with Salesforce.                                                 *)

\* Somebody renames an account in Salesforce. No two accounts have one name.
RenameInSalesforce(i, b) ==
  /\ Request /\ \A j \in Accounts : crmName[j] # b
  /\ crmName' = [crmName EXCEPT ![i] = b]
  /\ UNCHANGED <<dirs, trash, run, docs>>

\* _find_local_account_by_sfdc_id: the folders that carry the id.
Carrying(D, i) == {a \in DOMAIN D : D[a].id = i}

\* accounts_for_member: what is known of an account before anything is renamed.
Item(D, i, local) ==
  [account |-> i, name |-> crmName[i],
   renamedFrom |-> IF local # crmName[i] THEN local ELSE Unset,
   exists |-> Exists(D, crmName[i]) \/ local # Unset]

\* api_sfdc_accounts, one item: a folder that is gone by now is left out.
Reconciled(D, item, second) ==
  IF item.renamedFrom # Unset
  THEN IF Exists(D, item.renamedFrom) THEN RenameAccount(D, item.renamedFrom, item.name, item.account, second) ELSE D
  ELSE IF item.exists /\ Exists(D, item.name)
       THEN [D EXCEPT ![item.name] = WithId(@, item.account)] ELSE D

\* api_sfdc_accounts: new business in the order of the names, then renewals. With
\* several folders of one id the first is taken.
Sync(order, local) ==
  /\ Request
  /\ \A i \in Accounts : IF Carrying(dirs, i) = {} THEN local[i] = Unset ELSE local[i] \in Carrying(dirs, i)
  /\ dirs' = FoldLeft(LAMBDA D, i : Reconciled(D, Item(dirs, i, local[i]), clock), dirs, order)
  /\ UNCHANGED <<trash, crmName, run, docs>>

Orders == {s \in [1..Cardinality(Accounts) -> Accounts] : \A i \in Accounts : \E k \in DOMAIN s : s[k] = i}

-----------------------------------------------------------------------------
(* Outputs.                                                                  *)

\* parse_output, by the output it is about.
ParseOutput(file) == [doc |-> file.doc, at |-> clock]

\* read_or_parse_sidecar: a sidecar as old as its output is used as it is.
ReadOrParse(files, n) ==
  IF SidecarFor(n) \in DOMAIN files /\ files[SidecarFor(n)].at >= files[n].at THEN files[SidecarFor(n)]
  ELSE ParseOutput(files[n])

\* list_outputs: the sidecars of all Markdown outputs are read or made.
ListOutputs(a) ==
  /\ Mark /\ Exists(dirs, a)
  /\ LET files == dirs[a].files
         mds   == {n \in DOMAIN files : n.kind = "md"}
     IN dirs' = [dirs EXCEPT ![a].files =
          [m \in DOMAIN files \cup {SidecarFor(n) : n \in mds} |->
             IF \E n \in mds : m = SidecarFor(n)
             THEN ReadOrParse(files, CHOOSE n \in mds : m = SidecarFor(n)) ELSE files[m]]]
  /\ UNCHANGED <<trash, crmName, run, docs>>

\* add_feedback: only for Markdown; the entry is appended.
AddFeedback(a, n, action) ==
  /\ Mark /\ Exists(dirs, a)
  /\ n \in DOMAIN dirs[a].files /\ n.kind = "md"
  /\ LET files == dirs[a].files
         old   == IF FeedbackFor(n) \in DOMAIN files THEN files[FeedbackFor(n)].entries ELSE <<>>
         entry == [action |-> action, doc |-> files[n].doc]
     IN dirs' = [dirs EXCEPT ![a].files = Put(@, FeedbackFor(n), [entries |-> Append(old, entry)])]
  /\ UNCHANGED <<trash, crmName, run, docs>>

\* delete_output: the output goes with its sidecars; x.html has those of x.md.
DeleteOutput(a, n) ==
  /\ Request /\ Exists(dirs, a)
  /\ n \in DOMAIN dirs[a].files /\ IsOutput(n)
  /\ LET gone == {n, SidecarFor(n), FeedbackFor(n)} \cap DOMAIN dirs[a].files IN
     /\ dirs' = [dirs EXCEPT ![a].files = Without(@, gone)]
     /\ trash' = trash \cup {[name |-> Unset, at |-> clock, dir |-> [EmptyDir EXCEPT !.files = [m \in gone |-> dirs[a].files[m]]]]}
  /\ UNCHANGED <<crmName, run, docs>>

\* The start of a run: opp_outputs_dir makes the folder.
StartSkill(a) ==
  /\ Request /\ run.pc = "idle" /\ Exists(dirs, a)
  /\ run' = [pc |-> "running", account |-> a, since |-> clock]
  /\ UNCHANGED <<dirs, trash, crmName, docs>>

\* The agent writes an output where it was told to, under a free name.
AgentWrites(kind) ==
  /\ Request /\ run.pc = "running" /\ docs < MaxDocs
  /\ Out(kind) \notin DOMAIN Folder(run.account).files
  /\ docs' = docs + 1
  /\ dirs' = Put(dirs, run.account,
       [Folder(run.account) EXCEPT !.files = Put(@, Out(kind), [doc |-> docs + 1, at |-> clock])])
  /\ run' = [run EXCEPT !.pc = "written"]
  /\ UNCHANGED <<trash, crmName>>

\* has_output_since
OutputSince(files, since) == \E n \in DOMAIN files : IsOutput(n) /\ files[n].at >= since

\* _write_output_sidecar: for the newest Markdown output of the folder.
Newest(files) ==
  {n \in DOMAIN files : /\ n.kind = "md"
                        /\ \A m \in DOMAIN files : m.kind = "md" => files[m].at <= files[n].at}

\* persist_run: the folder is made again if it is gone.
PersistRun ==
  /\ Request /\ run.pc # "idle"
  /\ LET files == Folder(run.account).files
         dir   == [Folder(run.account) EXCEPT !.last = [ok |-> OutputSince(files, run.since), at |-> clock]]
     IN dirs' = Put(dirs, run.account,
          IF Newest(files) = {} THEN dir
          ELSE LET n == CHOOSE n \in Newest(files) : TRUE IN
               [dir EXCEPT !.files = Put(files, SidecarFor(n), ParseOutput(files[n]))])
  /\ run' = NoCustomerRun
  /\ UNCHANGED <<trash, crmName, docs>>

-----------------------------------------------------------------------------
(* What the dashboard shows.                                                 *)

\* output_review_status: the last entry of the feedback file.
ReviewStatus(files, n) ==
  IF FeedbackFor(n) \notin DOMAIN files THEN "awaiting review"
  ELSE files[FeedbackFor(n)].entries[Len(files[FeedbackFor(n)].entries)].action

\* output_validation_status, by the output the sidecar is about.
ValidationOf(files, n) == IF SidecarFor(n) \in DOMAIN files THEN files[SidecarFor(n)].doc ELSE Unset

\* walk_all_outputs, walk_account_outputs and collect_output
WalkAllOutputs ==
  UNION {{[account |-> a, kind |-> n.kind, doc |-> dirs[a].files[n].doc,
           validation |-> ValidationOf(dirs[a].files, n), review |-> ReviewStatus(dirs[a].files, n)] :
          n \in {m \in DOMAIN dirs[a].files : IsOutput(m)}} : a \in DOMAIN dirs}

-----------------------------------------------------------------------------
FilesInit ==
  /\ crmName = FirstName
  /\ LET doc == CHOOSE f \in [Accounts -> 1..Cardinality(Accounts)] : \A i, j \in Accounts : f[i] = f[j] => i = j
         of(a) == CHOOSE i \in Accounts : FirstName[i] = a
     IN dirs = [a \in {FirstName[i] : i \in Accounts} |->
          [EmptyDir EXCEPT !.id = of(a), !.files = Put(@, Out("md"), [doc |-> doc[of(a)], at |-> 0])]]
  /\ trash = {} /\ run = NoCustomerRun
  /\ clock = 1 /\ docs = Cardinality(Accounts) /\ marks = 0

\* The accounts of one request: one of them, or all.
SomeNames == {{a} : a \in Names} \cup {Names}

AccountNext ==
  \/ \E a \in Names, id \in Accounts \cup {Unset} : CreateAccount(a, id, "se")
  \/ \E a, b \in Names : a # b /\ Rename(a, b)
  \/ \E names \in SomeNames :
       \/ \E action \in {"set-owner", "archive", "unarchive"} : BulkAction(action, names)
       \/ DeleteAccounts(names)
  \/ \E t \in trash : RestoreTrash(t)
  \/ \E i \in Accounts, b \in Names : RenameInSalesforce(i, b)
  \/ \E order \in Orders, local \in [Accounts -> Names \cup {Unset}] : Sync(order, local)

OutputNext ==
  \/ \E a \in Names : ListOutputs(a) \/ StartSkill(a)
  \/ \E a \in DOMAIN dirs : \E n \in DOMAIN dirs[a].files :
       \/ \E action \in {"approve", "comment", "correct"} : AddFeedback(a, n, action)
       \/ DeleteOutput(a, n)
  \/ \E kind \in {"md", "html"} : AgentWrites(kind)
  \/ PersistRun

FilesNext == AccountNext \/ OutputNext

FilesSpec == FilesInit /\ [][FilesNext]_cvars

-----------------------------------------------------------------------------
DocsOf(dir) == {dir.files[n].doc : n \in {m \in DOMAIN dir.files : IsOutput(m)}}

\* rename_account, delete_account and restore_trash, while a run still writes under
\* the old name and the sync renames folders: every output an agent wrote is in a
\* customer folder or in the trash ("so no outputs are lost").
NothingLost ==
  \A d \in 1..docs :
    \/ \E a \in DOMAIN dirs : d \in DocsOf(dirs[a])
    \/ \E t \in trash : d \in DocsOf(t.dir)
=============================================================================
