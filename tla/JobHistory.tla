----------------------------- MODULE JobHistory -----------------------------
(* How the worker-analysis skill collects the job history of a customer and   *)
(* keeps it: get_or_fetch_job_history answers from the newest file of the     *)
(* customer's folder when that is at most a week old, and otherwise finds the *)
(* organization, walks its workspaces, connections and jobs through the API   *)
(* and writes a new file. Every command is a process of its own: several may  *)
(* run at once, and one may be killed at any step. Nothing is locked, and a   *)
(* file is written in place.                                                  *)
(* A name is a customer name as it was typed; Folded and Normal give what the *)
(* code compares (lower case; without suffixes and punctuation) and FolderOf  *)
(* the folder it makes of it.                                                 *)
EXTENDS Integers, Sequences, FiniteSets, FiniteSetsExt, SequencesExt

CONSTANTS
  Procs,            \* the commands
  Names, Folded, Normal, FolderOf,
  Orgs, OrgMap,     \* organizations; the confirmed names and their organizations
  WorkspaceMap,     \* the organizations whose workspaces are confirmed
  Connections,      \* the connections of an organization
  MaxFailures,      \* refusals in a row that end a report (five)
  MaxAge, KeepAge,  \* days: a cached history is used, and kept
  MaxDay,           \* bound: the days that pass
  MaxWrites,        \* bound: the times a history file is opened or filled
  MaxCommands       \* bound: the commands given

ASSUME AgeAssumption == MaxAge \in Nat /\ KeepAge \in Nat /\ MaxAge < KeepAge

VARIABLES
  day, stamp, serial,   \* the clock: days, the seconds that name a file, the order of the writes
  files,            \* the cache: a set of files
  orgFile,          \* org_mappings.json, name -> organization; one that was cut short reads empty
  proc, given       \* the commands, and how many there were

hvars == <<day, stamp, serial, files, orgFile, proc, given>>

NoOrg   == "no organization"
MaxRetries == 3
Folders == {FolderOf[n] : n \in Names}

Idle == [at |-> "idle"]

(* A command starts at an idle process.                                       *)
Given(p) ==
  /\ proc[p].at = "idle" /\ given < MaxCommands
  /\ given' = given + 1

---------------------------------------------------------------------------
(* The cache.                                                                 *)

(* Mutant: a file that does not parse is served as far as it goes.            *)
LoadedAnyway(f) == TRUE

(* json.load; a file that was cut short is no history at all.                 *)
Loads(f) == f.whole

InFolder(n) == {f \in files : f.folder = FolderOf[n]}

(* The file written last, whether it was finished or not.                     *)
GetLatestCacheFile(n) ==
  CHOOSE f \in InFolder(n) : \A g \in InFolder(n) : g.serial <= f.serial

Age(f) == day - f.day

HasCache(n) == InFolder(n) # {}

GetCached(n) ==
  IF HasCache(n) /\ Loads(GetLatestCacheFile(n)) THEN {GetLatestCacheFile(n)} ELSE {}

(* The customer an organization is found under: the folder it is cached in.   *)
FindCustomerByOrgId(org) ==
  {n \in Names : \E f \in GetCached(n) : f.org = org}

---------------------------------------------------------------------------
(* The organization of a name: a confirmed name first, by case and then by    *)
(* what is left of it, then the names that were saved.                        *)

(* The first key that matches; the order of the keys is any.                  *)
GetOrganizationInfo(n) ==
  LET ByCase == {k \in DOMAIN OrgMap : Folded[k] = Folded[n]}
      ByRest == {k \in DOMAIN OrgMap : Normal[k] = Normal[n]}
      Saved  == {k \in DOMAIN orgFile : Folded[k] = Folded[n] \/ Normal[k] = Normal[n]}
  IN IF ByCase # {} THEN {OrgMap[k] : k \in ByCase}
     ELSE IF ByRest # {} THEN {OrgMap[k] : k \in ByRest}
     ELSE IF n \in DOMAIN orgFile THEN {orgFile[n]}
     ELSE IF Saved # {} THEN {orgFile[k] : k \in Saved}
     ELSE {NoOrg}

(* save_customer_org_mapping reads the whole file, adds the name, and, when   *)
(* it differs, what is left of it, and writes the file in place.              *)
WithMapping(old, n, org) ==
  [k \in DOMAIN old \cup {n} \cup ({Normal[n]} \cap Names) |->
     IF k = n \/ k = Normal[n] THEN org ELSE old[k]]

---------------------------------------------------------------------------
Set(p, r) == proc' = [proc EXCEPT ![p] = r]
Fail(p)   == Set(p, Idle)
CacheSame == UNCHANGED <<day, stamp, serial, files, orgFile>>

(* The age is taken from one look at the folder, the content from the next.   *)
Ask(p, n, force) ==
  /\ Given(p)
  /\ Set(p, [at |-> IF ~force /\ HasCache(n) /\ Age(GetLatestCacheFile(n)) <= MaxAge
                    THEN "aged" ELSE "lookup", name |-> n, day |-> day,
            newest |-> Max({f.serial : f \in InFolder(n)} \cup {0})])
  /\ CacheSame

ServeCached(p) ==
  /\ proc[p].at = "aged"
  /\ IF GetCached(proc[p].name) # {}
     THEN \E f \in GetCached(proc[p].name) :
            Set(p, [at |-> "served", file |-> f, name |-> proc[p].name,
                    day |-> proc[p].day, newest |-> proc[p].newest])
     ELSE Set(p, [proc[p] EXCEPT !.at = "lookup"])
  /\ CacheSame /\ UNCHANGED given

(* Without a mapping the organization of the cached history is used, however  *)
(* old it is.                                                                 *)
ResolveOrganization(p, org) ==
  /\ proc[p].at = "lookup"
  /\ LET n == proc[p].name
         found == GetOrganizationInfo(n)
     IN IF found # {NoOrg} THEN org \in found
        ELSE IF GetCached(n) # {} THEN org \in {f.org : f \in GetCached(n)}
        ELSE org = NoOrg
  /\ IF org = NoOrg THEN Fail(p)
     ELSE Set(p, [at |-> "workspaces", name |-> proc[p].name, org |-> org])
  /\ CacheSame /\ UNCHANGED given

(* Confirmed workspaces, or those the API lists: an error ends the command.   *)
(* When none of the listed ones says it belongs to the organization, all are  *)
(* taken. Then the connections of each, page by page.                         *)
FetchWorkspaces(p, ok, listed) ==
  /\ proc[p].at = "workspaces"
  /\ LET org  == proc[p].org
         own  == listed \cap {org}
         used == IF org \in WorkspaceMap THEN {org} ELSE IF own = {} THEN listed ELSE own
     IN IF ~ok THEN Fail(p)
        ELSE Set(p, [at |-> "jobs", name |-> proc[p].name, org |-> org,
                     left |-> UNION {Connections[o] : o \in used}, got |-> {}, tries |-> 0])
  /\ CacheSame /\ UNCHANGED given

(* One connection: a timeout or a full quota is tried again, three times in   *)
(* all; any other error, or the third, leaves the connection without jobs,    *)
(* and the analysis goes on.                                                  *)
FetchJobHistory(p, c, answer) ==
  /\ proc[p].at = "jobs" /\ c \in proc[p].left
  /\ LET r == proc[p]
         again == answer = "busy" /\ r.tries + 1 < MaxRetries
     IN Set(p, IF again THEN [r EXCEPT !.tries = @ + 1]
               ELSE [r EXCEPT !.tries = 0, !.left = @ \ {c},
                              !.got = IF answer = "jobs" THEN @ \cup {c} ELSE @])
  /\ CacheSame /\ UNCHANGED given

(* The file is opened, and then filled. It is named by the second, so that a  *)
(* command that saves within the second of another opens the same file.       *)
OpenCacheFile(p, same) ==
  /\ proc[p].at = "jobs" /\ proc[p].left = {} /\ serial < MaxWrites
  /\ LET r == proc[p]
         newest == {f \in InFolder(r.name) : f.stamp = stamp /\ f.day = day}
         mine == [folder |-> FolderOf[r.name], stamp |-> IF same THEN stamp ELSE stamp + 1,
                  by |-> p, serial |-> serial + 1, day |-> day, whole |-> FALSE,
                  org |-> r.org, got |-> r.got]
     IN /\ same => newest # {}
        /\ files' = (IF same THEN files \ newest ELSE files) \cup {mine}
        /\ stamp' = mine.stamp
        /\ Set(p, [at |-> "writing", name |-> r.name, file |-> mine])
  /\ serial' = serial + 1
  /\ UNCHANGED <<day, orgFile, given>>

(* Writing touches the file again. When another command has opened it since,  *)
(* the two contents are mixed, and what is there parses only by luck; when it *)
(* was removed, what is written is gone with it.                              *)
FillCacheFile(p, luck) ==
  /\ proc[p].at = "writing" /\ serial < MaxWrites
  /\ LET mine == proc[p].file
         there == {f \in files : f.folder = mine.folder /\ f.stamp = mine.stamp}
     IN files' = (files \ there)
                   \cup {[mine EXCEPT !.serial = serial + 1, !.day = day,
                                      !.whole = f.by = p \/ luck] : f \in there}
  /\ serial' = serial + 1
  /\ Set(p, Idle)
  /\ UNCHANGED <<day, stamp, orgFile, given>>

(* Killed: an open file stays as it is.                                       *)
Killed(p) ==
  /\ proc[p].at \notin {"idle", "served"}
  /\ Fail(p)
  /\ CacheSame /\ UNCHANGED given

---------------------------------------------------------------------------
(* The scheduling report walks the workspaces in turn and keeps nothing: one  *)
(* that fails has no connections, and when MaxFailures were refused for the   *)
(* quota, with no success between them, the others are left out.              *)
StartReport(p, n) ==
  /\ Given(p)
  /\ \E org \in GetOrganizationInfo(n) :
       IF org = NoOrg THEN Fail(p)
       ELSE Set(p, [at |-> "report", left |-> Connections[org], got |-> {}, refused |-> 0])
  /\ CacheSame

FetchWorkspaceData(p, w, answer) ==
  /\ proc[p].at = "report" /\ w \in proc[p].left /\ proc[p].refused < MaxFailures
  /\ Set(p, [proc[p] EXCEPT !.left = @ \ {w},
                             !.got = IF answer = "jobs" THEN @ \cup {w} ELSE @,
                             !.refused = CASE answer = "jobs" -> 0
                                           [] answer = "busy" -> @ + 1
                                           [] OTHER -> @])
  /\ CacheSame /\ UNCHANGED given

EndReport(p) ==
  /\ proc[p].at = "report"
  /\ proc[p].left = {} \/ proc[p].refused >= MaxFailures
  /\ Set(p, Idle)
  /\ CacheSame /\ UNCHANGED given

---------------------------------------------------------------------------
ClearOldCache(p) ==
  /\ Given(p)
  /\ files' = {f \in files : Age(f) <= KeepAge}
  /\ Set(p, Idle)
  /\ UNCHANGED <<day, stamp, serial, orgFile>>

SaveMappingReads(p, n, org) ==
  /\ Given(p)
  /\ Set(p, [at |-> "mapping", open |-> FALSE, new |-> WithMapping(orgFile, n, org)])
  /\ CacheSame

SaveMappingOpens(p) ==
  /\ proc[p].at = "mapping" /\ ~proc[p].open
  /\ orgFile' = << >>
  /\ Set(p, [proc[p] EXCEPT !.open = TRUE])
  /\ UNCHANGED <<day, stamp, serial, files, given>>

SaveMappingFills(p) ==
  /\ proc[p].at = "mapping" /\ proc[p].open
  /\ orgFile' = proc[p].new
  /\ Set(p, Idle)
  /\ UNCHANGED <<day, stamp, serial, files, given>>

Served(p) ==
  /\ proc[p].at = "served"
  /\ Set(p, Idle)
  /\ CacheSame /\ UNCHANGED given

NextDay ==
  /\ day < MaxDay
  /\ day' = day + 1
  /\ UNCHANGED <<stamp, serial, files, orgFile, proc, given>>

---------------------------------------------------------------------------
JHInit ==
  /\ day = 0 /\ stamp = 0 /\ serial = 0 /\ files = {} /\ orgFile = << >>
  /\ proc = [p \in Procs |-> Idle] /\ given = 0

JHNext ==
  \/ NextDay
  \/ \E p \in Procs :
       \/ \E n \in Names, force \in BOOLEAN : Ask(p, n, force)
       \/ ServeCached(p)
       \/ \E org \in Orgs \cup {NoOrg} : ResolveOrganization(p, org)
       \/ \E ok \in BOOLEAN, listed \in SUBSET Orgs : FetchWorkspaces(p, ok, listed)
       \/ \E c \in UNION {Connections[o] : o \in Orgs}, a \in {"jobs", "busy", "error"} :
            FetchJobHistory(p, c, a)
       \/ \E same \in BOOLEAN : OpenCacheFile(p, same)
       \/ \E luck \in BOOLEAN : FillCacheFile(p, luck)
       \/ \E n \in Names : StartReport(p, n)
       \/ \E w \in UNION {Connections[o] : o \in Orgs}, a \in {"jobs", "busy", "error"} :
            FetchWorkspaceData(p, w, a)
       \/ EndReport(p)
       \/ Killed(p)
       \/ ClearOldCache(p)
       \/ \E n \in Names, org \in Orgs : SaveMappingReads(p, n, org)
       \/ SaveMappingOpens(p)
       \/ SaveMappingFills(p)
       \/ Served(p)

JHSpec == JHInit /\ [][JHNext]_hvars

---------------------------------------------------------------------------
(* What get_or_fetch_job_history answers without asking the API is a history  *)
(* that some command wrote to the end, no more than MaxAge old when it was    *)
(* asked for, and the newest one of the folder then or newer: files cut short *)
(* by a kill, two commands in one file, a clean-up or a second look at the    *)
(* folder change nothing about it.                                            *)
ServedIsWhole ==
  \A p \in Procs :
    proc[p].at = "served" =>
      LET f == proc[p].file
      IN /\ f.whole /\ f.folder = FolderOf[proc[p].name]
         /\ proc[p].day - f.day <= MaxAge
         /\ f.serial >= proc[p].newest
=============================================================================
