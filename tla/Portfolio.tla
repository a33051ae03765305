----------------------------- MODULE Portfolio -----------------------------
(***************************************************************************)
(* The Salesforce portfolio and the calendar of the local web app:         *)
(* services/salesforce_portfolio_service.py over the sf command line tool  *)
(* (integrations/salesforce.py), services/calendar_snapshot_service.py     *)
(* over integrations/calendar_readonly.py, and the routes that call them.  *)
(*                                                                         *)
(* A refresh runs on the event loop and holds an asyncio lock over its     *)
(* query. A mapping is confirmed in a thread of the server's pool, without *)
(* a lock: it reads the file, checks, and replaces the file.               *)
(***************************************************************************)
EXTENDS Naturals, Sequences, FiniteSets

CONSTANTS
  CrmIds,           \* opportunities of Salesforce
  Folders,          \* local opportunities
  Home,             \* the folder establish_local makes for an id
  Scopes,           \* an SE with a set of AEs
  InScope,          \* the open opportunities of each scope
  RowLimit,         \* MAX_ROWS
  MaxPages,         \* of a calendar listing
  Refreshers, Mappers,
  MaxCrmEvents

ASSUME PortfolioAssumption ==
  /\ IsFiniteSet(CrmIds) /\ "none" \notin Folders \cup Scopes
  /\ Home \in [CrmIds -> Folders] /\ InScope \in [Scopes -> SUBSET CrmIds]
  /\ {RowLimit, MaxPages, MaxCrmEvents} \subseteq Nat

VARIABLES
  crm,        \* salesforce-portfolio.json
  mappings,   \* salesforce-mappings.json
  folders,    \* the local opportunities that exist
  queue,      \* who holds and who waits for the refresh lock
  asks,       \* the scope each refresher refreshes
  mapper,     \* the threads that confirm a mapping
  linked,     \* the folders whose sources name the id of a Salesforce opportunity
  calendar,   \* calendar-week.json
  crmEvents

pvars == <<crm, mappings, folders, queue, asks, mapper, linked, calendar, crmEvents>>

None == "none"
NoSuccess == [scope |-> None, rows |-> {}, complete |-> TRUE]
NoFile == [success |-> NoSuccess, attempt |-> [scope |-> None, state |-> "not_checked"]]
NoMapper == [pc |-> "idle", id |-> None, folder |-> None, read |-> <<>>]

CrmEvent == crmEvents < MaxCrmEvents /\ crmEvents' = crmEvents + 1

-----------------------------------------------------------------------------
(* The refresh.                                                             *)

\* The states active_opportunity_portfolio can end in without rows.
QueryFailures == {"auth_error", "error", "disabled", "invalid_scope"}

\* active_opportunity_portfolio: at most limit rows, one more shows that there
\* are others. Nothing of an answer with two rows of one id, or one without an id,
\* is used.
PortfolioRows(rows) ==
  {sub \in SUBSET rows : Cardinality(sub) = IF Cardinality(rows) > RowLimit THEN RowLimit ELSE Cardinality(rows)}
Truncated(rows) == Cardinality(rows) > RowLimit

\* api_command_center_salesforce_refresh: the scope is the user's.
AskRefresh(r, scope) ==
  /\ asks[r] = None /\ CrmEvent
  /\ asks' = [asks EXCEPT ![r] = scope]
  /\ queue' = Append(queue, r)
  /\ UNCHANGED <<crm, mappings, folders, mapper, linked, calendar>>

\* api_command_center_update: the scope is the one of the file, read before the
\* lock is waited for.
AskUpdate(r) ==
  /\ asks[r] = None /\ crm.success.scope # None /\ CrmEvent
  /\ asks' = [asks EXCEPT ![r] = crm.success.scope]
  /\ queue' = Append(queue, r)
  /\ UNCHANGED <<crm, mappings, folders, mapper, linked, calendar>>

RefreshForgets(file, scope, state, rows) ==
  [success |-> [scope |-> scope, rows |-> rows, complete |-> ~Truncated(InScope[scope])],
   attempt |-> [scope |-> scope, state |-> state]]

\* refresh, the file: only a good answer replaces the last good one.
Refreshed(file, scope, state, rows) ==
  [success |-> IF state = "ok"
               THEN [scope |-> scope, rows |-> rows, complete |-> ~Truncated(InScope[scope])]
               ELSE file.success,
   attempt |-> [scope |-> scope, state |-> state]]

\* refresh under the lock: the query, and then the file without another await.
Refresh(r, state, rows) ==
  /\ queue # <<>> /\ Head(queue) = r
  /\ IF state = "ok" THEN rows \in PortfolioRows(InScope[asks[r]]) ELSE rows = {}
  /\ crm' = Refreshed(crm, asks[r], state, rows)
  /\ queue' = Tail(queue)
  /\ asks' = [asks EXCEPT ![r] = None]
  /\ UNCHANGED <<mappings, folders, mapper, linked, calendar, crmEvents>>

-----------------------------------------------------------------------------
(* Mappings.                                                                *)

\* api_command_center_salesforce_mapping: the local opportunities are read first.
StartMapping(t, id, f) ==
  /\ mapper[t].pc = "idle" /\ f \in folders /\ CrmEvent
  /\ mapper' = [mapper EXCEPT ![t] = [NoMapper EXCEPT !.pc = "check", !.id = id, !.folder = f]]
  /\ UNCHANGED <<crm, mappings, folders, queue, asks, linked, calendar>>

\* establish_local: an id that has a mapping keeps it, else a folder named after
\* the id is made.
StartEstablish(t, id) ==
  /\ mapper[t].pc = "idle" /\ id \in crm.success.rows /\ mappings[id] = None /\ CrmEvent
  /\ folders' = folders \cup {Home[id]}
  /\ mapper' = [mapper EXCEPT ![t] = [NoMapper EXCEPT !.pc = "check", !.id = id, !.folder = Home[id]]]
  /\ UNCHANGED <<crm, mappings, queue, asks, linked, calendar>>

FolderIsAnyones(read, id, f) == TRUE

\* confirm_mapping: no other id has the folder.
FolderIsFree(read, id, f) == \A other \in CrmIds \ {id} : read[other] # f

\* confirm_mapping up to its checks: the id is one of the last good refresh.
ReadMappings(t) ==
  LET m == mapper[t] IN
  /\ m.pc = "check"
  /\ mapper' = [mapper EXCEPT ![t] =
       IF m.id \in crm.success.rows /\ FolderIsFree(mappings, m.id, m.folder)
       THEN [m EXCEPT !.pc = "write", !.read = mappings] ELSE NoMapper]
  /\ UNCHANGED <<crm, mappings, folders, queue, asks, linked, calendar, crmEvents>>

\* _write replaces the file by what was read, with the one mapping set.
WriteMappings(t) ==
  LET m == mapper[t] IN
  /\ m.pc = "write"
  /\ mappings' = [m.read EXCEPT ![m.id] = m.folder]
  /\ mapper' = [mapper EXCEPT ![t] = NoMapper]
  /\ UNCHANGED <<crm, folders, queue, asks, linked, calendar, crmEvents>>

\* local_identity: the row of the id that is mapped to the folder.
LocalIdentity(f) == {id \in CrmIds : mappings[id] = f /\ id \in crm.success.rows}

-----------------------------------------------------------------------------
(* The rows of the command center (command_center_read_service.py).         *)

\* confirm_association, whose identity has the id, and its correction.
Associate(id, f) ==
  /\ f \in folders /\ CrmEvent
  /\ linked' = [linked EXCEPT ![id] = IF f \in @ THEN @ \ {f} ELSE @ \cup {f}]
  /\ UNCHANGED <<crm, mappings, folders, queue, asks, mapper, calendar>>

\* _portfolio_rows: sources come before mappings, and count only if they agree.
LinkOf(id) ==
  IF Cardinality(linked[id]) = 1 THEN CHOOSE f \in linked[id] : TRUE
  ELSE IF linked[id] = {} /\ mappings[id] \in folders THEN mappings[id]
  ELSE None

JoinedAny(f) == {id \in crm.success.rows : LinkOf(id) = f}

\* "Ambiguous local targets are never joined silently."
Joined(f) == {id \in crm.success.rows : LinkOf(id) = f /\ \A other \in CrmIds \ {id} : LinkOf(other) # f}

\* _crm_snapshot: what is said of the snapshot; its age is left out.
Coverage ==
  IF crm.success = NoSuccess THEN crm.attempt.state
  ELSE IF crm.attempt.state # "ok" THEN "stale"
  ELSE IF ~crm.success.complete THEN "truncated" ELSE "refreshed"

-----------------------------------------------------------------------------
(* The calendar.                                                            *)

\* The kinds of event refresh tells apart, with the calls that it keeps.
EventKinds == {"call", "declined", "private", "all_day", "cancelled"}
Calls(events) == events \cap {"call"}

\* _token and list_events: every page, or nothing: with a page more than
\* MaxPages the listing is refused.
Listing(pages) == IF Len(pages) > MaxPages THEN "result_truncated" ELSE "ok"

CalendarFailures == {"not_authorized", "provider_unavailable", "invalid_response"}

\* CalendarSnapshotService.refresh: the last good week stays when this one fails.
CalendarRefreshed(file, state, events) ==
  [attempt |-> state, events |-> IF state = "ok" THEN Calls(events) ELSE file.events, had |-> file.had \/ state = "ok"]

RefreshCalendar(state, pages) ==
  /\ CrmEvent
  /\ state \in CalendarFailures \cup {Listing(pages)}
  /\ calendar' = CalendarRefreshed(calendar, state, UNION {pages[i] : i \in DOMAIN pages})
  /\ UNCHANGED <<crm, mappings, folders, queue, asks, mapper, linked>>

\* CalendarSnapshotService.snapshot.
CalendarState(file) ==
  IF file.attempt # "not_checked" /\ file.attempt # "ok" /\ file.had THEN "stale" ELSE file.attempt

-----------------------------------------------------------------------------
PortfolioInit ==
  /\ crm = NoFile
  /\ mappings = [id \in CrmIds |-> None]
  /\ folders \in {{}, Folders}
  /\ queue = <<>>
  /\ asks = [r \in Refreshers |-> None]
  /\ mapper = [t \in Mappers |-> NoMapper]
  /\ linked = [id \in CrmIds |-> {}]
  /\ calendar = [attempt |-> "not_checked", events |-> {}, had |-> FALSE]
  /\ crmEvents = 0

PortfolioNext ==
  \/ \E r \in Refreshers :
       \/ AskUpdate(r)
       \/ \E s \in Scopes : AskRefresh(r, s)
       \/ \E state \in QueryFailures \cup {"ok"}, rows \in SUBSET CrmIds : Refresh(r, state, rows)
  \/ \E t \in Mappers :
       \/ \E id \in CrmIds : StartEstablish(t, id) \/ \E f \in Folders : StartMapping(t, id, f)
       \/ ReadMappings(t) \/ WriteMappings(t)
  \/ \E id \in CrmIds, f \in Folders : Associate(id, f)
  \/ \E state \in CalendarFailures \cup {"ok", "result_truncated"},
        pages \in UNION {[1 .. n -> {{}, {"call"}, EventKinds}] : n \in 1 .. MaxPages + 1} :
       RefreshCalendar(state, pages)

PortfolioSpec == PortfolioInit /\ [][PortfolioNext]_pvars
-----------------------------------------------------------------------------
(* Properties.                                                              *)

\* No local opportunity stands for two Salesforce opportunities: confirm_mapping
\* refuses the second, and local_identity shows at most one.
OneIdPerFolder == \A f \in Folders : Cardinality({id \in CrmIds : mappings[id] = f}) <= 1

\* A row of the portfolio is of one Salesforce opportunity, whatever sources and
\* mappings say of it; and while no source says anything, it is the one that
\* local_identity shows. "Refreshed" is said only of the whole scope that was asked for.
RowsAreJoined ==
  /\ \A f \in Folders : Cardinality(Joined(f)) <= 1
  /\ (\A id \in CrmIds : linked[id] = {}) => \A f \in folders : Joined(f) = LocalIdentity(f)
  /\ Coverage = "refreshed" => crm.success.rows = InScope[crm.attempt.scope]

\* A local opportunity is one opportunity of Salesforce, in the mappings and in the rows.
RowsAreOwn == OneIdPerFolder /\ RowsAreJoined

\* A refresh that fails takes nothing away: what is shown changes only with a
\* complete answer, and is then what this answer said.
LastGoodStays ==
  [][/\ crm'.success # crm.success => crm'.attempt = [scope |-> crm'.success.scope, state |-> "ok"]
     /\ calendar'.events # calendar.events => CalendarState(calendar') = "ok"]_pvars
=============================================================================
