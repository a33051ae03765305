----------------------------- MODULE MailIntake -----------------------------
(***************************************************************************)
(* Gmail intake of the local web app: the access check, the bounded        *)
(* listing, the retrieval job and the revocation of                        *)
(* services/gmail_intake_service.py, over the live read-only transport of  *)
(* integrations/gmail_live.py, and the removal of one mail as far as it    *)
(* concerns the intake (gmail_forget_service.py).                          *)
(*                                                                         *)
(* One event loop runs everything; what interleaves are the awaits, that   *)
(* is the requests to Google. Each request reads the credential file       *)
(* again, so two requests of one operation may speak for two accounts.     *)
(* Addresses, threads and domains are signals: two mails that share one    *)
(* concern the same people.                                                *)
(***************************************************************************)
EXTENDS EvidenceLedger, FiniteSets

CONSTANTS
  Messages, Mailboxes,
  Box,            \* the mailbox of each message
  Signals,        \* the external contacts, domains and thread of each message
  MaxEvents,      \* bound on what users and the accounts do
  MaxFaults,      \* bound on requests that fail and deaths of the process
  MaxRevision,    \* revisions of a source
  Nobody          \* no mailbox

ASSUME MailAssumption ==
  /\ Box \in [Messages -> Mailboxes] /\ Nobody \notin Mailboxes
  /\ {MaxEvents, MaxFaults, MaxRevision} \subseteq Nat

VARIABLES
  grant,      \* the credential file and what Google grants: whose mailbox, and
              \* whether it grants more than reading
  mail,       \* what Google answers for each message, and the text's version
  marker,     \* the persisted access check
  sources,    \* the ledger's record of each message ...
  last,       \* ... and what its latest revision was made from
  index,      \* the messages with saved signals
  receipts,   \* the forget receipt of each message
  probes,     \* the access checks under way
  job,        \* the retrieval job
  revoked,    \* mailboxes whose access was given up and not checked since
  mcounts     \* events and faults so far

ledgerVars == <<sources, last, index, receipts>>
mvars == <<grant, mail, marker, sources, last, index, receipts, probes, job, revoked, mcounts>>

Rows     == {"text", "empty", "missing", "refused", "garbled"}
NoRow    == [row |-> "none", ver |-> 0]
NoMarker == [box |-> Nobody, ok |-> FALSE]
NoProbe  == [stage |-> "idle", broad |-> FALSE, box |-> Nobody]
NoRun    == [phase |-> "none", ids |-> {}, box |-> Nobody, got |-> <<>>, code |-> "none",
             outcome |-> <<>>, late |-> FALSE]
Clients  == {"check", "job"}

MChance(c, max) == mcounts[c] < max /\ mcounts' = [mcounts EXCEPT ![c] = @ + 1]
Event == MChance("events", MaxEvents)
Fault == MChance("faults", MaxFaults)

-----------------------------------------------------------------------------
(* The transport.                                                           *)

\* _token: without a credential file, or when Google rejects the refresh token,
\* every request fails.
Token == grant.box # Nobody

\* check_access of the transport: the scopes come from one request ...
ProbeScopes(c) ==
  /\ probes[c].stage = "asked" /\ Token
  /\ probes' = [probes EXCEPT ![c] = [@ EXCEPT !.stage = "scopes", !.broad = grant.broad]]
  /\ UNCHANGED <<grant, mail, marker, ledgerVars, job, revoked, mcounts>>

\* ... and the address from another, with a token of its own.
ProbeProfile(c) ==
  /\ probes[c].stage = "scopes" /\ Token
  /\ probes' = [probes EXCEPT ![c] = [@ EXCEPT !.stage = "done", !.box = grant.box]]
  /\ UNCHANGED <<grant, mail, marker, ledgerVars, job, revoked, mcounts>>

\* The refresh token is rejected (access_revoked).
ProbeRevoked(c) ==
  /\ probes[c].stage \in {"asked", "scopes"} /\ ~Token
  /\ probes' = [probes EXCEPT ![c] = [NoProbe EXCEPT !.stage = "revoked"]]
  /\ UNCHANGED <<grant, mail, marker, ledgerVars, job, revoked, mcounts>>

\* _status_error and _json_object: any other failure.
ProbeFails(c) ==
  /\ probes[c].stage \in {"asked", "scopes"} /\ Fault
  /\ probes' = [probes EXCEPT ![c] = [NoProbe EXCEPT !.stage = "failed"]]
  /\ UNCHANGED <<grant, mail, marker, ledgerVars, job, revoked>>

Answered(c) == probes[c].stage \in {"done", "revoked", "failed"}

\* get_messages, one message: another account does not have it.
Fetched(m) == IF Box[m] # grant.box THEN [row |-> "missing", ver |-> 0] ELSE mail[m]

-----------------------------------------------------------------------------
(* The access check.                                                        *)

\* _record_check.
RecordCheck(b) == marker' = [box |-> b, ok |-> TRUE]

ClearNothing == UNCHANGED marker

\* _clear_check keeps the mailbox, so that its sources can still be revoked.
ClearCheck == marker' = [marker EXCEPT !.ok = FALSE]

StartCheck ==
  /\ probes["check"].stage = "idle" /\ Event
  /\ probes' = [probes EXCEPT !["check"] = [NoProbe EXCEPT !.stage = "asked"]]
  /\ UNCHANGED <<grant, mail, marker, ledgerVars, job, revoked>>

\* check_access: exactly the read-only scope, or the check is cleared.
EndCheck ==
  LET p == probes["check"] IN
  /\ Answered("check")
  /\ IF p.stage # "done" THEN UNCHANGED <<marker, revoked>>
     ELSE IF p.broad THEN ClearCheck /\ UNCHANGED revoked
     ELSE RecordCheck(p.box) /\ revoked' = revoked \ {p.box}
  /\ probes' = [probes EXCEPT !["check"] = NoProbe]
  /\ UNCHANGED <<grant, mail, ledgerVars, job, mcounts>>

\* _assert_checked and _assert_access: the authorization of now is the one that
\* was bound when the operation began.
SameAccess(p, b) == p.stage = "done" /\ ~p.broad /\ p.box = b

\* Drift and a revoked grant clear the check; other failures do not.
AccessDrift(p, b) == p.stage = "revoked" \/ (p.stage = "done" /\ ~SameAccess(p, b))

-----------------------------------------------------------------------------
(* What is known of a mailbox.                                              *)

Imports(m) == receipts[m] = "none" /\ sources[m].rev > 0

\* _gmail_sources: the sources of one mailbox; others stay invisible.
GmailSources(b) == {m \in Messages : Imports(m) /\ Box[m] = b}

\* _known_context: signals learned from associated sources of the mailbox.
KnownContext(b, src, idx) ==
  [o \in Opps |-> UNION {Signals[m] : m \in {n \in idx : Box[n] = b /\ receipts[n] = "none" /\ src[n].assoc = o}}]

\* list_threads of the transport.
Offered(b, bound) == {m \in Messages : Box[m] = b /\ Signals[m] \cap bound # {}}

\* list_threads of the service: never without a bound; the known context alone
\* can be one. Forgotten mails are left out.
Listed(b, terms) ==
  {m \in Offered(b, terms \cup UNION {KnownContext(b, sources, index)[o] : o \in Opps}) : receipts[m] = "none"}

\* _candidates: opportunities that share a signal, for review only.
Candidates(m, context) == {o \in Opps : Signals[m] \cap context[o] # {}}

-----------------------------------------------------------------------------
(* The retrieval job.                                                       *)

\* start_retrieval: of what a listing showed, none of it forgotten, and one job
\* at a time. The job keeps the marker that it was started with.
StartRetrieval(ids, terms) ==
  /\ marker.ok /\ job.phase \in {"none", "done", "error"}
  /\ ids # {} /\ ids \subseteq Listed(marker.box, terms)
  /\ Event
  /\ job' = [NoRun EXCEPT !.phase = "before", !.ids = ids, !.box = marker.box]
  /\ probes' = [probes EXCEPT !["job"] = [NoProbe EXCEPT !.stage = "asked"]]
  /\ UNCHANGED <<grant, mail, marker, ledgerVars, revoked>>

EndJob(phase, outcome) == job' = [job EXCEPT !.phase = phase, !.outcome = outcome]

\* _run: the first check.
BeforeFetch ==
  LET p == probes["job"] IN
  /\ job.phase = "before" /\ Answered("job")
  /\ IF SameAccess(p, job.box) THEN job' = [job EXCEPT !.phase = "fetch"] ELSE EndJob("error", <<>>)
  /\ IF AccessDrift(p, job.box) THEN ClearCheck ELSE UNCHANGED marker
  /\ probes' = [probes EXCEPT !["job"] = NoProbe]
  /\ UNCHANGED <<grant, mail, ledgerVars, revoked, mcounts>>

Have(m) == m \in DOMAIN job.got

\* One message at a time.
FetchOne(m) ==
  /\ job.phase = "fetch" /\ job.code = "none" /\ m \in job.ids /\ ~Have(m) /\ Token
  /\ job' = [job EXCEPT !.got = [n \in DOMAIN job.got \cup {m} |-> IF n = m THEN Fetched(m) ELSE job.got[n]]]
  /\ UNCHANGED <<grant, mail, marker, ledgerVars, probes, revoked, mcounts>>

\* A failure of one request is one of the batch: what can be retried leaves the
\* ledger alone, what cannot is recorded of every selected message.
FetchFails(code) ==
  /\ job.phase = "fetch" /\ job.code = "none" /\ \E m \in job.ids : ~Have(m)
  /\ IF code = "refused" /\ ~Token THEN UNCHANGED mcounts ELSE Fault
  /\ IF code = "retry" THEN EndJob("done", [m \in job.ids |-> "failed_retryable"])
     ELSE job' = [job EXCEPT !.code = code]
  /\ UNCHANGED <<grant, mail, marker, ledgerVars, probes, revoked>>

\* normalize: what a row becomes; a garbled one is rejected.
Payload(m) == IF job.code # "none" THEN [row |-> job.code, ver |-> 0] ELSE job.got[m]
Normalized == {m \in job.ids : Payload(m).row # "garbled"}
Outcome(m) == IF m \in Normalized THEN "recorded" ELSE "rejected"

AfterFetch ==
  /\ job.phase = "fetch" /\ (job.code # "none" \/ \A m \in job.ids : Have(m))
  /\ IF Normalized = {}
     THEN EndJob("done", [m \in job.ids |-> "rejected"]) /\ UNCHANGED probes
     ELSE /\ job' = [job EXCEPT !.phase = "after"]
          /\ probes' = [probes EXCEPT !["job"] = [NoProbe EXCEPT !.stage = "asked"]]
  /\ UNCHANGED <<grant, mail, marker, ledgerVars, revoked, mcounts>>

Availability_(row) ==
  CASE row = "text" -> "content" [] row \in {"empty", "missing"} -> "none" [] row = "refused" -> "withheld"

\* import_meetings: nothing when one of them is forgotten.
Importable(ms) == \A m \in ms : receipts[m] = "none"

\* _record_meeting: unchanged content is a duplicate, not a revision.
Recorded(m, p) == IF last[m] = p THEN sources[m] ELSE Imported(sources[m], Availability_(p.row))

\* The proposals of the same step: for what is new and not associated.
WithProposal(m, r, context) ==
  IF /\ last[m] # Payload(m) /\ r.assoc = Unassociated
     /\ Payload(m).row \in {"text", "empty"} /\ Candidates(m, context) # {}
  THEN ProposedFor(r) ELSE r

\* The second check, the import with its index, and the proposals: no await in
\* between.
Import ==
  LET p       == probes["job"]
      indexed == index \cup {m \in Normalized : Payload(m).row \in {"text", "empty"}}
      written == [m \in Messages |-> IF m \in Normalized THEN Recorded(m, Payload(m)) ELSE sources[m]]
      context == KnownContext(job.box, written, indexed)
  IN
  /\ job.phase = "after" /\ Answered("job")
  /\ \A m \in Normalized : sources[m].rev < MaxRevision
  /\ IF AccessDrift(p, job.box) THEN ClearCheck ELSE UNCHANGED marker
  /\ IF SameAccess(p, job.box) /\ Importable(Normalized)
     THEN /\ sources' = [m \in Messages |->
                           IF m \in Normalized THEN WithProposal(m, written[m], context) ELSE sources[m]]
          /\ last' = [m \in Messages |-> IF m \in Normalized THEN Payload(m) ELSE last[m]]
          /\ index' = indexed
          /\ EndJob("done", [m \in job.ids |-> Outcome(m)])
     ELSE EndJob("error", <<>>) /\ UNCHANGED <<sources, last, index>>
  /\ probes' = [probes EXCEPT !["job"] = NoProbe]
  /\ UNCHANGED <<grant, mail, receipts, revoked, mcounts>>

-----------------------------------------------------------------------------
(* Users, the accounts and the process.                                     *)

\* revoke_access: the mailbox of the marker, checked or not.
RevokeAccess ==
  LET lost == {m \in GmailSources(marker.box) : Latest(sources[m]) # "withheld"} IN
  /\ marker # NoMarker /\ \A m \in lost : sources[m].rev < MaxRevision
  /\ Event
  /\ sources' = [m \in Messages |-> IF m \in lost THEN Imported(sources[m], "withheld") ELSE sources[m]]
  /\ last' = [m \in Messages |-> IF m \in lost THEN [row |-> "refused", ver |-> 0] ELSE last[m]]
  /\ ClearCheck
  /\ revoked' = revoked \cup {marker.box}
  /\ job' = [job EXCEPT !.late = TRUE]
  /\ UNCHANGED <<grant, mail, index, receipts, probes>>

\* confirm_association and clear_association.
Decide(m, o) ==
  /\ Imports(m) /\ Event
  /\ sources' = [sources EXCEPT ![m] = IF o = Unassociated THEN Cleared(@) ELSE Confirmed(@, o)]
  /\ UNCHANGED <<grant, mail, marker, last, index, receipts, probes, job, revoked>>

\* Mutant: the removal goes on when the index could not be written.
ForgetRecordOnly(m) ==
  \/ /\ Imports(m) /\ Event
     /\ receipts' = [receipts EXCEPT ![m] = "pending"]
     /\ UNCHANGED <<sources, last, index>>
  \/ /\ receipts[m] = "pending"
     /\ index' \in {index, index \ {m}}
     /\ sources' = [sources EXCEPT ![m] = NoSource]
     /\ last' = [last EXCEPT ![m] = NoRow]
     /\ receipts' = [receipts EXCEPT ![m] = "complete"]
     /\ UNCHANGED mcounts

\* forget: the receipt first, then the index and the record. It can be cut off
\* after each write and is then repeated.
Forget(m) ==
  \/ /\ Imports(m) /\ Event
     /\ receipts' = [receipts EXCEPT ![m] = "pending"]
     /\ UNCHANGED <<sources, last, index>>
  \/ /\ receipts[m] = "pending" /\ m \in index
     /\ index' = index \ {m}
     /\ UNCHANGED <<sources, last, receipts, mcounts>>
  \/ /\ receipts[m] = "pending" /\ m \notin index
     /\ sources' = [sources EXCEPT ![m] = NoSource]
     /\ last' = [last EXCEPT ![m] = NoRow]
     /\ receipts' = [receipts EXCEPT ![m] = "complete"]
     /\ UNCHANGED <<index, mcounts>>

ForgetMessage(m) == Forget(m) /\ UNCHANGED <<grant, mail, marker, probes, job, revoked>>

\* gmail_local_authorize and Google's account page: another account, another
\* scope, or no grant.
ChangeGrant(b, broad) ==
  /\ grant # [box |-> b, broad |-> broad] /\ (b = Nobody => ~broad)
  /\ Event
  /\ grant' = [box |-> b, broad |-> broad]
  /\ UNCHANGED <<mail, marker, ledgerVars, probes, job, revoked>>

ChangeMail(m, row) ==
  /\ mail[m].row # row \/ row = "text"
  /\ Event
  /\ mail' = [mail EXCEPT ![m] = [row |-> row, ver |-> IF row = "text" THEN @.ver + 1 ELSE @.ver]]
  /\ UNCHANGED <<grant, marker, ledgerVars, probes, job, revoked>>

\* The process dies: files stay, the job is gone.
MailCrash ==
  /\ Fault
  /\ probes' = [c \in Clients |-> NoProbe]
  /\ job' = NoRun
  /\ UNCHANGED <<grant, mail, marker, ledgerVars, revoked>>

MailInit ==
  /\ grant = [box |-> CHOOSE b \in Mailboxes : TRUE, broad |-> FALSE]
  /\ mail = [m \in Messages |-> [row |-> "text", ver |-> 1]]
  /\ marker = NoMarker
  /\ sources = [m \in Messages |-> NoSource]
  /\ last = [m \in Messages |-> NoRow]
  /\ index = {}
  /\ receipts = [m \in Messages |-> "none"]
  /\ probes = [c \in Clients |-> NoProbe]
  /\ job = NoRun
  /\ revoked = {}
  /\ mcounts = [events |-> 0, faults |-> 0]

Probe(c) == ProbeScopes(c) \/ ProbeProfile(c) \/ ProbeRevoked(c) \/ ProbeFails(c)

Retrieve ==
  \/ \E ids \in SUBSET Messages : StartRetrieval(ids, UNION {Signals[m] : m \in Messages})
  \/ BeforeFetch \/ AfterFetch \/ Import
  \/ \E m \in Messages : FetchOne(m)
  \/ \E code \in {"retry", "refused", "missing"} : FetchFails(code)

MailNext ==
  \/ \E c \in Clients : Probe(c)
  \/ StartCheck \/ EndCheck \/ Retrieve \/ RevokeAccess
  \/ \E m \in Messages : ForgetMessage(m) \/ \E o \in Opps \cup {Unassociated} : Decide(m, o)
  \/ \E b \in Mailboxes \cup {Nobody}, broad \in BOOLEAN : ChangeGrant(b, broad)
  \/ \E m \in Messages, row \in Rows : ChangeMail(m, row)
  \/ MailCrash

MailSpec == MailInit /\ [][MailNext]_mvars
-----------------------------------------------------------------------------
(* Properties.                                                              *)

\* Nothing of a forgotten mail comes back: no record and no saved signal, with a
\* retrieval of the same mail under way and a removal cut off anywhere.
ForgottenStaysGone ==
  \A m \in Messages : receipts[m] = "complete" => sources[m].rev = 0 /\ m \notin index

\* After access was given up no content is recorded for the mailbox until a new
\* check has succeeded, except by a retrieval that was under way already.
RevokedStaysWithheld ==
  [][\A m \in Messages :
       (sources'[m].rev > sources[m].rev /\ Latest(sources'[m]) = "content" /\ Box[m] \in revoked) => job.late]_mvars
=============================================================================
