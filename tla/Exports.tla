------------------------------- MODULE Exports -------------------------------
(***************************************************************************)
(* The export of an approved output (webapp/hosted/exports.py and          *)
(* migration 011), beside the reviews and corrections that decide what is  *)
(* current and what is approved. An export authorizes a version in one     *)
(* transaction, reads and renders its object without a lock, and puts the  *)
(* audit event on record in a second transaction before it answers.        *)
(***************************************************************************)
EXTENDS Reviews

CONSTANTS
    Exporters,     \* POST .../exports requests
    Keys,          \* their idempotency keys
    KeyOf,         \* the key of a request: a retry has that of the first one
    FormatOf       \* "md" or "pdf"

ASSUME ExportAssumption ==
    KeyOf \in [Exporters -> Keys] /\ FormatOf \in [Exporters -> {"md", "pdf"}]

VARIABLES
    export,        \* the requests
    exported       \* audit_events of action output_export, per key

xvars == <<export, exported>>

NoExport == [version |-> None, format |-> "none"]

ExportInit ==
    /\ export = [e \in Exporters |-> [pc |-> "new", version |-> None]]
    /\ exported = [k \in Keys |-> NoExport]

ExportOf(e, v) == [version |-> v, format |-> FormatOf[e]]

ExportGoto(e, pc) == export' = [export EXCEPT ![e].pc = pc]

\* Mutant: any approval of the output will do.
ApprovedOnce(v) == \E r \in Ids : review[r].action = "approve"

\* An approval of that exact version.
Approved(v) == \E r \in Ids : review[r] = [action |-> "approve", target |-> v]

\* authorize_output_export: the current version, approved, and for a key that is on
\* record the same export of the same version.
Exportable(e, v) ==
    /\ IsCurrent(v) /\ Approved(v)
    /\ exported[KeyOf[e]] \in {NoExport, ExportOf(e, v)}

AuthorizeOutputExport(e) ==
    /\ export[e].pc = "new"
    /\ \/ /\ \E v \in Ids \cup {V0} :
               Exportable(e, v) /\ export' = [export EXCEPT ![e] = [pc |-> "read", version |-> v]]
          /\ NoFault
       \/ ~ (\E v \in Ids \cup {V0} : Exportable(e, v)) /\ ExportGoto(e, "over") /\ NoFault
       \/ ExportGoto(e, "over") /\ Fault
    /\ UNCHANGED <<seen, tables, object, sub, cleaner, exported>>

\* _download_bytes and, for a PDF, the decoding and rendering, which may refuse.
ReadExport(e) ==
    LET v == export[e].version
        there == v # V0 => object[v]
    IN
    /\ export[e].pc = "read"
    /\ \/ there /\ ExportGoto(e, "record") /\ NoFault
       \/ (~ there \/ FormatOf[e] = "pdf") /\ ExportGoto(e, "over") /\ NoFault
       \/ ExportGoto(e, "over") /\ Fault
    /\ UNCHANGED <<seen, tables, object, sub, cleaner, exported>>

\* Mutant: a key that is on record is a replay, whatever it was recorded for.
RecordableAny(e) == TRUE

\* record_output_export: a key on record answers for the same version and format.
Recordable(e) == exported[KeyOf[e]] \in {NoExport, ExportOf(e, export[e].version)}

\* The event is written once, and the bytes are answered only afterwards.
RecordOutputExport(e) ==
    LET k == KeyOf[e]
        recorded == IF exported[k] = NoExport
                    THEN [exported EXCEPT ![k] = ExportOf(e, export[e].version)] ELSE exported
    IN
    /\ export[e].pc = "record"
    /\ IsVersion(export[e].version)
    /\ \/ Recordable(e) /\ exported' = recorded /\ ExportGoto(e, "sent") /\ NoFault
       \/ ~ Recordable(e) /\ UNCHANGED exported /\ ExportGoto(e, "over") /\ NoFault
       \/ /\ Recordable(e) /\ exported' \in {exported, recorded}
          /\ ExportGoto(e, "over") /\ Fault
    /\ UNCHANGED <<seen, tables, object, sub, cleaner>>

\* The API process dies, or the client disconnects, between two calls.
ExportDies(e) ==
    /\ export[e].pc \in {"read", "record"}
    /\ ExportGoto(e, "over")
    /\ UNCHANGED <<vars, exported>>

Export(e) ==
    AuthorizeOutputExport(e) \/ ReadExport(e) \/ RecordOutputExport(e) \/ ExportDies(e)

ExportNext == (Next /\ UNCHANGED xvars) \/ \E e \in Exporters : Export(e)

ExportSpec == Init /\ ExportInit /\ [][ExportNext]_<<vars, xvars>>

-----------------------------------------------------------------------------
\* What a member has downloaded was approved in exactly that version, and the one
\* event of its key names it, whatever was corrected, approved or retried meanwhile.
ExportsAreApproved ==
    \A e \in Exporters : export[e].pc = "sent" =>
        /\ \E r \in Ids : review[r].action = "approve" /\ review[r].target = export[e].version
        /\ exported[KeyOf[e]] = ExportOf(e, export[e].version)

\* An export that is on record stays as it was, and none is recorded of a version that
\* cannot be read.
ExportsAreImmutable ==
    [][\A k \in Keys : /\ exported[k] # NoExport => exported'[k] = exported[k]
                       /\ exported'[k] # exported[k] =>
                            \E e \in Exporters : export[e] = [pc |-> "record", version |-> exported'[k].version]
      ]_<<vars, xvars>>
=============================================================================
