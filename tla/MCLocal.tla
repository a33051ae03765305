------------------------------ MODULE MCLocal -------------------------------
(* The services of the local web app, one at a time: they share no state but  *)
(* the ledger, where each intake has the sources of its own provider. Two     *)
(* mails of one mailbox about the same people, and another account to sign in *)
(* with; two meetings; three opportunities of Salesforce and two folders for  *)
(* them; a live session; two clients who run skills, one of them asking; two  *)
(* customers and three folder names; three pushes on one clone.               *)
EXTENDS MailIntake, NotesIntake, Portfolio, LiveSession, SkillRuns,
        CustomerFiles, HandoffPush, TLC

CONSTANTS m1, m2, boxA, boxB, crm1, crm2, crm3, f1, f2, s1, s2, c1, c2, a1, a2, i1, i2

MCBox     == m1 :> boxA @@ m2 :> boxA
MCSignals == m1 :> {"example.com"} @@ m2 :> {"example.com"}
MCHome    == crm1 :> f1 @@ crm2 :> f2 @@ crm3 :> f2
MCInScope == s1 :> {crm1, crm2, crm3} @@ s2 :> {crm2, crm3}
MCBrief   == [t \in Texts |-> "same"]
MCChosen  == c1 :> {"poc-plan", "biz-qual"} @@ c2 :> {"biz-qual"}
MCFirst   == i1 :> a1 @@ i2 :> a2

VARIABLE focus

svars == <<mvars, nvars, pvars, lvars, rvars, cvars, gvars>>

LocalInit ==
  /\ focus \in {"mail", "notes", "crm", "live", "runs", "asks", "files", "push"}
  /\ MailInit /\ NotesInit /\ PortfolioInit /\ LiveInit /\ RunsInit /\ FilesInit /\ PushInit
  /\ focus = "crm" \/ folders = {}
  /\ focus = "runs" \/ \A u \in Upstreams : outputs[u]["account"].at = 0

LocalNext ==
  /\ UNCHANGED focus
  /\ \/ focus = "mail"  /\ MailNext /\ UNCHANGED <<nvars, pvars, lvars, rvars, cvars, gvars>>
     \/ focus = "notes" /\ NotesNext /\ UNCHANGED <<mvars, pvars, lvars, rvars, cvars, gvars>>
     \/ focus = "crm"   /\ PortfolioNext /\ UNCHANGED <<mvars, nvars, lvars, rvars, cvars, gvars>>
     \/ focus = "live"  /\ LiveNext /\ UNCHANGED <<mvars, nvars, pvars, rvars, cvars, gvars>>
     \/ focus = "runs"  /\ (InvokeNext \/ JobNext) /\ UNCHANGED <<mvars, nvars, pvars, lvars, cvars, gvars>>
     \/ focus = "asks"  /\ (AskNext \/ JobNext) /\ UNCHANGED <<mvars, nvars, pvars, lvars, cvars, gvars>>
     \/ focus = "files" /\ FilesNext /\ UNCHANGED <<mvars, nvars, pvars, lvars, rvars, gvars>>
     \/ focus = "push"  /\ PushNext /\ UNCHANGED <<mvars, nvars, pvars, lvars, rvars, cvars>>

LocalSpec == LocalInit /\ [][LocalNext]_<<svars, focus>>
=============================================================================
