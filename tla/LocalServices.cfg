CONSTANTS
  Opps = {o1}
  m1 = m1
  m2 = m2
  boxA = boxA
  boxB = boxB
  crm1 = crm1
  crm2 = crm2
  crm3 = crm3
  f1 = f1
  f2 = f2
  s1 = s1
  s2 = s2
  Messages = {m1, m2}
  Mailboxes = {boxA, boxB}
  Box <- MCBox
  Signals <- MCSignals
  MaxEvents = 4
  MaxFaults = 1
  MaxRevision = 3
  Nobody = Nobody
  Meetings = {n1, n2}
  MaxNoteEvents = 4
  MaxRelayFaults = 1
  MaxSelection = 2
  MaxNoteRevision = 3
  CrmIds = {crm1, crm2, crm3}
  Folders = {f1, f2}
  Home <- MCHome
  Scopes = {s1, s2}
  InScope <- MCInScope
  RowLimit = 2
  MaxPages = 1
  Refreshers = {r1, r2}
  Mappers = {t1}
  MaxCrmEvents = 4
  Sessions = {l1}
  Echoes = {1}
  MaxSaid = 3
  MaxVersions = 2
  MaxLiveFaults = 2
  c1 = c1
  c2 = c2
  RunCallers = {c1, c2}
  Askers = {c1}
  Chosen <- MCChosen
  Texts = {t1}
  Brief <- MCBrief
  Upstreams = {"biz-qual", "tech-qual"}
  MaxRuns = 2
  MaxWrites = 1
  a1 = a1
  a2 = a2
  i1 = i1
  i2 = i2
  Names = {a1, a2, a3}
  Accounts = {i1, i2}
  FirstName <- MCFirst
  MaxRequests = 4
  MaxDocs = 3
  MaxMarks = 2
  Pushes = {p1, p2, p3}
  MaxGitFaults = 1
SPECIFICATION LocalSpec
INVARIANTS ForgottenStaysGone NotesMatch RowsAreOwn StopKeepsAll RunsAsAsked NothingLost PrHasOwnPage
PROPERTIES RevokedStaysWithheld LastGoodStays
CHECK_DEADLOCK FALSE
