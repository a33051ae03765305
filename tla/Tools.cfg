\* Worker analysis and its history, one attempt at the model, the evaluation runner.
SPECIFICATION MCSpec
CONSTANTS
  Conns = {c1, c2}
  ApiConns = {c1}
  MinuteLen = 2
  HourLen = 4
  DayLen = 8
  DefaultLen = 3
  WeekLen = 24
  Cutoff = 1
  Totals = {1, 2, 3, 7, 10}
  Shares = {0, 33, 50, 70}
  Lens = {0, 1, 45}
  Procs = {p1, p2}
  Names = {n1, n2}
  Folded <- MCItself
  Normal <- MCItself
  FolderOf <- MCOneFolder
  Orgs = {o1}
  OrgMap <- MCOrgMap
  WorkspaceMap = {}
  Connections <- MCConnections
  MaxFailures = 1
  MaxAge = 0
  KeepAge = 1
  MaxDay = 2
  MaxWrites = 4
  MaxCommands = 3
  UnderTest <- MCUnderTest
  PrereqMode <- MCPrereqs
  Provided <- MCProvided
  ExpectRefusal <- MCRefusals
  Manifests = 2
  MaxEvaluations = 2
  MaxRmFaults = 1
  AllowedTools = {"read_transcript", "search_transcript", "read_prior_context", "write_output", "finish", "report_failure"}
  MaxTurns = 2
  MaxTools = 2
  MaxBadRequests = 1
  m1 = m1
  m2 = m2
  left = left
  a1 = a1
  a2 = a2
  Template <- MCTemplate
  FolderNames = {n1, n2}
  MaxEdits = 4
  Members = {m1, m2}
  NoOwner = "nobody"
  Desks <- MCDesks
  Now = 20
  LongFor = 1
  FailureFor = 3
  StaleFor = 7
  MaxAttention = 2
  MaxRecent = 2
  n1 = n1
  n2 = n2
  o1 = o1
  c1 = c1
  c2 = c2
  Forms <- MCFormsWhole
  Batches <- MCBatches
  Uses <- MCUses
  Evidence <- MCEvidence
  Plans <- MCPlans
  Crons <- MCCrons
  Histories <- MCHistories
INVARIANTS AdviceAgrees PeaksAgree PagesAgree ServedIsWhole ResultIsFaithful SuiteIsReported
PROPERTY EveryAttemptEnds
CHECK_DEADLOCK FALSE
