CONSTANTS
  Transcripts = {t1, t2, t3}
  Saved = {t1, t2}
  Meta = meta
  MaxContent = 2
  MaxManifest = 3
  MaxAttempts = 2
  MaxJobs = 2
  MaxEdits = 1
  MaxFaults = 1
SPECIFICATION Spec
CHECK_DEADLOCK FALSE
INVARIANTS
  OneWriter
  ReportsAreTrue
PROPERTIES
  ImplementsChain
  JobsEnd
