\* Uploads, deletions, a job and the cleanup of two workers, one of which may die.
CONSTANTS
    Jobs = {j1}
    Workers = {w1, w2}
    NoWorker = NoWorker
    Keys = {}
    NoKey = NoKey
    Requests = {r1}
    MaxAttempts <- MCMaxAttempts
    Transcripts = {t1}
    Input <- MCInput
    MaxFaults = 2
    LostCommits = FALSE
SPECIFICATION TFairSpec
INVARIANTS TranscriptsAreKept
PROPERTIES DeletionIsDone
CHECK_DEADLOCK FALSE
