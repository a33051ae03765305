\* A running job whose cancellation was accepted, and whose worker dies.
CONSTANTS
    Jobs = {j1}
    Workers = {w1, w2}
    Started = {w1}
    NoWorker = NoWorker
    Keys = {}
    NoKey = NoKey
    Requests = {r1}
    MaxAttempts <- MCMaxAttempts
    MaxFaults = 0
    Cancellable = TRUE
    LateStorage = FALSE
SPECIFICATION PFairSpec
PROPERTIES EveryJobEnds
CHECK_DEADLOCK FALSE
