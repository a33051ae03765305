\* The operated configuration: one worker process, and its successor after a crash.
CONSTANTS
    Jobs = {j1}
    Workers = {w1, w2}
    Started = {w1}
    NoWorker = NoWorker
    Keys = {}
    NoKey = NoKey
    Requests = {r1}
    MaxAttempts <- MCMaxAttempts
    MaxFaults = 2
    Cancellable = TRUE
    LateStorage = FALSE
SPECIFICATION PFairSpec
INVARIANTS OutputsAreOwned
PROPERTIES WorkIsFinished
CHECK_DEADLOCK FALSE
