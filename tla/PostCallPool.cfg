\* Two worker processes at once, and abandoned Storage requests that arrive late.
CONSTANTS
    Jobs = {j1}
    Workers = {w1, w2}
    Started = {w1, w2}
    NoWorker = NoWorker
    Keys = {}
    NoKey = NoKey
    Requests = {r1}
    MaxAttempts <- MCMaxAttempts
    MaxFaults = 2
    Cancellable = TRUE
    LateStorage = TRUE
SPECIFICATION PSpec
INVARIANTS SuccessIsWhole
PROPERTIES ValidOutputIsImmutable
CHECK_DEADLOCK FALSE
