\* The job ledger under its most general callers, stale leases included.
CONSTANTS
    Jobs = {j1, j2}
    Workers = {w1, w2}
    NoWorker = NoWorker
    Keys = {k1}
    NoKey = NoKey
    retryOnce = retryOnce
    noRetry = noRetry
    Requests = {retryOnce, noRetry}
    MaxAttempts <- MCMaxAttempts
SYMMETRY MCSymmetry
SPECIFICATION Spec
INVARIANTS
    RowsAreSound
    LeaseIsExclusive
    CancelWins
    RequestsCountOnce
PROPERTY OutcomesAreFinal
CHECK_DEADLOCK FALSE
