\* Two members correct, comment on and approve one output at the same time, and
\* one of them tries again; requests and cleanups may be slower than their leases.
CONSTANTS
    r1 = r1
    r2 = r2
    r3 = r3
    k1 = k1
    x1 = x1
    x2 = x2
    x3 = x3
    Exporters = {x1, x2, x3}
    Keys = {k1}
    KeyOf <- MCKeyOf
    FormatOf <- MCFormatOf
    first = first
    retry = retry
    other = other
    Ids = {r1, r2}
    V0 = V0
    None = None
    Submissions = {first, retry, other}
    RequestOf <- MCRequestOf
    Workers = {w1}
    MaxTries = 2
    MaxFaults = 1
    Overlapping = FALSE
    LostCommits = FALSE
    Slow = TRUE
SPECIFICATION MCSpec
INVARIANTS ReviewsAreRecorded ObjectsAreKept
PROPERTIES ReviewsAreSettled
CHECK_DEADLOCK FALSE
