\* One attempt, the worker's finalize and the sweeper's.
CONSTANTS
    NoJournal = NoJournal
    MaxFaults = 3
SPECIFICATION CFairSpec
INVARIANTS CustodyIsSafe
PROPERTIES CustodyIsEnded
CHECK_DEADLOCK FALSE
