CONSTANTS
    Requests <- MCRequests
    Words <- MCWords
    NoWrite = NoWrite
    MaxRequests = 3
    MaxLosses = 2
SPECIFICATION Spec
INVARIANTS TypeOK SavedIsKept
PROPERTIES RestartShowsSaved
CHECK_DEADLOCK FALSE
