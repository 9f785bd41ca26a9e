SPECIFICATION WatcherSpec
CONSTANTS
    MaxChunk = 3
    MaxText = 6
CHECK_DEADLOCK FALSE
INVARIANTS
    WatcherTypeOK
    StopsOnFirstMatch
