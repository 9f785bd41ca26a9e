SPECIFICATION CacheSpec
CONSTANTS
    p1 = p1
    p2 = p2
    Procs = {p1, p2}
    Size = 2
    MaxRuns = 4
CHECK_DEADLOCK FALSE
INVARIANTS
    CacheTypeOK
    CacheWhole
    CacheHeals
