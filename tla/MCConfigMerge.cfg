SPECIFICATION Spec
CONSTANTS
    p1 = p1
    p2 = p2
    p3 = p3
    k1 = k1
    k2 = k2
    b1 = b1
    b2 = b2
    Keys = {k1, k2}
    Builds = {b1, b2}
    NoBuild = NoBuild
    Original = Original
    NoFile = NoFile
    Procs = {p1, p2, p3}
    KeyOf <- MCKeyOf
    BuildOf <- MCBuildOf
    Exact <- MCExact
    Together <- MCTogether
    MaxClock = 1
    MaxEdits = 1
CHECK_DEADLOCK FALSE
INVARIANTS
    TypeOK
    ConfigRecoverable
    OriginalKept
PROPERTIES
    SnapshotKept
    ImplementsStore
