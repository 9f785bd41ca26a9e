SPECIFICATION Spec
CONSTANTS
    OSes = {"a", "b"}
    Labels = {"new", "late", "old"}
    Fields = {"srpm", "packages"}
    Typed <- MCTyped
    Sources <- MCSources
    MaxLines = 7
    MaxMerges = 2
CHECK_DEADLOCK FALSE
INVARIANTS
    TypeOK
    TidyNeverRefused
PROPERTIES
    OnlyEntryAdded
    SpansKept
