SPECIFICATION Spec
CONSTANTS
    OSes <- MCOSes
    Builds = {"a", "b", "bare"}
    NoURL = {"bare"}
    NoBuild = "no build"
    Texts <- MCTexts
    Mains <- MCMains
    Images <- MCImages
    MaxEdits = 3
CHECK_DEADLOCK FALSE
INVARIANTS
    TypeOK
    MergedIsBuilt
    PreflightForetells
    NoLateRefusal
