SPECIFICATION Spec
CONSTANTS
    Procs = {"c1"}
    Revs = {"r1", "r2"}
    Patches = {"fix", "release"}
    Renaming = {"release"}
    Nothing = Nothing
    Torn = Torn
    DefineEL = TRUE
    Calm = TRUE
    MaxRuns = 3
    MaxEdits = 1
CHECK_DEADLOCK FALSE
INVARIANTS
    TypeOK
    OutputsCoherent
    AnnotationsTrue
PROPERTY SrcRunMeansOutput
