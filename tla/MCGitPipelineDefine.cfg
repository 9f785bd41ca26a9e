SPECIFICATION Spec
CONSTANTS
    Procs = {"c1"}
    Revs = {"r1", "r2"}
    Patches = {"fix", "release"}
    Renaming = {"release"}
    Nothing = Nothing
    Torn = Torn
    DefineEL = TRUE
    Calm = TRUE
    MaxRuns = 1
    MaxEdits = 0
CHECK_DEADLOCK FALSE
INVARIANT DefinePassed
