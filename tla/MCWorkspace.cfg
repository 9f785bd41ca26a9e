SPECIFICATION Spec
CONSTANTS
    Procs = {"r1", "r2"}
    Kinds = {"build-one", "setup", "debug", "git-build-src-rpm", "git-build-rpms"}
    MaxRuns = 4
CHECK_DEADLOCK FALSE
INVARIANT TypeOK
PROPERTIES
    BuildOneRefusedOnlyStray
    RefusedOnlyNewOrStray
