SPECIFICATION Spec
CONSTANTS
    Procs = {"r1"}
    Kinds = {"build-one", "git-build-src-rpm"}
    MaxRuns = 2
CHECK_DEADLOCK FALSE
INVARIANT OwnedAfterCreateUser
