SPECIFICATION Spec
CONSTANTS
    NPatches = 2
    Adding = {2}
    Files = {"src", "bin"}
    MaxCommands = 5
CHECK_DEADLOCK FALSE
INVARIANTS
    TypeOK
    RunMeansCollected
    NothingLost
    StepsRerunnable
    RunStagesReady
