SPECIFICATION FairSpec
CONSTANTS
    MaxLines = 2
    ExitCodes = {0, 1}
INVARIANTS
    TypeOK
    StoppedContainerReported
    MergeOnlyAfterCleanBuild
    NoSilentFailure
PROPERTIES
    SingleStop
    StopEndsBuild
