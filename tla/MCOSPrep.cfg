SPECIFICATION Spec
CONSTANTS
    Toolsets = {12, 14}
    Layouts <- MCLayouts
    Listed = {12}
    Required = {12, 14}
    BaseRepos = {"baseos", "codeready_builder"}
    OnRepos = {"baseos"}
    epelPackages <- MCEPELPackages
    Enable <- MCEnable
    Defines <- MCDefines
    From = {"baseos", "developer_EPEL"}
    MaxCommands = 4
CHECK_DEADLOCK FALSE
INVARIANTS
    TypeOK
    NeverStuck
    AliasesResolve
    ListedFixed
