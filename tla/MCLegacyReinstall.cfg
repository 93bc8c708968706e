SPECIFICATION HookTestSpec
CONSTANTS
    app = app
    lib = lib
    tool = tool
    Names <- MCNames
    Hooked <- MCHooked
    Protected <- MCProtected
    Unpublished <- MCProtected
    MaxVersion = 2
    Lists <- MCLists
    DepGraphs <- MCPlainGraph
    MaxCommands = 2
INVARIANT InstallRunsHook
CHECK_DEADLOCK FALSE
