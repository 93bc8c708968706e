SPECIFICATION Spec
CONSTANTS
    app = app
    lib = lib
    tool = tool
    Names <- MCNames
    Hooked <- MCHooked
    Protected <- MCProtected
    Unpublished <- MCProtected
    MaxVersion = 2
    Lists <- MCLists
    DepGraphs <- MCPlainGraph
    MaxCommands = 1
INVARIANT HooksSeePayloads
