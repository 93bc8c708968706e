SPECIFICATION FairSpec
CONSTANTS
    app = app
    lib = lib
    tool = tool
    Names <- MCNames
    Hooked <- MCHooked
    Protected <- MCProtected
    Unpublished <- MCProtected
    MaxVersion = 2
    Lists <- MCLists
    DepGraphs <- MCGraphs
    MaxCommands = 2
INVARIANTS
    HooksAfterStaging
    DoneMeansInstalled
    DependenciesInstalled
    BatchMeansAll
PROPERTY CommandEnds
