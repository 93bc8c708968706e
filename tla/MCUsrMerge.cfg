SPECIFICATION FairSpec
CONSTANTS
    Paths <- MCPaths
    MaxRuns = 2
INVARIANTS
    MergedAsDefined
    NothingLost
PROPERTIES
    UsrKept
    ImplementsMergedPaths
    MergeEnds
