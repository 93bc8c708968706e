SPECIFICATION FairSpec
CONSTANTS
    count = 3
    MaxDeps = 2
    Graphs <- MCGraphs
INVARIANTS
    DependencyFirst
    EveryPlanOnce
    CircularIsCycle
PROPERTY WalkEnds
