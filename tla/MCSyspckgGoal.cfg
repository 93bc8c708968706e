SPECIFICATION Spec
CONSTANTS
    p1 = p1
    p2 = p2
    NoProc = NoProc
    Procs <- MCProcs
    NFiles = 2
    NDirs = 2
SYMMETRY ProcSymmetry
INVARIANTS
    OneBootstrap
    BootstrapPrepared
PROPERTIES
    MarkerMeansBase
    IdentityKept
    Recoverable
    ImplementsMergedPaths
