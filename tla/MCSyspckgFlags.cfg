SPECIFICATION Spec
CONSTANTS
    p1 = p1
    p2 = p2
    NoProc = NoProc
    Procs <- MCProcs
    NFiles = 1
    NDirs = 1
SYMMETRY ProcSymmetry
INVARIANTS
    OriginalFlagsOutsideBootstrap
