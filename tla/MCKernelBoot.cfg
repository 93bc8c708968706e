SPECIFICATION MCSpec
CONSTANTS
    Versions <- MCVersions
    WithInitrd <- MCWithInitrd
    sort_V <- MCsort_V
    MaxCommands = 3
    MaxPolls = 1
INVARIANTS
    DoneMeansBootable
    DefaultLoads
    FallbackLoads
PROPERTIES
    ToldTruth
    BootEnds
\* With nothing to load, the machine stops in grub.
CHECK_DEADLOCK FALSE
