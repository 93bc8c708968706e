SPECIFICATION MCSpec
CONSTANTS
    sda = sda
    sdb = sdb
    sr0 = sr0
    None = None
    Disks <- MCDisks
    Optical <- MCOptical
    WaitAttempts = 2
    MaxRuns = 2
INVARIANTS
    LiveTreesSafe
    MediaAuthoritative
    BootableIsComplete
PROPERTIES
    EraseOnlyTarget
    RunEnds
