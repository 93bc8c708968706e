SPECIFICATION WizardFairSpec
CONSTANTS
    sda = sda
    sdb = sdb
    sr0 = sr0
    None = None
    Stale = Stale
    Disks <- MCDisks
    Optical <- MCOptical
    MaxScan = 2
INVARIANTS
    WizardTypeOK
    TargetIsNotMedia
    StartConfirmed
    AccountsReady
PROPERTY EscLeaves
