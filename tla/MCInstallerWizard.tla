------------------------- MODULE MCInstallerWizard -------------------------
(* Two disks and an optical drive; arrays that hold two entries.           *)
EXTENDS InstallerWizard

CONSTANTS sda, sdb, sr0

MCDisks   == {sda, sdb}
MCOptical == {sr0}
=============================================================================
