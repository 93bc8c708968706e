--------------------------- MODULE MCInstallerRun ---------------------------
(* Two disks and an optical drive. The disks are interchangeable, and the  *)
(* disk of the running system is never repartitioned: the running system   *)
(* is on the first partition of the first one, or in memory and the first  *)
(* run then has the second one for its target.                             *)
EXTENDS InstallerRun, FiniteSets

CONSTANTS sda, sdb, sr0

MCDisks   == {sda, sdb}
MCOptical == {sr0}

MCInit == Init /\ live \in {<<sda, 1>>, None}
\* Of what was not synced nothing is lost, one piece, or everything.
FewLosses ==
    result' = "cut" =>
        \A p \in Parts : Cardinality(root[p] \ root'[p]) <= 1 \/ root'[p] = {}

MCNext ==
    /\ Next
    /\ run = 0 /\ live = None => cfg'.disk = sdb
    /\ FewLosses
MCSpec == MCInit /\ [][MCNext]_vars /\ WF_vars(Step)
=============================================================================
