------------------------- MODULE SyspckgGoalProofs -------------------------
(***************************************************************************)
(* The safety properties of SyspckgGoal, proved for any set of commands,   *)
(* any number of core files and any number of legacy directories.          *)
(***************************************************************************)
EXTENDS SyspckgGoal, TLAPS

\* The steps between lock_system_repo and the exit.
LockedPcs == {"load", "goal"} \cup GoalPcs

\* Steps that only a command in bootstrap mode takes.
BootPcs == {"clear", "backup", "merge", "override", "restore_fail",
            "restore_final", "activate", "relink", "finish"}

\* Steps before RPM may write.
EarlyPcs == {"resolve", "confirm", "clear", "backup", "merge", "download",
             "override"}

\* Steps after the backup is complete, and those after the usr-merge.
BackedPcs == {"merge", "download", "override", "rpm", "restore_fail",
              "restore_final", "activate", "relink", "finish"}
MergedPcs == BackedPcs \ {"merge"}

Holder(p) == pc[p] \in LockedPcs => lock = p

\* f is in the backup as run_goal found it, or was not there to be backed up.
Saved(p, f) == before[p][f] \in {"absent", backup[f]}
Intact(p, f) == before[p][f] \in {"absent", core[f]}

Control(p) ==
    /\ pc[p] \in BootPcs => boot[p]
    /\ pc[p] \in GoalPcs /\ boot[p] => ~marker
    /\ pc[p] = "resolve" /\ boot[p] => tsflags[p] = "bootstrap"
    /\ pc[p] \in GoalPcs \ {"resolve"} /\ boot[p] => txnFlags[p] = "bootstrap"
    /\ pc[p] = "rpm" /\ boot[p] => overrides[p]

Copies(p) ==
    /\ pc[p] \in EarlyPcs /\ boot[p] => before[p] = core
    /\ pc[p] = "backup" => \A f \in Files : f < idx[p] => Saved(p, f)
    /\ pc[p] \in BackedPcs /\ boot[p] => \A f \in Files : Saved(p, f)
    /\ pc[p] \in {"restore_fail", "restore_final"} /\ ~warned[p] =>
          \A f \in Files : f < idx[p] => Intact(p, f)
    /\ pc[p] \in {"activate", "relink", "finish"} /\ ~warned[p] =>
          \A f \in Files : Intact(p, f)

Base(p) ==
    /\ pc[p] = "merge" => \A d \in Dirs : d < idx[p] => link[d] = "link"
    /\ pc[p] \in MergedPcs /\ boot[p] => \A d \in Dirs : link[d] = "link"
    /\ pc[p] \in {"relink", "finish"} => loader
    /\ pc[p] = "finish" /\ bash => sh = "bash"

Own(p) == Holder(p) /\ Control(p) /\ Copies(p) /\ Base(p)

IInv == TypeOK /\ \A p \in Procs : Own(p)

-----------------------------------------------------------------------------
(* Types.                                                                  *)

\* A copy cut short leaves a table of contents (copy_file).
LEMMA TornType ==
  ASSUME NEW p, NEW dst \in [Files -> Content], NEW src
  PROVE  MaybeTorn(p, dst, src) \subseteq [Files -> Content]
  BY Zenon DEF MaybeTorn, Content

\* remove_all leaves a table of contents.
LEMMA RemovedType == TypeOK => PartlyRemoved \subseteq [Files -> Content]
  BY Zenon DEF PartlyRemoved, TypeOK, Content

\* So does a backup cut short at any point.
LEMMA CutShortType ==
  ASSUME TypeOK, NEW p
  PROVE  BackupCutShort(p) \subseteq [Files -> Content]
<1>1. MaybeTorn(p, backup, core) \subseteq [Files -> Content]
  BY TornType, Zenon DEF TypeOK
<1>2. QED  BY <1>1, RemovedType, Zenon DEF BackupCutShort, TypeOK

\* The catch block of run_goal keeps the types.
LEMMA CatchType ==
  ASSUME TypeOK, NEW p \in Procs, Catch(p), UNCHANGED <<disk, ghost>>
  PROVE  TypeOK'
<1> USE DEF TypeOK
<1>1. (Goto(p, "restore_fail") /\ UNCHANGED <<rc, lock>>) \/ Exit(p, 3)
  BY Zenon DEF Catch
<1>2. /\ pc' \in [Procs -> Pcs]
      /\ rc' \in [Procs -> {0, 1, 2, 3, Killed}]
      /\ lock' \in Procs \cup {NoProc}
  <2>1. CASE Goto(p, "restore_fail") /\ UNCHANGED <<rc, lock>>
    BY <2>1, Zenon DEF Goto, Pcs, GoalPcs
  <2>2. CASE Exit(p, 3)
    BY <2>2, Zenon DEF Exit, Goto, Pcs
  <2>3. QED  BY <1>1, <2>1, <2>2, Zenon
<1>3. /\ overrides' = [overrides EXCEPT ![p] = FALSE]
      /\ tsflags' = [tsflags EXCEPT ![p] = "original"]
      /\ idx' = [idx EXCEPT ![p] = 1]
      /\ UNCHANGED <<cmd, boot, txnFlags, fedora>>
  BY Zenon DEF Catch, restore_tsflags, disable_bootstrap_rpm_overrides
<1>4. QED
  BY <1>2, <1>3 DEF disk, ghost

\* Every step of a command keeps the types.
LEMMA TypeStep ==
  ASSUME TypeOK, NEW p \in Procs, Start(p) \/ Step(p) \/ Kill(p)
  PROVE  TypeOK'
<1> USE DEF TypeOK, Pcs, GoalPcs, Goto, Exit, Killed, restore_tsflags,
            disable_bootstrap_rpm_overrides, local, disk, ghost
<1>1. CASE Start(p)  BY <1>1 DEF Start
<1>2. CASE PrepareBase(p)  BY <1>2, Zenon DEF PrepareBase
<1>3. CASE lock_system_repo(p)  BY <1>3, Zenon DEF lock_system_repo
<1>4. CASE LoadRepos(p)  BY <1>4, Zenon DEF LoadRepos
<1>5. CASE PrepareFails(p)  BY <1>5, Zenon DEF PrepareFails
<1>6. CASE BeginGoal(p)  BY <1>6, Zenon DEF BeginGoal
<1>7. CASE ResolveStops(p)  BY <1>7 DEF ResolveStops
<1>8. CASE Resolve(p)
  <2>1. /\ boot' \in [Procs -> BOOLEAN]
        /\ tsflags' \in [Procs -> {"original", "bootstrap"}]
    <3>1. CASE UNCHANGED <<tsflags, boot>>
      BY <3>1, Zenon
    <3>2. CASE restore_tsflags(p) /\ boot' = [boot EXCEPT ![p] = FALSE]
      BY <3>2, Zenon
    <3>3. QED  BY <1>8, <3>1, <3>2, Zenon DEF Resolve
  <2>2. fedora' \in [Procs -> BOOLEAN]
    BY <1>8, Zenon DEF Resolve
  <2>3. QED  BY <1>8, <2>1, <2>2, Zenon DEF Resolve
<1>9. CASE Cancel(p)  BY <1>9, Zenon DEF Cancel
<1>10. CASE Confirm(p)  BY <1>10, Zenon DEF Confirm
<1>11. CASE ClearBackup(p)
  <2>1. backup' \in [Files -> Content]
    BY <1>11, RemovedType, Zenon DEF ClearBackup
  <2>2. QED  BY <1>11, <2>1 DEF ClearBackup
<1>12. CASE BackupFile(p)  BY <1>12 DEF BackupFile
<1>13. CASE BackupThrows(p)
  <2>1. backup' \in [Files -> Content]
    BY <1>13, CutShortType, Zenon DEF BackupThrows
  <2>2. QED  BY <1>13, <2>1, Zenon DEF BackupThrows
<1>14. CASE BackupDone(p)  BY <1>14 DEF BackupDone
<1>15. CASE MergeLegacy(p)
  BY <1>15, Zenon DEF MergeLegacy, LegacyPath
<1>16. CASE LinkLegacy(p)
  BY <1>16 DEF LinkLegacy, LegacyPath
<1>17. CASE MergeThrows(p)  BY <1>17, Zenon DEF MergeThrows
<1>18. CASE MergeDone(p)  BY <1>18, Zenon DEF MergeDone
<1>19. CASE Download(p)  BY <1>19, Zenon DEF Download
<1>20. CASE DownloadFails(p)  BY <1>20, Zenon DEF DownloadFails
<1>21. CASE enable_bootstrap_rpm_overrides(p)
  BY <1>21, Zenon DEF enable_bootstrap_rpm_overrides
<1>22. CASE Throws(p)
  BY <1>22, CatchType, Zenon DEF Throws
<1>23. CASE RpmUnpack(p)
  <2>1. /\ core' \in [Files -> Content]
        /\ sh' \in {"busybox", "bash", "absent"}
        /\ loader' \in BOOLEAN
        /\ bash' \in BOOLEAN
    BY <1>23, Zenon DEF RpmUnpack, Content
  <2>2. QED  BY <1>23, <2>1, Zenon DEF RpmUnpack
<1>33. CASE RpmErase(p)
  <2>1. /\ core' \in [Files -> Content]
        /\ sh' \in {"busybox", "bash", "absent"}
        /\ loader' \in BOOLEAN
        /\ bash' \in BOOLEAN
    BY <1>33, Zenon DEF RpmErase, Content
  <2>2. QED  BY <1>33, <2>1, Zenon DEF RpmErase
<1>24. CASE RpmReturns(p)
  <2>1. \/ (\E l \in Pcs : Goto(p, l)) /\ UNCHANGED <<rc, lock>>
        \/ \E c \in {0, 3} : Exit(p, c)
    BY <1>24, Zenon DEF RpmReturns
  <2>2. /\ pc' \in [Procs -> Pcs]
        /\ rc' \in [Procs -> {0, 1, 2, 3, Killed}]
        /\ lock' \in Procs \cup {NoProc}
    <3>1. CASE (\E l \in Pcs : Goto(p, l)) /\ UNCHANGED <<rc, lock>>
      BY <3>1
    <3>2. CASE \E c \in {0, 3} : Exit(p, c)
      BY <3>2
    <3>3. QED  BY <2>1, <3>1, <3>2, Zenon
  <2>3. QED  BY <1>24, <2>2 DEF RpmReturns
<1>25. CASE RestoreFile(p)  BY <1>25 DEF RestoreFile
<1>26. CASE RestoreWarns(p)
  <2>1. core' \in [Files -> Content]
    BY <1>26, TornType, Zenon DEF RestoreWarns
  <2>2. QED  BY <1>26, <2>1 DEF RestoreWarns
<1>27. CASE RestoreDone(p)  BY <1>27 DEF RestoreDone
<1>28. CASE activate_fedora_runtime(p)  BY <1>28, Zenon DEF activate_fedora_runtime
<1>29. CASE RelinkShell(p)  BY <1>29, Zenon DEF RelinkShell
<1>30. CASE FinalizeThrows(p)
  BY <1>30, CatchType, Zenon DEF FinalizeThrows
<1>31. CASE FinalizeBootstrap(p)  BY <1>31, Zenon DEF FinalizeBootstrap
<1>32. CASE Kill(p)
  <2>1. backup' \in [Files -> Content]
    BY <1>32, CutShortType, Zenon DEF Kill
  <2>2. core' \in [Files -> Content]
    BY <1>32, TornType, Zenon DEF Kill
  <2>3. QED  BY <1>32, <2>1, <2>2, Zenon DEF Kill
<1> QED
  BY <1>1, <1>2, <1>3, <1>4, <1>5, <1>6, <1>7, <1>8, <1>9, <1>10, <1>11, <1>12,
     <1>13, <1>14, <1>15, <1>16, <1>17, <1>18, <1>19, <1>20, <1>21, <1>22, <1>23,
     <1>24, <1>25, <1>26, <1>27, <1>28, <1>29, <1>30, <1>31, <1>32, <1>33, Zenon DEF Step

-----------------------------------------------------------------------------
(* A step of p against the other commands.                                 *)

\* p changes no other command's variables, writes to the disk only between
\* lock_system_repo and its exit, and takes or gives back only a lock that is
\* its own or free.
Frame(p) ==
    /\ \A q \in Procs \ {p} :
         /\ pc'[q] = pc[q] /\ boot'[q] = boot[q] /\ tsflags'[q] = tsflags[q]
         /\ txnFlags'[q] = txnFlags[q] /\ overrides'[q] = overrides[q]
         /\ idx'[q] = idx[q] /\ before'[q] = before[q] /\ warned'[q] = warned[q]
    /\ pc[p] \in LockedPcs \/ UNCHANGED disk
    /\ lock' # lock => lock \in {p, NoProc}

\* Every step of a command has this frame.
LEMMA StepFrame ==
  ASSUME TypeOK, NEW p \in Procs, Start(p) \/ Step(p) \/ Kill(p)
  PROVE  Frame(p)
<1> USE DEF TypeOK, Frame, LockedPcs, GoalPcs, Goto, Exit, restore_tsflags,
            disable_bootstrap_rpm_overrides, local, disk, ghost
<1>1. CASE Start(p)  BY <1>1, SMTT(60) DEF Start
<1>2. CASE PrepareBase(p)  BY <1>2, SMTT(60) DEF PrepareBase
<1>3. CASE lock_system_repo(p)  BY <1>3, SMTT(60) DEF lock_system_repo
<1>4. CASE LoadRepos(p)  BY <1>4, SMTT(60) DEF LoadRepos
<1>5. CASE PrepareFails(p)  BY <1>5, SMTT(60) DEF PrepareFails
<1>6. CASE BeginGoal(p)  BY <1>6, SMTT(60) DEF BeginGoal
<1>7. CASE ResolveStops(p)  BY <1>7, SMTT(60) DEF ResolveStops
<1>8. CASE Resolve(p)  BY <1>8, SMTT(60) DEF Resolve
<1>9. CASE Cancel(p)  BY <1>9, SMTT(60) DEF Cancel
<1>10. CASE Confirm(p)  BY <1>10, SMTT(60) DEF Confirm
<1>11. CASE ClearBackup(p)  BY <1>11, SMTT(60) DEF ClearBackup
<1>12. CASE BackupFile(p)  BY <1>12, SMTT(60) DEF BackupFile
<1>13. CASE BackupThrows(p)  BY <1>13, SMTT(60) DEF BackupThrows, Catch, BackupCutShort
<1>14. CASE BackupDone(p)  BY <1>14, SMTT(60) DEF BackupDone
<1>15. CASE MergeLegacy(p)  BY <1>15, SMTT(60) DEF MergeLegacy
<1>16. CASE LinkLegacy(p)  BY <1>16, SMTT(60) DEF LinkLegacy
<1>17. CASE MergeThrows(p)  BY <1>17, SMTT(60) DEF MergeThrows, Catch
<1>18. CASE MergeDone(p)  BY <1>18, SMTT(60) DEF MergeDone
<1>19. CASE Download(p)  BY <1>19, SMTT(60) DEF Download
<1>20. CASE DownloadFails(p)  BY <1>20, SMTT(60) DEF DownloadFails
<1>21. CASE enable_bootstrap_rpm_overrides(p)
  BY <1>21, SMTT(60) DEF enable_bootstrap_rpm_overrides
<1>22. CASE Throws(p)  BY <1>22, SMTT(60) DEF Throws, Catch
<1>23. CASE RpmUnpack(p)  BY <1>23, SMTT(60) DEF RpmUnpack
<1>33. CASE RpmErase(p)  BY <1>33, SMTT(60) DEF RpmErase
<1>24. CASE RpmReturns(p)  BY <1>24, SMTT(60) DEF RpmReturns
<1>25. CASE RestoreFile(p)  BY <1>25, SMTT(60) DEF RestoreFile
<1>26. CASE RestoreWarns(p)  BY <1>26, SMTT(60) DEF RestoreWarns
<1>27. CASE RestoreDone(p)  BY <1>27, SMTT(60) DEF RestoreDone
<1>28. CASE activate_fedora_runtime(p)  BY <1>28, SMTT(60) DEF activate_fedora_runtime
<1>29. CASE RelinkShell(p)  BY <1>29, SMTT(60) DEF RelinkShell
<1>30. CASE FinalizeThrows(p)  BY <1>30, SMTT(60) DEF FinalizeThrows, Catch
<1>31. CASE FinalizeBootstrap(p)  BY <1>31, SMTT(60) DEF FinalizeBootstrap
<1>32. CASE Kill(p)  BY <1>32, SMTT(60) DEF Kill, BackupCutShort
<1> QED
  BY <1>1, <1>2, <1>3, <1>4, <1>5, <1>6, <1>7, <1>8, <1>9, <1>10, <1>11, <1>12,
     <1>13, <1>14, <1>15, <1>16, <1>17, <1>18, <1>19, <1>20, <1>21, <1>22, <1>23,
     <1>24, <1>25, <1>26, <1>27, <1>28, <1>29, <1>30, <1>31, <1>32, <1>33, Zenon DEF Step

\* The lock keeps p away from what the invariant says of another command.
LEMMA Others ==
  ASSUME IInv, NEW p \in Procs, Frame(p), NEW q \in Procs \ {p}
  PROVE  Own(q)'
<1> USE DEF IInv, Own, Frame
<1>1. CASE pc[q] \in LockedPcs
  <2>1. lock = q  BY <1>1, Zenon DEF Holder
  <2>2. pc[p] \notin LockedPcs  BY <2>1, Zenon DEF Holder
  <2>3. UNCHANGED disk /\ lock' = lock  BY <2>1, <2>2, GoalAssumption, Zenon
  <2>4. QED
    BY <2>1, <2>3 DEF Holder, Control, Copies, Base, Saved, Intact, disk
<1>2. CASE pc[q] \notin LockedPcs
  BY <1>2, ZenonT(60) DEF Holder, Control, Copies, Base, LockedPcs, GoalPcs, BootPcs,
              EarlyPcs, BackedPcs, MergedPcs
<1>3. QED  BY <1>1, <1>2, ZenonT(60)

\* The invariant says nothing of a command that has exited.
LEMMA Ended ==
  ASSUME NEW p \in Procs, pc'[p] = "exit"
  PROVE  Own(p)'
  BY Zenon DEF Own, Holder, Control, Copies, Base, LockedPcs, GoalPcs, BootPcs,
         EarlyPcs, BackedPcs, MergedPcs

-----------------------------------------------------------------------------
(* A step of p against its own part of the invariant.                      *)

\* Every step of p keeps what the invariant says of p.
LEMMA OwnStep ==
  ASSUME IInv, NEW p \in Procs, Start(p) \/ Step(p) \/ Kill(p)
  PROVE  Own(p)'
<1> USE GoalAssumption DEF IInv, TypeOK, Own, Goto, local, disk, ghost,
   LockedPcs, GoalPcs, BootPcs, EarlyPcs, BackedPcs, MergedPcs
<1>1. CASE Start(p)
  BY <1>1, SMTT(60) DEF Start, Holder, Control, Copies, Base, Saved, Intact, Files, Dirs
<1>2. CASE PrepareBase(p)
  BY <1>2, SMTT(60) DEF PrepareBase, Holder, Control, Copies, Base, Saved, Intact, Files,
     Dirs
<1>3. CASE lock_system_repo(p)
  BY <1>3, SMTT(60) DEF lock_system_repo, Holder, Control, Copies, Base, Saved, Intact,
     Files, Dirs
<1>4. CASE LoadRepos(p)
  BY <1>4, SMTT(60) DEF LoadRepos, Holder, Control, Copies, Base, Saved, Intact, Files,
     Dirs
<1>5. CASE PrepareFails(p)
  BY <1>5, Ended, Zenon DEF PrepareFails, Exit
<1>6. CASE BeginGoal(p)
  BY <1>6, ZenonT(60) DEF BeginGoal, Holder, Control, Copies, Base, Saved, Intact, Files,
     Dirs
<1>7. CASE ResolveStops(p)
  BY <1>7, Ended, Zenon DEF ResolveStops, Exit
<1>8. CASE Resolve(p)
  BY <1>8, SMTT(60) DEF Resolve, restore_tsflags, Holder, Control, Copies, Base, Saved,
     Intact, Files, Dirs
<1>9. CASE Cancel(p)
  BY <1>9, Ended, Zenon DEF Cancel, Exit
<1>10. CASE Confirm(p)
  BY <1>10, SMTT(60) DEF Confirm, Holder, Control, Copies, Base, Saved, Intact, Files,
     Dirs
<1>11. CASE ClearBackup(p)
  BY <1>11, SMTT(60) DEF ClearBackup, Holder, Control, Copies, Base, Saved, Intact, Files,
     Dirs
<1>12. CASE BackupFile(p)
  BY <1>12, SMTT(60) DEF BackupFile, Holder, Control, Copies, Base, Saved, Intact, Files,
     Dirs
<1>13. CASE BackupThrows(p)
  BY <1>13, Ended, Zenon DEF BackupThrows, Exit
<1>14. CASE BackupDone(p)
  BY <1>14, SMTT(60) DEF BackupDone, Holder, Control, Copies, Base, Saved, Intact, Files,
     Dirs
<1>15. CASE MergeLegacy(p)
  BY <1>15, SMTT(60) DEF MergeLegacy, Holder, Control, Copies, Base, Saved, Intact, Files,
     Dirs
<1>16. CASE LinkLegacy(p)
  BY <1>16, SMTT(60) DEF LinkLegacy, Holder, Control, Copies, Base, Saved, Intact, Files,
     Dirs
<1>17. CASE MergeThrows(p)
  BY <1>17, Ended, Zenon DEF MergeThrows, Exit
<1>18. CASE MergeDone(p)
  BY <1>18, SMTT(60) DEF MergeDone, Holder, Control, Copies, Base, Saved, Intact, Files,
     Dirs
<1>19. CASE Download(p)
  BY <1>19, SMTT(60) DEF Download, Holder, Control, Copies, Base, Saved, Intact, Files,
     Dirs
<1>20. CASE DownloadFails(p)
  BY <1>20, Ended, Zenon DEF DownloadFails, Exit
<1>21. CASE enable_bootstrap_rpm_overrides(p)
  BY <1>21, ZenonT(60) DEF enable_bootstrap_rpm_overrides, Holder, Control, Copies, Base,
     Saved, Intact, Files, Dirs
<1>22. CASE Throws(p)
  <2> USE <1>22 DEF Throws, Catch, restore_tsflags,
     disable_bootstrap_rpm_overrides
  <2>1. CASE boot[p]
    <3>1. Goto(p, "restore_fail") /\ UNCHANGED lock  BY <2>1, Zenon
    <3>2. Holder(p)' /\ Control(p)'  BY <2>1, <3>1, Zenon DEF Holder, Control
    <3>3. Copies(p)'  BY <2>1, <3>1 DEF Copies, Saved, Intact, Files
    <3>4. Base(p)'  BY <2>1, <3>1, Zenon DEF Base
    <3>5. QED  BY <3>2, <3>3, <3>4, Zenon
  <2>2. CASE ~boot[p]
    BY <2>2, Ended, Zenon DEF Exit
  <2>3. QED  BY <2>1, <2>2, Zenon
<1>23. CASE RpmUnpack(p)
  BY <1>23, SMTT(60) DEF RpmUnpack, Holder, Control, Copies, Base, Saved, Intact, Files,
     Dirs
<1>33. CASE RpmErase(p)
  BY <1>33, SMTT(60) DEF RpmErase, Holder, Control, Copies, Base, Saved, Intact, Files,
     Dirs
<1>24. CASE RpmReturns(p)
  BY <1>24, SMTT(60) DEF RpmReturns, Exit, restore_tsflags,
     disable_bootstrap_rpm_overrides, Holder, Control, Copies, Base, Saved, Intact,
     Files, Dirs
<1>25. CASE RestoreFile(p)
  BY <1>25, SMTT(60) DEF RestoreFile, Holder, Control, Copies, Base, Saved, Intact, Files,
     Dirs
<1>26. CASE RestoreWarns(p)
  BY <1>26, SMTT(60) DEF RestoreWarns, Holder, Control, Copies, Base, Saved, Intact,
     Files, Dirs
<1>27. CASE RestoreDone(p)
  BY <1>27, SMTT(60) DEF RestoreDone, Exit, restore_tsflags,
     disable_bootstrap_rpm_overrides, Holder, Control, Copies, Base, Saved, Intact,
     Files, Dirs
<1>28. CASE activate_fedora_runtime(p)
  BY <1>28, SMTT(60) DEF activate_fedora_runtime, Holder, Control, Copies, Base, Saved,
     Intact, Files, Dirs
<1>29. CASE RelinkShell(p)
  BY <1>29, SMTT(60) DEF RelinkShell, Holder, Control, Copies, Base, Saved, Intact, Files,
     Dirs
<1>30. CASE FinalizeThrows(p)
  BY <1>30, SMTT(60) DEF FinalizeThrows, Catch, Exit, restore_tsflags,
     disable_bootstrap_rpm_overrides, Holder, Control, Copies, Base, Saved, Intact,
     Files, Dirs
<1>31. CASE FinalizeBootstrap(p)
  BY <1>31, Ended, Zenon DEF FinalizeBootstrap, Exit
<1>32. CASE Kill(p)
  BY <1>32, Ended, Zenon DEF Kill, Exit
<1> QED
  BY <1>1, <1>2, <1>3, <1>4, <1>5, <1>6, <1>7, <1>8, <1>9, <1>10, <1>11, <1>12,
     <1>13, <1>14, <1>15, <1>16, <1>17, <1>18, <1>19, <1>20, <1>21, <1>22, <1>23,
     <1>24, <1>25, <1>26, <1>27, <1>28, <1>29, <1>30, <1>31, <1>32, <1>33, Zenon DEF Step

\* IInv is an invariant of every behaviour of the commands.
THEOREM Invariance == Spec => []IInv
<1>1. Init => IInv
  <2> SUFFICES ASSUME Init PROVE IInv  BY Zenon
  <2>1. TypeOK
    <3>1. core \in [Files -> Content] /\ link \in [Dirs -> LegacyPath]
      BY Zenon DEF Init, Content, LegacyPath
    <3>2. before \in [Procs -> [Files -> Content]]
      BY Zenon DEF Init, Content
    <3>3. /\ boot \in [Procs -> BOOLEAN] /\ fedora \in [Procs -> BOOLEAN]
          /\ overrides \in [Procs -> BOOLEAN] /\ warned \in [Procs -> BOOLEAN]
      BY Zenon DEF Init
    <3>4. /\ pc \in [Procs -> Pcs]
          /\ rc \in [Procs -> {0, 1, 2, 3, Killed}]
          /\ cmd \in [Procs -> Commands]
      BY Zenon DEF Init, Pcs, Commands
    <3>5. /\ tsflags \in [Procs -> {"original", "bootstrap"}]
          /\ txnFlags \in [Procs -> {"original", "bootstrap"}]
          /\ idx \in [Procs -> Nat \ {0}]
      BY DEF Init
    <3>6. backup \in [Files -> Content]  BY Zenon DEF Init, Content
    <3>7. QED  BY <3>1, <3>2, <3>3, <3>4, <3>5, <3>6, Zenon DEF Init, TypeOK
  <2>2. \A p \in Procs : Own(p)
    BY Zenon DEF Init, Own, Holder, Control, Copies, Base, GoalPcs, LockedPcs,
       BootPcs,
           EarlyPcs, BackedPcs, MergedPcs
  <2>3. QED  BY <2>1, <2>2, Zenon DEF IInv
<1>2. IInv /\ [Next]_vars => IInv'
  <2> SUFFICES ASSUME IInv, [Next]_vars PROVE IInv'  BY Zenon
  <2>1. ASSUME NEW p \in Procs, Start(p) \/ Step(p) \/ Kill(p) PROVE IInv'
    <3>1. TypeOK' /\ Frame(p)  BY <2>1, TypeStep, StepFrame, Zenon DEF IInv
    <3>2. \A q \in Procs : Own(q)'  BY <2>1, <3>1, Others, OwnStep, Zenon
    <3>3. QED  BY <3>1, <3>2, Zenon DEF IInv
  <2>2. CASE UNCHANGED vars
    BY <2>2, ZenonT(60) DEF vars, local, disk, ghost, IInv, TypeOK, Own,
       Holder, Control, Copies, Base, Saved, Intact
  <2>3. QED  BY <2>1, <2>2, Zenon DEF Next, AllDone
<1>3. QED  BY <1>1, <1>2, PTL DEF Spec

-----------------------------------------------------------------------------
(* The properties.                                                         *)

\* Every variable keeps its type: statuses, positions and contents are among
\* those main.cpp can produce.
THEOREM TypeCorrect == Spec => []TypeOK
  BY Invariance, PTL DEF IInv

\* No command is in bootstrap mode once the marker exists (run_goal).
THEOREM OneBootstrapHolds == Spec => []OneBootstrap
<1>1. IInv => OneBootstrap  BY Zenon DEF IInv, Own, Control, OneBootstrap
<1>2. QED  BY <1>1, Invariance, PTL

\* RPM never runs in bootstrap mode unprepared (run_goal).
THEOREM BootstrapPreparedHolds == Spec => []BootstrapPrepared
<1>1. IInv => BootstrapPrepared
  BY Zenon DEF IInv, Own, Control, Copies, Base, Saved, BootstrapPrepared, GoalPcs,
         BackedPcs, MergedPcs
<1>2. QED  BY <1>1, Invariance, PTL

\* finalize_fedora_bootstrap writes the marker, and nothing else does.
LEMMA MarkerWrites ==
  ASSUME NEW p \in Procs, Start(p) \/ Step(p) \/ Kill(p), ~FinalizeBootstrap(p)
  PROVE  marker' = marker
  BY ZenonT(60) DEF Step, local, disk, ghost,
         Start, PrepareBase, lock_system_repo, LoadRepos, PrepareFails,
         BeginGoal, ResolveStops, Resolve, Cancel, Confirm, ClearBackup,
         BackupFile, BackupThrows, BackupDone, MergeLegacy, LinkLegacy,
         MergeThrows, MergeDone, Download, DownloadFails,
         enable_bootstrap_rpm_overrides, Throws, RpmUnpack, RpmErase, RpmReturns,
         RestoreFile, RestoreWarns, RestoreDone, activate_fedora_runtime,
         RelinkShell, FinalizeThrows, Kill, Catch

\* The marker is written over the base it announces: loader, links and, with
\* bash installed, its shell (finalize_fedora_bootstrap writes it last).
THEOREM MarkerMeansBaseHolds == Spec => MarkerMeansBase
<1>1. IInv /\ [Next]_vars => PublishesBase
  <2> SUFFICES ASSUME IInv, [Next]_vars, ~marker, marker'
               PROVE  loader /\ (\A d \in Dirs : link[d] = "link") /\ (bash => sh = "bash")
    BY Zenon DEF PublishesBase
  <2>1. PICK p \in Procs : Start(p) \/ Step(p) \/ Kill(p)
    BY Zenon DEF Next, AllDone, vars, disk
  <2>2. pc[p] = "finish"
    BY <2>1, MarkerWrites, Zenon DEF FinalizeBootstrap
  <2>3. QED
    BY <2>2, Zenon DEF IInv, Own, Control, Base, BootPcs, MergedPcs, BackedPcs
<1>2. QED  BY <1>1, Invariance, PTL DEF Spec, MarkerMeansBase

\* RPM and the restore are the only steps that write core files, clearing and
\* copying the only ones that write the backup.
LEMMA Writes ==
  ASSUME NEW p \in Procs, Start(p) \/ Step(p) \/ Kill(p)
  PROVE  /\ pc[p] \notin {"rpm", "restore_fail", "restore_final"} => core' = core
         /\ pc[p] \notin {"clear", "backup"} => backup' = backup
         /\ pc[p] \in GoalPcs => before' = before
  BY ZenonT(60) DEF GoalPcs, Step, BackupCutShort, local, disk, ghost,
         Start, PrepareBase, lock_system_repo, LoadRepos, PrepareFails,
         BeginGoal, ResolveStops, Resolve, Cancel, Confirm, ClearBackup,
         BackupFile, BackupThrows, BackupDone, MergeLegacy, LinkLegacy,
         MergeThrows, MergeDone, Download, DownloadFails,
         enable_bootstrap_rpm_overrides, Throws, RpmUnpack, RpmErase, RpmReturns,
         RestoreFile, RestoreWarns, RestoreDone, activate_fedora_runtime,
         RelinkShell, FinalizeThrows, FinalizeBootstrap, Kill, Catch

\* Within an attempt each core file survives in place or in the backup,
\* whatever step comes next, a kill included (backup_adavalinux_core_files).
THEOREM RecoverableHolds == Spec => Recoverable
<1>1. IInv /\ [Next]_vars => StaysRecoverable
  <2> SUFFICES ASSUME IInv, [Next]_vars, NEW q \in Procs, pc[q] \in GoalPcs, boot[q]
               PROVE  \A f \in Files : before[q][f] \in {"absent", core'[f], backup'[f]}
    BY Zenon DEF StaysRecoverable
  <2>1. \/ before[q] = core /\ core' = core
        \/ (\A f \in Files : Saved(q, f)) /\ backup' = backup
    <3>1. CASE UNCHANGED disk
      BY <3>1, Zenon DEF IInv, Own, Copies, disk, GoalPcs, EarlyPcs, BackedPcs
    <3>2. ASSUME NEW p \in Procs, Start(p) \/ Step(p) \/ Kill(p), p # q
          PROVE  UNCHANGED disk
      BY <3>2, StepFrame, Zenon DEF IInv, Own, Holder, LockedPcs, Frame
    <3>3. CASE Start(q) \/ Step(q) \/ Kill(q)
      BY <3>3, Writes, Zenon DEF IInv, Own, Copies, GoalPcs, EarlyPcs, BackedPcs
    <3>4. QED  BY <3>1, <3>2, <3>3, Zenon DEF Next, AllDone, vars, disk
  <2>2. QED  BY <2>1, Zenon DEF Saved
<1>2. QED  BY <1>1, Invariance, PTL DEF Spec, Recoverable

\* A bootstrap that is not killed and does not warn gives every core file back
\* (restore_adavalinux_core_files on each path out of run_goal).
THEOREM IdentityKeptHolds == Spec => IdentityKept
<1>1. IInv /\ [Next]_vars => EndsIntact
  <2> SUFFICES ASSUME IInv, [Next]_vars, NEW q \in Procs, pc[q] \in GoalPcs, boot[q],
                      pc'[q] = "exit", rc'[q] # Killed, ~warned'[q]
               PROVE  \A f \in Files : before[q][f] \in {"absent", core'[f]}
    BY Zenon DEF EndsIntact
  <2>1. PICK p \in Procs : Start(p) \/ Step(p) \/ Kill(p)
    BY Zenon DEF Next, AllDone, vars, GoalPcs
  <2>2. p = q
    BY <2>1, StepFrame, Zenon DEF IInv, Frame, GoalPcs
  <2>3. CASE pc[q] \in EarlyPcs
    BY <2>1, <2>2, <2>3, Writes, Zenon DEF IInv, Own, Copies, EarlyPcs
  <2>4. CASE pc[q] \notin EarlyPcs
    <3>1. (RestoreDone(q) /\ pc[q] = "restore_fail") \/ FinalizeBootstrap(q)
      <4> USE <2>1, <2>2, <2>4 DEF IInv, TypeOK, GoalPcs, EarlyPcs, local, Goto
      <4>1. ~Kill(q)  BY Zenon DEF Kill, Exit
      <4>2. ~(Throws(q) \/ FinalizeThrows(q))
        BY Zenon DEF Throws, FinalizeThrows, Catch
      <4>3. QED
        BY <4>1, <4>2, ZenonT(60) DEF Step, Start, PrepareBase, lock_system_repo, LoadRepos,
           PrepareFails, BeginGoal, ResolveStops, Resolve, Cancel, Confirm,
           ClearBackup, BackupFile, BackupThrows, BackupDone, MergeLegacy,
           LinkLegacy, MergeThrows, MergeDone, Download, DownloadFails,
           enable_bootstrap_rpm_overrides, RpmUnpack, RpmErase, RpmReturns, RestoreFile,
           RestoreWarns, RestoreDone, activate_fedora_runtime, RelinkShell
    <3>2. CASE RestoreDone(q) /\ pc[q] = "restore_fail"
      <4>1. warned' = warned /\ core' = core /\ idx[q] \notin Files
        BY <3>2, Zenon DEF RestoreDone, disk, ghost
      <4>2. \A f \in Files : f < idx[q]
        BY <4>1, GoalAssumption DEF IInv, TypeOK, Files
      <4>3. \A f \in Files : Intact(q, f)
        BY <3>2, <4>1, <4>2, Zenon DEF IInv, Own, Copies
      <4>4. QED  BY <4>1, <4>3, Zenon DEF Intact
    <3>3. CASE FinalizeBootstrap(q)
      BY <3>3, Zenon DEF FinalizeBootstrap, ghost, IInv, Own, Copies, Intact
    <3>4. QED  BY <3>1, <3>2, <3>3, Zenon
  <2>5. QED  BY <2>3, <2>4, Zenon
<1>2. QED  BY <1>1, Invariance, PTL DEF Spec, IdentityKept

\* Only prepare_fedora_usr_merge writes the legacy paths.
LEMMA LinkWrites ==
  ASSUME NEW p \in Procs, Start(p) \/ Step(p) \/ Kill(p)
  PROVE  link' = link \/ MergeLegacy(p) \/ LinkLegacy(p)
  BY ZenonT(60) DEF Step, local, disk, ghost,
         Start, PrepareBase, lock_system_repo, LoadRepos, PrepareFails,
         BeginGoal, ResolveStops, Resolve, Cancel, Confirm, ClearBackup,
         BackupFile, BackupThrows, BackupDone, MergeThrows, MergeDone,
         Download, DownloadFails, enable_bootstrap_rpm_overrides, Throws,
         RpmUnpack, RpmErase, RpmReturns, RestoreFile, RestoreWarns, RestoreDone,
         activate_fedora_runtime, RelinkShell, FinalizeThrows,
         FinalizeBootstrap, Kill, Catch

\* Whatever the commands do and however they end, each legacy path is only ever
\* cleared and then linked, and stays as it is once it is the right link
\* (ensure_usr_merge_link): SyspckgGoal implements MergedPaths.
THEOREM MergedPathsImplemented == Spec => ImplementsMergedPaths
<1>1. Init => Abstract!Init
  BY SMT, Zenon DEF Init, Abstract!Init
<1>2. IInv /\ [Next]_vars => [Abstract!Next]_link
  <2> SUFFICES ASSUME IInv, Next, link' # link
               PROVE  Abstract!Next
    BY Zenon DEF vars, disk
  <2>1. PICK p \in Procs : Start(p) \/ Step(p) \/ Kill(p)
    BY Zenon DEF Next, AllDone, vars, disk
  <2>2. CASE MergeLegacy(p)
    <3>1. idx[p] \in Dirs /\ Abstract!Remove(idx[p])
      BY <2>2, Zenon DEF MergeLegacy, Abstract!Remove
    <3>2. QED  BY <3>1, Zenon DEF Abstract!Next
  <2>3. CASE LinkLegacy(p)
    <3>1. idx[p] \in Dirs /\ link[idx[p]] = "gone"
      BY <2>3, SMT, Zenon DEF LinkLegacy, IInv, TypeOK
    <3>2. Abstract!Link(idx[p])
      BY <2>3, <3>1, Zenon DEF LinkLegacy, Abstract!Link
    <3>3. QED  BY <3>1, <3>2, Zenon DEF Abstract!Next
  <2>4. QED  BY <2>1, <2>2, <2>3, LinkWrites, Zenon
<1>3. QED  BY <1>1, <1>2, Invariance, PTL DEF Spec, ImplementsMergedPaths, Abstract!Spec
=============================================================================
