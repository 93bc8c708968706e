-------------------------- MODULE InstallerProofs --------------------------
(* What installer_run_install may write, for all disks and media, any      *)
(* number of runs and of polls, and whatever earlier runs left mounted;    *)
(* what the screens guarantee, for all devices and every way through them; *)
(* and that what the screens hand over is what a run may be started with.  *)
EXTENDS InstallerRun, InstallerWizard, TLAPS

Layer == [part : Parts, sub : SUBSET Subs]

-----------------------------------------------------------------------------
(* The mount stacks.                                                       *)

\* A mount becomes the visible layer.
LEMMA PushFacts ==
    ASSUME NEW S, NEW s \in Seq(S), NEW e \in S
    PROVE  /\ Append(s, e) \in Seq(S)
           /\ Append(s, e) # <<>>
           /\ Last(Append(s, e)) = e
BY DEF Last

\* An umount takes it away; there may be others below.
LEMMA PopFacts ==
    ASSUME NEW S, NEW s \in Seq(S), s # <<>>
    PROVE  /\ Pop(s) \in Seq(S)
           /\ Last(s) \in S
BY DEF Pop, Last

\* What is left of a stack after some umounts.
LEMMA LeftOverFacts ==
    ASSUME NEW S, mediaMounts \in Seq(S), NEW m \in LeftOver
    PROVE  m \in Seq(S)
BY DEF LeftOver

\* Mounts below the target change only the visible layer.
LEMMA WithSubFacts ==
    ASSUME rootMounts \in Seq(Layer), rootMounts # <<>>, NEW sub \in SUBSET Subs
    PROVE  /\ WithSub(sub) \in Seq(Layer)
           /\ WithSub(sub) # <<>>
           /\ Last(WithSub(sub)).part = Last(rootMounts).part
<1> DEFINE n == Len(rootMounts)
           e == [rootMounts[n] EXCEPT !.sub = sub]
<1>1. n \in Nat /\ n # 0 /\ rootMounts[n] \in Layer
  OBVIOUS
<1>2. e \in Layer /\ e.part = rootMounts[n].part
  BY <1>1 DEF Layer
<1>3. WithSub(sub) = [rootMounts EXCEPT ![n] = e]
  BY DEF WithSub
<1>4. /\ WithSub(sub) \in Seq(Layer)
      /\ Len(WithSub(sub)) = n
      /\ WithSub(sub)[n] = e
  BY <1>1, <1>2, <1>3
<1> QED
  BY <1>1, <1>2, <1>4 DEF Last

LEMMA TopSubType ==
    ASSUME rootMounts \in Seq(Layer)
    PROVE  TopSub \in SUBSET Subs
<1>1. CASE rootMounts # <<>>
  <2>1. Last(rootMounts) \in Layer
    BY <1>1, PopFacts
  <2> QED
    BY <1>1, <2>1 DEF TopSub, Layer
<1>2. CASE rootMounts = <<>>
  BY <1>2 DEF TopSub
<1> QED
  BY <1>1, <1>2

\* Whatever umount does, stacks stay stacks; an umount of /mnt/root leaves the
\* media alone.
LEMMA UmountFacts ==
    ASSUME NEW point, installer_safe_umount(point),
           mediaMounts \in Seq(Devices), rootMounts \in Seq(Layer)
    PROVE  /\ mediaMounts' \in Seq(Devices)
           /\ rootMounts' \in Seq(Layer)
<1>1. CASE UNCHANGED mounts
  BY <1>1 DEF mounts
<1>2. CASE mediaMounts # <<>> /\ mediaMounts' = Pop(mediaMounts) /\ UNCHANGED rootMounts
  BY <1>2, PopFacts
<1>3. CASE rootMounts # <<>> /\ rootMounts' = Pop(rootMounts) /\ UNCHANGED mediaMounts
  BY <1>3, PopFacts
<1>4. CASE /\ point \in TopSub
           /\ rootMounts' = WithSub(TopSub \ {point}) /\ UNCHANGED mediaMounts
  <2>1. rootMounts # <<>>
    BY <1>4 DEF TopSub
  <2> QED
    BY <1>4, <2>1, TopSubType, WithSubFacts
<1> QED
  BY <1>1, <1>2, <1>3, <1>4 DEF installer_safe_umount

-----------------------------------------------------------------------------
(* The invariant.                                                          *)

\* What each phase knows of the run's choices: the target is not the media, and
\* once accepted it does not hold the running system; an update gets to none
\* of the phases that write.
Chosen ==
    /\ pc # "idle" => cfg.disk # cfg.install_media
    /\ pc \in Working \cup {"sync"} => cfg.disk # LiveDisk
    /\ pc \in Writing \cup {"install_grub"} => cfg.action = "INSTALL"
    /\ pc = "mount" => cfg.action # "FORMAT_ONLY"
    /\ pc \in {"e2fsprogs", "fdisk", "mkfs", "sync"} => cfg.action # "UPDATE"

\* While the target is written to, it is the visible layer of /mnt/root.
TargetOnTop ==
    /\ pc \in Writing => rootMounts # <<>> /\ Last(rootMounts).part = Part
    /\ pc = "wipe" => TopSub = {}

\* The target is neither the media nor the running system's disk, and is to be
\* written to.
Accepted ==
    cfg.disk # cfg.install_media /\ cfg.disk # LiveDisk /\ cfg.action # "UPDATE"

\* Unwritten data is of a phase that writes, or of a run that has returned from
\* one, and is meant for the target.
OnlyWritingUnsynced ==
    ~synced => pc \in Writing \cup {"idle", "log", "sync"} /\ Accepted

MountInv ==
    /\ TypeOK
    /\ Chosen
    /\ MediaAuthoritative
    /\ TargetOnTop
    /\ OnlyWritingUnsynced

\* The labels after each piece is written, up to the boot loader.
AfterGrubCfg  == {"mount_efi", "grub-install"}
AfterKernel   == AfterGrubCfg \cup {"config", "chroot", "mkconfig"}
AfterAccounts == AfterKernel \cup {"kernel"}
AfterPackages == AfterAccounts \cup {"accounts"}
AfterInitrd   == AfterPackages \cup {"target_grub"}
AfterRootfs   == AfterInitrd \cup {"prepare"}

\* Pieces that were written stay, until the next run.
PiecesKept ==
    /\ pc \in AfterRootfs   => "rootfs"   \in root[Part]
    /\ pc \in AfterInitrd   => "initrd"   \in root[Part]
    /\ pc \in AfterPackages => "packages" \in root[Part]
    /\ pc \in AfterAccounts => "accounts" \in root[Part]
    /\ pc \in AfterKernel   => "kernel"   \in root[Part]
    /\ pc \in AfterGrubCfg  => "grub.cfg" \in root[Part]

\* The partition table of the run is written before anything on the disk.
TableKept ==
    pc \in Writing \cup {"wait", "mkfs", "mount"} /\ cfg.action # "UPDATE" =>
        table[cfg.disk] = cfg.boot_mode

\* While a run lasts, its boot loader is there exactly when everything else is.
RunOver == pc \in {"idle", "log"}

Installed == pc \in {"sync", "epilogue"} /\ cfg.action = "INSTALL"

LoaderLast ==
    /\ \A d \in Disks : boot[d] <= run
    /\ ~RunOver => result = "none" /\ run > 0
    /\ pc = "log" => result \in {"ok", "error"}
    /\ ~RunOver /\ ~Installed => boot[cfg.disk] # run
    /\ Installed => /\ boot[cfg.disk] = run
                    /\ Complete \subseteq root[Part]
                    /\ table[cfg.disk] = cfg.boot_mode

IInv ==
    /\ MountInv
    /\ PiecesKept
    /\ TableKept
    /\ LoaderLast
    /\ BootableIsComplete

LEMMA InitInv == Init => IInv
<1> SUFFICES ASSUME Init PROVE IInv
  OBVIOUS
<1>1. TypeOK
  <2>1. root \in [Parts -> SUBSET Pieces]
    BY DEF Init, Pieces
  <2>2. mediaMounts \in Seq(Devices) /\ rootMounts \in Seq(Layer)
    BY DEF Init
  <2>3. failed \in BOOLEAN /\ synced \in BOOLEAN
    BY Zenon DEF Init
  <2>4. /\ pc \in Labels /\ k \in 0..6 \cup 0..WaitAttempts /\ run \in 0..MaxRuns
        /\ boot \in [Disks -> 0..MaxRuns]
        /\ table \in [Disks -> {"old", "BIOS", "UEFI"}]
        /\ result \in {"none", "ok", "error", "killed", "cut"}
    BY RunAssumption DEF Init, Labels
  <2> QED
    BY <2>1, <2>2, <2>3, <2>4 DEF Init, TypeOK, Layer
<1>2. cfg.disk \in Disks
  BY DEF Init, Configs
<1>3. Chosen /\ MediaAuthoritative /\ TargetOnTop /\ OnlyWritingUnsynced
  BY DEF Init, Chosen, MediaAuthoritative, TargetOnTop, OnlyWritingUnsynced,
         Working, Writing
<1>4. PiecesKept /\ TableKept
  BY DEF Init, PiecesKept, TableKept, Writing, AfterRootfs, AfterInitrd,
         AfterPackages, AfterAccounts, AfterKernel, AfterGrubCfg
<1>5. LoaderLast /\ BootableIsComplete
  BY <1>2, SMTT(30) DEF Init, LoaderLast, RunOver, Installed, BootableIsComplete
<1> QED
  BY <1>1, <1>3, <1>4, <1>5 DEF IInv, MountInv

-----------------------------------------------------------------------------
(* The kinds of steps: a run starts, moves on, or ends, its log is copied, *)
(* or power is lost.                                                       *)

\* A label and the one that follows it.
Goes(here, next) == pc = here /\ pc' = next

\* The ways through a run.
Along ==
    \/ pc \in {"prologue", "wait", "epilogue"} /\ UNCHANGED pc
    \/ Goes("prologue", "checks") \/ Goes("checks", "detect") \/ Goes("detect", "refuse")
    \/ /\ pc = "refuse" /\ ~Refused
       /\ \/ cfg.action = "UPDATE" /\ pc' = "wait"
          \/ cfg.action = "INSTALL" /\ pc' = "install_grub"
          \/ cfg.action = "FORMAT_ONLY" /\ pc' = "e2fsprogs"
    \/ Goes("install_grub", "e2fsprogs") \/ Goes("e2fsprogs", "fdisk") \/ Goes("fdisk", "wait")
    \/ pc = "wait" /\ pc' = IF cfg.action = "UPDATE" THEN "mount" ELSE "mkfs"
    \/ pc = "mkfs" /\ pc' = IF cfg.action = "FORMAT_ONLY" THEN "sync" ELSE "mount"
    \/ pc = "mount" /\ pc' = IF cfg.action = "UPDATE" THEN "update" ELSE "wipe"
    \/ Goes("wipe", "extract") \/ Goes("extract", "prepare") \/ Goes("prepare", "target_grub")
    \/ Goes("target_grub", "accounts") \/ Goes("accounts", "kernel") \/ Goes("kernel", "config")
    \/ Goes("config", "chroot") \/ Goes("chroot", "mkconfig")
    \/ pc = "mkconfig" /\ pc' = IF cfg.boot_mode = "UEFI" THEN "mount_efi" ELSE "grub-install"
    \/ Goes("mount_efi", "grub-install") \/ Goes("grub-install", "sync")
    \/ Goes("sync", "epilogue")

\* The commands that remove or add pieces below /mnt/root.
Fills == {"wipe", "extract", "prepare", "target_grub", "accounts", "kernel", "config", "mkconfig"}
Filling ==
    \/ Wipe \/ Extract \/ PrepareBoot \/ InstallTargetGrub
    \/ write_user_files \/ CopyKernel \/ WriteGrubDefaults \/ MakeGrubConfig

\* What a step inside a run may change besides the label.
Counted ==
    /\ UNCHANGED <<run, failed, cfg, live, result>>
    /\ k' \in {k, 0, 1, 6} \/ (k' = k + 1 /\ (k < 6 \/ k + 1 < WaitAttempts))

Remounted ==
    \/ pc \in {"prologue", "epilogue"}
    \/ pc = "detect" /\ detect_media
    \/ pc \in {"mount", "chroot", "mount_efi"} /\ (MountTarget \/ PrepareChroot \/ MountEfi)
    \/ pc \notin {"detect", "mount", "chroot", "mount_efi"} /\ UNCHANGED mounts

\* Nothing on the partitions changes but for the log and the live packages.
Noted ==
    UNCHANGED root \/ root' = With(live, "tools") \/ root' = With(Below, "log")

Written ==
    /\ \/ pc = "fdisk" /\ table' = [table EXCEPT ![cfg.disk] = cfg.boot_mode]
       \/ pc # "fdisk" /\ UNCHANGED table
    /\ \/ pc = "grub-install" /\ InstallBootloader
       \/ pc # "grub-install" /\ UNCHANGED boot
    /\ \/ pc = "mkfs" /\ Mkfs
       \/ pc \in Fills /\ Filling
       \/ pc \notin Fills \cup {"mkfs"} /\ Noted

Buffered ==
    \/ pc # "sync" /\ UNCHANGED synced
    \/ pc = "sync" /\ synced' = TRUE
    \/ pc \in Writing /\ synced' = FALSE

Moved == ~RunOver /\ ~RunOver' /\ Along /\ Counted /\ Remounted /\ Written /\ Buffered

\* The last umount, and the returns after an error.
Ended ==
    /\ ~RunOver /\ pc' = "log" /\ k' = 0
    /\ \/ pc = "epilogue" /\ result' = "ok" /\ UNCHANGED failed
       \/ /\ pc \in Working \cup {"checks", "detect", "refuse"} /\ result' = "error"
          /\ failed' \in {failed, TRUE}
    /\ UNCHANGED <<run, cfg, live>>
    /\ FormatFails \/ (UNCHANGED table /\ Noted)
    /\ BootloaderFails \/ UNCHANGED <<boot, synced>>

Logged ==
    /\ pc = "log" /\ pc' = "idle" /\ Noted
    /\ UNCHANGED <<k, run, failed, cfg, live, result, table, boot, synced>>

LEMMA StepKinds ==
    ASSUME MountInv, [Next]_vars
    PROVE  Start \/ PowerOff \/ Moved \/ Ended \/ Logged \/ UNCHANGED vars
<1> DEFINE Quiet == pc \notin Fills \cup {"fdisk", "mkfs", "grub-install", "sync"} /\ UNCHANGED disks
           Still == pc \notin {"detect", "mount", "chroot", "mount_efi"} /\ UNCHANGED mounts
<1>0. Along => ~RunOver /\ ~RunOver'
  BY Zenon DEF Along, Goes, RunOver
<1>1. Quiet => Written /\ Buffered
  BY DEF Written, Noted, Buffered, disks
<1>2. Still => Remounted
  BY DEF Remounted
<1>3. CASE CheckTarget
  <2>1. Along /\ Counted /\ Quiet /\ Still
    BY <1>3 DEF CheckTarget, Goto, Along, Goes, Counted, Fills
  <2> QED
    BY <1>0, <1>1, <1>2, <2>1 DEF Moved
<1>16. CASE InstallLiveGrub \/ InstallE2fsprogs
  <2>1. /\ Along /\ Counted /\ Still /\ Noted /\ UNCHANGED <<table, boot, synced>>
        /\ pc \in {"install_grub", "e2fsprogs"}
    BY <1>16
    DEF InstallLiveGrub, InstallE2fsprogs, Goto, Along, Goes, Counted, Noted
  <2> QED
    BY <1>0, <1>2, <2>1 DEF Moved, Written, Buffered, Fills
<1>4. CASE Accept
  <2>1. cfg.action \in {"INSTALL", "FORMAT_ONLY", "UPDATE"}
    BY DEF MountInv, TypeOK, Configs
  <2>2. Along /\ Counted /\ Quiet /\ Still
    BY <1>4, <2>1 DEF Accept, Goto, Along, Counted, Fills
  <2> QED
    BY <1>0, <1>1, <1>2, <2>2 DEF Moved
<1>5. CASE Ready \/ NotReady
  <2>1. Along /\ Counted /\ Quiet /\ Still
    BY <1>5 DEF Ready, NotReady, Goto, Along, Counted, Fills
  <2> QED
    BY <1>0, <1>1, <1>2, <2>1 DEF Moved
<1>6. CASE detect_media
  <2>1. Along /\ Counted /\ Quiet /\ pc = "detect"
    BY <1>6 DEF detect_media, Goto, Along, Goes, Counted, Fills
  <2> QED
    BY <1>0, <1>1, <1>6, <2>1 DEF Moved, Remounted
<1>7. CASE MountTarget \/ PrepareChroot \/ MountEfi
  <2>1. Along /\ Counted /\ Quiet /\ pc \in {"mount", "chroot", "mount_efi"}
    BY <1>7 DEF MountTarget, PrepareChroot, MountEfi, Goto, Along, Goes, Counted, Fills
  <2> QED
    BY <1>0, <1>1, <1>7, <2>1 DEF Moved, Remounted
<1>8. CASE Unmount
  <2>1. /\ pc \in {"prologue", "epilogue"}
        /\ UNCHANGED <<run, failed, cfg, live, disks>>
        /\ \/ k < 6 /\ k' = k + 1 /\ UNCHANGED <<pc, result>>
           \/ k' = 0 /\ Goes("prologue", "checks") /\ UNCHANGED result
           \/ k' = 0 /\ Goes("epilogue", "log") /\ result' = "ok"
    BY <1>8 DEF Unmount, Goto, Return, Goes
  <2>2. Written /\ Buffered /\ Remounted
    BY <1>1, <2>1 DEF Remounted, Fills
  <2> QED
    BY <1>0, <2>1, <2>2 DEF Moved, Along, Goes, Counted, Ended, RunOver, Noted, disks
<1>9. CASE Fdisk
  BY <1>0, <1>2, <1>9
  DEF Fdisk, Goto, Moved, Along, Goes, Counted, Written, Noted, Buffered, Fills
<1>10. CASE InstallBootloader
  <2>1. /\ Along /\ Counted /\ Still /\ Buffered /\ pc = "grub-install"
        /\ UNCHANGED <<table, root>>
    BY <1>10 DEF InstallBootloader, Goto, Along, Goes, Counted, Buffered, Writing
  <2> QED
    BY <1>0, <1>2, <1>10, <2>1 DEF Moved, Written, Noted, Fills
<1>11. CASE Sync
  BY <1>0, <1>2, <1>11
  DEF Sync, Goto, Moved, Along, Goes, Counted, Written, Noted, Buffered, Fills
<1>12. CASE Mkfs
  <2>1. /\ Along /\ Counted /\ Still /\ UNCHANGED <<table, boot, synced>> /\ pc = "mkfs"
    BY <1>12 DEF Mkfs, Goto, Along, Goes, Counted
  <2> QED
    BY <1>0, <1>2, <1>12, <2>1 DEF Moved, Written, Buffered
<1>13. CASE Filling
  <2> DEFINE Filled == /\ Along /\ pc \in Fills
                       /\ Counted /\ Still /\ UNCHANGED <<table, boot>> /\ synced' = FALSE
  <2>1. ASSUME Wipe \/ Extract \/ PrepareBoot \/ InstallTargetGrub
        PROVE  Filled
    BY <2>1 DEF Wipe, Extract, PrepareBoot, InstallTargetGrub, Fill, Goto, Along, Goes,
                Counted, Fills
  <2>2. ASSUME write_user_files \/ CopyKernel \/ WriteGrubDefaults \/ MakeGrubConfig
        PROVE  Filled
    BY <2>2 DEF write_user_files, CopyKernel, WriteGrubDefaults, MakeGrubConfig, Fill, Goto,
                Along, Goes, Counted, Fills
  <2>3. Filled
    BY <1>13, <2>1, <2>2, Zenon DEF Filling
  <2>4. Written
    BY <1>13, <2>3 DEF Written, Fills
  <2>5. Buffered
    BY <2>3 DEF Buffered, Fills, Writing
  <2> QED
    BY <1>0, <1>2, <2>3, <2>4, <2>5 DEF Moved
<1>14. CASE FormatFails
  <2>1. /\ pc \in {"fdisk", "mkfs"} /\ pc' = "log" /\ k' = 0 /\ result' = "error"
        /\ failed' = TRUE /\ UNCHANGED <<run, cfg, live, boot, synced>>
    BY <1>14 DEF FormatFails, Return
  <2> QED
    BY <1>14, <2>1 DEF Ended, RunOver, Working
<1>17. CASE BootloaderFails
  <2>1. /\ pc = "grub-install" /\ pc' = "log" /\ k' = 0 /\ result' = "error"
        /\ failed' = TRUE /\ UNCHANGED <<run, cfg, live, table, root>>
    BY <1>17 DEF BootloaderFails, Return
  <2> QED
    BY <1>17, <2>1 DEF Ended, RunOver, Working, Writing, Noted
<1>18. CASE LivePackageFails
  <2>1. /\ pc \in {"install_grub", "e2fsprogs"} /\ pc' = "log" /\ k' = 0
        /\ result' = "error" /\ failed' = TRUE /\ Noted
        /\ UNCHANGED <<run, cfg, live, table, boot, synced>>
    BY <1>18 DEF LivePackageFails, Return, Noted
  <2> QED
    BY <2>1 DEF Ended, RunOver, Working
<1>19. CASE copy_log_to_target
  BY <1>19 DEF copy_log_to_target, Goto, Logged, Noted
<1>15. CASE \/ DetectFails \/ Refuse \/ CommandFails \/ WaitFails \/ MkconfigFails
            \/ UpdateSystem
  <2>1. /\ pc \in Working \cup {"checks", "detect", "refuse"}
        /\ pc' = "log" /\ k' = 0 /\ result' = "error" /\ failed' \in {failed, TRUE}
        /\ UNCHANGED <<run, cfg, live, disks>>
    BY <1>15, Zenon
    DEF DetectFails, Refuse, CommandFails, WaitFails, MkconfigFails, UpdateSystem, Return,
        Working, Writing
  <2> QED
    BY <2>1, Zenon DEF Ended, RunOver, Noted, Working, Writing, disks
<1> QED
  BY <1>3, <1>4, <1>5, <1>6, <1>7, <1>8, <1>9, <1>10, <1>11, <1>12, <1>13, <1>14, <1>15,
     <1>16, <1>17, <1>18, <1>19
  DEF Next, Step, Filling, NoMoreRuns

-----------------------------------------------------------------------------
(* The mounts.                                                             *)

\* Every step keeps the stacks of mounts well formed.
LEMMA MountsType ==
    ASSUME MountInv, [Next]_vars
    PROVE  /\ mediaMounts' \in Seq(Devices)
           /\ rootMounts' \in Seq(Layer)
<1>1. /\ mediaMounts \in Seq(Devices) /\ rootMounts \in Seq(Layer)
      /\ cfg.install_media \in Devices
      /\ Part \in Parts
  BY DEF MountInv, TypeOK, Layer, Configs, Part, Parts
<1>2. TopSub \in SUBSET Subs
  BY <1>1, TopSubType
<1>3. CASE UNCHANGED mounts
  BY <1>1, <1>3 DEF mounts
<1>4. CASE Unmount \/ UpdateSystem
  BY <1>1, <1>4, UmountFacts DEF Unmount, UpdateSystem
<1>5. CASE detect_media \/ DetectFails
  <2>1. PICK m \in LeftOver : mediaMounts' \in {m, Append(m, cfg.install_media)}
    BY <1>5 DEF detect_media, DetectFails
  <2>2. m \in Seq(Devices)
    BY <1>1, LeftOverFacts
  <2>3. UNCHANGED rootMounts
    BY <1>5 DEF detect_media, DetectFails
  <2>4. Append(m, cfg.install_media) \in Seq(Devices)
    BY <1>1, <2>2, PushFacts
  <2> QED
    BY <1>1, <2>1, <2>2, <2>3, <2>4, Zenon
<1>6. CASE MountTarget
  <2>1. [part |-> Part, sub |-> {}] \in Layer
    BY <1>1 DEF Layer
  <2> QED
    BY <1>1, <1>6, <2>1, PushFacts DEF MountTarget
<1>7. CASE PrepareChroot \/ MountEfi \/ MkconfigFails
  <2>1. rootMounts # <<>>
    BY <1>7 DEF MountInv, TargetOnTop, Writing, PrepareChroot, MountEfi, MkconfigFails
  <2>2. \A sub \in SUBSET (TopSub \cup {"dev", "proc", "sys", "boot/efi"}) :
            sub \in SUBSET Subs
    BY <1>2 DEF Subs
  <2>3. PICK sub \in SUBSET Subs : rootMounts' = WithSub(sub)
    BY <1>7, <2>2 DEF PrepareChroot, MountEfi, MkconfigFails
  <2>4. UNCHANGED mediaMounts
    BY <1>7 DEF PrepareChroot, MountEfi, MkconfigFails
  <2> QED
    BY <1>1, <2>1, <2>3, <2>4, WithSubFacts
<1>8. CASE PowerOff
  BY <1>8 DEF PowerOff
<1>9. CASE \/ CheckTarget \/ Refuse \/ Accept \/ InstallLiveGrub \/ InstallE2fsprogs
           \/ Fdisk \/ Ready \/ NotReady \/ Mkfs
  BY <1>3, <1>9
  DEF CheckTarget, Refuse, Accept, InstallLiveGrub, InstallE2fsprogs, Fdisk, Ready, NotReady,
      Mkfs
<1>10. CASE Filling
  BY <1>3, <1>10, Zenon
  DEF Filling, Wipe, Extract, PrepareBoot, InstallTargetGrub, write_user_files, CopyKernel,
      WriteGrubDefaults, MakeGrubConfig, Fill
<1>11. CASE \/ InstallBootloader \/ Sync \/ CommandFails \/ FormatFails \/ WaitFails
            \/ LivePackageFails \/ BootloaderFails \/ copy_log_to_target
            \/ UNCHANGED vars
  BY <1>3, <1>11, Zenon
  DEF InstallBootloader, Sync, CommandFails, FormatFails, WaitFails, LivePackageFails,
      BootloaderFails, copy_log_to_target, vars
<1> QED
  BY <1>3, <1>4, <1>5, <1>6, <1>7, <1>8, <1>9, <1>10, <1>11
  DEF Next, Step, Filling, Start, NoMoreRuns

\* A step of filling keeps to the target.
LEMMA FillFacts ==
    ASSUME MountInv, NEW here \in Writing, NEW gone, NEW added, NEW next,
           Fill(here, gone, added, next)
    PROVE  /\ root' = [root EXCEPT ![Part] = (@ \ gone) \cup added]
           /\ Part \in Parts /\ Part' = Part
BY Zenon DEF MountInv, TargetOnTop, Fill, TypeOK, Configs, Part, Parts

\* The log and the live packages are all that such a step adds.
LEMMA NotedFacts ==
    ASSUME MountInv, Noted
    PROVE  /\ root' \in [Parts -> SUBSET Pieces]
           /\ \A p \in Parts : /\ root[p] \subseteq root'[p]
                               /\ root'[p] \subseteq root[p] \cup MayGain(p)
<1>1. root \in [Parts -> SUBSET Pieces]
  BY DEF MountInv, TypeOK
<1>2. ASSUME NEW part, NEW piece \in {"log", "tools"}, root' = With(part, piece),
             \A p \in Parts : p = part => piece \in MayGain(p)
      PROVE  /\ root' \in [Parts -> SUBSET Pieces]
             /\ \A p \in Parts : /\ root[p] \subseteq root'[p]
                                 /\ root'[p] \subseteq root[p] \cup MayGain(p)
  BY <1>1, <1>2 DEF With, Pieces
<1>3. CASE UNCHANGED root
  BY <1>1, <1>3
<1>4. CASE root' = With(live, "tools")
  BY <1>2, <1>4 DEF MayGain
<1>5. CASE root' = With(Below, "log")
  BY <1>2, <1>5 DEF MayGain
<1> QED
  BY <1>3, <1>4, <1>5 DEF Noted

\* Every step keeps the types.
LEMMA TypeStep ==
    ASSUME MountInv, [Next]_vars
    PROVE  TypeOK'
<1>1. TypeOK /\ Part \in Parts /\ cfg.disk \in Disks
      /\ cfg.boot_mode \in {"BIOS", "UEFI"}
  BY DEF MountInv, TypeOK, Configs, Part, Parts
<1>2. /\ mediaMounts' \in Seq(Devices)
      /\ rootMounts' \in Seq([part : Parts, sub : SUBSET Subs])
  BY MountsType DEF Layer
<1>3. root' \in [Parts -> SUBSET Pieces]
  <2>1. CASE Noted
    BY <2>1, NotedFacts
  <2>2. CASE Mkfs \/ FormatFails
    BY <1>1, <2>2, Zenon DEF TypeOK, Mkfs, FormatFails
  <2>3. CASE PowerOff
    BY <1>1, <2>3 DEF TypeOK, PowerOff
  <2>4. ASSUME NEW here \in Writing, NEW gone, NEW added \in SUBSET Pieces,
               NEW next, Fill(here, gone, added, next)
        PROVE  root' \in [Parts -> SUBSET Pieces]
    <3>1. root' = [root EXCEPT ![Part] = (@ \ gone) \cup added]
      BY <2>4, FillFacts
    <3>2. (root[Part] \ gone) \cup added \in SUBSET Pieces
      BY <1>1 DEF TypeOK
    <3> QED
      BY <1>1, <3>1, <3>2 DEF TypeOK
  <2>5. CASE Filling
    BY <2>4, <2>5, Zenon
    DEF Filling, Wipe, Extract, PrepareBoot, InstallTargetGrub, write_user_files, CopyKernel,
        WriteGrubDefaults, MakeGrubConfig, Writing, Pieces, Complete
  <2> QED
    BY <2>1, <2>2, <2>3, <2>5, StepKinds, Zenon
    DEF Moved, Written, Ended, Logged, Start, Noted, vars, disks
<1>4. pc' \in Labels
  BY <1>1, StepKinds, Zenon
  DEF Start, PowerOff, Moved, Along, Goes, Ended, Logged, vars, TypeOK, Labels, Working,
      Writing
<1>5. /\ result' \in {"none", "ok", "error", "killed", "cut"}
      /\ cfg' \in Configs /\ live' \in Parts \cup {None}
  BY <1>1, StepKinds, Zenon
  DEF Start, Handed, PowerOff, Moved, Counted, Ended, Logged, vars, TypeOK
<1>6. /\ failed' \in BOOLEAN /\ synced' \in BOOLEAN
      /\ boot' \in [Disks -> 0..MaxRuns]
  BY <1>1, StepKinds, Zenon
  DEF Start, PowerOff, Moved, Counted, Written, InstallBootloader, Buffered, Ended,
      BootloaderFails, Logged, vars, disks, TypeOK
<1>7. table' \in [Disks -> {"old", "BIOS", "UEFI"}]
  BY <1>1, StepKinds, Zenon
  DEF Start, PowerOff, Moved, Written, Ended, FormatFails, Logged, vars, disks, TypeOK
<1>8. /\ run' = run \/ (run < MaxRuns /\ run' = run + 1)
      /\ \/ k' \in {k, 0, 1, 6}
         \/ k' = k + 1 /\ (k < 6 \/ k + 1 < WaitAttempts)
  BY StepKinds, Zenon DEF Start, PowerOff, Moved, Counted, Ended, Logged, vars
<1>9. run' \in 0..MaxRuns
  BY <1>1, <1>8, RunAssumption DEF TypeOK
<1>10. k' \in 0..6 \cup 0..WaitAttempts
  BY <1>1, <1>8, RunAssumption, SMTT(30) DEF TypeOK
<1> QED
  BY <1>2, <1>3, <1>4, <1>5, <1>6, <1>7, <1>9, <1>10 DEF TypeOK

\* A phase is entered with the choices it needs.
LEMMA ChosenStep ==
    ASSUME MountInv, [Next]_vars
    PROVE  Chosen'
<1>1. /\ Chosen /\ MediaAuthoritative
      /\ cfg.action \in {"INSTALL", "FORMAT_ONLY", "UPDATE"}
  BY DEF MountInv, TypeOK, Configs
<1>2. CASE Start
  BY <1>2 DEF Start, Handed, Chosen, Working, Writing
<1>3. CASE PowerOff \/ Ended \/ Logged
  BY <1>1, <1>3, Zenon DEF PowerOff, Ended, Logged, RunOver, Chosen, Working, Writing
<1>4. CASE Moved
  <2>1. UNCHANGED <<cfg, live>> /\ Along
    BY <1>4 DEF Moved, Counted
  <2> USE DEF Along, Goes, Chosen, Writing
  <2>2. (pc # "idle" => cfg.disk # cfg.install_media)'
    BY <1>1, <2>1
  <2>3. (pc \in Working \cup {"sync"} => cfg.disk # LiveDisk)'
    <3>1. LiveDisk' = LiveDisk
      BY <2>1 DEF LiveDisk
    <3> QED
      BY <1>1, <2>1, <3>1 DEF Working, Refused
  <2>4. (pc \in Writing \cup {"install_grub"} => cfg.action = "INSTALL")'
    BY <1>1, <2>1
  <2>5. /\ (pc = "mount" => cfg.action # "FORMAT_ONLY")'
        /\ (pc \in {"e2fsprogs", "fdisk", "mkfs", "sync"} => cfg.action # "UPDATE")'
    BY <1>1, <2>1
  <2> QED
    BY <2>2, <2>3, <2>4, <2>5
<1>5. CASE UNCHANGED vars
  BY <1>1, <1>5 DEF vars, Chosen, LiveDisk
<1> QED
  BY <1>2, <1>3, <1>4, <1>5, StepKinds

\* detect_media mounts the selected media, and nothing covers it after that.
LEMMA MediaStep ==
    ASSUME MountInv, [Next]_vars
    PROVE  MediaAuthoritative'
<1>1. /\ MediaAuthoritative /\ mediaMounts \in Seq(Devices)
      /\ cfg.install_media \in Devices
  BY DEF MountInv, TypeOK, Configs
<1>2. CASE detect_media
  BY <1>1, <1>2, LeftOverFacts, PushFacts
  DEF detect_media, MediaAuthoritative
<1>3. CASE ~detect_media
  <2>1. pc' \in Working \cup {"refuse", "sync"} =>
            /\ pc \in Working \cup {"refuse", "sync"}
            /\ UNCHANGED <<cfg, mediaMounts>>
    <3>1. CASE Moved
      <4>1. UNCHANGED cfg /\ pc # "detect"
        BY <1>3, <3>1, Zenon DEF Moved, Counted, Remounted
      <4>2. pc \in {"prologue", "epilogue"} \/ UNCHANGED mediaMounts
        BY <3>1, <4>1 DEF Moved, Remounted, MountTarget, PrepareChroot, MountEfi, mounts
      <4>3. pc' \in Working \cup {"refuse", "sync"} => pc \in Working \cup {"refuse", "sync"}
        BY <3>1, <4>1, Zenon DEF Moved, Along, Goes, Working, Writing
      <4> QED
        BY <4>1, <4>2, <4>3, Zenon DEF Working, Writing
    <3>2. CASE Start \/ PowerOff \/ Ended \/ Logged
      BY <3>2, Zenon DEF Start, PowerOff, Ended, Logged, Working, Writing
    <3>3. CASE UNCHANGED vars
      BY <3>3 DEF vars, mounts
    <3> QED
      BY <3>1, <3>2, <3>3, StepKinds, Zenon
  <2> QED
    BY <1>1, <2>1 DEF MediaAuthoritative, Last
<1> QED
  BY <1>2, <1>3

\* What is written to is the target, freshly mounted when it is wiped.
LEMMA TargetStep ==
    ASSUME MountInv, [Next]_vars
    PROVE  TargetOnTop'
<1>1. /\ TargetOnTop /\ rootMounts \in Seq(Layer) /\ Part \in Parts
      /\ cfg.action \in {"INSTALL", "FORMAT_ONLY", "UPDATE"}
  BY DEF MountInv, TypeOK, Layer, Configs, Part, Parts
<1>2. TopSub \in SUBSET Subs
  BY <1>1, TopSubType
<1>3. CASE MountTarget
  <2>1. [part |-> Part, sub |-> {}] \in Layer
    BY <1>1 DEF Layer
  <2>2. rootMounts' # <<>> /\ Last(rootMounts') = [part |-> Part, sub |-> {}]
    BY <1>1, <1>3, <2>1, PushFacts DEF MountTarget
  <2>3. Last(rootMounts').part = Part /\ Last(rootMounts').sub = {}
    BY <2>2
  <2>4. Part' = Part /\ TopSub' = {}
    BY <1>3, <2>2, <2>3 DEF MountTarget, TopSub, Part, Last
  <2> QED
    BY <2>2, <2>3, <2>4 DEF TargetOnTop, Last
<1>4. CASE PrepareChroot \/ MountEfi
  <2>1. rootMounts # <<>> /\ Last(rootMounts).part = Part
    BY <1>1, <1>4 DEF TargetOnTop, Writing, PrepareChroot, MountEfi
  <2>2. PICK sub \in SUBSET Subs : rootMounts' = WithSub(sub)
    BY <1>2, <1>4 DEF PrepareChroot, MountEfi, Subs
  <2>3. rootMounts' # <<>> /\ Last(rootMounts').part = Part
    BY <1>1, <2>1, <2>2, WithSubFacts
  <2>4. pc' # "wipe" /\ UNCHANGED cfg
    BY <1>4 DEF PrepareChroot, MountEfi, Goto
  <2> QED
    BY <2>3, <2>4 DEF TargetOnTop, Part
<1>5. CASE ~(MountTarget \/ PrepareChroot \/ MountEfi)
  <2>1. pc' \in Writing =>
            /\ (pc \in Writing /\ pc' # "wipe") \/ UNCHANGED pc
            /\ UNCHANGED <<cfg, rootMounts>>
    BY <1>5, StepKinds, Zenon
    DEF Start, PowerOff, Moved, Along, Goes, Counted, Remounted, Ended, Logged, vars, mounts,
        Writing
  <2> QED
    BY <1>1, <2>1 DEF TargetOnTop, Part, TopSub, Writing
<1> QED
  BY <1>3, <1>4, <1>5

LEMMA SyncedStep ==
    ASSUME MountInv, [Next]_vars
    PROVE  OnlyWritingUnsynced'
<1>1. OnlyWritingUnsynced /\ synced \in BOOLEAN
  BY DEF MountInv, TypeOK
<1>2. pc \in Writing \cup {"sync"} => Accepted
  BY DEF MountInv, Chosen, Accepted, Working, Writing
<1>3. ~synced' => UNCHANGED <<cfg, live>> /\ (~synced \/ pc \in Writing)
  BY <1>1, StepKinds, Zenon
  DEF Start, PowerOff, Moved, Counted, Buffered, Ended, BootloaderFails, Logged, vars, disks,
      Writing
<1>4. ~synced' => Accepted'
  BY <1>1, <1>2, <1>3 DEF OnlyWritingUnsynced, Accepted, LiveDisk
<1>5. ~synced' => pc' \in Writing \cup {"idle", "log", "sync"}
  BY <1>1, StepKinds, Zenon
  DEF Start, PowerOff, Moved, Along, Goes, Buffered, Ended, Logged, vars, disks,
      OnlyWritingUnsynced, Writing, Working
<1> QED
  BY <1>4, <1>5, Zenon DEF OnlyWritingUnsynced

LEMMA MountInvHolds == Spec => []MountInv
<1>1. Init => MountInv
  BY InitInv DEF IInv
<1>2. MountInv /\ [Next]_vars => MountInv'
  BY TypeStep, ChosenStep, MediaStep, TargetStep, SyncedStep DEF MountInv
<1> QED
  BY <1>1, <1>2, PTL DEF Spec

\* installer_run_install keeps the types of its state.
THEOREM TypeCorrect == Spec => []TypeOK
BY MountInvHolds, PTL DEF MountInv

\* "rm -rf /mnt/root/*" only ever runs on a freshly mounted target, with nothing
\* of the running system mounted below it.
THEOREM LiveTreesSafeHolds == Spec => []LiveTreesSafe
<1>1. MountInv => LiveTreesSafe
  BY DEF MountInv, TargetOnTop, LiveTreesSafe, Writing
<1> QED
  BY <1>1, MountInvHolds, PTL

\* The visible media is the selected one from its detection to the end of the
\* run, whatever earlier runs left at /mnt/install.
THEOREM MediaAuthoritativeHolds == Spec => []MediaAuthoritative
BY MountInvHolds, PTL DEF MountInv

\* What a step may do to the disks: the table and the boot loader of the target
\* disk change, and partitions that fdisk, mkfs or the filling work on or that
\* lose what was not synced; the rest is the log and the live packages.
LEMMA DiskSteps ==
    ASSUME MountInv, [Next]_vars
    PROVE  /\ \/ UNCHANGED table
              \/ /\ pc \in {"fdisk", "mkfs"}
                 /\ table' = [table EXCEPT ![cfg.disk] = cfg.boot_mode]
           /\ \/ UNCHANGED boot
              \/ pc = "grub-install" /\ boot' = [boot EXCEPT ![cfg.disk] = run]
           /\ \/ Noted
              \/ /\ pc \in Writing \cup {"mkfs"} \/ ~synced
                 /\ \A p \in Parts : p # Part /\ p # <<cfg.disk, 1>> => root'[p] = root[p]
<1>1. /\ root \in [Parts -> SUBSET Pieces] /\ Part \in Parts
  BY DEF MountInv, TypeOK, Configs, Part, Parts
<1>2. CASE PowerOff
  BY <1>1, <1>2 DEF PowerOff, Noted
<1>3. CASE Mkfs \/ FormatFails
  BY <1>1, <1>3 DEF Mkfs, FormatFails, Formatted, Noted
<1>4. ASSUME NEW here \in Writing, NEW gone, NEW added, NEW next,
             Fill(here, gone, added, next)
      PROVE  /\ UNCHANGED <<table, boot>> /\ pc \in Writing
             /\ \A p \in Parts : p # Part => root'[p] = root[p]
  BY <1>1, <1>4, FillFacts, Zenon DEF Fill
<1>5. CASE Filling
  BY <1>4, <1>5
  DEF Filling, Wipe, Extract, PrepareBoot, InstallTargetGrub, write_user_files, CopyKernel,
      WriteGrubDefaults, MakeGrubConfig, Writing
<1> QED
  BY <1>2, <1>3, <1>5, StepKinds, Zenon
  DEF Start, Moved, Written, InstallBootloader, Ended, BootloaderFails, Logged, Noted, vars,
      disks

\* A disk is partitioned, formatted, filled or given a loader only as the chosen
\* target of an installation or of a format, never when it is the media or holds
\* the running system; all that other disks may gain is the log of a run and the
\* packages of the running system.
THEOREM EraseOnlyTargetHolds == Spec => EraseOnlyTarget
<1>1. ASSUME MountInv, [Next]_vars
      PROVE  OnlyTargetChanges
  <2>1. /\ cfg.disk \in Disks /\ Part \in Parts
        /\ root \in [Parts -> SUBSET Pieces]
        /\ table \in [Disks -> {"old", "BIOS", "UEFI"}] /\ boot \in [Disks -> 0..MaxRuns]
    BY <1>1 DEF MountInv, TypeOK, Configs, Part, Parts
  <2>2. \A d \in Disks, n \in {1, 2} : <<d, n>> \in Parts
    BY DEF Parts
  <2> DEFINE Spared(d) ==
                /\ table'[d] = table[d] /\ boot'[d] = boot[d]
                /\ \A n \in {1, 2} :
                    /\ root[<<d, n>>] \subseteq root'[<<d, n>>]
                    /\ root'[<<d, n>>] \subseteq root[<<d, n>>] \cup MayGain(<<d, n>>)
  <2>3. ASSUME NEW d \in Disks, d # cfg.disk
        PROVE  Spared(d)
    <3>1. table'[d] = table[d] /\ boot'[d] = boot[d]
      BY <1>1, <2>1, <2>3, DiskSteps
    <3>2. \A n \in {1, 2} : <<d, n>> # Part /\ <<d, n>> # <<cfg.disk, 1>>
      BY <2>3 DEF Part
    <3>3. Noted \/ \A n \in {1, 2} : root'[<<d, n>>] = root[<<d, n>>]
      BY <1>1, <2>2, <3>2, DiskSteps, Zenon
    <3> QED
      BY <1>1, <2>2, <3>1, <3>3, NotedFacts
  <2>4. ASSUME ~Accepted
        PROVE  Spared(cfg.disk)
    <3>1. pc \notin Writing \cup {"fdisk", "mkfs"} /\ synced
      BY <1>1, <2>4 DEF MountInv, Chosen, OnlyWritingUnsynced, Accepted, Working, Writing
    <3>2. UNCHANGED <<table, boot>> /\ Noted
      BY <1>1, <3>1, DiskSteps, Zenon DEF Writing
    <3> QED
      BY <1>1, <2>1, <2>2, <3>2, NotedFacts
  <2> HIDE DEF Spared
  <2>5. \A d \in Disks : Spared(d) \/ (d = cfg.disk /\ Accepted)
    BY <2>3, <2>4, Zenon
  <2> QED
    BY <2>5 DEF Spared, OnlyTargetChanges, Accepted
<1> QED
  BY <1>1, MountInvHolds, PTL DEF Spec, EraseOnlyTarget

-----------------------------------------------------------------------------
(* What a boot loader boots.                                               *)

\* The pieces of the target, through the phases that write them.
LEMMA PiecesStep ==
    ASSUME MountInv, PiecesKept, [Next]_vars
    PROVE  PiecesKept'
<1>1. /\ root \in [Parts -> SUBSET Pieces] /\ Part \in Parts
      /\ cfg.action \in {"INSTALL", "FORMAT_ONLY", "UPDATE"}
  BY DEF MountInv, TypeOK, Configs, Part, Parts
<1>2. ASSUME NEW here \in Writing, NEW gone, NEW added, NEW next,
             Fill(here, gone, added, next)
      PROVE  /\ pc = here /\ pc' = next
             /\ root'[Part'] = (root[Part] \ gone) \cup added
  <2>1. /\ root' = [root EXCEPT ![Part] = (@ \ gone) \cup added]
        /\ Part' = Part
    BY <1>2, FillFacts
  <2>2. pc = here /\ pc' = next
    BY <1>2 DEF Fill, Goto
  <2> QED
    BY <1>1, <2>1, <2>2
<1> USE DEF PiecesKept, AfterRootfs, AfterInitrd, AfterPackages, AfterAccounts,
            AfterKernel, AfterGrubCfg
<1>3. CASE Wipe
  <2>1. pc' = "extract"
    BY <1>2, <1>3 DEF Wipe, Writing
  <2> QED
    BY <2>1
<1>4. CASE Extract
  <2>1. pc' = "prepare" /\ root'[Part'] = (root[Part] \ {}) \cup {"rootfs"}
    BY <1>2, <1>4 DEF Extract, Writing
  <2> QED
    BY <2>1
<1>5. CASE PrepareBoot
  <2>1. /\ pc = "prepare" /\ pc' = "target_grub"
        /\ root'[Part'] = (root[Part] \ {}) \cup {"initrd"}
    BY <1>2, <1>5 DEF PrepareBoot, Writing
  <2> QED
    BY <2>1
<1>6. CASE InstallTargetGrub
  <2>1. /\ pc = "target_grub" /\ pc' = "accounts"
        /\ root'[Part'] = (root[Part] \ {"accounts"}) \cup {"packages"}
    BY <1>2, <1>6 DEF InstallTargetGrub, Writing
  <2> QED
    BY <2>1
<1>7. CASE write_user_files
  <2>1. /\ pc = "accounts" /\ pc' = "kernel"
        /\ root'[Part'] = (root[Part] \ {}) \cup {"accounts"}
    BY <1>2, <1>7 DEF write_user_files, Writing
  <2> QED
    BY <2>1
<1>8. CASE CopyKernel
  <2>1. /\ pc = "kernel" /\ pc' = "config"
        /\ root'[Part'] = (root[Part] \ {}) \cup {"kernel"}
    BY <1>2, <1>8 DEF CopyKernel, Writing
  <2> QED
    BY <2>1
<1>9. CASE WriteGrubDefaults
  <2>1. /\ pc = "config" /\ pc' = "chroot"
        /\ root'[Part'] = (root[Part] \ {}) \cup {}
    BY <1>2, <1>9, Zenon DEF WriteGrubDefaults, Writing
  <2> QED
    BY <2>1
<1>10. CASE MakeGrubConfig
  <2>1. /\ pc = "mkconfig" /\ pc' \in {"mount_efi", "grub-install"}
        /\ root'[Part'] = (root[Part] \ {}) \cup {"grub.cfg"}
    BY <1>2, <1>10, SMTT(30) DEF MakeGrubConfig, Writing
  <2> QED
    BY <2>1
<1>11. CASE PrepareChroot \/ MountEfi \/ UNCHANGED vars
  BY <1>11 DEF PrepareChroot, MountEfi, Goto, Part, vars, disks
<1>12. CASE pc' \notin AfterRootfs
  BY <1>12
<1>13. CASE pc' \in AfterRootfs
  <2>1. Filling \/ PrepareChroot \/ MountEfi \/ UNCHANGED vars
    BY <1>13, StepKinds, Zenon
    DEF Start, PowerOff, Moved, Along, Goes, Remounted, MountTarget, Goto, Written, Fills, Ended,
        Logged
  <2> HIDE DEF PiecesKept, AfterRootfs, AfterInitrd, AfterPackages, AfterAccounts,
               AfterKernel, AfterGrubCfg
  <2> QED
    BY <1>3, <1>4, <1>5, <1>6, <1>7, <1>8, <1>9, <1>10, <1>11, <2>1, Zenon DEF Filling
<1> HIDE DEF PiecesKept
<1> QED
  BY <1>12, <1>13

LEMMA TableStep ==
    ASSUME MountInv, TableKept, [Next]_vars
    PROVE  TableKept'
<1>1. /\ table \in [Disks -> {"old", "BIOS", "UEFI"}] /\ cfg.disk \in Disks
      /\ cfg.action \in {"INSTALL", "FORMAT_ONLY", "UPDATE"}
  BY DEF MountInv, TypeOK, Configs
<1> QED
  BY <1>1, StepKinds, Zenon
  DEF Start, PowerOff, Moved, Along, Goes, Counted, Written, Ended, Logged, vars, disks,
      TableKept, Writing

\* Before the boot loader is installed, everything else is there.
LEMMA AllWritten ==
    ASSUME MountInv, PiecesKept, TableKept, pc = "grub-install"
    PROVE  /\ Complete \subseteq root[Part] /\ table[cfg.disk] = cfg.boot_mode
           /\ cfg.action = "INSTALL"
BY DEF MountInv, Chosen, PiecesKept, TableKept, Writing, Complete, AfterRootfs, AfterInitrd,
       AfterPackages, AfterAccounts, AfterKernel, AfterGrubCfg

\* A complete system stays complete when a log or a package is added.
LEMMA StaysComplete ==
    ASSUME MountInv, Noted, UNCHANGED cfg, Complete \subseteq root[Part]
    PROVE  Complete \subseteq root'[Part']
<1>1. Part' = Part /\ Part \in Parts
  BY DEF MountInv, TypeOK, Configs, Part, Parts
<1> QED
  BY <1>1, NotedFacts

\* The boot loader is the last thing that a run installs.
LEMMA LoaderStep ==
    ASSUME IInv, [Next]_vars
    PROVE  LoaderLast'
<1>1. /\ boot \in [Disks -> 0..MaxRuns] /\ run \in Nat
      /\ cfg.disk \in Disks /\ cfg'.disk \in Disks
      /\ cfg.action \in {"INSTALL", "FORMAT_ONLY", "UPDATE"}
      /\ \A d \in Disks : boot[d] \in Nat
  <2>1. TypeOK /\ TypeOK'
    BY TypeStep DEF IInv, MountInv
  <2> QED
    BY <2>1, RunAssumption, SMTT(30) DEF TypeOK, Configs
<1>2. /\ MountInv /\ Chosen /\ LoaderLast /\ PiecesKept /\ TableKept
  BY DEF IInv, MountInv
<1>3. CASE Start
  BY <1>1, <1>2, <1>3, SMTT(30) DEF Start, LoaderLast, RunOver, Installed
<1>4. CASE InstallBootloader
  <2>1. Complete \subseteq root[Part] /\ table[cfg.disk] = cfg.boot_mode
    BY <1>2, <1>4, AllWritten DEF InstallBootloader
  <2>2. Part' = Part
    BY <1>4 DEF InstallBootloader, Part
  <2> QED
    BY <1>1, <1>2, <1>4, <2>1, <2>2
    DEF InstallBootloader, Goto, LoaderLast, RunOver, Installed, Chosen, Writing
<1>5. CASE Moved /\ ~InstallBootloader
  <2>1. UNCHANGED <<boot, run, cfg, result>> /\ pc # "grub-install" /\ ~RunOver /\ ~RunOver'
    BY <1>5, Zenon DEF Moved, Counted, Written
  <2>2. Installed' => pc \in {"sync", "epilogue"}
    BY <1>2, <1>5, <2>1, Zenon DEF Moved, Along, Goes, Installed, Chosen
  <2>3. Installed => pc' = "epilogue"
    BY <1>5, Zenon DEF Moved, Along, Goes, Installed
  <2>4. pc \in {"sync", "epilogue"} => Noted /\ UNCHANGED table
    BY <1>5 DEF Moved, Written, Fills
  <2>5. Installed' <=> Installed
    BY <2>1, <2>2, <2>3, Zenon DEF Installed
  <2>6. Installed => Noted /\ UNCHANGED table
    BY <2>4, Zenon DEF Installed
  <2>7. Installed' => Complete \subseteq root'[Part'] /\ table'[cfg'.disk] = cfg'.boot_mode
    BY <1>2, <2>1, <2>5, <2>6, StaysComplete, Zenon DEF LoaderLast
  <2>8. pc' # "log"
    BY <2>1 DEF RunOver
  <2> QED
    BY <1>2, <2>1, <2>5, <2>7, <2>8 DEF LoaderLast
<1>6. CASE PowerOff \/ Ended \/ Logged
  <2>1. /\ RunOver' /\ ~Installed' /\ UNCHANGED <<run, cfg>>
        /\ pc' = "log" => result' \in {"ok", "error"}
    BY <1>6, Zenon DEF PowerOff, Ended, Logged, RunOver, Installed
  <2>2. boot' \in {boot, [boot EXCEPT ![cfg.disk] = run]}
    BY <1>6, Zenon DEF PowerOff, Ended, BootloaderFails, Logged
  <2> QED
    BY <1>1, <1>2, <2>1, <2>2 DEF LoaderLast
<1>7. CASE UNCHANGED vars
  BY <1>2, <1>7 DEF vars, disks, LoaderLast, RunOver, Installed, Part
<1> QED
  BY <1>2, <1>3, <1>4, <1>5, <1>6, <1>7, StepKinds

\* A run returns with a boot loader only if the system is complete; what comes
\* before the next run takes nothing away but what was not synced.
LEMMA CompleteStep ==
    ASSUME IInv, [Next]_vars
    PROVE  BootableIsComplete'
<1>1. /\ LoaderLast /\ BootableIsComplete /\ MountInv /\ PiecesKept /\ TableKept
      /\ cfg.disk \in Disks /\ Part \in Parts
      /\ root \in [Parts -> SUBSET Pieces]
  BY DEF IInv, MountInv, TypeOK, Configs, Part, Parts
<1> DEFINE Whole == Complete \subseteq root[Part] /\ table[cfg.disk] = cfg.boot_mode
<1>2. LoaderLast'
  BY LoaderStep
<1>3. CASE ~RunOver'
  BY <1>2, <1>3 DEF LoaderLast, BootableIsComplete, RunOver, Installed
<1>4. CASE Ended
  <2>1. /\ UNCHANGED <<run, cfg>> /\ result' \in {"ok", "error"} /\ ~RunOver
        /\ result' = "ok" => pc = "epilogue"
    BY <1>4, Zenon DEF Ended
  <2>2. CASE BootloaderFails
    <3>1. pc = "grub-install" /\ UNCHANGED <<table, root>> /\ result' = "error"
      BY <2>2 DEF BootloaderFails, Return
    <3> QED
      BY <1>1, <2>1, <3>1, AllWritten DEF BootableIsComplete, Part
  <2>3. CASE ~BootloaderFails /\ Installed
    <3>1. pc \in {"sync", "epilogue"} /\ UNCHANGED boot
      BY <1>4, <2>3, Zenon DEF Ended, Installed
    <3>2. ~FormatFails
      BY <3>1, Zenon DEF FormatFails
    <3>3. Noted /\ UNCHANGED table
      BY <1>4, <3>2, ZenonT(60) DEF Ended
    <3>4. Complete \subseteq root'[Part']
      BY <1>1, <2>1, <2>3, <3>3, StaysComplete DEF LoaderLast
    <3> QED
      BY <1>1, <2>1, <2>3, <3>1, <3>3, <3>4, Zenon DEF LoaderLast, BootableIsComplete
  <2>4. CASE ~BootloaderFails /\ ~Installed
    <3>1. UNCHANGED boot /\ (result' = "ok" => cfg.action # "INSTALL")
      BY <1>4, <2>1, <2>4, Zenon DEF Ended, Installed
    <3> QED
      BY <1>1, <2>1, <2>4, <3>1, Zenon DEF LoaderLast, BootableIsComplete
  <2> QED
    BY <2>2, <2>3, <2>4
<1>5. CASE Logged
  <2>1. UNCHANGED <<run, cfg, result, table, boot>> /\ Noted
    BY <1>5, Zenon DEF Logged
  <2>2. Complete \subseteq root[Part] => Complete \subseteq root'[Part']
    BY <1>1, <2>1, StaysComplete
  <2> QED
    BY <1>1, <2>1, <2>2, Zenon DEF BootableIsComplete
<1>6. CASE PowerOff
  <2>1. UNCHANGED <<run, cfg, table, boot>>
    BY <1>6 DEF PowerOff
  <2>2. CASE ~synced
    BY <1>6, <2>2 DEF PowerOff, BootableIsComplete
  <2>3. CASE synced
    <3>1. UNCHANGED root
      BY <1>1, <1>6, <2>3 DEF PowerOff
    <3>2. \/ pc = "idle" /\ UNCHANGED result
          \/ pc # "idle" /\ result' = "killed"
      BY <1>6, <2>3 DEF PowerOff
    <3>3. pc # "idle" /\ boot[cfg.disk] = run /\ run > 0 => Whole
      BY <1>1, Zenon DEF LoaderLast, RunOver, BootableIsComplete
    <3>4. Part' = Part
      BY <2>1, SMTT(30) DEF Part
    <3> QED
      BY <1>1, <2>1, <3>1, <3>2, <3>3, <3>4, Zenon DEF BootableIsComplete
  <2> QED
    BY <2>2, <2>3
<1>7. CASE UNCHANGED vars
  BY <1>1, <1>7 DEF vars, disks, BootableIsComplete, Part
<1>8. CASE Start \/ Moved
  BY <1>3, <1>8 DEF Start, Moved, RunOver
<1> QED
  BY <1>1, <1>4, <1>5, <1>6, <1>7, <1>8, StepKinds

\* A boot loader that a run has installed boots a complete system on the
\* partition the run formatted, with the accounts that were asked for, and a run
\* that reports the success of an installation has installed one. Power lost
\* before sync, with what the run wrote still in memory, is the one exception.
THEOREM BootableIsCompleteHolds == Spec => []BootableIsComplete
<1>1. IInv /\ [Next]_vars => IInv'
  <2> SUFFICES ASSUME IInv, [Next]_vars PROVE IInv'
    OBVIOUS
  <2>1. MountInv /\ PiecesKept /\ TableKept
    BY DEF IInv
  <2>2. MountInv'
    BY <2>1, TypeStep, ChosenStep, MediaStep, TargetStep, SyncedStep DEF MountInv
  <2> QED
    BY <2>1, <2>2, PiecesStep, TableStep, LoaderStep, CompleteStep DEF IInv
<1>2. IInv => BootableIsComplete
  BY DEF IInv
<1> QED
  BY <1>1, <1>2, InitInv, PTL DEF Spec

USE DEF STEP_WELCOME, STEP_ACTION, STEP_MEDIA, STEP_DISK, STEP_BOOT, STEP_ACPI,
        STEP_PARTSIZE, STEP_HOSTNAME, STEP_USER, STEP_USERPASS, STEP_ROOTPASS,
        STEP_CONFIRM, STEP_SUMMARY

-----------------------------------------------------------------------------
(* The screens.                                                            *)

\* The media is chosen before the disk screen comes.
MediaChosen == step >= STEP_DISK => install_media # None

\* A text screen is passed only with an accepted text, and Esc leaves nothing
\* behind on the screens before.
TextsAccepted ==
    action = "INSTALL" =>
        /\ step > STEP_HOSTNAME => hostname # "empty"
        /\ step > STEP_USER => username = "accepted"
        /\ step > STEP_USERPASS => password # "empty"
        /\ step > STEP_ROOTPASS => root_password # "empty"

\* Nothing is asked once the summary is accepted.
StartedAtEnd == outcome = "started" => step = STEP_SUMMARY

WizardInv ==
    /\ WizardTypeOK
    /\ MediaChosen
    /\ TargetIsNotMedia
    /\ StartConfirmed
    /\ TextsAccepted
    /\ StartedAtEnd

-----------------------------------------------------------------------------
(* The menus.                                                              *)

\* The entry that Enter takes is one of the listed devices, wherever the cursor
\* of an earlier, longer list was: no entry is read that the scan has not filled.
LEMMA MenuFacts ==
    ASSUME NEW s, NEW count \in 1..MaxScan, NEW listing \in Listings(s, count),
           NEW selected \in Nat, NEW i \in menu_box(count, Cursor(selected, count))
    PROVE  /\ i \in Nat
           /\ Entry(listing, count, i) \in s
<1>1. count \in Nat \ {0}
  BY WizardAssumption
<1>2. i \in 0..(count - 1)
  BY <1>1 DEF menu_box, Cursor
<1>3. listing \in [1..count -> s]
  BY DEF Listings, Bijection, Injection, Surjection, IsInjective
<1> QED
  BY <1>1, <1>2, <1>3 DEF Entry

\* A clamped cursor is a number.
LEMMA CursorFacts ==
    ASSUME NEW selected \in Nat, NEW lists, NEW c \in Cursors(selected, lists)
    PROVE  c \in Nat
BY DEF Cursors, Cursor

\* The media screen: the choice is a device, and a disk equal to it is forgotten.
LEMMA SelectMediaFacts ==
    ASSUME WizardTypeOK, SelectMedia
    PROVE  /\ install_media' \in Devices
           /\ disk' \in Disks \cup {None} /\ disk_selected' \in Nat
           /\ media_selected' \in Nat
<1> DEFINE Picked(listing, count, i) == /\ media_selected' = i
                                         /\ install_media' = Entry(listing, count, i)
           Menu(count) == menu_box(count, Cursor(media_selected, count))
<1>1. PICK s \in Found(Devices), count \in 1..MaxScan :
           \E listing \in Listings(s, count), i \in Menu(count) : Picked(listing, count, i)
  BY DEF SelectMedia
<1>2. PICK listing \in Listings(s, count), i \in Menu(count) : Picked(listing, count, i)
  BY <1>1
<1>3. s \in SUBSET Devices /\ media_selected \in Nat
  BY DEF Found, WizardTypeOK
<1>4. install_media' \in s /\ media_selected' \in Nat
  BY <1>2, <1>3, MenuFacts
<1> QED
  BY <1>3, <1>4 DEF SelectMedia, WizardTypeOK

\* The disk screen: the choice is a disk and not the media.
LEMMA SelectDiskFacts ==
    ASSUME WizardTypeOK, SelectDisk
    PROVE  /\ disk' \in Disks /\ disk' # install_media
           /\ disk_selected' \in Nat
<1> DEFINE Picked(listing, count, i) == /\ disk_selected' = i
                                         /\ disk' = Entry(listing, count, i)
           Menu(count) == menu_box(count, Cursor(disk_selected, count))
<1>1. PICK s \in Offered, count \in 1..MaxScan :
           \E listing \in Listings(s, count), i \in Menu(count) : Picked(listing, count, i)
  BY DEF SelectDisk
<1>2. PICK listing \in Listings(s, count), i \in Menu(count) : Picked(listing, count, i)
  BY <1>1
<1>3. s \in SUBSET Disks /\ install_media \notin s /\ disk_selected \in Nat
  BY DEF Offered, Found, Targets, WizardTypeOK
<1>4. disk' \in s /\ disk_selected' \in Nat
  BY <1>2, <1>3, MenuFacts
<1> QED
  BY <1>3, <1>4

-----------------------------------------------------------------------------
(* Moving between the screens.                                             *)

\* Where the two shortcuts and the ordinary moves lead.
LEMMA MoveFacts ==
    ASSUME WizardTypeOK
    PROVE  /\ next_step_for_config(step) \in STEP_WELCOME..STEP_SUMMARY
           /\ previous_step_for_config(step) \in STEP_WELCOME..STEP_SUMMARY
           /\ step # STEP_WELCOME => previous_step_for_config(step) < step
           /\ step > STEP_BOOT => previous_step_for_config(step) >= STEP_BOOT
           /\ step <= STEP_DISK => next_step_for_config(step) = step + 1
           /\ step < STEP_CONFIRM => next_step_for_config(step) <= STEP_CONFIRM
           /\ step < STEP_SUMMARY /\ action = "INSTALL" =>
                   next_step_for_config(step) = step + 1
BY SMTT(30) DEF WizardTypeOK, next_step_for_config, previous_step_for_config, next_step,
       previous_step

\* What an answer, Esc or an empty list does to the screen, the devices and the
\* confirmation.
LEMMA WizardMoves ==
    ASSUME [WizardNext]_wizard_vars
    PROVE  \/ SelectMedia \/ SelectDisk \/ EnterConfirm
           \/ UNCHANGED <<step, action, install_media, disk, confirmed>>
           \/ /\ step' = next_step_for_config(step)
              /\ step < STEP_CONFIRM /\ step \notin {STEP_MEDIA, STEP_DISK}
              /\ UNCHANGED <<install_media, disk, confirmed>>
           \/ /\ step' = previous_step_for_config(step)
              /\ step # STEP_WELCOME
              /\ UNCHANGED <<action, install_media, disk, confirmed>>
<1> USE DEF Enter, On, Forward, Back, devs
<1>1. CASE EnterWelcome \/ SelectAction \/ AnswerMode
  BY <1>1 DEF EnterWelcome, SelectAction, AnswerMode
<1>2. CASE EnterHostname \/ EnterUser
  BY <1>2 DEF EnterHostname, EnterUser
<1>3. CASE EnterUserPassword \/ EnterRootPassword
  BY <1>3 DEF EnterUserPassword, EnterRootPassword
<1>4. CASE NothingFound
  BY <1>4 DEF NothingFound
<1>5. CASE Esc
  BY <1>5, SMTT(30) DEF Esc
<1>6. CASE \/ EnterSummary \/ EscWelcome \/ Hotplug \/ Decide \/ Returned
           \/ UNCHANGED wizard_vars
  BY <1>6 DEF EnterSummary, EscWelcome, Hotplug, Decide, Returned, wizard_vars
<1> QED
  BY <1>1, <1>2, <1>3, <1>4, <1>5, <1>6 DEF WizardNext

LEMMA WizardInitInv == WizardInit => WizardInv
<1> SUFFICES ASSUME WizardInit PROVE WizardInv
  OBVIOUS
<1>1. leaving \in BOOLEAN /\ confirmed \in ({"ERASE", "UPDATE"} \X Disks) \cup {<<>>}
  BY Zenon DEF WizardInit
<1>2. WizardTypeOK
  BY <1>1 DEF WizardInit, WizardTypeOK, Actions, Passwords, UserNames
<1>3. MediaChosen /\ TargetIsNotMedia /\ StartConfirmed /\ TextsAccepted /\ StartedAtEnd
  BY DEF WizardInit, MediaChosen, TargetIsNotMedia, StartConfirmed, TextsAccepted, StartedAtEnd
<1> QED
  BY <1>2, <1>3 DEF WizardInv

LEMMA WizardTypeStep ==
    ASSUME WizardInv, [WizardNext]_wizard_vars
    PROVE  WizardTypeOK'
<1>1. WizardTypeOK
  BY SMTT(30) DEF WizardInv
<1>2. step' \in STEP_WELCOME..STEP_SUMMARY
  BY <1>1, MoveFacts, WizardMoves
  DEF WizardTypeOK, SelectMedia, SelectDisk, EnterConfirm, Forward
<1>3. /\ install_media' \in Devices \cup {None} /\ media_selected' \in Nat
      /\ disk' \in Disks \cup {None} /\ disk_selected' \in Nat
  <2>1. CASE SelectMedia
    BY <2>1, <1>1, SelectMediaFacts, SMTT(30)
  <2>2. CASE SelectDisk
    BY <2>2, <1>1, SelectDiskFacts DEF SelectDisk, WizardTypeOK
  <2>3. CASE Esc
    BY <2>3, <1>1, CursorFacts DEF Esc, Typed, WizardTypeOK
  <2>4. CASE UNCHANGED devs
    BY <2>4, <1>1 DEF devs, WizardTypeOK
  <2> QED
    BY <2>1, <2>2, <2>3, <2>4, Zenon
    DEF WizardNext, EnterWelcome, SelectAction, NothingFound, AnswerMode, EnterHostname,
        EnterUser, EnterUserPassword, EnterRootPassword, EnterConfirm, EnterSummary,
        EscWelcome, Hotplug, Decide, Returned, wizard_vars
<1>4. /\ hostname' \in {"empty", "named"} /\ username' \in UserNames
      /\ password' \in Passwords /\ root_password' \in Passwords
  <2>1. CASE UNCHANGED texts
    BY <1>1, <2>1 DEF WizardTypeOK, texts
  <2>2. CASE EnterHostname \/ EnterUser
    BY <1>1, <2>2 DEF EnterHostname, EnterUser, WizardTypeOK
  <2>3. CASE EnterUserPassword \/ EnterRootPassword
    BY <1>1, <2>3 DEF EnterUserPassword, EnterRootPassword, password_pair_box, WizardTypeOK
  <2>4. CASE Esc
    BY <1>1, <2>4 DEF Esc, Typed, WizardTypeOK
  <2> QED
    BY <2>1, <2>2, <2>3, <2>4, Zenon
    DEF WizardNext, EnterWelcome, SelectAction, SelectMedia, SelectDisk, NothingFound,
        AnswerMode, EnterConfirm, EnterSummary, EscWelcome, Hotplug, Decide, Returned,
        wizard_vars
<1>5. /\ outcome' \in {"collecting", "left", "started"} /\ action' \in Actions
      /\ plugged' \subseteq Devices /\ leaving' \in BOOLEAN
  BY <1>1, Zenon
  DEF WizardTypeOK, WizardNext, EnterWelcome, SelectAction, SelectMedia, SelectDisk, NothingFound,
      AnswerMode, EnterHostname, EnterUser, EnterUserPassword, EnterRootPassword,
      EnterConfirm, EnterSummary, Esc, EscWelcome, Hotplug, Decide, Returned, wizard_vars
<1>6. confirmed' \in ({"ERASE", "UPDATE"} \X Disks) \cup {<<>>}
  <2>1. CASE EnterConfirm
    <3>1. disk \in Disks
      BY <2>1, SMTT(30) DEF EnterConfirm, Enter, On, WizardInv, WizardTypeOK, TargetIsNotMedia
    <3> QED
      BY <2>1, <3>1 DEF EnterConfirm, Phrase
  <2>2. CASE ~EnterConfirm
    BY <1>1, <2>2, WizardMoves DEF WizardTypeOK, SelectMedia, SelectDisk
  <2> QED
    BY <2>1, <2>2
<1> QED
  BY <1>2, <1>3, <1>4, <1>5, <1>6 DEF WizardTypeOK

LEMMA WizardMediaStep ==
    ASSUME WizardInv, [WizardNext]_wizard_vars
    PROVE  (MediaChosen /\ TargetIsNotMedia)'
<1>1. WizardTypeOK /\ WizardTypeOK' /\ MediaChosen /\ TargetIsNotMedia
  BY WizardTypeStep DEF WizardInv
<1>2. CASE SelectMedia
  <2>1. install_media' # None /\ step' = STEP_DISK
    BY <1>1, <1>2, SelectMediaFacts, MoveFacts, WizardAssumption
    DEF SelectMedia, Enter, On, Forward
  <2> QED
    BY <2>1, SMTT(30) DEF MediaChosen, TargetIsNotMedia
<1>3. CASE SelectDisk
  <2>1. disk' # None /\ disk' # install_media /\ step = STEP_DISK
    BY <1>1, <1>3, SelectDiskFacts, WizardAssumption DEF SelectDisk, Enter, On, Devices
  <2> QED
    BY <1>1, <1>3, <2>1, SMTT(30) DEF SelectDisk, MediaChosen, TargetIsNotMedia
<1>4. CASE ~SelectMedia /\ ~SelectDisk
  <2>1. /\ UNCHANGED <<install_media, disk>>
        /\ \/ UNCHANGED step
           \/ step' = next_step_for_config(step) /\ step \notin {STEP_MEDIA, STEP_DISK}
           \/ step' = previous_step_for_config(step) /\ step # STEP_WELCOME
    BY <1>4, WizardMoves, SMTT(30) DEF EnterConfirm, Enter, On, Forward, devs
  <2>2. /\ step' >= STEP_DISK => step >= STEP_DISK
        /\ step' >= STEP_BOOT => step >= STEP_BOOT
    BY <1>1, <2>1, MoveFacts DEF WizardTypeOK
  <2> QED
    BY <1>1, <2>1, <2>2 DEF MediaChosen, TargetIsNotMedia
<1> QED
  BY <1>2, <1>3, <1>4

\* The phrase names what the summary shows.
LEMMA ConfirmStep ==
    ASSUME WizardInv, [WizardNext]_wizard_vars
    PROVE  StartConfirmed'
<1>1. WizardTypeOK /\ StartConfirmed
  BY DEF WizardInv
<1>2. CASE EnterConfirm
  BY <1>2 DEF EnterConfirm, StartConfirmed, Phrase, devs
<1>3. CASE ~EnterConfirm
  <2>1. \/ UNCHANGED <<step, confirmed, action, disk>>
        \/ step' = next_step_for_config(step) /\ step < STEP_CONFIRM
        \/ step' = previous_step_for_config(step) /\ step # STEP_WELCOME
    BY <1>3, WizardMoves, SMTT(30) DEF SelectMedia, SelectDisk, Enter, On, Forward
  <2>2. step' # STEP_SUMMARY \/ UNCHANGED <<step, confirmed, action, disk>>
    BY <1>1, <2>1, MoveFacts, SMTT(30) DEF WizardTypeOK
  <2> QED
    BY <1>1, <2>2, SMTT(30) DEF StartConfirmed, Phrase
<1> QED
  BY <1>2, <1>3

LEMMA TextsStep ==
    ASSUME WizardInv, [WizardNext]_wizard_vars
    PROVE  TextsAccepted'
<1>1. WizardTypeOK /\ WizardTypeOK' /\ TextsAccepted
  BY WizardTypeStep DEF WizardInv
<1>2. CASE SelectAction
  <2>1. step' = 2
    BY <1>1, <1>2, MoveFacts DEF SelectAction, Enter, On, Forward
  <2> QED
    BY <2>1 DEF TextsAccepted
<1>3. CASE EnterHostname
  BY <1>1, <1>3, MoveFacts DEF EnterHostname, Enter, On, Forward, TextsAccepted
<1>4. CASE EnterUser
  BY <1>1, <1>4, MoveFacts, SMTT(30)
  DEF EnterUser, installer_valid_username, Enter, On, Forward, TextsAccepted
<1>5. CASE EnterUserPassword \/ EnterRootPassword
  BY <1>1, <1>5, MoveFacts
  DEF EnterUserPassword, EnterRootPassword, password_pair_box, Enter, On, Forward,
      TextsAccepted
<1>6. CASE Esc
  <2>1. step' < step /\ UNCHANGED action
    BY <1>1, <1>6, MoveFacts DEF Esc, Back
  <2>2. /\ step # STEP_HOSTNAME => UNCHANGED hostname
        /\ step # STEP_USER => UNCHANGED username
        /\ step # STEP_USERPASS => UNCHANGED password
        /\ step # STEP_ROOTPASS => UNCHANGED root_password
    BY <1>6 DEF Esc, Typed
  <2>3. step \in Int /\ step' \in Int
    BY <1>1 DEF WizardTypeOK
  <2> QED
    BY <1>1, <2>1, <2>2, <2>3, SMTT(30) DEF TextsAccepted
<1>7. CASE EnterWelcome \/ SelectMedia \/ SelectDisk \/ AnswerMode \/ EnterConfirm
  <2>1. /\ step' = next_step_for_config(step) /\ UNCHANGED <<texts, action>>
        /\ step \in {STEP_WELCOME, STEP_MEDIA, STEP_DISK, STEP_BOOT, STEP_ACPI,
                     STEP_PARTSIZE, STEP_CONFIRM}
    BY <1>7
    DEF EnterWelcome, SelectMedia, SelectDisk, AnswerMode, EnterConfirm, Enter, On,
        Forward
  <2> QED
    BY <1>1, <2>1, MoveFacts, SMTT(30) DEF TextsAccepted, texts
<1>8. CASE NothingFound
  <2>1. step' < step /\ UNCHANGED <<texts, action>>
    BY <1>1, <1>8, MoveFacts DEF NothingFound, Back, On
  <2>2. step \in Int /\ step' \in Int
    BY <1>1 DEF WizardTypeOK
  <2> QED
    BY <1>1, <2>1, <2>2 DEF TextsAccepted, texts
<1>9. CASE UNCHANGED <<step, texts, action>>
  BY <1>1, <1>9 DEF TextsAccepted, texts
<1> QED
  BY <1>2, <1>3, <1>4, <1>5, <1>6, <1>7, <1>8, <1>9
  DEF WizardNext, EnterSummary, EscWelcome, Hotplug, Decide, Returned, wizard_vars

LEMMA EndStep ==
    ASSUME WizardInv, [WizardNext]_wizard_vars
    PROVE  StartedAtEnd'
<1>1. StartedAtEnd
  BY DEF WizardInv
<1> QED
  BY <1>1, Zenon
  DEF StartedAtEnd, WizardNext, EnterWelcome, SelectAction, SelectMedia, SelectDisk,
      NothingFound, AnswerMode, EnterHostname, EnterUser, EnterUserPassword,
      EnterRootPassword, EnterConfirm, EnterSummary, Esc, EscWelcome, Hotplug, Decide,
      Returned, Enter, On, wizard_vars

LEMMA WizardInvHolds == WizardSpec => []WizardInv
<1>1. WizardInv /\ [WizardNext]_wizard_vars => WizardInv'
  BY WizardTypeStep, WizardMediaStep, ConfirmStep, TextsStep, EndStep DEF WizardInv
<1> QED
  BY <1>1, WizardInitInv, PTL DEF WizardSpec

-----------------------------------------------------------------------------
\* The screens keep the types of the answers; above all, neither device is ever
\* an entry of the arrays that the last scan has not filled, whatever was
\* plugged in or removed since the cursor was remembered.
THEOREM WizardTypeCorrect == WizardSpec => []WizardTypeOK
BY WizardInvHolds, PTL DEF WizardInv

\* From the boot screen on the disk to erase is chosen and is not the media.
THEOREM TargetIsNotMediaHolds == WizardSpec => []TargetIsNotMedia
BY WizardInvHolds, PTL DEF WizardInv

\* Nothing starts unless the last accepted phrase names the action and the disk.
THEOREM StartConfirmedHolds == WizardSpec => []StartConfirmed
BY WizardInvHolds, PTL DEF WizardInv

\* An installation starts with a valid user, passwords and a host name.
THEOREM AccountsReadyHolds == WizardSpec => []AccountsReady
<1>1. WizardInv => AccountsReady
  <2> SUFFICES ASSUME WizardInv PROVE AccountsReady
    OBVIOUS
  <2>1. step \in Int
    BY DEF WizardInv, WizardTypeOK
  <2> QED
    BY <2>1 DEF WizardInv, TextsAccepted, AccountsReady
<1> QED
  BY <1>1, WizardInvHolds, PTL

-----------------------------------------------------------------------------
(* From the screens to the run.                                            *)

\* The answers, with either boot mode, as installer_run_install gets them.
Answers(mode) ==
    [action |-> action, boot_mode |-> mode, disk |-> disk, install_media |-> install_media]

\* The screens start a run only with what InstallerRun takes for granted: a disk,
\* a media, and not the one for the other, although both can be unplugged, chosen
\* anew and exchanged while the user walks back and forth.
THEOREM HandedOver ==
    WizardSpec => [](outcome = "started" => \A mode \in {"BIOS", "UEFI"} : Answers(mode) \in Handed)
<1>1. WizardInv => (outcome = "started" =>
                      \A mode \in {"BIOS", "UEFI"} : Answers(mode) \in Handed)
  <2> SUFFICES ASSUME WizardInv, outcome = "started", NEW mode \in {"BIOS", "UEFI"}
               PROVE  Answers(mode) \in Handed
    OBVIOUS
  <2>1. disk \in Disks /\ install_media \in Devices /\ disk # install_media /\ action \in Actions
    BY DEF WizardInv, StartedAtEnd, TargetIsNotMedia, WizardTypeOK
  <2> QED
    BY <2>1 DEF Answers, Handed, Configs, Actions
<1> QED
  BY <1>1, WizardInvHolds, PTL
=============================================================================
