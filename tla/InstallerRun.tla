---------------------------- MODULE InstallerRun ----------------------------
(***************************************************************************)
(* installer_run_install (tools/installer/install.c): the commands that    *)
(* partition, format, fill and boot-enable the target disk, or update it.  *)
(*                                                                         *)
(* Every command may fail. Most error paths return at once and leave file  *)
(* systems mounted, every umount may fail unnoticed, and the installer may *)
(* be started again on the same machine with other answers: what is then   *)
(* written below /mnt/root lands on whatever is mounted there. The machine *)
(* may lose power at any point. A file tree is abstracted to the set of    *)
(* its complete pieces.                                                    *)
(***************************************************************************)
EXTENDS InstallerDevices, Integers, Sequences

CONSTANTS
    WaitAttempts,   \* polls of wait_for_partitions (10)
    MaxRuns         \* bound: how often the installer is started

ASSUME RunAssumption ==
    /\ None \notin Devices
    /\ Disks \cap Optical = {}
    /\ WaitAttempts \in Nat \ {0}
    /\ MaxRuns \in Nat

\* What makes an installed system; "old" stands for what was there before,
\* "updated" for the result of an update, "tools" for packages added to the
\* running system and "log" for a copy of the installer's log.
Complete == {"rootfs", "initrd", "packages", "accounts", "kernel", "grub.cfg"}
Pieces   == Complete \cup {"old", "updated", "tools", "log"}

Parts == Disks \X {1, 2}

\* Mount points below /mnt/root.
Subs == {"boot/efi", "sys", "proc", "dev"}

Configs == [action : {"INSTALL", "FORMAT_ONLY", "UPDATE"},
            boot_mode : {"BIOS", "UEFI"},
            disk : Disks, install_media : Devices]

Writing == {"wipe", "extract", "prepare", "target_grub", "accounts", "kernel",
            "config", "chroot", "mkconfig", "mount_efi", "grub-install"}
Working == Writing \cup {"install_grub", "e2fsprogs", "fdisk", "wait",
            "mkfs", "mount", "update"}
Labels  == Working \cup {"idle", "prologue", "checks", "detect", "refuse",
            "sync", "epilogue", "log"}

VARIABLES
    pc,             \* next command
    k,              \* next mount point of a series of umounts, or polls made
    run,            \* runs started so far
    result,         \* what the last run returned
    failed,         \* history: a command of this run failed, or it refused
    cfg,            \* InstallerConfig of the run
    live,           \* the partition "/" is mounted from, or None
    mediaMounts,    \* devices mounted at /mnt/install, the visible one last
    rootMounts,     \* partitions mounted at /mnt/root, the visible one last,
                    \* with the mounts below each
    table,          \* partition table of each disk
    root,           \* pieces on each partition
    boot,           \* run that last installed the boot loader of each disk
    synced          \* FALSE: what the run wrote may still be in memory only

disks  == <<table, root, boot, synced>>
mounts == <<mediaMounts, rootMounts>>
vars   == <<pc, k, run, result, failed, cfg, live, mounts, disks>>

TypeOK ==
    /\ pc \in Labels
    /\ k \in 0..6 \cup 0..WaitAttempts
    /\ run \in 0..MaxRuns
    /\ result \in {"none", "ok", "error", "killed", "cut"}
    /\ failed \in BOOLEAN
    /\ cfg \in Configs
    /\ live \in Parts \cup {None}
    /\ mediaMounts \in Seq(Devices)
    /\ rootMounts \in Seq([part : Parts, sub : SUBSET Subs])
    /\ table \in [Disks -> {"old", "BIOS", "UEFI"}]
    /\ root \in [Parts -> SUBSET Pieces]
    /\ boot \in [Disks -> 0..MaxRuns]
    /\ synced \in BOOLEAN

-----------------------------------------------------------------------------
(* Mounts.                                                                 *)

Last(s) == s[Len(s)]
Pop(s)  == SubSeq(s, 1, Len(s) - 1)

\* installer_partition_path: the root partition and the EFI partition.
Part == <<cfg.disk, IF cfg.boot_mode = "UEFI" THEN 2 ELSE 1>>

\* The disk that holds the running system.
LiveDisk == IF live = None THEN None ELSE live[1]

\* Where a file below /mnt/root lies: on what is mounted there last or, with
\* nothing mounted, on the running system's own partition.
Below == IF rootMounts = <<>> THEN live ELSE Last(rootMounts).part

\* A piece is added to a partition; what is kept in memory is not tracked.
With(part, piece) ==
    [p \in Parts |-> IF p = part THEN root[p] \cup {piece} ELSE root[p]]

TopSub == IF rootMounts = <<>> THEN {} ELSE Last(rootMounts).sub

\* /mnt/root with other mounts below it.
WithSub(sub) == [rootMounts EXCEPT ![Len(rootMounts)].sub = sub]

\* The order of the umounts before and after a run.
Points == <<"boot/efi", "sys", "proc", "dev", "root", "install">>

\* What installer_safe_umount makes of the mounts at a point: its result is
\* not looked at, and umount fails on a busy file system.
installer_safe_umount(point) ==
    \/ UNCHANGED mounts
    \/ /\ point = "install" /\ mediaMounts # <<>>
       /\ mediaMounts' = Pop(mediaMounts) /\ UNCHANGED rootMounts
    \/ /\ point = "root" /\ rootMounts # <<>> /\ TopSub = {}
       /\ rootMounts' = Pop(rootMounts) /\ UNCHANGED mediaMounts
    \/ /\ point \in TopSub
       /\ rootMounts' = WithSub(TopSub \ {point}) /\ UNCHANGED mediaMounts

-----------------------------------------------------------------------------
(* Before anything is written.                                             *)

\* What the screens hand over.
Handed == {c \in Configs : c.disk # c.install_media}

Start ==
    /\ pc = "idle" /\ run < MaxRuns
    /\ cfg' \in Handed
    /\ run' = run + 1
    /\ pc' = "prologue" /\ k' = 1
    /\ result' = "none" /\ failed' = FALSE
    /\ synced' = TRUE
    /\ UNCHANGED <<live, mounts, table, root, boot>>

\* Ends the run with a return value; its caller copies the log.
Return(value) == pc' = "log" /\ k' = 0 /\ result' = value

Goto(label) == pc' = label /\ UNCHANGED result

\* One umount of a series.
Unmount ==
    /\ pc \in {"prologue", "epilogue"}
    /\ installer_safe_umount(Points[k])
    /\ IF k < 6 THEN k' = k + 1 /\ Goto(pc)
       ELSE IF pc = "prologue" THEN k' = 0 /\ Goto("checks")
       ELSE Return("ok")
    /\ UNCHANGED <<run, failed, cfg, live, disks>>

\* The target is a supported block device; the mount points are created.
CheckTarget ==
    /\ pc = "checks"
    /\ Goto("detect")
    /\ UNCHANGED <<k, run, failed, cfg, live, mounts, disks>>

\* The layers of /mnt/install that the umounts of the attempts may leave.
LeftOver == {SubSeq(mediaMounts, 1, n) : n \in 0..Len(mediaMounts)}

\* Faulty variant of detect_media: media that is already mounted will do.
DetectReuse ==
    /\ pc = "detect"
    /\ IF mediaMounts # <<>> THEN UNCHANGED mediaMounts
                             ELSE mediaMounts' = <<cfg.install_media>>
    /\ Goto("refuse")
    /\ UNCHANGED <<k, run, failed, cfg, live, rootMounts, disks>>

\* A partition of the selected media, or the media itself, is mounted; mounting
\* what is already the visible layer fails.
detect_media ==
    /\ pc = "detect"
    /\ \E m \in LeftOver :
        /\ m # <<>> => Last(m) # cfg.install_media
        /\ mediaMounts' = Append(m, cfg.install_media)
    /\ Goto("refuse")
    /\ UNCHANGED <<k, run, failed, cfg, live, rootMounts, disks>>

\* No attempt succeeds; a file system without the installer's files may stay
\* mounted.
DetectFails ==
    /\ pc = "detect"
    /\ \E m \in LeftOver :
        mediaMounts' \in {m, Append(m, cfg.install_media)}
    /\ Return("error") /\ failed' = TRUE
    /\ UNCHANGED <<run, cfg, live, rootMounts, disks>>

\* The disk is the media, holds it, or holds the running system.
Refused == cfg.disk \in {Last(mediaMounts), LiveDisk}

Refuse ==
    /\ pc = "refuse" /\ Refused
    /\ Return("error") /\ failed' = TRUE
    /\ UNCHANGED <<run, cfg, live, mounts, disks>>

Accept ==
    /\ pc = "refuse" /\ ~Refused
    /\ Goto(CASE cfg.action = "UPDATE" -> "wait"
              [] cfg.action = "INSTALL" -> "install_grub"
              [] cfg.action = "FORMAT_ONLY" -> "e2fsprogs")
    /\ UNCHANGED <<k, run, failed, cfg, live, mounts, disks>>

\* install_grub_pkg without a target root: packages of the running system.
InstallLiveGrub ==
    /\ pc = "install_grub"
    /\ root' = With(live, "tools")
    /\ Goto("e2fsprogs")
    /\ UNCHANGED <<k, run, failed, cfg, live, mounts, table, boot, synced>>

InstallE2fsprogs ==
    /\ pc = "e2fsprogs"
    /\ root' = With(live, "tools")
    /\ Goto("fdisk")
    /\ UNCHANGED <<k, run, failed, cfg, live, mounts, table, boot, synced>>

-----------------------------------------------------------------------------
(* Partitions and file systems.                                            *)

\* fdisk writes the table even when the kernel cannot reread it.
Fdisk ==
    /\ pc = "fdisk"
    /\ table' = [table EXCEPT ![cfg.disk] = cfg.boot_mode]
    /\ Goto("wait")
    /\ UNCHANGED <<k, run, failed, cfg, live, mounts, root, boot, synced>>

Ready ==
    /\ pc = "wait"
    /\ k' = 0
    /\ Goto(IF cfg.action = "UPDATE" THEN "mount" ELSE "mkfs")
    /\ UNCHANGED <<run, failed, cfg, live, mounts, disks>>

\* Faulty variant of NotReady: after the last poll the count starts over.
NotReadyRestarted ==
    /\ pc = "wait"
    /\ k' = (k + 1) % WaitAttempts
    /\ Goto(pc)
    /\ UNCHANGED <<run, failed, cfg, live, mounts, disks>>

NotReady ==
    /\ pc = "wait" /\ k + 1 < WaitAttempts
    /\ k' = k + 1
    /\ Goto(pc)
    /\ UNCHANGED <<run, failed, cfg, live, mounts, disks>>

\* Whether a partition is mounted anywhere: mkfs refuses it then.
Mounted(part) ==
    \E i \in DOMAIN rootMounts :
        \/ rootMounts[i].part = part
        \/ "boot/efi" \in rootMounts[i].sub /\ part = <<rootMounts[i].part[1], 1>>

\* The EFI partition, if any, and the root partition.
Formatted == {<<cfg.disk, 1>>, Part}

\* mkfs.vfat for UEFI, then mkfs.ext4; FORMAT_ONLY ends here.
Mkfs ==
    /\ pc = "mkfs"
    /\ \A p \in Formatted : ~Mounted(p)
    /\ root' = [p \in Parts |-> IF p \in Formatted THEN {} ELSE root[p]]
    /\ Goto(IF cfg.action = "FORMAT_ONLY" THEN "sync" ELSE "mount")
    /\ UNCHANGED <<k, run, failed, cfg, live, mounts, table, boot, synced>>

\* Faulty variant of MountTarget: a failing mount is not noticed.
MountUnchecked ==
    /\ pc = "mount"
    /\ rootMounts' \in {rootMounts, Append(rootMounts, [part |-> Part, sub |-> {}])}
    /\ Goto(IF cfg.action = "UPDATE" THEN "update" ELSE "wipe")
    /\ UNCHANGED <<k, run, failed, cfg, live, mediaMounts, disks>>

\* Mounting what is already the visible layer of /mnt/root fails.
MountTarget ==
    /\ pc = "mount"
    /\ rootMounts # <<>> => Last(rootMounts).part # Part
    /\ rootMounts' = Append(rootMounts, [part |-> Part, sub |-> {}])
    /\ Goto(IF cfg.action = "UPDATE" THEN "update" ELSE "wipe")
    /\ UNCHANGED <<k, run, failed, cfg, live, mediaMounts, disks>>

\* "syspckg update --all --root /mnt/root --allow-root -y": SystemPackager knows
\* neither --all nor --root nor --allow-root, takes them and the path for
\* package names, finds no such packages and exits with 2. What follows in the
\* code after a successful update is therefore never reached.
UpdateSystem ==
    /\ pc = "update"
    /\ installer_safe_umount("root")
    /\ Return("error")
    /\ UNCHANGED <<run, failed, cfg, live, disks>>

-----------------------------------------------------------------------------
(* Filling the target: whatever is mounted last at /mnt/root.              *)

\* A command that removes and adds pieces below /mnt/root; the live system in
\* memory is not tracked.
Fill(here, gone, added, next) ==
    /\ pc = here
    /\ root' = IF rootMounts = <<>> THEN root
               ELSE [root EXCEPT ![Last(rootMounts).part] = (@ \ gone) \cup added]
    /\ synced' = FALSE
    /\ Goto(next)
    /\ UNCHANGED <<k, run, failed, cfg, live, mounts, table, boot>>

\* rm -rf of everything below /mnt/root, then the archive of the media.
Wipe    == Fill("wipe", Pieces, {}, "extract")
Extract == Fill("extract", {}, {"rootfs"}, "prepare")

\* State cleanup, busybox and shutdown links, initramfs-disk.gz, memtest.
PrepareBoot == Fill("prepare", {}, {"initrd"}, "target_grub")

\* The resolver and the GRUB packages in the target; the packages of the RPM
\* transaction bring account files of their own.
InstallTargetGrub == Fill("target_grub", {"accounts"}, {"packages"}, "accounts")

\* Faulty variant of write_user_files: passwords that cannot be hashed are
\* passed over.
SkipUserFiles == Fill("accounts", {}, {}, "kernel")

write_user_files == Fill("accounts", {}, {"accounts"}, "kernel")

CopyKernel == Fill("kernel", {}, {"kernel"}, "config")

\* /etc/default/grub with the root argument.
WriteGrubDefaults == Fill("config", {}, {}, "chroot")

\* /dev, /proc and /sys are mounted below the target.
PrepareChroot ==
    /\ pc = "chroot"
    /\ rootMounts' = WithSub(TopSub \cup {"dev", "proc", "sys"})
    /\ Goto("mkconfig")
    /\ UNCHANGED <<k, run, failed, cfg, live, mediaMounts, disks>>

\* grub2-mkconfig, the compatibility copy and the test for a menu entry.
MakeGrubConfig ==
    Fill("mkconfig", {}, {"grub.cfg"},
         IF cfg.boot_mode = "UEFI" THEN "mount_efi" ELSE "grub-install")

MountEfi ==
    /\ pc = "mount_efi"
    /\ rootMounts' = WithSub(TopSub \cup {"boot/efi"})
    /\ Goto("grub-install")
    /\ UNCHANGED <<k, run, failed, cfg, live, mediaMounts, disks>>

\* The boot loader goes to the disk (BIOS) or to the EFI partition.
InstallBootloader ==
    /\ pc = "grub-install"
    /\ boot' = [boot EXCEPT ![cfg.disk] = run]
    /\ synced' = FALSE
    /\ Goto("sync")
    /\ UNCHANGED <<k, run, failed, cfg, live, mounts, table, root>>

\* The log is copied if it can be, then sync, then the umounts; FORMAT_ONLY has
\* mounted nothing but the media and copies nothing here.
Sync ==
    /\ pc = "sync"
    /\ \/ UNCHANGED root
       \/ cfg.action = "INSTALL" /\ root' = With(Below, "log")
    /\ synced' = TRUE
    /\ k' = IF cfg.action = "FORMAT_ONLY" THEN 6 ELSE 1
    /\ Goto("epilogue")
    /\ UNCHANGED <<run, failed, cfg, live, mounts, table, boot>>

\* The caller copies the log to wherever /mnt/root is by now, if it can be; a
\* copy that a power loss undoes is one that failed.
copy_log_to_target ==
    /\ pc = "log"
    /\ root' \in {root, With(Below, "log")}
    /\ Goto("idle")
    /\ UNCHANGED <<k, run, failed, cfg, live, mounts, table, boot, synced>>

-----------------------------------------------------------------------------
(* Failures.                                                               *)

\* A checked command fails: return 1, with everything left mounted. A piece
\* written in part is not counted as written.
CommandFails ==
    /\ pc \in (Working \ {"install_grub", "e2fsprogs", "wait", "fdisk", "mkfs",
                         "update", "chroot", "mkconfig", "grub-install"})
              \cup {"checks"}
    /\ Return("error") /\ failed' = TRUE
    /\ UNCHANGED <<run, cfg, live, mounts, disks>>

\* A package of the running system cannot be installed, possibly after another
\* one was.
LivePackageFails ==
    /\ pc \in {"install_grub", "e2fsprogs"}
    /\ root' \in {root, With(live, "tools")}
    /\ Return("error") /\ failed' = TRUE
    /\ UNCHANGED <<run, cfg, live, mounts, table, boot, synced>>

\* fdisk or a mkfs fails, possibly after part of the work.
FormatFails ==
    /\ pc \in {"fdisk", "mkfs"}
    /\ table' \in {table, [table EXCEPT ![cfg.disk] = cfg.boot_mode]}
    /\ \E gone \in SUBSET {p \in Formatted : pc = "mkfs" /\ ~Mounted(p)} :
        root' = [p \in Parts |-> IF p \in gone THEN {} ELSE root[p]]
    /\ Return("error") /\ failed' = TRUE
    /\ UNCHANGED <<run, cfg, live, mounts, boot, synced>>

\* The partition devices did not appear.
WaitFails ==
    /\ pc = "wait" /\ k + 1 >= WaitAttempts
    /\ Return("error") /\ failed' = TRUE
    /\ UNCHANGED <<run, cfg, live, mounts, disks>>

\* Preparing the chroot or grub2-mkconfig fails: /sys, /proc and /dev are
\* unmounted, as far as umount succeeds. The later tests of the configuration
\* do not unmount.
MkconfigFails ==
    /\ pc \in {"chroot", "mkconfig"}
    /\ \E sub \in SUBSET (TopSub \cup {"dev", "proc", "sys"}) :
        rootMounts' = WithSub(sub)
    /\ Return("error") /\ failed' = TRUE
    /\ UNCHANGED <<run, cfg, live, mediaMounts, disks>>

\* grub2-install fails, or it succeeds and the fallback loader or the final copy
\* of its configuration fails: the loader is there and nothing has been synced.
BootloaderFails ==
    /\ pc = "grub-install"
    /\ boot' \in {boot, [boot EXCEPT ![cfg.disk] = run]}
    /\ synced' = FALSE
    /\ Return("error") /\ failed' = TRUE
    /\ UNCHANGED <<run, cfg, live, mounts, table, root>>

\* Power is lost, or the user reboots: mounts are gone, and what the run has not
\* synced may be, though the loader is there. (Not in the last run of a
\* behaviour, after which nothing follows.)
PowerOff ==
    /\ run < MaxRuns
    /\ pc # "idle" \/ ~synced \/ mounts # <<<<>>, <<>>>>
    /\ mediaMounts' = <<>> /\ rootMounts' = <<>>
    /\ \E kept \in SUBSET root[Part] :
        /\ synced => kept = root[Part]
        /\ root' = [root EXCEPT ![Part] = kept]
    /\ pc' = "idle" /\ k' = 0
    /\ \/ ~synced /\ result' = "cut"
       \/ synced /\ pc # "idle" /\ result' = "killed"
       \/ synced /\ pc = "idle" /\ UNCHANGED result
    /\ synced' = TRUE
    /\ UNCHANGED <<run, failed, cfg, live, table, boot>>

NoMoreRuns == pc = "idle" /\ run = MaxRuns /\ UNCHANGED vars

-----------------------------------------------------------------------------

Init ==
    /\ pc = "idle" /\ k = 0
    /\ run = 0
    /\ result = "none" /\ failed = FALSE
    /\ cfg \in Configs
    /\ live \in Parts \cup {None}
    /\ mediaMounts = <<>> /\ rootMounts = <<>>
    /\ table = [d \in Disks |-> "old"]
    /\ root = [p \in Parts |-> {"old"}]
    /\ boot = [d \in Disks |-> 0]
    /\ synced = TRUE

\* The steps of installer_run_install, and the copy of its log.
Step ==
    \/ Unmount \/ CheckTarget \/ detect_media \/ DetectFails \/ Refuse \/ Accept
    \/ InstallLiveGrub \/ InstallE2fsprogs \/ Fdisk \/ Ready \/ NotReady
    \/ Mkfs \/ MountTarget \/ UpdateSystem \/ Wipe \/ Extract \/ PrepareBoot
    \/ InstallTargetGrub \/ write_user_files \/ CopyKernel \/ WriteGrubDefaults
    \/ PrepareChroot \/ MakeGrubConfig \/ MountEfi \/ InstallBootloader \/ Sync
    \/ copy_log_to_target \/ CommandFails \/ LivePackageFails \/ FormatFails
    \/ WaitFails \/ MkconfigFails \/ BootloaderFails

Next == Start \/ Step \/ PowerOff \/ NoMoreRuns

Spec == Init /\ [][Next]_vars

\* Every command returns.
FairSpec == Spec /\ WF_vars(Step)

-----------------------------------------------------------------------------
(* Properties.                                                             *)

\* What a run may leave on a partition that is not its target's: the copy of
\* the log on what is still mounted at /mnt/root, packages on the running
\* system.
MayGain(part) ==
    {piece \in {"log"} : part = Below} \cup {piece \in {"tools"} : part = live}

\* A disk is partitioned, formatted, filled or given a loader only as the chosen
\* target, never when it is the media or holds the running system, and never by
\* an update. Any other disk keeps its table, its loader and all that is on it,
\* whatever earlier runs left mounted at /mnt/root; the log and the packages of
\* MayGain are all that it may gain.
OnlyTargetChanges ==
    \A d \in Disks :
        \/ /\ table'[d] = table[d] /\ boot'[d] = boot[d]
           /\ \A n \in {1, 2} :
                /\ root[<<d, n>>] \subseteq root'[<<d, n>>]
                /\ root'[<<d, n>>] \subseteq root[<<d, n>>] \cup MayGain(<<d, n>>)
        \/ /\ d = cfg.disk /\ d # cfg.install_media /\ d # LiveDisk
           /\ cfg.action # "UPDATE"

EraseOnlyTarget == [][OnlyTargetChanges]_vars

\* "rm -rf /mnt/root/*" never descends into /dev, /proc or /sys of the running
\* system that an earlier run left mounted below /mnt/root.
LiveTreesSafe ==
    pc = "wipe" => rootMounts # <<>> /\ TopSub = {}

\* From detection to the end the visible media is the selected one ("Never fall
\* back to an optical drive or another disk after that choice"), whatever
\* earlier runs left at /mnt/install.
MediaAuthoritative ==
    pc \in Working \cup {"refuse", "sync"} =>
        mediaMounts # <<>> /\ Last(mediaMounts) = cfg.install_media

\* A boot loader installed by this run boots a complete system with the
\* accounts that were asked for; a run that reports success has installed one.
\* The only exception is power lost before sync, with what the run wrote still
\* in memory: between grub2-install and sync, or after a run that failed there.
\* Power lost after sync, in the umounts or later, takes nothing away.
BootableIsComplete ==
    /\ boot[cfg.disk] = run /\ run > 0 /\ result # "cut" =>
            /\ Complete \subseteq root[Part]
            /\ table[cfg.disk] = cfg.boot_mode
    /\ result = "ok" /\ cfg.action = "INSTALL" => boot[cfg.disk] = run

\* "The installed system on this disk will be updated without formatting": an
\* update in which no command fails and nothing is refused updates the target.
UpdateUpdates ==
    result = "error" /\ cfg.action = "UPDATE" /\ ~failed =>
        "updated" \in root[Part]

\* Every run returns to its caller.
RunEnds == pc # "idle" ~> pc = "idle"
=============================================================================
