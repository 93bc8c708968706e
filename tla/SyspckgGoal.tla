---------------------------- MODULE SyspckgGoal ----------------------------
(***************************************************************************)
(* The life of one `syspckg install | remove | upgrade` command            *)
(* (tools/syspckg/main.cpp): prepare_base, the system-repository lock, and *)
(* run_goal, with the Fedora bootstrap that the first install performs:    *)
(* backup of the AdavaLinux core files, usr-merge, the RPM run without     *)
(* scriptlets, restore, activation of the Fedora runtime and the marker.   *)
(*                                                                         *)
(* Several commands run at once; any of them may be killed at any step.    *)
(* What survives a kill is the disk: core, backup, link, sh, loader, bash  *)
(* and marker.  The lock is released by the kernel with the process.       *)
(***************************************************************************)
EXTENDS Naturals

CONSTANTS
    Procs,      \* the commands started on this machine, each runs once
    NoProc,     \* the value of a free lock
    NFiles,     \* how many entries adavalinux_core_files() lists
    NDirs       \* how many legacy directories are usr-merged; the last is /lib64

ASSUME GoalAssumption ==
    /\ NoProc \notin Procs
    /\ NFiles \in Nat
    /\ NDirs \in Nat \ {0}

Files == 1..NFiles
Dirs  == 1..NDirs

\* What a core file, or its copy below bootstrap-backup, holds. "torn" is a
\* destination truncated by copy_file and not completely written.
Content == {"adava", "fedora", "torn", "absent"}

\* A legacy path: a directory, nothing, the right link, another symlink.
LegacyPath == {"dir", "gone", "link", "other"}

Commands == {"install", "remove", "upgrade"}

Killed == 137   \* exit status of a process ended by SIGKILL

VARIABLES
    pc,         \* where each command is
    rc,         \* its exit status, meaningful once pc is "exit"
    cmd,        \* the command word
    boot,       \* run_goal's bootstrap_mode
    tsflags,    \* the tsflags option of the process's libdnf5 configuration
    txnFlags,   \* the flags goal.resolve() copied into the transaction
    fedora,     \* transaction_contains_fedora_packages
    overrides,  \* the sysusers macro is pushed (rpm_overrides_active)
    idx,        \* position in the loop over core files or legacy directories
    lock,       \* holder of the system repository's write lock
    core,       \* core files
    backup,     \* /var/lib/syspckg/bootstrap-backup
    link,       \* legacy directories
    sh,         \* the sh entry of the bin directory, /usr/bin/sh once merged
    loader,     \* /usr/lib64/ld-linux-x86-64.so.2 exists
    bash,       \* /usr/bin/bash exists
    marker,     \* /var/lib/syspckg/fedora-base.ready exists
    before,     \* history: core as run_goal found it
    warned      \* history: a restore of this command only logged a warning

local == <<rc, cmd, boot, tsflags, txnFlags, fedora, overrides, idx>>
disk  == <<core, backup, link, sh, loader, bash, marker>>
ghost == <<before, warned>>
vars  == <<pc, local, lock, disk, ghost>>

GoalPcs == {"resolve", "confirm", "clear", "backup", "merge", "download",
            "override", "rpm", "restore_fail", "restore_final", "activate",
            "relink", "finish"}

Pcs == {"idle", "prepare", "lock", "load", "goal", "exit"} \cup GoalPcs

TypeOK ==
    /\ pc \in [Procs -> Pcs]
    /\ rc \in [Procs -> {0, 1, 2, 3, Killed}]
    /\ cmd \in [Procs -> Commands]
    /\ boot \in [Procs -> BOOLEAN]
    /\ tsflags \in [Procs -> {"original", "bootstrap"}]
    /\ txnFlags \in [Procs -> {"original", "bootstrap"}]
    /\ fedora \in [Procs -> BOOLEAN]
    /\ overrides \in [Procs -> BOOLEAN]
    /\ idx \in [Procs -> Nat \ {0}]
    /\ lock \in Procs \cup {NoProc}
    /\ core \in [Files -> Content]
    /\ backup \in [Files -> Content]
    /\ link \in [Dirs -> LegacyPath]
    /\ sh \in {"busybox", "bash", "absent"}
    /\ loader \in BOOLEAN
    /\ bash \in BOOLEAN
    /\ marker \in BOOLEAN
    /\ before \in [Procs -> [Files -> Content]]
    /\ warned \in [Procs -> BOOLEAN]

-----------------------------------------------------------------------------
(* Steps of a process.                                                     *)

Goto(p, l) == pc' = [pc EXCEPT ![p] = l]

\* main returns: the libdnf5 Base is destroyed and its lock with it.
Exit(p, code) ==
    /\ Goto(p, "exit")
    /\ rc' = [rc EXCEPT ![p] = code]
    /\ lock' = IF lock = p THEN NoProc ELSE lock

restore_tsflags(p) == tsflags' = [tsflags EXCEPT ![p] = "original"]

disable_bootstrap_rpm_overrides(p) ==
    overrides' = [overrides EXCEPT ![p] = FALSE]

\* Faulty variant of Catch: the core files are not restored.
CatchWithoutRestore(p) ==
    /\ disable_bootstrap_rpm_overrides(p)
    /\ restore_tsflags(p)
    /\ Exit(p, 3)
    /\ UNCHANGED <<cmd, boot, txnFlags, fedora, idx>>

\* The catch block of run_goal: undo what is active, restore the core files
\* of a bootstrap, return 3.
Catch(p) ==
    /\ disable_bootstrap_rpm_overrides(p)
    /\ restore_tsflags(p)
    /\ idx' = [idx EXCEPT ![p] = 1]
    /\ IF boot[p] THEN Goto(p, "restore_fail") /\ UNCHANGED <<rc, lock>>
                  ELSE Exit(p, 3)
    /\ UNCHANGED <<cmd, boot, txnFlags, fedora>>

-----------------------------------------------------------------------------
(* main and prepare_base.                                                  *)

Start(p) ==
    /\ pc[p] = "idle"
    /\ \E c \in Commands : cmd' = [cmd EXCEPT ![p] = c]
    /\ Goto(p, "prepare")
    /\ UNCHANGED <<rc, boot, tsflags, txnFlags, fedora, overrides, idx, lock,
                   disk, ghost>>

\* check_runtime_layout, base.setup and the repository selection, all before
\* the lock.
PrepareBase(p) ==
    /\ pc[p] = "prepare"
    /\ Goto(p, "lock")
    /\ UNCHANGED <<local, lock, disk, ghost>>

\* Faulty variant of lock_system_repo: a shared lock.
LockShared(p) ==
    /\ pc[p] = "lock"
    /\ Goto(p, "load")
    /\ UNCHANGED <<local, lock, disk, ghost>>

lock_system_repo(p) ==
    /\ pc[p] = "lock"
    /\ lock = NoProc
    /\ lock' = p
    /\ Goto(p, "load")
    /\ UNCHANGED <<local, disk, ghost>>

\* load_repos, at least one usable repository, and the command builds its goal.
LoadRepos(p) ==
    /\ pc[p] = "load"
    /\ Goto(p, "goal")
    /\ UNCHANGED <<local, lock, disk, ghost>>

\* An exception of prepare_base: a piece of the runtime is missing, no
\* repository is enabled, load_repos throws, or no repository is usable.
PrepareFails(p) ==
    /\ pc[p] \in {"prepare", "load"}
    /\ Exit(p, 1)
    /\ UNCHANGED <<cmd, boot, tsflags, txnFlags, fedora, overrides, idx,
                   disk, ghost>>

-----------------------------------------------------------------------------
(* run_goal up to the confirmation.                                        *)

\* Faulty variant of BeginGoal: the flags are left for after the resolution.
BeginGoalLateFlags(p) ==
    /\ pc[p] = "goal"
    /\ boot' = [boot EXCEPT ![p] = cmd[p] = "install" /\ ~marker]
    /\ before' = [before EXCEPT ![p] = core]
    /\ Goto(p, "resolve")
    /\ UNCHANGED <<rc, cmd, tsflags, txnFlags, fedora, overrides, idx, lock,
                   disk, warned>>

\* bootstrap_mode and the flags that goal.resolve() is about to copy.
BeginGoal(p) ==
    /\ pc[p] = "goal"
    /\ boot' = [boot EXCEPT ![p] = cmd[p] = "install" /\ ~marker]
    /\ tsflags' = [tsflags EXCEPT ![p] = IF boot'[p] THEN "bootstrap" ELSE @]
    /\ before' = [before EXCEPT ![p] = core]
    /\ Goto(p, "resolve")
    /\ UNCHANGED <<rc, cmd, txnFlags, fedora, overrides, idx, lock, disk, warned>>

\* goal.resolve() throws; or it reports a fatal problem, or nothing to do.
ResolveStops(p) ==
    /\ pc[p] = "resolve"
    /\ restore_tsflags(p)
    /\ \E code \in {0, 1, 2} : Exit(p, code)
    /\ UNCHANGED <<cmd, boot, txnFlags, fedora, overrides, idx, disk, ghost>>

\* A transaction: it keeps the flags that were set when it was resolved. One
\* without Fedora packages leaves the bootstrap path. A remove brings nothing in.
Resolve(p) ==
    /\ pc[p] = "resolve"
    /\ txnFlags' = [txnFlags EXCEPT ![p] = tsflags[p]]
    /\ \E f \in BOOLEAN :
         /\ cmd[p] = "remove" => ~f
         /\ fedora' = [fedora EXCEPT ![p] = f]
         /\ IF boot[p] /\ ~f
            THEN restore_tsflags(p) /\ boot' = [boot EXCEPT ![p] = FALSE]
            ELSE UNCHANGED <<tsflags, boot>>
    /\ Goto(p, "confirm")
    /\ UNCHANGED <<rc, cmd, overrides, idx, lock, disk, ghost>>

\* confirm_transaction answers no.
Cancel(p) ==
    /\ pc[p] = "confirm"
    /\ restore_tsflags(p)
    /\ Exit(p, 0)
    /\ UNCHANGED <<cmd, boot, txnFlags, fedora, overrides, idx, disk, ghost>>

Confirm(p) ==
    /\ pc[p] = "confirm"
    /\ Goto(p, IF boot[p] THEN "clear" ELSE "download")
    /\ UNCHANGED <<local, lock, disk, ghost>>

-----------------------------------------------------------------------------
(* backup_adavalinux_core_files.                                           *)

\* What remove_all may leave when it fails, or is killed, half way.
PartlyRemoved ==
    {[f \in Files |-> IF f \in kept THEN backup[f] ELSE "absent"] :
        kept \in SUBSET Files}

\* copy_file of entry idx[p] that fails or is killed may leave the destination
\* torn; an entry whose source does not exist is not copied.
MaybeTorn(p, destination, source) ==
    {destination} \cup
    {[destination EXCEPT ![f] = "torn"] :
        f \in {g \in Files : g = idx[p] /\ source[g] # "absent"}}

\* The backup directory after clearing or copying is cut short.
BackupCutShort(p) ==
    IF pc[p] = "clear" THEN PartlyRemoved
    ELSE IF pc[p] = "backup" THEN MaybeTorn(p, backup, core)
    ELSE {backup}

\* remove_all, whose error is ignored; then create_directories.
ClearBackup(p) ==
    /\ pc[p] = "clear"
    /\ backup' \in PartlyRemoved
    /\ idx' = [idx EXCEPT ![p] = 1]
    /\ Goto(p, "backup")
    /\ UNCHANGED <<rc, cmd, boot, tsflags, txnFlags, fedora, overrides, lock,
                   core, link, sh, loader, bash, marker, ghost>>

\* Faulty variant of BackupFile: copy errors are ignored.
BackupFileUnchecked(p) ==
    /\ pc[p] = "backup" /\ idx[p] \in Files
    /\ backup' \in MaybeTorn(p, backup, core)
    /\ idx' = [idx EXCEPT ![p] = @ + 1]
    /\ UNCHANGED <<pc, rc, cmd, boot, tsflags, txnFlags, fedora, overrides,
                   lock, core, link, sh, loader, bash, marker, ghost>>

\* One turn of the loop.
BackupFile(p) ==
    /\ pc[p] = "backup" /\ idx[p] \in Files
    /\ backup' = [backup EXCEPT ![idx[p]] =
                    IF core[idx[p]] = "absent" THEN @ ELSE core[idx[p]]]
    /\ idx' = [idx EXCEPT ![p] = @ + 1]
    /\ UNCHANGED <<pc, rc, cmd, boot, tsflags, txnFlags, fedora, overrides,
                   lock, core, link, sh, loader, bash, marker, ghost>>

\* An error of the backup leaves run_goal: the call is outside its try block.
BackupThrows(p) ==
    /\ pc[p] \in {"clear", "backup"}
    /\ backup' \in BackupCutShort(p)
    /\ Exit(p, 1)
    /\ UNCHANGED <<cmd, boot, tsflags, txnFlags, fedora, overrides, idx,
                   core, link, sh, loader, bash, marker, ghost>>

BackupDone(p) ==
    /\ pc[p] = "backup" /\ idx[p] \notin Files
    /\ idx' = [idx EXCEPT ![p] = 1]
    /\ Goto(p, "merge")
    /\ UNCHANGED <<rc, cmd, boot, tsflags, txnFlags, fedora, overrides, lock,
                   disk, ghost>>

-----------------------------------------------------------------------------
(* prepare_fedora_usr_merge: ensure_usr_merge_link for each legacy path.   *)

\* Faulty variant of MergeLegacy: a right link is replaced, too.
MergeAnyLink(p) ==
    /\ pc[p] = "merge" /\ idx[p] \in Dirs
    /\ link' = [link EXCEPT ![idx[p]] = "gone"]
    /\ UNCHANGED <<pc, local, lock, core, backup, sh, loader, bash, marker, ghost>>

\* A directory is merged below /usr and removed, a wrong symlink is removed.
MergeLegacy(p) ==
    /\ pc[p] = "merge" /\ idx[p] \in Dirs
    /\ link[idx[p]] \in {"dir", "other"}
    /\ link' = [link EXCEPT ![idx[p]] = "gone"]
    /\ UNCHANGED <<pc, local, lock, core, backup, sh, loader, bash, marker, ghost>>

\* create_symlink, or nothing when the link is right already.
LinkLegacy(p) ==
    /\ pc[p] = "merge" /\ idx[p] \in Dirs
    /\ link[idx[p]] \in {"gone", "link"}
    /\ link' = [link EXCEPT ![idx[p]] = "link"]
    /\ idx' = [idx EXCEPT ![p] = @ + 1]
    /\ UNCHANGED <<pc, rc, cmd, boot, tsflags, txnFlags, fedora, overrides,
                   lock, core, backup, sh, loader, bash, marker, ghost>>

\* Faulty variant of MergeThrows: the error code is not looked at.
MergeUnchecked(p) ==
    /\ pc[p] = "merge" /\ idx[p] \in Dirs
    /\ link[idx[p]] # "link"
    /\ idx' = [idx EXCEPT ![p] = @ + 1]
    /\ UNCHANGED <<pc, rc, cmd, boot, tsflags, txnFlags, fedora, overrides,
                   lock, disk, ghost>>

\* Any of these operations throws, which also leaves run_goal.
MergeThrows(p) ==
    /\ pc[p] = "merge" /\ idx[p] \in Dirs
    /\ link[idx[p]] # "link"
    /\ Exit(p, 1)
    /\ UNCHANGED <<cmd, boot, tsflags, txnFlags, fedora, overrides, idx, disk, ghost>>

MergeDone(p) ==
    /\ pc[p] = "merge" /\ idx[p] \notin Dirs
    /\ Goto(p, "download")
    /\ UNCHANGED <<local, lock, disk, ghost>>

-----------------------------------------------------------------------------
(* The try block of run_goal: download, RPM run.                           *)

Download(p) ==
    /\ pc[p] = "download"
    /\ Goto(p, IF boot[p] THEN "override" ELSE "rpm")
    /\ UNCHANGED <<local, lock, disk, ghost>>

\* Packages that could not be fetched: return 3 with the flags as they are.
DownloadFails(p) ==
    /\ pc[p] = "download"
    /\ Exit(p, 3)
    /\ UNCHANGED <<cmd, boot, tsflags, txnFlags, fedora, overrides, idx, disk, ghost>>

enable_bootstrap_rpm_overrides(p) ==
    /\ pc[p] = "override"
    /\ overrides' = [overrides EXCEPT ![p] = TRUE]
    /\ Goto(p, "rpm")
    /\ UNCHANGED <<rc, cmd, boot, tsflags, txnFlags, fedora, idx, lock, disk, ghost>>

\* An exception inside the try block.
Throws(p) ==
    /\ pc[p] \in {"download", "override", "rpm"}
    /\ Catch(p)
    /\ UNCHANGED <<disk, ghost>>

\* transaction.run() unpacks Fedora packages: a core file is replaced, or the
\* loader or bash (whose package carries /usr/bin/sh) appears.
RpmUnpack(p) ==
    /\ pc[p] = "rpm"
    /\ fedora[p]
    /\ \/ \E f \in Files : core' = [core EXCEPT ![f] = "fedora"]
                           /\ UNCHANGED <<loader, bash, sh>>
       \/ loader' = TRUE /\ UNCHANGED <<core, bash, sh>>
       \/ bash' = TRUE /\ sh' \in {sh, "bash"} /\ UNCHANGED <<core, loader>>
    /\ UNCHANGED <<pc, local, lock, backup, link, marker, ghost>>

\* transaction.run() erases packages: those a remove names with all that needs
\* them, and those a transaction of any command obsoletes. A core file, the
\* loader, or bash with its /usr/bin/sh goes; erasing looks at no marker.
RpmErase(p) ==
    /\ pc[p] = "rpm"
    /\ \/ \E f \in Files : core' = [core EXCEPT ![f] = "absent"]
                           /\ UNCHANGED <<loader, bash, sh>>
       \/ loader' = FALSE /\ UNCHANGED <<core, bash, sh>>
       \/ bash /\ bash' = FALSE /\ sh' \in {sh, "absent"}
                /\ UNCHANGED <<core, loader>>
    /\ UNCHANGED <<pc, local, lock, backup, link, marker, ghost>>

\* transaction.run() returns; on success and on failure the overrides are
\* popped and the flags restored before anything else.
RpmReturns(p) ==
    /\ pc[p] = "rpm"
    /\ disable_bootstrap_rpm_overrides(p)
    /\ tsflags' = IF boot[p] THEN [tsflags EXCEPT ![p] = "original"] ELSE tsflags
    /\ idx' = [idx EXCEPT ![p] = 1]
    /\ \E success \in BOOLEAN :
         IF boot[p]
         THEN /\ Goto(p, IF success THEN "restore_final" ELSE "restore_fail")
              /\ UNCHANGED <<rc, lock>>
         ELSE Exit(p, IF success THEN 0 ELSE 3)
    /\ UNCHANGED <<cmd, boot, txnFlags, fedora, disk, ghost>>

-----------------------------------------------------------------------------
(* restore_adavalinux_core_files and finalize_fedora_bootstrap.            *)

\* One turn of the loop.
RestoreFile(p) ==
    /\ pc[p] \in {"restore_fail", "restore_final"} /\ idx[p] \in Files
    /\ core' = [core EXCEPT ![idx[p]] =
                  IF backup[idx[p]] = "absent" THEN @ ELSE backup[idx[p]]]
    /\ idx' = [idx EXCEPT ![p] = @ + 1]
    /\ UNCHANGED <<pc, rc, cmd, boot, tsflags, txnFlags, fedora, overrides,
                   lock, backup, link, sh, loader, bash, marker, ghost>>

\* A copy that fails is only logged, and the loop goes on.
RestoreWarns(p) ==
    /\ pc[p] \in {"restore_fail", "restore_final"} /\ idx[p] \in Files
    /\ backup[idx[p]] # "absent"
    /\ core' \in MaybeTorn(p, core, backup)
    /\ warned' = [warned EXCEPT ![p] = TRUE]
    /\ idx' = [idx EXCEPT ![p] = @ + 1]
    /\ UNCHANGED <<pc, rc, cmd, boot, tsflags, txnFlags, fedora, overrides,
                   lock, backup, link, sh, loader, bash, marker, before>>

RestoreDone(p) ==
    /\ pc[p] \in {"restore_fail", "restore_final"} /\ idx[p] \notin Files
    /\ IF pc[p] = "restore_final"
       THEN Goto(p, "activate") /\ UNCHANGED <<rc, lock>>
       ELSE Exit(p, 3)
    /\ UNCHANGED <<cmd, boot, tsflags, txnFlags, fedora, overrides, idx,
                   disk, ghost>>

\* The loader must exist and /lib64 be a symlink; then /usr/bin/sh is removed
\* when bash is there to take its place.
activate_fedora_runtime(p) ==
    /\ pc[p] = "activate"
    /\ loader /\ link[NDirs] \in {"link", "other"}
    /\ Goto(p, IF bash THEN "relink" ELSE "finish")
    /\ sh' = IF bash THEN "absent" ELSE sh
    /\ UNCHANGED <<local, lock, core, backup, link, loader, bash, marker, ghost>>

\* create_symlink("bash", "/usr/bin/sh").
RelinkShell(p) ==
    /\ pc[p] = "relink"
    /\ sh' = "bash"
    /\ Goto(p, "finish")
    /\ UNCHANGED <<local, lock, core, backup, link, loader, bash, marker, ghost>>

\* A check fails, or an operation of the finalisation throws.
FinalizeThrows(p) ==
    /\ pc[p] \in {"activate", "relink", "finish"}
    /\ Catch(p)
    /\ UNCHANGED <<disk, ghost>>

\* CA bundle, caches (whose failure is only logged), and last the marker.
FinalizeBootstrap(p) ==
    /\ pc[p] = "finish"
    /\ marker' = TRUE
    /\ Exit(p, 0)
    /\ UNCHANGED <<cmd, boot, tsflags, txnFlags, fedora, overrides, idx,
                   core, backup, link, sh, loader, bash, ghost>>

-----------------------------------------------------------------------------
\* The process is killed, possibly inside a copy or inside remove_all.
Kill(p) ==
    /\ pc[p] \notin {"idle", "exit"}
    /\ Exit(p, Killed)
    /\ backup' \in BackupCutShort(p)
    /\ core' \in IF pc[p] \in {"restore_fail", "restore_final"}
                 THEN MaybeTorn(p, core, backup) ELSE {core}
    /\ UNCHANGED <<cmd, boot, tsflags, txnFlags, fedora, overrides, idx,
                   link, sh, loader, bash, marker, ghost>>

\* Every command has finished.
AllDone ==
    /\ \A p \in Procs : pc[p] = "exit"
    /\ UNCHANGED vars

Init ==
    /\ pc = [p \in Procs |-> "idle"]
    /\ rc = [p \in Procs |-> 0]
    /\ cmd = [p \in Procs |-> "install"]
    /\ boot = [p \in Procs |-> FALSE]
    /\ tsflags = [p \in Procs |-> "original"]
    /\ txnFlags = [p \in Procs |-> "original"]
    /\ fedora = [p \in Procs |-> FALSE]
    /\ overrides = [p \in Procs |-> FALSE]
    /\ idx = [p \in Procs |-> 1]
    /\ lock = NoProc
    /\ core \in [Files -> {"adava", "absent"}]
    /\ backup = [f \in Files |-> "absent"]
    /\ link \in [Dirs -> {"dir", "link"}]
    /\ sh = "busybox"
    /\ loader = FALSE
    /\ bash = FALSE
    /\ marker = FALSE
    /\ before = [p \in Procs |-> [f \in Files |-> "absent"]]
    /\ warned = [p \in Procs |-> FALSE]

\* One step of the program itself.
Step(p) ==
    \/ PrepareBase(p) \/ lock_system_repo(p) \/ LoadRepos(p) \/ PrepareFails(p)
    \/ BeginGoal(p) \/ ResolveStops(p) \/ Resolve(p) \/ Cancel(p) \/ Confirm(p)
    \/ ClearBackup(p) \/ BackupFile(p) \/ BackupThrows(p) \/ BackupDone(p)
    \/ MergeLegacy(p) \/ LinkLegacy(p) \/ MergeThrows(p) \/ MergeDone(p)
    \/ Download(p) \/ DownloadFails(p) \/ enable_bootstrap_rpm_overrides(p)
    \/ Throws(p) \/ RpmUnpack(p) \/ RpmErase(p) \/ RpmReturns(p)
    \/ RestoreFile(p) \/ RestoreWarns(p) \/ RestoreDone(p)
    \/ activate_fedora_runtime(p) \/ RelinkShell(p)
    \/ FinalizeThrows(p) \/ FinalizeBootstrap(p)

Next == AllDone \/ \E p \in Procs : Start(p) \/ Step(p) \/ Kill(p)

Spec == Init /\ [][Next]_vars

-----------------------------------------------------------------------------
(* Properties.                                                             *)

\* run_goal reads the marker under the write lock, so no command is in
\* bootstrap mode once the base is ready: a second bootstrap would install
\* ordinary packages without their scriptlets.
OneBootstrap ==
    \A p \in Procs : pc[p] \in GoalPcs /\ boot[p] => ~marker

\* When RPM runs in bootstrap mode, the transaction was resolved with the
\* bootstrap flags, sysusers is off, every core file that exists is backed up
\* as run_goal found it, and all legacy directories are links.
BootstrapPrepared ==
    \A p \in Procs :
        pc[p] = "rpm" /\ boot[p] =>
            /\ txnFlags[p] = "bootstrap"
            /\ overrides[p]
            /\ \A f \in Files : before[p][f] \in {"absent", backup[f]}
            /\ \A d \in Dirs : link[d] = "link"

\* The marker is written last: the step that writes it finds the Fedora loader,
\* the four links and, where bash is installed, a shell that is bash, whatever
\* was killed or erased before. (A remove between a failed bootstrap and the
\* next may take bash and /usr/bin/sh with it; activate_fedora_runtime then
\* leaves the missing shell alone. And nothing is said of the time after: a
\* later remove may erase any of it, and the marker stays.)
PublishesBase ==
    ~marker /\ marker' =>
        /\ loader
        /\ \A d \in Dirs : link[d] = "link"
        /\ bash => sh = "bash"

MarkerMeansBase == [][PublishesBase]_vars

\* A bootstrap that ends by itself, with success or with any error, leaves
\* every core file it found as it was, unless it warned about a restore.
EndsIntact ==
    \A p \in Procs :
        /\ pc[p] \in GoalPcs /\ boot[p]
        /\ pc'[p] = "exit" /\ rc'[p] # Killed /\ ~warned'[p]
        => \A f \in Files : before[p][f] \in {"absent", core'[f]}

IdentityKept == [][EndsIntact]_vars

\* Every step of a bootstrap, the one that kills it included, leaves each core
\* file it found either in place or in the backup directory.
StaysRecoverable ==
    \A p \in Procs :
        pc[p] \in GoalPcs /\ boot[p] =>
            \A f \in Files : before[p][f] \in {"absent", core'[f], backup'[f]}

Recoverable == [][StaysRecoverable]_vars

\* A transaction that leaves the bootstrap path runs with the configured
\* flags: "If auto mode resolved entirely from Adava repositories, do not use
\* the Fedora bootstrap path."
OriginalFlagsOutsideBootstrap ==
    \A p \in Procs : pc[p] = "rpm" /\ ~boot[p] => txnFlags[p] = "original"

\* Whatever the commands do to the legacy paths, and whichever of them is
\* killed, each path goes through the steps MergedPaths allows.
Abstract == INSTANCE MergedPaths WITH Legacy <- Dirs, path <- link
ImplementsMergedPaths == Abstract!Spec
=============================================================================
