# A verification of AdavaLinux's package tools and installer

AdavaLinux is a small distribution whose own programs are a package command
built on libdnf5 (`tools/syspckg/main.cpp`), a standalone package command that
preceded it (`tools/syspckg-old/main.c`), an ncurses installer
(`tools/installer/`), and the scripts that build and boot the image. This
directory holds TLA+ models of the parts of it that change a machine's disk,
the TLC runs that check them, and proofs checked by TLAPS.

## The system

| part | state it owns | operations | what makes it hard |
|---|---|---|---|
| `syspckg` | core files, `bootstrap-backup`, legacy directories, `/usr/bin/sh`, the marker `fedora-base.ready`, the system repository's lock | install, remove, update; the first install bootstraps a Fedora base | several commands at once; RPM overwrites the distribution's own files; any step throws or is killed |
| installer wizard | the answers, two cursors, the scanned devices | one screen per answer, Esc goes back | devices come and go between screens; answers of an abandoned path stay |
| installer run | mounts, partition table, new root, boot loader | one sequence of about 25 commands | every command and unmount may fail, runs follow each other, power may fail |
| `syspckg`'s console | the terminal's last line, progress counters, two mutexes | log lines, spinners, download callbacks, questions | three threads on one terminal; objects that callbacks still point to; exceptions |
| standalone tool | manifests, saved remove hooks, files | install, update, remove, hooks, lists of packages | several packages in one command; hooks fail; removal of what was staged |
| kernel update and boot | `/boot`, `/etc/default/grub`, `grub.cfg`, kernel packages | `update --kernel`, `remove`, menu generation, the ramdisk's init | power may fail between any two file operations, and the machine has to boot then |
| image build, other scripts | none at run time beyond the booted system | run once, in sequence | little (see *Not modelled*) |

The installer calls `syspckg` on the live system and for the new root, and the
wizard hands its configuration to the run. The standalone tool keeps its own
database and does not meet libdnf5. What it leaves in `/boot` is read by the
menu generator, and the menu by the boot loader, which starts the ramdisk.

## Modules

**SyspckgGoal** models `main`, `prepare_base` and `run_goal`. Each process has a
program counter; the labels are the places between which another command can
run or a kill can strike: waiting for the lock, loading repositories, resolving,
confirming, emptying the backup directory, copying each core file, each legacy
directory (removal and link are two steps), download, the RPM run, restore per
file, activation of the loader and shell, the marker. `Catch` is the handler at
the end of `run_goal`. `before` and `warned` are history variables. What RPM does
is external: it unpacks over core files, the loader and bash before it returns
(`RpmUnpack`), and any command may erase them again (`RpmErase`), a `remove`
between a failed bootstrap and the next one included. The four directory links
belong to Fedora's `filesystem`, which the whole base requires; what RPM could do
to them is not modelled.

**MergedPaths** is the abstract specification of the usr-merge: each legacy path
is a directory, gone, the right link or a wrong one; a directory or a wrong link
goes, the right link comes and stays for good. **UsrMerge** is the merge of one
path at the level of files: `stack` holds the open `directory_iterator`s of
`merge_bootstrap_tree`, each entry is renamed, or copied and removed, or dropped
as a duplicate; everything may throw or be killed, and the next bootstrap walks
again over what is left. SyspckgGoal and UsrMerge both implement MergedPaths.

**SyspckgConsole** models one command and its terminal: the command's own thread,
the thread of the spinner that exists at the moment, and the thread in which
libdnf5 loads repositories and calls the logger and the download callbacks.
`console_mutex` is taken and released in steps of its own; what `state_mutex_`
guards is touched under it only and is one step. `terminal` says whether the
cursor stands behind a status line, and `misused` records a use of an object
after its destruction.

**InstallerDevices** names the block devices both parts of the installer tell
apart. **InstallerWizard** models `collect_config` in `ui.c`: `step` is the screen,
`Cursor` the clamping of a kept selection, `next_step_for_config` and
`previous_step_for_config` the two tables with their exceptions, `Hotplug` the
world between two scans. Strings are reduced to the classes validation tells
apart. Its specification is `WizardSpec`, of `WizardInit` and `WizardNext`, so that
one module can speak of the screens and of the run.

**InstallerRun** models `installer_run_install` in `install.c`. `mediaMounts`
and `rootMounts` are stacks, as mounts on one directory are; a failed unmount is
ignored as in the code, so a later step works on what is really on top, and the
log that `copy_log_to_target` writes after every run may land on any partition
that is still mounted there, or on the running system's own. `live` is the
partition of the running system, or none when it runs from memory; packages
installed on the live system go there. `Handed` is what the screens hand over.
`CommandFails`, `LivePackageFails`, `FormatFails`, `WaitFails`, `MkconfigFails` and
`BootloaderFails` are the early returns; grub2-install may fail with the loader
written. `PowerOff` is the loss of everything not synced, of any part of it, with
the loader in place or not.

**LegacyOrder** models `build_install_order`: the recursion of
`visit_install_plan` is a stack of frames. After a call returns, its caller
looks at the same dependency once more and finds it done; the code goes on
directly, to the same effect.

**LegacyInstall** models the three phases of `main` in `syspckg-old`, with
`remove_pkg_impl` as a called procedure (`removing` holds its argument and the
place it returns to). A package is a name and a version number whose order
stands for `compare_versions`; all versions of a name own the same paths, so
`files` has at most one complete version per name. The order of staging is *any*
order with the properties LegacyOrder establishes, which connects the two. An
install of several names and `update --all` are a parent process (`batch`) that
runs one command after the other (`batch.next` is its place in the list); either
of the two may be killed alone. The
kernel and system packages, whose versions the tool does not relate to each
other, are not among the names.

**KernelBoot** models `update --kernel` and `remove` for kernel packages down to
single file operations in `/boot` (`copy_file_contents`, `relink_boot_file`,
`write_default_grub`), the menu that `10_adavalinux` generates from `/boot`, and
the boot: the boot loader takes an entry whose files are there, and the init of
the ramdisk runs to `switch_root` or to the fallback shell. A version is a
sequence of tokens, numbers or words, with a mark whether it is canonical (numbers
without leading zeros, joined by dots): `compare_versions` is what it is in the
code, and of `sort -V`, which is external, only this is assumed, that it orders all
names and agrees with `compare_versions` on canonical ones (`SortAssumption`). A
menu is the set of its images with the one that comes first; the order of the
others is not told apart. `header` says whether a line of the menu before the
entries sets grub's own root, which `root_arg_from_file` would take for the
kernel's. `cut` is a history variable: the kernels in whose copying power was lost.
`grub.cfg` is `/boot/grub/grub.cfg`, which the tool writes and the packages
grub-bios and grub-efi read. The model starts with such a menu. The installer of
this repository writes `/boot/grub2/grub.cfg`, so on a system that it has set up
the first menu of the model stands for what an earlier package of grub has left in
`/boot/grub`.

`MC*` modules give the constants values. Definitions introduced with *Faulty
variant* are deliberately wrong versions of the definition after them; a
property that does not notice its variant would say nothing.

## Runs

| run | what it checks | size |
|---|---|---|
| goal_safety | two commands, two core files, two legacy directories, kills anywhere: `OneBootstrap`, `BootstrapPrepared`, `MarkerMeansBase`, `IdentityKept`, `Recoverable`; that it implements MergedPaths | 1.8M states |
| goal_flags | **violated**: a transaction that leaves the bootstrap path still runs with the bootstrap's flags | |
| usr_merge | every pair of trees over four paths, two bootstraps: `MergedAsDefined`, `NothingLost`, `UsrKept`, `MergeEnds`; that it implements MergedPaths | 450k |
| console | two repositories, retries, unplanned items, exceptions: `NotGarbled`, `NoDangling`, `ProgressConsistent`, `CommandEnds` | 334k |
| wizard_safety | `WizardTypeOK`, `TargetIsNotMedia`, `StartConfirmed`, `AccountsReady`; pressing only Esc leaves the wizard (`EscLeaves`) | 873k |
| install_safety | two runs on two disks and an optical drive: `EraseOnlyTarget`, `LiveTreesSafe`, `MediaAuthoritative`, `BootableIsComplete`; every run ends (`RunEnds`) | 1.2M |
| install_update | **violated**: an update never updates (`UpdateUpdates`) | |
| kernel_boot | three commands, four versions, a failure or power loss anywhere: `DoneMeansBootable`, `DefaultLoads`, `FallbackLoads`, `ToldTruth`, `BootEnds` | 762k |
| order_walk | all 9261 graphs of three packages with up to two dependencies: `DependencyFirst`, `EveryPlanOnce`, `CircularIsCycle`, `WalkEnds` | 55k |
| legacy_install | two commands, or the two children of one list, a failure or kill anywhere: `HooksAfterStaging`, `DoneMeansInstalled`, `DependenciesInstalled`, `BatchMeansAll`, `CommandEnds` | 231k |
| legacy_hook_payloads | **violated**: hooks run although another package's payload was taken away | |
| legacy_reinstall | **violated**: two installs in a row, without failures, as in the hook test; the second does not run the hook | |

Every module states its types (`TypeOK`, and `WizardTypeOK` in InstallerWizard). The
latter bounds the kept cursors by the lists they point into and is part of its
run; the others hold under the same configurations and are left out of the runs,
which spend their time on the properties above. All but that of SyspckgConsole
are proved, alone or as a conjunct of an inductive invariant; of SyspckgConsole
the proofs need only the types of what the loader counts (`RepoTypes`).

The violated runs state what a comment, a dialog or a test of the repository
says; `PROJECT.json` quotes the lines under `findings`.

*Bounds.* Two commands are enough for every pairwise race on the lock and the
marker, and for a command that follows a killed one; two files and two
directories make a loop that is cut in the middle. Two disks and one optical
drive give a target, a bystander and a medium; two runs let the second meet the
mounts of the first. The two disks can be exchanged for each other, so
MCInstallerRun begins with the running system on the first one or in memory, and
in the latter case takes one disk as the first target; a power loss before sync
takes nothing, one piece or everything from a partition (`FewLosses`). `MaxScan` and `MaxRuns` count rescans and runs,
`WaitAttempts` replaces the ten attempts of `wait_for_partitions`. Three packages
are the smallest set with a diamond-like sharing and a cycle that is not a
self-loop. The instance of LegacyInstall has dependencies with and without
versions and a cycle, and a protected name of which nothing is published; it
begins with nothing or with everything installed, so that `update --all` has two
children within the bound. The trees of UsrMerge have a file beside a directory
with two entries: a walk that descends, is cut inside and comes back; two
bootstraps let the second meet what the first left. Two repositories and two
transfers each let a late callback meet the next repository. The versions 6.1,
6.2, 6.2.1 and 6.2.rc1 have one that is a prefix of another, which is where a left
copy of the first falls between them, two that `compare_versions` and `sort -V`
order differently, and kernels with and without a ramdisk; three commands are an
update, a removal and an update again. The first menu has its own root= or header
only where something reads it (`MCSpec`). `MaxPolls` replaces the ten looks of
`wait_for_root`.

*Fairness.* `InstallerRun` and `LegacyInstall` assume weak
fairness of the steps of a started program: the operating system schedules it,
and the commands it waits for end. SyspckgGoal states no liveness: its commands
have no loop but over the core files and the links, and the lock goes with the
process. Starting a command, kills and power loss are
never fair. `InstallerWizard` assumes that a user who has begun to press Esc goes
on. `LegacyOrder` is a sequential function. UsrMerge assumes weak fairness of a
merge that was begun, KernelBoot of the ramdisk's script only. In SyspckgConsole
every thread is scheduled (weak fairness), and a thread that waits for
`console_mutex` gets it in the end (strong fairness): the only other thread that
takes it again and again, the spinner, sleeps 180 ms between two drawings. In
KernelBoot a machine with nothing to load stops in the boot loader, so deadlock
is not checked there; `FallbackLoads` says when this can be.

### What the kernel update leaves behind

The properties of KernelBoot hold with exceptions, each of them a state TLC
reaches. They are worth knowing:

- Power lost while an image is copied leaves `vmlinuz-<v>.syspckg-tmp.XXXXXX`.
  Everything that looks for `vmlinuz-*` takes it for a kernel newer than v
  (`main.c:2023`, `2545`): the next `update --kernel` to v says that the kernel is
  up to date. (`ToldTruth` says that nothing else has this effect: not a copy that
  fails, a removal or a failed hook.) `sort -V` in the menu generator even puts it
  above v.1, so after an update to v.1 the link `/boot/vmlinuz` is right and the
  default entry is the left copy. The same is true of a version with a word after
  a dot: with 6.2.rc1 in `/boot`, an update to 6.2.1 leaves 6.2.rc1 as the default.
- With no root= in `/etc/default/grub`, the root= is looked for in the old menu, in
  any line (`main.c:2643`). A header with `set root='hd0,msdos1'` gives an empty
  one; the update still says "Done", and the new entries end in the fallback shell.
- `initramfs-disk.gz` is unlinked before it is linked again (`main.c:2602`). In
  between, no entry without a ramdisk of its own can be loaded, which includes
  the kernel the system was installed with.
- Once it is a link, a removal of the kernel package it leads to leaves it
  dangling; if no other ramdisk with a version is there, the next update does
  not repair it and still says "Done".
- A removal does not generate the menu again, so the default entry may name the
  kernel that was removed.
- A removal that stops after its files are gone and before its manifest is makes
  the package count as installed: a later update to that version has nothing to
  do, or only configures the boot without it.

The tool never removes an old kernel by itself: `selector_base_without_version`
(`main.c:1726`) keeps kernel packages out of the search for an old version.

## Proofs

Every safety invariant and every action property of a passing run, and both
refinements, are proved for all values of the constants. The proofs have the same
form everywhere: an invariant that implies the property, one lemma per kind of
step, and a temporal step at the end. Where an argument goes by induction (on a
path, a list, a number of steps) it takes the least counterexample instead: a
nonempty set of naturals has a least element (`LeastNat` and the lemmas named
after it), and the provers see the contradiction there.

What is assumed of the constants is stated once, in the module that declares
them, and evaluated by TLC: `GoalAssumption`, `UsrMergeAssumption`,
`ConsoleAssumption`, `WizardAssumption`, `RunAssumption`, `OrderAssumption`,
`InstallAssumption`, `KernelBootAssumption` and `SortAssumption`. They say of what kind a constant
is, that a value which stands for "none" is not one of the others, that a set
is finite where the code counts it, that a set of paths has the directories of
its paths, and what `sort -V` does (see KernelBoot).

**SyspckgGoalProofs**: `TypeCorrect`, `OneBootstrapHolds`,
`BootstrapPreparedHolds`, `MarkerMeansBaseHolds`, `RecoverableHolds` and
`IdentityKeptHolds` for any set of commands and any number of core files and
legacy directories. `MarkerMeansBase` is about the step that writes the marker:
what it finds, whatever was killed or erased before. A later `remove` may erase the
base, and the marker stays; nothing in the code says otherwise. `IInv` joins the
types and for each command what it owns: it holds the lock
exactly while in the goal (`Holder`), its flags match its place (`Control`), the
copies made so far are those of the files it found (`Copies`), and the parts of
the base finished so far are in place (`Base`). None of the properties is
inductive alone: that the marker is absent in bootstrap mode rests on the lock,
and that a core file can be recovered on how far the two copy loops are.
Frame lemmas (`StepFrame`, `Others`) show that a step of one command does not
touch what another one owns. `MergedPathsImplemented` proves that SyspckgGoal
implements MergedPaths: of the steps only those of the link loop write to a
legacy path (`LinkWrites`), a directory only goes and a link is only made where
the path is free, and the invariant gives the types.

**UsrMergeProofs**: `NothingLostHolds`, `MergedAsDefinedHolds`, `UsrKeptHolds` and
`MergedPathsImplemented`, for trees of any depth, any order of their entries and
any number of cut merges. `IInv` says that the legacy tree stays a tree (an entry
has its directory), that the path is what the place of the walk needs
(`PathAtPc`), that the current entry is one of the directory on top of the stack
(`EntryAtPc`), and, entry by entry, that what left the legacy tree is below
`/usr` (`EntriesKept`). That the root is empty at the end of a walk needs the tree
shape: an entry deep below keeps its directories.

**SyspckgConsoleProofs**: `NotGarbledHolds`, `NoDanglingHolds` and
`ProgressConsistentHolds`. `ControlInv` holds the three threads together: which
call the command is in (`CallsKept`), what the spinner's thread may do then
(`WorkerKept`), that the activity exists while the loader can call it
(`ActivityKept`), and who has written on the last line (`LineKept`). `ProgressInv`
is about the counters: a repository is dropped, fetched or loaded once
(`CourseKept`), only planned items of repositories that did not fail are processed
(`ItemsKept`), and the counters are cardinalities (`CountsKept`).

**InstallerProofs**, the run: `TypeCorrect`, `LiveTreesSafeHolds`,
`MediaAuthoritativeHolds`, `EraseOnlyTargetHolds` and `BootableIsCompleteHolds`, for
any devices and any number of runs. `MountInv` says what lies on top of the two
mount stacks: the selected media (`MediaAuthoritative`), the target
(`TargetOnTop`), which the checks have accepted (`Chosen`); left-over mounts of
earlier runs are below. `IInv` adds what the run has written so far
(`PiecesKept`, `TableKept`) and that the boot loader comes last (`LoaderLast`).
`EraseOnlyTarget` lets other disks gain only the log and the packages of the
running system; `BootableIsComplete` has one exception, a power loss before sync
(`result = "cut"`).
`StepKinds` sorts the many steps first by what they can change (the media, the
target, the mounts, the end of the run), so that each invariant is shown once for a
kind of steps.
The screens: `WizardTypeCorrect`, `TargetIsNotMediaHolds`, `StartConfirmedHolds` and
`AccountsReadyHolds` from `WizardInv`, which adds that a media is chosen from the
disk screen on (`MediaChosen`) and that the texts behind the user are accepted ones
(`TextsAccepted`), although a user who goes back past them may choose another
action or another disk. `HandedOver` joins the two parts: whenever the screens
start an installation, the answers are in `Handed`, the configurations the model
of the run begins with. The theorems on the run therefore cover every run the
screens can start.

**LegacyOrderProofs**: `DependencyFirstHolds`, `EveryPlanOnceHolds` and
`CircularIsCycleHolds` for any number of packages and any dependency lists.
`DependencyFirst` needs to know that the plans in the order are exactly those marked
done (`OrderIsDone`), that active calls are for different plans marked as being
visited (`ActiveOnce`), and that a call has gone only past dependencies that are done
(`PassedAreDone`); `EveryPlanOnce` needs that the outer loop has gone only past
done plans. `CycleInv` adds that the active calls form a chain of dependencies, so
a plan met while being visited closes a cycle; conversely an order with
dependencies first leaves no room for a cycle, by the least position on it.
`ReachesIs` shows that the recursive function `Reaches`, the reference, holds the
plans at the end of a chain of dependencies.

**LegacyStagingProofs**: `TypeCorrect` and `HooksAfterStagingHolds`.
**LegacyInstallProofs**, which goes on from there: `DoneMeansInstalledHolds`,
`DependenciesInstalledHolds` and `BatchMeansAllHolds`, for any names, versions,
dependency lists and lists of packages. The invariants are added one
at a time: where a command can be and what its variables are then, calls of
`remove_pkg_impl` included (`ControlKept`); the plans and their order
(`PlansKept`); what is staged is on disk and listed (`StagedKept`); what an
installation has listed stays (`ListedKept`); every planned package has its
dependencies planned, installed or still in the queue (`QueueKept`), which is why
cycles do no harm; what a child of a list did (`ChildKept`); and what the children
before it left (`BatchKept`): a later child of the same list does not take away
what an earlier one installed, or the list ends as failed.

**KernelBootProofs**: `DoneMeansBootableHolds`, `DefaultLoadsHolds`,
`FallbackLoadsHolds` and `ToldTruthHolds`, for any versions and any number of
commands. `IInv` has the kernel of the installation, which no command is about
(`FirstKept`), the files the menu and the links name (`FilesKept`), that every other
image is older than the one of the update (`UpdateIsNewest`), that a left copy is
one of a power loss (`LeftOver`), and how far the boot configuration is
(`BootConfigured`). It rests on lemmas about `compare_versions`: it is
antisymmetric and transitive on the tokens of all names (`CompareSwap`,
`CompareTrans`; names that differ only in what joins their tokens compare as
equal), and `latest_boot_version` returns the newest name in whatever order the
directory is read (`LatestFacts`). A menu has a first entry (`NewestExists`).

Only model-checked: the liveness properties (`MergeEnds`,
`CommandEnds`, `EscLeaves`, `RunEnds`, `BootEnds`, `WalkEnds`), which need fairness,
and the properties of the violated runs, which do not hold.

## Not modelled

- Query commands of `syspckg` change nothing; `clean` removes libdnf5's cache
  without the lock, and what libdnf5 does then is outside this repository.
- `update --system`, `download` and `list` of the standalone tool: the first is an
  ordinary update with another expected version, the others install nothing. Two
  of its commands at once: it has no lock and promises nothing. An install of
  several names does not hand `--no-deps` to its children (`main.c:2950-2969`),
  although the comment before it says "the same install options"; the model does
  as the code does.
- Drawing, menus, text entry and log windows of the installer; the pipes of its
  child processes. The installer cannot notice that a disk was exchanged after
  the confirmation, that more than 32 devices are present, or that `gzip` failed
  in a pipeline, and the models do not tell these apart either.
- Empty directories, which the standalone tool removes shortest first, so that a
  parent stays.
- Boot scripts of the root file system, the udhcpc script and the image build: run
  in sequence, without state that a later step relates to.
- Vendored C headers, locale and character map data below `filesforlinux/`, about
  four fifths of the lines of the repository; there is nothing in them to model.

`PROJECT.json` gives the reason part by part and lists the hazards no property
covers.

## Plan

1. Compose: the run with `syspckg`; an abstract installation (untouched, erased,
   complete) that InstallerRun implements. `HandedOver` joins wizard and run.
2. Model: account files as operators checked against reference definitions.
