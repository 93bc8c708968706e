----------------------------- MODULE KernelBoot -----------------------------
(***************************************************************************)
(* `update --kernel` of the standalone tool (tools/syspckg-old/main.c), the *)
(* boot menu it has generated (etc/grub.d/10_adavalinux), and the boot of  *)
(* the machine through the initial ramdisk (initramfs-disk/init). Any step *)
(* of the command may fail, and the machine may lose power at any time.    *)
(*                                                                         *)
(* A version is what is_safe_version accepts: numbers and words joined by  *)
(* dots, dashes and underscores. It is abstracted to the sequence of its   *)
(* tokens, a word being a negative number, and to whether it is canonical: *)
(* numbers without leading zeros, joined by dots. A copy that was cut      *)
(* short leaves vmlinuz-<version>.syspckg-tmp.XXXXXX in /boot, and this is *)
(* the name of a kernel image to everything that looks for vmlinuz-*.      *)
(***************************************************************************)
EXTENDS Integers, Sequences, FiniteSets, FiniteSetsExt, Functions

CONSTANTS
    Versions,       \* kernel versions, [tokens, canonical]
    WithInitrd,     \* those whose package has an initial ramdisk of its own
    sort_V(_, _),   \* the first comes before the second in the menu
    MaxCommands,    \* bound: commands of the package tool
    MaxPolls        \* how often wait_for_root looks for the device

syspckg == -3               \* .syspckg-tmp.XXXXXX: words after the version
Left(v) == [tokens |-> Append(v.tokens, syspckg), canonical |-> FALSE]
Names   == Versions \cup {Left(v) : v \in Versions}
None    == [tokens |-> <<>>, canonical |-> FALSE]           \* no such file
Plain   == [tokens |-> <<syspckg>>, canonical |-> FALSE]    \* a file, not a link

ASSUME KernelBootAssumption ==
    /\ Versions \subseteq [tokens : Seq(Int \ {syspckg}) \ {<<>>}, canonical : BOOLEAN]
    /\ WithInitrd \subseteq Versions
    /\ MaxCommands \in Nat /\ MaxPolls \in Nat

-----------------------------------------------------------------------------
(* Versions.                                                               *)

\* The first token that differs decides, a number over a word, or else the
\* number of tokens.
CompareTokens(a, b) ==
    LET differ == {k \in 1..Min({Len(a), Len(b)}) : a[k] # b[k]} IN
    IF differ = {} THEN Len(a) - Len(b) ELSE a[Min(differ)] - b[Min(differ)]

\* What joins the tokens does not count.
compare_versions(a, b) == CompareTokens(a.tokens, b.tokens)

\* sort -V orders all names, and orders canonical ones like compare_versions.
\* With words and dashes it goes its own ways: 6.2.rc1 is over 6.2.1, and 6.2.0
\* over 6.2-1.
ASSUME SortAssumption ==
    /\ \A a, b \in Names : a # b => sort_V(a, b) \/ sort_V(b, a)
    /\ \A a, b, c \in Names : sort_V(a, b) /\ sort_V(b, c) => sort_V(a, c)
    /\ \A a, b \in Names :
          a.canonical /\ b.canonical /\ sort_V(a, b) => compare_versions(a, b) > 0

-----------------------------------------------------------------------------

\* root=, absent, without a value, or of either form.
Roots == {"none", "empty", "device", "uuid"}

VARIABLES
    images,     \* vmlinuz-* in /boot
    initrds,    \* initramfs-disk-*.gz in /boot
    vmlinuz,    \* where the link points
    initrd,     \* where initramfs-disk.gz points
    listed,     \* kernel packages with a manifest
    defaults,   \* the root= in /etc/default/grub
    standard,   \* the standard generators are executable
    menu,       \* grub.cfg
    pc, new, todo,      \* the command: its place, version, files to copy
    victim,     \* the package it removes
    commands,
    first,      \* history: the kernel the system was installed with
    removed,    \* history: kernels whose files a removal has taken away
    torn,       \* history: a removal ended before the manifest was gone
    cut,        \* history: kernels in whose copying power was lost
    machine,    \* "grub", a place of the ramdisk's init, "shell" or "up"
    device,     \* the root device has appeared
    polls

files   == <<images, initrds, vmlinuz, initrd, listed>>
grub    == <<defaults, standard, menu>>
args    == <<new, victim, commands, first>>
command == <<pc, todo, args>>
ghost   == <<removed, torn, cut>>
boot    == <<machine, device, polls>>
vars    == <<files, grub, command, ghost, boot>>

CommandPcs == {"idle", "remove", "copy", "copying", "hook", "vmlinuz", "link_vmlinuz",
               "initrd", "link_initrd", "defaults", "generators", "mkconfig", "done"}
InitPcs    == {"essential", "cmdline", "resolve", "wait", "mount", "check", "move"}

TypeOK ==
    /\ images \subseteq Names /\ initrds \subseteq Versions
    /\ vmlinuz \in Names \cup {None} /\ initrd \in Versions \cup {None, Plain}
    /\ listed \subseteq Versions
    /\ defaults \in Roots /\ standard \in BOOLEAN
    /\ menu \in [images : SUBSET Names, latest : Names, own : SUBSET Versions,
                root : Roots, header : BOOLEAN, standard : BOOLEAN]
    /\ pc \in CommandPcs /\ todo \subseteq {"image", "initrd"}
    /\ new \in Versions /\ victim \in Versions
    /\ commands \in 0..MaxCommands
    /\ first \in Versions
    /\ removed \subseteq Versions /\ torn \in BOOLEAN /\ cut \subseteq Versions
    /\ machine \in InitPcs \cup {"grub", "shell", "up"}
    /\ device \in BOOLEAN /\ polls \in 0..MaxPolls

-----------------------------------------------------------------------------
(* The newest version in /boot.                                            *)

\* Faulty variant of Look: the entry that is read last wins.
LookLast(latest, name) == name

\* One entry of the directory, in the loop of latest_boot_version.
Look(latest, name) ==
    IF latest = None \/ compare_versions(name, latest) > 0 THEN name ELSE latest

\* The entries in the order given: what latest is after each of them, and at the
\* end.
Scan(order) ==
    LET latest[k \in 0..Len(order)] ==
            IF k = 0 THEN None ELSE Look(latest[k - 1], order[k])
    IN  latest[Len(order)]

\* What a scan may return: readdir gives the entries in any order.
latest_boot_version(names) ==
    {Scan(order) : order \in Bijection(1..Cardinality(names), names)}

-----------------------------------------------------------------------------
(* update --kernel, and remove.                                            *)

Running == machine = "up" /\ pc = "idle" /\ commands < MaxCommands

Goto(label) == pc' = label /\ UNCHANGED <<todo, args>>

\* The process ends, and its variables with it.
Exit == /\ pc' = "idle" /\ todo' = {} /\ new' = first /\ victim' = first
        /\ UNCHANGED <<commands, first>>

Files(v) == {"image"} \cup (IF v \in WithInitrd THEN {"initrd"} ELSE {})

\* resolve_latest_kernel_update, with the newest version on the server.
UpToDate(remote) ==
    \E local \in latest_boot_version(images) :
        local # None /\ compare_versions(remote, local) <= 0

SayUpToDate(remote) ==
    /\ Running /\ UpToDate(remote)
    /\ commands' = commands + 1
    /\ UNCHANGED <<files, grub, pc, todo, new, victim, first, ghost, boot>>

\* Faulty variant of BeginUpdate: the version that is there is installed again.
BeginUpdateAgain(remote) ==
    /\ Running
    /\ \A local \in latest_boot_version(images) : compare_versions(remote, local) >= 0
    /\ remote \notin listed
    /\ commands' = commands + 1 /\ new' = remote /\ todo' = Files(remote)
    /\ pc' = "copy"
    /\ UNCHANGED <<files, grub, victim, first, ghost, boot>>

\* find_installed_package_for_update passes kernel packages over, so the ones
\* that are installed stay.
BeginUpdate(remote) ==
    /\ Running /\ ~UpToDate(remote)
    /\ remote \notin listed
    /\ commands' = commands + 1 /\ new' = remote /\ todo' = Files(remote)
    /\ pc' = "copy"
    /\ UNCHANGED <<files, grub, victim, first, ghost, boot>>

\* A package with a manifest counts as installed, whether its files are there
\* or not: the command has nothing to do, or only the grub package, and the
\* boot is configured after that.
UpdateListed(remote) ==
    /\ Running /\ ~UpToDate(remote)
    /\ remote \in listed
    /\ commands' = commands + 1
    /\ \/ UNCHANGED <<pc, new, standard>>
       \/ pc' = "vmlinuz" /\ new' = remote /\ standard' = TRUE
    /\ UNCHANGED <<files, defaults, menu, todo, victim, first, ghost, boot>>

BeginRemove(v) ==
    /\ Running /\ v \in listed
    /\ commands' = commands + 1
    /\ pc' = "remove" /\ victim' = v
    /\ UNCHANGED <<files, grub, todo, new, first, ghost, boot>>

\* remove_pkg_impl unlinks the files, runs the hook and unlinks the manifest.
UnlinkFile ==
    /\ pc = "remove"
    /\ \/ victim \in images  /\ images'  = images  \ {victim} /\ UNCHANGED initrds
       \/ victim \in initrds /\ initrds' = initrds \ {victim} /\ UNCHANGED images
    /\ removed' = removed \cup {victim}
    /\ UNCHANGED <<vmlinuz, initrd, listed, grub, command, torn, cut, boot>>

UnlinkManifest ==
    /\ pc = "remove" /\ victim \notin images \cup initrds
    /\ listed' = listed \ {victim}
    /\ Exit
    /\ UNCHANGED <<images, initrds, vmlinuz, initrd, grub, ghost, boot>>

\* copy_file_contents writes the image under its temporary name first.
CopyImage ==
    /\ pc = "copy" /\ "image" \in todo
    /\ images' = images \cup {Left(new)}
    /\ Goto("copying")
    /\ UNCHANGED <<initrds, vmlinuz, initrd, listed, grub, ghost, boot>>

RenameImage ==
    /\ pc = "copying"
    /\ images' = (images \ {Left(new)}) \cup {new}
    /\ todo' = todo \ {"image"} /\ pc' = "copy"
    /\ UNCHANGED <<initrds, vmlinuz, initrd, listed, grub, args, ghost, boot>>

\* The temporary name of a ramdisk does not end in .gz and is never found.
CopyInitrd ==
    /\ pc = "copy" /\ "initrd" \in todo
    /\ initrds' = initrds \cup {new}
    /\ todo' = todo \ {"initrd"}
    /\ UNCHANGED <<images, vmlinuz, initrd, listed, grub, pc, args, ghost, boot>>

\* The package that target_grub_package names is staged with the kernel, unless
\* it is installed; its generators come executable.
WriteManifest ==
    /\ pc = "copy" /\ todo = {}
    /\ standard' \in {standard, TRUE}
    /\ listed' = listed \cup {new} /\ removed' = removed \ {new}
    /\ Goto("hook")
    /\ UNCHANGED <<images, initrds, vmlinuz, initrd, defaults, menu, torn, cut, boot>>

HookSucceeds ==
    /\ pc = "hook"
    /\ Goto("vmlinuz")
    /\ UNCHANGED <<files, grub, ghost, boot>>

\* The package is removed again.
HookFails ==
    /\ pc = "hook"
    /\ pc' = "remove" /\ victim' = new
    /\ UNCHANGED <<files, grub, todo, new, commands, first, ghost, boot>>

\* relink_boot_file: unlink, then symlink.
UnlinkVmlinuz ==
    /\ pc = "vmlinuz"
    /\ vmlinuz' = None
    /\ Goto("link_vmlinuz")
    /\ UNCHANGED <<images, initrds, initrd, listed, grub, ghost, boot>>

LinkVmlinuz ==
    /\ pc = "link_vmlinuz"
    /\ vmlinuz' \in latest_boot_version(images)
    /\ Goto(IF initrds = {} THEN "defaults" ELSE "initrd")
    /\ UNCHANGED <<images, initrds, initrd, listed, grub, ghost, boot>>

UnlinkInitrd ==
    /\ pc = "initrd"
    /\ initrd' = None
    /\ Goto("link_initrd")
    /\ UNCHANGED <<images, initrds, vmlinuz, listed, grub, ghost, boot>>

LinkInitrd ==
    /\ pc = "link_initrd"
    /\ initrd' \in latest_boot_version(initrds)
    /\ Goto("defaults")
    /\ UNCHANGED <<images, initrds, vmlinuz, listed, grub, ghost, boot>>

\* root_arg_from_file takes the first root= of the menu, and its value up to a
\* quote: a line of the header that reads set root='hd0,msdos1' gives root= and
\* nothing else.
root_arg_of_menu == IF menu.header THEN "empty" ELSE menu.root

\* write_default_grub keeps the root= that is there or takes that of the old
\* menu, and replaces the file by a rename.
write_default_grub ==
    /\ pc = "defaults"
    /\ defaults' = IF defaults # "none" THEN defaults ELSE root_arg_of_menu
    /\ defaults' # "none"
    /\ Goto("generators")
    /\ UNCHANGED <<files, standard, menu, ghost, boot>>

disable_standard_grub_generators ==
    /\ pc = "generators"
    /\ standard' = FALSE
    /\ Goto("mkconfig")
    /\ UNCHANGED <<files, defaults, menu, ghost, boot>>

Newest == CHOOSE name \in images : \A other \in images \ {name} : sort_V(name, other)

\* Faulty variant of Generated: every kernel is given a ramdisk of its own.
GeneratedOwn ==
    [images |-> images, latest |-> Newest, own |-> images,
     root |-> defaults, header |-> menu.header, standard |-> standard]

\* 10_adavalinux: an entry for every image, those of the newest on top; an
\* entry has the ramdisk of its kernel if there is one, and initramfs-disk.gz
\* otherwise. The header is the one that 00_header always writes on this
\* machine.
Generated ==
    [images |-> images, latest |-> Newest, own |-> initrds \cap images,
     root |-> defaults, header |-> menu.header, standard |-> standard]

run_grub_mkconfig ==
    /\ pc = "mkconfig"
    /\ menu' = Generated
    /\ Goto("done")
    /\ UNCHANGED <<files, defaults, standard, ghost, boot>>

Return ==
    /\ pc = "done"
    /\ Exit
    /\ UNCHANGED <<files, grub, ghost, boot>>

\* Faulty variant of CommandFails: the temporary file is left behind.
CommandFailsUnclean ==
    /\ pc \notin {"idle", "done"}
    /\ standard' \in (IF pc \in {"copy", "copying"} THEN {standard, TRUE} ELSE {standard})
    /\ torn' = (torn \/ pc = "remove")
    /\ Exit
    /\ UNCHANGED <<files, defaults, menu, removed, cut, boot>>

\* A step fails; copy_file_contents unlinks its temporary file, and the grub
\* package is staged even if the kernel was not.
CommandFails ==
    /\ pc \notin {"idle", "done"}
    /\ standard' \in (IF pc \in {"copy", "copying"} THEN {standard, TRUE} ELSE {standard})
    /\ images' = IF pc = "copying" THEN images \ {Left(new)} ELSE images
    /\ torn' = (torn \/ pc = "remove")
    /\ Exit
    /\ UNCHANGED <<initrds, vmlinuz, initrd, listed, defaults, menu, removed, cut, boot>>

-----------------------------------------------------------------------------
(* Booting.                                                                *)

InitrdOf(name) == IF name \in menu.own THEN name ELSE initrd

\* grub finds the files of an entry, and the image is whole.
Loadable(name) ==
    /\ name \in images \cap Versions
    /\ InitrdOf(name) \in initrds \cup {Plain}

Disk == <<files, grub, command, ghost>>

\* The default entry, or another one the user picks.
Load ==
    /\ machine = "grub"
    /\ \E name \in menu.images : Loadable(name)
    /\ machine' = "essential"
    /\ UNCHANGED <<Disk, device, polls>>

At(place, next) == machine = place /\ machine' = next /\ UNCHANGED <<Disk, device, polls>>

panic_shell(place) == At(place, "shell")

mount_essential_fs == At("essential", "cmdline") \/ panic_shell("essential")

parse_cmdline ==
    \/ menu.root \notin {"none", "empty"} /\ At("cmdline", "resolve")
    \/ menu.root \in {"none", "empty"} /\ panic_shell("cmdline")

\* A device node is taken as it is; blkid has to find a UUID at once.
resolve_root_spec ==
    \/ (menu.root = "device" \/ device) /\ At("resolve", "wait")
    \/ menu.root = "uuid" /\ panic_shell("resolve")

\* Faulty variant of wait_for_root: the loop does not count.
WaitUncounted ==
    /\ machine = "wait"
    /\ machine' = IF device THEN "mount" ELSE "wait"
    /\ UNCHANGED <<Disk, device, polls>>

\* A look and a second of sleep, again and again, but not for ever.
wait_for_root ==
    /\ machine = "wait"
    /\ IF ~device /\ polls < MaxPolls
       THEN polls' = polls + 1 /\ UNCHANGED machine
       ELSE machine' = (IF device THEN "mount" ELSE "shell") /\ polls' = 0
    /\ UNCHANGED <<Disk, device>>

mount_root == At("mount", "check") \/ panic_shell("mount")

\* /newroot/sbin/init is there.
CheckInit == At("check", "move") \/ panic_shell("check")

\* move_mounts_to_newroot and switch_root.
SwitchRoot == At("move", "up") \/ panic_shell("move")

\* The kernel finds the root device.
Appear ==
    /\ machine \in InitPcs /\ ~device
    /\ device' = TRUE
    /\ UNCHANGED <<Disk, machine, polls>>

\* Power is lost or the machine restarted; nothing of a command goes on.
Restart ==
    /\ machine # "grub"
    /\ machine' = "grub" /\ device' = FALSE /\ polls' = 0
    /\ torn' = (torn \/ pc = "remove")
    /\ cut' = IF pc = "copying" THEN cut \cup {new} ELSE cut
    /\ Exit
    /\ UNCHANGED <<files, grub, removed>>

-----------------------------------------------------------------------------
\* As an installation leaves it: one kernel, initramfs-disk.gz as a file. The
\* administrator may have edited what grub is given.
Init ==
    /\ first \in Versions /\ new = first /\ victim = first
    /\ images = {first} /\ vmlinuz = first
    /\ initrds = {} /\ initrd = Plain /\ listed = {}
    /\ defaults \in Roots \ {"empty"} /\ standard = FALSE
    /\ \E root \in Roots \ {"empty"}, header \in BOOLEAN :
        menu = [images |-> {first}, latest |-> first, own |-> {}, root |-> root,
                header |-> header, standard |-> FALSE]
    /\ pc = "idle" /\ todo = {} /\ commands = 0
    /\ removed = {} /\ torn = FALSE /\ cut = {}
    /\ machine = "grub" /\ device = FALSE /\ polls = 0

Command ==
    \/ UnlinkFile \/ UnlinkManifest
    \/ CopyImage \/ RenameImage \/ CopyInitrd \/ WriteManifest
    \/ HookSucceeds \/ HookFails
    \/ UnlinkVmlinuz \/ LinkVmlinuz \/ UnlinkInitrd \/ LinkInitrd
    \/ write_default_grub \/ disable_standard_grub_generators \/ run_grub_mkconfig
    \/ Return \/ CommandFails

Ramdisk ==
    \/ mount_essential_fs \/ parse_cmdline \/ resolve_root_spec \/ wait_for_root
    \/ mount_root \/ CheckInit \/ SwitchRoot

Next ==
    \/ \E v \in Versions :
        SayUpToDate(v) \/ BeginUpdate(v) \/ UpdateListed(v) \/ BeginRemove(v)
    \/ Command \/ Ramdisk \/ Load \/ Appear \/ Restart

Spec == Init /\ [][Next]_vars

\* The init script runs as long as the machine has power.
FairSpec == Spec /\ WF_vars(Ramdisk)

-----------------------------------------------------------------------------
(* Properties.                                                             *)

\* However the directory is read and whatever earlier commands left behind,
\* configure_kernel_update_boot ends with /boot/vmlinuz on the newest image, an
\* entry for every image, a root= for the ramdisk and no standard generators.
\* The newest image is the one of this update, unless a removal that was cut
\* short has left its manifest without its files. It is the default entry if
\* sort -V agrees with compare_versions, which is not sure when the name of
\* either is not canonical: a copy that was cut short, or a version like
\* 6.2.rc1, may come first in the menu. The root= has a value unless it was
\* looked for in a menu whose header sets grub's own root. Every entry of a
\* whole image loads, unless no kernel has a ramdisk of its own any more and
\* initramfs-disk.gz was a link.
DoneMeansBootable ==
    pc = "done" =>
        /\ \A name \in images : compare_versions(vmlinuz, name) >= 0
        /\ vmlinuz = new \/ torn
        /\ menu.images = images
        /\ menu.latest.canonical /\ vmlinuz.canonical => menu.latest = vmlinuz
        /\ menu.root # "none" /\ ~menu.standard
        /\ menu.root = "empty" => menu.header
        /\ initrds # {} \/ initrd = Plain =>
               \A name \in menu.images \cap Versions : Loadable(name)

\* Whatever is interrupted, grub can load the default entry, except in four
\* cases: its image is a copy that was cut short; its kernel or its ramdisk was
\* taken away by a removal; and initramfs-disk.gz is missing between unlink and
\* symlink.
DefaultLoads ==
    LET name == menu.latest IN
    \/ Loadable(name)
    \/ name \notin Versions
    \/ name \in removed
    \/ InitrdOf(name) \in removed \cup {None}

\* The kernel the system was installed with has no manifest and is never taken
\* for an old version: it stays in /boot and in the menu, and can be loaded to
\* fall back on unless initramfs-disk.gz is missing or leads to a ramdisk that a
\* removal has taken away. (Then nothing may be left to load, and the machine
\* stops in grub.)
FallbackLoads ==
    /\ first \in menu.images
    /\ Loadable(first) \/ (first \in images /\ initrd \in removed \cup {None})

\* "Kernel is up to date" is said only if a whole image that is not older is
\* there, in whatever order the directory is read, unless power was lost while
\* an image was copied: copies that fail, removals and failed hooks leave nothing
\* that is taken for a kernel.
WholeImage(remote) ==
    \E name \in images :
        /\ compare_versions(remote, name) <= 0
        /\ name \in Versions \/ \E v \in cut : name = Left(v)

ToldTruth == [][\A v \in Versions : SayUpToDate(v) => WholeImage(v)]_vars

\* Every boot ends in the real root or in the fallback shell (or with another
\* restart): wait_for_root gives up.
BootEnds == machine \in InitPcs ~> machine \notin InitPcs
=============================================================================
