--------------------------- MODULE LegacyInstall ---------------------------
(***************************************************************************)
(* The commands install, update <name> and remove of the standalone        *)
(* package tool (tools/syspckg-old/main.c): planning, extraction, staging, *)
(* hooks, removal of old versions and of packages whose hook failed; and   *)
(* install with several names and update --all, which run the tool once    *)
(* for each package. Every external step may fail and a process may be     *)
(* killed between any two.                                                 *)
(*                                                                         *)
(* A package is <<name, version>>; a selector is the same with version 0   *)
(* when none is written. All versions of a name own the same paths.        *)
(***************************************************************************)
EXTENDS Integers, Sequences, FiniteSets, FiniteSetsExt, Functions

CONSTANTS
    Names,          \* package base names
    MaxVersion,     \* versions of a name that will ever be published
    Unpublished,    \* names of which none will be
    DepGraphs,      \* dependency lists of all packages, one per instance
    Hooked,         \* names whose packages bring a remove.sh
    Protected,      \* names is_packager_pkg_name knows
    Lists,          \* what is given to an install of several packages
    MaxCommands     \* commands run one after the other, children included

Packages == Names \X (1..MaxVersion)
Selectors == Names \X (0..MaxVersion)

ASSUME InstallAssumption ==
    /\ Names # {}
    /\ MaxVersion \in Nat \ {0}
    /\ MaxCommands \in Nat
    /\ DepGraphs \subseteq [Packages -> Seq(Selectors)]
    /\ Hooked \subseteq Names /\ Protected \subseteq Names
    /\ Unpublished \subseteq Names
    /\ Lists \subseteq Seq(Selectors)

Base(p) == p[1]
Version(p) == p[2]

\* A selector without a package behind it.
Nothing == <<"none", 0>>

VARIABLES
    deps,       \* DEPENDS of every package
    latest,     \* newest published version of every name, 0 if there is none
    listed,     \* packages with a manifest
    saved,      \* packages with a saved remove hook
    files,      \* version whose payload is complete on disk, 0 if none is
    cmd,        \* the command: operation, selector, options
    pc,         \* where it stands
    queue,      \* selectors planned and to be planned, or packages to remove
    queue_idx,
    plans,      \* sequence of plans
    missing,    \* selectors that could not be resolved
    order,      \* plans to install, dependencies first
    at,         \* the plan of order being staged, or whose hook is run
    hooked,     \* packages whose install hook succeeded in this command
    errors,     \* install_errors > 0
    removing,   \* package remove_pkg_impl works on, and where it returns to
    rc,         \* what the last command returned
    commands,   \* commands started
    batch       \* the process that runs one command for each of a list

disk == <<listed, saved, files>>
plan == <<queue, queue_idx, plans, missing>>
world == <<deps, latest, commands, batch>>
progress == <<order, at, hooked, errors>>
vars == <<world, disk, plan, progress, cmd, pc, removing, rc>>

Operations == {"install", "update", "remove"}

Plan == [selector : Selectors, package : Packages, installed : BOOLEAN,
         old : Packages \cup {Nothing}]

\* Steps a command is at; the last three belong to remove_pkg_impl.
Steps == {"idle", "plan", "confirm", "extract", "order", "stage", "copy",
          "manifest", "save", "cache", "hook", "recache", "remove",
          "unlink", "remove_hook", "unlist"}

TypeOK ==
    /\ deps \in [Packages -> Seq(Selectors)]
    /\ latest \in [Names -> 0..MaxVersion]
    /\ listed \subseteq Packages /\ saved \subseteq Packages
    /\ files \in [Names -> 0..MaxVersion]
    /\ cmd \in [op : Operations \cup {"none"}, selector : Selectors,
                with_deps : BOOLEAN, no_deps : BOOLEAN]
    /\ pc \in Steps
    /\ queue \in Seq(Selectors) /\ queue_idx \in 1..(Len(queue) + 1)
    /\ plans \in Seq(Plan)
    /\ missing \subseteq Selectors
    /\ order \in Seq(Plan) /\ at \in 1..(Len(order) + 1)
    /\ hooked \subseteq Packages
    /\ errors \in BOOLEAN
    /\ removing \in [package : Packages \cup {Nothing},
                     back : {"none", "remove", "copy", "stage", "hook"}]
    /\ rc \in {"none", "ok", "nothing", "cancelled", "failed", "killed"}
    /\ commands \in 0..MaxCommands
    /\ batch \in [op : {"none", "install", "update"}, all : Seq(Selectors),
                  next : Nat, failed : BOOLEAN, declined : BOOLEAN,
                  rc : {"none", "ok", "failed", "killed"}]
    /\ batch.next \in 1..(Len(batch.all) + 1)

NoBatch == [op |-> "none", all |-> <<>>, next |-> 1, failed |-> FALSE,
            declined |-> FALSE, rc |-> "none"]
NoCommand == [op |-> "none", selector |-> CHOOSE s \in Selectors : TRUE,
              with_deps |-> FALSE, no_deps |-> FALSE]
NotRemoving == [package |-> Nothing, back |-> "none"]

\* Nothing is installed, or version 1 of all that is published.
Init ==
    /\ deps \in DepGraphs
    /\ latest \in {l \in [Names -> 0..1] : \A n \in Unpublished : l[n] = 0}
    /\ listed \in {{}, {<<n, 1>> : n \in {k \in Names : latest[k] = 1}}}
    /\ saved = {p \in listed : Base(p) \in Hooked}
    /\ files = [n \in Names |-> IF <<n, 1>> \in listed THEN 1 ELSE 0]
    /\ cmd = NoCommand
    /\ pc = "idle"
    /\ queue = <<>> /\ queue_idx = 1 /\ plans = <<>> /\ missing = {}
    /\ order = <<>> /\ at = 1 /\ hooked = {} /\ errors = FALSE
    /\ removing = NotRemoving
    /\ rc = "none"
    /\ commands = 0
    /\ batch = NoBatch

-----------------------------------------------------------------------------
(* Helpers.                                                                *)

\* resolve_latest_installed: the newest listed version of a name.
Installed(n) ==
    LET mine == {p \in listed : Base(p) = n}
    IN  IF mine = {} THEN Nothing
        ELSE CHOOSE p \in mine : \A q \in mine : Version(q) <= Version(p)

\* find_installed_package_for_update, which does not look for the tool itself.
InstalledFor(p) == IF Base(p) \in Protected THEN Nothing ELSE Installed(Base(p))

\* resolve_pkg_archive_path: the written version, or the newest published one.
Resolve(s) ==
    IF Version(s) = 0 THEN <<Base(s), latest[Base(s)]>> ELSE s

Published(s) == latest[Base(s)] >= 1 /\ Version(s) <= latest[Base(s)]

\* Plans that have to be installed.
Todo == {plans[k] : k \in {j \in DOMAIN plans : ~plans[j].installed}}

\* find_plan_by_dependency: the first plan with the name or selector written,
\* or 0.
FindPlan(s) ==
    LET found == {k \in DOMAIN plans : s \in {plans[k].package, plans[k].selector}}
    IN  IF found = {} THEN 0 ELSE Min(found)

\* The elements of s that are in keep.
Kept(s, keep) ==
    LET kept[k \in 0..Len(s)] ==
            IF k = 0 THEN <<>>
            ELSE kept[k - 1] \o IF s[k] \in keep THEN <<s[k]>> ELSE <<>>
    IN  kept[Len(s)]

\* What build_install_order returns (module LegacyOrder): every plan once, its
\* planned dependencies before it.
Orders ==
    {o \in Bijection(DOMAIN plans, DOMAIN plans) :
        \A j, k \in DOMAIN plans :
            \A d \in DOMAIN deps[plans[o[k]].package] :
                FindPlan(deps[plans[o[k]].package][d]) = o[j] => j < k}

\* The variables of a new process.
Fresh(selectors) ==
    /\ queue' = selectors /\ queue_idx' = 1 /\ plans' = <<>> /\ missing' = {}
    /\ order' = <<>> /\ at' = 1 /\ hooked' = {} /\ errors' = FALSE

\* The command ends; temporary files are removed at exit. What an installation
\* that succeeded had planned is kept as history.
Return(value) ==
    /\ pc' = "idle"
    /\ rc' = value
    /\ removing' = NotRemoving
    /\ IF value \in {"ok", "nothing"} /\ cmd.op = "install"
       THEN UNCHANGED <<plan, cmd, progress>>
       ELSE Fresh(<<>>) /\ cmd' = NoCommand
    /\ UNCHANGED world

\* The command goes on.
Goto(step) ==
    /\ pc' = step
    /\ UNCHANGED <<world, cmd, rc>>

-----------------------------------------------------------------------------
(* The world outside: packages are published, the process is killed.       *)

Publish(n) ==
    /\ pc = "idle" /\ latest[n] < MaxVersion /\ n \notin Unpublished
    /\ latest' = [latest EXCEPT ![n] = @ + 1]
    /\ UNCHANGED <<deps, commands, batch, disk, plan, cmd, pc, progress,
                   removing, rc>>

Kill == pc # "idle" /\ Return("killed") /\ UNCHANGED disk

-----------------------------------------------------------------------------
(* The command line.                                                       *)

Begin(op, s, with, without) ==
    /\ pc = "idle" /\ commands < MaxCommands
    /\ commands' = commands + 1
    /\ cmd' = [op |-> op, selector |-> s, with_deps |-> with, no_deps |-> without]
    /\ rc' = "none"
    /\ UNCHANGED <<deps, latest, disk, removing>>

BeginPlanning(op, s, with, without) ==
    /\ Begin(op, s, with, without)
    /\ Fresh(<<s>>)
    /\ pc' = "plan"

InBatch == batch.op # "none" /\ batch.rc = "none"

\* A command that no other process of the tool has started.
Alone == ~InBatch /\ batch' = NoBatch

InstallCommand(s, without) == Alone /\ BeginPlanning("install", s, FALSE, without)

UpdateCommand(s, with) == Alone /\ BeginPlanning("update", s, with, FALSE)

\* The newest installed version is meant when none is written.
RemoveCommand(s, with) ==
    /\ Alone
    /\ Begin("remove", s, with, FALSE)
    /\ Fresh(<<IF Version(s) = 0 /\ Installed(Base(s)) # Nothing
               THEN Installed(Base(s)) ELSE s>>)
    /\ pc' = "confirm"

-----------------------------------------------------------------------------
(* Several names, and update --all: one process after the other.           *)

BeginBatch(op, list) ==
    /\ pc = "idle" /\ ~InBatch /\ list # <<>>
    /\ commands + Len(list) <= MaxCommands
    /\ batch' = [NoBatch EXCEPT !.op = op, !.all = list]
    /\ UNCHANGED <<deps, latest, commands, disk, plan, progress, cmd, pc, removing, rc>>

\* Every package but the tool itself.
collect_installed_update_packages == {p \in listed : Base(p) \notin Protected}

\* find_remote_update_for_installed
Outdated == {p \in collect_installed_update_packages : latest[Base(p)] > Version(p)}

\* The manifests are read in any order. With nothing to update, or without the
\* lists of packages, the command ends here. No more processes than MaxCommands
\* can be run for the list.
check_all_updates_from_manifest ==
    {[k \in DOMAIN o |-> <<Base(o[k]), latest[Base(o[k])]>>]
        : o \in UNION {Bijection(1..n, Outdated) : n \in 0..MaxCommands}}

\* Faulty variant of Collected: only the last child counts.
CollectedLast ==
    IF batch.next = 1 THEN batch
    ELSE [batch EXCEPT !.failed = rc \in {"failed", "killed"},
                       !.declined = @ \/ rc = "cancelled"]

\* run_cmd has returned what the last child did, if there was one. A child that
\* had nothing to do or that the user stopped has succeeded.
Collected ==
    IF batch.next = 1 THEN batch
    ELSE [batch EXCEPT !.failed = @ \/ rc \in {"failed", "killed"},
                       !.declined = @ \/ rc = "cancelled"]

\* The children of an install are not given --no-deps.
NextChild ==
    /\ InBatch /\ pc = "idle" /\ batch.next <= Len(batch.all)
    /\ batch' = [Collected EXCEPT !.next = @ + 1]
    /\ BeginPlanning(batch.op, batch.all[batch.next], FALSE, FALSE)

BatchReturns ==
    /\ InBatch /\ pc = "idle" /\ batch.next > Len(batch.all)
    /\ batch' = [Collected EXCEPT !.rc = IF Collected.failed THEN "failed" ELSE "ok"]
    /\ UNCHANGED <<deps, latest, commands, disk, plan, progress, cmd, pc, removing, rc>>

\* A child that is running goes on.
KillBatch ==
    /\ InBatch
    /\ batch' = [batch EXCEPT !.rc = "killed"]
    /\ UNCHANGED <<deps, latest, commands, disk, plan, progress, cmd, pc, removing, rc>>

-----------------------------------------------------------------------------
(* Phase 1: planning.                                                      *)

Planning == pc = "plan" /\ queue_idx <= Len(queue)

Selector == queue[queue_idx]
IsRoot == Selector = cmd.selector

\* A version written out that is already installed: neither it nor its
\* dependencies are planned.
PlanInstalled ==
    /\ Planning /\ Selector \in listed
    /\ queue_idx' = queue_idx + 1
    /\ Goto("plan")
    /\ UNCHANGED <<disk, queue, plans, missing, progress, removing>>

\* The archive cannot be had, or its metadata is missing, invalid or of another
\* system.
PlanUnresolvedRoot ==
    /\ Planning /\ Selector \notin listed /\ IsRoot
    /\ Return("failed")
    /\ UNCHANGED disk

\* Faulty variant of PlanMissing: the command goes on without the dependency.
PlanMissingIgnored ==
    /\ Planning /\ Selector \notin listed /\ ~IsRoot
    /\ queue_idx' = queue_idx + 1
    /\ Goto("plan")
    /\ UNCHANGED <<disk, queue, plans, missing, progress, removing>>

PlanMissing ==
    /\ Planning /\ Selector \notin listed /\ ~IsRoot
    /\ missing' = missing \cup {Selector}
    /\ queue_idx' = queue_idx + 1
    /\ Goto("plan")
    /\ UNCHANGED <<disk, queue, plans, progress, removing>>

\* Another version is installed and the command is no update.
OtherVersion(p) ==
    /\ cmd.op = "install" /\ IsRoot
    /\ InstalledFor(p) \notin {Nothing, p}

RefuseOtherVersion ==
    /\ Planning /\ Selector \notin listed /\ Published(Selector)
    /\ OtherVersion(Resolve(Selector))
    /\ Return("failed")
    /\ UNCHANGED disk

\* The dependencies of p that go into the queue (the list has no duplicates).
NewDeps(p) ==
    IF cmd.no_deps \/ (cmd.op = "update" /\ ~cmd.with_deps) THEN <<>>
    ELSE Kept(deps[p], Selectors \ (Range(queue) \cup {p}))

PlanPackage ==
    LET p == Resolve(Selector) IN
    /\ Planning /\ Selector \notin listed /\ Published(Selector)
    /\ ~OtherVersion(p)
    /\ plans' = Append(plans,
           [selector |-> Selector, package |-> p, old |-> InstalledFor(p),
            installed |-> p \in listed /\ ~(cmd.op = "update" /\ cmd.with_deps)])
    /\ queue' = queue \o NewDeps(p)
    /\ queue_idx' = queue_idx + 1
    /\ Goto("plan")
    /\ UNCHANGED <<disk, missing, progress, removing>>

Planned == pc = "plan" /\ queue_idx > Len(queue)

MissingDependencies ==
    /\ Planned /\ missing # {}
    /\ Return("failed")
    /\ UNCHANGED disk

NothingToDo ==
    /\ Planned /\ missing = {} /\ Todo = {}
    /\ Return("nothing")
    /\ UNCHANGED disk

AskInstall ==
    /\ Planned /\ missing = {} /\ Todo # {}
    /\ Goto("confirm")
    /\ UNCHANGED <<disk, plan, progress, removing>>

\* The user says no; with -y, as in update --all, this does not happen.
Cancel ==
    /\ pc = "confirm" /\ batch.op # "update"
    /\ Return("cancelled")
    /\ UNCHANGED disk

-----------------------------------------------------------------------------
(* Phases 2 and 3: extraction, order, staging.                             *)

ConfirmInstall ==
    /\ pc = "confirm" /\ cmd.op # "remove"
    /\ Goto("extract")
    /\ UNCHANGED <<disk, plan, progress, removing>>

\* An archive cannot be extracted, or the dynamic linker cache not be rebuilt.
StepFails ==
    /\ pc \in {"extract", "cache", "recache"}
    /\ Return("failed")
    /\ UNCHANGED disk

Extract ==
    /\ pc = "extract"
    /\ Goto("order")
    /\ UNCHANGED <<disk, plan, progress, removing>>

CircularOrder ==
    /\ pc = "order" /\ Orders = {}
    /\ Return("failed")
    /\ UNCHANGED disk

\* Plans in dependency order; those already installed are passed over.
InOrder(o) == Kept([k \in DOMAIN plans |-> plans[o[k]]], Todo)

BuildOrder ==
    /\ pc = "order"
    /\ \E o \in Orders : order' = InOrder(o)
    /\ Goto("stage")
    /\ UNCHANGED <<disk, plan, at, hooked, errors, removing>>

Current == order[at].package

\* remove_pkg_impl is called for p and returns to step back.
CallRemove(p, back) ==
    /\ removing' = [package |-> p, back |-> back]
    /\ Goto("unlink")

\* An update takes the old version away first.
StageOld ==
    /\ pc = "stage" /\ at <= Len(order)
    /\ cmd.op = "update" /\ order[at].old \notin {Nothing, Current}
    /\ CallRemove(order[at].old, "copy")
    /\ UNCHANGED <<disk, plan, progress>>

StageNew ==
    /\ pc = "stage" /\ at <= Len(order)
    /\ cmd.op = "update" => order[at].old \in {Nothing, Current}
    /\ Goto("copy")
    /\ UNCHANGED <<disk, plan, progress, removing>>

Copy ==
    /\ pc = "copy"
    /\ files' = [files EXCEPT ![Base(Current)] = Version(Current)]
    /\ Goto("manifest")
    /\ UNCHANGED <<listed, saved, plan, progress, removing>>

WriteManifest ==
    /\ pc = "manifest"
    /\ listed' = listed \cup {Current}
    /\ Goto("save")
    /\ UNCHANGED <<saved, files, plan, progress, removing>>

\* The package is given up, and the command goes on with the next one.
GiveUp ==
    /\ at' = at + 1
    /\ errors' = TRUE
    /\ removing' = NotRemoving
    /\ Goto("stage")
    /\ UNCHANGED <<plan, order, hooked>>

CopyFails ==
    /\ pc = "copy"
    /\ files' = [files EXCEPT ![Base(Current)] = 0]
    /\ GiveUp
    /\ UNCHANGED <<listed, saved>>

\* The manifest may have been created before the failure.
ManifestFails ==
    /\ pc = "manifest"
    /\ listed' \in {listed, listed \cup {Current}}
    /\ GiveUp
    /\ UNCHANGED <<saved, files>>

SaveHook ==
    /\ pc = "save"
    /\ saved' = IF Base(Current) \in Hooked THEN saved \cup {Current}
                ELSE saved \ {Current}
    /\ at' = at + 1
    /\ Goto("stage")
    /\ UNCHANGED <<listed, files, plan, order, hooked, errors, removing>>

\* The package is taken away again, whether or not that works.
SaveHookFails ==
    /\ pc = "save" /\ Base(Current) \in Hooked
    /\ CallRemove(Current, "stage")
    /\ at' = at + 1
    /\ errors' = TRUE
    /\ UNCHANGED <<disk, plan, order, hooked>>

\* Faulty variant of Staged: hooks run for the packages that could be staged.
StagedRegardless ==
    /\ pc = "stage" /\ at > Len(order)
    /\ Goto("cache")
    /\ UNCHANGED <<disk, plan, progress, removing>>

StagingFailed ==
    /\ pc = "stage" /\ at > Len(order) /\ errors
    /\ Return("failed")
    /\ UNCHANGED disk

\* Every payload is on disk.
Staged ==
    /\ pc = "stage" /\ at > Len(order) /\ ~errors
    /\ Goto("cache")
    /\ UNCHANGED <<disk, plan, progress, removing>>

RefreshCache ==
    /\ pc = "cache"
    /\ at' = 1
    /\ Goto("hook")
    /\ UNCHANGED <<disk, plan, order, hooked, errors, removing>>

-----------------------------------------------------------------------------
(* Install hooks.                                                          *)

\* The hook succeeds, or the package has none.
RunHook ==
    /\ pc = "hook" /\ at <= Len(order)
    /\ hooked' = hooked \cup {Current}
    /\ at' = at + 1
    /\ Goto("hook")
    /\ UNCHANGED <<disk, plan, order, errors, removing>>

\* Faulty variant of HookFails: the failure is not counted.
HookFailsUncounted ==
    /\ pc = "hook" /\ at <= Len(order)
    /\ CallRemove(Current, "hook")
    /\ at' = at + 1
    /\ UNCHANGED <<disk, plan, order, hooked, errors>>

\* Faulty variant of HookFails: the hook is tried again.
HookFailsAgain ==
    /\ pc = "hook" /\ at <= Len(order)
    /\ CallRemove(Current, "hook")
    /\ errors' = TRUE
    /\ UNCHANGED <<disk, plan, order, at, hooked>>

\* The package is taken away again and the remaining hooks are run.
HookFails ==
    /\ pc = "hook" /\ at <= Len(order)
    /\ CallRemove(Current, "hook")
    /\ at' = at + 1
    /\ errors' = TRUE
    /\ UNCHANGED <<disk, plan, order, hooked>>

HooksFailed ==
    /\ pc = "hook" /\ at > Len(order) /\ errors
    /\ Return("failed")
    /\ UNCHANGED disk

HooksDone ==
    /\ pc = "hook" /\ at > Len(order) /\ ~errors
    /\ Goto("recache")
    /\ UNCHANGED <<disk, plan, progress, removing>>

Done ==
    /\ pc = "recache"
    /\ Return("ok")
    /\ UNCHANGED disk

-----------------------------------------------------------------------------
(* remove_pkg_impl and the remove command.                                 *)

\* What a failed removal means to the caller.
RemovalFails ==
    \/ removing.back = "copy" /\ GiveUp
    \/ /\ removing.back \in {"stage", "hook"}
       /\ removing' = NotRemoving
       /\ Goto(removing.back)
       /\ UNCHANGED <<plan, progress>>
    \/ removing.back = "remove" /\ Return("failed")

NoManifest ==
    /\ pc = "unlink" /\ removing.package \notin listed
    /\ RemovalFails
    /\ UNCHANGED disk

\* The files go first, whichever version of the package they belong to.
Unlink ==
    /\ pc = "unlink" /\ removing.package \in listed
    /\ files' = [files EXCEPT ![Base(removing.package)] = 0]
    /\ Goto("remove_hook")
    /\ UNCHANGED <<listed, saved, plan, progress, removing>>

\* The manifest stays, the files are gone.
RemoveHookFails ==
    /\ pc = "remove_hook" /\ removing.package \in saved
    /\ RemovalFails
    /\ UNCHANGED disk

RunRemoveHook ==
    /\ pc = "remove_hook"
    /\ Goto("unlist")
    /\ UNCHANGED <<disk, plan, progress, removing>>

Unlist ==
    /\ pc = "unlist"
    /\ listed' = listed \ {removing.package}
    /\ saved' = saved \ {removing.package}
    /\ removing' = NotRemoving
    /\ Goto(removing.back)
    /\ UNCHANGED <<files, plan, progress>>

\* remove_pkg; with dependencies the archive has to be had first.
RemovePackage(p, rest) ==
    /\ Base(p) \notin Protected
    /\ CallRemove(p, "remove")
    /\ queue' = IF cmd.with_deps THEN deps[p] \o rest ELSE rest
    /\ UNCHANGED <<disk, queue_idx, plans, missing, progress>>

RemoveRefused ==
    /\ \/ pc = "confirm" /\ cmd.op = "remove"
       \/ pc = "remove" /\ queue # <<>> /\ Head(queue) \in listed
    /\ Base(Head(queue)) \in Protected \/ Head(queue) \notin Packages
       \/ cmd.with_deps
    /\ Return("failed")
    /\ UNCHANGED disk

ConfirmRemove ==
    /\ pc = "confirm" /\ cmd.op = "remove" /\ Head(queue) \in Packages
    /\ RemovePackage(Head(queue), <<>>)

RemoveDependency ==
    /\ pc = "remove" /\ queue # <<>> /\ Head(queue) \in listed
    /\ RemovePackage(Head(queue), Tail(queue))

\* Not installed under this very name.
KeepDependency ==
    /\ pc = "remove" /\ queue # <<>> /\ Head(queue) \notin listed
    /\ queue' = Tail(queue)
    /\ Goto("remove")
    /\ UNCHANGED <<disk, queue_idx, plans, missing, progress, removing>>

\* The linker cache is rebuilt.
Removed(value) ==
    /\ pc = "remove" /\ queue = <<>>
    /\ Return(value)
    /\ UNCHANGED disk

-----------------------------------------------------------------------------

Command ==
    \E s \in Selectors, option \in BOOLEAN :
        \/ InstallCommand(s, option)
        \/ UpdateCommand(s, option)
        \/ RemoveCommand(s, option)

Batch ==
    \/ \E list \in Lists : BeginBatch("install", list)
    \/ \E list \in check_all_updates_from_manifest : BeginBatch("update", list)

\* Steps of a running command.
Step ==
    \/ PlanInstalled \/ PlanUnresolvedRoot \/ PlanMissing \/ RefuseOtherVersion
    \/ PlanPackage \/ MissingDependencies \/ NothingToDo \/ AskInstall \/ Cancel
    \/ ConfirmInstall \/ StepFails \/ Extract \/ CircularOrder \/ BuildOrder
    \/ StageOld \/ StageNew \/ Copy \/ WriteManifest \/ CopyFails \/ ManifestFails
    \/ SaveHook \/ SaveHookFails \/ StagingFailed \/ Staged \/ RefreshCache
    \/ RunHook \/ HookFails \/ HooksFailed \/ HooksDone \/ Done
    \/ NoManifest \/ Unlink \/ RemoveHookFails \/ RunRemoveHook \/ Unlist
    \/ RemoveRefused \/ ConfirmRemove \/ RemoveDependency \/ KeepDependency
    \/ Removed("ok") \/ Removed("failed")
    \/ NextChild \/ BatchReturns

NoMoreCommands == pc = "idle" /\ ~InBatch /\ commands = MaxCommands /\ UNCHANGED vars

Next ==
    \/ Command \/ Batch \/ Step \/ Kill \/ KillBatch \/ NoMoreCommands
    \/ \E n \in Names : Publish(n)

Spec == Init /\ [][Next]_vars

FairSpec == Spec /\ WF_vars(Step)

-----------------------------------------------------------------------------
(* Properties.                                                             *)

\* The first install hook runs only when every package to install is on disk and
\* listed, in one of the versions asked for: a package that could not be staged
\* stops all hooks, and the removal of old versions has not taken new ones along.
HooksAfterStaging ==
    pc = "hook" /\ at = 1 =>
        \A k \in DOMAIN order :
            \E j \in DOMAIN order :
                /\ Base(order[j].package) = Base(order[k].package)
                /\ order[j].package \in listed
                /\ files[Base(order[j].package)] = Version(order[j].package)

\* An install command that ends with "Done" has installed every package it
\* announced: listed, its paths filled by a version of the plan, its hook run.
DoneMeansInstalled ==
    rc = "ok" /\ cmd.op = "install" =>
        \A q \in Todo :
            /\ q.package \in listed /\ q.package \in hooked
            /\ \E r \in Todo : /\ Base(r.package) = Base(q.package)
                              /\ files[Base(q.package)] = Version(r.package)

\* s names an installed package.
Satisfied(s) ==
    IF Version(s) = 0 THEN Installed(Base(s)) # Nothing ELSE s \in listed

\* An install command that succeeds, or finds nothing to do, leaves every planned
\* package with all its dependencies installed (--no-deps apart).
DependenciesInstalled ==
    rc \in {"ok", "nothing"} /\ cmd.op = "install" /\ ~cmd.no_deps =>
        \A k \in DOMAIN plans :
            \A d \in DOMAIN deps[plans[k].package] :
                Satisfied(deps[plans[k].package][d])

\* "Stage every payload first. A hook may execute a program supplied by a
\* different package, so files ... must exist before any hook is allowed to run":
\* whenever a hook runs, the payloads of all packages to install are on disk.
HooksSeePayloads ==
    pc = "hook" /\ at <= Len(order) =>
        \A k \in DOMAIN order : files[Base(order[k].package)] # 0

\* An install command that reports success has run the hook of the package it
\* was asked for; the hook test installs twice and expects two runs.
InstallRunsHook ==
    rc \in {"ok", "nothing"} /\ cmd.op = "install" =>
        \E p \in hooked : Base(p) = Base(cmd.selector)

\* When install with several names or update --all succeeds, and the user has
\* said no to none of them, every package on the list is installed, whichever of
\* the children failed and whatever was published and installed in between.
BatchMeansAll ==
    batch.rc = "ok" /\ pc = "idle" /\ ~batch.declined =>
        \A k \in DOMAIN batch.all : Satisfied(batch.all[k])

\* Every command ends, although packages that depend on each other are queued
\* while the queue is read, hooks fail, and the removal of a package whose hook
\* failed fails, too; and so does every list of commands.
CommandEnds ==
    /\ pc # "idle" ~> pc = "idle"
    /\ InBatch ~> ~InBatch
=============================================================================
