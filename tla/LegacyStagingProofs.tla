------------------------ MODULE LegacyStagingProofs ------------------------
(***************************************************************************)
(* Types, control and staging of LegacyInstall: what is true of a command  *)
(* at every step, and of the order of its steps.                           *)
(***************************************************************************)
EXTENDS LegacyInstall, WellFoundedInduction, TLAPS

Removal == {"unlink", "remove_hook", "unlist"}

\* The step of the command, or the one remove_pkg_impl returns to.
Phase == IF pc \in Removal THEN removing.back ELSE pc

Copying == {"copy", "manifest", "save"}
Staging == {"stage", "cache"} \cup Copying
Hooking == {"hook", "recache"}
Early   == {"plan", "confirm", "extract", "order"}

\* Where a command can be with which of its variables.
ControlKept ==
    /\ pc # "idle" => rc = "none"
    /\ pc \notin Removal => removing = NotRemoving
    /\ pc \in Removal => removing.package \in Packages /\ removing.back # "none"
    /\ Phase \in Staging \cup Hooking \cup {"plan", "extract", "order"} => cmd.op # "remove"
    /\ Phase = "remove" => cmd.op = "remove"
    /\ pc # "idle" /\ cmd.op = "remove" => queue_idx = 1
    /\ pc = "confirm" /\ cmd.op = "remove" => queue # <<>>
    /\ pc \in Early => order = <<>> /\ at = 1 /\ hooked = {} /\ ~errors
    /\ Phase \in Copying => at <= Len(order)
    /\ removing.back = "copy" => /\ cmd.op = "update" /\ removing.package = order[at].old
                                 /\ removing.package # Current
    /\ removing.back \in {"stage", "hook"} => errors
    /\ pc \in {"cache", "recache"} => ~errors /\ at > Len(order)
    /\ Phase = "hook" /\ errors => at > 1

\* A plan is for what its selector names, and its old version has its name.
Fits(q) ==
    /\ q.old = Nothing \/ Base(q.old) = Base(q.package)
    /\ Base(q.selector) = Base(q.package)
    /\ Version(q.selector) = 0 \/ q.package = q.selector

PlansKept ==
    /\ \A k \in DOMAIN plans : Fits(plans[k])
    /\ Phase \in Staging \cup Hooking => Range(order) = Todo

OnDisk(k) ==
    \E j \in DOMAIN order :
        /\ Base(order[j].package) = Base(order[k].package)
        /\ order[j].package \in listed
        /\ files[Base(order[j].package)] = Version(order[j].package)

\* As long as nothing has failed, what was staged stays.
StagedKept ==
    /\ Phase \in Staging /\ ~errors =>
        \A k \in DOMAIN order :
            k < at /\ (Phase \in Copying => Base(order[k].package) # Base(Current))
                => OnDisk(k)
    /\ pc \in {"manifest", "save"} => files[Base(Current)] = Version(Current)
    /\ pc = "save" => Current \in listed
    /\ Phase \in Hooking /\ ~errors => \A k \in DOMAIN order : OnDisk(k)
    /\ Phase \in Hooking /\ ~errors =>
        \A k \in DOMAIN order : k < at => order[k].package \in hooked

-----------------------------------------------------------------------------
(* The kinds of steps.                                                     *)

\* The command ends, well only after the last step or a removal, and without
\* anything to do only when all plans are installed.
Ends(v) ==
    /\ pc # "idle" /\ Return(v) /\ UNCHANGED disk
    /\ v \in {"ok", "nothing", "cancelled", "failed", "killed"}
    /\ v = "ok" => pc \in {"recache", "remove"}
    /\ v = "nothing" => Planned /\ missing = {} /\ Todo = {}

\* Only the place changes.
Pass ==
    AskInstall \/ ConfirmInstall \/ Extract \/ StageNew \/ Staged \/ HooksDone
    \/ RunRemoveHook

\* remove_pkg_impl fails and its caller goes on.
Resumes ==
    /\ pc \in {"unlink", "remove_hook"}
    /\ UNCHANGED disk
    /\ \/ removing.back = "copy" /\ GiveUp
       \/ /\ removing.back \in {"stage", "hook"}
          /\ removing' = NotRemoving
          /\ Goto(removing.back)
          /\ UNCHANGED <<plan, progress>>

Removes == ConfirmRemove \/ RemoveDependency

Kinds ==
    \/ \E v : Ends(v)
    \/ PlanInstalled \/ PlanMissing \/ PlanPackage \/ Pass \/ BuildOrder \/ StageOld
    \/ Copy \/ WriteManifest \/ CopyFails \/ ManifestFails \/ SaveHook \/ SaveHookFails
    \/ RefreshCache \/ RunHook \/ HookFails \/ Resumes \/ Unlink \/ Unlist \/ Removes
    \/ KeepDependency \/ Command \/ NextChild \/ Batch \/ BatchReturns \/ KillBatch
    \/ \E n \in Names : Publish(n)

LEMMA StepKinds ==
    ASSUME [Next]_vars
    PROVE  Kinds \/ UNCHANGED vars
<1>1. CASE Kill \/ PlanUnresolvedRoot \/ RefuseOtherVersion \/ MissingDependencies
           \/ Cancel \/ StepFails \/ CircularOrder \/ StagingFailed \/ HooksFailed
           \/ RemoveRefused
  <2>1. \E v \in {"killed", "failed", "cancelled"} : pc # "idle" /\ Return(v) /\ UNCHANGED disk
    BY <1>1, Zenon DEF Kill, PlanUnresolvedRoot, RefuseOtherVersion, MissingDependencies, Cancel,
                StepFails, CircularOrder, StagingFailed, HooksFailed, RemoveRefused,
                Planning, Planned
  <2> QED
    BY <2>1, Zenon DEF Ends, Kinds
<1>2. CASE NothingToDo
  <2>1. Ends("nothing")
    BY <1>2, Zenon DEF NothingToDo, Ends, Planned
  <2> QED
    BY <2>1, Zenon DEF Kinds
<1>3. CASE Done
  <2>1. Ends("ok")
    BY <1>3, Zenon DEF Done, Ends
  <2> QED
    BY <2>1, Zenon DEF Kinds
<1>4. CASE Removed("ok") \/ Removed("failed")
  <2>1. Ends("ok") \/ Ends("failed")
    BY <1>4, Zenon DEF Removed, Ends
  <2> QED
    BY <2>1, Zenon DEF Kinds
<1>5. CASE NoManifest \/ RemoveHookFails
  <2>1. /\ pc \in {"unlink", "remove_hook"} /\ UNCHANGED disk /\ RemovalFails
    BY <1>5, Zenon DEF NoManifest, RemoveHookFails
  <2>2. CASE Return("failed")
    <3>1. Ends("failed")
      BY <2>1, <2>2, Zenon DEF Ends
    <3> QED
      BY <3>1, Zenon DEF Kinds
  <2>3. CASE ~ Return("failed")
    BY <2>1, <2>3, Zenon DEF RemovalFails, Resumes, Kinds
  <2> QED
    BY <2>2, <2>3, Zenon
<1>6. CASE NoMoreCommands
  BY <1>6, Zenon DEF NoMoreCommands
<1> QED
  BY <1>1, <1>2, <1>3, <1>4, <1>5, <1>6, Zenon DEF Next, Step, Pass, Removes, Kinds

-----------------------------------------------------------------------------
(* What a step leaves alone.                                               *)

\* What a step leaves alone.
FrameKept ==
    /\ UNCHANGED world \/ Command \/ NextChild \/ Batch \/ BatchReturns \/ KillBatch
       \/ \E n \in Names : Publish(n)
    /\ UNCHANGED disk \/ Copy \/ WriteManifest \/ CopyFails \/ ManifestFails
       \/ SaveHook \/ Unlink \/ Unlist
    /\ UNCHANGED plan \/ (\E v : Ends(v)) \/ PlanInstalled \/ PlanMissing \/ PlanPackage
       \/ Removes \/ KeepDependency \/ Command \/ NextChild
    /\ UNCHANGED progress \/ (\E v : Ends(v)) \/ BuildOrder \/ CopyFails \/ ManifestFails
       \/ SaveHook \/ SaveHookFails \/ RefreshCache \/ RunHook \/ HookFails \/ Resumes
       \/ Command \/ NextChild
    /\ UNCHANGED cmd \/ (\E v : Ends(v)) \/ Command \/ NextChild

LEMMA FrameStep ==
    ASSUME Kinds \/ UNCHANGED vars
    PROVE  FrameKept
<1>1. CASE \E v : Ends(v)
  BY <1>1, Zenon DEF FrameKept, Ends, Return, Fresh, world, disk
<1>2. CASE PlanInstalled \/ PlanMissing \/ PlanPackage
  BY <1>2, Zenon DEF FrameKept, PlanInstalled, PlanMissing, PlanPackage, Planning, Goto, world,
     disk, progress
<1>3. CASE Pass \/ StageOld
  BY <1>3, Zenon DEF FrameKept, Pass, AskInstall, ConfirmInstall, Extract, StageNew, Staged,
     HooksDone,
              RunRemoveHook, StageOld, CallRemove, Goto, world, disk, plan, progress
<1>4. CASE BuildOrder \/ RefreshCache \/ RunHook
  BY <1>4, Zenon DEF FrameKept, BuildOrder, RefreshCache, RunHook, Goto, world, disk, plan
<1>5. CASE Copy \/ WriteManifest \/ SaveHook \/ Unlink \/ Unlist
  BY <1>5, Zenon DEF FrameKept, Copy, WriteManifest, SaveHook, Unlink, Unlist, Goto, world,
     disk, plan, progress
<1>6. CASE CopyFails \/ ManifestFails \/ SaveHookFails \/ HookFails \/ Resumes
  BY <1>6, Zenon DEF FrameKept, CopyFails, ManifestFails, SaveHookFails, HookFails, Resumes,
     GiveUp,
              CallRemove, Goto, world, disk, plan
<1>7. CASE Removes \/ KeepDependency
  <2>1. UNCHANGED <<world, disk, progress, cmd>>
    BY <1>7, Zenon DEF Removes, ConfirmRemove, RemoveDependency, RemovePackage, KeepDependency,
                       CallRemove, Goto
  <2> QED
    BY <1>7, <2>1, Zenon DEF FrameKept
<1>8. CASE Command \/ NextChild
  <2>1. UNCHANGED disk
    BY <1>8, Zenon DEF Command, InstallCommand, UpdateCommand, RemoveCommand, NextChild,
                       BeginPlanning, Begin
  <2> QED
    BY <1>8, <2>1, Zenon DEF FrameKept
<1>9. CASE Batch \/ BatchReturns \/ KillBatch \/ \E n \in Names : Publish(n)
  <2>1. UNCHANGED <<disk, plan, progress, cmd>>
    BY <1>9, Zenon DEF Batch, BeginBatch, BatchReturns, KillBatch, Publish
  <2> QED
    BY <1>9, <2>1, Zenon DEF FrameKept
<1>10. CASE UNCHANGED vars
  BY <1>10, Zenon DEF FrameKept, vars, world, disk, plan, progress
<1> QED
  BY <1>1, <1>2, <1>3, <1>4, <1>5, <1>6, <1>7, <1>8, <1>9, <1>10, Zenon DEF Kinds

LEMMA Frames ==
    ASSUME Kinds \/ UNCHANGED vars
    PROVE  /\ UNCHANGED world \/ Command \/ NextChild \/ Batch \/ BatchReturns \/ KillBatch
              \/ \E n \in Names : Publish(n)
           /\ UNCHANGED disk \/ Copy \/ WriteManifest \/ CopyFails \/ ManifestFails
              \/ SaveHook \/ Unlink \/ Unlist
           /\ UNCHANGED plan \/ (\E v : Ends(v)) \/ PlanInstalled \/ PlanMissing \/ PlanPackage
              \/ Removes \/ KeepDependency \/ Command \/ NextChild
           /\ UNCHANGED progress \/ (\E v : Ends(v)) \/ BuildOrder \/ CopyFails \/ ManifestFails
              \/ SaveHook \/ SaveHookFails \/ RefreshCache \/ RunHook \/ HookFails \/ Resumes
              \/ Command \/ NextChild
           /\ UNCHANGED cmd \/ (\E v : Ends(v)) \/ Command \/ NextChild
  BY FrameStep, Zenon DEF FrameKept

-----------------------------------------------------------------------------
(* Types, packages and commands.                                           *)

WorldT ==
    /\ deps \in [Packages -> Seq(Selectors)]
    /\ latest \in [Names -> 0..MaxVersion]
    /\ commands \in 0..MaxCommands
    /\ batch \in [op : {"none", "install", "update"}, all : Seq(Selectors),
                  next : Nat, failed : BOOLEAN, declined : BOOLEAN,
                  rc : {"none", "ok", "failed", "killed"}]
    /\ batch.next \in 1..(Len(batch.all) + 1)

DiskT == listed \in SUBSET Packages /\ saved \in SUBSET Packages
         /\ files \in [Names -> 0..MaxVersion]

CmdT ==
    /\ cmd \in [op : Operations \cup {"none"}, selector : Selectors,
                with_deps : BOOLEAN, no_deps : BOOLEAN]
    /\ pc \in Steps
    /\ removing \in [package : Packages \cup {Nothing},
                     back : {"none", "remove", "copy", "stage", "hook"}]
    /\ rc \in {"none", "ok", "nothing", "cancelled", "failed", "killed"}

PlanT ==
    /\ queue \in Seq(Selectors) /\ queue_idx \in 1..(Len(queue) + 1)
    /\ plans \in Seq(Plan)
    /\ missing \in SUBSET Selectors

ProgressT ==
    /\ order \in Seq(Plan) /\ at \in 1..(Len(order) + 1)
    /\ hooked \in SUBSET Packages
    /\ errors \in BOOLEAN

Types == WorldT /\ DiskT /\ CmdT /\ PlanT /\ ProgressT

LEMMA LeastNat ==
    ASSUME NEW T \in SUBSET Nat, T # {}
    PROVE  \E x \in T : \A y \in T : x <= y
<1> DEFINE R == OpToRel(<, Nat)
<1>1. PICK x \in T : \A y \in T : ~ (<<y, x>> \in R)
  BY NatLessThanWellFounded, WFMin, Zenon
<1>2. R = {ss \in Nat \X Nat : ss[1] < ss[2]}
  BY Zenon DEF OpToRel
<1> HIDE DEF R
<1>3. ASSUME NEW y \in T PROVE x <= y
  <2>1. ~ (<<y, x>> \in R)
    BY <1>1, Zenon
  <2> QED
    BY <1>2, <2>1
<1> QED
  BY <1>3, Zenon

LEMMA PairFacts ==
    /\ \A p \in Packages : /\ p \in Selectors /\ p # Nothing
                           /\ Base(p) \in Names /\ Version(p) \in 1..MaxVersion
                           /\ p = <<Base(p), Version(p)>>
    /\ \A s \in Selectors : /\ Base(s) \in Names /\ Version(s) \in 0..MaxVersion
                            /\ s = <<Base(s), Version(s)>>
                            /\ Version(s) # 0 => s \in Packages
    /\ \A n \in Names : /\ \A v \in 1..MaxVersion : <<n, v>> \in Packages
                        /\ \A v \in 0..MaxVersion : <<n, v>> \in Selectors
  BY InstallAssumption DEF Packages, Selectors, Nothing, Base, Version

\* There is a newest version of what is installed.
LEMMA NewestFacts ==
    ASSUME NEW mine \in SUBSET Packages, mine # {}
    PROVE  (CHOOSE p \in mine : \A q \in mine : Version(q) <= Version(p)) \in mine
<1> DEFINE T == {MaxVersion - Version(p) : p \in mine}
<1>1. \A p \in mine : Version(p) \in 1..MaxVersion
  BY PairFacts, Zenon
<1>2. T \in SUBSET Nat /\ T # {}
  BY <1>1, InstallAssumption
<1>3. PICK t \in T : \A u \in T : t <= u
  BY <1>2, LeastNat, Zenon
<1>4. PICK p \in mine : t = MaxVersion - Version(p)
  BY <1>3, Zenon
<1>5. \A q \in mine : Version(q) <= Version(p)
  <2> TAKE q \in mine
  <2>1. MaxVersion - Version(p) <= MaxVersion - Version(q)
    BY <1>3, <1>4, Zenon
  <2> QED
    BY <1>1, <2>1, InstallAssumption
<1> HIDE DEF T
<1> QED
  BY <1>4, <1>5, Zenon

LEMMA InstalledFacts ==
    ASSUME listed \in SUBSET Packages, NEW n
    PROVE  /\ Installed(n) = Nothing <=> \A p \in listed : Base(p) # n
           /\ Installed(n) # Nothing => Installed(n) \in listed /\ Base(Installed(n)) = n
<1> DEFINE mine == {p \in listed : Base(p) = n}
<1>1. CASE mine = {}
  BY <1>1, Zenon DEF Installed
<1>2. CASE mine # {}
  <2>1. Installed(n) \in mine
    BY <1>2, NewestFacts, Zenon DEF Installed
  <2> QED
    BY <2>1, PairFacts, Zenon
<1> QED
  BY <1>1, <1>2, Zenon

\* What a command is started for.
LEMMA BeginFacts ==
    ASSUME Types, Command \/ NextChild
    PROVE  \E op \in Operations, s \in Selectors, with, without \in BOOLEAN :
               /\ Begin(op, s, with, without)
               /\ \/ op # "remove" /\ Fresh(<<s>>) /\ pc' = "plan"
                  \/ /\ op = "remove" /\ pc' = "confirm"
                     /\ \E r \in Selectors : Fresh(<<r>>)
<1>1. CASE Command
  <2>1. PICK s \in Selectors, option \in BOOLEAN :
                InstallCommand(s, option) \/ UpdateCommand(s, option) \/ RemoveCommand(s, option)
    BY <1>1, Zenon DEF Command
  <2>2. CASE InstallCommand(s, option)
    BY <2>2, Zenon DEF InstallCommand, BeginPlanning, Operations
  <2>3. CASE UpdateCommand(s, option)
    BY <2>3, Zenon DEF UpdateCommand, BeginPlanning, Operations
  <2>4. CASE RemoveCommand(s, option)
    <3>1. \E r \in Selectors : Fresh(<<r>>)
      <4> DEFINE r == IF Version(s) = 0 /\ Installed(Base(s)) # Nothing
                      THEN Installed(Base(s)) ELSE s
      <4>1. listed \in SUBSET Packages
        BY Zenon DEF Types, DiskT
      <4>2. r \in Selectors
        BY <4>1, InstalledFacts, PairFacts, Zenon
      <4>3. Fresh(<<r>>)
        BY <2>4, Zenon DEF RemoveCommand
      <4> QED
        BY <4>2, <4>3, Zenon
    <3>2. Begin("remove", s, option, FALSE) /\ pc' = "confirm"
      BY <2>4, Zenon DEF RemoveCommand
    <3> QED
      BY <3>1, <3>2, Zenon DEF Operations
  <2> QED
    BY <2>1, <2>2, <2>3, <2>4, Zenon
<1>2. CASE NextChild
  <2>1. BeginPlanning(batch.op, batch.all[batch.next], FALSE, FALSE) /\ InBatch
        /\ batch.next <= Len(batch.all)
    BY <1>2, Zenon DEF NextChild
  <2>2. batch.op \in {"install", "update"}
    BY <2>1, Zenon DEF Types, WorldT, InBatch
  <2>3. batch.all[batch.next] \in Selectors
    <3>1. batch.all \in Seq(Selectors) /\ batch.next \in 1..(Len(batch.all) + 1)
      BY Zenon DEF Types, WorldT
    <3>2. batch.next \in 1..Len(batch.all)
      BY <2>1, <3>1
    <3> QED
      BY <3>1, <3>2
  <2> QED
    BY <2>1, <2>2, <2>3, Zenon DEF BeginPlanning, Operations
<1> QED
  BY <1>1, <1>2, Zenon

-----------------------------------------------------------------------------
(* Where a command can be.                                                 *)

\* The plan being staged has its types.
LEMMA StagingFacts ==
    ASSUME Types, ControlKept, StageOld \/ SaveHookFails \/ HookFails
    PROVE  /\ at \in 1..Len(order) /\ at \in Nat
           /\ Current \in Packages /\ order[at].old \in Packages \cup {Nothing}
<1>1. at \in 1..Len(order) /\ order \in Seq(Plan) /\ at \in Nat
  BY DEF StageOld, SaveHookFails, HookFails, Types, ProgressT,
     ControlKept, Phase, Copying, Removal
<1>2. order[at] \in Plan
  BY <1>1
<1> QED
  BY <1>1, <1>2, Zenon DEF Plan, Current

LEMMA ControlStep ==
    ASSUME Types, ControlKept, Kinds \/ UNCHANGED vars
    PROVE  ControlKept'
<1>1. CASE \/ UNCHANGED vars \/ Batch \/ BatchReturns \/ KillBatch
           \/ \E n \in Names : Publish(n)
  <2>1. UNCHANGED <<pc, rc, removing, cmd, queue, queue_idx, order, at, hooked, errors>>
    BY <1>1, Zenon DEF vars, Batch, BeginBatch, BatchReturns, KillBatch, Publish, plan, progress
  <2> QED
    BY <2>1, ZenonT(60) DEF ControlKept, Phase, Current
<1>2. CASE \/ (\E v : Ends(v)) \/ PlanInstalled \/ PlanMissing \/ PlanPackage \/ KeepDependency
  <2>1. CASE \E v : Ends(v)
    BY <2>1 DEF ControlKept, Phase, Removal, Copying, Staging, Hooking,
       Early, NotRemoving, Ends, Return, Fresh
  <2>2. CASE PlanInstalled \/ PlanMissing \/ PlanPackage \/ KeepDependency
    <3>1. /\ UNCHANGED <<rc, cmd, removing, progress>>
          /\ \/ pc = "plan" /\ pc' = "plan"
             \/ pc = "remove" /\ pc' = "remove" /\ UNCHANGED queue_idx
      <4>1. CASE PlanInstalled \/ PlanMissing \/ KeepDependency
        BY <4>1, Zenon DEF PlanInstalled, PlanMissing, Planning, KeepDependency, Goto
      <4>2. CASE PlanPackage
        BY <4>2, Zenon DEF PlanPackage, Planning, Goto
      <4> QED
        BY <2>2, <4>1, <4>2, Zenon
    <3> QED
      BY <3>1, Zenon DEF ControlKept, Phase, Removal, Copying, Staging, Hooking, Early,
         NotRemoving, Current, progress
  <2> QED
    BY <1>2, <2>1, <2>2, Zenon
<1>3. CASE Command \/ NextChild
  <2>1. PICK op \in Operations, s \in Selectors, with, without \in BOOLEAN :
               /\ Begin(op, s, with, without)
               /\ \/ op # "remove" /\ Fresh(<<s>>) /\ pc' = "plan"
                  \/ /\ op = "remove" /\ pc' = "confirm"
                     /\ \E r \in Selectors : Fresh(<<r>>)
    BY <1>3, BeginFacts, Zenon
  <2>2. removing' = NotRemoving /\ rc' = "none" /\ cmd'.op = op
    BY <2>1, Zenon DEF Begin, ControlKept, Removal
  <2>3. /\ order' = <<>> /\ at' = 1 /\ hooked' = {} /\ ~errors' /\ queue_idx' = 1 /\ queue' # <<>>
    BY <2>1 DEF Fresh
  <2> QED
    BY <2>1, <2>2, <2>3, Zenon DEF ControlKept, Phase, Removal, Copying, Staging, Hooking,
       Early, NotRemoving
<1>4. CASE Removes
  <2>1. Head(queue) \in Packages /\ pc # "idle"
    BY <1>4, Zenon DEF Removes, ConfirmRemove, RemoveDependency, Types, DiskT
  <2>2. cmd.op = "remove" /\ CallRemove(Head(queue), "remove") /\ UNCHANGED <<queue_idx, progress>>
    BY <1>4, Zenon DEF Removes, ConfirmRemove, RemoveDependency, RemovePackage, ControlKept,
       Phase, Removal
  <2> QED
    BY <2>1, <2>2, Zenon DEF ControlKept, Phase, Removal, Copying, Staging, Hooking, Early,
       NotRemoving, CallRemove, Goto, progress
<1>5. CASE Pass \/ BuildOrder \/ Copy \/ WriteManifest \/ SaveHook \/ Unlink
  <2>1. CASE AskInstall \/ ConfirmInstall \/ Extract
    BY <2>1 DEF ControlKept, Phase, Removal, Copying, Staging, Hooking,
       Early, NotRemoving,
        AskInstall, Planned, ConfirmInstall, Extract, Goto, plan, progress
  <2>2. CASE StageNew \/ Staged \/ HooksDone
    BY <2>2 DEF ControlKept, Phase, Removal, Copying, Staging, Hooking,
       Early, NotRemoving,
        StageNew, Staged, HooksDone, Goto, plan, progress
  <2>3. CASE RunRemoveHook \/ Unlink
    BY <2>3, Zenon DEF ControlKept, Phase, Removal, Copying, Staging, Hooking, Early,
       NotRemoving, Current,
        RunRemoveHook, Unlink, Goto, plan, progress
  <2>4. CASE BuildOrder
    BY <2>4 DEF ControlKept, Phase, Removal, Copying, Staging, Hooking,
       Early, NotRemoving, BuildOrder, Goto, plan
  <2>5. CASE Copy \/ WriteManifest \/ SaveHook
    BY <2>5 DEF ControlKept, Phase, Removal, Copying, Staging, Hooking,
       Early, NotRemoving, Copy, WriteManifest, SaveHook, Goto, plan, progress
  <2> QED
    BY <1>5, <2>1, <2>2, <2>3, <2>4, <2>5, Zenon DEF Pass
<1>6. CASE StageOld \/ SaveHookFails \/ HookFails
  <2>1. /\ at \in 1..Len(order) /\ at \in Nat
        /\ Current \in Packages /\ order[at].old \in Packages \cup {Nothing}
    BY <1>6, StagingFacts, Zenon
  <2>2. CASE StageOld
    BY <2>1, <2>2, Zenon DEF ControlKept, Phase, Removal, Copying, Staging, Hooking, Early,
       NotRemoving, Current,
        StageOld, CallRemove, Goto, plan, progress
  <2>3. CASE SaveHookFails \/ HookFails
    BY <2>1, <2>3 DEF ControlKept, Phase, Removal, Copying, Staging,
       Hooking, Early, NotRemoving,
        SaveHookFails, HookFails, CallRemove, Goto, plan
  <2> QED
    BY <1>6, <2>2, <2>3, Zenon
<1>7. CASE RefreshCache \/ RunHook \/ CopyFails \/ ManifestFails \/ Resumes \/ Unlist
  <2>1. at \in Nat /\ at >= 1
    BY DEF Types, ProgressT
  <2>2. pc \in Removal => removing.back \in {"remove", "copy", "stage", "hook"}
    BY Zenon DEF Types, CmdT, ControlKept
  <2>3. CASE RefreshCache \/ RunHook
    BY <2>1, <2>3 DEF ControlKept, Phase, Removal, Copying, Staging,
       Hooking, Early, NotRemoving, RefreshCache, RunHook, Goto, plan, progress
  <2>4. CASE CopyFails \/ ManifestFails \/ Resumes
    BY <2>1, <2>4 DEF ControlKept, Phase, Removal, Copying, Staging,
       Hooking, Early, NotRemoving,
        CopyFails, ManifestFails, Resumes, GiveUp, Goto, plan, progress
  <2>5. CASE Unlist
    BY <2>2, <2>5, Zenon DEF ControlKept, Phase, Removal, Copying, Staging, Hooking, Early,
       NotRemoving, Current, Unlist, Goto, plan, progress
  <2> QED
    BY <1>7, <2>3, <2>4, <2>5, Zenon
<1> QED
  BY <1>1, <1>2, <1>3, <1>4, <1>5, <1>6, <1>7, Zenon DEF Kinds

\* Once ordered, the plans of a command stay as they are.
OrderFixed ==
    Phase' \in Staging \cup Hooking =>
        BuildOrder \/ (Phase \in Staging \cup Hooking /\ UNCHANGED <<order, plan, cmd>>)

LEMMA PhaseStep ==
    ASSUME Types, ControlKept, Kinds \/ UNCHANGED vars
    PROVE  OrderFixed
<1>1. CASE \/ UNCHANGED vars \/ Batch \/ BatchReturns \/ KillBatch
           \/ \E n \in Names : Publish(n)
  <2>1. UNCHANGED <<pc, removing, order, plan, cmd>>
    BY <1>1, Zenon DEF vars, Batch, BeginBatch, BatchReturns, KillBatch, Publish, plan, progress
  <2> QED
    BY <2>1, Zenon DEF OrderFixed, Phase
<1>2. CASE \/ (\E v : Ends(v)) \/ Command \/ NextChild
           \/ PlanInstalled \/ PlanMissing \/ PlanPackage \/ KeepDependency
  <2>1. Command \/ NextChild => pc' \in {"plan", "confirm"}
    BY BeginFacts, Zenon
  <2>2. pc' \in {"idle", "plan", "confirm", "remove"}
    BY <1>2, <2>1, Zenon DEF Ends, Return, PlanInstalled, PlanMissing, PlanPackage,
       KeepDependency, Goto
  <2> QED
    BY <2>2, Zenon DEF OrderFixed, Phase, Removal, Staging, Copying, Hooking
<1>3. CASE Removes
  <2>1. CallRemove(Head(queue), "remove")
    BY <1>3, Zenon DEF Removes, ConfirmRemove, RemoveDependency, RemovePackage
  <2> QED
    BY <2>1, Zenon DEF CallRemove, Goto, OrderFixed, Phase, Removal, Staging, Copying, Hooking
<1>4. CASE \/ Pass \/ StageOld \/ Copy \/ WriteManifest \/ SaveHook \/ RefreshCache
           \/ RunHook \/ Unlink
  BY <1>4, Zenon DEF OrderFixed, Phase, Removal, Staging, Copying, Hooking, ControlKept,
     NotRemoving,
      Pass, AskInstall, ConfirmInstall, Extract, StageNew, Staged, HooksDone, RunRemoveHook,
      StageOld,
      Copy, WriteManifest, SaveHook, RefreshCache, RunHook, Unlink, CallRemove, Goto, plan,
      progress
<1>5. CASE CopyFails \/ ManifestFails \/ SaveHookFails \/ HookFails \/ Resumes \/ Unlist
  <2>1. pc \in Removal => removing.back \in {"remove", "copy", "stage", "hook"}
    BY Zenon DEF Types, CmdT, ControlKept
  <2> QED
    BY <1>5, <2>1, Zenon DEF OrderFixed, Phase, Removal, Staging, Copying, Hooking,
       ControlKept, NotRemoving,
        CopyFails, ManifestFails, SaveHookFails, HookFails, Resumes, GiveUp, Unlist, CallRemove,
        Goto, plan, progress
<1>6. CASE BuildOrder
  BY <1>6, Zenon DEF OrderFixed
<1> QED
  BY <1>1, <1>2, <1>3, <1>4, <1>5, <1>6, Zenon DEF Kinds

\* Steps that change neither the disk nor how far the command is with its plans.
Quiet ==
    \/ Pass \/ StageOld \/ Batch \/ BatchReturns \/ KillBatch
    \/ \E n \in Names : Publish(n)
    \/ UNCHANGED vars

\* Steps with no staging or hook to follow, or after an error.
Aside ==
    \/ \E v : Ends(v)
    \/ PlanInstalled \/ PlanMissing \/ PlanPackage \/ CopyFails \/ ManifestFails
    \/ SaveHookFails \/ HookFails \/ Resumes \/ Removes \/ KeepDependency
    \/ Command \/ NextChild

LEMMA QuietOrAside ==
    ASSUME Kinds \/ UNCHANGED vars
    PROVE  \/ Quiet \/ Aside \/ BuildOrder \/ Copy \/ WriteManifest \/ SaveHook
           \/ RefreshCache \/ RunHook \/ Unlink \/ Unlist
  BY Zenon DEF Kinds, Quiet, Aside

LEMMA QuietFacts ==
    ASSUME Types, ControlKept, Quiet
    PROVE  /\ UNCHANGED <<disk, progress, plan, cmd, rc>>
           /\ pc' = "idle" <=> pc = "idle"
           /\ pc' \in {"manifest", "save", "plan"} => pc' = pc
           /\ Phase' \in Staging => Phase \in Staging /\ (Phase \in Copying => Phase' \in Copying)
           /\ Phase' \in Hooking => Phase \in Hooking
<1> USE DEF Phase, Removal, Staging, Copying, Hooking
<1>1. CASE Pass
  BY <1>1, Zenon DEF Pass, AskInstall, ConfirmInstall, Extract, StageNew, Staged, HooksDone,
              RunRemoveHook, Planned, Goto
<1>2. CASE StageOld
  BY <1>2, Zenon DEF StageOld, CallRemove, Goto
<1>3. CASE ~Pass /\ ~StageOld
  BY <1>3, Zenon DEF Quiet, Batch, BeginBatch, BatchReturns, KillBatch, Publish, vars
<1> QED
  BY <1>1, <1>2, <1>3, Zenon

LEMMA AsideFacts ==
    ASSUME Types, ControlKept, Aside
    PROVE  /\ Phase' \notin Staging \cup Hooking \/ errors'
           /\ pc' \notin {"manifest", "save"}
<1> USE DEF Phase, Removal, Staging, Copying, Hooking
<1>1. CASE \E v : Ends(v)
  BY <1>1, Zenon DEF Ends, Return
<1>2. CASE PlanInstalled \/ PlanMissing \/ PlanPackage \/ KeepDependency
  BY <1>2, Zenon DEF PlanInstalled, PlanMissing, PlanPackage, KeepDependency, Goto
<1>3. CASE CopyFails \/ ManifestFails
  BY <1>3, Zenon DEF CopyFails, ManifestFails, GiveUp, Goto
<1>4. CASE SaveHookFails \/ HookFails
  BY <1>4, Zenon DEF SaveHookFails, HookFails, CallRemove, Goto
<1>5. CASE Resumes
  BY <1>5 DEF Resumes, GiveUp, Goto, progress, ControlKept
<1>6. CASE Removes
  <2>1. CallRemove(Head(queue), "remove")
    BY <1>6, Zenon DEF Removes, ConfirmRemove, RemoveDependency, RemovePackage
  <2> QED
    BY <2>1, Zenon DEF CallRemove, Goto
<1>7. CASE Command \/ NextChild
  <2>1. pc' \in {"plan", "confirm"}
    BY <1>7, BeginFacts, Zenon
  <2> QED
    BY <2>1, Zenon
<1> QED
  BY <1>1, <1>2, <1>3, <1>4, <1>5, <1>6, <1>7, Zenon DEF Aside

-----------------------------------------------------------------------------
(* The initial states.                                                     *)

LEMMA NoCommandFacts ==
    /\ NoCommand.op = "none"
    /\ NoCommand \in [op : Operations \cup {"none"}, selector : Selectors,
                      with_deps : BOOLEAN, no_deps : BOOLEAN]
<1>1. \E s : s \in Selectors
  <2>1. PICK n : n \in Names
    BY InstallAssumption, Zenon
  <2>2. <<n, 0>> \in Selectors
    BY <2>1, InstallAssumption DEF Selectors
  <2> QED
    BY <2>2, Zenon
<1>2. (CHOOSE s \in Selectors : TRUE) \in Selectors
  BY <1>1, Zenon
<1> DEFINE s == CHOOSE s \in Selectors : TRUE
<1> HIDE DEF s
<1>3. NoCommand = [op |-> "none", selector |-> s, with_deps |-> FALSE, no_deps |-> FALSE]
  BY Zenon DEF NoCommand, s
<1>4. s \in Selectors
  BY <1>2, Zenon DEF s
<1> QED
  BY <1>3, <1>4, Zenon

LEMMA TypesInit == Init => Types
<1> SUFFICES ASSUME Init PROVE Types
  BY Zenon
<1>1. /\ <<>> \in Seq(Selectors) /\ <<>> \in Seq(Plan) /\ Len(<<>>) = 0
      /\ 0 \in 0..MaxVersion /\ 1 \in 0..MaxVersion /\ 0 \in 0..MaxCommands
  BY InstallAssumption
<1>2. latest \in [Names -> 0..MaxVersion]
  <2>1. latest \in [Names -> 0..1] /\ \A v \in 0..1 : v \in 0..MaxVersion
    BY InstallAssumption DEF Init
  <2> QED
    BY <2>1, Zenon
<1>3. WorldT
  BY <1>1, <1>2, InstallAssumption DEF Init, WorldT, NoBatch
<1>4. DiskT
  <2>1. listed \in SUBSET Packages
    BY <1>1, PairFacts, InstallAssumption DEF Init
  <2>2. saved \in SUBSET Packages
    BY <2>1, Zenon DEF Init
  <2>3. files \in [Names -> 0..MaxVersion]
    BY <1>1, Zenon DEF Init
  <2> QED
    BY <2>1, <2>2, <2>3, Zenon DEF DiskT
<1>5. CmdT
  BY NoCommandFacts, Zenon DEF Init, CmdT, NotRemoving, Steps
<1>6. PlanT
  <2>1. queue_idx \in 1..(Len(queue) + 1)
    BY <1>1 DEF Init
  <2> QED
    BY <1>1, <2>1, Zenon DEF Init, PlanT
<1>7. ProgressT
  <2>1. at \in 1..(Len(order) + 1)
    BY <1>1 DEF Init
  <2>2. errors \in BOOLEAN
    BY Zenon DEF Init
  <2> QED
    BY <1>1, <2>1, <2>2, Zenon DEF Init, ProgressT
<1> QED
  BY <1>3, <1>4, <1>5, <1>6, <1>7, Zenon DEF Types

LEMMA ControlInit == Init => ControlKept
  BY DEF Init, ControlKept, Phase, Removal, Copying, Staging, Hooking,
     Early, NotRemoving

LEMMA PlansInit == Init => PlansKept
  BY DEF Init, PlansKept, Phase, Removal, Staging, Copying, Hooking

LEMMA StagedInit == Init => StagedKept
  BY Zenon DEF Init, StagedKept, Phase, Removal, Staging, Copying, Hooking

-----------------------------------------------------------------------------
(* Operators of the model.                                                 *)

LEMMA ConcatFacts ==
    ASSUME NEW S, NEW s \in Seq(S), NEW t \in Seq(S)
    PROVE  /\ s \o t \in Seq(S)
           /\ Len(s \o t) = Len(s) + Len(t)
           /\ Range(s \o t) = Range(s) \cup Range(t)
<1>1. /\ s \o t \in Seq(S) /\ Len(s \o t) = Len(s) + Len(t)
      /\ DOMAIN s = 1..Len(s) /\ DOMAIN t = 1..Len(t) /\ Len(s) \in Nat /\ Len(t) \in Nat
      /\ DOMAIN (s \o t) = 1..(Len(s) + Len(t))
  OBVIOUS
<1>2. /\ \A k \in 1..Len(s) : (s \o t)[k] = s[k]
      /\ \A k \in 1..Len(t) : (s \o t)[Len(s) + k] = t[k]
  OBVIOUS
<1>3. \A k \in 1..(Len(s) + Len(t)) : k \in 1..Len(s) \/ k - Len(s) \in 1..Len(t)
  BY <1>1
<1>4. \A k \in 1..(Len(s) + Len(t)) : (s \o t)[k] \in Range(s) \cup Range(t)
  <2> TAKE k \in 1..(Len(s) + Len(t))
  <2>1. CASE k \in 1..Len(s)
    BY <1>1, <1>2, <2>1, Zenon DEF Range
  <2>2. CASE k - Len(s) \in 1..Len(t)
    <3>1. (s \o t)[Len(s) + (k - Len(s))] = t[k - Len(s)] /\ Len(s) + (k - Len(s)) = k
      BY <1>1, <1>2, <2>2
    <3> QED
      BY <1>1, <2>2, <3>1, Zenon DEF Range
  <2> QED
    BY <1>3, <2>1, <2>2, Zenon
<1>5. \A k \in 1..Len(s) : k \in 1..(Len(s) + Len(t))
  BY <1>1
<1>6. \A k \in 1..Len(t) : Len(s) + k \in 1..(Len(s) + Len(t))
  BY <1>1
<1>7. Range(s \o t) \subseteq Range(s) \cup Range(t)
  BY <1>1, <1>4, Zenon DEF Range
<1>8. Range(s) \subseteq Range(s \o t)
  BY <1>1, <1>2, <1>5, Zenon DEF Range
<1>9. Range(t) \subseteq Range(s \o t)
  BY <1>1, <1>2, <1>6, Zenon DEF Range
<1> QED
  BY <1>1, <1>7, <1>8, <1>9, Zenon

\* kept after k elements.
IsKept(f, S, s, keep, n) ==
    /\ f \in [0..n -> Seq(S)]
    /\ f[0] = <<>>
    /\ \A k \in 1..n : f[k] = f[k - 1] \o IF s[k] \in keep THEN <<s[k]>> ELSE <<>>

LEMMA KeptExists ==
    ASSUME NEW S, NEW s \in Seq(S), NEW keep
    PROVE  \E f : IsKept(f, S, s, keep, Len(s))
<1> DEFINE n == Len(s)
           One(k) == IF s[k] \in keep THEN <<s[k]>> ELSE <<>>
<1>1. n \in Nat /\ \A k \in 1..n : One(k) \in Seq(S)
  OBVIOUS
<1> HIDE DEF n
<1> SUFFICES ASSUME ~ \E f : IsKept(f, S, s, keep, n) PROVE FALSE
  BY Zenon DEF n
<1> DEFINE Bad == {m \in 0..n : ~ \E f : IsKept(f, S, s, keep, m)}
<1>2. Bad \in SUBSET Nat /\ n \in Bad
  BY <1>1
<1>3. PICK m \in Bad : \A y \in Bad : m <= y
  BY <1>2, LeastNat, Zenon
<1>4. m # 0
  <2>1. IsKept([k \in 0..0 |-> <<>>], S, s, keep, 0)
    BY DEF IsKept
  <2> QED
    BY <2>1, Zenon
<1>5. m - 1 \in 0..n /\ m \in 1..n /\ ~(m <= m - 1) /\ m \in Nat
  BY <1>1, <1>3, <1>4
<1>6. PICK f : IsKept(f, S, s, keep, m - 1)
  BY <1>3, <1>5, Zenon
<1> DEFINE g == [k \in 0..m |-> IF k = m THEN f[m - 1] \o One(m) ELSE f[k]]
<1>7. \A k \in 0..m : k # m => k \in 0..(m - 1)
  BY <1>5
<1>8. f[m - 1] \in Seq(S) /\ One(m) \in Seq(S)
  BY <1>1, <1>5, <1>6 DEF IsKept
<1> HIDE DEF One
<1>9. f[m - 1] \o One(m) \in Seq(S)
  BY <1>8, ConcatFacts, Zenon
<1>10. g \in [0..m -> Seq(S)]
  BY <1>6, <1>7, <1>9, Zenon DEF IsKept
<1>11. g[0] = <<>>
  BY <1>4, <1>5, <1>6 DEF IsKept
<1>12. ASSUME NEW k \in 1..m PROVE g[k] = g[k - 1] \o One(k)
  <2>1. k \in 0..m /\ k - 1 \in 0..m /\ k - 1 # m
    BY <1>5
  <2>2. CASE k = m
    BY <2>1, <2>2, Zenon
  <2>3. CASE k # m
    <3>1. k \in 1..(m - 1)
      BY <1>5, <2>3
    <3>2. f[k] = f[k - 1] \o One(k)
      BY <1>6, <3>1, Zenon DEF IsKept, One
    <3> QED
      BY <2>1, <2>3, <3>2, Zenon
  <2> QED
    BY <2>2, <2>3, Zenon
<1>13. IsKept(g, S, s, keep, m)
  BY <1>10, <1>11, <1>12, Zenon DEF IsKept, One
<1> QED
  BY <1>3, <1>13, Zenon

LEMMA KeptFacts ==
    ASSUME NEW S, NEW s \in Seq(S), NEW keep
    PROVE  /\ Kept(s, keep) \in Seq(S)
           /\ Range(Kept(s, keep)) = Range(s) \cap keep
<1> DEFINE n == Len(s)
           One(k) == IF s[k] \in keep THEN <<s[k]>> ELSE <<>>
           Body(f) == [k \in 0..n |-> IF k = 0 THEN <<>> ELSE f[k - 1] \o One(k)]
           g == CHOOSE f : f = Body(f)
           Seen(k) == {s[j] : j \in 1..k} \cap keep
<1>1. /\ n \in Nat /\ Range(s) = {s[j] : j \in 1..n}
      /\ \A k \in 1..n : One(k) \in Seq(S) /\ Range(One(k)) = {s[k]} \cap keep
  BY DEF Range
<1>2. PICK f : IsKept(f, S, s, keep, n)
  BY KeptExists, Zenon
<1>3. Kept(s, keep) = g[n]
  BY Zenon DEF Kept
<1> HIDE DEF n
<1>4. \A k \in 0..n : k # 0 => k \in 1..n
  BY <1>1
<1>5. f = Body(f)
  BY <1>2, <1>4, Zenon DEF IsKept
<1> HIDE DEF One
<1>6. g = Body(g)
  BY <1>5, Zenon
<1> HIDE DEF g
<1>7. g[0] = <<>> /\ \A k \in 1..n : g[k] = g[k - 1] \o One(k)
  <2>1. 0 \in 0..n /\ \A k \in 1..n : k \in 0..n /\ k # 0
    BY <1>1
  <2> QED
    BY <1>6, <2>1, Zenon
<1> DEFINE Bad == {k \in 0..n : ~ (g[k] \in Seq(S) /\ Range(g[k]) = Seen(k))}
<1>8. 0 \notin Bad
  <2>1. Range(<<>>) = {} /\ Seen(0) = {} /\ <<>> \in Seq(S)
    BY DEF Range
  <2> QED
    BY <1>7, <2>1, Zenon
<1>9. Bad = {}
  <2> SUFFICES ASSUME Bad # {} PROVE FALSE
    BY Zenon
  <2>1. Bad \in SUBSET Nat
    BY <1>1
  <2>2. PICK m \in Bad : \A y \in Bad : m <= y
    BY <2>1, LeastNat, Zenon
  <2>3. m \in 1..n /\ m - 1 \in 0..n /\ ~(m <= m - 1) /\ m \in Nat
    BY <1>1, <1>8, <2>2
  <2>4. g[m - 1] \in Seq(S) /\ Range(g[m - 1]) = Seen(m - 1)
    BY <2>2, <2>3, Zenon
  <2>5. g[m] = g[m - 1] \o One(m)
    BY <1>7, <2>3, Zenon
  <2>6. g[m] \in Seq(S) /\ Range(g[m]) = Seen(m - 1) \cup ({s[m]} \cap keep)
    BY <1>1, <2>3, <2>4, <2>5, ConcatFacts
  <2>7. 1..m = 1..(m - 1) \cup {m}
    BY <2>3
  <2>8. Seen(m) = Seen(m - 1) \cup ({s[m]} \cap keep)
    BY <2>7, Zenon
  <2> QED
    BY <2>2, <2>6, <2>8, Zenon
<1>10. n \in 0..n
  BY <1>1
<1> QED
  BY <1>1, <1>3, <1>9, <1>10, Zenon

LEMMA ResolveFacts ==
    ASSUME WorldT, NEW s \in Selectors, Published(s)
    PROVE  /\ Resolve(s) \in Packages /\ Base(Resolve(s)) = Base(s)
           /\ Version(s) # 0 => Resolve(s) = s
<1>1. Base(s) \in Names /\ latest[Base(s)] \in 1..MaxVersion
  BY PairFacts, InstallAssumption DEF WorldT, Published
<1> QED
  BY <1>1, PairFacts, Zenon DEF Resolve, Base, Version

\* What update --all goes through.
LEMMA UpdateListFacts ==
    ASSUME WorldT, DiskT, NEW list \in check_all_updates_from_manifest
    PROVE  /\ list \in Seq(Selectors)
           /\ \A k \in DOMAIN list : Version(list[k]) # 0
           /\ \A j, k \in DOMAIN list : Base(list[j]) = Base(list[k]) => list[j] = list[k]
<1>1. PICK o \in UNION {Bijection(1..n, Outdated) : n \in 0..MaxCommands} :
            list = [k \in DOMAIN o |-> <<Base(o[k]), latest[Base(o[k])]>>]
  BY Zenon DEF check_all_updates_from_manifest
<1>2. Outdated \in SUBSET Packages
  BY Zenon DEF Outdated, collect_installed_update_packages, DiskT
<1>3. PICK n \in 0..MaxCommands : o \in Bijection(1..n, Outdated)
  BY <1>1, Zenon
<1>4. DOMAIN o = 1..n /\ \A k \in DOMAIN o : o[k] \in Outdated
  BY <1>3, Zenon DEF Bijection, Surjection, Injection
<1>5. \A k \in DOMAIN o : /\ Base(o[k]) \in Names /\ latest[Base(o[k])] \in 1..MaxVersion
  <2> TAKE k \in DOMAIN o
  <2>1. o[k] \in Packages /\ latest[Base(o[k])] > Version(o[k])
    BY <1>2, <1>4, Zenon DEF Outdated
  <2>2. Base(o[k]) \in Names /\ Version(o[k]) \in 1..MaxVersion
    BY <2>1, PairFacts, Zenon
  <2>3. latest[Base(o[k])] \in 0..MaxVersion
    BY <2>2, Zenon DEF WorldT
  <2> QED
    BY <2>1, <2>2, <2>3, InstallAssumption
<1>6. \A k \in DOMAIN o : list[k] \in Selectors
  BY <1>1, <1>5, PairFacts, Zenon
<1>7. list \in Seq(Selectors)
  BY <1>1, <1>3, <1>4, <1>6, InstallAssumption
<1> QED
  BY <1>1, <1>5, <1>7 DEF Base, Version

-----------------------------------------------------------------------------
(* Every variable keeps its type.                                          *)

LEMMA CollectedFacts ==
    ASSUME WorldT
    PROVE  /\ Collected \in [op : {"none", "install", "update"}, all : Seq(Selectors),
                  next : Nat, failed : BOOLEAN, declined : BOOLEAN,
                  rc : {"none", "ok", "failed", "killed"}]
           /\ Collected.op = batch.op /\ Collected.all = batch.all
           /\ Collected.next = batch.next /\ Collected.rc = batch.rc
  BY Zenon DEF WorldT, Collected

LEMMA WorldStep ==
    ASSUME Types, Kinds \/ UNCHANGED vars
    PROVE  WorldT'
<1> USE DEF Types
<1>1. CASE UNCHANGED world
  BY <1>1, Zenon DEF world, WorldT
<1>2. CASE Command
  <2>1. batch' = NoBatch /\ commands' = commands + 1 /\ commands < MaxCommands
        /\ UNCHANGED <<deps, latest>>
    BY <1>2, Zenon DEF Command, InstallCommand, UpdateCommand, RemoveCommand, Alone,
       BeginPlanning, Begin
  <2> QED
    BY <2>1, InstallAssumption DEF WorldT, NoBatch
<1>3. CASE NextChild
  <2>1. /\ batch' = [Collected EXCEPT !.next = @ + 1] /\ batch.next <= Len(batch.all)
        /\ commands' = commands + 1 /\ commands < MaxCommands /\ UNCHANGED <<deps, latest>>
    BY <1>3, Zenon DEF NextChild, BeginPlanning, Begin
  <2>2. batch.next \in Nat /\ Len(batch.all) \in Nat
    BY DEF WorldT
  <2>3. /\ batch' \in [op : {"none", "install", "update"}, all : Seq(Selectors),
                  next : Nat, failed : BOOLEAN, declined : BOOLEAN,
                  rc : {"none", "ok", "failed", "killed"}]
        /\ batch'.all = batch.all /\ batch'.next = batch.next + 1
    BY <2>1, <2>2, CollectedFacts
  <2>4. batch'.next \in 1..(Len(batch'.all) + 1)
    BY <2>1, <2>2, <2>3 DEF WorldT
  <2> QED
    BY <2>1, <2>3, <2>4, InstallAssumption DEF WorldT
<1>4. CASE Batch
  <2>1. PICK op \in {"install", "update"}, list \in Seq(Selectors) : BeginBatch(op, list)
    BY <1>4, InstallAssumption, UpdateListFacts, Zenon DEF Batch
  <2>2. /\ batch' = [NoBatch EXCEPT !.op = op, !.all = list]
        /\ UNCHANGED <<deps, latest, commands>>
    BY <2>1, Zenon DEF BeginBatch
  <2>3. batch' = [op |-> op, all |-> list, next |-> 1, failed |-> FALSE,
                  declined |-> FALSE, rc |-> "none"]
    BY <2>2, Zenon DEF NoBatch
  <2>4. Len(list) \in Nat
    OBVIOUS
  <2>5. batch'.next \in 1..(Len(batch'.all) + 1)
    BY <2>3, <2>4
  <2>6. batch' \in [op : {"none", "install", "update"}, all : Seq(Selectors),
                  next : Nat, failed : BOOLEAN, declined : BOOLEAN,
                  rc : {"none", "ok", "failed", "killed"}]
    BY <2>3, Zenon
  <2> QED
    BY <2>2, <2>5, <2>6, Zenon DEF WorldT
<1>5. CASE BatchReturns
  <2>1. batch' = [Collected EXCEPT !.rc = IF Collected.failed THEN "failed" ELSE "ok"]
        /\ UNCHANGED <<deps, latest, commands>>
    BY <1>5, Zenon DEF BatchReturns
  <2>2. /\ batch' \in [op : {"none", "install", "update"}, all : Seq(Selectors),
                  next : Nat, failed : BOOLEAN, declined : BOOLEAN,
                  rc : {"none", "ok", "failed", "killed"}]
        /\ batch'.all = batch.all /\ batch'.next = batch.next
    BY <2>1, CollectedFacts, Zenon
  <2> QED
    BY <2>1, <2>2, Zenon DEF WorldT
<1>6. CASE KillBatch
  BY <1>6, Zenon DEF KillBatch, WorldT
<1>7. CASE \E n \in Names : Publish(n)
  <2>1. PICK n \in Names : Publish(n)
    BY <1>7, Zenon
  <2>2. latest[n] \in 0..MaxVersion /\ latest[n] < MaxVersion /\ latest' = [latest EXCEPT ![n] = @ + 1]
        /\ UNCHANGED <<deps, commands, batch>>
    BY <2>1, Zenon DEF Publish, WorldT
  <2>3. latest[n] + 1 \in 0..MaxVersion
    BY <2>2, InstallAssumption
  <2> QED
    BY <2>2, <2>3, Zenon DEF WorldT
<1> QED
  BY <1>1, <1>2, <1>3, <1>4, <1>5, <1>6, <1>7, Frames, Zenon

\* The plan being staged.
LEMMA CurrentFacts ==
    ASSUME Types, ControlKept, Phase \in Copying
    PROVE  /\ at \in DOMAIN order /\ at \in 1..Len(order) /\ Len(order) \in Nat
           /\ Current \in Packages /\ Base(Current) \in Names
           /\ Version(Current) \in 1..MaxVersion
<1>1. at \in 1..Len(order) /\ DOMAIN order = 1..Len(order) /\ Len(order) \in Nat
  BY DEF Types, ProgressT, ControlKept
<1>2. order[at] \in Plan
  BY <1>1 DEF Types, ProgressT
<1>3. Current \in Packages
  BY <1>2, Zenon DEF Current, Plan
<1> QED
  BY <1>1, <1>3, PairFacts, Zenon

LEMMA DiskStep ==
    ASSUME Types, ControlKept, Kinds \/ UNCHANGED vars
    PROVE  DiskT'
<1> USE DEF Types
<1>1. CASE UNCHANGED disk
  BY <1>1, Zenon DEF disk, DiskT
<1>2. CASE Copy \/ WriteManifest \/ CopyFails \/ ManifestFails \/ SaveHook
  <2>1. Phase \in Copying
    BY <1>2, Zenon DEF Copy, WriteManifest, CopyFails, ManifestFails, SaveHook, Phase, Copying,
       Removal
  <2>2. Current \in Packages /\ Base(Current) \in Names /\ Version(Current) \in 0..MaxVersion
    BY <2>1, CurrentFacts, InstallAssumption
  <2>3. 0 \in 0..MaxVersion
    BY InstallAssumption
  <2> HIDE DEF Types
  <2>4. DiskT
    BY Zenon DEF Types
  <2> QED
    BY <1>2, <2>2, <2>3, <2>4, Zenon DEF Copy, WriteManifest, CopyFails, ManifestFails,
       SaveHook, DiskT
<1>3. CASE Unlink
  <2>1. Base(removing.package) \in Names /\ 0 \in 0..MaxVersion
    BY <1>3, PairFacts, InstallAssumption DEF Unlink, DiskT
  <2> QED
    BY <1>3, <2>1, Zenon DEF Unlink, DiskT
<1>4. CASE Unlist
  BY <1>4, Zenon DEF Unlist, DiskT
<1> QED
  BY <1>1, <1>2, <1>3, <1>4, Frames, Zenon

LEMMA PlanStep ==
    ASSUME Types, ControlKept, Kinds \/ UNCHANGED vars
    PROVE  PlanT'
<1>1. CASE UNCHANGED plan
  BY <1>1, Zenon DEF plan, PlanT, Types
<1>2. CASE \E v : Ends(v)
  <2>1. UNCHANGED plan \/ Fresh(<<>>)
    BY <1>2, Zenon DEF Ends, Return
  <2>2. <<>> \in Seq(Selectors) /\ <<>> \in Seq(Plan) /\ Len(<<>>) = 0
    OBVIOUS
  <2>3. CASE Fresh(<<>>)
    <3>1. queue' = <<>> /\ queue_idx' = 1 /\ plans' = <<>> /\ missing' = {}
      BY <2>3, Zenon DEF Fresh
    <3> QED
      BY <2>2, <3>1 DEF PlanT
  <2> QED
    BY <1>1, <2>1, <2>3, Zenon
<1>3. CASE PlanInstalled \/ PlanMissing
  <2>1. /\ queue_idx \in Nat /\ Len(queue) \in Nat /\ queue_idx <= Len(queue) /\ queue_idx >= 1
        /\ Selector \in Selectors
    BY <1>3 DEF PlanInstalled, PlanMissing, Planning, Types, PlanT, Selector
  <2> QED
    BY <1>3, <2>1 DEF PlanInstalled, PlanMissing, Types, PlanT
<1>4. CASE PlanPackage
  <2> DEFINE p == Resolve(Selector)
             q == [selector |-> Selector, package |-> p, old |-> InstalledFor(p),
                   installed |-> p \in listed /\ ~(cmd.op = "update" /\ cmd.with_deps)]
  <2>1. /\ queue_idx \in Nat /\ Len(queue) \in Nat /\ queue_idx <= Len(queue) /\ queue_idx >= 1
        /\ Selector \in Selectors
    BY <1>4 DEF PlanPackage, Planning, Types, PlanT, Selector
  <2>2. Published(Selector) /\ plans' = Append(plans, q) /\ queue' = queue \o NewDeps(p)
        /\ queue_idx' = queue_idx + 1 /\ missing' = missing
    BY <1>4, Zenon DEF PlanPackage
  <2>3. p \in Packages
    BY <2>1, <2>2, ResolveFacts, Zenon DEF Types
  <2>4. InstalledFor(p) \in Packages \cup {Nothing}
    BY InstalledFacts, Zenon DEF InstalledFor, Types, DiskT
  <2> HIDE DEF p
  <2>5. q \in Plan
    BY <2>1, <2>3, <2>4, Zenon DEF Plan
  <2> HIDE DEF q
  <2>6. plans' \in Seq(Plan)
    BY <2>2, <2>5 DEF Types, PlanT
  <2>7. NewDeps(p) \in Seq(Selectors)
    <3>1. deps[p] \in Seq(Selectors)
      BY <2>3, Zenon DEF Types, WorldT
    <3> QED
      BY <3>1, KeptFacts DEF NewDeps
  <2>8. queue' \in Seq(Selectors) /\ Len(queue') = Len(queue) + Len(NewDeps(p))
    BY <2>2, <2>7, ConcatFacts, Zenon DEF Types, PlanT
  <2>9. queue_idx' \in 1..(Len(queue') + 1)
    BY <2>1, <2>2, <2>7, <2>8
  <2> QED
    BY <2>2, <2>6, <2>8, <2>9, Zenon DEF Types, PlanT
<1>5. CASE Removes \/ KeepDependency
  <2>1. queue_idx = 1 /\ queue \in Seq(Selectors) /\ queue # <<>>
        /\ UNCHANGED <<queue_idx, plans, missing>>
    <3>1. queue_idx = 1 /\ queue # <<>>
      BY <1>5, Zenon DEF Removes, KeepDependency, ConfirmRemove, RemoveDependency, ControlKept,
         Phase, Removal
    <3>2. UNCHANGED <<queue_idx, plans, missing>>
      BY <1>5, Zenon DEF Removes, KeepDependency, ConfirmRemove, RemoveDependency, RemovePackage
    <3> QED
      BY <3>1, <3>2, Zenon DEF Types, PlanT
  <2>2. Tail(queue) \in Seq(Selectors)
    BY <2>1
  <2>3. queue' \in Seq(Selectors)
    <3>1. CASE KeepDependency
      BY <2>2, <3>1, Zenon DEF KeepDependency
    <3>2. CASE Removes
      <4> DEFINE h == Head(queue)
      <4>1. PICK rest : RemovePackage(h, rest) /\ h \in Packages /\ (rest = <<>> \/ rest = Tail(queue))
        BY <3>2, Zenon DEF Removes, ConfirmRemove, RemoveDependency, Types, DiskT
      <4> HIDE DEF h
      <4>2. rest \in Seq(Selectors)
        <5>1. CASE rest = <<>>
          BY <5>1
        <5>2. CASE rest = Tail(queue)
          BY <2>2, <5>2, Zenon
        <5> QED
          BY <4>1, <5>1, <5>2, Zenon
      <4>3. queue' = deps[h] \o rest \/ queue' = rest
        BY <4>1, Zenon DEF RemovePackage
      <4>4. deps[h] \in Seq(Selectors)
        BY <4>1, Zenon DEF Types, WorldT
      <4> QED
        <5>1. deps[h] \o rest \in Seq(Selectors)
          BY <4>2, <4>4, ConcatFacts, Zenon
        <5> QED
          BY <4>2, <4>3, <5>1, Zenon
    <3> QED
      BY <1>5, <3>1, <3>2, Zenon
  <2>4. Len(queue') \in Nat
    BY <2>3
  <2> QED
    BY <2>1, <2>3, <2>4 DEF Types, PlanT
<1>6. CASE Command \/ NextChild
  <2>1. PICK r \in Selectors : Fresh(<<r>>)
    BY <1>6, BeginFacts, Zenon
  <2>2. <<r>> \in Seq(Selectors) /\ Len(<<r>>) = 1
    OBVIOUS
  <2> QED
    BY <2>1, <2>2 DEF Fresh, PlanT
<1> QED
  BY <1>1, <1>2, <1>3, <1>4, <1>5, <1>6, Frames, Zenon

\* The orders of build_install_order hold every plan once.
LEMMA OrderFacts ==
    ASSUME Types, NEW o \in Orders
    PROVE  InOrder(o) \in Seq(Plan) /\ Range(InOrder(o)) = Todo
<1> DEFINE n == Len(plans)
           s == [k \in DOMAIN plans |-> plans[o[k]]]
<1>1. plans \in Seq(Plan) /\ n \in Nat /\ DOMAIN plans = 1..n
  BY DEF Types, PlanT
<1>2. o \in [1..n -> 1..n] /\ \A k \in 1..n : \E j \in 1..n : o[j] = k
  BY <1>1, Zenon DEF Orders, Bijection, Surjection
<1> HIDE DEF n
<1>3. s \in Seq(Plan)
  BY <1>1, <1>2
<1>4. InOrder(o) \in Seq(Plan) /\ Range(InOrder(o)) = Range(s) \cap Todo
  BY <1>3, KeptFacts, Zenon DEF InOrder
<1>5. Todo \subseteq Range(s)
  <2> SUFFICES ASSUME NEW q \in Todo PROVE q \in Range(s)
    BY Zenon
  <2>1. PICK k \in 1..n : q = plans[k]
    BY <1>1, Zenon DEF Todo
  <2>2. PICK j \in 1..n : o[j] = k
    BY <1>2, Zenon
  <2> QED
    BY <1>1, <2>1, <2>2, Zenon DEF Range
<1> QED
  BY <1>4, <1>5, Zenon

LEMMA ProgressStep ==
    ASSUME Types, ControlKept, Kinds \/ UNCHANGED vars
    PROVE  ProgressT'
<1>0. ProgressT /\ Len(order) \in Nat /\ at \in Nat /\ at >= 1
  BY DEF Types, ProgressT
<1>1. CASE UNCHANGED progress
  BY <1>0, <1>1, Zenon DEF progress, ProgressT
<1>2. ASSUME NEW q, Fresh(q) PROVE ProgressT'
  <2>1. order' = <<>> /\ at' = 1 /\ hooked' = {} /\ errors' = FALSE
    BY <1>2, Zenon DEF Fresh
  <2>2. <<>> \in Seq(Plan) /\ Len(<<>>) = 0
    OBVIOUS
  <2>3. at' \in 1..(Len(order') + 1) /\ order' \in Seq(Plan)
    BY <2>1, <2>2
  <2>4. errors' \in BOOLEAN
    BY <2>1, Zenon
  <2> QED
    BY <2>1, <2>3, <2>4, Zenon DEF ProgressT
<1>3. CASE \E v : Ends(v)
  <2>1. UNCHANGED progress \/ Fresh(<<>>)
    BY <1>3, Zenon DEF Ends, Return
  <2> QED
    BY <1>1, <1>2, <2>1, Zenon
<1>4. CASE Command \/ NextChild
  <2>1. PICK r \in Selectors : Fresh(<<r>>)
    BY <1>4, BeginFacts, Zenon
  <2> QED
    BY <1>2, <2>1, Zenon
<1>5. CASE BuildOrder
  <2>1. PICK o \in Orders : order' = InOrder(o)
    BY <1>5, Zenon DEF BuildOrder
  <2>2. order' \in Seq(Plan) /\ at = 1
    BY <1>5, <2>1, OrderFacts, Zenon DEF BuildOrder, ControlKept, Early
  <2>3. Len(order') \in Nat
    BY <2>2
  <2> QED
    BY <1>0, <1>5, <2>2, <2>3 DEF BuildOrder, ProgressT
<1>6. CASE RefreshCache
  BY <1>0, <1>6 DEF RefreshCache, ProgressT
<1>7. CASE CopyFails \/ ManifestFails \/ SaveHook \/ SaveHookFails \/ HookFails \/ RunHook \/ Resumes
  <2>1. UNCHANGED at \/ at <= Len(order)
    BY <1>7, Zenon DEF CopyFails, ManifestFails, SaveHook, SaveHookFails, HookFails, RunHook,
       Resumes,
                ControlKept, Phase, Copying, Removal, progress
  <2>2. UNCHANGED order /\ at' \in {at, at + 1}
    BY <1>7, Zenon DEF CopyFails, ManifestFails, SaveHook, SaveHookFails, HookFails, RunHook,
       Resumes,
                GiveUp, progress
  <2>3. at' \in 1..(Len(order') + 1)
    BY <1>0, <2>1, <2>2 DEF ProgressT
  <2>4. errors' \in BOOLEAN
    BY <1>0, <1>7, Zenon DEF CopyFails, ManifestFails, SaveHook, SaveHookFails, HookFails,
       RunHook, Resumes,
                GiveUp, progress, ProgressT
  <2>5. hooked' \in SUBSET Packages
    <3>1. CASE RunHook
      <4>1. at \in 1..Len(order) /\ order \in Seq(Plan)
        BY <1>0, <3>1 DEF RunHook, ProgressT
      <4>2. order[at] \in Plan
        BY <4>1
      <4>3. Current \in Packages
        BY <4>2, Zenon DEF Current, Plan
      <4> QED
        BY <1>0, <3>1, <4>3, Zenon DEF RunHook, ProgressT
    <3>2. CASE ~RunHook
      <4>1. UNCHANGED hooked
        BY <1>7, <3>2, Zenon DEF CopyFails, ManifestFails, SaveHook, SaveHookFails, HookFails,
           Resumes,
                          GiveUp, progress
      <4> QED
        BY <1>0, <4>1, Zenon DEF ProgressT
    <3> QED
      BY <3>1, <3>2, Zenon
  <2> QED
    BY <1>0, <2>2, <2>3, <2>4, <2>5, Zenon DEF ProgressT
<1> QED
  BY <1>1, <1>3, <1>4, <1>5, <1>6, <1>7, Frames, Zenon

LEMMA CmdStep ==
    ASSUME Types, ControlKept, Kinds \/ UNCHANGED vars
    PROVE  CmdT'
<1>0. CmdT
  BY Zenon DEF Types
<1>1. cmd' \in [op : Operations \cup {"none"}, selector : Selectors,
                 with_deps : BOOLEAN, no_deps : BOOLEAN]
  <2>1. CASE UNCHANGED cmd
    BY <1>0, <2>1, Zenon DEF CmdT
  <2>2. CASE \E v : Ends(v)
    <3>1. UNCHANGED cmd \/ cmd' = NoCommand
      BY <2>2, Zenon DEF Ends, Return
    <3> QED
      BY <2>1, <3>1, NoCommandFacts, Zenon
  <2>3. CASE Command \/ NextChild
    <3>1. PICK op \in Operations, s \in Selectors, with, without \in BOOLEAN : Begin(op, s, with, without)
      BY <2>3, BeginFacts, Zenon
    <3> QED
      BY <3>1, Zenon DEF Begin
  <2> QED
    BY <2>1, <2>2, <2>3, Frames, Zenon
<1>2. /\ pc' \in Steps
      /\ removing' \in [package : Packages \cup {Nothing},
                        back : {"none", "remove", "copy", "stage", "hook"}]
      /\ rc' \in {"none", "ok", "nothing", "cancelled", "failed", "killed"}
  <2>1. CASE \E v : Ends(v)
    BY <2>1 DEF Ends, Return, NotRemoving, Steps
  <2>2. CASE PlanInstalled \/ PlanMissing \/ PlanPackage \/ Pass \/ BuildOrder \/ Copy
             \/ WriteManifest \/ SaveHook \/ RefreshCache \/ RunHook \/ Unlink \/ KeepDependency
    <3>1. pc' \in Steps /\ UNCHANGED <<removing, rc>>
      BY <2>2, Zenon DEF PlanInstalled, PlanMissing, PlanPackage, Pass, BuildOrder, Copy,
         WriteManifest,
                  SaveHook, RefreshCache, RunHook, Unlink, KeepDependency, Goto, AskInstall,
                  ConfirmInstall, Extract, StageNew, Staged, HooksDone, RunRemoveHook, Steps
    <3> QED
      BY <1>0, <3>1, Zenon DEF CmdT
  <2>3. CASE CopyFails \/ ManifestFails \/ Resumes \/ Unlist
    <3>1. removing.back \in {"remove", "copy", "stage", "hook"} \/ CopyFails \/ ManifestFails
      BY <1>0, <2>3, Zenon DEF CmdT, ControlKept, Resumes, Unlist, Removal
    <3>2. pc' \in Steps /\ removing' = NotRemoving /\ UNCHANGED rc
      BY <2>3, <3>1, Zenon DEF CopyFails, ManifestFails, Resumes, Unlist, GiveUp, Goto, Steps
    <3> QED
      BY <1>0, <3>2, Zenon DEF CmdT, NotRemoving
  <2>4. CASE StageOld \/ SaveHookFails \/ HookFails \/ Removes
    <3>1. \E p \in Packages, back \in {"remove", "copy", "stage", "hook"} : CallRemove(p, back)
      <4>1. CASE StageOld \/ SaveHookFails \/ HookFails
        <5>0. pc = "save" => Phase \in Copying
          BY Zenon DEF Phase, Removal, Copying
        <5>1. at <= Len(order)
          BY <4>1, <5>0, Zenon DEF StageOld, SaveHookFails, HookFails, ControlKept
        <5>2. order \in Seq(Plan) /\ at \in 1..(Len(order) + 1)
          BY Zenon DEF Types, ProgressT
        <5>3. at \in 1..Len(order)
          BY <5>1, <5>2
        <5>4. order[at] \in Plan
          BY <5>2, <5>3
        <5> QED
          BY <4>1, <5>4, Zenon DEF StageOld, SaveHookFails, HookFails, Plan, Current
      <4>2. CASE Removes
        BY <4>2, Zenon DEF Removes, ConfirmRemove, RemoveDependency, RemovePackage, Types, DiskT
      <4> QED
        BY <2>4, <4>1, <4>2, Zenon
    <3> QED
      BY <1>0, <3>1 DEF CmdT, CallRemove, Goto, Steps
  <2>5. CASE Command \/ NextChild
    <3>1. rc' = "none" /\ UNCHANGED removing /\ pc' \in Steps
      BY <2>5, BeginFacts, Zenon DEF Begin, Steps
    <3> QED
      BY <1>0, <3>1, Zenon DEF CmdT
  <2>6. CASE Batch \/ BatchReturns \/ KillBatch \/ (\E n \in Names : Publish(n)) \/ UNCHANGED vars
    <3>1. UNCHANGED <<pc, removing, rc>>
      BY <2>6, Zenon DEF Batch, BeginBatch, BatchReturns, KillBatch, Publish, vars
    <3> QED
      BY <1>0, <3>1, Zenon DEF CmdT
  <2> QED
    BY <2>1, <2>2, <2>3, <2>4, <2>5, <2>6, Zenon DEF Kinds
<1> QED
  BY <1>1, <1>2, Zenon DEF CmdT

LEMMA TypesStep ==
    ASSUME Types, ControlKept, Kinds \/ UNCHANGED vars
    PROVE  Types'
  BY WorldStep, DiskStep, CmdStep, PlanStep, ProgressStep, Zenon DEF Types

LEMMA TypesOK == Types <=> TypeOK
  BY Zenon DEF Types, TypeOK, WorldT, DiskT, CmdT, PlanT, ProgressT

\* Every variable of the tool keeps its type, and a command is only ever where
\* its variables allow: remove_pkg_impl returns to the caller it has, and a plan
\* is staged or its hook run only while there is one.
THEOREM TypeCorrect == Spec => [](TypeOK /\ ControlKept)
<1>1. Init => Types /\ ControlKept
  BY TypesInit, ControlInit, Zenon
<1>2. (Types /\ ControlKept) /\ [Next]_vars => (Types /\ ControlKept)'
  BY StepKinds, TypesStep, ControlStep, Zenon
<1>3. Spec => [](Types /\ ControlKept)
  BY <1>1, <1>2, PTL DEF Spec
<1> QED
  BY <1>3, TypesOK, PTL

-----------------------------------------------------------------------------
(* The plans.                                                              *)

LEMMA PlansStep ==
    ASSUME Types, ControlKept, PlansKept, Kinds \/ UNCHANGED vars
    PROVE  PlansKept'
<1>1. \A k \in DOMAIN plans : Fits(plans[k])
  BY Zenon DEF PlansKept
<1>2. \A k \in DOMAIN plans' : Fits(plans'[k])
  <2>1. CASE UNCHANGED plans
    BY <1>1, <2>1, Zenon
  <2>2. ASSUME NEW s, Fresh(s) PROVE \A k \in DOMAIN plans' : Fits(plans'[k])
    <3>1. plans' = <<>>
      BY <2>2, Zenon DEF Fresh
    <3> QED
      BY <3>1
  <2>3. CASE \E v : Ends(v)
    <3>1. UNCHANGED plans \/ Fresh(<<>>)
      BY <2>3, Zenon DEF Ends, Return, plan
    <3> QED
      BY <2>1, <2>2, <3>1, Zenon
  <2>4. CASE PlanPackage
    <3> DEFINE p == Resolve(Selector)
               q == [selector |-> Selector, package |-> p, old |-> InstalledFor(p),
                     installed |-> p \in listed /\ ~(cmd.op = "update" /\ cmd.with_deps)]
    <3>1. Published(Selector) /\ plans' = Append(plans, q) /\ Selector \in Selectors
      BY <2>4 DEF PlanPackage, Planning, Types, PlanT, Selector
    <3>2. p \in Packages /\ Base(p) = Base(Selector) /\ (Version(Selector) # 0 => p = Selector)
      BY <3>1, ResolveFacts, Zenon DEF Types
    <3>3. InstalledFor(p) = Nothing \/ Base(InstalledFor(p)) = Base(p)
      BY InstalledFacts, Zenon DEF InstalledFor, Types, DiskT
    <3> HIDE DEF p
    <3>4. Fits(q)
      BY <3>2, <3>3, Zenon DEF Fits
    <3> HIDE DEF q
    <3>5. plans \in Seq(Plan)
      BY Zenon DEF Types, PlanT
    <3>6. \A k \in DOMAIN plans' : plans'[k] = q \/ (k \in DOMAIN plans /\ plans'[k] = plans[k])
      BY <3>1, <3>5
    <3> QED
      BY <1>1, <3>4, <3>6, Zenon
  <2>5. CASE Command \/ NextChild
    <3>1. PICK r \in Selectors : Fresh(<<r>>)
      BY <2>5, BeginFacts, Zenon
    <3> QED
      BY <2>2, <3>1, Zenon
  <2>6. CASE PlanInstalled \/ PlanMissing \/ Removes \/ KeepDependency \/ UNCHANGED plan
    BY <2>1, <2>6, Zenon DEF PlanInstalled, PlanMissing, Removes, KeepDependency, ConfirmRemove,
                      RemoveDependency, RemovePackage, plan
  <2> QED
    BY <2>3, <2>4, <2>5, <2>6, Frames, Zenon
<1>3. Phase' \in Staging \cup Hooking => Range(order') = Todo'
  <2> SUFFICES ASSUME Phase' \in Staging \cup Hooking PROVE Range(order') = Todo'
    BY Zenon
  <2>1. CASE BuildOrder
    <3>1. PICK o \in Orders : order' = InOrder(o)
      BY <2>1, Zenon DEF BuildOrder
    <3>2. Todo' = Todo
      BY <2>1, Zenon DEF BuildOrder, plan, Todo
    <3> QED
      BY <3>1, <3>2, OrderFacts, Zenon
  <2>2. CASE Phase \in Staging \cup Hooking /\ UNCHANGED <<order, plan>>
    BY <2>2, Zenon DEF PlansKept, plan, Todo
  <2> QED
    BY <2>1, <2>2, PhaseStep, Zenon DEF OrderFixed
<1> QED
  BY <1>2, <1>3, Zenon DEF PlansKept

\* The old version that an update removes is no package to install.
LEMMA PlanFacts ==
    ASSUME Types, PlansKept, Phase \in Staging \cup Hooking, NEW k \in DOMAIN order
    PROVE  /\ order[k] \in Plan /\ order[k] \in Todo
           /\ order[k].package \in Packages /\ Base(order[k].package) \in Names
           /\ Version(order[k].package) \in 1..MaxVersion
           /\ order[k].old = Nothing \/ Base(order[k].old) = Base(order[k].package)
           /\ k \in 1..Len(order) /\ Len(order) \in Nat
<1>1. order \in Seq(Plan) /\ k \in 1..Len(order) /\ Len(order) \in Nat
  BY DEF Types, ProgressT
<1>2. order[k] \in Plan
  BY <1>1
<1>3. order[k] \in Todo
  BY Zenon DEF PlansKept, Range
<1>4. Fits(order[k])
  BY <1>3, Zenon DEF Todo, PlansKept
<1>5. order[k].package \in Packages
  BY <1>2, Zenon DEF Plan
<1>6. /\ Base(order[k].package) \in Names
      /\ Version(order[k].package) \in 1..MaxVersion
  BY <1>5, PairFacts, Zenon
<1>7. order[k].old = Nothing \/ Base(order[k].old) = Base(order[k].package)
  BY <1>4, Zenon DEF Fits
<1> QED
  BY <1>1, <1>2, <1>3, <1>5, <1>6, <1>7, Zenon

-----------------------------------------------------------------------------
(* Staging.                                                                *)

LEMMA OnDiskKept ==
    ASSUME NEW k \in DOMAIN order, OnDisk(k), UNCHANGED order,
           \A p \in listed : Base(p) = Base(order[k].package) => p \in listed',
           files'[Base(order[k].package)] = files[Base(order[k].package)]
    PROVE  OnDisk(k)'
<1>1. PICK j \in DOMAIN order :
        /\ Base(order[j].package) = Base(order[k].package)
        /\ order[j].package \in listed
        /\ files[Base(order[j].package)] = Version(order[j].package)
  BY Zenon DEF OnDisk
<1>2. /\ order[j].package \in listed'
      /\ files'[Base(order[j].package)] = Version(order[j].package)
  BY <1>1, Zenon
<1> QED
  BY <1>1, <1>2, Zenon DEF OnDisk

\* An old version that is removed has the name of the plan being staged.
LEMMA RemovalFacts ==
    ASSUME Types, ControlKept, PlansKept, pc \in Removal, ~errors,
           Phase \in Staging \cup Hooking
    PROVE  /\ removing.back = "copy" /\ cmd.op = "update"
           /\ Base(removing.package) = Base(Current) /\ removing.package \in Packages
<1>1. removing.back = "copy"
  <2>1. removing.back \in {"none", "remove", "copy", "stage", "hook"}
    BY Zenon DEF Types, CmdT
  <2> QED
    BY <2>1, Zenon DEF ControlKept, Phase, Staging, Copying, Hooking
<1>2. Phase \in Copying
  BY <1>1, Zenon DEF Phase, Copying
<1>3. at \in DOMAIN order
  BY <1>2, CurrentFacts, Zenon
<1>4. removing.package = order[at].old /\ removing.package \in Packages /\ cmd.op = "update"
  BY <1>1, Zenon DEF ControlKept
<1> QED
  BY <1>1, <1>3, <1>4, PlanFacts, PairFacts, Zenon DEF Current

LEMMA StagedStep ==
    ASSUME Types, ControlKept, PlansKept, StagedKept, Kinds \/ UNCHANGED vars
    PROVE  StagedKept'
<1>0. Len(order) \in Nat /\ at \in Nat /\ DOMAIN order = 1..Len(order)
  BY DEF Types, ProgressT
<1>1. CASE Quiet
  <2>1. UNCHANGED <<order, at, hooked, errors, listed, files, Current>>
    BY <1>1, QuietFacts, Zenon DEF disk, progress, Current
  <2>2. \A k \in DOMAIN order : OnDisk(k) => OnDisk(k)'
    BY <2>1, OnDiskKept, Zenon
  <2> QED
    BY <1>1, <2>1, <2>2, QuietFacts, Zenon DEF StagedKept
<1>2. CASE Aside
  BY <1>2, AsideFacts, Zenon DEF StagedKept
<1>3. CASE BuildOrder
  <2>1. at' = 1 /\ pc' = "stage" /\ Phase' = "stage"
    BY <1>3, Zenon DEF BuildOrder, ControlKept, Early, Goto, Phase, Removal
  <2>2. order' \in Seq(Plan)
    BY <1>3, OrderFacts, Zenon DEF BuildOrder
  <2>3. \A k \in DOMAIN order' : ~(k < 1)
    BY <2>2
  <2> QED
    BY <2>1, <2>3, Zenon DEF StagedKept, Hooking
<1>4. CASE Copy
  <2>1. /\ pc = "copy" /\ pc' = "manifest" /\ UNCHANGED <<listed, order, at, errors, hooked>>
        /\ files' = [files EXCEPT ![Base(Current)] = Version(Current)]
        /\ Phase = "copy" /\ Phase' = "manifest"
    BY <1>4, Zenon DEF Copy, Goto, Phase, Removal, progress
  <2>2. Current' = Current
    BY <2>1, Zenon DEF Current
  <2>3. Base(Current) \in Names /\ files \in [Names -> 0..MaxVersion]
    BY <2>1, CurrentFacts, Zenon DEF Copying, Types, DiskT
  <2>4. files'[Base(Current)] = Version(Current)
    BY <2>1, <2>3, Zenon
  <2>5. ASSUME NEW k \in DOMAIN order, OnDisk(k), Base(order[k].package) # Base(Current)
        PROVE  OnDisk(k)'
    BY <2>1, <2>3, <2>5, OnDiskKept
  <2> QED
    BY <2>1, <2>2, <2>4, <2>5, Zenon DEF StagedKept, Staging, Copying, Hooking
<1>5. CASE WriteManifest
  <2>1. /\ pc = "manifest" /\ pc' = "save" /\ UNCHANGED <<files, order, at, errors, hooked>>
        /\ listed' = listed \cup {Current} /\ Phase = "manifest" /\ Phase' = "save"
    BY <1>5, Zenon DEF WriteManifest, Goto, Phase, Removal, progress
  <2>2. Current' = Current
    BY <2>1, Zenon DEF Current
  <2>3. \A k \in DOMAIN order : OnDisk(k) => OnDisk(k)'
    BY <2>1, OnDiskKept, Zenon
  <2> QED
    BY <2>1, <2>2, <2>3, Zenon DEF StagedKept, Staging, Copying, Hooking
<1>6. CASE SaveHook
  <2>1. /\ pc = "save" /\ pc' = "stage" /\ UNCHANGED <<files, listed, order, errors, hooked>>
        /\ at' = at + 1 /\ Phase = "save" /\ Phase' = "stage"
    BY <1>6, Zenon DEF SaveHook, Goto, Phase, Removal
  <2>2. at \in DOMAIN order /\ Current \in listed /\ files[Base(Current)] = Version(Current)
    BY <2>1, CurrentFacts, Zenon DEF Copying, StagedKept
  <2>3. ASSUME NEW k \in DOMAIN order, k < at + 1, ~errors
        PROVE  OnDisk(k)
    <3>1. CASE Base(order[k].package) = Base(Current)
      BY <2>2, <3>1, Zenon DEF OnDisk, Current
    <3>2. CASE Base(order[k].package) # Base(Current)
      <4>1. k # at
        BY <3>2, Zenon DEF Current
      <4>2. k < at
        BY <1>0, <2>3, <4>1
      <4> QED
        BY <2>1, <2>3, <3>2, <4>2, Zenon DEF StagedKept, Staging, Copying
    <3> QED
      BY <3>1, <3>2, Zenon
  <2>4. ASSUME NEW k \in DOMAIN order, k < at + 1, ~errors
        PROVE  OnDisk(k)'
    BY <2>1, <2>3, <2>4, OnDiskKept, Zenon
  <2> QED
    BY <2>1, <2>4, Zenon DEF StagedKept, Staging, Copying, Hooking
<1>7. CASE RefreshCache
  <2>1. /\ pc = "cache" /\ pc' = "hook" /\ UNCHANGED <<files, listed, order, errors, hooked>>
        /\ at' = 1 /\ Phase = "cache" /\ Phase' = "hook" /\ at > Len(order)
    BY <1>7, Zenon DEF RefreshCache, Goto, Phase, Removal, disk, ControlKept
  <2>2. ASSUME NEW k \in DOMAIN order, ~errors
        PROVE  OnDisk(k)
    <3>1. k < at
      BY <1>0, <2>1
    <3> QED
      BY <2>1, <2>2, <3>1, Zenon DEF StagedKept, Staging, Copying
  <2>3. ASSUME NEW k \in DOMAIN order, ~errors
        PROVE  OnDisk(k)'
    BY <2>1, <2>2, <2>3, OnDiskKept, Zenon
  <2>4. \A k \in DOMAIN order : ~(k < 1)
    BY <1>0
  <2> QED
    BY <2>1, <2>3, <2>4, Zenon DEF StagedKept, Staging, Copying
<1>8. CASE RunHook
  <2>1. /\ pc = "hook" /\ pc' = "hook" /\ UNCHANGED <<files, listed, order, errors>>
        /\ at' = at + 1 /\ Phase = "hook" /\ Phase' = "hook" /\ hooked' = hooked \cup {Current}
    BY <1>8, Zenon DEF RunHook, Goto, Phase, Removal, disk
  <2>2. \A k \in DOMAIN order : OnDisk(k) => OnDisk(k)'
    BY <2>1, OnDiskKept, Zenon
  <2>3. ASSUME NEW k \in DOMAIN order, k < at + 1, ~errors
        PROVE  order[k].package \in hooked'
    <3>1. k < at \/ k = at
      BY <1>0, <2>3
    <3> QED
      BY <2>1, <2>3, <3>1, Zenon DEF StagedKept, Hooking, Current
  <2> QED
    BY <2>1, <2>2, <2>3, Zenon DEF StagedKept, Staging, Copying, Hooking
<1>9. CASE Unlink \/ Unlist
  <2>1. UNCHANGED <<order, at, errors, hooked>> /\ pc \in Removal
    BY <1>9, Zenon DEF Unlink, Unlist, progress, Removal
  <2>2. Phase' = Phase /\ pc' \notin {"manifest", "save"}
    <3>1. CASE Unlink
      BY <3>1, Zenon DEF Unlink, Goto, Phase, Removal
    <3>2. CASE Unlist
      <4>1. removing.back \in {"none", "remove", "copy", "stage", "hook"}
        BY Zenon DEF Types, CmdT
      <4> QED
        BY <3>2, <4>1, Zenon DEF Unlist, Goto, Phase, Removal
    <3> QED
      BY <1>9, <3>1, <3>2, Zenon
  <2>3. CASE Phase \notin Staging \cup Hooking \/ errors
    BY <2>1, <2>2, <2>3, Zenon DEF StagedKept
  <2>4. CASE Phase \in Staging \cup Hooking /\ ~errors
    <3>1. /\ removing.back = "copy" /\ Base(removing.package) = Base(Current) /\ Phase = "copy"
      BY <2>1, <2>4, RemovalFacts, Zenon DEF Phase
    <3>2. Current' = Current
      BY <2>1, Zenon DEF Current
    <3>3. ASSUME NEW k \in DOMAIN order, OnDisk(k), Base(order[k].package) # Base(Current)
          PROVE  OnDisk(k)'
      <4>1. \A p \in listed : Base(p) = Base(order[k].package) => p \in listed'
        BY <1>9, <3>1, <3>3, Zenon DEF Unlink, Unlist
      <4>2. files'[Base(order[k].package)] = files[Base(order[k].package)]
        <5>1. Base(order[k].package) \in Names /\ files \in [Names -> 0..MaxVersion]
          BY <2>4, PlanFacts, Zenon DEF Types, DiskT
        <5> QED
          BY <1>9, <3>1, <3>3, <5>1, Zenon DEF Unlink, Unlist
      <4> QED
        BY <2>1, <3>3, <4>1, <4>2, OnDiskKept, Zenon
    <3> QED
      BY <2>1, <2>2, <3>1, <3>2, <3>3, Zenon DEF StagedKept, Staging, Copying, Hooking
  <2> QED
    BY <2>3, <2>4, Zenon
<1> QED
  BY <1>1, <1>2, <1>3, <1>4, <1>5, <1>6, <1>7, <1>8, <1>9, QuietOrAside, Zenon

\* What a running command keeps on disk.
StagingInv == Types /\ ControlKept /\ PlansKept /\ StagedKept

\* The first install hook of a command runs only when every package it has to
\* install is on disk and listed, whatever else it failed at, removed or was
\* killed in before.
THEOREM HooksAfterStagingHolds == Spec => []HooksAfterStaging
<1>1. Init => StagingInv
  BY TypesInit, ControlInit, PlansInit, StagedInit, Zenon DEF StagingInv
<1>2. StagingInv /\ [Next]_vars => StagingInv'
  BY StepKinds, TypesStep, ControlStep, PlansStep, StagedStep, Zenon DEF StagingInv
<1>3. StagingInv => HooksAfterStaging
  <2> SUFFICES ASSUME StagingInv, pc = "hook", at = 1, NEW k \in DOMAIN order PROVE OnDisk(k)
    BY Zenon DEF HooksAfterStaging, OnDisk
  <2>1. Phase = "hook" /\ ~errors
    BY DEF StagingInv, ControlKept, Phase, Removal
  <2> QED
    BY <2>1, Zenon DEF StagingInv, StagedKept, Hooking
<1> QED
  BY <1>1, <1>2, <1>3, PTL DEF Spec
=============================================================================
