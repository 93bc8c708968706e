------------------------ MODULE LegacyInstallProofs ------------------------
(***************************************************************************)
(* What a command of LegacyInstall that reports success has installed, its *)
(* dependencies, and what the commands for a list have installed.          *)
(***************************************************************************)
EXTENDS LegacyStagingProofs

\* The manifests of an installation, which removes only what has failed.
ListedKept ==
    cmd.op = "install" /\ ~errors =>
        /\ pc # "idle" =>
            \A k \in DOMAIN plans : plans[k].installed => plans[k].package \in listed
        /\ Phase \in Staging =>
            \A k \in DOMAIN order : k < at => order[k].package \in listed
        /\ Phase \in Hooking => \A k \in DOMAIN order : order[k].package \in listed

\* Dependencies are queued, and what is queued is planned.
QueueKept ==
    cmd.op = "install" /\ ~errors /\ pc # "idle" =>
        /\ \A i \in DOMAIN queue : i < queue_idx =>
            \/ queue[i] \in listed \cup missing
            \/ \E k \in DOMAIN plans : plans[k].selector = queue[i]
        /\ ~cmd.no_deps =>
            \A k \in DOMAIN plans :
                Range(deps[plans[k].package]) \subseteq Range(queue) \cup {plans[k].package}
        /\ pc # "plan" => queue_idx > Len(queue) /\ missing = {}
        /\ cmd.selector \in Range(queue)

\* A child of update --all plans only what it was started for.
UpdateChild ==
    /\ queue = <<cmd.selector>> /\ missing = {}
    /\ queue_idx = 1 => plans = <<>>
    /\ \A k \in DOMAIN plans : plans[k].package = cmd.selector
    /\ plans = <<>> /\ queue_idx > 1 /\ ~errors => cmd.selector \in listed
    /\ \A k \in DOMAIN plans : plans[k].installed => plans[k].package \in listed \/ errors
    /\ pc # "plan" => queue_idx > 1

ChildKept ==
    InBatch /\ pc # "idle" =>
        /\ batch.next > 1 /\ cmd.selector = batch.all[batch.next - 1]
        /\ cmd.op = batch.op /\ ~cmd.with_deps
        /\ batch.op = "update" => UpdateChild

Trusted == InBatch /\ ~batch.failed /\ ~batch.declined

\* The list of update --all has versions, and a package in one version only.
ListKept ==
    InBatch /\ batch.op = "update" =>
        /\ \A k \in DOMAIN batch.all : Version(batch.all[k]) # 0
        /\ \A j, k \in DOMAIN batch.all :
            Base(batch.all[j]) = Base(batch.all[k]) => batch.all[j] = batch.all[k]

ReturnKept == InBatch /\ pc = "idle" /\ batch.next > 1 => rc # "none"

\* What the children that have ended were started for stays installed.
PastKept ==
    Trusted /\ pc = "idle" /\ rc \in {"ok", "nothing"} =>
        \A k \in 1..(batch.next - 1) : Satisfied(batch.all[k])

\* The child that is running takes no other's package away.
Past(k) ==
    /\ Satisfied(batch.all[k])
    /\ batch.op = "update" /\ plans # <<>> => Base(batch.all[k]) # Base(cmd.selector)

RunningKept ==
    Trusted /\ pc # "idle" /\ ~errors => \A k \in 1..(batch.next - 2) : Past(k)

BatchKept ==
    /\ ListKept /\ ReturnKept /\ PastKept /\ RunningKept
    /\ batch.rc = "ok" => pc = "idle"

-----------------------------------------------------------------------------
(* Installations.                                                          *)

\* An installation without errors removes nothing.
LEMMA NoRemoval ==
    ASSUME Types, ControlKept, cmd.op = "install", ~errors
    PROVE  pc \notin Removal
<1>1. removing.back \in {"none", "remove", "copy", "stage", "hook"}
  BY Zenon DEF Types, CmdT
<1> QED
  BY <1>1, Zenon DEF ControlKept, Phase, Removal

LEMMA ListedStep ==
    ASSUME Types, ControlKept, PlansKept, StagedKept, ListedKept, Kinds \/ UNCHANGED vars
    PROVE  ListedKept'
<1> SUFFICES ASSUME cmd'.op = "install", ~errors'
             PROVE  /\ pc' # "idle" =>
                         \A k \in DOMAIN plans' : plans'[k].installed => plans'[k].package \in listed'
                    /\ Phase' \in Staging =>
                         \A k \in DOMAIN order' : k < at' => order'[k].package \in listed'
                    /\ Phase' \in Hooking => \A k \in DOMAIN order' : order'[k].package \in listed'
  BY Zenon DEF ListedKept
<1>0. Len(order) \in Nat /\ at \in Nat /\ DOMAIN order = 1..Len(order)
  BY DEF Types, ProgressT
<1>1. CASE Quiet
  BY <1>1, QuietFacts, Zenon DEF ListedKept, disk, progress, plan
<1>2. CASE \E v : Ends(v)
  BY <1>2, Zenon DEF Ends, Return, Phase, Removal, Staging, Copying, Hooking
<1>3. CASE PlanInstalled \/ PlanMissing
  <2>1. /\ UNCHANGED <<plans, listed, cmd, errors>> /\ pc = "plan" /\ pc' = "plan"
        /\ Phase' = "plan"
    BY <1>3, Zenon DEF PlanInstalled, PlanMissing, Planning, Goto, disk, progress, Phase, Removal
  <2> QED
    BY <2>1, Zenon DEF ListedKept, Staging, Copying, Hooking
<1>4. CASE PlanPackage
  <2> DEFINE p == Resolve(Selector)
             q == [selector |-> Selector, package |-> p, old |-> InstalledFor(p),
                   installed |-> p \in listed /\ ~(cmd.op = "update" /\ cmd.with_deps)]
  <2>1. /\ UNCHANGED <<listed, cmd, errors>> /\ pc = "plan" /\ Phase' = "plan"
        /\ plans' = Append(plans, q) /\ plans \in Seq(Plan)
    BY <1>4, Zenon DEF PlanPackage, Planning, Goto, disk, progress, Phase, Removal, Types, PlanT
  <2>2. q.installed => q.package \in listed
    BY Zenon
  <2> HIDE DEF q
  <2>3. \A k \in DOMAIN plans' : plans'[k] = q \/ (k \in DOMAIN plans /\ plans'[k] = plans[k])
    BY <2>1
  <2>4. \A k \in DOMAIN plans : plans[k].installed => plans[k].package \in listed
    BY <2>1, Zenon DEF ListedKept
  <2> QED
    BY <2>1, <2>2, <2>3, <2>4, Zenon DEF Staging, Copying, Hooking
<1>5. CASE CopyFails \/ ManifestFails \/ SaveHookFails \/ HookFails \/ Resumes
  <2>1. errors'
    BY <1>5, Zenon DEF CopyFails, ManifestFails, SaveHookFails, HookFails, Resumes, GiveUp,
       progress,
                ControlKept
  <2> QED
    BY <2>1, Zenon
<1>6. CASE Removes \/ KeepDependency
  <2>1. cmd.op = "remove" /\ UNCHANGED cmd
    BY <1>6, Zenon DEF Removes, KeepDependency, ConfirmRemove, RemoveDependency, RemovePackage,
       CallRemove,
                Goto, ControlKept, Phase, Removal
  <2> QED
    BY <2>1, Zenon
<1>7. CASE Command \/ NextChild
  <2>1. pc' \in {"plan", "confirm"} /\ plans' = <<>>
    BY <1>7, BeginFacts, Zenon DEF Fresh
  <2> QED
    BY <2>1 DEF Phase, Removal, Staging, Copying, Hooking
<1>8. CASE BuildOrder
  <2>1. /\ UNCHANGED <<plans, listed, cmd, errors>> /\ pc = "order" /\ at' = 1 /\ Phase' = "stage"
    BY <1>8, Zenon DEF BuildOrder, Goto, disk, plan, Phase, Removal, ControlKept, Early
  <2>2. order' \in Seq(Plan)
    BY <1>8, OrderFacts, Zenon DEF BuildOrder
  <2>3. \A k \in DOMAIN order' : ~(k < 1)
    BY <2>2
  <2> QED
    BY <2>1, <2>3, Zenon DEF ListedKept, Hooking
<1>9. CASE Copy \/ WriteManifest
  <2>1. /\ UNCHANGED <<plans, cmd, errors, order, at>> /\ pc \in Copying /\ pc' \in Copying
        /\ listed \subseteq listed'
    BY <1>9, Zenon DEF Copy, WriteManifest, Goto, plan, progress, Copying
  <2> QED
    BY <2>1, Zenon DEF ListedKept, Phase, Removal, Staging, Copying, Hooking
<1>10. CASE SaveHook
  <2>1. /\ UNCHANGED <<plans, cmd, errors, order, listed>> /\ pc = "save" /\ pc' = "stage"
        /\ at' = at + 1 /\ Phase = "save" /\ Phase' = "stage"
    BY <1>10, Zenon DEF SaveHook, Goto, plan, Phase, Removal
  <2>2. Current \in listed
    BY <2>1, Zenon DEF StagedKept
  <2>3. \A k \in DOMAIN order : k < at + 1 => k < at \/ k = at
    BY <1>0
  <2> QED
    BY <2>1, <2>2, <2>3, Zenon DEF ListedKept, Staging, Copying, Hooking, Current
<1>11. CASE RefreshCache
  <2>1. /\ UNCHANGED <<plans, cmd, errors, order, listed>> /\ pc = "cache" /\ pc' = "hook"
        /\ at > Len(order) /\ Phase = "cache" /\ Phase' = "hook"
    BY <1>11, Zenon DEF RefreshCache, Goto, plan, disk, Phase, Removal, ControlKept
  <2>2. \A k \in DOMAIN order : k < at
    BY <1>0, <2>1
  <2> QED
    BY <2>1, <2>2, Zenon DEF ListedKept, Staging, Copying, Hooking
<1>12. CASE RunHook
  <2>1. /\ UNCHANGED <<plans, cmd, errors, order, listed>> /\ pc = "hook" /\ pc' = "hook"
        /\ Phase = "hook" /\ Phase' = "hook"
    BY <1>12, Zenon DEF RunHook, Goto, plan, disk, Phase, Removal
  <2> QED
    BY <2>1, Zenon DEF ListedKept, Staging, Copying, Hooking
<1>13. CASE Unlink \/ Unlist
  <2>1. pc \in Removal /\ UNCHANGED <<cmd, errors>>
    BY <1>13, Zenon DEF Unlink, Unlist, Goto, progress, Removal
  <2> QED
    BY <2>1, NoRemoval, Zenon
<1> QED
  BY <1>1, <1>2, <1>3, <1>4, <1>5, <1>6, <1>7, <1>8, <1>9, <1>10, <1>11, <1>12, <1>13,
     QuietOrAside, ZenonT(60) DEF Aside

LEMMA ListedInit == Init => ListedKept
  BY Zenon DEF Init, ListedKept, Phase, Removal, Staging, Copying, Hooking

\* A result stays until the next command.
LEMMA ResultStep ==
    ASSUME Types, ControlKept, Kinds \/ UNCHANGED vars, rc' # "none"
    PROVE  Ends(rc') \/ (Quiet /\ UNCHANGED rc /\ pc = "idle")
<1> USE DEF ControlKept
<1>1. CASE \E v : Ends(v)
  BY <1>1, Zenon DEF Ends, Return
<1>2. CASE Command \/ NextChild
  BY <1>2, BeginFacts, Zenon DEF Begin
<1>3. CASE Batch \/ BatchReturns \/ KillBatch \/ (\E n \in Names : Publish(n)) \/ UNCHANGED vars
  BY <1>3, Zenon DEF Quiet, Batch, BeginBatch, BatchReturns, KillBatch, Publish, vars
<1>4. CASE PlanInstalled \/ PlanMissing \/ PlanPackage \/ Pass \/ BuildOrder \/ StageOld
  BY <1>4, Zenon DEF PlanInstalled, PlanMissing, PlanPackage, Planning, Pass, BuildOrder,
     StageOld,
              AskInstall, ConfirmInstall, Extract, StageNew, Staged, HooksDone, RunRemoveHook,
              Planned, CallRemove, Goto
<1>5. CASE Copy \/ WriteManifest \/ CopyFails \/ ManifestFails \/ SaveHook \/ SaveHookFails
           \/ RefreshCache \/ RunHook \/ HookFails
  BY <1>5, Zenon DEF Copy, WriteManifest, CopyFails, ManifestFails, SaveHook, SaveHookFails,
     RefreshCache,
              RunHook, HookFails, GiveUp, CallRemove, Goto
<1>6. CASE Resumes \/ Unlink \/ Unlist \/ Removes \/ KeepDependency
  BY <1>6, Zenon DEF Resumes, GiveUp, Unlink, Unlist, Removes, ConfirmRemove, RemoveDependency,
              RemovePackage, CallRemove, KeepDependency, Goto
<1> QED
  BY <1>1, <1>2, <1>3, <1>4, <1>5, <1>6, Zenon DEF Kinds

LEMMA DoneStep ==
    ASSUME Types, ControlKept, PlansKept, StagedKept, ListedKept, DoneMeansInstalled,
           Kinds \/ UNCHANGED vars
    PROVE  DoneMeansInstalled'
<1> SUFFICES ASSUME rc' = "ok", cmd'.op = "install", NEW q \in Todo'
             PROVE  /\ q.package \in listed' /\ q.package \in hooked'
                    /\ \E r \in Todo' : /\ Base(r.package) = Base(q.package)
                                        /\ files'[Base(q.package)] = Version(r.package)
  BY Zenon DEF DoneMeansInstalled
<1>1. CASE Quiet /\ UNCHANGED rc
  <2>1. UNCHANGED <<cmd, plans, listed, files, hooked, rc>>
    BY <1>1, QuietFacts, Zenon DEF disk, plan, progress
  <2>2. Todo' = Todo
    BY <2>1, Zenon DEF Todo
  <2> QED
    BY <2>1, <2>2, Zenon DEF DoneMeansInstalled
<1>2. CASE Ends("ok")
  <2>1. plans' # <<>>
    BY DEF Todo
  <2>2. UNCHANGED <<plans, cmd, order, hooked, listed, files>>
    BY <1>2, <2>1, Zenon DEF Ends, Return, Fresh, plan, progress, disk
  <2>3. pc = "recache" /\ ~errors /\ at > Len(order) /\ Phase = "recache"
    BY <1>2, <2>2, Zenon DEF Ends, ControlKept, Phase, Removal
  <2>4. q \in Todo /\ Todo' = Todo
    BY <2>2, Zenon DEF Todo
  <2>5. Range(order) = Todo
    BY <2>3, Zenon DEF PlansKept, Hooking
  <2>6. PICK k \in DOMAIN order : q = order[k]
    BY <2>4, <2>5, Zenon DEF Range
  <2>7. k < at
    BY <2>3 DEF Types, ProgressT
  <2>8. q.package \in listed /\ q.package \in hooked
    BY <2>2, <2>3, <2>6, <2>7, Zenon DEF ListedKept, StagedKept, Hooking
  <2>9. PICK j \in DOMAIN order : /\ Base(order[j].package) = Base(q.package)
                                 /\ files[Base(order[j].package)] = Version(order[j].package)
    BY <2>3, <2>6, Zenon DEF StagedKept, Hooking, OnDisk
  <2>10. order[j] \in Todo
    BY <2>5, Zenon DEF Range
  <2> QED
    BY <2>2, <2>4, <2>8, <2>9, <2>10, Zenon
<1> QED
  BY <1>1, <1>2, ResultStep, Zenon

\* With what an installation has listed.
InstallInv == StagingInv /\ ListedKept /\ DoneMeansInstalled

\* An install command that ends with "Done" has installed every package it
\* announced and run its hook.
THEOREM DoneMeansInstalledHolds == Spec => []DoneMeansInstalled
<1>1. Init => InstallInv
  <2>1. Init => DoneMeansInstalled
    BY Zenon DEF Init, DoneMeansInstalled
  <2> QED
    BY <2>1, TypesInit, ControlInit, PlansInit, StagedInit, ListedInit, Zenon DEF StagingInv,
       InstallInv
<1>2. InstallInv /\ [Next]_vars => InstallInv'
  BY StepKinds, TypesStep, ControlStep, PlansStep, StagedStep, ListedStep, DoneStep, Zenon
     DEF StagingInv, InstallInv
<1>3. InstallInv => DoneMeansInstalled
  BY Zenon DEF InstallInv
<1> QED
  BY <1>1, <1>2, <1>3, PTL DEF Spec

-----------------------------------------------------------------------------
(* Dependencies.                                                           *)

LEMMA DepsKept ==
    ASSUME Kinds \/ UNCHANGED vars
    PROVE  deps' = deps
<1>1. CASE UNCHANGED world
  BY <1>1, Zenon DEF world
<1>2. CASE Command \/ NextChild \/ Batch
  BY <1>2, Zenon DEF Command, InstallCommand, UpdateCommand, RemoveCommand, NextChild,
     BeginPlanning, Begin,
              Batch, BeginBatch
<1>3. CASE BatchReturns \/ KillBatch \/ \E n \in Names : Publish(n)
  BY <1>3, Zenon DEF BatchReturns, KillBatch, Publish
<1> QED
  BY <1>1, <1>2, <1>3, Frames, Zenon

LEMMA SatisfiedIs ==
    ASSUME listed \in SUBSET Packages, NEW s \in Selectors
    PROVE  Satisfied(s) <=> \E p \in listed : Base(p) = Base(s) /\ (Version(s) = 0 \/ p = s)
  BY InstalledFacts, PairFacts, Zenon DEF Satisfied

\* The queue grows at its end.
LEMMA QueueGrows ==
    ASSUME Types, PlanPackage
    PROVE  /\ \A i \in DOMAIN queue : i \in DOMAIN queue' /\ queue'[i] = queue[i]
           /\ Range(queue) \subseteq Range(queue')
           /\ cmd.op = "install" /\ ~cmd.no_deps =>
                Range(deps[Resolve(Selector)]) \subseteq Range(queue') \cup {Resolve(Selector)}
<1> DEFINE p == Resolve(Selector)
<1>1. Selector \in Selectors /\ Published(Selector) /\ queue' = queue \o NewDeps(p)
  BY DEF PlanPackage, Planning, Types, PlanT, Selector
<1>2. p \in Packages
  BY <1>1, ResolveFacts, Zenon DEF Types
<1> HIDE DEF p
<1>3. deps[p] \in Seq(Selectors)
  BY <1>2, Zenon DEF Types, WorldT
<1>4. NewDeps(p) \in Seq(Selectors)
  BY <1>3, KeptFacts DEF NewDeps
<1>5. queue \in Seq(Selectors)
  BY Zenon DEF Types, PlanT
<1>6. \A i \in DOMAIN queue : i \in DOMAIN queue' /\ queue'[i] = queue[i]
  BY <1>1, <1>4, <1>5
<1>7. Range(queue') = Range(queue) \cup Range(NewDeps(p))
  BY <1>1, <1>4, <1>5, ConcatFacts, ZenonT(60)
<1>8. ASSUME cmd.op = "install", ~cmd.no_deps
      PROVE  Range(deps[p]) \subseteq Range(queue') \cup {p}
  <2>1. NewDeps(p) = Kept(deps[p], Selectors \ (Range(queue) \cup {p}))
    BY <1>8, Zenon DEF NewDeps
  <2>2. Range(NewDeps(p)) = Range(deps[p]) \cap (Selectors \ (Range(queue) \cup {p}))
    BY <1>3, <2>1, KeptFacts, Zenon
  <2>3. Range(deps[p]) \subseteq Selectors
    BY <1>3 DEF Range
  <2> QED
    BY <1>7, <2>2, <2>3, Zenon
<1> QED
  BY <1>6, <1>7, <1>8, Zenon DEF p

LEMMA QueueStep ==
    ASSUME Types, ControlKept, QueueKept, Kinds \/ UNCHANGED vars
    PROVE  QueueKept'
<1> SUFFICES ASSUME cmd'.op = "install", ~errors', pc' # "idle"
    PROVE
        /\ \A i \in DOMAIN queue' : i < queue_idx' =>
            \/ queue'[i] \in listed' \cup missing'
            \/ \E k \in DOMAIN plans' : plans'[k].selector = queue'[i]
        /\ ~cmd'.no_deps =>
            \A k \in DOMAIN plans' :
                Range(deps'[plans'[k].package]) \subseteq Range(queue') \cup {plans'[k].package}
        /\ pc' # "plan" => queue_idx' > Len(queue') /\ missing' = {}
        /\ cmd'.selector \in Range(queue')
  BY Zenon DEF QueueKept
<1>0. deps' = deps
  BY DepsKept, Zenon
<1>1. ASSUME UNCHANGED <<cmd, plan>>, errors => errors', pc # "idle", pc # "plan",
             listed \subseteq listed'
      PROVE  QueueKept'
  BY <1>0, <1>1, Zenon DEF QueueKept, plan
<1>2. CASE Quiet
  <2>1. UNCHANGED <<disk, progress, plan, cmd>> /\ pc # "idle"
    BY <1>2, QuietFacts, Zenon
  <2>2. pc = "plan" /\ pc' # "plan" => queue_idx > Len(queue) /\ missing = {}
    BY <1>2, Zenon DEF Quiet, Pass, AskInstall, ConfirmInstall, Extract, StageNew, Staged,
       HooksDone,
                RunRemoveHook, Planned, StageOld, Batch, BeginBatch, BatchReturns, KillBatch,
                Publish, vars
  <2> QED
    BY <1>0, <2>1, <2>2, Zenon DEF QueueKept, disk, progress, plan
<1>3. CASE \E v : Ends(v)
  BY <1>3, Zenon DEF Ends, Return
<1>4. CASE PlanInstalled \/ PlanMissing
  <2>1. /\ UNCHANGED <<cmd, queue, plans, errors, listed>> /\ queue_idx' = queue_idx + 1
        /\ pc = "plan" /\ pc' = "plan" /\ missing \subseteq missing'
        /\ queue[queue_idx] \in listed \cup missing'
    BY <1>4, Zenon DEF PlanInstalled, PlanMissing, Planning, Goto, disk, progress, Selector
  <2>2. \A i \in DOMAIN queue : i < queue_idx + 1 => i < queue_idx \/ i = queue_idx
    BY DEF Types, PlanT
  <2> QED
    BY <1>0, <2>1, <2>2, Zenon DEF QueueKept
<1>5. CASE PlanPackage
  <2> DEFINE p == Resolve(Selector)
             q == [selector |-> Selector, package |-> p, old |-> InstalledFor(p),
                   installed |-> p \in listed /\ ~(cmd.op = "update" /\ cmd.with_deps)]
  <2>1. /\ UNCHANGED <<cmd, errors, listed, missing>> /\ queue_idx' = queue_idx + 1
        /\ pc = "plan" /\ pc' = "plan" /\ plans' = Append(plans, q) /\ queue_idx <= Len(queue)
    BY <1>5, Zenon DEF PlanPackage, Planning, Goto, disk, progress
  <2>2. q.selector = queue[queue_idx] /\ q.package = p
    BY Zenon DEF Selector
  <2> HIDE DEF q
  <2>3. plans \in Seq(Plan) /\ queue \in Seq(Selectors) /\ queue_idx \in DOMAIN queue
        /\ queue_idx \in Nat
    BY <2>1 DEF Types, PlanT
  <2>4. /\ \A k \in DOMAIN plans : k \in DOMAIN plans' /\ plans'[k] = plans[k]
        /\ \E k \in DOMAIN plans' : plans'[k] = q
        /\ \A k \in DOMAIN plans' : plans'[k] = q \/ (k \in DOMAIN plans /\ plans'[k] = plans[k])
    <3>1. Len(plans) + 1 \in DOMAIN plans' /\ plans'[Len(plans) + 1] = q
      BY <2>1, <2>3
    <3> QED
      BY <2>1, <2>3, <3>1
  <2>5. ASSUME NEW i \in DOMAIN queue', i < queue_idx'
        PROVE  \/ queue'[i] \in listed' \cup missing'
               \/ \E k \in DOMAIN plans' : plans'[k].selector = queue'[i]
    <3>1. queue' \in Seq(Selectors)
      BY PlanStep, Zenon DEF PlanT
    <3>2. i \in DOMAIN queue /\ (i < queue_idx \/ i = queue_idx)
      BY <2>1, <2>3, <2>5, <3>1
    <3>3. queue'[i] = queue[i]
      BY <1>5, <3>2, QueueGrows, Zenon
    <3>4. CASE i = queue_idx
      BY <2>2, <2>4, <3>3, <3>4, Zenon
    <3>5. CASE i < queue_idx
      <4>1. \/ queue[i] \in listed \cup missing
            \/ \E k \in DOMAIN plans : plans[k].selector = queue[i]
        BY <2>1, <3>2, <3>5, Zenon DEF QueueKept
      <4> QED
        BY <2>1, <2>4, <3>3, <4>1, Zenon
    <3> QED
      BY <3>2, <3>4, <3>5, Zenon
  <2>6. ASSUME ~cmd'.no_deps, NEW k \in DOMAIN plans'
        PROVE  Range(deps'[plans'[k].package]) \subseteq Range(queue') \cup {plans'[k].package}
    <3>1. CASE plans'[k] = q
      BY <1>0, <1>5, <2>1, <2>2, <2>6, <3>1, QueueGrows, Zenon
    <3>2. CASE k \in DOMAIN plans /\ plans'[k] = plans[k]
      <4>1. Range(deps[plans[k].package]) \subseteq Range(queue) \cup {plans[k].package}
        BY <2>1, <2>6, <3>2, Zenon DEF QueueKept
      <4> QED
        BY <1>0, <1>5, <3>2, <4>1, QueueGrows, Zenon
    <3> QED
      BY <2>4, <3>1, <3>2, Zenon
  <2>7. cmd'.selector \in Range(queue')
    BY <1>5, <2>1, QueueGrows, Zenon DEF QueueKept
  <2> QED
    BY <2>1, <2>5, <2>6, <2>7, Zenon
<1>6. CASE Removes \/ KeepDependency
  <2>1. cmd.op = "remove" /\ UNCHANGED cmd
    BY <1>6, Zenon DEF Removes, KeepDependency, ConfirmRemove, RemoveDependency, RemovePackage,
       CallRemove,
                Goto, ControlKept, Phase, Removal
  <2> QED
    BY <2>1, Zenon
<1>7. CASE Command \/ NextChild
  <2>1. PICK op \in Operations, s \in Selectors, with, without \in BOOLEAN :
               /\ Begin(op, s, with, without)
               /\ \/ op # "remove" /\ Fresh(<<s>>) /\ pc' = "plan"
                  \/ op = "remove"
    BY <1>7, BeginFacts, Zenon
  <2>2. cmd'.selector = s /\ Fresh(<<s>>) /\ pc' = "plan"
    BY <2>1, Zenon DEF Begin
  <2>3. queue' = <<s>> /\ queue_idx' = 1 /\ plans' = <<>>
    BY <2>2, Zenon DEF Fresh
  <2>4. \A i \in DOMAIN queue' : ~(i < 1)
    BY <2>3
  <2>5. s \in Range(queue')
    BY <2>3 DEF Range
  <2> QED
    BY <2>2, <2>3, <2>4, <2>5
<1>8. CASE CopyFails \/ ManifestFails \/ SaveHookFails \/ HookFails \/ Resumes
  <2>1. errors'
    BY <1>8, Zenon DEF CopyFails, ManifestFails, SaveHookFails, HookFails, Resumes, GiveUp,
       progress,
                ControlKept
  <2> QED
    BY <2>1, Zenon
<1>9. CASE BuildOrder \/ Copy \/ WriteManifest \/ SaveHook \/ RefreshCache \/ RunHook
  <2>1. /\ UNCHANGED <<cmd, plan, errors>> /\ pc # "idle" /\ pc # "plan" /\ listed \subseteq listed'
    BY <1>9, Zenon DEF BuildOrder, Copy, WriteManifest, SaveHook, RefreshCache, RunHook, Goto,
       disk, progress
  <2> QED
    BY <1>1, <2>1, Zenon DEF QueueKept
<1>10. CASE Unlink \/ Unlist
  <2>1. pc \in Removal /\ UNCHANGED <<cmd, errors>>
    BY <1>10, Zenon DEF Unlink, Unlist, Goto, progress, Removal
  <2> QED
    BY <2>1, NoRemoval, Zenon
<1> QED
  BY <1>2, <1>3, <1>4, <1>5, <1>6, <1>7, <1>8, <1>9, <1>10, QuietOrAside, ZenonT(60) DEF Aside

LEMMA QueueInit == Init => QueueKept
  BY Zenon DEF Init, QueueKept

\* When an installation succeeds, or has nothing to do, all its plans are
\* listed and its queue is done.
LEMMA SuccessFacts ==
    ASSUME Types, ControlKept, PlansKept, ListedKept, QueueKept, cmd.op = "install",
           NEW v \in {"ok", "nothing"}, Ends(v)
    PROVE  /\ ~errors /\ pc # "idle"
           /\ \A k \in DOMAIN plans : plans[k].package \in listed
           /\ \A i \in DOMAIN queue : Satisfied(queue[i])
<1>1. /\ pc # "idle" /\ ~errors
      /\ v = "ok" => pc = "recache" /\ Phase = "recache"
      /\ v = "nothing" => pc = "plan" /\ Todo = {}
      /\ queue_idx > Len(queue) /\ missing = {}
  <2>1. CASE v = "ok"
    <3>1. pc = "recache"
      BY <2>1, Zenon DEF Ends, ControlKept, Phase, Removal
    <3>2. ~errors
      BY <3>1, Zenon DEF ControlKept
    <3> QED
      BY <2>1, <3>1, <3>2, Zenon DEF QueueKept, Phase, Removal
  <2>2. CASE v = "nothing"
    BY <2>2, Zenon DEF Ends, Planned, ControlKept, Early
  <2> QED
    BY <2>1, <2>2, Zenon
<1>2. ASSUME NEW k \in DOMAIN plans PROVE plans[k].package \in listed
  <2>1. CASE plans[k].installed
    BY <1>1, <2>1, Zenon DEF ListedKept
  <2>2. CASE ~plans[k].installed
    <3>1. plans[k] \in Todo
      BY <2>2, Zenon DEF Todo
    <3>2. v = "ok" /\ Phase = "recache"
      BY <1>1, <3>1, Zenon
    <3>3. plans[k] \in Range(order)
      BY <3>1, <3>2, Zenon DEF PlansKept, Hooking
    <3> QED
      BY <1>1, <3>2, <3>3, Zenon DEF ListedKept, Hooking, Range
  <2> QED
    BY <2>1, <2>2, Zenon
<1>3. ASSUME NEW i \in DOMAIN queue PROVE Satisfied(queue[i])
  <2>1. queue[i] \in Selectors /\ i < queue_idx /\ listed \in SUBSET Packages
    BY <1>1 DEF Types, PlanT, DiskT
  <2>2. CASE queue[i] \in listed
    BY <2>1, <2>2, SatisfiedIs
  <2>3. CASE queue[i] \notin listed
    <3>1. PICK k \in DOMAIN plans : plans[k].selector = queue[i]
      BY <1>1, <2>1, <2>3, Zenon DEF QueueKept
    <3>2. /\ Base(queue[i]) = Base(plans[k].package)
          /\ Version(queue[i]) = 0 \/ plans[k].package = queue[i]
      BY <3>1, Zenon DEF PlansKept, Fits
    <3>3. plans[k].package \in listed
      BY <1>2, Zenon
    <3> QED
      BY <2>1, <3>2, <3>3, SatisfiedIs, ZenonT(60)
  <2> QED
    BY <2>2, <2>3, Zenon
<1> QED
  BY <1>1, <1>2, <1>3, Zenon

LEMMA DependenciesStep ==
    ASSUME Types, ControlKept, PlansKept, ListedKept, QueueKept, DependenciesInstalled,
           Kinds \/ UNCHANGED vars
    PROVE  DependenciesInstalled'
<1> SUFFICES ASSUME rc' \in {"ok", "nothing"}, cmd'.op = "install", ~cmd'.no_deps,
                    NEW k \in DOMAIN plans', NEW d \in DOMAIN (deps[plans[k].package])'
             PROVE  Satisfied(deps[plans[k].package][d])'
  BY Zenon DEF DependenciesInstalled
<1>0. deps' = deps
  BY DepsKept, Zenon
<1>1. CASE Quiet /\ UNCHANGED rc
  <2>1. UNCHANGED <<cmd, plans, listed, rc>>
    BY <1>1, QuietFacts, Zenon DEF disk, plan, progress
  <2>2. Satisfied(deps[plans[k].package][d])
    BY <1>0, <2>1, Zenon DEF DependenciesInstalled
  <2>3. Satisfied(deps[plans[k].package][d])'
    BY <1>0, <2>1, <2>2 DEF Satisfied, Installed
  <2> QED
    BY <2>3, Zenon
<1>2. CASE Ends(rc')
  <2>1. plans' # <<>>
    OBVIOUS
  <2>2. UNCHANGED <<plans, cmd, listed>>
    BY <1>2, <2>1, Zenon DEF Ends, Return, Fresh, plan, disk
  <2>3. /\ ~errors /\ pc # "idle"
        /\ \A j \in DOMAIN plans : plans[j].package \in listed
        /\ \A i \in DOMAIN queue : Satisfied(queue[i])
    BY <1>2, <2>2, SuccessFacts, Zenon
  <2> DEFINE s == deps[plans[k].package][d]
  <2>4. s \in Range(deps[plans[k].package]) /\ k \in DOMAIN plans
    BY <1>0, <2>2, Zenon DEF Range
  <2>5. s \in Range(queue) \cup {plans[k].package}
    BY <2>2, <2>3, <2>4, Zenon DEF QueueKept
  <2> HIDE DEF s
  <2>6. Satisfied(s)
    <3>1. CASE s \in Range(queue)
      BY <2>3, <3>1, Zenon DEF Range
    <3>2. CASE s = plans[k].package
      <4>1. s \in listed /\ listed \in SUBSET Packages
        BY <2>3, <2>4, <3>2, Zenon DEF Types, DiskT
      <4> QED
        BY <4>1, PairFacts, SatisfiedIs, Zenon
    <3> QED
      BY <2>5, <3>1, <3>2, Zenon
  <2> QED
    BY <1>0, <2>2, <2>6 DEF Satisfied, Installed, s
<1> QED
  BY <1>1, <1>2, ResultStep, Zenon

\* With what it has queued.
DependencyInv == InstallInv /\ QueueKept /\ DependenciesInstalled

\* An install command that succeeds, or finds nothing to do, leaves every planned
\* package with all its dependencies installed.
THEOREM DependenciesInstalledHolds == Spec => []DependenciesInstalled
<1>1. Init => DependencyInv
  <2>1. Init => DoneMeansInstalled /\ DependenciesInstalled
    BY Zenon DEF Init, DoneMeansInstalled, DependenciesInstalled
  <2> QED
    BY <2>1, TypesInit, ControlInit, PlansInit, StagedInit, ListedInit, QueueInit, Zenon
       DEF StagingInv, InstallInv, DependencyInv
<1>2. DependencyInv /\ [Next]_vars => DependencyInv'
  BY StepKinds, TypesStep, ControlStep, PlansStep, StagedStep, ListedStep, DoneStep, QueueStep,
     DependenciesStep DEF StagingInv, InstallInv, DependencyInv
<1>3. DependencyInv => DependenciesInstalled
  BY Zenon DEF DependencyInv
<1> QED
  BY <1>1, <1>2, <1>3, PTL DEF Spec

-----------------------------------------------------------------------------
(* One command for each of a list.                                         *)

\* A child goes on, or the next one starts.
LEMMA RunningStep ==
    ASSUME Types, ControlKept, Kinds \/ UNCHANGED vars, InBatch', pc' # "idle", ~NextChild
    PROVE  UNCHANGED <<world, cmd>> /\ pc # "idle" /\ (errors => errors')
<1>1. CASE (\E v : Ends(v)) \/ Command \/ Batch \/ BatchReturns \/ KillBatch
           \/ \E n \in Names : Publish(n)
  <2>1. CASE (\E v : Ends(v)) \/ Batch \/ BatchReturns \/ \E n \in Names : Publish(n)
    BY <2>1, Zenon DEF Ends, Return, Batch, BeginBatch, BatchReturns, Publish
  <2>2. CASE Command \/ KillBatch
    <3>1. batch' = NoBatch \/ batch' = [batch EXCEPT !.rc = "killed"]
      BY <2>2, ZenonT(60) DEF Command, InstallCommand, UpdateCommand, RemoveCommand, Alone, KillBatch
    <3> QED
      BY <3>1 DEF InBatch, NoBatch, Types, WorldT
  <2> QED
    BY <1>1, <2>1, <2>2, Zenon
<1>2. CASE PlanInstalled \/ PlanMissing \/ PlanPackage \/ Pass \/ BuildOrder \/ StageOld
  BY <1>2 DEF PlanInstalled, PlanMissing, PlanPackage, Planning, Pass,
     BuildOrder, StageOld,
              AskInstall, ConfirmInstall, Extract, StageNew, Staged, HooksDone, RunRemoveHook,
              Planned, CallRemove, Goto, progress
<1>3. CASE Copy \/ WriteManifest \/ CopyFails \/ ManifestFails \/ SaveHook \/ SaveHookFails
           \/ RefreshCache \/ RunHook \/ HookFails
  BY <1>3 DEF Copy, WriteManifest, CopyFails, ManifestFails, SaveHook,
     SaveHookFails, RefreshCache,
              RunHook, HookFails, GiveUp, CallRemove, Goto, progress
<1>4. CASE Resumes \/ Unlink \/ Unlist \/ Removes \/ KeepDependency
  <2>1. CASE Resumes
    BY <2>1 DEF Resumes, GiveUp, Goto, progress
  <2>2. CASE Unlink \/ Unlist \/ KeepDependency
    BY <2>2 DEF Unlink, Unlist, KeepDependency, Goto, progress
  <2>3. CASE Removes
    <3>1. PICK p, rest : RemovePackage(p, rest) /\ pc # "idle"
      BY <2>3, Zenon DEF Removes, ConfirmRemove, RemoveDependency
    <3> QED
      BY <3>1, Zenon DEF RemovePackage, CallRemove, Goto, progress
  <2> QED
    BY <1>4, <2>1, <2>2, <2>3, Zenon
<1>5. CASE UNCHANGED vars
  BY <1>5, Zenon DEF vars, progress
<1> QED
  BY <1>1, <1>2, <1>3, <1>4, <1>5, Zenon DEF Kinds

\* Only the last step of a removal takes a package off the list.
LEMMA ListedGrows ==
    ASSUME Kinds \/ UNCHANGED vars, ~Unlist
    PROVE  listed \subseteq listed'
<1>1. CASE UNCHANGED disk
  BY <1>1, Zenon DEF disk
<1>2. CASE Copy \/ WriteManifest \/ CopyFails \/ ManifestFails \/ SaveHook \/ Unlink
  BY <1>2, Zenon DEF Copy, WriteManifest, CopyFails, ManifestFails, SaveHook, Unlink
<1> QED
  BY <1>1, <1>2, Frames, Zenon

\* What a child of update --all takes off the list is another version of what
\* it was started for, and it has a plan.
LEMMA UnlistFacts ==
    ASSUME Types, ControlKept, PlansKept, ChildKept, InBatch, Unlist, ~errors
    PROVE  /\ batch.op = "update" /\ plans # <<>>
           /\ removing.package # cmd.selector
           /\ Base(removing.package) = Base(cmd.selector)
           /\ listed' = listed \ {removing.package}
<1>1. pc = "unlist" /\ pc \in Removal /\ listed' = listed \ {removing.package}
  BY Zenon DEF Unlist, Removal
<1>2. cmd.op \in {"install", "update"} /\ cmd.op = batch.op
  BY <1>1, Zenon DEF ChildKept, InBatch, Types, WorldT
<1>3. Phase \in Staging \cup Hooking
  <2>1. removing.back \in {"none", "remove", "copy", "stage", "hook"} /\ removing.back # "none"
    BY <1>1, Zenon DEF Types, CmdT, ControlKept
  <2>2. removing.back # "remove"
    BY <1>1, <1>2, Zenon DEF ControlKept, Phase
  <2> QED
    BY <1>1, <2>1, <2>2, Zenon DEF Phase, Staging, Copying, Hooking
<1>4. /\ removing.back = "copy" /\ cmd.op = "update" /\ Base(removing.package) = Base(Current)
  BY <1>1, <1>3, RemovalFacts, Zenon
<1>5. Phase \in Copying
  BY <1>1, <1>4, Zenon DEF Phase, Copying
<1>6. at \in DOMAIN order /\ removing.package # Current
  BY <1>4, <1>5, CurrentFacts, Zenon DEF ControlKept
<1>7. order[at] \in Todo
  BY <1>3, <1>6, PlanFacts, Zenon
<1>8. PICK k \in DOMAIN plans : order[at] = plans[k]
  BY <1>7, Zenon DEF Todo
<1>9. Current = cmd.selector
  BY <1>1, <1>2, <1>4, <1>8, Zenon DEF ChildKept, UpdateChild, Current
<1> QED
  BY <1>1, <1>2, <1>4, <1>6, <1>8, <1>9

\* The child's selector, which update --all writes with its version.
LEMMA ChildFacts ==
    ASSUME Types, ChildKept, ListKept, InBatch, pc # "idle"
    PROVE  /\ batch.next - 1 \in DOMAIN batch.all
           /\ cmd.selector = batch.all[batch.next - 1] /\ cmd.selector \in Selectors
           /\ batch.op = "update" => Version(cmd.selector) # 0
<1>1. batch.next > 1 /\ cmd.selector = batch.all[batch.next - 1]
  BY Zenon DEF ChildKept
<1>2. batch.all \in Seq(Selectors) /\ batch.next \in 1..(Len(batch.all) + 1)
  BY Zenon DEF Types, WorldT
<1>3. batch.next - 1 \in 1..Len(batch.all) /\ DOMAIN batch.all = 1..Len(batch.all)
  BY <1>1, <1>2
<1> QED
  BY <1>1, <1>2, <1>3 DEF ListKept

LEMMA UpdateChildStep ==
    ASSUME Types, ControlKept, PlansKept, ChildKept, ListKept, UpdateChild,
           InBatch, pc # "idle", batch.op = "update",
           Kinds \/ UNCHANGED vars, InBatch', pc' # "idle", ~NextChild
    PROVE  UpdateChild'
<1>0. UNCHANGED <<world, cmd>> /\ (errors => errors')
  BY RunningStep, Zenon
<1>1. cmd.op = "update" /\ ~cmd.with_deps /\ cmd.selector \in Selectors /\ Version(cmd.selector) # 0
  BY ChildFacts, Zenon DEF ChildKept
<1>2. CASE PlanInstalled \/ PlanMissing \/ PlanPackage
  <2>1. pc = "plan" /\ pc' = "plan" /\ queue_idx <= Len(queue) /\ UNCHANGED <<listed, errors>>
        /\ queue_idx' = queue_idx + 1
    BY <1>2, Zenon DEF PlanInstalled, PlanMissing, PlanPackage, Planning, Goto, disk, progress
  <2>2. queue_idx = 1 /\ plans = <<>> /\ Selector = cmd.selector
    <3>1. Len(queue) = 1 /\ queue[1] = cmd.selector
      BY Zenon DEF UpdateChild
    <3>2. queue_idx = 1
      BY <2>1, <3>1 DEF Types, PlanT
    <3> QED
      BY <3>1, <3>2, Zenon DEF UpdateChild, Selector
  <2>3. ~PlanMissing
    BY <2>2, Zenon DEF PlanMissing, IsRoot
  <2>4. CASE PlanInstalled
    <3>1. UNCHANGED <<queue, plans, missing>> /\ cmd.selector \in listed
      BY <2>2, <2>4, Zenon DEF PlanInstalled
    <3> QED
      BY <1>0, <2>1, <2>2, <3>1, Zenon DEF UpdateChild
  <2>5. CASE PlanPackage
    <3>1. Resolve(Selector) = cmd.selector
      BY <1>1, <2>2, Zenon DEF Resolve
    <3> DEFINE p == cmd.selector
               q == [selector |-> Selector, package |-> p, old |-> InstalledFor(p),
                     installed |-> p \in listed /\ ~(cmd.op = "update" /\ cmd.with_deps)]
    <3>2. plans' = Append(plans, q) /\ queue' = queue \o NewDeps(p) /\ missing' = missing
      BY <2>5, <3>1, Zenon DEF PlanPackage
    <3>3. q.package = cmd.selector /\ (q.installed => q.package \in listed)
      BY Zenon
    <3> HIDE DEF q
    <3>4. NewDeps(p) = <<>>
      BY <1>1, Zenon DEF NewDeps
    <3>5. queue' = queue
      BY <3>2, <3>4 DEF Types, PlanT
    <3>6. plans' = <<q>>
      BY <2>2, <3>2
    <3>7. DOMAIN plans' = {1} /\ plans'[1] = q /\ plans' # <<>>
      BY <3>6
    <3>8. queue' = <<cmd'.selector>> /\ missing' = {} /\ queue_idx' = 2 /\ cmd' = cmd
      <4>1. cmd' = cmd /\ queue = <<cmd.selector>> /\ missing = {}
        BY <1>0, Zenon DEF UpdateChild
      <4> QED
        BY <2>1, <2>2, <3>2, <3>5, <4>1
    <3> QED
      BY <2>1, <3>3, <3>7, <3>8 DEF UpdateChild
  <2> QED
    BY <1>2, <2>3, <2>4, <2>5, Zenon
<1>3. CASE Removes \/ KeepDependency
  <2>1. cmd.op = "remove" \/ pc = "remove"
    BY <1>3, Zenon DEF Removes, KeepDependency, ConfirmRemove, RemoveDependency, RemovePackage
  <2>2. cmd.op = "remove"
    BY <2>1, Zenon DEF ControlKept, Phase, Removal
  <2> QED
    BY <1>1, <2>2, Zenon
<1>4. CASE Command \/ \E v : Ends(v)
  <2>1. CASE Command
    BY <1>0, <2>1, Zenon DEF Command, InstallCommand, UpdateCommand, RemoveCommand,
       BeginPlanning, Begin
  <2>2. CASE \E v : Ends(v)
    BY <2>2, Zenon DEF Ends, Return
  <2> QED
    BY <1>4, <2>1, <2>2, Zenon
<1>5. CASE UNCHANGED plan
  <2>1. pc = "plan" /\ pc' # "plan" => queue_idx > 1
    <3> SUFFICES ASSUME pc = "plan", pc' # "plan" PROVE queue_idx > 1
      BY Zenon
    <3>1. Planned
      <4>1. CASE Quiet
        BY <4>1, Zenon DEF Quiet, Pass, AskInstall, ConfirmInstall, Extract, StageNew, Staged,
                HooksDone, RunRemoveHook, StageOld, Batch, BeginBatch, BatchReturns, KillBatch,
                Publish, vars
      <4>2. CASE Aside
        <5>1. CASE PlanInstalled \/ PlanMissing \/ PlanPackage \/ \E v : Ends(v)
          BY <5>1, Zenon DEF PlanInstalled, PlanMissing, PlanPackage, Goto, Ends, Return
        <5>2. CASE CopyFails \/ ManifestFails \/ SaveHookFails \/ HookFails \/ Resumes
                   \/ Removes \/ KeepDependency
          BY <5>2, Zenon DEF CopyFails, ManifestFails, SaveHookFails, HookFails, Resumes, Removes,
                      ConfirmRemove, RemoveDependency, KeepDependency
        <5>3. CASE Command
          BY <5>3, BeginFacts, Zenon DEF Begin
        <5> QED
          BY <4>2, <5>1, <5>2, <5>3, Zenon DEF Aside
      <4>3. CASE BuildOrder \/ Copy \/ WriteManifest \/ SaveHook \/ RefreshCache \/ RunHook
                 \/ Unlink \/ Unlist
        BY <4>3, Zenon DEF BuildOrder, Copy, WriteManifest, SaveHook, RefreshCache, RunHook,
           Unlink, Unlist
      <4> QED
        BY <4>1, <4>2, <4>3, QuietOrAside, Zenon
    <3>2. Len(queue) = 1
      BY Zenon DEF UpdateChild
    <3> QED
      BY <3>1, <3>2, Zenon DEF Planned, Types, PlanT
  <2>2. CASE ~Unlist \/ errors
    <3>1. listed \subseteq listed' \/ errors
      BY <2>2, ListedGrows, Zenon
    <3> QED
      BY <1>0, <1>5, <2>1, <3>1, Zenon DEF UpdateChild, plan
  <2>3. CASE Unlist /\ ~errors
    <3>1. /\ plans # <<>> /\ removing.package # cmd.selector
          /\ listed' = listed \ {removing.package}
      BY <2>3, UnlistFacts, Zenon
    <3> QED
      BY <1>0, <1>5, <2>1, <3>1, Zenon DEF UpdateChild, plan
  <2> QED
    BY <2>2, <2>3, Zenon
<1> QED
  BY <1>2, <1>3, <1>4, <1>5, Frames, Zenon

\* A new child.
LEMMA NextChildFacts ==
    ASSUME Types, NextChild
    PROVE  /\ InBatch /\ pc = "idle" /\ batch'.op = batch.op /\ batch'.all = batch.all
           /\ batch'.next = batch.next + 1 /\ batch'.rc = batch.rc
           /\ batch'.failed = Collected.failed /\ batch'.declined = Collected.declined
           /\ cmd'.selector = batch.all[batch.next] /\ cmd'.op = batch.op /\ ~cmd'.with_deps
           /\ queue' = <<cmd'.selector>> /\ queue_idx' = 1 /\ plans' = <<>> /\ missing' = {}
           /\ pc' = "plan" /\ listed' = listed /\ rc' = "none"
<1>1. /\ InBatch /\ pc = "idle" /\ batch' = [Collected EXCEPT !.next = @ + 1]
      /\ BeginPlanning(batch.op, batch.all[batch.next], FALSE, FALSE)
  BY Zenon DEF NextChild
<1>2. /\ Collected \in [op : {"none", "install", "update"}, all : Seq(Selectors),
                  next : Nat, failed : BOOLEAN, declined : BOOLEAN,
                  rc : {"none", "ok", "failed", "killed"}]
      /\ Collected.op = batch.op /\ Collected.all = batch.all
      /\ Collected.next = batch.next /\ Collected.rc = batch.rc
  BY CollectedFacts, Zenon DEF Types
<1>3. /\ batch'.op = batch.op /\ batch'.all = batch.all
      /\ batch'.next = batch.next + 1 /\ batch'.rc = batch.rc
      /\ batch'.failed = Collected.failed /\ batch'.declined = Collected.declined
  BY <1>1, <1>2, Zenon
<1> QED
  BY <1>1, <1>3, Zenon DEF BeginPlanning, Begin, Fresh, disk

LEMMA ChildStep ==
    ASSUME Types, ControlKept, PlansKept, ChildKept, BatchKept, Kinds \/ UNCHANGED vars
    PROVE  ChildKept'
<1> SUFFICES ASSUME InBatch', pc' # "idle"
    PROVE
        /\ batch'.next > 1 /\ cmd'.selector = batch'.all[batch'.next - 1]
        /\ cmd'.op = batch'.op /\ ~cmd'.with_deps
        /\ batch'.op = "update" => UpdateChild'
  BY Zenon DEF ChildKept, UpdateChild
<1>1. CASE NextChild
  <2>1. batch.next \in Nat /\ batch.next >= 1
    BY DEF Types, WorldT
  <2>2. batch'.next > 1 /\ batch'.next - 1 = batch.next
    BY <1>1, <2>1, NextChildFacts
  <2>3. UpdateChild'
    BY <1>1, NextChildFacts DEF UpdateChild
  <2> QED
    BY <1>1, <2>2, <2>3, NextChildFacts, Zenon
<1>2. CASE ~NextChild
  <2>1. UNCHANGED <<batch, cmd>> /\ pc # "idle" /\ InBatch
    BY <1>2, RunningStep, Zenon DEF world, InBatch
  <2>2. batch.op = "update" => UpdateChild
    BY <2>1, Zenon DEF ChildKept
  <2>3. batch.op = "update" => UpdateChild'
    BY <1>2, <2>1, <2>2, UpdateChildStep, Zenon DEF BatchKept
  <2> QED
    BY <2>1, <2>3, Zenon DEF ChildKept
<1> QED
  BY <1>1, <1>2, Zenon

LEMMA ChildInit == Init => ChildKept
  BY Zenon DEF Init, ChildKept

LEMMA IdleStep ==
    ASSUME Kinds \/ UNCHANGED vars, pc = "idle"
    PROVE  \/ Command \/ NextChild \/ Batch \/ BatchReturns \/ KillBatch
           \/ (\E n \in Names : Publish(n)) \/ UNCHANGED vars
<1>1. ~\E v : Ends(v)
  BY Zenon DEF Ends
<1>2. ~(PlanInstalled \/ PlanMissing \/ PlanPackage \/ Pass \/ BuildOrder \/ StageOld)
  BY Zenon DEF PlanInstalled, PlanMissing, PlanPackage, Planning, Pass, BuildOrder, StageOld,
         AskInstall, ConfirmInstall, Extract, StageNew, Staged, HooksDone, RunRemoveHook, Planned
<1>3. ~(Copy \/ WriteManifest \/ CopyFails \/ ManifestFails \/ SaveHook \/ SaveHookFails
        \/ RefreshCache \/ RunHook \/ HookFails)
  BY Zenon DEF Copy, WriteManifest, CopyFails, ManifestFails, SaveHook, SaveHookFails,
         RefreshCache, RunHook, HookFails
<1>4. ~(Unlink \/ Unlist \/ Resumes \/ Removes \/ KeepDependency)
  BY Zenon DEF Unlink, Unlist, Resumes, Removes, ConfirmRemove, RemoveDependency, KeepDependency
<1> QED
  BY <1>1, <1>2, <1>3, <1>4, Zenon DEF Kinds

LEMMA EndStep ==
    ASSUME Types, ControlKept, Kinds \/ UNCHANGED vars, pc # "idle", pc' = "idle"
    PROVE  \E v : Ends(v)
<1>1. ~(Unlist \/ Resumes)
  <2> SUFFICES ASSUME Unlist \/ Resumes PROVE FALSE
    BY Zenon
  <2>1. removing.back \in {"remove", "copy", "stage", "hook"}
    BY Zenon DEF Unlist, Resumes, Types, CmdT, ControlKept, Removal
  <2> QED
    BY <2>1, Zenon DEF Unlist, Resumes, GiveUp, Goto
<1>2. ~(PlanInstalled \/ PlanMissing \/ PlanPackage \/ Pass \/ BuildOrder \/ StageOld)
  BY Zenon DEF PlanInstalled, PlanMissing, PlanPackage, Pass, BuildOrder, StageOld, AskInstall,
         ConfirmInstall, Extract, StageNew, Staged, HooksDone, RunRemoveHook, CallRemove, Goto
<1>3. ~(Copy \/ WriteManifest \/ CopyFails \/ ManifestFails \/ SaveHook \/ SaveHookFails
        \/ RefreshCache \/ RunHook \/ HookFails)
  BY Zenon DEF Copy, WriteManifest, CopyFails, ManifestFails, SaveHook, SaveHookFails,
         RefreshCache, RunHook, HookFails, GiveUp, CallRemove, Goto
<1>4. ~(Unlink \/ Removes \/ KeepDependency)
  BY Zenon DEF Unlink, Removes, ConfirmRemove, RemoveDependency, RemovePackage, CallRemove,
         KeepDependency, Goto
<1>5. ~(Batch \/ BatchReturns \/ KillBatch \/ (\E n \in Names : Publish(n)) \/ UNCHANGED vars)
  BY Zenon DEF Batch, BeginBatch, BatchReturns, KillBatch, Publish, vars
<1>6. ~(Command \/ NextChild)
  BY BeginFacts, Zenon DEF Begin
<1> QED
  BY <1>1, <1>2, <1>3, <1>4, <1>5, <1>6, Zenon DEF Kinds

LEMMA PlansGrow ==
    ASSUME Types, Kinds \/ UNCHANGED vars, plans = <<>>, plans' # <<>>
    PROVE  PlanPackage
<1>1. ~UNCHANGED plan
  BY Zenon DEF plan
<1>2. ~(PlanInstalled \/ PlanMissing \/ Removes \/ KeepDependency)
  BY Zenon DEF PlanInstalled, PlanMissing, Removes, KeepDependency, ConfirmRemove,
     RemoveDependency,
         RemovePackage
<1>3. ~\E v : Ends(v)
  BY Zenon DEF Ends, Return, Fresh, plan
<1>4. ~(Command \/ NextChild)
  BY BeginFacts, Zenon DEF Fresh
<1> QED
  BY <1>1, <1>2, <1>3, <1>4, Frames, Zenon

LEMMA SatisfiedNow ==
    ASSUME listed' \in SUBSET Packages, NEW k, NEW p \in listed',
           Base(p) = Base(batch'.all[k]), Version(batch'.all[k]) = 0 \/ p = batch'.all[k]
    PROVE  Satisfied(batch.all[k])'
<1> DEFINE mine == {q \in listed' : Base(q) = Base(batch'.all[k])}
<1>1. p \in mine /\ mine \in SUBSET Packages
  BY Zenon
<1>2. (CHOOSE q \in mine : \A r \in mine : Version(r) <= Version(q)) \in mine
  BY <1>1, NewestFacts, Zenon
<1>3. (CHOOSE q \in mine : \A r \in mine : Version(r) <= Version(q)) # Nothing
  BY <1>1, <1>2, PairFacts, Zenon
<1>4. Installed(Base(batch.all[k]))' # Nothing
  BY <1>1, <1>3, Zenon DEF Installed, Base
<1> QED
  BY <1>4, Zenon DEF Satisfied

\* What becomes of the process with the list.
LEMMA BatchFrame ==
    ASSUME Types, Kinds \/ UNCHANGED vars
    PROVE  \/ UNCHANGED batch \/ NextChild \/ Batch
           \/ ~InBatch' /\ (batch'.rc = "ok" => pc' = "idle")
<1>1. CASE UNCHANGED world \/ \E n \in Names : Publish(n)
  BY <1>1, Zenon DEF world, Publish
<1>2. CASE Command
  <2>1. batch' = NoBatch
    BY <1>2, Zenon DEF Command, InstallCommand, UpdateCommand, RemoveCommand, Alone
  <2> QED
    BY <2>1, Zenon DEF NoBatch, InBatch
<1>3. CASE BatchReturns
  <2>1. batch'.rc # "none"
    BY <1>3, CollectedFacts, Zenon DEF BatchReturns, Types
  <2> QED
    BY <1>3, <2>1, Zenon DEF BatchReturns, InBatch
<1>4. CASE KillBatch
  BY <1>4, Zenon DEF KillBatch, InBatch, Types, WorldT
<1> QED
  BY <1>1, <1>2, <1>3, <1>4, Frames, Zenon

LEMMA BeginBatchFacts ==
    ASSUME Types, Batch
    PROVE  /\ UNCHANGED <<pc, rc, disk>> /\ pc = "idle"
           /\ batch'.next = 1 /\ batch'.rc = "none"
           /\ ListKept'
<1>1. PICK op, list : BeginBatch(op, list)
                      /\ (op = "install" \/ list \in check_all_updates_from_manifest)
  BY Zenon DEF Batch
<1>2. batch' = [op |-> op, all |-> list, next |-> 1, failed |-> FALSE,
                declined |-> FALSE, rc |-> "none"]
  BY <1>1, Zenon DEF BeginBatch, NoBatch
<1>3. ListKept'
  <2>1. CASE op = "install"
    <3>1. batch'.op = "install"
      BY <1>2, <2>1, Zenon
    <3> QED
      BY <3>1, Zenon DEF ListKept
  <2>2. CASE list \in check_all_updates_from_manifest
    <3>1. batch'.all = list
      BY <1>2, Zenon
    <3> QED
      BY <2>2, <3>1, UpdateListFacts, Zenon DEF Types, ListKept
  <2> QED
    BY <1>1, <2>1, <2>2, Zenon
<1>4. UNCHANGED <<pc, rc, disk>> /\ pc = "idle"
  BY <1>1, Zenon DEF BeginBatch
<1> QED
  BY <1>2, <1>3, <1>4, Zenon

LEMMA ListStep ==
    ASSUME Types, ListKept, Kinds \/ UNCHANGED vars
    PROVE  ListKept'
<1>1. CASE UNCHANGED batch
  BY <1>1, Zenon DEF ListKept, InBatch
<1>2. CASE NextChild
  <2>1. InBatch /\ batch'.op = batch.op /\ batch'.all = batch.all
    BY <1>2, NextChildFacts, Zenon
  <2> QED
    BY <2>1, ZenonT(60) DEF ListKept
<1>3. CASE ~InBatch'
  BY <1>3, Zenon DEF ListKept
<1> QED
  BY <1>1, <1>2, <1>3, BatchFrame, BeginBatchFacts, Zenon

LEMMA ReturnStep ==
    ASSUME Types, ControlKept, ReturnKept, Kinds \/ UNCHANGED vars
    PROVE  ReturnKept'
<1> SUFFICES ASSUME InBatch', pc' = "idle", batch'.next > 1, rc' = "none" PROVE FALSE
  BY Zenon DEF ReturnKept
<1>1. CASE pc # "idle"
  <2>1. PICK v : Ends(v)
    BY <1>1, EndStep, Zenon
  <2> QED
    BY <2>1, Zenon DEF Ends, Return
<1>2. CASE pc = "idle"
  <2>1. ~Command /\ ~NextChild
    BY BeginFacts, Zenon
  <2>2. UNCHANGED rc
    BY <1>2, <2>1, IdleStep, Zenon DEF Batch, BeginBatch, BatchReturns, KillBatch, Publish, vars
  <2>3. ~Batch
    BY BeginBatchFacts
  <2>4. UNCHANGED batch
    BY <2>1, <2>3, BatchFrame, Zenon
  <2> QED
    BY <1>2, <2>2, <2>4, Zenon DEF ReturnKept, InBatch
<1> QED
  BY <1>1, <1>2, Zenon

\* A child of update --all that succeeds has installed what it was started for.
LEMMA UpdateDone ==
    ASSUME Types, ControlKept, PlansKept, StagedKept, UpdateChild, cmd.op = "update", ~errors,
           NEW v \in {"ok", "nothing"}, Ends(v)
    PROVE  cmd.selector \in listed
<1>1. v = "ok" => pc = "recache" /\ Phase = "recache"
  BY Zenon DEF Ends, ControlKept, Phase, Removal
<1>2. v = "nothing" => Planned /\ Todo = {}
  BY Zenon DEF Ends
<1>3. queue_idx > 1
  <2>1. CASE pc # "plan"
    BY <2>1, Zenon DEF UpdateChild
  <2>2. CASE pc = "plan"
    <3>1. Planned /\ Len(queue) = 1
      BY <1>1, <1>2, <2>2, Zenon DEF UpdateChild
    <3> QED
      BY <3>1, Zenon DEF Planned, Types, PlanT
  <2> QED
    BY <2>1, <2>2, Zenon
<1>4. CASE plans = <<>>
  BY <1>3, <1>4, Zenon DEF UpdateChild
<1>5. ASSUME NEW j \in DOMAIN plans PROVE cmd.selector \in listed
  <2>1. CASE plans[j].installed
    BY <2>1, Zenon DEF UpdateChild
  <2>2. CASE ~plans[j].installed
    <3>1. plans[j] \in Todo
      BY <2>2, Zenon DEF Todo
    <3>2. Phase = "recache"
      BY <1>1, <1>2, <3>1, Zenon
    <3>3. Range(order) = Todo
      BY <3>2, Zenon DEF PlansKept, Hooking
    <3>4. PICK i \in DOMAIN order : order[i] = plans[j]
      BY <3>1, <3>3, Zenon DEF Range
    <3>5. PICK m \in DOMAIN order : order[m].package \in listed
      BY <3>2, <3>4, Zenon DEF StagedKept, Hooking, OnDisk
    <3>6. PICK h \in DOMAIN plans : order[m] = plans[h]
      BY <3>3, <3>5, Zenon DEF Range, Todo
    <3> QED
      BY <3>5, <3>6, Zenon DEF UpdateChild
  <2> QED
    BY <2>1, <2>2, Zenon
<1>6. plans = <<>> \/ 1 \in DOMAIN plans
  BY DEF Types, PlanT
<1> QED
  BY <1>4, <1>5, <1>6, Zenon

LEMMA ChildDone ==
    ASSUME Types, ControlKept, PlansKept, StagedKept, ListedKept, QueueKept, ChildKept, InBatch,
           NEW v \in {"ok", "nothing"}, Ends(v)
    PROVE  ~errors /\ Satisfied(cmd.selector)
<1>1. /\ pc # "idle" /\ cmd.op = batch.op /\ cmd.op \in {"install", "update"}
      /\ cmd.selector \in Selectors /\ listed \in SUBSET Packages
  BY Zenon DEF Ends, ChildKept, InBatch, Types, WorldT, CmdT, DiskT
<1>2. pc \in {"recache", "plan"}
  BY <1>1, Zenon DEF Ends, Planned, ControlKept, Phase, Removal
<1>3. ~errors
  BY <1>2, Zenon DEF ControlKept, Early
<1>4. CASE cmd.op = "install"
  <2>1. cmd.selector \in Range(queue)
    BY <1>1, <1>3, <1>4, Zenon DEF QueueKept
  <2> QED
    BY <1>3, <1>4, <2>1, SuccessFacts, Zenon DEF Range
<1>5. CASE cmd.op = "update"
  <2>1. UpdateChild
    BY <1>1, <1>5, Zenon DEF ChildKept
  <2>2. cmd.selector \in listed
    BY <1>3, <1>5, <2>1, UpdateDone, Zenon
  <2> QED
    BY <1>1, <1>3, <2>2, SatisfiedIs, Zenon
<1> QED
  BY <1>1, <1>4, <1>5, Zenon

LEMMA PastStep ==
    ASSUME Types, ControlKept, PlansKept, StagedKept, ListedKept, QueueKept, ChildKept, BatchKept,
           Kinds \/ UNCHANGED vars
    PROVE  PastKept'
<1> SUFFICES ASSUME Trusted', pc' = "idle", rc' \in {"ok", "nothing"}, NEW k \in 1..(batch'.next - 1)
             PROVE  Satisfied(batch.all[k])'
  BY Zenon DEF PastKept
<1>1. CASE Ends(rc')
  <2>1. UNCHANGED <<batch, listed>> /\ Trusted /\ InBatch /\ pc # "idle"
    BY <1>1, Zenon DEF Ends, Return, world, disk, Trusted, InBatch
  <2>2. ~errors /\ Satisfied(cmd.selector)
    BY <1>1, <2>1, ChildDone, Zenon
  <2>3. k \in 1..(batch.next - 2) \/ k = batch.next - 1
    BY <2>1, SMTT(30) DEF Types, WorldT
  <2>4. Satisfied(batch.all[k])
    <3>1. CASE k \in 1..(batch.next - 2)
      BY <2>1, <2>2, <3>1, Zenon DEF BatchKept, RunningKept, Past
    <3>2. CASE k = batch.next - 1
      BY <2>1, <2>2, <3>2, ZenonT(60) DEF ChildKept
    <3> QED
      BY <2>3, <3>1, <3>2, Zenon
  <2> QED
    BY <2>1, <2>4, SMTT(30) DEF Satisfied, Installed
<1>2. CASE Quiet /\ UNCHANGED rc /\ pc = "idle"
  <2>1. listed' = listed
    BY <1>2, QuietFacts, Zenon DEF disk
  <2>2. ~Batch
    BY BeginBatchFacts
  <2>3. ~NextChild
    BY NextChildFacts, Zenon
  <2>4. UNCHANGED batch
    BY <2>2, <2>3, BatchFrame, Zenon DEF Trusted
  <2>5. Satisfied(batch.all[k])
    BY <1>2, <2>4, Zenon DEF BatchKept, PastKept, Trusted, InBatch
  <2> QED
    BY <2>1, <2>4, <2>5 DEF Satisfied, Installed
<1> QED
  BY <1>1, <1>2, ResultStep, Zenon

\* A list of update --all names a package once, so that a child plans, and takes
\* off the list, nothing that another child has installed.
LEMMA ChildApart ==
    ASSUME Types, ChildKept, ListKept, InBatch, pc # "idle", batch.op = "update", PlanPackage,
           NEW k \in DOMAIN batch.all, Satisfied(batch.all[k])
    PROVE  Base(batch.all[k]) # Base(cmd.selector)
<1>1. Version(batch.all[k]) # 0 /\ batch.all[k] \in listed
  BY Zenon DEF ListKept, Satisfied
<1>2. Selector = cmd.selector /\ Selector \notin listed
  <2>1. Len(queue) = 1 /\ queue[1] = cmd.selector
    BY DEF ChildKept, UpdateChild
  <2>2. queue_idx = 1
    BY <2>1 DEF PlanPackage, Planning, Types, PlanT
  <2> QED
    BY <2>1, <2>2, Zenon DEF PlanPackage, Selector
<1>3. batch.next - 1 \in DOMAIN batch.all /\ cmd.selector = batch.all[batch.next - 1]
  BY ChildFacts, Zenon
<1> QED
  BY <1>1, <1>2, <1>3, Zenon DEF ListKept

LEMMA RunningPast ==
    ASSUME Types, ControlKept, PlansKept, ChildKept, BatchKept, Kinds \/ UNCHANGED vars,
           UNCHANGED <<batch, cmd>>, pc # "idle", ~errors, Trusted, NEW k \in 1..(batch.next - 2)
    PROVE  Past(k)'
<1>1. k \in DOMAIN batch.all /\ batch.all[k] \in Selectors
  BY DEF Types, WorldT
<1>2. listed \in SUBSET Packages /\ listed' \in SUBSET Packages
  BY DiskStep, Zenon DEF Types, DiskT
<1>3. /\ Satisfied(batch.all[k])
      /\ batch.op = "update" /\ plans # <<>> => Base(batch.all[k]) # Base(cmd.selector)
  BY Zenon DEF BatchKept, RunningKept, Past
<1>4. PICK p \in listed : /\ Base(p) = Base(batch.all[k])
                          /\ Version(batch.all[k]) = 0 \/ p = batch.all[k]
  BY <1>1, <1>2, <1>3, SatisfiedIs, Zenon
<1>5. p \in listed'
  <2>1. CASE Unlist
    <3>1. /\ batch.op = "update" /\ plans # <<>>
          /\ Base(removing.package) = Base(cmd.selector)
          /\ listed' = listed \ {removing.package}
      BY <2>1, UnlistFacts, Zenon DEF Trusted
    <3> QED
      BY <1>3, <1>4, <3>1, Zenon
  <2>2. CASE ~Unlist
    BY <2>2, ListedGrows, Zenon
  <2> QED
    BY <2>1, <2>2, Zenon
<1>6. Satisfied(batch.all[k])'
  BY <1>2, <1>4, <1>5, SatisfiedNow, Zenon
<1>7. batch.op = "update" /\ plans' # <<>> => Base(batch.all[k]) # Base(cmd.selector)
  BY <1>1, <1>3, PlansGrow, ChildApart, Zenon DEF BatchKept, Trusted
<1> QED
  BY <1>6, <1>7, Zenon DEF Past

LEMMA NextPast ==
    ASSUME Types, BatchKept, NextChild, Trusted', NEW k \in 1..(batch'.next - 2)
    PROVE  Past(k)'
<1>1. /\ batch'.next = batch.next + 1 /\ batch'.all = batch.all /\ plans' = <<>>
      /\ listed' = listed /\ InBatch /\ pc = "idle"
      /\ ~Collected.failed /\ ~Collected.declined
  BY NextChildFacts, Zenon DEF Trusted
<1>2. k \in 1..(batch.next - 1) /\ batch.next # 1 /\ batch.next > 1
  BY <1>1 DEF Types, WorldT
<1>3. ~batch.failed /\ ~batch.declined /\ rc \notin {"failed", "killed", "cancelled"}
  BY <1>1, <1>2, Zenon DEF Collected, Types, WorldT
<1>4. rc \in {"ok", "nothing"}
  BY <1>1, <1>2, <1>3, Zenon DEF BatchKept, ReturnKept, Types, CmdT
<1>5. Satisfied(batch.all[k])
  BY <1>1, <1>2, <1>3, <1>4, Zenon DEF BatchKept, PastKept, Trusted
<1> QED
  BY <1>1, <1>5, Zenon DEF Past, Satisfied, Installed

LEMMA RunningKeptStep ==
    ASSUME Types, ControlKept, PlansKept, ChildKept, BatchKept, Kinds \/ UNCHANGED vars
    PROVE  RunningKept'
<1> SUFFICES ASSUME Trusted', pc' # "idle", ~errors', NEW k \in 1..(batch'.next - 2)
             PROVE  Past(k)'
  BY Zenon DEF RunningKept
<1>1. CASE NextChild
  BY <1>1, NextPast, Zenon
<1>2. CASE ~NextChild
  <2>1. UNCHANGED <<batch, cmd>> /\ pc # "idle" /\ ~errors /\ Trusted
    BY <1>2, RunningStep, Zenon DEF world, Trusted, InBatch
  <2> QED
    BY <2>1, RunningPast, Zenon
<1> QED
  BY <1>1, <1>2, Zenon

\* What the children so far have done.
LEMMA BatchStep ==
    ASSUME Types, ControlKept, PlansKept, StagedKept, ListedKept, QueueKept, ChildKept, BatchKept,
           Kinds \/ UNCHANGED vars
    PROVE  BatchKept'
<1>1. ListKept' /\ ReturnKept' /\ PastKept' /\ RunningKept'
  BY ListStep, ReturnStep, PastStep, RunningKeptStep, Zenon DEF BatchKept
<1>2. batch'.rc = "ok" => pc' = "idle"
  <2> SUFFICES ASSUME batch'.rc = "ok", pc' # "idle" PROVE FALSE
    BY Zenon
  <2>1. ~NextChild
    BY NextChildFacts, Zenon DEF InBatch
  <2>2. UNCHANGED batch
    BY <2>1, BatchFrame, BeginBatchFacts, Zenon
  <2>3. pc = "idle" /\ ~InBatch
    BY <2>2, Zenon DEF BatchKept, InBatch
  <2>4. Command
    BY <2>1, <2>3, IdleStep, Zenon DEF Batch, BeginBatch, BatchReturns, KillBatch, Publish, vars
  <2>5. batch' = NoBatch
    BY <2>4, Zenon DEF Command, InstallCommand, UpdateCommand, RemoveCommand, Alone
  <2> QED
    BY <2>5, Zenon DEF NoBatch
<1> QED
  BY <1>1, <1>2, Zenon DEF BatchKept

LEMMA BatchInit == Init => BatchKept
  BY DEF Init, BatchKept, ListKept, ReturnKept, PastKept, RunningKept,
     NoBatch, Trusted, InBatch

LEMMA BatchAllStep ==
    ASSUME Types, ControlKept, BatchKept, BatchMeansAll, Kinds \/ UNCHANGED vars
    PROVE  BatchMeansAll'
<1> SUFFICES ASSUME batch'.rc = "ok", pc' = "idle", ~batch'.declined, NEW k \in DOMAIN batch'.all
             PROVE  Satisfied(batch.all[k])'
  BY Zenon DEF BatchMeansAll
<1>1. CASE BatchReturns
  <2>1. /\ InBatch /\ pc = "idle" /\ batch.next > Len(batch.all) /\ listed' = listed
        /\ batch' = [Collected EXCEPT !.rc = IF Collected.failed THEN "failed" ELSE "ok"]
    BY <1>1, Zenon DEF BatchReturns, disk
  <2>2. /\ Collected \in [op : {"none", "install", "update"}, all : Seq(Selectors),
                  next : Nat, failed : BOOLEAN, declined : BOOLEAN,
                  rc : {"none", "ok", "failed", "killed"}]
        /\ Collected.all = batch.all
    BY CollectedFacts, Zenon DEF Types
  <2>3. ~Collected.failed /\ ~Collected.declined /\ batch'.all = batch.all
    BY <2>1, <2>2, Zenon
  <2>4. /\ batch.all \in Seq(Selectors) /\ batch.next \in Nat /\ Len(batch.all) \in Nat
        /\ DOMAIN batch.all = 1..Len(batch.all)
    BY DEF Types, WorldT
  <2>5. k \in 1..(batch.next - 1) /\ batch.next > 1 /\ batch.next # 1
    BY <2>1, <2>3, <2>4
  <2>6. ~batch.failed /\ ~batch.declined /\ rc \notin {"failed", "killed", "cancelled"}
    BY <2>3, <2>5, Zenon DEF Collected, Types, WorldT
  <2>7. rc \in {"ok", "nothing"}
    BY <2>1, <2>5, <2>6, Zenon DEF BatchKept, ReturnKept, Types, CmdT
  <2>8. Satisfied(batch.all[k])
    BY <2>1, <2>5, <2>6, <2>7, ZenonT(60) DEF BatchKept, PastKept, Trusted
  <2> QED
    BY <2>1, <2>3, <2>8 DEF Satisfied, Installed
<1>2. CASE UNCHANGED <<batch, listed>>
  <2>1. Satisfied(batch.all[k])
    BY <1>2, Zenon DEF BatchMeansAll, BatchKept
  <2> QED
    BY <1>2, <2>1 DEF Satisfied, Installed
<1>3. CASE Batch \/ KillBatch
  <2>1. KillBatch => batch'.rc = "killed"
    BY Zenon DEF KillBatch, Types, WorldT
  <2> QED
    BY <1>3, <2>1, BeginBatchFacts, Zenon
<1>4. CASE Command \/ NextChild
  BY <1>4, BeginFacts, Zenon
<1>5. CASE (\E n \in Names : Publish(n)) \/ UNCHANGED vars
  BY <1>2, <1>5, Zenon DEF Publish, vars, world, disk
<1>6. CASE pc # "idle"
  <2>1. PICK v : Ends(v)
    BY <1>6, EndStep, Zenon
  <2> QED
    BY <1>2, <2>1, Zenon DEF Ends, Return, world, disk
<1> QED
  BY <1>1, <1>3, <1>4, <1>5, <1>6, IdleStep, Zenon

\* With what the children of a list have left.
BatchInv == DependencyInv /\ ChildKept /\ BatchKept /\ BatchMeansAll

\* When an installation of several packages or an update of all succeeds, and the
\* user has said no to none of them, every package on the list is installed.
THEOREM BatchMeansAllHolds == Spec => []BatchMeansAll
<1>1. Init => BatchInv
  <2>0. Init => rc = "none" /\ batch.rc = "none"
    BY DEF Init, NoBatch
  <2>1. Init => DoneMeansInstalled /\ DependenciesInstalled /\ BatchMeansAll
    BY <2>0, Zenon DEF DoneMeansInstalled, DependenciesInstalled, BatchMeansAll
  <2> QED
    BY <2>1, TypesInit, ControlInit, PlansInit, StagedInit, ListedInit, QueueInit, ChildInit,
       BatchInit, SMTT(30) DEF StagingInv, InstallInv, DependencyInv, BatchInv
<1>2. BatchInv /\ [Next]_vars => BatchInv'
  BY StepKinds, TypesStep, ControlStep, PlansStep, StagedStep, ListedStep, DoneStep, QueueStep,
     DependenciesStep, ChildStep, BatchStep, BatchAllStep, SMTT(30) DEF StagingInv, InstallInv,
     DependencyInv, BatchInv
<1>3. BatchInv => BatchMeansAll
  BY Zenon DEF BatchInv
<1> QED
  BY <1>1, <1>2, <1>3, PTL DEF Spec
=============================================================================
