------------------------------ MODULE UsrMerge ------------------------------
(***************************************************************************)
(* ensure_usr_merge_link and merge_bootstrap_tree (tools/syspckg/main.cpp) *)
(* at the level of files, for one legacy path: the tree below it is walked *)
(* and moved below its /usr path, where entries that exist win, and the    *)
(* legacy path becomes a link. Any operation may throw, the process may be *)
(* killed anywhere, and the next bootstrap begins the walk again.          *)
(*                                                                         *)
(* A path is a sequence of names below the legacy path; the legacy path    *)
(* itself is Root. A symlink below it never leads to a directory here.     *)
(***************************************************************************)
EXTENDS Integers, Sequences

CONSTANTS
    Paths,      \* the paths below the legacy path, closed under Front
    MaxRuns     \* bound: bootstraps

\* The directory of a path, and the callers of a walk.
Front(s) == SubSeq(s, 1, Len(s) - 1)
Last(s)  == s[Len(s)]

ASSUME UsrMergeAssumption ==
    /\ Paths \subseteq Seq(STRING) \ {<<>>}
    /\ \A p \in Paths : Front(p) \in Paths \cup {<<>>}
    /\ MaxRuns \in Nat

Root  == <<>>
Nodes == Paths \cup {Root}

\* What is at a path: the file of the legacy tree or of /usr, a symlink of
\* either, the start of a file whose copy was cut short.
Moved   == {"legacy_file", "legacy_symlink"}
Own     == {"usr_file", "usr_symlink"}
Entries == {"absent", "dir", "torn"} \cup Moved \cup Own

VARIABLES
    path,       \* the legacy path: "dir", "gone", "link" or "other"
    legacy,     \* what is below it; Root is a directory while path is "dir"
    usr,        \* what is below the /usr path
    pc,         \* "idle", "enter", "walk", "copy", "remove", "link", "done"
    at,         \* the path the step is about
    stack,      \* the directory_iterators: directory and entries to come
    runs,       \* bootstraps so far
    legacy0, usr0   \* history: the trees before the first bootstrap

disk == <<path, legacy, usr>>
walk == <<pc, at, stack>>
past == <<legacy0, usr0>>
vars == <<disk, walk, runs, past>>

TypeOK ==
    /\ path \in {"dir", "gone", "link", "other"}
    /\ legacy \in [Nodes -> {"absent", "dir"} \cup Moved]
    /\ legacy[Root] = IF path = "dir" THEN "dir" ELSE "absent"
    /\ usr \in [Nodes -> Entries]
    /\ pc \in {"idle", "enter", "walk", "copy", "remove", "link", "done"}
    /\ at \in Nodes
    /\ stack \in Seq([dir : Nodes, todo : SUBSET Paths])
    /\ runs \in 0..MaxRuns
    /\ legacy0 \in [Nodes -> {"absent", "dir"} \cup Moved]
    /\ usr0 \in [Nodes -> {"absent", "dir"} \cup Own]

Children(tree, dir) == {p \in Paths : Front(p) = dir /\ tree[p] # "absent"}

Goto(label, p) == pc' = label /\ at' = p /\ UNCHANGED stack

-----------------------------------------------------------------------------
(* ensure_usr_merge_link                                                   *)

\* Faulty variant of Begin: the target of a symlink is not looked at.
BeginAnyLink ==
    /\ pc = "idle" /\ runs < MaxRuns
    /\ runs' = runs + 1
    /\ Goto(CASE path = "dir"  -> "enter"
              [] path = "gone" -> "link"
              [] OTHER         -> "remove", Root)
    /\ UNCHANGED <<disk, past>>

\* A command in bootstrap mode comes to the path. The right link stays.
Begin ==
    /\ pc = "idle" /\ runs < MaxRuns
    /\ runs' = runs + 1
    /\ Goto(CASE path = "dir"   -> "enter"
              [] path = "link"  -> "done"
              [] path = "other" -> "remove"
              [] path = "gone"  -> "link", Root)
    /\ UNCHANGED <<disk, past>>

\* A wrong symlink is removed.
RemoveLink ==
    /\ pc = "remove" /\ at = Root
    /\ path' = "gone"
    /\ Goto("link", Root)
    /\ UNCHANGED <<legacy, usr, runs, past>>

\* create_directories for the /usr path.
CreateTarget ==
    /\ pc = "link" /\ usr[Root] = "absent"
    /\ usr' = [usr EXCEPT ![Root] = "dir"]
    /\ UNCHANGED <<path, legacy, walk, runs, past>>

CreateLink ==
    /\ pc = "link" /\ usr[Root] = "dir"
    /\ path' = "link"
    /\ Goto("done", Root)
    /\ UNCHANGED <<legacy, usr, runs, past>>

-----------------------------------------------------------------------------
(* merge_bootstrap_tree                                                    *)

\* The source is a directory: create_directories fails unless the destination
\* is one or nothing is there.
Enter ==
    /\ pc = "enter"
    /\ usr[at] \in {"dir", "absent"}
    /\ usr' = [usr EXCEPT ![at] = "dir"]
    /\ stack' = Append(stack, [dir |-> at, todo |-> Children(legacy, at)])
    /\ pc' = "walk"
    /\ UNCHANGED <<path, legacy, at, runs, past>>

Top == Last(stack)

\* The directory_iterator gives the entries in any order.
Entry(p) ==
    /\ pc = "walk" /\ stack # <<>> /\ p \in Top.todo
    /\ stack' = Append(Front(stack), [Top EXCEPT !.todo = @ \ {p}])
    /\ at' = p

EnterChild(p) ==
    /\ Entry(p) /\ legacy[p] = "dir"
    /\ pc' = "enter"
    /\ UNCHANGED <<disk, runs, past>>

\* Faulty variant of Duplicate: the entry of the legacy tree wins.
Overwrite(p) ==
    /\ Entry(p) /\ legacy[p] # "dir" /\ usr[p] # "absent"
    /\ usr' = [usr EXCEPT ![p] = legacy[p]]
    /\ legacy' = [legacy EXCEPT ![p] = "absent"]
    /\ UNCHANGED <<path, pc, runs, past>>

\* Something is at the destination already: the source is removed.
Duplicate(p) ==
    /\ Entry(p) /\ legacy[p] # "dir" /\ usr[p] # "absent"
    /\ legacy' = [legacy EXCEPT ![p] = "absent"]
    /\ UNCHANGED <<path, usr, pc, runs, past>>

Rename(p) ==
    /\ Entry(p) /\ legacy[p] # "dir" /\ usr[p] = "absent"
    /\ usr' = [usr EXCEPT ![p] = legacy[p]]
    /\ legacy' = [legacy EXCEPT ![p] = "absent"]
    /\ UNCHANGED <<path, pc, runs, past>>

\* Faulty variant of RenameFails: the source is removed before the copy is there.
MoveByRemoving(p) ==
    /\ Entry(p) /\ legacy[p] # "dir" /\ usr[p] = "absent"
    /\ legacy' = [legacy EXCEPT ![p] = "absent"]
    /\ UNCHANGED <<path, usr, pc, runs, past>>

\* rename fails, as it does between file systems: a symlink is created again,
\* and a file copied, which truncates the destination first.
RenameFails(p) ==
    /\ Entry(p) /\ legacy[p] # "dir" /\ usr[p] = "absent"
    /\ IF legacy[p] = "legacy_symlink"
       THEN usr' = [usr EXCEPT ![p] = legacy[p]] /\ pc' = "remove"
       ELSE usr' = [usr EXCEPT ![p] = "torn"] /\ pc' = "copy"
    /\ UNCHANGED <<path, legacy, runs, past>>

CopyFile ==
    /\ pc = "copy"
    /\ usr' = [usr EXCEPT ![at] = legacy[at]]
    /\ Goto("remove", at)
    /\ UNCHANGED <<path, legacy, runs, past>>

RemoveMigrated ==
    /\ pc = "remove" /\ at # Root
    /\ legacy' = [legacy EXCEPT ![at] = "absent"]
    /\ Goto("walk", at)
    /\ UNCHANGED <<path, usr, runs, past>>

\* Faulty variant of RemoveDirectory: the caller's entries are forgotten.
RemoveAll ==
    /\ pc = "walk" /\ stack # <<>> /\ Top.todo = {}
    /\ legacy' = [p \in Nodes |->
            IF Len(p) >= Len(Top.dir) /\ SubSeq(p, 1, Len(Top.dir)) = Top.dir
            THEN "absent" ELSE legacy[p]]
    /\ stack' = <<>>
    /\ path' = "gone" /\ pc' = "link"
    /\ UNCHANGED <<usr, at, runs, past>>

\* The walk of a directory has ended; remove refuses one that is not empty.
RemoveDirectory ==
    /\ pc = "walk" /\ stack # <<>> /\ Top.todo = {}
    /\ Children(legacy, Top.dir) = {}
    /\ legacy' = [legacy EXCEPT ![Top.dir] = "absent"]
    /\ stack' = Front(stack)
    /\ IF Top.dir = Root THEN path' = "gone" /\ pc' = "link"
                         ELSE UNCHANGED <<path, pc>>
    /\ UNCHANGED <<usr, at, runs, past>>

-----------------------------------------------------------------------------
\* Faulty variant of Throw: the merge is tried again instead.
ThrowRetry ==
    /\ pc \notin {"idle", "done"} /\ path = "dir"
    /\ pc' = "enter" /\ at' = Root /\ stack' = <<>>
    /\ UNCHANGED <<disk, runs, past>>

\* An operation fails and the command throws, or it is killed.
Throw ==
    /\ pc \notin {"idle", "done"}
    /\ pc' = "idle" /\ at' = Root /\ stack' = <<>>
    /\ UNCHANGED <<disk, runs, past>>

\* The command is over; the rest of the bootstrap may fail or be killed, so
\* that another one comes.
Return ==
    /\ pc = "done"
    /\ Goto("idle", Root)
    /\ UNCHANGED <<disk, runs, past>>

\* A tree: only directories have entries.
IsTree(tree) == \A p \in Paths : tree[p] # "absent" => tree[Front(p)] = "dir"

Init ==
    /\ path \in {"dir", "gone", "link", "other"}
    /\ legacy \in [Nodes -> {"absent", "dir"} \cup Moved]
    /\ usr \in [Nodes -> {"absent", "dir"} \cup Own]
    /\ IsTree(legacy) /\ IsTree(usr)
    /\ legacy[Root] = IF path = "dir" THEN "dir" ELSE "absent"
    /\ usr[Root] \in {"dir", "absent"}
    /\ path = "link" => usr[Root] = "dir"
    /\ pc = "idle" /\ at = Root /\ stack = <<>>
    /\ runs = 0
    /\ legacy0 = legacy /\ usr0 = usr

Step ==
    \/ RemoveLink \/ CreateTarget \/ CreateLink
    \/ Enter \/ CopyFile \/ RemoveMigrated \/ RemoveDirectory
    \/ (\E p \in Paths : EnterChild(p) \/ Duplicate(p) \/ Rename(p) \/ RenameFails(p))
    \/ Throw \/ Return

Ended == pc = "idle" /\ runs = MaxRuns /\ UNCHANGED vars

Next == Begin \/ Step \/ Ended

Spec == Init /\ [][Next]_vars

\* A running command keeps running.
FairSpec == Spec /\ WF_vars(Step)

-----------------------------------------------------------------------------
(* Properties.                                                             *)

\* What the merge leaves: an entry of /usr wins, the others are moved.
Merge == [p \in Nodes |-> IF usr0[p] # "absent" THEN usr0[p] ELSE legacy0[p]]

\* However often the walk was cut, and in whatever order the entries came, the
\* merge of a directory ends with the same tree: a file is different only if
\* the copy of it was cut short.
MergedAsDefined ==
    pc = "done" /\ legacy0[Root] = "dir" =>
        /\ \A p \in Paths : legacy[p] = "absent"
        /\ \A p \in Paths : usr[p] \in {Merge[p], "torn"}

\* Nothing of the legacy tree is lost at any moment, a kill between copy and
\* removal included: what is not there any more is below /usr, unless /usr had
\* an entry of that name or the copy was cut short.
NothingLost ==
    \A p \in Paths :
        legacy0[p] \in Moved =>
            \/ legacy[p] = legacy0[p]
            \/ usr[p] = legacy0[p]
            \/ usr0[p] # "absent"
            \/ usr[p] = "torn"

\* What /usr had, and what has been moved there completely, is never changed.
CompleteStays == \A p \in Nodes : usr[p] \notin {"absent", "torn"} => usr'[p] = usr[p]
UsrKept == [][CompleteStays]_vars

\* Every merge that was begun ends.
MergeEnds == pc # "idle" ~> pc = "idle"

\* The walk of the tree, file by file, is a step of MergedPaths, or none.
Abstract == INSTANCE MergedPaths WITH Legacy <- {Root}, path <- [d \in {Root} |-> path]
ImplementsMergedPaths == Abstract!Spec
=============================================================================
