---------------------------- MODULE MergedPaths ----------------------------
(***************************************************************************)
(* What ensure_usr_merge_link (tools/syspckg/main.cpp) promises of the     *)
(* legacy paths (/bin, /sbin, /lib, /lib64), whatever throws or is killed: *)
(* a directory or a wrong symlink goes, the right link comes, and a right  *)
(* link stays for good. SyspckgGoal and UsrMerge implement it.             *)
(***************************************************************************)
CONSTANT Legacy     \* the legacy paths

VARIABLE path       \* each "dir", "gone", "link" or "other", a wrong symlink

Remove(d) == path[d] \in {"dir", "other"} /\ path' = [path EXCEPT ![d] = "gone"]

Link(d) == path[d] = "gone" /\ path' = [path EXCEPT ![d] = "link"]

Init == path \in [Legacy -> {"dir", "gone", "link", "other"}]

Next == \E d \in Legacy : Remove(d) \/ Link(d)

Spec == Init /\ [][Next]_path
=============================================================================
