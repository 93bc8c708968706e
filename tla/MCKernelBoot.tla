---------------------------- MODULE MCKernelBoot ----------------------------
(* 6.1, 6.2, 6.2.1 and 6.2.rc1; 6.2 and 6.2.1 have a ramdisk of their own. *)
EXTENDS KernelBoot

V(tokens, canonical) == [tokens |-> tokens, canonical |-> canonical]

MCVersions   == {V(<<6, 1>>, TRUE), V(<<6, 2>>, TRUE), V(<<6, 2, 1>>, TRUE), V(<<6, 2, -4>>, FALSE)}
MCWithInitrd == {V(<<6, 2>>, TRUE), V(<<6, 2, 1>>, TRUE)}

\* A word comes before a number.
MCsort_V(a, b) ==
    LET s == a.tokens
        t == b.tokens
        differ == {k \in 1..Min({Len(s), Len(t)}) : s[k] # t[k]}
        x == s[Min(differ)]
        y == t[Min(differ)]
    IN  IF differ = {} THEN Len(s) > Len(t)
        ELSE (x < 0 /\ y >= 0) \/ ((x < 0 <=> y < 0) /\ x > y)

\* The root= of the first menu is read only if its header has none and
\* /etc/default/grub neither: one value stands for all where it is not.
MCInit ==
    /\ Init
    /\ menu.header => defaults = "none" /\ menu.root = "device"
    /\ defaults # "none" => menu.root = defaults

MCSpec == MCInit /\ [][Next]_vars /\ WF_vars(Ramdisk)
=============================================================================
