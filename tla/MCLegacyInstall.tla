-------------------------- MODULE MCLegacyInstall --------------------------
(* An application and a library in two versions each, with three ways in   *)
(* which they depend on each other; the tool itself is not on offer.        *)
EXTENDS LegacyInstall

CONSTANTS app, lib, tool

MCNames == {app, lib, tool}
MCHooked == {lib}
MCProtected == {tool}

\* The application's dependencies in versions 1 and 2, and the library's.
Graph(first, second, back) ==
    [p \in MCNames \X (1..2) |->
        CASE p = <<app, 1>> -> first
          [] p = <<app, 2>> -> second
          [] Base(p) = lib -> back
          [] OTHER -> <<>>]

MCLists == {<<<<lib, 0>>, <<app, 0>>>>, <<<<app, 1>>, <<lib, 2>>>>}

MCPlainGraph == {Graph(<<<<lib, 0>>>>, <<<<lib, 0>>>>, <<>>)}

MCGraphs == MCPlainGraph \cup {
    \* The second version wants the first version of the library, too.
    Graph(<<<<lib, 1>>>>, <<<<lib, 0>>, <<lib, 1>>>>, <<>>),
    \* The two depend on each other.
    Graph(<<<<lib, 0>>>>, <<<<lib, 2>>>>, <<<<app, 0>>>>)}

\* Install commands one after the other, as in tests/install_hook_test.sh: on a
\* system without packages, none of them killed or failing.
Installs ==
    \/ Step /\ ~errors' /\ rc' # "failed"
    \/ \E s \in Selectors, option \in BOOLEAN : InstallCommand(s, option)

HookTestSpec == Init /\ listed = {} /\ [][Installs]_vars
=============================================================================
