----------------------------- MODULE MCUsrMerge -----------------------------
(* A file beside a directory with two entries; two bootstraps.                *)
EXTENDS UsrMerge

MCPaths == {<<"a">>, <<"d">>, <<"d", "x">>, <<"d", "y">>}
=============================================================================
