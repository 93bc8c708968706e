-------------------------- MODULE MCSyspckgConsole --------------------------
(* Two repositories, one planned item, and one that turns up unplanned.    *)
EXTENDS SyspckgConsole

MCLoads == {<<"primary">>, <<"primary", "extra">>}
=============================================================================
