--------------------------- MODULE MCLegacyOrder ---------------------------
(* Every dependency graph of three plans with at most two dependencies     *)
(* each, in every order, unplanned ones and self-dependencies included.    *)
EXTENDS LegacyOrder, SequencesExt

CONSTANT MaxDeps

MCGraphs == [1..count -> BoundedSeq(0..count, MaxDeps)]
=============================================================================
