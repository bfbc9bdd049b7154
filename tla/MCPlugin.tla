------------------------------ MODULE MCPlugin ------------------------------
(***************************************************************************)
(* Instances of PluginReload for TLC.                                      *)
(***************************************************************************)
EXTENDS PluginReload

CONSTANTS p, q, t1, t2

(* Every build of a plugin exports the same functions; both plugins export *)
(* one called b.                                                           *)
StableBuilds == [s \in Stems |-> IF s = p THEN {{"a", "b"}} ELSE {{"b", "c"}}]
OnlyWildcard == {Wildcard}

=============================================================================
