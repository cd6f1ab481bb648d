------------------------ MODULE MCApplicationLifecycle ------------------------
(***************************************************************************)
(* Program A's applications of one team on small tables.                   *)
(***************************************************************************)
EXTENDS ApplicationLifecycle, TLC

Symmetry == Permutations(Apps) \cup Permutations(Calls)
            \cup Permutations(InfoItems)

=============================================================================
