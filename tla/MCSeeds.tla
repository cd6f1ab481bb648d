------------------------------ MODULE MCSeeds ------------------------------
(***************************************************************************)
(* Two developers and a deployment, on databases where some of the         *)
(* students of the fixtures have accounts already, or none has.            *)
(***************************************************************************)
EXTENDS Seeds, TLC

Symmetry == Permutations(DevRuns)

=============================================================================
