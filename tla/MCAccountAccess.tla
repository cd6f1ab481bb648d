---------------------------- MODULE MCAccountAccess ----------------------------
(***************************************************************************)
(* A few sessions, and two requests at once.                               *)
(***************************************************************************)
EXTENDS AccountAccess, TLC

Symmetry == Permutations(Sessions) \cup Permutations(Requests)

=============================================================================
