------------------------------ MODULE MCCalls ------------------------------
(***************************************************************************)
(* One document type: a call requires some document or none.               *)
(***************************************************************************)
EXTENDS Calls, TLC

Symmetry == Permutations(Handlers)

=============================================================================
