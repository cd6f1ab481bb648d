--------------------------- MODULE MCAccountAddresses ---------------------------
(***************************************************************************)
(* Few users and addresses.  Addresses of the university are not           *)
(* interchangeable with others.                                            *)
(***************************************************************************)
EXTENDS AccountAddresses, TLC

Symmetry == Permutations(Users) \cup Permutations(Academic)
            \cup Permutations(Addresses \ Academic) \cup Permutations(Requests)

=============================================================================
