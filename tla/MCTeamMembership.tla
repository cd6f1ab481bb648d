--------------------------- MODULE MCTeamMembership ---------------------------
(***************************************************************************)
(* A team of at most three students with a few invitations.                *)
(***************************************************************************)
EXTENDS TeamMembership, TLC

Symmetry == Permutations(Users) \cup Permutations(Invites)
            \cup Permutations(Requests)

=============================================================================
