----------------------- MODULE MCOrganizationMembership -----------------------
(***************************************************************************)
(* A few people, organisations and invitations, and two requests at once.  *)
(***************************************************************************)
EXTENDS OrganizationMembership, TLC

Symmetry == Permutations(Users) \cup Permutations(Orgs) \cup Permutations(Invites)
            \cup Permutations(Requests)

=============================================================================
