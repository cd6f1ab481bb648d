---------------------------- MODULE MCDocuments ----------------------------
(***************************************************************************)
(* Two slots, a section, a shelf of an organisation and one of a project.  *)
(***************************************************************************)
EXTENDS Documents, TLC

Symmetry == Permutations(Files) \cup Permutations(Slots) \cup Permutations(Requests)

=============================================================================
