------------------------------ MODULE MCProgramB ------------------------------
(***************************************************************************)
(* Program B on small tables.  Applications and requests are created in    *)
(* any order, so their identifiers are interchangeable.                    *)
(***************************************************************************)
EXTENDS ProgramB, TLC

Symmetry == Permutations(Apps) \cup Permutations(Requests)
            \cup Permutations(Teams) \cup Permutations(Users)

=============================================================================
