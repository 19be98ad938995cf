--------------------------- MODULE MCSearchCache ---------------------------
(***************************************************************************)
(* Model checking of SearchCache: two imports and two queries, so that one *)
(* import writes over an answer it never saw, and time for an answer to    *)
(* expire in the middle of an import.                                      *)
(***************************************************************************)
EXTENDS SearchCache, TLC

ThreeDays == 3
Symmetry == Permutations(Procs) \cup Permutations(Queries)

=============================================================================
