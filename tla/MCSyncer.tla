------------------------------ MODULE MCSyncer ------------------------------
(***************************************************************************)
(* Model checking of Syncer.  The account starts with one playlist, empty, *)
(* holding one of the tracks, or holding one twice.                        *)
(***************************************************************************)
EXTENDS Syncer, TLC

EmptyOrOne == {<<>>} \cup {<<t>> : t \in Tracks}

EmptyOrDouble == {<<>>} \cup {<<t, t>> : t \in {CHOOSE t \in Tracks : TRUE}}

Symmetry == Permutations(Keys) \cup Permutations(Tracks)

=============================================================================
