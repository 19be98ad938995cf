-------------------------- MODULE MCSpotifySession --------------------------
(***************************************************************************)
(* Model checking of SpotifySession: two attempts, so that a tab of the    *)
(* first is open during the second; two pages; three tokens beyond the     *)
(* one that may be stored, so that a token is renewed twice in an import.  *)
(***************************************************************************)
EXTENDS SpotifySession

TwoAttempts == 2
TwoPages == 2
FourTokens == 4

=============================================================================
