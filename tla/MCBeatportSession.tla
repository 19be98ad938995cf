-------------------------- MODULE MCBeatportSession --------------------------
(***************************************************************************)
(* Model checking of BeatportSession: two terminals with one credential    *)
(* store and three tokens, one of which may be there already, so that two  *)
(* renewals can cross.  One retry leaves room for each order in which a    *)
(* 401 and a failure can come; the default of three only repeats them.     *)
(***************************************************************************)
EXTENDS BeatportSession

TwoTerminals == {"one", "two"}

=============================================================================
