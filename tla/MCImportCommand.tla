--------------------------- MODULE MCImportCommand ---------------------------
(***************************************************************************)
(* Model checking of ImportCommand: every combination of flags, source and *)
(* input.  Two playlists, so that a name may be shared; one text that is   *)
(* an ID and one that is a name; two rows; a pipe of up to two lines.      *)
(***************************************************************************)
EXTENDS ImportCommand

CONSTANTS anID, aName

AccountPlaylists == 1..2
NoPlaylistID == 0
GivenTexts == {anID, aName}
ParsedID == [text \in GivenTexts |-> IF text = anID THEN 1 ELSE NoPlaylistID]

=============================================================================
