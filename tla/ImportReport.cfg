\* Is every row of the source in a report that was written?
SPECIFICATION Spec
CONSTANTS
    Playlists <- AccountPlaylists
    NoID <- NoPlaylistID
    Texts <- GivenTexts
    NoText = NoText
    anID = anID
    aName = aName
    IdOf <- ParsedID
    MaxRows = 2
    MaxLines = 2
INVARIANTS
    ReportHasEveryRow
CHECK_DEADLOCK FALSE
