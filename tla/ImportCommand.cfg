\* Every combination of flags, sources and inputs, failing anywhere.
SPECIFICATION FairSpec
CONSTANTS
    Playlists <- AccountPlaylists
    NoID <- NoPlaylistID
    Texts <- GivenTexts
    NoText = NoText
    anID = anID
    aName = aName
    IdOf <- ParsedID
    MaxRows = 2
    MaxLines = 2
INVARIANTS
    WriteIsConsented
    QuietAsksNothing
    ExitZeroIsComplete
PROPERTIES
    CommandEnds
CHECK_DEADLOCK FALSE
