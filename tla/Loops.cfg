\* Three rows show every pattern a row can meet: a first occurrence, a repeat of
\* it, a converging match before or after either.  Credit lists of up to three
\* artists, with masks or without, and texts of up to three letters.  Thresholds
\* below, between and above the defaults, and outside of what is accepted.  A row
\* of every version, with and without artists, and two candidates.
SPECIFICATION LoopsSpec
CONSTANTS
    Keys = {k1, k2, comment}
    Comments = {comment}
    Blank = Blank
    Tracks = {t1, t2}
    NoTrack = NoTrack
    BadTrack = BadTrack
    N = 3
    Grades <- ThreeGrades
    MaxArtists = 3
    MaskLimits <- MaskSizes
    Letters <- TwoLetters
    MaxLetters = 3
    Numbers <- Thresholds
    NaN = NaN
    Unset = Unset
    Malformed = Malformed
    NoFile = NoFile
    Unreadable = Unreadable
    Candidates <- MixesAndLimits
    Configs <- DefaultOrLenient
    MaxPool <- TwoCandidates
SYMMETRY Symmetry
INVARIANTS
    LoopIsBuildPlan
    PlanIsSound
    AssignmentIsBest
    TextsAreCompared
    SettingsAreObeyed
    WrongSongIsLow
    ChosenIsEarned
    ExtendedWins
CHECK_DEADLOCK FALSE
