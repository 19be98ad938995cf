\* One import of three rows that can converge on two tracks, with another client
\* appending up to one track.
SPECIFICATION Spec
CONSTANTS
    Keys = {k1, k2, k3}
    Tracks = {t1, t2}
    NoTrack = NoTrack
    BadTrack = BadTrack
    N = 3
    InitialContents <- EmptyOrOne
    MaxRuns = 1
    MaxForeign = 1
SYMMETRY Symmetry
INVARIANTS
    AppendsOnce
    ReportIsTrue
    EveryPlannedRowTried
    AddedInSourceOrder
PROPERTIES
    WritesNeedAPlan
    VerdictsAreFinal
    KeepsContract
CHECK_DEADLOCK FALSE
