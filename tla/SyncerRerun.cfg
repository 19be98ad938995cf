\* Two imports of two rows into the account, with no other client.
SPECIFICATION FairSpec
CONSTANTS
    Keys = {k1, k2}
    Tracks = {t1, t2}
    NoTrack = NoTrack
    BadTrack = BadTrack
    N = 2
    InitialContents <- EmptyOrDouble
    MaxRuns = 2
    MaxForeign = 0
INVARIANTS
    RerunsAppendNoCopy
PROPERTIES
    RunReturns
CHECK_DEADLOCK FALSE
