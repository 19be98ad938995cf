\* Two imports at once over one file, which may be cleared.
SPECIFICATION CacheSpec
CONSTANTS
    Procs = {p1, p2}
    Queries = {q1, q2}
    TTL = 2
    MaxTime <- ThreeDays
    MaxClears = 1
    Absent = Absent
    Corrupt = Corrupt
    OtherSchema = OtherSchema
SYMMETRY Symmetry
INVARIANTS
    HitsAreCurrent
PROPERTIES
    FileStaysReadable
CHECK_DEADLOCK FALSE
